---------------------------- MODULE AdapterTask -----------------------------
(***************************************************************************)
(* The message task of GnssAdapter as the modules of its requests share    *)
(* it: threads of the modem, of clients and of timers append messages, the *)
(* task handles one after the other. MsgTask models the queue itself.      *)
(***************************************************************************)
EXTENDS Integers, Sequences, FiniteSets, Queue

CONSTANT MaxInputs   \* bound on the messages that come from outside

ASSUME InputAssumption == MaxInputs \in Nat

VARIABLES
  msgQ,      \* the queue of the message task
  inputs,    \* messages from outside so far
  handling   \* what is left of a message that is handled in steps, <<>> if none

taskVars == <<msgQ, inputs, handling>>

TaskInit == msgQ = <<>> /\ inputs = 0 /\ handling = <<>>

(* A message from outside; and one the adapter sends itself *)
Input(m) ==
  /\ inputs < MaxInputs
  /\ inputs' = inputs + 1
  /\ msgQ' = Append(msgQ, m)
  /\ UNCHANGED handling
Post(m) == msgQ' = Append(msgQ, m) /\ UNCHANGED <<inputs, handling>>

(* The task takes the next message: one it handles in one step, or in more *)
Takes(kind) ==
  /\ handling = <<>>
  /\ msgQ # <<>>
  /\ Head(msgQ).msg = kind
  /\ msgQ' = Tail(msgQ)
  /\ UNCHANGED inputs
Receive(kind) == Takes(kind) /\ UNCHANGED handling
=============================================================================
