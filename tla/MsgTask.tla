------------------------------- MODULE MsgTask ------------------------------
(***************************************************************************)
(* MsgTask (gps/utils/MsgTask.cpp) on its message queue (msg_q.c): a       *)
(* LocRunnable whose thread handles one message after the other, sent by   *)
(* any other thread, until destroy() unblocks the queue.                   *)
(*                                                                         *)
(* The object is the runnable of module LocThread: the thread deletes it.  *)
(* Every operation of the queue holds its mutex and is one step; a wait on *)
(* the condition variable lets the mutex go, and is a place of its own.    *)
(***************************************************************************)
EXTENDS LocThread, Sequences

CONSTANTS MaxMsgs   \* bound on the messages sent

ASSUME MsgAssumption == MaxMsgs \in Nat

VARIABLES
  msg_list,    \* the queued messages, the oldest first
  unblocked,
  signalled,   \* has the condition the thread waits on been signalled?
  msg,         \* the message being handled, as a sequence of at most one
  destroying,  \* how far the client's destroy() is
  sent,        \* number of messages sent, which also names them
  accepted,    \* those the queue took
  handled      \* those that were handled

queueVars == <<msg_list, unblocked, signalled>>
ghostVars == <<sent, accepted, handled>>
msgVars == <<queueVars, msg, destroying, ghostVars>>
vars == <<threadVars, msgVars>>

TypeOK ==
  /\ ThreadTypeOK
  /\ msg_list \in Seq(1..MaxMsgs)
  /\ unblocked \in BOOLEAN
  /\ signalled \in BOOLEAN
  /\ msg \in Seq(1..MaxMsgs) /\ Len(msg) <= 1
  /\ destroying \in {"no", "unblocked", "cleared", "deleted"}
  /\ sent \in 0..MaxMsgs
  /\ accepted \in Seq(1..MaxMsgs)
  /\ handled \in Seq(1..MaxMsgs)

Init ==
  /\ ThreadInit
  /\ msg_list = <<>>
  /\ unblocked = FALSE
  /\ signalled = FALSE
  /\ msg = <<>>
  /\ destroying = "no"
  /\ sent = 0
  /\ accepted = <<>>
  /\ handled = <<>>

-----------------------------------------------------------------------------
(* The queue *)

(* Mutant: the newest message is received first. *)
msg_q_sndFront(m) ==
  IF unblocked
    THEN UNCHANGED <<queueVars, accepted>>
    ELSE /\ msg_list' = <<m>> \o msg_list
         /\ signalled' = (thread = "wait")
         /\ accepted' = Append(accepted, m)
         /\ UNCHANGED unblocked

(* Mutant: nobody is woken for a message. *)
msg_q_sndNoSignal(m) ==
  IF unblocked
    THEN UNCHANGED <<queueVars, accepted>>
    ELSE /\ msg_list' = Append(msg_list, m)
         /\ accepted' = Append(accepted, m)
         /\ UNCHANGED <<unblocked, signalled>>

(* A signal reaches a thread that waits, and nobody else. *)
msg_q_snd(m) ==
  IF unblocked
    THEN UNCHANGED <<queueVars, accepted>>
    ELSE /\ msg_list' = Append(msg_list, m)
         /\ signalled' = (thread = "wait")
         /\ accepted' = Append(accepted, m)
         /\ UNCHANGED unblocked

(* Mutant: the waiting thread is not woken. *)
msg_q_unblockNoSignal == unblocked' = TRUE /\ UNCHANGED <<signalled, msg_list>>

msg_q_unblock ==
  /\ unblocked' = TRUE
  /\ signalled' = (thread = "wait")
  /\ UNCHANGED msg_list

(* linked_list_remove: the oldest message, or none, in which case run()    *)
(* returns false.                                                          *)
Remove(from) ==
  IF msg_list = <<>>
    THEN Move(from, "finish") /\ UNCHANGED <<msg, msg_list>>
    ELSE /\ Move(from, "proc")
         /\ msg' = <<Head(msg_list)>>
         /\ msg_list' = Tail(msg_list)

-----------------------------------------------------------------------------
(* Senders: any thread that has the MsgTask, as long as there is one. A    *)
(* message the queue refuses is not deleted by anybody.                    *)
sendMsg ==
  /\ runnable = "live"
  /\ client # "create"
  /\ sent < MaxMsgs
  /\ sent' = sent + 1
  /\ msg_q_snd(sent + 1)
  /\ UNCHANGED <<threadVars, msg, destroying, handled>>

-----------------------------------------------------------------------------
(* The client: the constructor starts the thread, and deletes LocThread if *)
(* this fails.                                                             *)
construct ==
  /\ \/ pthreadCreate
     \/ create
     \/ started = "false" /\ clientDestroy
  /\ UNCHANGED msgVars

(* destroy() in its steps *)
destroyUnblock ==
  /\ client = IF started = "false" THEN "done" ELSE "using"
  /\ destroying = "no"
  /\ destroying' = "unblocked"
  /\ msg_q_unblock
  /\ UNCHANGED <<threadVars, msg, ghostVars>>

(* mThread = NULL: a write to the object itself *)
destroyClear ==
  /\ destroying = "unblocked"
  /\ started = "true"
  /\ destroying' = "cleared"
  /\ UNCHANGED <<threadVars, queueVars, msg, ghostVars>>

(* delete thread *)
destroyThread ==
  /\ destroying = "cleared"
  /\ bye \/ join \/ clientDestroy
  /\ destroying' = IF client' = "done" THEN "deleted" ELSE "cleared"
  /\ UNCHANGED <<queueVars, msg, ghostVars>>

(* ~MsgTask flushes the queue, deleting what is in it. *)
Flush == msg_list' = <<>> /\ UNCHANGED <<unblocked, signalled, msg, ghostVars>>

(* Without a thread, destroy() deletes the object. *)
destroyThis ==
  /\ destroying = "unblocked"
  /\ started = "false"
  /\ destroying' = "deleted"
  /\ runnable' = "deleted"
  /\ Flush
  /\ UNCHANGED <<joinable, mRunnable, mJoinable, mRefCount, delegate, started, client, thread>>

-----------------------------------------------------------------------------
(* The thread: run() *)

(* msg_q_rcv, up to its wait *)
receive ==
  /\ CASE unblocked -> Move("run", "finish") /\ UNCHANGED <<queueVars, msg>>
       [] ~unblocked /\ msg_list = <<>> ->
            Move("run", "wait") /\ UNCHANGED <<queueVars, msg>>
       [] OTHER -> Remove("run") /\ UNCHANGED <<unblocked, signalled>>
  /\ UNCHANGED <<mRunnable, mRefCount, delegate, runnable, destroying, ghostVars>>

(* pthread_cond_wait returns, be it without a signal; the loop around it   *)
(* looks again.                                                            *)
wakeUp ==
  /\ thread = "wait"
  /\ signalled' = FALSE
  /\ IF msg_list = <<>> /\ ~unblocked
       THEN Move("wait", "wait") /\ UNCHANGED <<msg_list, msg>>
       ELSE Remove("wait")
  /\ UNCHANGED <<unblocked, mRunnable, mRefCount, delegate, runnable, destroying, ghostVars>>

(* The message is handled and deleted. *)
proc ==
  /\ Move("proc", "loop")
  /\ handled' = handled \o msg
  /\ msg' = <<>>
  /\ UNCHANGED <<queueVars, mRunnable, mRefCount, delegate, runnable, destroying, sent, accepted>>

(* delete runnable *)
deleteTask == deleteRunnable /\ Flush /\ UNCHANGED destroying

threadLoop ==
  /\ threadMain \/ isRunning \/ threadDestroy
  /\ UNCHANGED msgVars

-----------------------------------------------------------------------------
Client == construct \/ destroyClear \/ destroyThread \/ destroyThis

Thread == receive \/ wakeUp \/ proc \/ deleteTask \/ threadLoop

Next == sendMsg \/ destroyUnblock \/ Client \/ Thread

Spec == Init /\ [][Next]_vars

(* The thread runs, unless it waits and nobody has signalled; the handlers *)
(* return; and what the client has begun it finishes. Nobody has to send   *)
(* anything, or to call destroy().                                         *)
FairSpec ==
  /\ Spec
  /\ WF_vars((thread = "wait" => signalled) /\ Thread)
  /\ WF_vars(Client)

-----------------------------------------------------------------------------
(* Properties *)

(* Each accepted message is handled once, in the order of acceptance ("the *)
(* oldest message received", msg_q.h): at any time the accepted ones are   *)
(* the handled, the one in hand and the queued, until the flush.           *)
HandledInOrder ==
  IF runnable = "live"
    THEN accepted = handled \o msg \o msg_list
    ELSE \E n \in 0..Len(accepted) : handled = SubSeq(accepted, 1, n)

(* msg_q_rcv looks at the list and waits under one mutex: the thread does  *)
(* not sleep on a queue that has something for it.                         *)
NoLostSignal ==
  thread = "wait" /\ ~signalled => msg_list = <<>> /\ ~unblocked

(* Every accepted message is handled, unless the task is destroyed first,  *)
(* or never got a thread: sendMsg does not tell.                           *)
AcceptedHandled ==
  \A m \in 1..MaxMsgs :
    (\E i \in DOMAIN msg_list : msg_list[i] = m) ~>
      (\E i \in DOMAIN handled : handled[i] = m) \/ unblocked \/ started = "false"

(* A destroy() comes to its end whatever the thread was doing: the queue   *)
(* is unblocked before a joinable thread is joined. A detached one leaves  *)
(* neither the object, nor its messages, nor the delegate behind.          *)
DestroyCompletes ==
  destroying # "no" ~>
    /\ destroying = "deleted"
    /\ ~joinable => runnable = "deleted" /\ delegate = "deleted" /\ msg_list = <<>>

(* What was accepted is handled, and what is destroyed comes to its end.   *)
TaskEnds == AcceptedHandled /\ DestroyCompletes

(* "if joinable, parent must stop the spawned thread, join, and then       *)
(* destroy()" (LocThread.cpp): when destroy() has returned, no message is  *)
(* being handled, and none will be.                                        *)
JoinedFirst ==
  joinable /\ destroying = "deleted" => thread \in {"none", "exited"}

(* Thread and client share the delegate to the end of both.                *)
DelegateOutlives == TypeOK /\ DelegateShared /\ JoinedFirst

(* "this obj will be deleted once thread is deleted" (MsgTask.h:50): the   *)
(* object outlives destroy()'s own use of it.                              *)
DeletedOnceThreadDeleted == runnable = "deleted" => destroying \in {"cleared", "deleted"}
=============================================================================
