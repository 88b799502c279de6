-------------------------------- MODULE Queue -------------------------------
(* What the models of the message queues ask of a sequence. *)
EXTENDS Naturals, Sequences, FiniteSets

IsIn(x, q) == \E i \in 1..Len(q) : q[i] = x

(* How many of the positions P there are up to i                           *)
UpTo(P, i) == Cardinality({j \in P : j <= i})

(* The last of the requests are the kinds of the messages of q that are at *)
(* the positions P, in the same order.                                     *)
EndsWith(requests, q, P) ==
  /\ Len(requests) >= Cardinality(P)
  /\ \A i \in P : requests[Len(requests) - Cardinality(P) + UpTo(P, i)] = q[i].msg
=============================================================================
