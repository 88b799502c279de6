----------------------------- MODULE RankedSet ------------------------------
(***************************************************************************)
(* What LocHeap (gps/utils/LocHeap.h) promises its users: a set of ranked  *)
(* elements and one of the highest ranked, the top. The top gives way only *)
(* to an element that strictly outranks it, or by leaving the set.         *)
(***************************************************************************)
EXTENDS Naturals

CONSTANTS
  Elem,            \* what may be pushed
  None,            \* the null pointer
  Outranks(_, _)   \* LocRankable::outRanks

VARIABLES heap, top

Highest(S) == {x \in S : \A y \in S : ~Outranks(y, x)}

TopOf(S) == IF S = {} THEN {None} ELSE Highest(S)

Init == heap = {} /\ top = None

push(x) ==
  /\ heap' = heap \cup {x}
  /\ top' = IF top = None \/ Outranks(x, top) THEN x ELSE top

pop ==
  /\ heap # {}
  /\ heap' = heap \ {top}
  /\ top' \in TopOf(heap')

(* An element that is not there, any more, is left alone. *)
remove(x) ==
  /\ heap' = heap \ {x}
  /\ IF x = top THEN top' \in TopOf(heap') ELSE UNCHANGED top

Next == pop \/ \E x \in Elem : push(x) \/ remove(x)

Spec == Init /\ [][Next]_<<heap, top>>

(* The top is an element that nothing outranks. *)
TopIsHighest == IF heap = {} THEN top = None ELSE top \in Highest(heap)

=============================================================================
