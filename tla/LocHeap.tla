------------------------------ MODULE LocHeap -------------------------------
(***************************************************************************)
(* The binary tree of gps/utils/LocHeap.cpp. Its nodes stay where they are *)
(* and swap their data, so a node is the path to it from the top. A step   *)
(* is what one call of the recursive push or pop does to its node: push    *)
(* drops the new data into the smaller subtree, pop swaps the data to pop  *)
(* down to a leaf. remove searches by address and prunes by rank. Sizes    *)
(* are counted on the way down and not on the way back, as no call reads   *)
(* that of a node above its own.                                           *)
(***************************************************************************)
EXTENDS Naturals, Sequences, FiniteSets

CONSTANTS Address, Rank, MaxSize

Elem == [addr : Address, rank : Rank]
Null == [addr |-> "null", rank |-> 0]

ASSUME HeapAssumption == Rank \subseteq Nat /\ MaxSize \in Nat /\ Null \notin Elem

(* Deadlines rank by being sooner, as in LocTimerDelegate::ranks. *)
OutRanks(x, y) == x.rank < y.rank

VARIABLES
  mData,   \* of each node there is: its data
  mSize,   \* of each node: how many there are in its subtree
  call     \* the call that is made next: for which node, with what data

heapVars == <<mData, mSize, call>>

NoCall == [fn |-> "none", node |-> "none"]
Nodes == DOMAIN mData

mTree == <<>>
mLeft(p) == Append(p, "left")
mRight(p) == Append(p, "right")

(* q is in the subtree of p                                                *)
Within(p, q) == Len(p) <= Len(q) /\ \A i \in 1..Len(p) : p[i] = q[i]
Above(p) == {q \in Nodes : q # p /\ Within(q, p)}
Size(p) == IF p \in Nodes THEN mSize[p] ELSE 0

(* What is in the heap: data on its way down has come, or is gone, already *)
Data ==
  {mData[p] : p \in {q \in Nodes : call.fn = "pop" => q # call.node}}
    \cup (IF call.fn = "push" THEN {call.data} ELSE {})

peek == IF mTree \in Nodes THEN mData[mTree] ELSE Null

HeapInit == mData = [p \in {} |-> Null] /\ mSize = [p \in {} |-> 0] /\ call = NoCall

-----------------------------------------------------------------------------
NewNode(p, x) ==
  /\ mData' = [q \in Nodes \cup {p} |-> IF q = p THEN x ELSE mData[q]]
  /\ mSize' = [q \in Nodes \cup {p} |-> IF q = p THEN 1 ELSE mSize[q]]
  /\ call' = NoCall

SmallerSubtree(p) ==
  IF mLeft(p) \in Nodes /\ (mRight(p) \notin Nodes \/ Size(mRight(p)) < Size(mLeft(p)))
  THEN mRight(p) ELSE mLeft(p)

Drop(p, kept, dropped) ==
  /\ mData' = [mData EXCEPT ![p] = kept]
  /\ mSize' = [mSize EXCEPT ![p] = @ + 1]
  /\ call' = [fn |-> "push", node |-> SmallerSubtree(p), data |-> dropped]

(* Mutant: the data is not swapped with that of the new node. *)
PushNodeNoSwap(p, x) ==
  IF p \notin Nodes THEN NewNode(p, x) ELSE Drop(p, mData[p], x)

(* Where there is no node the one with the new data is attached.           *)
PushNode(p, x) ==
  CASE p \notin Nodes -> NewNode(p, x)
    [] p \in Nodes /\ OutRanks(x, mData[p]) -> Drop(p, x, mData[p])
    [] p \in Nodes /\ ~OutRanks(x, mData[p]) -> Drop(p, mData[p], x)

(* The node whose data replaces that of p                                  *)
subTop(p) ==
  IF /\ mLeft(p) \in Nodes
     /\ mRight(p) \in Nodes => OutRanks(mData[mLeft(p)], mData[mRight(p)])
  THEN mLeft(p) ELSE mRight(p)

(* p loses a node in its subtree; `size` has the sizes of the others.      *)
PopNode(p, size) ==
  LET sub == subTop(p)
      left == [size EXCEPT ![p] = @ - 1]
  IN
  IF sub \in Nodes
  THEN /\ mData' = [mData EXCEPT ![p] = mData[sub], ![sub] = mData[p]]
       /\ mSize' = left
       /\ call' = [fn |-> "pop", node |-> sub]
  ELSE /\ mData' = [q \in Nodes \ {p} |-> mData[q]]
       /\ mSize' = [q \in Nodes \ {p} |-> left[q]]
       /\ call' = NoCall

(* Mutant: the search stops at an equal rank. *)
FoundPrunesEqual(x) ==
  {p \in Nodes : mData[p] = x /\ \A q \in Above(p) : mData[q] # x /\ OutRanks(mData[q], x)}

(* Where the search for x ends: it leaves a subtree whose top x outranks.  *)
Found(x) ==
  {p \in Nodes : mData[p] = x /\ \A q \in Above(p) : mData[q] # x /\ ~OutRanks(x, mData[q])}

OneLess(above) == [q \in Nodes |-> IF q \in above THEN mSize[q] - 1 ELSE mSize[q]]

(* A timer is pushed once, under an address of its own. *)
push(x) ==
  /\ call = NoCall
  /\ Cardinality(Data) < MaxSize
  /\ \A y \in Data : y.addr # x.addr
  /\ PushNode(mTree, x)
pushDown == call.fn = "push" /\ PushNode(call.node, call.data)

pop == call = NoCall /\ mTree \in Nodes /\ PopNode(mTree, mSize)
popDown == call.fn = "pop" /\ PopNode(call.node, mSize)

(* An element in the heap, or one that has left it already *)
remove(x) ==
  /\ call = NoCall
  /\ \A y \in Data : y.addr = x.addr => y = x
  /\ IF Found(x) = {} THEN UNCHANGED heapVars
     ELSE \E p \in Found(x) : PopNode(p, OneLess(Above(p)))

HeapNext ==
  \/ \E x \in Elem : push(x) \/ remove(x)
  \/ pop \/ pushDown \/ popDown

HeapSpec == HeapInit /\ [][HeapNext]_heapVars

-----------------------------------------------------------------------------
(* LocHeapNode::checkNodes, the consistency check of the unit test: sizes  *)
(* add up and no child outranks its parent, in every subtree.              *)
checkNodes ==
  \A p \in Nodes :
    /\ mSize[p] = 1 + Size(mLeft(p)) + Size(mRight(p))
    /\ \A c \in {mLeft(p), mRight(p)} \cap Nodes : ~OutRanks(mData[c], mData[p])

(* After any sequence of push, pop and remove the tree is consistent, and  *)
(* holds as many elements as it says.                                      *)
TreeConsistent == checkNodes /\ Size(mTree) = Cardinality(Data)

(* remove prunes its search by rank: "subtrees might have this node" only  *)
(* if it does not outrank their parent. In every tree that comes about,    *)
(* with any number of equal ranks, it finds each element where it is, and  *)
(* nowhere else.                                                           *)
RemoveFinds == \A p \in Nodes : Found(mData[p]) = {p}

(* A tree in order, in which every search ends where it should.            *)
TreeSearchable == call = NoCall => TreeConsistent /\ RemoveFinds

Abstract == INSTANCE RankedSet WITH
  heap <- Data, top <- peek, Outranks <- OutRanks, None <- Null

(* Every step on the tree is one of RankedSet on the set of its data, with *)
(* the data at the root as top: pop takes away a highest ranked element    *)
(* and no other, remove the one it is asked to, and the top changes only   *)
(* when it must.                                                           *)
ImplementsRankedSet == Abstract!Spec
=============================================================================
