---------------------------- MODULE QueueTheorems ---------------------------
(* What sending and receiving a message do to a queue. *)
EXTENDS Queue, FiniteSetTheorems, TLAPS

(* Appending to a queue keeps its elements and adds one. *)
LEMMA AppendProperties ==
  ASSUME NEW S, NEW q \in Seq(S), NEW x \in S
  PROVE  /\ Append(q, x) \in Seq(S)
         /\ IsIn(x, Append(q, x))
         /\ \A y : IsIn(y, q) => IsIn(y, Append(q, x))
<1>1. Append(q, x) \in Seq(S)
  OBVIOUS
<1>2. Len(Append(q, x)) = Len(q) + 1 /\ Append(q, x)[Len(q) + 1] = x
  OBVIOUS
<1>3. \A i \in 1..Len(q) : Append(q, x)[i] = q[i]
  OBVIOUS
<1>4. Len(q) \in Nat
  OBVIOUS
<1> QED BY <1>1, <1>2, <1>3, <1>4 DEF IsIn

(* Taking the head off a queue leaves the other elements in it. *)
LEMMA TailProperties ==
  ASSUME NEW S, NEW q \in Seq(S), q # <<>>
  PROVE  /\ Tail(q) \in Seq(S)
         /\ \A y : IsIn(y, q) /\ y # Head(q) => IsIn(y, Tail(q))
<1>1. Tail(q) \in Seq(S)
  OBVIOUS
<1>2. Len(q) \in Nat /\ Len(q) > 0 /\ Len(Tail(q)) = Len(q) - 1
  OBVIOUS
<1>3. Head(q) = q[1]
  OBVIOUS
<1>4. \A i \in 1..Len(Tail(q)) : Tail(q)[i] = q[i + 1]
  OBVIOUS
<1>5. ASSUME NEW y, IsIn(y, q), y # Head(q) PROVE IsIn(y, Tail(q))
  <2>1. PICK i \in 1..Len(q) : q[i] = y
    BY <1>5 DEF IsIn
  <2>2. i - 1 \in 1..Len(Tail(q)) /\ (i - 1) + 1 = i
    BY <2>1, <1>2, <1>3, <1>5
  <2> QED BY <2>1, <2>2, <1>4 DEF IsIn
<1> QED BY <1>1, <1>5

-----------------------------------------------------------------------------
(* The same whatever the messages are. *)
IsQueue(q) == q \in Seq({q[i] : i \in 1..Len(q)})

LEMMA QueueOf ==
  ASSUME NEW S, NEW q \in Seq(S)
  PROVE  IsQueue(q) /\ Len(q) \in Nat
<1>1. Len(q) \in Nat /\ q \in [1..Len(q) -> S]
  OBVIOUS
<1>2. q \in [1..Len(q) -> {q[i] : i \in 1..Len(q)}]
  BY <1>1
<1> QED BY <1>1, <1>2 DEF IsQueue

LEMMA QueueAppend ==
  ASSUME NEW q, IsQueue(q), NEW x
  PROVE  /\ Len(q) \in Nat
         /\ IsQueue(Append(q, x))
         /\ Len(Append(q, x)) = Len(q) + 1
         /\ Append(q, x)[Len(q) + 1] = x
         /\ \A i \in 1..Len(q) : Append(q, x)[i] = q[i]
<1> DEFINE S == {q[i] : i \in 1..Len(q)} \cup {x}
<1>1. q \in Seq(S) /\ x \in S
  <2>1. Len(q) \in Nat /\ q \in [1..Len(q) -> {q[i] : i \in 1..Len(q)}]
    BY DEF IsQueue
  <2>2. q \in [1..Len(q) -> S]
    BY <2>1
  <2> QED BY <2>1, <2>2
<1> HIDE DEF S
<1>2. Append(q, x) \in Seq(S) /\ Len(q) \in Nat
  BY <1>1
<1>3. IsQueue(Append(q, x))
  BY <1>2, QueueOf
<1>4. Len(Append(q, x)) = Len(q) + 1 /\ Append(q, x)[Len(q) + 1] = x
  BY <1>1
<1>5. \A i \in 1..Len(q) : Append(q, x)[i] = q[i]
  BY <1>1
<1> QED BY <1>2, <1>3, <1>4, <1>5

LEMMA QueueTail ==
  ASSUME NEW q, IsQueue(q), q # <<>>
  PROVE  /\ Len(q) \in Nat \ {0}
         /\ IsQueue(Tail(q))
         /\ Len(Tail(q)) = Len(q) - 1
         /\ Head(q) = q[1]
         /\ \A i \in 1..Len(Tail(q)) : Tail(q)[i] = q[i + 1]
<1> DEFINE S == {q[i] : i \in 1..Len(q)}
<1>1. q \in Seq(S)
  BY DEF IsQueue
<1> HIDE DEF S
<1>2. Len(q) \in Nat \ {0} /\ Tail(q) \in Seq(S)
  BY <1>1
<1>3. IsQueue(Tail(q))
  BY <1>2, QueueOf
<1>4. Len(Tail(q)) = Len(q) - 1 /\ Head(q) = q[1]
  BY <1>1
<1>5. \A i \in 1..Len(Tail(q)) : Tail(q)[i] = q[i + 1]
  BY <1>1
<1> QED BY <1>2, <1>3, <1>4, <1>5

LEMMA QueueConcat ==
  ASSUME NEW q, IsQueue(q), NEW r, IsQueue(r)
  PROVE  /\ Len(q) \in Nat /\ Len(r) \in Nat
         /\ IsQueue(q \o r)
         /\ Len(q \o r) = Len(q) + Len(r)
         /\ \A i \in 1..Len(q) : (q \o r)[i] = q[i]
         /\ \A i \in 1..Len(r) : (q \o r)[Len(q) + i] = r[i]
<1> DEFINE S == {q[i] : i \in 1..Len(q)} \cup {r[i] : i \in 1..Len(r)}
<1>1. q \in Seq(S) /\ r \in Seq(S)
  <2>1. /\ Len(q) \in Nat /\ q \in [1..Len(q) -> {q[i] : i \in 1..Len(q)}]
        /\ Len(r) \in Nat /\ r \in [1..Len(r) -> {r[i] : i \in 1..Len(r)}]
    BY DEF IsQueue
  <2>2. q \in [1..Len(q) -> S] /\ r \in [1..Len(r) -> S]
    BY <2>1
  <2> QED BY <2>1, <2>2
<1> HIDE DEF S
<1>2. q \o r \in Seq(S) /\ Len(q) \in Nat /\ Len(r) \in Nat
  BY <1>1
<1>3. IsQueue(q \o r)
  BY <1>2, QueueOf
<1>4. Len(q \o r) = Len(q) + Len(r)
  BY <1>1
<1>5. \A i \in 1..Len(q) : (q \o r)[i] = q[i]
  BY <1>1
<1>6. \A i \in 1..Len(r) : (q \o r)[Len(q) + i] = r[i]
  BY <1>1
<1> QED BY <1>2, <1>3, <1>4, <1>5, <1>6

LEMMA ShortQueues ==
  /\ IsQueue(<<>>)
  /\ \A x : IsQueue(<<x>>)
  /\ \A x, y : IsQueue(<<x, y>>)
<1>1. <<>> \in Seq({1})
  OBVIOUS
<1>2. \A x : <<x>> \in Seq({x})
  OBVIOUS
<1>3. \A x, y : <<x, y>> \in Seq({x, y})
  OBVIOUS
<1> QED BY <1>1, <1>2, <1>3, QueueOf

LEMMA AppendConcat ==
  ASSUME NEW q, IsQueue(q), NEW x
  PROVE  Append(q, x) = q \o <<x>>
<1> DEFINE S == {q[i] : i \in 1..Len(q)} \cup {x}
<1>1. q \in Seq(S) /\ x \in S
  <2>1. Len(q) \in Nat /\ q \in [1..Len(q) -> {q[i] : i \in 1..Len(q)}]
    BY DEF IsQueue
  <2>2. q \in [1..Len(q) -> S]
    BY <2>1
  <2> QED BY <2>1, <2>2
<1> HIDE DEF S
<1> QED BY <1>1

(* A message stays in the queue until it is received. *)
LEMMA StillIn ==
  ASSUME NEW q, IsQueue(q), NEW x, IsIn(x, q)
  PROVE  /\ \A y : IsIn(x, Append(q, y))
         /\ \A r : IsQueue(r) => IsIn(x, q \o r)
         /\ q # <<>> /\ x # Head(q) => IsIn(x, Tail(q))
<1>1. PICK i \in 1..Len(q) : q[i] = x
  BY DEF IsIn
<1>2. \A y : IsIn(x, Append(q, y))
  BY <1>1, QueueAppend DEF IsIn
<1>3. ASSUME NEW r, IsQueue(r) PROVE IsIn(x, q \o r)
  <2>1. i \in 1..Len(q \o r) /\ (q \o r)[i] = q[i]
    BY <1>1, <1>3, QueueConcat
  <2> QED BY <1>1, <2>1 DEF IsIn
<1>4. ASSUME q # <<>>, x # Head(q) PROVE IsIn(x, Tail(q))
  <2>1. i - 1 \in 1..Len(Tail(q)) /\ (i - 1) + 1 = i
    BY <1>1, <1>4, QueueTail
  <2> QED BY <1>1, <1>4, <2>1, QueueTail DEF IsIn
<1> QED BY <1>2, <1>3, <1>4

(* No message comes from nowhere. *)
LEMMA EachOfTail ==
  ASSUME NEW q, IsQueue(q), q # <<>>
  PROVE  \A i \in 1..Len(Tail(q)) : i + 1 \in 1..Len(q) /\ Tail(q)[i] = q[i + 1]
BY QueueTail

LEMMA EachOfConcat ==
  ASSUME NEW q, IsQueue(q), NEW r, IsQueue(r), NEW i \in 1..Len(q \o r)
  PROVE  \/ i \in 1..Len(q) /\ (q \o r)[i] = q[i]
         \/ i - Len(q) \in 1..Len(r) /\ (q \o r)[i] = r[i - Len(q)]
<1>0. Len(q) \in Nat /\ Len(r) \in Nat /\ Len(q \o r) = Len(q) + Len(r)
  BY QueueConcat
<1>1. CASE i \in 1..Len(q)
  BY <1>1, QueueConcat
<1>2. CASE i \notin 1..Len(q)
  <2>1. i - Len(q) \in 1..Len(r) /\ Len(q) + (i - Len(q)) = i
    BY <1>0, <1>2
  <2> QED BY <2>1, QueueConcat
<1> QED BY <1>1, <1>2

LEMMA IsInConcat ==
  ASSUME NEW q, IsQueue(q), NEW r, IsQueue(r), NEW x
  PROVE  /\ (\E i \in 1..Len(q) : q[i] = x) => \E i \in 1..Len(q \o r) : (q \o r)[i] = x
         /\ (\E i \in 1..Len(r) : r[i] = x) => \E i \in 1..Len(q \o r) : (q \o r)[i] = x
<1>0. Len(q) \in Nat /\ Len(r) \in Nat /\ Len(q \o r) = Len(q) + Len(r)
  BY QueueConcat
<1>1. ASSUME NEW i \in 1..Len(q), q[i] = x PROVE \E j \in 1..Len(q \o r) : (q \o r)[j] = x
  <2>1. i \in 1..Len(q \o r) /\ (q \o r)[i] = x
    BY <1>0, <1>1, QueueConcat
  <2> QED BY <2>1
<1>2. ASSUME NEW i \in 1..Len(r), r[i] = x PROVE \E j \in 1..Len(q \o r) : (q \o r)[j] = x
  <2>1. Len(q) + i \in 1..Len(q \o r)
    BY <1>0
  <2>2. (q \o r)[Len(q) + i] = x
    BY <1>2, QueueConcat
  <2> QED BY <2>1, <2>2
<1> QED BY <1>1, <1>2

LEMMA ConcatNothing ==
  ASSUME NEW q, IsQueue(q)
  PROVE  q \o <<>> = q
BY DEF IsQueue

(* Two queues are the same if they have the same elements. *)
LEMMA SameQueue ==
  ASSUME NEW q, IsQueue(q), NEW r, IsQueue(r), Len(q) = Len(r), \A i \in 1..Len(q) : q[i] = r[i]
  PROVE  q = r
<1>1. /\ q \in [1..Len(q) -> {q[i] : i \in 1..Len(q)}]
      /\ r \in [1..Len(r) -> {r[i] : i \in 1..Len(r)}]
  BY DEF IsQueue
<1> QED BY <1>1

LEMMA ConcatTwo ==
  ASSUME NEW q, IsQueue(q), NEW x, NEW y
  PROVE  (q \o <<x>>) \o <<y>> = q \o <<x, y>>
<1> DEFINE p == q \o <<x>>
           a == p \o <<y>>
           b == q \o <<x, y>>
<1>1. /\ IsQueue(<<x>>) /\ Len(<<x>>) = 1 /\ <<x>>[1] = x
      /\ IsQueue(<<y>>) /\ Len(<<y>>) = 1 /\ <<y>>[1] = y
      /\ IsQueue(<<x, y>>) /\ Len(<<x, y>>) = 2 /\ <<x, y>>[1] = x /\ <<x, y>>[2] = y
  BY ShortQueues
<1>2. /\ Len(q) \in Nat /\ IsQueue(p) /\ Len(p) = Len(q) + 1
      /\ \A i \in 1..Len(q) : p[i] = q[i]
      /\ p[Len(q) + 1] = x
  BY <1>1, QueueConcat
<1>3. /\ IsQueue(b) /\ Len(b) = Len(q) + 2
      /\ \A i \in 1..Len(q) : b[i] = q[i]
      /\ b[Len(q) + 1] = x /\ b[Len(q) + 2] = y
  <2>1. PICK r : r = <<x, y>>
    OBVIOUS
  <2>2. Len(r) = 2 /\ r[1] = x /\ r[2] = y /\ 1 \in 1..2 /\ 2 \in 1..2
    BY <1>1, <2>1
  <2>0. IsQueue(r)
    BY <1>1, <2>1
  <2>3. /\ IsQueue(q \o r) /\ Len(q \o r) = Len(q) + Len(r)
        /\ \A i \in 1..Len(q) : (q \o r)[i] = q[i]
        /\ \A i \in 1..Len(r) : (q \o r)[Len(q) + i] = r[i]
    BY <2>0, QueueConcat
  <2> QED BY <2>1, <2>2, <2>3
<1> HIDE DEF p, b
<1>4. /\ IsQueue(a) /\ Len(a) = Len(p) + 1
      /\ \A i \in 1..Len(p) : a[i] = p[i]
      /\ a[Len(p) + 1] = y
  <2>1. PICK r : r = <<y>>
    OBVIOUS
  <2>2. Len(r) = 1 /\ r[1] = y /\ 1 \in 1..1
    BY <1>1, <2>1
  <2>0. IsQueue(r) /\ IsQueue(p)
    BY <1>1, <1>2, <2>1
  <2>3. /\ IsQueue(p \o r) /\ Len(p \o r) = Len(p) + Len(r)
        /\ \A i \in 1..Len(p) : (p \o r)[i] = p[i]
        /\ \A i \in 1..Len(r) : (p \o r)[Len(p) + i] = r[i]
    BY <2>0, QueueConcat
  <2> QED BY <2>1, <2>2, <2>3
<1> HIDE DEF a
<1>5. \A i \in 1..Len(a) : i \in 1..Len(q) \/ i = Len(q) + 1 \/ i = Len(q) + 2
  BY <1>2, <1>4
<1>6. \A i \in 1..Len(a) : a[i] = b[i]
  BY <1>2, <1>3, <1>4, <1>5
<1>7. a = b
  BY <1>2, <1>3, <1>4, <1>6, SameQueue
<1> QED BY <1>7 DEF a, b, p

(* An element more, or one less *)
IsOneMore(c, d, e) ==
  /\ IsQueue(e) /\ Len(c) \in Nat /\ Len(e) = Len(c) + 1
  /\ \A k \in 1..Len(c) : k \in 1..Len(e) /\ e[k] = c[k]
  /\ Len(e) \in 1..Len(e) /\ e[Len(e)] = d
  /\ \A k \in 1..Len(e) : k \in 1..Len(c) \/ k = Len(e)

LEMMA QueueGrows ==
  ASSUME NEW c, IsQueue(c), NEW d
  PROVE  IsOneMore(c, d, Append(c, d))
<1>1. /\ Len(c) \in Nat /\ IsQueue(Append(c, d)) /\ Len(Append(c, d)) = Len(c) + 1
      /\ Append(c, d)[Len(c) + 1] = d
      /\ \A i \in 1..Len(c) : Append(c, d)[i] = c[i]
  BY QueueAppend
<1> QED BY <1>1 DEF IsOneMore

IsOneLess(c, e) ==
  /\ IsQueue(e) /\ Len(c) \in Nat \ {0} /\ Len(e) = Len(c) - 1
  /\ Head(c) = c[1] /\ 1 \in 1..Len(c)
  /\ \A k \in 1..Len(e) : k + 1 \in 1..Len(c) /\ e[k] = c[k + 1]
  /\ \A k \in 1..Len(c) : k # 1 => k - 1 \in 1..Len(e) /\ e[k - 1] = c[k]

LEMMA QueueShrinks ==
  ASSUME NEW c, IsQueue(c), c # <<>>
  PROVE  IsOneLess(c, Tail(c))
<1>1. /\ Len(c) \in Nat \ {0} /\ IsQueue(Tail(c)) /\ Len(Tail(c)) = Len(c) - 1 /\ Head(c) = c[1]
      /\ \A i \in 1..Len(Tail(c)) : Tail(c)[i] = c[i + 1]
  BY QueueTail
<1>2. PICK e : e = Tail(c)
  OBVIOUS
<1>3. \A k \in 1..Len(e) : k + 1 \in 1..Len(c) /\ e[k] = c[k + 1]
  BY <1>1, <1>2
<1>4. ASSUME NEW k \in 1..Len(c), k # 1 PROVE k - 1 \in 1..Len(e) /\ e[k - 1] = c[k]
  <2>1. k - 1 \in 1..Len(e) /\ (k - 1) + 1 = k
    BY <1>1, <1>2, <1>4
  <2> QED BY <1>3, <2>1
<1>5. IsOneLess(c, e)
  BY <1>1, <1>2, <1>3, <1>4 DEF IsOneLess
<1> QED BY <1>2, <1>5


-----------------------------------------------------------------------------
(* Some positions of a queue, and requests that end with them *)

LEMMA PositionsFinite ==
  ASSUME NEW n \in Nat, NEW P \in SUBSET (1..n)
  PROVE  IsFiniteSet(P) /\ Cardinality(P) \in Nat
<1>1. PICK S : S = 1..n
  OBVIOUS
<1>2. 1 \in Int /\ n \in Int
  OBVIOUS
<1>3. IsFiniteSet(S)
  BY <1>1, <1>2, FS_Interval
<1>4. P \in SUBSET S
  BY <1>1
<1> QED BY <1>3, <1>4, FS_Subset, FS_CardinalityType

LEMMA ShiftedPositions ==
  ASSUME NEW n \in Nat, NEW A \in SUBSET (1..n), NEW B, B = {i + 1 : i \in A}
  PROVE  IsFiniteSet(B) /\ Cardinality(B) = Cardinality(A)
<1> DEFINE f == [i \in A |-> i + 1]
<1>1. f \in [A -> B] /\ \A i \in A : f[i] = i + 1 /\ i \in Nat
  OBVIOUS
<1> HIDE DEF f
<1>2. \A i, j \in A : f[i] = f[j] => i = j
  BY <1>1
<1>3. \A b \in B : \E i \in A : f[i] = b
  BY <1>1
<1>4. f \in Bijection(A, B)
  BY <1>1, <1>2, <1>3 DEF Bijection, Injection, Surjection, IsInjective
<1>5. IsFiniteSet(A)
  BY PositionsFinite
<1> QED BY <1>4, <1>5, FS_Bijection DEF ExistsBijection

LEMMA UpToTypes ==
  ASSUME NEW n \in Nat, NEW P \in SUBSET (1..n)
  PROVE  /\ IsFiniteSet(P) /\ Cardinality(P) \in Nat
         /\ \A i \in P : UpTo(P, i) \in 1..Cardinality(P)
<1>1. IsFiniteSet(P) /\ Cardinality(P) \in Nat
  BY PositionsFinite
<1>2. ASSUME NEW i \in P PROVE UpTo(P, i) \in 1..Cardinality(P)
  <2> DEFINE A == {j \in P : j <= i}
  <2>1. A \in SUBSET P /\ i \in A
    OBVIOUS
  <2> HIDE DEF A
  <2>2. IsFiniteSet(A) /\ Cardinality(A) <= Cardinality(P) /\ Cardinality(A) \in Nat
    BY <1>1, <2>1, FS_Subset, FS_CardinalityType
  <2>3. Cardinality(A) # 0
    BY <2>1, <2>2, FS_EmptySet
  <2>4. UpTo(P, i) = Cardinality(A)
    BY DEF UpTo, A
  <2> QED BY <1>1, <2>2, <2>3, <2>4
<1> QED BY <1>1, <1>2

LEMMA UpToMore ==
  ASSUME NEW n \in Nat, NEW P \in SUBSET (1..n)
  PROVE  /\ Cardinality(P \cup {n + 1}) = Cardinality(P) + 1
         /\ UpTo(P \cup {n + 1}, n + 1) = Cardinality(P) + 1
         /\ \A i \in P : UpTo(P \cup {n + 1}, i) = UpTo(P, i)
<1>1. Cardinality(P \cup {n + 1}) = Cardinality(P) + 1
  BY UpToTypes, FS_AddElement
<1>2. {j \in P \cup {n + 1} : j <= n + 1} = P \cup {n + 1}
  <2>1. \A j \in P \cup {n + 1} : j <= n + 1
    OBVIOUS
  <2> QED BY <2>1
<1>3. ASSUME NEW i \in P PROVE {j \in P \cup {n + 1} : j <= i} = {j \in P : j <= i}
  <2>1. ~(n + 1 <= i)
    OBVIOUS
  <2> QED BY <2>1
<1> QED BY <1>1, <1>2, <1>3 DEF UpTo

(* The positions P in what is left of a queue, n elements, without its head *)
WithoutHead(P, n) == {i \in 1..n : i + 1 \in P}

LEMMA UpToLess ==
  ASSUME NEW n \in Nat, NEW P \in SUBSET (1..n + 1), NEW R, R = WithoutHead(P, n)
  PROVE  /\ R \in SUBSET (1..n)
         /\ Cardinality(R) = IF 1 \in P THEN Cardinality(P) - 1 ELSE Cardinality(P)
         /\ \A i \in R : UpTo(R, i) = IF 1 \in P THEN UpTo(P, i + 1) - 1 ELSE UpTo(P, i + 1)
<1> USE DEF WithoutHead
<1>0. R \in SUBSET (1..n)
  OBVIOUS
<1>1. ASSUME NEW A \in SUBSET (1..n + 1), NEW B, B = {i \in 1..n : i + 1 \in A}
      PROVE  Cardinality(B) = IF 1 \in A THEN Cardinality(A) - 1 ELSE Cardinality(A)
  <2>1. B \in SUBSET (1..n)
    BY <1>1
  <2>2. A \ {1} = {i + 1 : i \in B}
    <3>1. ASSUME NEW k \in A \ {1} PROVE k \in {i + 1 : i \in B}
      <4>1. k \in 1..n + 1 /\ k # 1
        OBVIOUS
      <4>2. k - 1 \in 1..n /\ (k - 1) + 1 = k
        BY <4>1
      <4> QED BY <1>1, <4>2
    <3>2. ASSUME NEW i \in B PROVE i + 1 \in A \ {1}
      BY <1>1
    <3> QED BY <3>1, <3>2
  <2>3. Cardinality(A \ {1}) = Cardinality(B)
    BY <2>1, <2>2, ShiftedPositions
  <2>4. IsFiniteSet(A)
    <3>1. n + 1 \in Nat
      OBVIOUS
    <3> QED BY <3>1, PositionsFinite
  <2>5. Cardinality(A \ {1}) = IF 1 \in A THEN Cardinality(A) - 1 ELSE Cardinality(A)
    BY <2>4, FS_RemoveElement
  <2> QED BY <2>3, <2>5
<1>2. ASSUME NEW i \in R
      PROVE  UpTo(R, i) = IF 1 \in P THEN UpTo(P, i + 1) - 1 ELSE UpTo(P, i + 1)
  <2>1. PICK A, B : A = {j \in P : j <= i + 1} /\ B = {j \in R : j <= i}
    OBVIOUS
  <2>2. A \in SUBSET (1..n + 1) /\ (1 \in A <=> 1 \in P)
    <3>1. i \in Nat /\ 1 <= i + 1
      BY <1>0
    <3>2. A \in SUBSET (1..n + 1)
      BY <2>1
    <3> QED BY <2>1, <3>1, <3>2
  <2>4. ASSUME NEW j \in 1..n PROVE j + 1 <= i + 1 <=> j <= i
    BY <1>0
  <2>5. B = {j \in 1..n : j + 1 \in A}
    BY <1>0, <2>1, <2>4
  <2>3. Cardinality(B) = IF 1 \in A THEN Cardinality(A) - 1 ELSE Cardinality(A)
    BY <1>1, <2>2, <2>5
  <2> QED BY <2>1, <2>2, <2>3 DEF UpTo
<1>3. Cardinality(R) = IF 1 \in P THEN Cardinality(P) - 1 ELSE Cardinality(P)
  BY <1>1
<1> QED BY <1>0, <1>2, <1>3

LEMMA EndsAppend ==
  ASSUME NEW q, IsQueue(q), NEW m, NEW P \in SUBSET (1..Len(q)), NEW r, IsQueue(r), EndsWith(r, q, P)
  PROVE  /\ EndsWith(r, Append(q, m), P)
         /\ EndsWith(Append(r, m.msg), Append(q, m), P \cup {Len(q) + 1})
<1>1. PICK e, f : /\ e = Append(q, m) /\ IsOneMore(q, m, e)
                  /\ f = Append(r, m.msg) /\ IsOneMore(r, m.msg, f)
  BY QueueGrows
<1>2. PICK n, k, c : n = Len(q) /\ k = Len(r) /\ c = Cardinality(P)
  OBVIOUS
<1>3. /\ n \in Nat /\ k \in Nat /\ c \in Nat /\ k >= c
      /\ e[n + 1] = m /\ \A i \in 1..n : e[i] = q[i]
      /\ Len(f) = k + 1 /\ f[k + 1] = m.msg /\ \A i \in 1..k : f[i] = r[i]
  BY <1>1, <1>2, UpToTypes DEF IsOneMore, EndsWith
<1>4. ASSUME NEW i \in P
      PROVE  /\ i \in 1..n /\ UpTo(P, i) \in 1..c
             /\ k - c + UpTo(P, i) \in 1..k /\ r[k - c + UpTo(P, i)] = q[i].msg
  <2>1. UpTo(P, i) \in 1..c /\ i \in 1..n
    BY <1>2, <1>3, UpToTypes
  <2>2. k - c + UpTo(P, i) \in 1..k
    BY <1>3, <2>1
  <2> QED BY <1>2, <2>1, <2>2 DEF EndsWith
<1>5. EndsWith(r, e, P)
  BY <1>2, <1>3, <1>4 DEF EndsWith
<1>6. EndsWith(f, e, P \cup {n + 1})
  <2>1. /\ Cardinality(P \cup {n + 1}) = c + 1 /\ UpTo(P \cup {n + 1}, n + 1) = c + 1
        /\ \A i \in P : UpTo(P \cup {n + 1}, i) = UpTo(P, i)
    BY <1>2, <1>3, UpToMore
  <2>2. (k + 1) - (c + 1) + (c + 1) = k + 1 /\ (k + 1) - (c + 1) = k - c /\ k + 1 >= c + 1
    BY <1>3
  <2>3. ASSUME NEW i \in P PROVE f[(k + 1) - (c + 1) + UpTo(P, i)] = e[i].msg
    BY <1>3, <1>4, <2>2, <2>3
  <2>4. f[(k + 1) - (c + 1) + (c + 1)] = e[n + 1].msg
    BY <1>3, <2>2
  <2>5. \A i \in P \cup {n + 1} : f[Len(f) - (c + 1) + UpTo(P \cup {n + 1}, i)] = e[i].msg
    BY <1>3, <2>1, <2>3, <2>4
  <2> QED BY <1>3, <2>1, <2>2, <2>5 DEF EndsWith
<1> QED BY <1>1, <1>2, <1>5, <1>6

(* The head of the queue is handled: the requests stay as they are, or its *)
(* own is taken off.                                                       *)
LEMMA EndsTail ==
  ASSUME NEW q, IsQueue(q), q # <<>>, NEW P \in SUBSET (1..Len(q)), NEW r, IsQueue(r),
         EndsWith(r, q, P), NEW R, R = WithoutHead(P, Len(Tail(q)))
  PROVE  /\ EndsWith(r, Tail(q), R)
         /\ 1 \in P => r # <<>> /\ EndsWith(Tail(r), Tail(q), R)
         /\ Cardinality(R) = IF 1 \in P THEN Cardinality(P) - 1 ELSE Cardinality(P)
<1>1. PICK e : e = Tail(q) /\ IsOneLess(q, e)
  BY QueueShrinks
<1>2. PICK n, k, c, d : n = Len(e) /\ k = Len(r) /\ c = Cardinality(P) /\ d = Cardinality(R)
  OBVIOUS
<1>3. /\ n \in Nat /\ Len(q) = n + 1 /\ R = WithoutHead(P, n)
      /\ \A i \in 1..n : e[i] = q[i + 1]
  <2>1. Len(q) \in Nat \ {0} /\ Len(e) = Len(q) - 1
    BY <1>1 DEF IsOneLess
  <2>2. Len(e) \in Nat /\ Len(q) = Len(e) + 1
    BY <2>1
  <2> QED BY <1>1, <1>2, <2>2 DEF IsOneLess
<1>4. P \in SUBSET (1..n + 1) /\ n + 1 \in Nat /\ R = WithoutHead(P, n)
  BY <1>3
<1>5. /\ R \in SUBSET (1..n) /\ d = IF 1 \in P THEN c - 1 ELSE c
      /\ \A i \in R : UpTo(R, i) = IF 1 \in P THEN UpTo(P, i + 1) - 1 ELSE UpTo(P, i + 1)
  <2>1. /\ R \in SUBSET (1..n)
        /\ Cardinality(R) = IF 1 \in P THEN Cardinality(P) - 1 ELSE Cardinality(P)
        /\ \A i \in R : UpTo(R, i) = IF 1 \in P THEN UpTo(P, i + 1) - 1 ELSE UpTo(P, i + 1)
    <3>1. n \in Nat
      BY <1>3
    <3> HIDE <1>2, <1>3
    <3> QED BY <3>1, <1>4, UpToLess
  <2> QED BY <1>2, <2>1
<1>6. /\ k \in Nat /\ c \in Nat /\ d \in Nat /\ k >= c
      /\ \A i \in P : UpTo(P, i) \in 1..c
      /\ \A i \in R : UpTo(R, i) \in 1..d
  <2>1. c \in Nat /\ \A i \in P : UpTo(P, i) \in 1..c
    BY <1>2, <1>3, <1>4, UpToTypes
  <2>2. d \in Nat /\ \A i \in R : UpTo(R, i) \in 1..d
    BY <1>2, <1>3, <1>5, UpToTypes
  <2>3. k \in Nat
    BY <1>2 DEF IsQueue
  <2> QED BY <1>2, <2>1, <2>2, <2>3 DEF EndsWith
<1>7. ASSUME NEW i \in R
      PROVE  /\ k - d + UpTo(R, i) \in 1..k
             /\ 1 \in P => k - d + UpTo(R, i) # 1
             /\ r[k - d + UpTo(R, i)] = e[i].msg
  <2>1. i \in 1..n /\ i + 1 \in P
    BY <1>3 DEF WithoutHead
  <2>2. r[k - c + UpTo(P, i + 1)] = q[i + 1].msg
    BY <1>2, <2>1 DEF EndsWith
  <2>3. PICK u, v : u = UpTo(P, i + 1) /\ v = UpTo(R, i)
    OBVIOUS
  <2>4. /\ u \in 1..c /\ v \in 1..d /\ v = IF 1 \in P THEN u - 1 ELSE u
    BY <1>5, <1>6, <2>1, <2>3
  <2>5. k - d + v = k - c + u /\ k - d + v \in 1..k
    BY <1>5, <1>6, <2>4
  <2>6. 1 \in P => k - d + v # 1
    BY <1>5, <1>6, <2>4
  <2> QED BY <1>3, <2>1, <2>2, <2>3, <2>5, <2>6
<1>8. EndsWith(r, e, R)
  <2>1. k >= d
    BY <1>5, <1>6
  <2> QED BY <1>2, <1>7, <2>1 DEF EndsWith
<1>9. ASSUME 1 \in P PROVE r # <<>> /\ EndsWith(Tail(r), e, R)
  <2>1. c >= 1 /\ k >= 1
    BY <1>6, <1>9
  <2>2. r # <<>>
    BY <1>2, <2>1
  <2>3. PICK s : s = Tail(r) /\ IsOneLess(r, s)
    BY <2>2, QueueShrinks
  <2>4. Len(s) = k - 1 /\ \A j \in 1..k : j # 1 => s[j - 1] = r[j]
    BY <1>2, <2>3 DEF IsOneLess
  <2>5. ASSUME NEW i \in R PROVE s[(k - 1) - d + UpTo(R, i)] = e[i].msg
    <3>1. PICK j : j = k - d + UpTo(R, i)
      OBVIOUS
    <3>2. j \in 1..k /\ j # 1 /\ r[j] = e[i].msg
      BY <1>7, <1>9, <3>1
    <3>3. UpTo(R, i) \in 1..d
      BY <1>6
    <3>4. (k - 1) - d + UpTo(R, i) = j - 1
      BY <1>6, <3>1, <3>3
    <3> QED BY <2>4, <3>2, <3>4
  <2>6. k - 1 >= d
    BY <1>5, <1>6, <1>9
  <2>7. EndsWith(s, e, R)
    BY <1>2, <2>4, <2>5, <2>6 DEF EndsWith
  <2> QED BY <2>2, <2>3, <2>7
<1> QED BY <1>1, <1>2, <1>5, <1>8, <1>9


(* The same for an element anywhere behind the queue, and what comes with  *)
(* it that is no concern of these requests.                                *)
LEMMA EndsLonger ==
  ASSUME NEW q, IsQueue(q), NEW e, IsQueue(e), Len(q) <= Len(e),
         \A i \in 1..Len(q) : e[i] = q[i],
         NEW P \in SUBSET (1..Len(q)), NEW r, IsQueue(r), EndsWith(r, q, P)
  PROVE  /\ EndsWith(r, e, P)
         /\ \A p \in 1..Len(e) : p > Len(q) =>
              /\ EndsWith(Append(r, e[p].msg), e, P \cup {p})
              /\ Cardinality(P \cup {p}) = Cardinality(P) + 1
<1>1. PICK n, k, c : n = Len(q) /\ k = Len(r) /\ c = Cardinality(P)
  OBVIOUS
<1>2. n \in Nat /\ k \in Nat /\ c \in Nat /\ k >= c /\ Len(e) \in Nat /\ IsFiniteSet(P)
  <2>1. n \in Nat /\ k \in Nat /\ Len(e) \in Nat
    BY <1>1 DEF IsQueue
  <2>2. c \in Nat /\ IsFiniteSet(P)
    BY <1>1, <2>1, UpToTypes
  <2>3. k >= c
    BY <1>1 DEF EndsWith
  <2> QED BY <2>1, <2>2, <2>3
<1>3. ASSUME NEW i \in P
      PROVE  /\ i \in 1..n /\ UpTo(P, i) \in 1..c /\ e[i] = q[i]
             /\ k - c + UpTo(P, i) \in 1..k /\ r[k - c + UpTo(P, i)] = q[i].msg
  <2>1. UpTo(P, i) \in 1..c /\ i \in 1..n
    BY <1>1, <1>2, UpToTypes
  <2>2. k - c + UpTo(P, i) \in 1..k
    BY <1>2, <2>1
  <2> QED BY <1>1, <2>1, <2>2 DEF EndsWith
<1>4. EndsWith(r, e, P)
  BY <1>1, <1>2, <1>3 DEF EndsWith
<1>5. ASSUME NEW p \in 1..Len(e), p > n
      PROVE  /\ EndsWith(Append(r, e[p].msg), e, P \cup {p})
             /\ Cardinality(P \cup {p}) = c + 1
  <2>1. PICK f : f = Append(r, e[p].msg) /\ IsOneMore(r, e[p].msg, f)
    BY QueueGrows
  <2>2. Len(f) = k + 1 /\ f[k + 1] = e[p].msg /\ \A i \in 1..k : f[i] = r[i]
    BY <1>1, <2>1 DEF IsOneMore
  <2>3. p \notin P /\ p \in Nat
    BY <1>1, <1>2, <1>5
  <2>4. Cardinality(P \cup {p}) = c + 1
    BY <1>1, <1>2, <2>3, FS_AddElement
  <2>5. {j \in P \cup {p} : j <= p} = P \cup {p}
    <3>1. \A j \in P : j <= p
      BY <1>1, <1>2, <1>5, <2>3
    <3>2. p <= p
      BY <2>3
    <3> QED BY <3>1, <3>2
  <2>6. ASSUME NEW i \in P PROVE {j \in P \cup {p} : j <= i} = {j \in P : j <= i}
    <3>1. ~(p <= i)
      BY <1>2, <1>3, <1>5, <2>3
    <3> QED BY <3>1
  <2>7. UpTo(P \cup {p}, p) = c + 1 /\ \A i \in P : UpTo(P \cup {p}, i) = UpTo(P, i)
    BY <2>4, <2>5, <2>6 DEF UpTo
  <2>8. (k + 1) - (c + 1) + (c + 1) = k + 1 /\ (k + 1) - (c + 1) = k - c /\ k + 1 >= c + 1
    BY <1>2
  <2>9. ASSUME NEW i \in P PROVE f[(k + 1) - (c + 1) + UpTo(P, i)] = e[i].msg
    BY <1>3, <2>2, <2>8, <2>9
  <2>10. f[(k + 1) - (c + 1) + (c + 1)] = e[p].msg
    BY <2>2, <2>8
  <2>11. \A i \in P \cup {p} : f[Len(f) - (c + 1) + UpTo(P \cup {p}, i)] = e[i].msg
    BY <2>2, <2>7, <2>9, <2>10
  <2> QED BY <2>1, <2>2, <2>4, <2>8, <2>11 DEF EndsWith
<1> QED BY <1>1, <1>4, <1>5
=============================================================================
