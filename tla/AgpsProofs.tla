----------------------------- MODULE AgpsProofs -----------------------------
(***************************************************************************)
(* Proofs, for any handles, retries and bounds, of what the runs of Agps   *)
(* check on small instances: nobody who waits is forgotten, nobody leaves  *)
(* a list untold, and without the emergency PDN both regular machines      *)
(* implement AgpsStateMachine.                                             *)
(***************************************************************************)
EXTENDS Agps, QueueTheorems, TLAPS

-----------------------------------------------------------------------------
(* Lists *)

(* The number of positions up to a position numbers the positions.         *)
LEMMA Ranks ==
  ASSUME NEW n \in Nat, NEW P \in SUBSET (1..n)
  PROVE  /\ IsFiniteSet(P) /\ Cardinality(P) \in Nat
         /\ \A i \in P : UpTo(P, i) \in 1..Cardinality(P)
         /\ \A i, j \in P : i < j => UpTo(P, i) < UpTo(P, j)
         /\ \A k \in 1..Cardinality(P) : \E i \in P : UpTo(P, i) = k
<1>1. /\ IsFiniteSet(P) /\ Cardinality(P) \in Nat
      /\ \A i \in P : UpTo(P, i) \in 1..Cardinality(P)
  BY UpToTypes
<1>2. ASSUME NEW i \in P, NEW j \in P, i < j PROVE UpTo(P, i) < UpTo(P, j)
  <2>1. PICK A, B : A = {k \in P : k <= i} /\ B = {k \in P : k <= j}
    OBVIOUS
  <2>0. i \in Nat /\ j \in Nat /\ \A k \in P : k \in Nat
    OBVIOUS
  <2>2. A \in SUBSET B /\ j \in B /\ j \notin A /\ B \in SUBSET P
    <3>1. ASSUME NEW k \in A PROVE k \in B
      <4>1. k \in P /\ k \in Nat /\ k <= i
        BY <2>0, <2>1
      <4> QED BY <1>2, <2>0, <2>1, <4>1
    <3>2. j \in B /\ ~(j <= i)
      BY <1>2, <2>0, <2>1
    <3> QED BY <2>1, <3>1, <3>2
  <2>3. IsFiniteSet(B)
    BY <1>1, <2>2, FS_Subset
  <2>4. Cardinality(A) < Cardinality(B)
    <3>1. /\ Cardinality(A) <= Cardinality(B)
          /\ Cardinality(A) = Cardinality(B) => A = B
      BY ONLY <2>2, <2>3, FS_Subset
    <3>2. Cardinality(A) \in Nat /\ Cardinality(B) \in Nat
      BY <2>2, <2>3, FS_Subset, FS_CardinalityType
    <3>3. A # B
      BY <2>2
    <3> QED BY <3>1, <3>2, <3>3
  <2> QED BY <2>1, <2>4 DEF UpTo
<1>3. ASSUME NEW k \in 1..Cardinality(P) PROVE \E i \in P : UpTo(P, i) = k
  <2>1. PICK K : K = 1..Cardinality(P)
    OBVIOUS
  <2>2. PICK f : f = [i \in P |-> UpTo(P, i)]
    OBVIOUS
  <2>3. f \in [P -> K] /\ \A i \in P : f[i] = UpTo(P, i)
    BY <1>1, <2>1, <2>2
  <2>4. \A i, j \in P : f[i] = f[j] => i = j
    <3> SUFFICES ASSUME NEW i \in P, NEW j \in P, f[i] = f[j], i # j PROVE FALSE
      OBVIOUS
    <3>1. i \in Nat /\ j \in Nat /\ UpTo(P, i) \in Nat /\ UpTo(P, j) \in Nat
      BY <1>1
    <3>2. UpTo(P, i) = UpTo(P, j)
      BY <2>3
    <3>3. i < j \/ j < i
      BY <3>1
    <3> QED BY <1>2, <3>1, <3>2, <3>3
  <2>5. f \in Injection(P, K)
    BY <2>3, <2>4 DEF Injection, IsInjective
  <2>6. IsFiniteSet(K) /\ Cardinality(K) = Cardinality(P)
    <3>1. 1 \in Int /\ Cardinality(P) \in Int
      BY <1>1
    <3>2. /\ IsFiniteSet(1..Cardinality(P))
          /\ Cardinality(1..Cardinality(P)) = IF 1 > Cardinality(P) THEN 0 ELSE Cardinality(P) - 1 + 1
      BY ONLY <3>1, FS_Interval
    <3> QED BY <1>1, <2>1, <3>2
  <2>7. f \in Surjection(P, K)
    BY <2>5, <2>6, FS_Injection
  <2>8. \E i \in P : f[i] = k
    BY <2>1, <2>7 DEF Surjection
  <2> QED BY <2>3, <2>8
<1> QED BY <1>1, <1>2, <1>3

(* A first position exists wherever there is one.                          *)
LEMMA FirstPosition ==
  ASSUME NEW n \in Nat, NEW P \in SUBSET (1..n), P # {}
  PROVE  Min(P) \in P
<1>1. Cardinality(P) \in Nat \ {0}
  BY Ranks, FS_EmptySet
<1>2. PICK i \in P : UpTo(P, i) = 1
  <2>1. 1 \in 1..Cardinality(P)
    BY <1>1
  <2>2. \A k \in 1..Cardinality(P) : \E i \in P : UpTo(P, i) = k
    BY Ranks
  <2> QED BY ONLY <2>1, <2>2
<1>3. ASSUME NEW j \in P PROVE i <= j
  <2>0. UpTo(P, j) \in 1..Cardinality(P)
    BY Ranks
  <2>1. i \in Nat /\ j \in Nat /\ UpTo(P, j) \in Nat \ {0}
    BY <1>1, <2>0
  <2>2. ~(j < i)
    <3> SUFFICES ASSUME j < i PROVE FALSE
      OBVIOUS
    <3>1. UpTo(P, j) < UpTo(P, i)
      BY Ranks
    <3> QED BY <1>2, <2>1, <3>1
  <2> QED BY <2>1, <2>2
<1> QED BY <1>3 DEF Min

(* What KeepAt keeps: the elements at the positions, each from a position  *)
(* of its own.                                                             *)
KeptFrom(f, list, P, kept) ==
  /\ f \in [1..Len(kept) -> P]
  /\ \A k \in 1..Len(kept) : kept[k] = list[f[k]]
  /\ \A k, l \in 1..Len(kept) : f[k] = f[l] => k = l
  /\ \A i \in P : \E k \in 1..Len(kept) : f[k] = i

LEMMA KeepAtElements ==
  ASSUME NEW S, NEW list \in Seq(S), NEW P \in SUBSET (1..Len(list))
  PROVE  /\ KeepAt(list, P) \in Seq(S)
         /\ \E f : KeptFrom(f, list, P, KeepAt(list, P))
<1>1. PICK n : n = Len(list) /\ n \in Nat /\ list \in [1..n -> S] /\ P \in SUBSET (1..n)
  OBVIOUS
<1>2. PICK c : c = Cardinality(P) /\ c \in Nat
  BY <1>1, Ranks
<1>3. PICK f : f = [k \in 1..c |-> CHOOSE i \in P : UpTo(P, i) = k]
  OBVIOUS
<1>4. ASSUME NEW k \in 1..c PROVE f[k] \in P /\ UpTo(P, f[k]) = k
  <2>1. \E i \in P : UpTo(P, i) = k
    BY <1>1, <1>2, Ranks
  <2>2. f[k] = CHOOSE i \in P : UpTo(P, i) = k
    BY <1>3
  <2> QED BY <2>1, <2>2
<1>5. PICK kept : kept = KeepAt(list, P)
  OBVIOUS
<1>6. kept = [k \in 1..c |-> list[f[k]]]
  BY <1>2, <1>3, <1>5 DEF KeepAt
<1>7. \A k \in 1..c : list[f[k]] \in S /\ kept[k] = list[f[k]]
  BY <1>1, <1>4, <1>6
<1>8. kept \in Seq(S) /\ Len(kept) = c
  <2>1. kept \in [1..c -> S]
    BY <1>6, <1>7
  <2> QED BY <1>2, <2>1
<1>9. f \in [1..c -> P]
  BY <1>3, <1>4
<1>10. ASSUME NEW i \in P PROVE \E k \in 1..c : f[k] = i
  <2>1. PICK k \in 1..c : k = UpTo(P, i)
    BY <1>1, <1>2, Ranks
  <2>2. f[k] \in P /\ UpTo(P, f[k]) = UpTo(P, i)
    BY <1>4, <2>1
  <2>3. f[k] \in Nat /\ i \in Nat
    <3>1. \A j \in P : j \in Nat
      BY <1>1
    <3> QED BY <2>2, <3>1
  <2>4. ~(f[k] < i) /\ ~(i < f[k])
    <3>1. PICK u : u = UpTo(P, i) /\ u \in Nat /\ UpTo(P, f[k]) = u
      BY <1>2, <2>1, <2>2
    <3>r. \A a, b \in P : a < b => UpTo(P, a) < UpTo(P, b)
      BY <1>1, Ranks
    <3>2. f[k] < i => u < u
      BY <2>2, <3>1, <3>r
    <3>3. i < f[k] => u < u
      BY <2>2, <3>1, <3>r
    <3> QED BY <3>1, <3>2, <3>3
  <2> QED BY <2>3, <2>4
<1>11. \A k, l \in 1..c : f[k] = f[l] => k = l
  BY <1>4
<1>12. KeptFrom(f, list, P, kept)
  BY <1>7, <1>8, <1>9, <1>10, <1>11 DEF KeptFrom
<1> QED BY <1>5, <1>8, <1>12

(* No handle is in a list twice.                                           *)
Distinct(list) ==
  \A i, j \in DOMAIN list : list[i].mConnHandle = list[j].mConnHandle => i = j

LEMMA ListDomain ==
  ASSUME NEW S, NEW list \in Seq(S)
  PROVE  /\ Len(list) \in Nat /\ DOMAIN list = 1..Len(list)
         /\ list \in [1..Len(list) -> S]
OBVIOUS

LEMMA ListElements ==
  ASSUME NEW list \in Seq(Subscriber)
  PROVE  /\ \A i \in DOMAIN list : list[i] \in Subscriber /\ list[i].mConnHandle \in Handle
         /\ Handles(list) \in SUBSET Handle
         /\ \A P \in SUBSET (DOMAIN list) : HandlesAt(list, P) \in SUBSET Handles(list)
<1>1. \A i \in DOMAIN list : list[i] \in Subscriber
  BY ListDomain
<1>2. \A s \in Subscriber : s.mConnHandle \in Handle
  BY DEF Subscriber
<1> QED BY <1>1, <1>2 DEF Handles, HandlesAt

(* The list that keeps some positions                                      *)
LEMMA KeptList ==
  ASSUME NEW list \in Seq(Subscriber), NEW P \in SUBSET (DOMAIN list)
  PROVE  /\ KeepAt(list, P) \in Seq(Subscriber)
         /\ ToSet(KeepAt(list, P)) = {list[i] : i \in P}
         /\ Handles(KeepAt(list, P)) = HandlesAt(list, P)
         /\ Distinct(list) => Distinct(KeepAt(list, P))
<1>1. PICK kept : kept = KeepAt(list, P)
  OBVIOUS
<1>2. Len(list) \in Nat /\ DOMAIN list = 1..Len(list)
  BY ListDomain
<1>3. kept \in Seq(Subscriber) /\ \E f : KeptFrom(f, list, P, kept)
  BY <1>1, <1>2, KeepAtElements
<1>4. PICK f : KeptFrom(f, list, P, kept)
  BY <1>3
<1>5. DOMAIN kept = 1..Len(kept)
  BY <1>3, ListDomain
<1>6. /\ \A k \in DOMAIN kept : f[k] \in P /\ kept[k] = list[f[k]]
      /\ \A k, l \in DOMAIN kept : f[k] = f[l] => k = l
      /\ \A i \in P : \E k \in DOMAIN kept : f[k] = i
  BY <1>4, <1>5 DEF KeptFrom
<1>7. ToSet(kept) = {list[i] : i \in P}
  BY <1>6 DEF ToSet
<1>8. Handles(kept) = HandlesAt(list, P)
  BY <1>6 DEF Handles, HandlesAt
<1>9. Distinct(list) => Distinct(kept)
  BY <1>6 DEF Distinct
<1> QED BY <1>1, <1>3, <1>7, <1>8, <1>9

(* addSubscriber                                                           *)
LEMMA AddedList ==
  ASSUME NEW list \in Seq(Subscriber), NEW s \in Subscriber
  PROVE  /\ addSubscriber(list, s) \in Seq(Subscriber)
         /\ Handles(addSubscriber(list, s)) = Handles(list) \cup {s.mConnHandle}
         /\ s.mConnHandle \notin Handles(list) =>
              ToSet(addSubscriber(list, s)) = ToSet(list) \cup {s}
         /\ Distinct(list) => Distinct(addSubscriber(list, s))
<1>1. CASE s.mConnHandle \in Handles(list)
  BY <1>1 DEF addSubscriber
<1>2. CASE s.mConnHandle \notin Handles(list)
  <2>1. PICK a : a = Append(list, s) /\ a = addSubscriber(list, s)
    BY <1>2 DEF addSubscriber
  <2>2. /\ Len(list) \in Nat /\ DOMAIN list = 1..Len(list)
        /\ a \in Seq(Subscriber) /\ DOMAIN a = 1..(Len(list) + 1) /\ a[Len(list) + 1] = s
        /\ \A i \in DOMAIN list : a[i] = list[i]
    <3>1. Len(list) \in Nat /\ DOMAIN list = 1..Len(list)
      BY ListDomain
    <3>q. IsQueue(list)
      BY QueueOf
    <3>2. a \in Seq(Subscriber) /\ Len(a) = Len(list) + 1 /\ a[Len(list) + 1] = s
      <4>1. Append(list, s) \in Seq(Subscriber)
        BY AppendProperties
      <4>2. Len(Append(list, s)) = Len(list) + 1 /\ Append(list, s)[Len(list) + 1] = s
        BY ONLY <3>q, QueueAppend
      <4> QED BY <2>1, <4>1, <4>2
    <3>3. \A i \in 1..Len(list) : a[i] = list[i]
      <4>1. \A i \in 1..Len(list) : Append(list, s)[i] = list[i]
        BY ONLY <3>q, QueueAppend
      <4> QED BY <2>1, <4>1
    <3>4. DOMAIN a = 1..Len(a)
      BY <3>2, ListDomain
    <3> QED BY <3>1, <3>2, <3>3, <3>4
  <2>3. \A i : i \in DOMAIN a <=> i \in DOMAIN list \/ i = Len(list) + 1
    BY <2>2
  <2>4. ToSet(a) = ToSet(list) \cup {s}
    BY <2>2, <2>3 DEF ToSet
  <2>5. Handles(a) = Handles(list) \cup {s.mConnHandle}
    BY <2>2, <2>3 DEF Handles, HandlesAt
  <2>6. \A i \in DOMAIN list : list[i].mConnHandle # s.mConnHandle
    BY <1>2 DEF Handles, HandlesAt
  <2>7. Distinct(list) => Distinct(a)
    BY <2>2, <2>3, <2>6 DEF Distinct
  <2> QED BY <2>1, <2>2, <2>4, <2>5, <2>7
<1> QED BY <1>1, <1>2

(* A subscriber that waits for the close becomes inactive where it is.     *)
LEMMA MarkedList ==
  ASSUME NEW list \in Seq(Subscriber), NEW i \in DOMAIN list,
         NEW marked, marked = [list EXCEPT ![i].mIsInactive = TRUE]
  PROVE  /\ marked \in Seq(Subscriber) /\ DOMAIN marked = DOMAIN list
         /\ marked[i] = [list[i] EXCEPT !.mIsInactive = TRUE]
         /\ \A j \in DOMAIN list : j # i => marked[j] = list[j]
         /\ \A j \in DOMAIN list : marked[j].mConnHandle = list[j].mConnHandle
         /\ Handles(marked) = Handles(list)
         /\ Distinct(list) => Distinct(marked)
<1>1. PICK s : s = [list[i] EXCEPT !.mIsInactive = TRUE] /\ marked = [list EXCEPT ![i] = s]
  OBVIOUS
<1>2. Len(list) \in Nat /\ DOMAIN list = 1..Len(list) /\ list \in [1..Len(list) -> Subscriber]
  BY ListDomain
<1>3. s \in Subscriber /\ s.mConnHandle = list[i].mConnHandle
  <2>1. PICK t : t = list[i] /\ t \in Subscriber
    BY ListElements
  <2>2. s = [t EXCEPT !.mIsInactive = TRUE]
    BY <1>1, <2>1
  <2> QED BY <2>1, <2>2 DEF Subscriber
<1>4. marked \in [1..Len(list) -> Subscriber] /\ marked[i] = s
  BY <1>1, <1>2, <1>3
<1>5. marked \in Seq(Subscriber) /\ DOMAIN marked = DOMAIN list
  BY <1>2, <1>4
<1>6. \A j \in DOMAIN list : j # i => marked[j] = list[j]
  BY <1>1, <1>2
<1>7. \A j \in DOMAIN list : marked[j].mConnHandle = list[j].mConnHandle
  BY <1>3, <1>4, <1>6
<1> QED BY <1>1, <1>4, <1>5, <1>6, <1>7 DEF Handles, HandlesAt, Distinct

(* getSubscriber and getFirstSubscriber find one if there is one.          *)
LEMMA FoundSubscriber ==
  ASSUME NEW list \in Seq(Subscriber), NEW h \in Handles(list)
  PROVE  /\ getSubscriber(list, h) \in DOMAIN list
         /\ list[getSubscriber(list, h)].mConnHandle = h
<1>1. PICK P : P = {i \in DOMAIN list : list[i].mConnHandle = h}
  OBVIOUS
<1>2. P # {} /\ P \in SUBSET (DOMAIN list)
  BY <1>1 DEF Handles, HandlesAt
<1>3. Len(list) \in Nat /\ DOMAIN list = 1..Len(list)
  BY ListDomain
<1>4. Min(P) \in P
  BY <1>2, <1>3, FirstPosition
<1> QED BY <1>1, <1>4 DEF getSubscriber

LEMMA FirstSubscriber ==
  ASSUME NEW list \in Seq(Subscriber), anyActiveSubscribers(list)
  PROVE  /\ getFirstSubscriber(list) \in Subscriber
         /\ getFirstSubscriber(list).mConnHandle \in Handle
<1>1. PICK P : P = ActiveIn(list)
  OBVIOUS
<1>2. P # {} /\ P \in SUBSET (DOMAIN list)
  BY <1>1 DEF ActiveIn, anyActiveSubscribers
<1>3. Len(list) \in Nat /\ DOMAIN list = 1..Len(list)
  BY ListDomain
<1>4. Min(P) \in P
  BY <1>2, <1>3, FirstPosition
<1> QED BY <1>1, <1>2, <1>4, ListElements DEF getFirstSubscriber

(* releaseATL finds a machine that knows the handle if there is one.       *)
LEMMA FoundMachine ==
  ASSUME NEW h, Holding(h) # {}
  PROVE  FirstHolding(h) \in Holding(h)
<1>1. PICK order : order = SearchOrder /\ order = <<"AGNSS", "INTERNET", "DS">>
  BY DEF SearchOrder
<1>2. DOMAIN order = 1..3 /\ order[1] = "AGNSS" /\ order[2] = "INTERNET" /\ order[3] = "DS"
  BY <1>1
<1>3. PICK P : P = {i \in DOMAIN order : order[i] \in Holding(h)}
  OBVIOUS
<1>4. P \in SUBSET (1..3) /\ P # {}
  <2>1. PICK n \in Nif : n \in Holding(h)
    BY DEF Holding
  <2>2. \E i \in 1..3 : order[i] = n
    BY <1>2 DEF Nif
  <2> QED BY <1>2, <1>3, <2>1, <2>2
<1>5. Min(P) \in P
  BY <1>4, FirstPosition
<1> QED BY <1>1, <1>3, <1>5 DEF FirstHolding

-----------------------------------------------------------------------------
(* Type correctness *)

Cmd == {"REQUEST", "RELEASE"}
Reply == {"OPEN", "CLOSED", "FAILED"}
State == {"RELEASED", "PENDING", "ACQUIRED", "RELEASING"}
View == {"idle", "requested", "open", "closing"}

StatesOK == mState \in [Nif -> State]
ListsOK == mSubscriberList \in [Nif -> Seq(Subscriber)]
QueuesOK == mRetries \in 0..MaxRetries /\ msgQ \in Seq(Msg) /\ timers \in Nat
AtlOK == atl \in [Handle -> View] /\ owner \in [Handle -> Nif]
RequestOK == request \in [Nif -> Seq(Cmd)]
ReportOK == report \in [Nif -> Seq(Reply)] /\ dataConn \in [Nif -> BOOLEAN]
RestOK == nif \subseteq Nif /\ ssr \in 0..MaxSSR

LEMMA Types ==
  TypeOK <=> /\ StatesOK /\ ListsOK /\ QueuesOK /\ AtlOK
             /\ RequestOK /\ ReportOK /\ RestOK
BY DEF TypeOK, StatesOK, ListsOK, QueuesOK, AtlOK, RequestOK, ReportOK, RestOK,
       State, View, Cmd, Reply

LEMMA TypesAfter ==
  ASSUME StatesOK', ListsOK', QueuesOK', AtlOK', RequestOK', ReportOK', RestOK'
  PROVE  TypeOK'
BY DEF TypeOK, StatesOK, ListsOK, QueuesOK, AtlOK, RequestOK, ReportOK, RestOK,
       State, View, Cmd, Reply

LEMMA ListOf ==
  ASSUME ListsOK, NEW n \in Nif
  PROVE  mSubscriberList[n] \in Seq(Subscriber)
BY DEF ListsOK

(* The helpers that set one machine's part of the state                    *)
LEMMA SetStateTypes ==
  ASSUME StatesOK, NEW n \in Nif, NEW state \in State, SetState(n, state)
  PROVE  StatesOK'
BY DEF StatesOK, SetState

LEMMA SetListTypes ==
  ASSUME ListsOK, NEW n \in Nif, NEW list \in Seq(Subscriber), SetList(n, list)
  PROVE  ListsOK'
BY DEF ListsOK, SetList

LEMMA CommandTypes ==
  ASSUME RequestOK, NEW n \in Nif, NEW cmd \in Cmd, Command(n, cmd)
  PROVE  RequestOK'
<1>1. PICK q : q = Append(request[n], cmd) /\ q \in Seq(Cmd)
  BY AppendProperties DEF RequestOK
<1>2. request' = [request EXCEPT ![n] = q]
  BY <1>1 DEF Command
<1> QED BY <1>1, <1>2 DEF RequestOK

LEMMA TellTypes ==
  ASSUME NEW view \in [Handle -> View], NEW H, TellOpen(view, H)
  PROVE  atl' \in [Handle -> View]
BY DEF TellOpen, View

LEMMA TellOverTypes ==
  ASSUME AtlOK, NEW H, TellOver(H)
  PROVE  atl' \in [Handle -> View]
BY DEF TellOver, View, AtlOK

LEMMA SuplRequestTypes ==
  ASSUME NEW h \in Handle
  PROVE  SuplRequest(h) \in Msg /\ SuplRequest(h).mConnHandle = h
BY DEF SuplRequest, Msg, AgpsType

(* A call setup leaves one retry less, or, with none left, a regular       *)
(* request for the first subscriber that needs the call.                   *)
LEMMA StartDataCallTypes ==
  ASSUME QueuesOK, RequestOK, NEW list \in Seq(Subscriber), NEW q \in Seq(Msg),
         NEW r \in DsReply(list), StartDataCall(list, r, q)
  PROVE  QueuesOK' /\ RequestOK'
<1>1. RequestOK'
  <2>1. CASE r = "SUCCESS"
    <3>1. Command("DS", "REQUEST")
      BY <2>1 DEF StartDataCall
    <3>2. "DS" \in Nif /\ "REQUEST" \in Cmd
      BY DEF Nif, Cmd
    <3> QED BY <3>1, <3>2, CommandTypes
  <2>2. CASE r # "SUCCESS"
    BY <2>2 DEF StartDataCall, RequestOK
  <2> QED BY <2>1, <2>2
<1>2. MaxRetries \in Nat /\ mRetries \in 0..MaxRetries /\ timers \in Nat
  BY AgpsAssumption DEF QueuesOK
<1>3. mRetries' \in 0..MaxRetries
  BY <1>2 DEF StartDataCall
<1>4. timers' \in Nat
  BY <1>2 DEF StartDataCall
<1>5. msgQ' \in Seq(Msg)
  <2>1. CASE r \in {"BUSY", "UNSUPPORTED"}
    <3>1. anyActiveSubscribers(list)
      BY <2>1 DEF DsReply
    <3>2. PICK m \in Msg : m = SuplRequest(getFirstSubscriber(list).mConnHandle)
      BY <3>1, FirstSubscriber, SuplRequestTypes
    <3>3. Append(q, m) \in Seq(Msg)
      BY AppendProperties
    <3>4. msgQ' = Append(q, m) \/ msgQ' = q
      BY <3>2 DEF StartDataCall
    <3> QED BY <3>3, <3>4
  <2>2. CASE r \notin {"BUSY", "UNSUPPORTED"}
    BY <2>2 DEF StartDataCall
  <2> QED BY <2>1, <2>2
<1> QED BY <1>1, <1>3, <1>4, <1>5 DEF QueuesOK

LEMMA RequestDataConnTypes ==
  ASSUME TypeOK, NEW n \in Nif, NEW list \in Seq(Subscriber), NEW otherwise \in State,
         NEW q \in Seq(Msg), RequestDataConn(n, list, otherwise, q)
  PROVE  StatesOK' /\ QueuesOK' /\ RequestOK'
<1>1. StatesOK /\ QueuesOK /\ RequestOK /\ "PENDING" \in State /\ "REQUEST" \in Cmd
  BY Types DEF State, Cmd
<1>2. CASE n # "DS"
  <2>1. Command(n, "REQUEST") /\ SetState(n, "PENDING") /\ msgQ' = q /\ UNCHANGED <<timers, mRetries>>
    BY <1>2 DEF RequestDataConn
  <2>2. StatesOK' /\ RequestOK'
    BY <1>1, <2>1, SetStateTypes, CommandTypes
  <2> QED BY <1>1, <2>1, <2>2 DEF QueuesOK
<1>3. CASE n = "DS"
  <2>1. PICK r \in DsReply(list) : /\ StartDataCall(list, r, q)
                                   /\ SetState(n, IF r = "SUCCESS" THEN "PENDING" ELSE otherwise)
    BY <1>3 DEF RequestDataConn
  <2>2. PICK state \in State : SetState(n, state)
    BY <1>1, <2>1
  <2> QED BY <1>1, <2>1, <2>2, SetStateTypes, StartDataCallTypes
<1> QED BY <1>2, <1>3

LEMMA ReleaseDataConnTypes ==
  ASSUME TypeOK, NEW n \in Nif, ReleaseDataConn(n)
  PROVE  QueuesOK' /\ RequestOK'
<1>1. QueuesOK /\ RequestOK /\ "RELEASE" \in Cmd
  BY Types DEF Cmd
<1>2. Command(n, "RELEASE") /\ UNCHANGED queues
  BY DEF ReleaseDataConn
<1> QED BY <1>1, <1>2, CommandTypes DEF QueuesOK, queues

(* Every operation of the manager keeps the types.                         *)
LEMMA SubscribeTypes ==
  ASSUME TypeOK, NEW n \in Nif, NEW s \in Subscriber, NEW view \in [Handle -> View],
         NEW q \in Seq(Msg), processAgpsEventSubscribe(n, s, view, q)
  PROVE  StatesOK' /\ ListsOK' /\ QueuesOK' /\ RequestOK' /\ atl' \in [Handle -> View]
<1>1. PICK list : list = addSubscriber(mSubscriberList[n], s)
  OBVIOUS
<1>2. list \in Seq(Subscriber) /\ ListsOK /\ "RELEASED" \in State
  BY <1>1, Types, ListOf, AddedList DEF State
<1>3. ListsOK'
  BY <1>1, <1>2, SetListTypes DEF processAgpsEventSubscribe
<1>4. atl' \in [Handle -> View]
  BY TellTypes DEF processAgpsEventSubscribe
<1>5. CASE mState[n] = "RELEASED"
  <2>1. RequestDataConn(n, list, "RELEASED", q)
    BY <1>1, <1>5 DEF processAgpsEventSubscribe
  <2> QED BY <1>2, <1>3, <1>4, <2>1, RequestDataConnTypes
<1>6. CASE mState[n] # "RELEASED"
  <2>1. msgQ' = q /\ UNCHANGED <<mState, request, timers, mRetries>>
    BY <1>6 DEF processAgpsEventSubscribe
  <2> QED BY <1>3, <1>4, <2>1, Types DEF StatesOK, QueuesOK, RequestOK
<1> QED BY <1>5, <1>6

LEMMA MachineOfType ==
  ASSUME NEW type
  PROVE  /\ getAgpsStateMachine(type) \in Nif
         /\ getAgpsStateMachine(type) = "DS" => EmergencyPdn
BY DEF getAgpsStateMachine, Nif

NewSubscriber(h, type) ==
  [mConnHandle |-> h, mWaitForCloseComplete |-> type = "SUPL_ES", mIsInactive |-> FALSE]

LEMMA NewSubscriberTypes ==
  ASSUME NEW h \in Handle, NEW type
  PROVE  /\ NewSubscriber(h, type) \in Subscriber
         /\ NewSubscriber(h, type).mConnHandle = h
         /\ NewSubscriber(h, type).mIsInactive = FALSE
<1>1. (type = "SUPL_ES") \in BOOLEAN
  OBVIOUS
<1> QED BY <1>1 DEF NewSubscriber, Subscriber

(* What requestATL does: the machine is not there, or gets a subscriber.   *)
LEMMA RequestATLCases ==
  ASSUME NEW h, NEW type, NEW view, NEW q, requestATL(h, type, view, q)
  PROVE  /\ nif' = nif \/ nif' = nif \cup {"DS"}
         /\ UNCHANGED <<report, dataConn, ssr>>
         /\ \/ processAgpsEventSubscribe(getAgpsStateMachine(type), NewSubscriber(h, type), view, q)
            \/ /\ atl' = [view EXCEPT ![h] = "idle"]
               /\ msgQ' = q
               /\ getAgpsStateMachine(type) \notin nif
               /\ UNCHANGED <<mState, mSubscriberList, request, timers, mRetries>>
BY DEF requestATL, NewSubscriber

LEMMA RequestATLTypes ==
  ASSUME TypeOK, NEW h \in Handle, NEW type, NEW view \in [Handle -> View], NEW q \in Seq(Msg),
         requestATL(h, type, view, q), owner' \in [Handle -> Nif]
  PROVE  TypeOK'
<1>1. PICK n \in Nif : n = getAgpsStateMachine(type)
  BY MachineOfType
<1>2. PICK s \in Subscriber : s = NewSubscriber(h, type)
  BY NewSubscriberTypes
<1>3. RestOK' /\ ReportOK'
  BY RequestATLCases, Types DEF RestOK, ReportOK, Nif
<1>4. CASE processAgpsEventSubscribe(n, s, view, q)
  <2>1. StatesOK' /\ ListsOK' /\ QueuesOK' /\ RequestOK' /\ atl' \in [Handle -> View]
    BY <1>4, SubscribeTypes
  <2>2. AtlOK'
    BY <2>1 DEF AtlOK
  <2> QED BY <1>3, <2>1, <2>2, TypesAfter
<1>5. CASE /\ atl' = [view EXCEPT ![h] = "idle"] /\ msgQ' = q
           /\ UNCHANGED <<mState, mSubscriberList, request, timers, mRetries>>
  <2>1. atl' \in [Handle -> View]
    BY <1>5 DEF View
  <2>2. StatesOK' /\ ListsOK' /\ QueuesOK' /\ RequestOK' /\ AtlOK'
    BY <1>5, <2>1, Types DEF AtlOK, StatesOK, ListsOK, QueuesOK, RequestOK
  <2> QED BY <1>3, <2>2, TypesAfter
<1> QED BY <1>1, <1>2, <1>4, <1>5, RequestATLCases

LEMMA ModemRequestTypes ==
  ASSUME TypeOK, NEW h \in Handle, NEW type, ModemRequest(h, type)
  PROVE  TypeOK'
<1>1. PICK n \in Nif : n = getAgpsStateMachine(type)
  BY MachineOfType
<1>2. owner' = [owner EXCEPT ![h] = n] /\ requestATL(h, type, [atl EXCEPT ![h] = "requested"], msgQ)
  BY <1>1 DEF ModemRequest
<1>3. [atl EXCEPT ![h] = "requested"] \in [Handle -> View] /\ owner' \in [Handle -> Nif]
  BY <1>2, Types DEF AtlOK, View
<1>4. msgQ \in Seq(Msg)
  BY Types DEF QueuesOK
<1> QED BY <1>2, <1>3, <1>4, RequestATLTypes

LEMMA FirstMessage ==
  ASSUME TypeOK, msgQ # <<>>
  PROVE  /\ Head(msgQ) \in Msg /\ Head(msgQ).mConnHandle \in Handle
         /\ Tail(msgQ) \in Seq(Msg)
<1>1. msgQ \in Seq(Msg)
  BY DEF TypeOK
<1>2. Head(msgQ) \in Msg /\ Tail(msgQ) \in Seq(Msg)
  BY <1>1
<1> QED BY <1>2 DEF Msg

LEMMA MsgRequestTypes ==
  ASSUME TypeOK, AgpsMsgRequestATL
  PROVE  TypeOK'
<1>1. PICK m : m = Head(msgQ) /\ m.mConnHandle \in Handle /\ Tail(msgQ) \in Seq(Msg)
  BY FirstMessage DEF AgpsMsgRequestATL
<1>2. requestATL(m.mConnHandle, m.mAgpsType, atl, Tail(msgQ)) /\ owner' = owner
  BY <1>1 DEF AgpsMsgRequestATL
<1>3. atl \in [Handle -> View] /\ owner' \in [Handle -> Nif]
  BY <1>2, Types DEF AtlOK
<1> QED BY <1>1, <1>2, <1>3, RequestATLTypes

LEMMA RetryTypes ==
  ASSUME TypeOK, retryCallback
  PROVE  TypeOK'
<1>1. timers \in Nat \ {0} /\ timers' = timers - 1 /\ mRetries' = mRetries
  BY Types DEF retryCallback, QueuesOK
<1>2. mSubscriberList["DS"] \in Seq(Subscriber)
  BY Types, ListOf DEF Nif
<1>3. msgQ' \in Seq(Msg)
  <2>1. CASE anyActiveSubscribers(mSubscriberList["DS"])
    <3>1. PICK h \in Handle : h = getFirstSubscriber(mSubscriberList["DS"]).mConnHandle
      BY <1>2, <2>1, FirstSubscriber
    <3>2. [mConnHandle |-> h, mAgpsType |-> "SUPL_ES"] \in Msg
      BY DEF Msg, AgpsType
    <3>3. msgQ' = Append(msgQ, [mConnHandle |-> h, mAgpsType |-> "SUPL_ES"])
      BY <2>1, <3>1 DEF retryCallback
    <3> QED BY <3>2, <3>3, Types, AppendProperties DEF QueuesOK
  <2>2. CASE ~anyActiveSubscribers(mSubscriberList["DS"])
    BY <2>2, Types DEF retryCallback, QueuesOK
  <2> QED BY <2>1, <2>2
<1>4. UNCHANGED <<nif, mState, mSubscriberList, request, report, dataConn, atl, owner, ssr>>
  BY DEF retryCallback, machines, network
<1>5. StatesOK' /\ ListsOK' /\ AtlOK' /\ RequestOK' /\ ReportOK' /\ RestOK'
  BY <1>4, Types DEF StatesOK, ListsOK, AtlOK, RequestOK, ReportOK, RestOK
<1>6. QueuesOK'
  BY <1>1, <1>3, Types DEF QueuesOK
<1> QED BY <1>5, <1>6, TypesAfter

(* deleteSubscriber keeps positions, all but the subscriber's if the freed *)
(* memory yields nobody else's handle.                                     *)
LEMMA DeletedList ==
  ASSUME NEW list \in Seq(Subscriber), NEW i \in DOMAIN list, NEW garbage
  PROVE  /\ deleteSubscriber(list, i, garbage) \in Seq(Subscriber)
         /\ Distinct(list) => Distinct(deleteSubscriber(list, i, garbage))
         /\ garbage = {} => /\ ToSet(deleteSubscriber(list, i, garbage))
                                 = {list[j] : j \in (DOMAIN list) \ {i}}
                            /\ Handles(deleteSubscriber(list, i, garbage))
                                 = HandlesAt(list, (DOMAIN list) \ {i})
<1>1. PICK P : P = {j \in DOMAIN list : \/ j < i
                                        \/ j > i /\ list[j].mConnHandle \notin garbage}
  OBVIOUS
<1>2. deleteSubscriber(list, i, garbage) = KeepAt(list, P) /\ P \in SUBSET (DOMAIN list)
  BY <1>1 DEF deleteSubscriber
<1>3. garbage = {} => P = (DOMAIN list) \ {i}
  <2>1. \A j \in DOMAIN list : j \in Nat
    BY ListDomain
  <2>2. \A j \in DOMAIN list : j < i \/ j > i <=> j # i
    BY <2>1
  <2> QED BY <1>1, <2>2
<1> QED BY <1>2, <1>3, KeptList

(* The UNSUBSCRIBE event, in a state other than RELEASED                   *)
Unsubscribed(list, i, garbage) ==
  IF list[i].mWaitForCloseComplete THEN [list EXCEPT ![i].mIsInactive = TRUE]
                                   ELSE deleteSubscriber(list, i, garbage)

LEMMA UnsubscribedTypes ==
  ASSUME NEW list \in Seq(Subscriber), NEW i \in DOMAIN list, NEW garbage
  PROVE  /\ Unsubscribed(list, i, garbage) \in Seq(Subscriber)
         /\ Distinct(list) => Distinct(Unsubscribed(list, i, garbage))
<1>1. PICK marked : marked = [list EXCEPT ![i].mIsInactive = TRUE]
  OBVIOUS
<1>2. marked \in Seq(Subscriber) /\ (Distinct(list) => Distinct(marked))
  <2>1. \A m : m = [list EXCEPT ![i].mIsInactive = TRUE] =>
                 m \in Seq(Subscriber) /\ (Distinct(list) => Distinct(m))
    BY MarkedList
  <2> QED BY <1>1, <2>1
<1> QED BY <1>1, <1>2, DeletedList DEF Unsubscribed

(* What follows the UNSUBSCRIBE event when left stays of the list          *)
AfterUnsubscribed(n, left) ==
  CASE left = <<>> ->
         /\ SetState(n, "RELEASED")
         /\ IF mState[n] = "RELEASING" THEN UNCHANGED <<request, queues>> ELSE ReleaseDataConn(n)
    [] left # <<>> /\ mState[n] # "RELEASING" /\ ~anyActiveSubscribers(left) ->
         SetState(n, "RELEASING") /\ ReleaseDataConn(n)
    [] OTHER -> UNCHANGED <<mState, request, queues>>

LEMMA UnsubscribeCases ==
  ASSUME NEW n, NEW i, processAgpsEventUnsubscribe(n, i), mState[n] # "RELEASED"
  PROVE  \E garbage \in SUBSET FreedReads :
           /\ SetList(n, Unsubscribed(mSubscriberList[n], i, garbage))
           /\ AfterUnsubscribed(n, Unsubscribed(mSubscriberList[n], i, garbage))
           /\ IF mSubscriberList[n][i].mWaitForCloseComplete
                THEN atl' = [atl EXCEPT ![mSubscriberList[n][i].mConnHandle] = "closing"]
                ELSE TellOver({mSubscriberList[n][i].mConnHandle})
BY DEF processAgpsEventUnsubscribe, Unsubscribed, AfterUnsubscribed

LEMMA AfterUnsubscribedTypes ==
  ASSUME TypeOK, NEW n \in Nif, NEW left, AfterUnsubscribed(n, left)
  PROVE  StatesOK' /\ QueuesOK' /\ RequestOK'
<1>1. StatesOK /\ QueuesOK /\ RequestOK /\ "RELEASED" \in State /\ "RELEASING" \in State
  BY Types DEF State
<1>2. (UNCHANGED <<request, queues>>) => QueuesOK' /\ RequestOK'
  BY <1>1 DEF QueuesOK, RequestOK, queues
<1>3. CASE left = <<>>
  BY <1>1, <1>2, <1>3, SetStateTypes, ReleaseDataConnTypes DEF AfterUnsubscribed
<1>4. CASE left # <<>> /\ mState[n] # "RELEASING" /\ ~anyActiveSubscribers(left)
  BY <1>1, <1>4, SetStateTypes, ReleaseDataConnTypes DEF AfterUnsubscribed
<1>5. CASE left # <<>> /\ ~(mState[n] # "RELEASING" /\ ~anyActiveSubscribers(left))
  <2>1. UNCHANGED <<mState, request, queues>>
    BY <1>5 DEF AfterUnsubscribed
  <2> QED BY <1>1, <1>2, <2>1 DEF StatesOK
<1> QED BY <1>3, <1>4, <1>5

LEMMA UnsubscribeTypes ==
  ASSUME TypeOK, NEW n \in Nif, NEW i \in DOMAIN mSubscriberList[n],
         processAgpsEventUnsubscribe(n, i)
  PROVE  StatesOK' /\ ListsOK' /\ QueuesOK' /\ RequestOK' /\ atl' \in [Handle -> View]
<1>1. PICK list \in Seq(Subscriber) : list = mSubscriberList[n]
  BY Types, ListOf
<1>2. PICK h : h = list[i].mConnHandle
  OBVIOUS
<1>3. AtlOK
  BY Types
<1>4. CASE mState[n] = "RELEASED"
  <2>1. TellOver({h}) /\ UNCHANGED <<mState, mSubscriberList, request, queues>>
    BY <1>1, <1>2, <1>4 DEF processAgpsEventUnsubscribe
  <2> QED BY <1>3, <2>1, Types, TellOverTypes DEF StatesOK, ListsOK, QueuesOK, RequestOK, queues
<1>5. CASE mState[n] # "RELEASED"
  <2>1. PICK garbage : LET left == Unsubscribed(list, i, garbage)
                       IN  /\ SetList(n, left)
                           /\ AfterUnsubscribed(n, left)
                           /\ IF list[i].mWaitForCloseComplete
                                THEN atl' = [atl EXCEPT ![h] = "closing"] ELSE TellOver({h})
    BY <1>1, <1>2, <1>5, UnsubscribeCases
  <2>2. PICK left \in Seq(Subscriber) : left = Unsubscribed(list, i, garbage)
    BY <1>1, UnsubscribedTypes
  <2>3. ListsOK'
    BY <2>1, <2>2, Types, SetListTypes
  <2>4. atl' \in [Handle -> View]
    BY <1>3, <2>1, TellOverTypes DEF AtlOK, View
  <2> QED BY <2>1, <2>2, <2>3, <2>4, AfterUnsubscribedTypes
<1> QED BY <1>4, <1>5

(* What releaseATL does: nobody knows the handle, or it is unsubscribed.   *)
LEMMA ReleaseATLCases ==
  ASSUME TypeOK, NEW h \in Handle, releaseATL(h)
  PROVE  /\ UNCHANGED <<nif, report, dataConn, owner, ssr>>
         /\ \/ /\ Holding(h) = {}
               /\ TellOver({h}) /\ UNCHANGED <<mState, mSubscriberList, request, queues>>
            \/ \E n \in Holding(h) : \E i \in DOMAIN mSubscriberList[n] :
                 /\ mSubscriberList[n][i].mConnHandle = h
                 /\ processAgpsEventUnsubscribe(n, i)
<1>1. CASE Holding(h) = {}
  BY <1>1 DEF releaseATL
<1>2. CASE Holding(h) # {}
  <2>1. PICK n \in Holding(h) : n = FirstHolding(h)
    BY <1>2, FoundMachine
  <2>2. n \in Nif /\ h \in Handles(mSubscriberList[n])
    BY <2>1 DEF Holding
  <2>3. mSubscriberList[n] \in Seq(Subscriber)
    BY <2>2, Types, ListOf
  <2>4. PICK i \in DOMAIN mSubscriberList[n] : /\ i = getSubscriber(mSubscriberList[n], h)
                                               /\ mSubscriberList[n][i].mConnHandle = h
    BY <2>2, <2>3, FoundSubscriber
  <2>5. processAgpsEventUnsubscribe(n, i) /\ UNCHANGED <<nif, report, dataConn, owner, ssr>>
    BY <1>2, <2>1, <2>4 DEF releaseATL
  <2> QED BY <2>1, <2>4, <2>5
<1> QED BY <1>1, <1>2

LEMMA ReleaseATLTypes ==
  ASSUME TypeOK, NEW h \in Handle, releaseATL(h)
  PROVE  TypeOK'
<1>1. UNCHANGED <<nif, report, dataConn, owner, ssr>>
  BY ReleaseATLCases
<1>2. RestOK' /\ ReportOK'
  BY <1>1, Types DEF RestOK, ReportOK
<1>3. StatesOK' /\ ListsOK' /\ QueuesOK' /\ RequestOK' /\ atl' \in [Handle -> View]
  <2>1. CASE TellOver({h}) /\ UNCHANGED <<mState, mSubscriberList, request, queues>>
    BY <2>1, Types, TellOverTypes DEF StatesOK, ListsOK, QueuesOK, RequestOK, queues
  <2>2. ASSUME NEW n \in Holding(h), NEW i \in DOMAIN mSubscriberList[n],
               processAgpsEventUnsubscribe(n, i)
        PROVE  StatesOK' /\ ListsOK' /\ QueuesOK' /\ RequestOK' /\ atl' \in [Handle -> View]
    BY <2>2, UnsubscribeTypes DEF Holding
  <2> QED BY <2>1, <2>2, ReleaseATLCases
<1>4. AtlOK'
  BY <1>1, <1>3, Types DEF AtlOK
<1> QED BY <1>2, <1>3, <1>4, TypesAfter

(* Reports                                                                 *)
LEMMA TakeTypes ==
  ASSUME TypeOK, NEW n \in Nif, NEW event, Take(n, event)
  PROVE  RestOK' /\ ReportOK' /\ owner' = owner
<1>1. PICK q : q = Tail(report[n]) /\ q \in Seq(Reply)
  BY Types, TailProperties DEF Take, ReportOK
<1>2. report' = [report EXCEPT ![n] = q] /\ UNCHANGED <<nif, dataConn, owner, ssr>>
  BY <1>1 DEF Take
<1> QED BY <1>1, <1>2, Types DEF RestOK, ReportOK

MachineTypes ==
  StatesOK /\ ListsOK /\ QueuesOK /\ RequestOK /\ atl \in [Handle -> View]

LEMMA ReportTypes ==
  ASSUME TypeOK, NEW n \in Nif, NEW event, Take(n, event), MachineTypes'
  PROVE  TypeOK'
<1>1. AtlOK'
  BY TakeTypes, Types DEF MachineTypes, AtlOK
<1> QED BY <1>1, TakeTypes, TypesAfter DEF MachineTypes

LEMMA IgnoreTypes ==
  ASSUME TypeOK, Ignore
  PROVE  MachineTypes'
BY Types DEF Ignore, MachineTypes, StatesOK, ListsOK, QueuesOK, RequestOK, AtlOK, queues

LEMMA GrantedTypes ==
  ASSUME TypeOK, NEW n \in Nif, processAgpsEventGranted(n)
  PROVE  TypeOK'
<1>1. CASE mState[n] = "PENDING"
  <2>1. PICK H : TellOpen(atl, H)
    BY <1>1 DEF processAgpsEventGranted
  <2>2. SetState(n, "ACQUIRED") /\ UNCHANGED <<mSubscriberList, request, queues>>
    BY <1>1 DEF processAgpsEventGranted
  <2>3. atl' \in [Handle -> View] /\ StatesOK'
    BY <2>1, <2>2, Types, TellTypes, SetStateTypes DEF AtlOK, State
  <2>4. MachineTypes'
    BY <2>2, <2>3, Types DEF MachineTypes, ListsOK, QueuesOK, RequestOK, queues
  <2> QED BY <2>4, ReportTypes DEF processAgpsEventGranted
<1>2. CASE mState[n] # "PENDING"
  BY <1>2, IgnoreTypes, ReportTypes DEF processAgpsEventGranted
<1> QED BY <1>1, <1>2

LEMMA ReleaseCompleteTypes ==
  ASSUME TypeOK, NEW n \in Nif, ReleaseComplete(n)
  PROVE  MachineTypes'
<1>1. PICK list \in Seq(Subscriber) : list = mSubscriberList[n]
  BY Types, ListOf
<1>2. PICK left \in Seq(Subscriber) : left = KeepAt(list, ActiveIn(list))
  <2>1. ActiveIn(list) \in SUBSET (DOMAIN list)
    BY DEF ActiveIn
  <2> QED BY <2>1, KeptList
<1>3. ListsOK' /\ atl' \in [Handle -> View]
  BY <1>1, <1>2, Types, SetListTypes, TellOverTypes DEF ReleaseComplete
<1>4. CASE anyActiveSubscribers(left)
  <2>1. RequestDataConn(n, left, "PENDING", msgQ)
    BY <1>1, <1>2, <1>4 DEF ReleaseComplete
  <2>2. "PENDING" \in State /\ msgQ \in Seq(Msg)
    BY Types DEF State, QueuesOK
  <2> QED BY <1>3, <2>1, <2>2, RequestDataConnTypes DEF MachineTypes
<1>5. CASE ~anyActiveSubscribers(left)
  <2>1. SetState(n, "RELEASED") /\ UNCHANGED <<request, queues>>
    BY <1>1, <1>2, <1>5 DEF ReleaseComplete
  <2>2. StatesOK'
    BY <2>1, Types, SetStateTypes DEF State
  <2> QED BY <1>3, <2>1, <2>2, Types DEF MachineTypes, QueuesOK, RequestOK, queues
<1> QED BY <1>4, <1>5

LEMMA ForceReleaseTypes ==
  ASSUME TypeOK, NEW n \in Nif, ForceRelease(n)
  PROVE  MachineTypes'
<1>1. SetState(n, "RELEASED") /\ SetList(n, <<>>) /\ UNCHANGED <<request, queues>>
  BY DEF ForceRelease
<1>2. atl' \in [Handle -> View]
  BY Types, TellOverTypes DEF ForceRelease
<1>3. StatesOK'
  BY <1>1, Types, SetStateTypes DEF State
<1>4. ListsOK'
  <2>1. <<>> \in Seq(Subscriber)
    OBVIOUS
  <2> QED BY <1>1, <2>1, Types, SetListTypes
<1> QED BY <1>1, <1>2, <1>3, <1>4, Types DEF MachineTypes, QueuesOK, RequestOK, queues

(* The requests posted when the DS client denies a call: one for each.     *)
SuplRequests(list) == [i \in DOMAIN list |-> SuplRequest(list[i].mConnHandle)]

LEMMA SuplRequestsTypes ==
  ASSUME NEW list \in Seq(Subscriber)
  PROVE  /\ SuplRequests(list) \in Seq(Msg) /\ Len(SuplRequests(list)) = Len(list)
         /\ \A i \in 1..Len(list) : SuplRequests(list)[i].mConnHandle = list[i].mConnHandle
<1>1. Len(list) \in Nat /\ DOMAIN list = 1..Len(list)
  BY ListDomain
<1>2. \A i \in DOMAIN list : /\ SuplRequest(list[i].mConnHandle) \in Msg
                             /\ SuplRequest(list[i].mConnHandle).mConnHandle = list[i].mConnHandle
  BY ListElements, SuplRequestTypes
<1>3. PICK q : q = SuplRequests(list)
  OBVIOUS
<1>4. /\ q \in [1..Len(list) -> Msg]
      /\ \A i \in 1..Len(list) : q[i].mConnHandle = list[i].mConnHandle
  BY <1>1, <1>2, <1>3 DEF SuplRequests
<1>5. q \in Seq(Msg) /\ Len(q) = Len(list)
  BY <1>1, <1>4
<1> QED BY <1>3, <1>4, <1>5

LEMMA DeniedTypes ==
  ASSUME TypeOK, NEW n \in Nif, Denied(n)
  PROVE  MachineTypes'
<1>1. PICK list \in Seq(Subscriber) : list = mSubscriberList[n]
  BY Types, ListOf
<1>2. SetState(n, "RELEASED") /\ SetList(n, <<>>) /\ UNCHANGED request
  BY DEF Denied
<1>3. StatesOK' /\ RequestOK'
  BY <1>2, Types, SetStateTypes DEF State, RequestOK
<1>4. ListsOK'
  <2>1. <<>> \in Seq(Subscriber)
    OBVIOUS
  <2> QED BY <1>2, <2>1, Types, SetListTypes
<1>5. CASE n = "DS"
  <2>1. PICK r \in Seq(Msg) : r = SuplRequests(list)
    BY SuplRequestsTypes
  <2>2. msgQ' = msgQ \o r /\ UNCHANGED <<atl, timers>> /\ mRetries' \in {mRetries, 0}
    BY <1>1, <1>5, <2>1 DEF Denied, SuplRequests
  <2>3. msgQ \in Seq(Msg) /\ MaxRetries \in Nat /\ mRetries \in 0..MaxRetries /\ timers \in Nat
    BY AgpsAssumption, Types DEF QueuesOK
  <2>4. msgQ' \in Seq(Msg)
    <3>1. msgQ \o r \in Seq(Msg)
      BY <2>3
    <3> QED BY <2>2, <3>1
  <2>5. QueuesOK' /\ atl' \in [Handle -> View]
    BY <2>2, <2>3, <2>4, Types DEF QueuesOK, AtlOK
  <2> QED BY <1>3, <1>4, <2>5 DEF MachineTypes
<1>6. CASE n # "DS"
  <2>1. TellOver(Handles(mSubscriberList[n])) /\ UNCHANGED queues
    BY <1>6 DEF Denied
  <2>2. atl' \in [Handle -> View]
    BY <2>1, Types, TellOverTypes
  <2> QED BY <1>3, <1>4, <2>1, <2>2, Types DEF MachineTypes, QueuesOK, queues
<1> QED BY <1>5, <1>6

LEMMA ReleasedTypes ==
  ASSUME TypeOK, NEW n \in Nif, processAgpsEventReleased(n)
  PROVE  TypeOK'
<1>1. ForceRelease(n) \/ ReleaseComplete(n) \/ Denied(n) \/ Ignore
  BY DEF processAgpsEventReleased
<1>2. MachineTypes'
  BY <1>1, ForceReleaseTypes, ReleaseCompleteTypes, DeniedTypes, IgnoreTypes
<1> QED BY <1>2, ReportTypes DEF processAgpsEventReleased

LEMMA FailedTypes ==
  ASSUME TypeOK, NEW n \in Nif, processAgpsEventDenied(n)
  PROVE  TypeOK'
<1>1. ReleaseComplete(n) \/ Denied(n) \/ Ignore
  BY DEF processAgpsEventDenied
<1>2. MachineTypes'
  BY <1>1, ReleaseCompleteTypes, DeniedTypes, IgnoreTypes
<1> QED BY <1>2, ReportTypes DEF processAgpsEventDenied

LEMMA RestartTypes ==
  ASSUME TypeOK, handleModemSSR
  PROVE  TypeOK'
<1>1. /\ ssr < MaxSSR /\ ssr' = ssr + 1
      /\ mSubscriberList' = [n \in Nif |-> <<>>] /\ atl' = [h \in Handle |-> "idle"]
      /\ Command("DS", "RELEASE") \/ UNCHANGED request
      /\ UNCHANGED <<nif, mState, queues, report, dataConn, owner>>
  BY DEF handleModemSSR
<1>2. RestOK'
  BY <1>1, AgpsAssumption, Types DEF RestOK
<1>3. ListsOK' /\ AtlOK'
  <2>1. <<>> \in Seq(Subscriber) /\ "idle" \in View
    BY DEF View
  <2> QED BY <1>1, <2>1, Types DEF ListsOK, AtlOK
<1>4. RequestOK'
  <2>1. "DS" \in Nif /\ "RELEASE" \in Cmd
    BY DEF Nif, Cmd
  <2>2. CASE Command("DS", "RELEASE")
    BY <2>1, <2>2, Types, CommandTypes
  <2>3. CASE UNCHANGED request
    BY <2>3, Types DEF RequestOK
  <2> QED BY <1>1, <2>2, <2>3
<1>5. StatesOK' /\ QueuesOK' /\ ReportOK'
  BY <1>1, Types DEF StatesOK, QueuesOK, ReportOK, queues
<1> QED BY <1>2, <1>3, <1>4, <1>5, TypesAfter

(* The network side                                                        *)
LEMMA NetworkTypes ==
  ASSUME TypeOK, NEW n \in Nif, NEW event \in Reply,
         \/ request' = request
         \/ request' = [request EXCEPT ![n] = Tail(@)] /\ request[n] # <<>>,
         Report(n, event) \/ UNCHANGED report,
         (\E up \in BOOLEAN : SetConn(n, up)) \/ UNCHANGED dataConn,
         UNCHANGED <<machines, queues, atl, owner, ssr>>
  PROVE  TypeOK'
<1>1. RequestOK'
  <2>1. PICK q : q = Tail(request[n]) /\ (request[n] # <<>> => q \in Seq(Cmd))
    BY Types, TailProperties DEF RequestOK
  <2>2. \/ UNCHANGED request
        \/ request' = [request EXCEPT ![n] = q] /\ q \in Seq(Cmd)
    BY <2>1
  <2> QED BY <2>2, Types DEF RequestOK
<1>2. report' \in [Nif -> Seq(Reply)]
  <2>1. PICK q \in Seq(Reply) : q = Append(report[n], event)
    BY Types, AppendProperties DEF ReportOK
  <2>2. report' = report \/ report' = [report EXCEPT ![n] = q]
    BY <2>1 DEF Report
  <2> QED BY <2>1, <2>2, Types DEF ReportOK
<1>3. dataConn' \in [Nif -> BOOLEAN]
  BY Types DEF SetConn, ReportOK
<1>4. StatesOK' /\ ListsOK' /\ QueuesOK' /\ AtlOK' /\ RestOK'
  BY Types DEF StatesOK, ListsOK, QueuesOK, AtlOK, RestOK, machines, queues
<1> QED BY <1>1, <1>2, <1>3, <1>4, TypesAfter DEF ReportOK

LEMMA TypeKept ==
  ASSUME TypeOK, [Next]_vars
  PROVE  TypeOK'
<1>1. ASSUME NEW n \in Nif, NetworkRequest(n) PROVE TypeOK'
  <2>1. /\ request' = [request EXCEPT ![n] = Tail(@)] /\ request[n] # <<>>
        /\ UNCHANGED <<machines, queues, atl, owner, ssr>>
    BY <1>1 DEF NetworkRequest, Execute
  <2>2. PICK event \in Reply : /\ Report(n, event)
                               /\ SetConn(n, TRUE) \/ UNCHANGED dataConn
    BY <1>1 DEF NetworkRequest, Reply
  <2> QED BY <2>1, <2>2, NetworkTypes
<1>2. ASSUME NEW n \in Nif, NetworkRelease(n) PROVE TypeOK'
  <2>1. /\ request' = [request EXCEPT ![n] = Tail(@)] /\ request[n] # <<>>
        /\ UNCHANGED <<machines, queues, atl, owner, ssr>>
    BY <1>2 DEF NetworkRelease, Execute
  <2>2. PICK event \in Reply : /\ Report(n, event) \/ UNCHANGED report
                               /\ SetConn(n, FALSE) \/ UNCHANGED dataConn
    BY <1>2 DEF NetworkRelease, Reply
  <2> QED BY <2>1, <2>2, NetworkTypes
<1>3. ASSUME NEW n \in Nif, NetworkLoss(n) PROVE TypeOK'
  <2>1. "CLOSED" \in Reply /\ Report(n, "CLOSED") /\ SetConn(n, FALSE)
        /\ UNCHANGED <<request, machines, queues, atl, owner, ssr>>
    BY <1>3 DEF NetworkLoss, Reply
  <2>2. request' = request /\ UNCHANGED <<machines, queues, atl, owner, ssr>>
    BY <2>1
  <2>3. \E up \in BOOLEAN : SetConn(n, up)
    BY <2>1
  <2> QED BY <2>1, <2>2, <2>3, NetworkTypes
<1>4. CASE UNCHANGED vars
  <2>1. UNCHANGED <<nif, mState, mSubscriberList, mRetries, msgQ, timers, atl, owner, request,
                    report, dataConn, ssr>>
    BY <1>4 DEF vars, machines, queues, network
  <2>2. /\ StatesOK' /\ ListsOK' /\ QueuesOK' /\ AtlOK' /\ RequestOK' /\ ReportOK' /\ RestOK'
    BY <2>1, Types DEF StatesOK, ListsOK, QueuesOK, AtlOK, RequestOK, ReportOK, RestOK
  <2> QED BY <2>2, TypesAfter
<1> QED
  BY <1>1, <1>2, <1>3, <1>4, ModemRequestTypes, ReleaseATLTypes, MsgRequestTypes, RetryTypes,
     GrantedTypes, ReleasedTypes, FailedTypes, RestartTypes DEF Next

LEMMA InitTypes ==
  ASSUME Init
  PROVE  TypeOK
<1>1. <<>> \in Seq(Subscriber) /\ <<>> \in Seq(Msg) /\ <<>> \in Seq(Cmd) /\ <<>> \in Seq(Reply)
  OBVIOUS
<1>2. MaxRetries \in Nat /\ MaxSSR \in Nat
  BY AgpsAssumption
<1>3. StatesOK /\ ListsOK /\ QueuesOK /\ RequestOK /\ ReportOK
  BY <1>1, <1>2 DEF Init, StatesOK, ListsOK, QueuesOK, RequestOK, ReportOK, State
<1>4. AtlOK /\ RestOK
  BY <1>2 DEF Init, AtlOK, RestOK, View, Nif, createAgpsStateMachines
<1> QED BY <1>3, <1>4, Types

(* The manager, its machines and everything around them keep their shape,  *)
(* and mRetries its bound, under every request, report, retry and restart. *)
THEOREM ManagerTypes == Spec => []TypeOK
BY InitTypes, TypeKept, PTL DEF Spec

-----------------------------------------------------------------------------
(* Nobody is forgotten                                                     *)

PostedIn(q, h) == \E i \in DOMAIN q : q[i].mConnHandle = h

Waits(h) == atl[h] \in {"requested", "closing"}

(* What every step does for those who wait, if the freed subscriber reads  *)
(* as nobody else: who leaves a list was told, or is posted a message;     *)
(* a message is taken for its handle; and who starts to wait is in a list. *)
Stays(n, h) == h \in Handles(mSubscriberList'[n]) \/ atl'[h] = "idle" \/ Posted(h)'

Keeps ==
  /\ \A n \in Nif : \A h \in Handles(mSubscriberList[n]) : Stays(n, h)
  /\ \A h \in Handle : Posted(h) => Posted(h)' \/ Holding(h)' # {} \/ atl'[h] = "idle"
  /\ \A h \in Handle : Waits(h)' => Waits(h) \/ Holding(h)' # {} \/ Posted(h)'

LEMMA PostedGrows ==
  ASSUME NEW q \in Seq(Msg), NEW h
  PROVE  /\ \A m : PostedIn(q, h) => PostedIn(Append(q, m), h)
         /\ \A r \in Seq(Msg) : PostedIn(q, h) \/ PostedIn(r, h) => PostedIn(q \o r, h)
<1>1. IsQueue(q) /\ Len(q) \in Nat /\ DOMAIN q = 1..Len(q)
  BY QueueOf, ListDomain
<1>2. ASSUME NEW m, PostedIn(q, h) PROVE PostedIn(Append(q, m), h)
  <2>1. PICK a : a = Append(q, m)
    OBVIOUS
  <2>2. IsQueue(a) /\ Len(a) = Len(q) + 1 /\ \A i \in 1..Len(q) : a[i] = q[i]
    BY ONLY <1>1, <2>1, QueueAppend
  <2>3. DOMAIN a = 1..Len(a)
    BY <2>2 DEF IsQueue
  <2>4. PICK i \in 1..Len(q) : q[i].mConnHandle = h
    BY <1>1, <1>2 DEF PostedIn
  <2>5. i \in DOMAIN a /\ a[i] = q[i]
    BY <1>1, <2>2, <2>3
  <2> QED BY <2>1, <2>4, <2>5 DEF PostedIn
<1>3. ASSUME NEW r \in Seq(Msg), PostedIn(q, h) \/ PostedIn(r, h) PROVE PostedIn(q \o r, h)
  <2>1. IsQueue(r) /\ Len(r) \in Nat /\ DOMAIN r = 1..Len(r)
    BY QueueOf, ListDomain
  <2>2. PICK c : c = q \o r
    OBVIOUS
  <2>3. /\ IsQueue(c) /\ Len(c) = Len(q) + Len(r)
        /\ \A i \in 1..Len(q) : c[i] = q[i]
        /\ \A i \in 1..Len(r) : c[Len(q) + i] = r[i]
    BY ONLY <1>1, <2>1, <2>2, QueueConcat
  <2>4. DOMAIN c = 1..Len(c)
    BY <2>3 DEF IsQueue
  <2>5. CASE PostedIn(q, h)
    <3>1. PICK i \in 1..Len(q) : q[i].mConnHandle = h
      BY <1>1, <2>5 DEF PostedIn
    <3>2. i \in DOMAIN c /\ c[i] = q[i]
      BY <1>1, <2>1, <2>3, <2>4
    <3> QED BY <2>2, <3>1, <3>2 DEF PostedIn
  <2>6. CASE PostedIn(r, h)
    <3>1. PICK i \in 1..Len(r) : r[i].mConnHandle = h
      BY <2>1, <2>6 DEF PostedIn
    <3>2. Len(q) + i \in DOMAIN c /\ c[Len(q) + i] = r[i]
      BY <1>1, <2>1, <2>3, <2>4
    <3> QED BY <2>2, <3>1, <3>2 DEF PostedIn
  <2> QED BY <1>3, <2>5, <2>6
<1> QED BY <1>2, <1>3

LEMMA PostedTaken ==
  ASSUME NEW q \in Seq(Msg), q # <<>>, NEW h, PostedIn(q, h)
  PROVE  Head(q).mConnHandle = h \/ PostedIn(Tail(q), h)
<1>1. IsQueue(q) /\ DOMAIN q = 1..Len(q)
  BY QueueOf, ListDomain
<1>2. PICK t : t = Tail(q)
  OBVIOUS
<1>3. /\ IsQueue(t) /\ Len(q) \in Nat \ {0} /\ Len(t) = Len(q) - 1 /\ Head(q) = q[1]
      /\ \A i \in 1..Len(t) : t[i] = q[i + 1]
  BY ONLY <1>1, <1>2, q # <<>>, QueueTail
<1>4. DOMAIN t = 1..Len(t)
  BY <1>3 DEF IsQueue
<1>5. PICK i \in 1..Len(q) : q[i].mConnHandle = h
  BY <1>1 DEF PostedIn
<1>6. CASE i = 1
  BY <1>3, <1>5, <1>6
<1>7. CASE i # 1
  <2>1. i - 1 \in DOMAIN t /\ (i - 1) + 1 = i
    BY <1>3, <1>4, <1>7
  <2>2. t[i - 1] = q[i]
    BY <1>3, <1>4, <2>1
  <2> QED BY <1>2, <1>5, <2>1, <2>2 DEF PostedIn
<1> QED BY <1>6, <1>7

(* Asking for a connection posts a message at most.                        *)
LEMMA RequestPosts ==
  ASSUME NEW n, NEW list, NEW otherwise, NEW q \in Seq(Msg), RequestDataConn(n, list, otherwise, q),
         NEW h, PostedIn(q, h)
  PROVE  Posted(h)'
<1>1. msgQ' = q \/ \E m : msgQ' = Append(q, m)
  BY DEF RequestDataConn, StartDataCall
<1>2. PostedIn(msgQ', h)
  BY <1>1, PostedGrows
<1> QED BY <1>2 DEF PostedIn, Posted

LEMMA SetListElsewhere ==
  ASSUME ListsOK, NEW n \in Nif, NEW list, SetList(n, list)
  PROVE  mSubscriberList'[n] = list /\ \A m \in Nif : m # n => mSubscriberList'[m] = mSubscriberList[m]
BY DEF SetList, ListsOK

LEMMA RequestATLKeeps ==
  ASSUME TypeOK, NEW h \in Handle, NEW type, NEW view \in [Handle -> View], NEW q \in Seq(Msg),
         requestATL(h, type, view, q)
  PROVE  /\ \A n \in Nif : Handles(mSubscriberList[n]) \in SUBSET Handles(mSubscriberList'[n])
         /\ \A g : PostedIn(q, g) => Posted(g)'
         /\ \A g \in Handle : Waits(g)' => view[g] \in {"requested", "closing"}
         /\ Holding(h)' # {} \/ atl'[h] = "idle"
<1>1. PICK n \in Nif : n = getAgpsStateMachine(type)
  BY MachineOfType
<1>2. PICK s \in Subscriber : s = NewSubscriber(h, type) /\ s.mConnHandle = h
  BY NewSubscriberTypes
<1>3. CASE processAgpsEventSubscribe(n, s, view, q)
  <2>1. PICK old \in Seq(Subscriber) : old = mSubscriberList[n]
    BY Types, ListOf
  <2>2. PICK list : list = addSubscriber(old, s)
    OBVIOUS
  <2>3. Handles(list) = Handles(old) \cup {h}
    BY <1>2, <2>1, <2>2, AddedList
  <2>4. SetList(n, list)
    BY <1>3, <2>1, <2>2 DEF processAgpsEventSubscribe
  <2>5. mSubscriberList'[n] = list /\ \A m \in Nif : m # n => mSubscriberList'[m] = mSubscriberList[m]
    BY <2>4, Types, SetListElsewhere
  <2>6. \A m \in Nif : Handles(mSubscriberList[m]) \in SUBSET Handles(mSubscriberList'[m])
    BY <2>1, <2>3, <2>5
  <2>7. Holding(h)' # {}
    <3>1. h \in Handles(mSubscriberList'[n])
      BY <2>3, <2>5
    <3> QED BY <3>1 DEF Holding
  <2>8. \A g \in Handle : Waits(g)' => view[g] \in {"requested", "closing"}
    BY <1>3 DEF processAgpsEventSubscribe, TellOpen, Waits
  <2>9. ASSUME NEW g, PostedIn(q, g) PROVE Posted(g)'
    <3>1. RequestDataConn(n, list, "RELEASED", q) \/ msgQ' = q
      BY <1>3, <2>1, <2>2 DEF processAgpsEventSubscribe
    <3>2. CASE msgQ' = q
      BY <2>9, <3>2 DEF PostedIn, Posted
    <3> QED BY <2>9, <3>1, <3>2, RequestPosts
  <2> QED BY <2>6, <2>7, <2>8, <2>9
<1>4. CASE /\ atl' = [view EXCEPT ![h] = "idle"] /\ msgQ' = q
           /\ UNCHANGED mSubscriberList
  BY <1>4 DEF Waits, PostedIn, Posted
<1> QED BY <1>1, <1>2, <1>3, <1>4, RequestATLCases

LEMMA ModemRequestKeeps ==
  ASSUME TypeOK, NEW h \in Handle, NEW type, ModemRequest(h, type)
  PROVE  Keeps
<1>1. PICK view : view = [atl EXCEPT ![h] = "requested"]
  OBVIOUS
<1>2. requestATL(h, type, view, msgQ)
  BY <1>1 DEF ModemRequest
<1>3. view \in [Handle -> View] /\ msgQ \in Seq(Msg) /\ \A g \in Handle : g # h => view[g] = atl[g]
  BY <1>1, Types DEF AtlOK, QueuesOK, View
<1>4. /\ \A n \in Nif : Handles(mSubscriberList[n]) \in SUBSET Handles(mSubscriberList'[n])
      /\ \A g : PostedIn(msgQ, g) => Posted(g)'
      /\ \A g \in Handle : Waits(g)' => view[g] \in {"requested", "closing"}
      /\ Holding(h)' # {} \/ atl'[h] = "idle"
  BY <1>2, <1>3, RequestATLKeeps
<1>5. \A g \in Handle : Waits(g)' => Waits(g) \/ Holding(g)' # {}
  BY <1>3, <1>4 DEF Waits
<1>6. \A g : Posted(g) => Posted(g)'
  BY <1>4 DEF Posted, PostedIn
<1> QED BY <1>4, <1>5, <1>6 DEF Keeps, Stays

LEMMA MsgRequestKeeps ==
  ASSUME TypeOK, AgpsMsgRequestATL
  PROVE  Keeps
<1>1. PICK m : m = Head(msgQ) /\ m.mConnHandle \in Handle /\ Tail(msgQ) \in Seq(Msg)
  BY FirstMessage DEF AgpsMsgRequestATL
<1>2. PICK h \in Handle : h = m.mConnHandle
  BY <1>1
<1>3. requestATL(h, m.mAgpsType, atl, Tail(msgQ)) /\ msgQ # <<>>
  BY <1>1, <1>2 DEF AgpsMsgRequestATL
<1>4. atl \in [Handle -> View] /\ msgQ \in Seq(Msg)
  BY Types DEF AtlOK, QueuesOK
<1>5. /\ \A n \in Nif : Handles(mSubscriberList[n]) \in SUBSET Handles(mSubscriberList'[n])
      /\ \A g : PostedIn(Tail(msgQ), g) => Posted(g)'
      /\ \A g \in Handle : Waits(g)' => atl[g] \in {"requested", "closing"}
      /\ Holding(h)' # {} \/ atl'[h] = "idle"
  BY <1>1, <1>3, <1>4, RequestATLKeeps
<1>6. \A g : Posted(g) => g = h \/ Posted(g)'
  <2>1. ASSUME NEW g, PostedIn(msgQ, g) PROVE g = h \/ PostedIn(Tail(msgQ), g)
    <3>1. Head(msgQ).mConnHandle = g \/ PostedIn(Tail(msgQ), g)
      BY <1>3, <1>4, <2>1, PostedTaken
    <3> QED BY <1>1, <1>2, <3>1
  <2>2. \A g : Posted(g) => PostedIn(msgQ, g)
    BY DEF Posted, PostedIn
  <2> QED BY <1>5, <2>1, <2>2
<1> QED BY <1>5, <1>6 DEF Keeps, Stays, Waits

LEMMA SameQueuePosts ==
  ASSUME UNCHANGED msgQ
  PROVE  \A h : Posted(h) => Posted(h)'
BY DEF Posted

LEMMA UnsubscribeKeeps ==
  ASSUME TypeOK, FreedReads = {}, NEW n \in Nif, NEW i \in DOMAIN mSubscriberList[n],
         processAgpsEventUnsubscribe(n, i)
  PROVE  Keeps
<1>1. PICK list \in Seq(Subscriber) : list = mSubscriberList[n]
  BY Types, ListOf
<1>2. PICK h \in Handle : h = list[i].mConnHandle
  BY <1>1, ListElements
<1>3. CASE mState[n] = "RELEASED"
  <2>1. TellOver({h}) /\ UNCHANGED <<mSubscriberList, msgQ>>
    BY <1>1, <1>2, <1>3 DEF processAgpsEventUnsubscribe, queues
  <2> QED BY <2>1, SameQueuePosts DEF Keeps, Stays, Waits, TellOver
<1>4. CASE mState[n] # "RELEASED"
  <2>1. PICK left : /\ left = Unsubscribed(list, i, {})
                    /\ SetList(n, left)
                    /\ AfterUnsubscribed(n, left)
                    /\ IF list[i].mWaitForCloseComplete
                         THEN atl' = [atl EXCEPT ![h] = "closing"] ELSE TellOver({h})
    <3>1. \A garbage \in SUBSET FreedReads : garbage = {}
      OBVIOUS
    <3> QED BY <1>1, <1>2, <1>4, <3>1, UnsubscribeCases
  <2>2. msgQ' = msgQ
    BY <2>1 DEF AfterUnsubscribed, ReleaseDataConn, queues
  <2>3. mSubscriberList'[n] = left /\ \A m \in Nif : m # n => mSubscriberList'[m] = mSubscriberList[m]
    BY <2>1, Types, SetListElsewhere
  <2>4. CASE list[i].mWaitForCloseComplete
    <3>1. left = [list EXCEPT ![i].mIsInactive = TRUE]
      BY <2>1, <2>4 DEF Unsubscribed
    <3>2. Handles(left) = Handles(list)
      <4>1. i \in DOMAIN list
        BY <1>1
      <4>2. \A m : m = [list EXCEPT ![i].mIsInactive = TRUE] => Handles(m) = Handles(list)
        BY <4>1, MarkedList
      <4> QED BY <3>1, <4>2
    <3>3. h \in Handles(list)
      BY <1>1, <1>2 DEF Handles, HandlesAt
    <3>4. atl' = [atl EXCEPT ![h] = "closing"] /\ atl \in [Handle -> View]
      BY <2>1, <2>4, Types DEF AtlOK
    <3>5. Holding(h)' # {}
      BY <2>3, <3>2, <3>3 DEF Holding
    <3>6. \A g \in Handle : Waits(g)' => Waits(g) \/ g = h
      BY <3>4 DEF Waits
    <3>7. \A m \in Nif : Handles(mSubscriberList'[m]) = Handles(mSubscriberList[m])
      BY <1>1, <2>3, <3>2
    <3> QED BY <2>2, <3>5, <3>6, <3>7, SameQueuePosts DEF Keeps, Stays
  <2>5. CASE ~list[i].mWaitForCloseComplete
    <3>1. left = deleteSubscriber(list, i, {}) /\ TellOver({h})
      BY <2>1, <2>5 DEF Unsubscribed
    <3>2. Handles(left) = HandlesAt(list, (DOMAIN list) \ {i})
      <4>1. i \in DOMAIN list
        BY <1>1
      <4> QED BY <3>1, <4>1, DeletedList
    <3>3. \A g \in Handles(list) : g \in Handles(left) \/ g = h
      BY <1>2, <3>2 DEF Handles, HandlesAt
    <3>4. atl'[h] = "idle" /\ \A g \in Handle : Waits(g)' => Waits(g)
      BY <3>1 DEF TellOver, Waits
    <3>5. \A m \in Nif : \A g \in Handles(mSubscriberList[m]) :
            g \in Handles(mSubscriberList'[m]) \/ g = h
      BY <1>1, <2>3, <3>3
    <3> QED BY <2>2, <3>4, <3>5, SameQueuePosts DEF Keeps, Stays
  <2> QED BY <2>4, <2>5
<1> QED BY <1>3, <1>4

LEMMA ReleaseATLKeeps ==
  ASSUME TypeOK, FreedReads = {}, NEW h \in Handle, releaseATL(h)
  PROVE  Keeps
<1>1. CASE TellOver({h}) /\ UNCHANGED <<mState, mSubscriberList, request, queues>>
  BY <1>1, SameQueuePosts DEF Keeps, Stays, Waits, TellOver, queues
<1>2. ASSUME NEW n \in Holding(h), NEW i \in DOMAIN mSubscriberList[n],
             processAgpsEventUnsubscribe(n, i)
      PROVE  Keeps
  BY <1>2, UnsubscribeKeeps DEF Holding
<1> QED BY <1>1, <1>2, ReleaseATLCases

LEMMA GrantedKeeps ==
  ASSUME TypeOK, NEW n \in Nif, processAgpsEventGranted(n)
  PROVE  Keeps
<1>1. UNCHANGED <<mSubscriberList, msgQ>>
  BY DEF processAgpsEventGranted, Ignore, queues
<1>2. \A h \in Handle : Waits(h)' => Waits(h)
  BY DEF processAgpsEventGranted, Ignore, TellOpen, Waits
<1> QED BY <1>1, <1>2, SameQueuePosts DEF Keeps, Stays

LEMMA IgnoreKeeps ==
  ASSUME Ignore
  PROVE  Keeps
BY SameQueuePosts DEF Ignore, Keeps, Stays, Waits, queues

LEMMA ReleaseCompleteKeeps ==
  ASSUME TypeOK, NEW n \in Nif, ReleaseComplete(n)
  PROVE  Keeps
<1>1. PICK list \in Seq(Subscriber) : list = mSubscriberList[n]
  BY Types, ListOf
<1>2. PICK left : left = KeepAt(list, ActiveIn(list))
  OBVIOUS
<1>3. Handles(left) = HandlesAt(list, ActiveIn(list))
  <2>1. ActiveIn(list) \in SUBSET (DOMAIN list)
    BY DEF ActiveIn
  <2> QED BY <1>2, <2>1, KeptList
<1>4. TellOver(HandlesAt(list, InactiveIn(list))) /\ SetList(n, left)
  BY <1>1, <1>2 DEF ReleaseComplete
<1>5. mSubscriberList'[n] = left /\ \A m \in Nif : m # n => mSubscriberList'[m] = mSubscriberList[m]
  BY <1>4, Types, SetListElsewhere
<1>6. \A h \in Handles(list) : h \in Handles(left) \/ h \in HandlesAt(list, InactiveIn(list))
  <2>1. \A i \in DOMAIN list : i \in ActiveIn(list) \/ i \in InactiveIn(list)
    BY DEF ActiveIn, InactiveIn
  <2> QED BY <1>3, <2>1 DEF Handles, HandlesAt
<1>7. \A h \in Handle : h \in HandlesAt(list, InactiveIn(list)) => atl'[h] = "idle"
  BY <1>4 DEF TellOver
<1>8. \A h \in Handle : Waits(h)' => Waits(h)
  BY <1>4 DEF TellOver, Waits
<1>9. \A h : Posted(h) => Posted(h)'
  <2>1. RequestDataConn(n, left, "PENDING", msgQ) \/ msgQ' = msgQ
    BY <1>1, <1>2 DEF ReleaseComplete, queues
  <2>2. msgQ \in Seq(Msg)
    BY Types DEF QueuesOK
  <2>3. CASE RequestDataConn(n, left, "PENDING", msgQ)
    BY <2>2, <2>3, RequestPosts DEF Posted, PostedIn
  <2> QED BY <2>1, <2>3, SameQueuePosts
<1>10. \A m \in Nif : \A h \in Handles(mSubscriberList[m]) : Stays(m, h)
  <2>1. Handles(list) \in SUBSET Handle
    BY ListElements
  <2> QED BY <1>1, <1>5, <1>6, <1>7, <2>1 DEF Stays
<1> QED BY <1>8, <1>9, <1>10 DEF Keeps

(* A list that is emptied after everybody in it was told, or was posted a  *)
(* message                                                                 *)
LEMMA EmptiedKeeps ==
  ASSUME TypeOK, NEW n \in Nif, SetList(n, <<>>),
         \A h : Posted(h) => Posted(h)',
         \A h \in Handle : Waits(h)' => Waits(h),
         \A h \in Handles(mSubscriberList[n]) : atl'[h] = "idle" \/ Posted(h)'
  PROVE  Keeps
<1>1. \A m \in Nif : m # n => mSubscriberList'[m] = mSubscriberList[m]
  BY Types, SetListElsewhere
<1> QED BY <1>1 DEF Keeps, Stays

LEMMA TellsEverybody ==
  ASSUME TypeOK, NEW n \in Nif, TellOver(Handles(mSubscriberList[n]))
  PROVE  /\ \A h \in Handle : Waits(h)' => Waits(h)
         /\ \A h \in Handles(mSubscriberList[n]) : atl'[h] = "idle"
<1>1. Handles(mSubscriberList[n]) \in SUBSET Handle
  BY Types, ListOf, ListElements
<1> QED BY <1>1 DEF TellOver, Waits

LEMMA ForceReleaseKeepsAll ==
  ASSUME TypeOK, NEW n \in Nif, ForceRelease(n)
  PROVE  Keeps
<1>1. SetList(n, <<>>) /\ TellOver(Handles(mSubscriberList[n])) /\ UNCHANGED msgQ
  BY DEF ForceRelease, queues
<1> QED BY <1>1, SameQueuePosts, TellsEverybody, EmptiedKeeps

LEMMA DeniedKeeps ==
  ASSUME TypeOK, NEW n \in Nif, Denied(n)
  PROVE  Keeps
<1>1. CASE n # "DS"
  <2>1. SetList(n, <<>>) /\ TellOver(Handles(mSubscriberList[n])) /\ UNCHANGED msgQ
    BY <1>1 DEF Denied, queues
  <2> QED BY <2>1, SameQueuePosts, TellsEverybody, EmptiedKeeps
<1>2. CASE n = "DS"
  <2>1. PICK list \in Seq(Subscriber) : list = mSubscriberList[n]
    BY Types, ListOf
  <2>2. PICK r \in Seq(Msg) : r = SuplRequests(list)
    BY SuplRequestsTypes
  <2>3. SetList(n, <<>>) /\ msgQ' = msgQ \o r /\ UNCHANGED atl
    BY <1>2, <2>1, <2>2 DEF Denied, SuplRequests
  <2>4. msgQ \in Seq(Msg)
    BY Types DEF QueuesOK
  <2>5. \A h : PostedIn(msgQ, h) \/ PostedIn(r, h) => PostedIn(msgQ', h)
    BY <2>3, <2>4, PostedGrows
  <2>6. \A h \in Handles(list) : PostedIn(r, h)
    <3>1. /\ DOMAIN list = 1..Len(list) /\ DOMAIN r = 1..Len(list)
          /\ \A i \in 1..Len(list) : r[i].mConnHandle = list[i].mConnHandle
      BY <2>2, ListDomain, SuplRequestsTypes
    <3> QED BY <3>1 DEF PostedIn, Handles, HandlesAt
  <2>7. \A h : Posted(h) => Posted(h)'
    BY <2>5 DEF Posted, PostedIn
  <2>8. \A h \in Handles(mSubscriberList[n]) : Posted(h)'
    BY <2>1, <2>5, <2>6 DEF Posted, PostedIn
  <2> QED BY <2>3, <2>7, <2>8, EmptiedKeeps DEF Waits
<1> QED BY <1>1, <1>2

LEMMA RetryKeeps ==
  ASSUME TypeOK, retryCallback
  PROVE  Keeps
<1>1. UNCHANGED <<mSubscriberList, atl>> /\ (msgQ' = msgQ \/ \E m : msgQ' = Append(msgQ, m))
  BY DEF retryCallback, machines
<1>2. \A h : Posted(h) => Posted(h)'
  <2>1. msgQ \in Seq(Msg)
    BY Types DEF QueuesOK
  <2>2. \A h : PostedIn(msgQ, h) => PostedIn(msgQ', h)
    BY <1>1, <2>1, PostedGrows
  <2> QED BY <2>2 DEF Posted, PostedIn
<1> QED BY <1>1, <1>2 DEF Keeps, Stays, Waits

LEMMA StepKeeps ==
  ASSUME TypeOK, FreedReads = {}, [Next]_vars
  PROVE  Keeps
<1>1. ASSUME NEW n \in Nif, processAgpsEventReleased(n) PROVE Keeps
  <2>1. ForceRelease(n) \/ ReleaseComplete(n) \/ Denied(n) \/ Ignore
    BY <1>1 DEF processAgpsEventReleased
  <2> QED BY <2>1, ForceReleaseKeepsAll, ReleaseCompleteKeeps, DeniedKeeps, IgnoreKeeps
<1>2. ASSUME NEW n \in Nif, processAgpsEventDenied(n) PROVE Keeps
  <2>1. ReleaseComplete(n) \/ Denied(n) \/ Ignore
    BY <1>2 DEF processAgpsEventDenied
  <2> QED BY <2>1, ReleaseCompleteKeeps, DeniedKeeps, IgnoreKeeps
<1>3. ASSUME UNCHANGED <<mSubscriberList, msgQ, atl>> PROVE Keeps
  BY <1>3, SameQueuePosts DEF Keeps, Stays, Waits
<1>4. ASSUME NEW n \in Nif, NetworkRequest(n) \/ NetworkRelease(n) \/ NetworkLoss(n) PROVE Keeps
  <2>1. UNCHANGED <<machines, queues, atl>>
    BY <1>4 DEF NetworkRequest, NetworkRelease, NetworkLoss, Execute
  <2> QED BY <1>3, <2>1 DEF machines, queues
<1>5. CASE UNCHANGED vars
  BY <1>3, <1>5 DEF vars, machines, queues
<1>6. CASE handleModemSSR
  <2>1. atl' = [h \in Handle |-> "idle"] /\ UNCHANGED msgQ
    BY <1>6 DEF handleModemSSR, queues
  <2>2. \A n \in Nif : Handles(mSubscriberList[n]) \in SUBSET Handle
    BY Types, ListOf, ListElements
  <2> QED BY <2>1, <2>2, SameQueuePosts DEF Keeps, Stays, Waits
<1> QED
  BY <1>1, <1>2, <1>4, <1>5, <1>6, ModemRequestKeeps, ReleaseATLKeeps, MsgRequestKeeps,
     RetryKeeps, GrantedKeeps DEF Next

(* Whatever the modem requests and releases, the network reports and the   *)
(* DS client answers, and however often the modem restarts: a handle the   *)
(* modem waits for is in a list, or in a posted message. The hypothesis is *)
(* that what deleteSubscriber reads from the freed subscriber is no handle *)
(* of another one (Agps.cpp:430): if it is, that one is forgotten.         *)
THEOREM NobodyIsForgotten ==
  ASSUME FreedReads = {}
  PROVE  Spec => []HandlesKept
<1>1. Init => NobodyForgotten
  BY DEF Init, NobodyForgotten
<1>2. TypeOK /\ NobodyForgotten /\ [Next]_vars => NobodyForgotten'
  <2> SUFFICES ASSUME TypeOK, NobodyForgotten, [Next]_vars, NEW h \in Handle, Waits(h)'
               PROVE  Holding(h)' # {} \/ Posted(h)'
    BY DEF NobodyForgotten, Waits
  <2>1. Keeps
    BY StepKeeps
  <2>2. CASE ~Waits(h)
    BY <2>1, <2>2 DEF Keeps
  <2>3. CASE Waits(h)
    <3>1. atl'[h] # "idle"
      BY DEF Waits
    <3>2. CASE Posted(h)
      BY <2>1, <3>1, <3>2 DEF Keeps
    <3>3. CASE Holding(h) # {}
      <4>1. PICK n \in Nif : h \in Handles(mSubscriberList[n])
        BY <3>3 DEF Holding
      <4>2. Stays(n, h)
        BY <2>1, <4>1 DEF Keeps
      <4>3. h \in Handles(mSubscriberList'[n]) => Holding(h)' # {}
        BY DEF Holding
      <4> QED BY <3>1, <4>2, <4>3 DEF Stays
    <3> QED BY <2>3, <3>2, <3>3 DEF NobodyForgotten, Waits
  <2> QED BY <2>2, <2>3
<1> QED BY <1>1, <1>2, ManagerTypes, PTL DEF Spec, HandlesKept

(* "Remove the specified subscriber from list" (Agps.h:194): on the same   *)
(* hypothesis, a subscriber leaves a list only when the modem is told, or  *)
(* a message to subscribe it elsewhere is posted.                          *)
THEOREM RemovedWhenTold ==
  ASSUME FreedReads = {}
  PROVE  Spec => RemovedOnlyWhenTold
<1> DEFINE Told == \A n \in Nif : \A h \in Handles(mSubscriberList[n]) :
                     h \in Handles(mSubscriberList'[n]) \/ atl'[h] = "idle" \/ Posted(h)'
<1>1. TypeOK /\ [Next]_vars => Told
  BY StepKeeps DEF Keeps, Stays
<1>2. RemovedOnlyWhenTold <=> [][Told]_vars
  BY PTL DEF RemovedOnlyWhenTold
<1> HIDE DEF Told
<1> QED BY <1>1, <1>2, ManagerTypes, PTL DEF Spec

-----------------------------------------------------------------------------
(* Without the emergency PDN: both regular machines implement              *)
(* AgpsStateMachine                                                        *)

Machine(n) == INSTANCE AgpsStateMachine WITH
  mState <- mState[n], mSubscriberList <- ToSet(mSubscriberList[n]), atl <- ViewOf(n),
  request <- request[n], report <- report[n], dataConn <- dataConn[n]

Regular == {"AGNSS", "INTERNET"}

(* The books of a machine, and that its list has no handle twice: removing *)
(* a position from the list removes a subscriber from the set.             *)
MachineBooks(n) ==
  /\ Distinct(mSubscriberList[n])
  /\ Machine(n)!OneSubscriberPerHandle
  /\ Machine(n)!StateMatchesSubscribers
  /\ Machine(n)!ModemAgrees

(* Nothing ever goes to the DS machine, nor through the queue.             *)
DsUnused ==
  /\ nif \subseteq Regular /\ msgQ = <<>> /\ timers = 0
  /\ mSubscriberList["DS"] = <<>> /\ mState["DS"] = "RELEASED"
  /\ request["DS"] = <<>> /\ report["DS"] = <<>> /\ dataConn["DS"] = FALSE

ManagerInv == TypeOK /\ DsUnused /\ \A n \in Regular : MachineBooks(n)

(* What a step of the manager is for machine n                             *)
MachineStep(n) ==
  [Machine(n)!Next]_(Machine(n)!vars) /\ Distinct(mSubscriberList'[n])

Steps == DsUnused' /\ \A n \in Regular : MachineStep(n)

LEMMA RegularMachines ==
  /\ \A n \in Regular : n \in Nif /\ n # "DS"
  /\ \A n \in Nif : n \in Regular \/ n = "DS"
BY DEF Regular, Nif

(* The list and its set of subscribers                                     *)
LEMMA SetOfList ==
  ASSUME NEW list \in Seq(Subscriber), NEW n
  PROVE  /\ ToSet(list) = {list[i] : i \in DOMAIN list}
         /\ \A s \in ToSet(list) : s \in Subscriber
         /\ \A h : h \in Handles(list) <=> Machine(n)!Of(ToSet(list), h) # {}
         /\ {list[i] : i \in ActiveIn(list)} = Machine(n)!Active(ToSet(list))
         /\ {list[i] : i \in InactiveIn(list)} = Machine(n)!Inactive(ToSet(list))
         /\ anyActiveSubscribers(list) <=> Machine(n)!anyActiveSubscribers(ToSet(list))
<1>1. ToSet(list) = {list[i] : i \in DOMAIN list}
  BY DEF ToSet
<1>2. \A i \in DOMAIN list : list[i] \in Subscriber
  BY ListElements
<1>3. \A h : h \in Handles(list) <=> Machine(n)!Of(ToSet(list), h) # {}
  BY <1>1 DEF Handles, HandlesAt, Machine!Of
<1>4. {list[i] : i \in ActiveIn(list)} = Machine(n)!Active(ToSet(list))
  BY <1>1 DEF ActiveIn, Machine!Active
<1>5. {list[i] : i \in InactiveIn(list)} = Machine(n)!Inactive(ToSet(list))
  BY <1>1 DEF InactiveIn, Machine!Inactive
<1>6. anyActiveSubscribers(list) <=> Machine(n)!anyActiveSubscribers(ToSet(list))
  BY <1>4 DEF anyActiveSubscribers, Machine!anyActiveSubscribers
<1> QED BY <1>1, <1>2, <1>3, <1>4, <1>5, <1>6

(* Who is in a list was last requested from that machine, and is not idle; *)
(* whom a machine has not in its list, it has nothing to tell.             *)
LEMMA WhoIsInTheList ==
  ASSUME ManagerInv, NEW n \in Regular, NEW h \in Handle
  PROVE  /\ h \in Handles(mSubscriberList[n]) => owner[h] = n /\ atl[h] # "idle"
         /\ h \notin Handles(mSubscriberList[n]) => ViewOf(n)[h] = "idle"
<1>1. PICK list \in Seq(Subscriber) : list = mSubscriberList[n]
  BY RegularMachines, Types, ListOf DEF ManagerInv
<1>2. h \in Handles(list) <=> Machine(n)!Of(ToSet(list), h) # {}
  BY SetOfList
<1>3. Machine(n)!ModemAgrees /\ atl \in [Handle -> View]
  BY Types DEF ManagerInv, MachineBooks, AtlOK
<1>4. ViewOf(n)[h] = IF owner[h] = n THEN atl[h] ELSE "idle"
  BY DEF ViewOf
<1>5. ViewOf(n)[h] = "idle" => Machine(n)!Of(ToSet(list), h) = {}
  BY <1>1, <1>3 DEF Machine!ModemAgrees
<1>6. ViewOf(n)[h] \in {"requested", "open", "closing"} => Machine(n)!Of(ToSet(list), h) # {}
  BY <1>1, <1>3 DEF Machine!ModemAgrees, Machine!Active, Machine!Inactive
<1>7. ViewOf(n)[h] \in View
  BY <1>3, <1>4 DEF View
<1> QED BY <1>1, <1>2, <1>4, <1>5, <1>6, <1>7 DEF View

(* The parts of the state that are machine n's own                         *)
Own(n) == <<mState[n], mSubscriberList[n], request[n], report[n], dataConn[n]>>

LEMMA ViewSame ==
  ASSUME NEW n, \A h \in Handle : ViewOf(n)'[h] = ViewOf(n)[h]
  PROVE  ViewOf(n)' = ViewOf(n)
BY DEF ViewOf

LEMMA Stutters ==
  ASSUME ManagerInv, NEW n \in Regular, Own(n)' = Own(n),
         \A h \in Handle : ViewOf(n)'[h] = ViewOf(n)[h]
  PROVE  MachineStep(n)
<1>1. UNCHANGED Machine(n)!vars
  BY ViewSame DEF Own, Machine!vars
<1>2. Distinct(mSubscriberList'[n])
  BY DEF ManagerInv, MachineBooks, Own
<1> QED BY <1>1, <1>2 DEF MachineStep

(* A step within machine n that tells nobody but those in its list         *)
LEMMA StepWithin ==
  ASSUME ManagerInv, NEW n \in Regular,
         UNCHANGED <<nif, msgQ, timers, owner>>,
         \A m \in Nif : m # n => Own(m)' = Own(m),
         \A h \in Handle : h \notin Handles(mSubscriberList[n]) => atl'[h] = atl[h],
         Machine(n)!Next, Distinct(mSubscriberList'[n])
  PROVE  Steps
<1>1. DsUnused'
  <2>1. "DS" \in Nif /\ "DS" # n
    BY RegularMachines DEF Nif
  <2>2. Own("DS")' = Own("DS")
    BY <2>1
  <2> QED BY <2>2 DEF ManagerInv, DsUnused, Own
<1>2. MachineStep(n)
  BY DEF MachineStep
<1>3. ASSUME NEW m \in Regular, m # n PROVE MachineStep(m)
  <2>1. ASSUME NEW h \in Handle PROVE ViewOf(m)'[h] = ViewOf(m)[h]
    <3>1. h \in Handles(mSubscriberList[n]) => owner[h] = n
      BY WhoIsInTheList
    <3> QED BY <1>3, <3>1 DEF ViewOf
  <2>2. Own(m)' = Own(m)
    BY <1>3, RegularMachines
  <2> QED BY <2>1, <2>2, Stutters
<1> QED BY <1>1, <1>2, <1>3 DEF Steps

(* Room for the manager is room for each machine.                          *)
LEMMA RoomForMachine ==
  ASSUME TypeOK, NEW n \in Nif, Room
  PROVE  Machine(n)!Room
<1>1. \A m \in Nif : Len(request[m]) \in Nat /\ Len(report[m]) \in Nat
  BY Types DEF RequestOK, ReportOK
<1>2. Len(msgQ) \in Nat /\ timers \in Nat /\ MaxInFlight \in Nat
  BY AgpsAssumption, Types DEF QueuesOK
<1>3. \A m \in Nif : UnderWay(m) = Len(request[m]) + Len(report[m])
  BY DEF UnderWay
<1>4. \A m \in Nif : UnderWay(m) \in Nat
  <2>1. \A a, b \in Nat : a + b \in Nat
    OBVIOUS
  <2> QED BY ONLY <1>1, <1>3, <2>1
<1>5. UnderWay(n) < MaxInFlight
  BY <1>2, <1>4 DEF Room, Nif
<1> QED BY <1>3, <1>5 DEF Machine!Room

(* The network side *)
LEMMA NetworkSteps ==
  ASSUME ManagerInv, NEW n \in Nif,
         NetworkRequest(n) \/ NetworkRelease(n) \/ NetworkLoss(n)
  PROVE  Steps
<1>1. n \in Regular
  <2>1. n # "DS"
    BY DEF NetworkRequest, NetworkRelease, NetworkLoss, Execute, ManagerInv, DsUnused
  <2> QED BY <2>1, RegularMachines
<1>2. UNCHANGED <<nif, mState, mSubscriberList, msgQ, timers, atl, owner>>
  BY DEF NetworkRequest, NetworkRelease, NetworkLoss, Execute, machines, queues
<1>3. ViewOf(n)' = ViewOf(n)
  BY <1>2 DEF ViewOf
<1>4. n # "DS" /\ RequestOK /\ ReportOK
  BY <1>1, RegularMachines, Types DEF ManagerInv
<1>5. \A m \in Nif : m # n => Own(m)' = Own(m)
  <2>1. \A m \in Nif : m # n => UNCHANGED <<request[m], report[m], dataConn[m]>>
    <3>1. CASE NetworkRequest(n)
      BY <1>4, <3>1 DEF NetworkRequest, Execute, Report, SetConn, RequestOK, ReportOK
    <3>2. CASE NetworkRelease(n)
      BY <1>4, <3>2 DEF NetworkRelease, Execute, Report, SetConn, RequestOK, ReportOK
    <3>3. CASE NetworkLoss(n)
      BY <1>4, <3>3 DEF NetworkLoss, Report, SetConn, RequestOK, ReportOK
    <3> QED BY <3>1, <3>2, <3>3
  <2> QED BY <1>2, <2>1 DEF Own
<1>6. Machine(n)!Next
  <2>1. CASE NetworkRequest(n)
    <3>1. Machine(n)!FrameworkRequest
      BY <1>2, <1>3, <1>4, <2>1
      DEF NetworkRequest, Execute, Report, SetConn, RequestOK, ReportOK, Machine!FrameworkRequest
    <3> QED BY <3>1 DEF Machine!Next
  <2>2. CASE NetworkRelease(n)
    <3>1. Machine(n)!FrameworkRelease
      BY <1>2, <1>3, <1>4, <2>2
      DEF NetworkRelease, Execute, Report, SetConn, RequestOK, ReportOK, Machine!FrameworkRelease
    <3> QED BY <3>1 DEF Machine!Next
  <2>3. CASE NetworkLoss(n)
    <3>1. Machine(n)!Room
      BY <2>3, RoomForMachine DEF ManagerInv, NetworkLoss
    <3>2. Machine(n)!FrameworkLoss
      BY <1>2, <1>3, <1>4, <2>3, <3>1
      DEF NetworkLoss, Report, SetConn, ReportOK, Machine!FrameworkLoss
    <3> QED BY <3>2 DEF Machine!Next
  <2> QED BY <2>1, <2>2, <2>3
<1>7. Distinct(mSubscriberList'[n])
  BY <1>1, <1>2 DEF ManagerInv, MachineBooks
<1> QED BY <1>1, <1>2, <1>5, <1>6, <1>7, StepWithin

(* The handles of the active and of the inactive subscribers               *)
LEMMA ActiveOf ==
  ASSUME NEW list \in Seq(Subscriber), NEW n, NEW h
  PROVE  /\ h \in HandlesAt(list, ActiveIn(list))
              <=> Machine(n)!Of(Machine(n)!Active(ToSet(list)), h) # {}
         /\ h \in HandlesAt(list, InactiveIn(list))
              <=> Machine(n)!Of(Machine(n)!Inactive(ToSet(list)), h) # {}
<1>1. {list[i] : i \in ActiveIn(list)} = Machine(n)!Active(ToSet(list))
  BY SetOfList
<1>2. {list[i] : i \in InactiveIn(list)} = Machine(n)!Inactive(ToSet(list))
  BY SetOfList
<1> QED BY <1>1, <1>2 DEF HandlesAt, Machine!Of

(* While the machine waits for a connection, so does each of its active    *)
(* subscribers: the books leave no other view.                             *)
LEMMA ActiveIsRequested ==
  ASSUME ManagerInv, NEW n \in Regular, NEW h \in Handle, mState[n] = "PENDING",
         Machine(n)!Of(Machine(n)!Active(ToSet(mSubscriberList[n])), h) # {}
  PROVE  atl[h] = "requested"
<1>1. PICK S : S = ToSet(mSubscriberList[n])
  OBVIOUS
<1>2. PICK s \in S : s.mConnHandle = h /\ ~s.mIsInactive
  BY <1>1 DEF Machine!Of, Machine!Active
<1>3. \A t \in S : t.mConnHandle = h => t = s
  BY <1>1, <1>2 DEF ManagerInv, MachineBooks, Machine!OneSubscriberPerHandle
<1>4. Machine(n)!Inactive(Machine(n)!Of(S, h)) = {}
  BY <1>2, <1>3 DEF Machine!Inactive, Machine!Of
<1>5. Machine(n)!Of(S, h) # {}
  BY <1>2 DEF Machine!Of
<1>6. ViewOf(n)[h] \notin {"idle", "closing", "open"}
  BY <1>1, <1>4, <1>5 DEF ManagerInv, MachineBooks, Machine!ModemAgrees
<1>7. ViewOf(n)[h] = IF owner[h] = n THEN atl[h] ELSE "idle"
  BY DEF ViewOf
<1>8. atl[h] \in View
  BY Types DEF ManagerInv, AtlOK
<1> QED BY <1>6, <1>7, <1>8 DEF View

(* A step that keeps the queues, the network's side and who owns what, and *)
(* all that is not machine n's: what is left to show is machine n's step.  *)
LEMMA StepOf ==
  ASSUME ManagerInv, NEW n \in Regular,
         UNCHANGED <<nif, queues, owner, dataConn>>,
         \A m \in Nif : m # n => UNCHANGED <<mState[m], mSubscriberList[m], request[m], report[m]>>,
         \A h \in Handle : h \notin Handles(mSubscriberList[n]) => atl'[h] = atl[h],
         Machine(n)!Next, Distinct(mSubscriberList'[n])
  PROVE  Steps
<1>1. \A m \in Nif : m # n => Own(m)' = Own(m)
  BY DEF Own
<1> QED BY <1>1, StepWithin DEF queues

(* Reports *)
LEMMA GrantedSteps ==
  ASSUME ManagerInv, NEW n \in Nif, processAgpsEventGranted(n)
  PROVE  Steps
<1>1. n \in Regular
  <2>1. n # "DS"
    BY DEF processAgpsEventGranted, Take, ManagerInv, DsUnused
  <2> QED BY <2>1, RegularMachines
<1>2. StatesOK /\ ListsOK /\ AtlOK /\ ReportOK
  BY Types DEF ManagerInv
<1>3. PICK list \in Seq(Subscriber) : list = mSubscriberList[n]
  BY <1>2, ListOf
<1>4. UNCHANGED <<nif, queues, owner, dataConn, mSubscriberList, request>>
  BY DEF processAgpsEventGranted, Take, Ignore
<1>5. \A m \in Nif : m # n => UNCHANGED <<mState[m], mSubscriberList[m], request[m], report[m]>>
  BY <1>2, <1>4 DEF processAgpsEventGranted, Take, Ignore, SetState, StatesOK, ReportOK
<1>6. HandlesAt(list, ActiveIn(list)) \in SUBSET Handles(list)
  BY <1>3, ListElements DEF ActiveIn
<1>7. \A h \in Handle : h \notin Handles(mSubscriberList[n]) => atl'[h] = atl[h]
  BY <1>2, <1>3, <1>6 DEF processAgpsEventGranted, TellOpen, Ignore
<1>8. Machine(n)!Take("OPEN")
  BY <1>2, <1>4 DEF processAgpsEventGranted, Take, Machine!Take, ReportOK
<1>9. Machine(n)!processAgpsEventGranted
  <2>1. CASE mState[n] # "PENDING"
    <3>1. UNCHANGED <<mState, mSubscriberList, atl, request, owner>>
      BY <1>4, <2>1 DEF processAgpsEventGranted, Ignore
    <3> QED BY <1>8, <2>1, <3>1 DEF Machine!processAgpsEventGranted, Machine!Ignore, ViewOf
  <2>2. CASE mState[n] = "PENDING"
    <3>1. mState'[n] = "ACQUIRED"
      BY <1>2, <2>2 DEF processAgpsEventGranted, SetState, StatesOK
    <3>2. TellOpen(atl, HandlesAt(list, ActiveIn(list)))
      BY <1>3, <2>2 DEF processAgpsEventGranted
    <3>3. ViewOf(n)' = [h \in Handle |->
                         IF Machine(n)!Of(Machine(n)!Active(ToSet(list)), h) # {}
                           THEN "open" ELSE ViewOf(n)[h]]
      <4> SUFFICES ASSUME NEW h \in Handle
                   PROVE  ViewOf(n)'[h] = IF Machine(n)!Of(Machine(n)!Active(ToSet(list)), h) # {}
                                            THEN "open" ELSE ViewOf(n)[h]
        BY DEF ViewOf
      <4>1. Machine(n)!Of(Machine(n)!Active(ToSet(list)), h) # {}
              <=> h \in HandlesAt(list, ActiveIn(list))
        BY <1>3, ActiveOf
      <4>2. CASE h \notin HandlesAt(list, ActiveIn(list))
        BY <1>4, <3>2, <4>1, <4>2 DEF TellOpen, ViewOf
      <4>3. CASE h \in HandlesAt(list, ActiveIn(list))
        <5>1. h \in Handles(list)
          BY <1>6, <4>3
        <5>2. owner[h] = n /\ atl[h] # "idle"
          BY <1>1, <1>3, <5>1, WhoIsInTheList
        <5>3. atl[h] = "requested"
          BY <1>1, <1>3, <2>2, <4>1, <4>3, <5>2, ActiveIsRequested
        <5> QED BY <1>4, <3>2, <4>1, <4>3, <5>2, <5>3 DEF TellOpen, ViewOf
      <4> QED BY <4>2, <4>3
    <3> QED BY <1>3, <1>4, <1>8, <2>2, <3>1, <3>3
            DEF Machine!processAgpsEventGranted, Machine!Notify
  <2> QED BY <2>1, <2>2
<1>10. Machine(n)!Next
  BY <1>9 DEF Machine!Next
<1>11. Distinct(mSubscriberList'[n])
  BY <1>1, <1>4 DEF ManagerInv, MachineBooks
<1> QED BY <1>1, <1>4, <1>5, <1>7, <1>10, <1>11, StepOf

(* What a handler does to machine n stays within it.                       *)
Inside(n) ==
  /\ \A m \in Nif : m # n => UNCHANGED <<mState[m], mSubscriberList[m], request[m]>>
  /\ \A h \in Handle : h \notin Handles(mSubscriberList[n]) => atl'[h] = atl[h]
  /\ Distinct(mSubscriberList'[n])
  /\ UNCHANGED queues

LEMMA ViewOver ==
  ASSUME ManagerInv, NEW n \in Regular, NEW H, TellOver(H), UNCHANGED owner,
         NEW S, \A h \in Handle : h \in H <=> Machine(n)!Of(S, h) # {}
  PROVE  Machine(n)!Notify(S, "idle")
<1>1. \A h \in Handle : ViewOf(n)'[h] = IF Machine(n)!Of(S, h) # {} THEN "idle" ELSE ViewOf(n)[h]
  BY DEF ViewOf, TellOver
<1>2. ViewOf(n)' = [h \in Handle |->
                      IF Machine(n)!Of(S, h) # {} THEN "idle" ELSE ViewOf(n)[h]]
  BY <1>1 DEF ViewOf
<1> QED BY <1>2 DEF Machine!Notify

LEMMA DropWithin ==
  ASSUME ManagerInv, NEW n \in Regular, UNCHANGED <<owner, request, queues>>,
         SetState(n, "RELEASED"), SetList(n, <<>>), TellOver(Handles(mSubscriberList[n]))
  PROVE  Machine(n)!DropEverybody /\ Inside(n)
<1>1. StatesOK /\ ListsOK /\ AtlOK /\ n \in Nif
  BY RegularMachines, Types DEF ManagerInv
<1>2. PICK list \in Seq(Subscriber) : list = mSubscriberList[n]
  BY <1>1, ListOf
<1>3. mState'[n] = "RELEASED" /\ mSubscriberList'[n] = <<>>
  BY <1>1 DEF SetState, SetList, StatesOK, ListsOK
<1>4. \A m \in Nif : m # n => UNCHANGED <<mState[m], mSubscriberList[m], request[m]>>
  BY <1>1 DEF SetState, SetList, StatesOK, ListsOK
<1>5. \A h \in Handle : h \notin Handles(mSubscriberList[n]) => atl'[h] = atl[h]
  BY DEF TellOver
<1>6. Distinct(mSubscriberList'[n])
  BY <1>3 DEF Distinct
<1>7. ToSet(mSubscriberList'[n]) = {}
  BY <1>3 DEF ToSet
<1>8. Machine(n)!Notify(ToSet(mSubscriberList[n]), "idle")
  <2>1. \A h \in Handle : h \in Handles(list) <=> Machine(n)!Of(ToSet(list), h) # {}
    BY SetOfList
  <2> QED BY <1>2, <2>1, ViewOver
<1> QED BY <1>3, <1>4, <1>5, <1>6, <1>7, <1>8 DEF Inside, Machine!DropEverybody

LEMMA ReleaseCompleteWithin ==
  ASSUME ManagerInv, NEW n \in Regular, ReleaseComplete(n), UNCHANGED owner
  PROVE  Machine(n)!ReleaseComplete /\ Inside(n)
<1>1. StatesOK /\ ListsOK /\ AtlOK /\ RequestOK /\ n \in Nif /\ n # "DS"
  BY RegularMachines, Types DEF ManagerInv
<1>2. PICK list \in Seq(Subscriber) : list = mSubscriberList[n]
  BY <1>1, ListOf
<1>3. PICK left : left = KeepAt(list, ActiveIn(list))
  OBVIOUS
<1>4. left \in Seq(Subscriber) /\ ToSet(left) = {list[i] : i \in ActiveIn(list)} /\ Distinct(left)
  <2>1. ActiveIn(list) \in SUBSET (DOMAIN list)
    BY DEF ActiveIn
  <2>2. Distinct(list)
    BY <1>2 DEF ManagerInv, MachineBooks
  <2> QED BY <1>3, <2>1, <2>2, KeptList
<1>5. ToSet(left) = Machine(n)!Active(ToSet(list))
  BY <1>4, SetOfList
<1>6. anyActiveSubscribers(left) <=> Machine(n)!anyActiveSubscribers(ToSet(list))
  <2>1. anyActiveSubscribers(left) <=> Machine(n)!anyActiveSubscribers(ToSet(left))
    BY <1>4, SetOfList
  <2> QED BY <1>5, <2>1 DEF Machine!anyActiveSubscribers, Machine!Active
<1>7. TellOver(HandlesAt(list, InactiveIn(list))) /\ SetList(n, left)
  BY <1>2, <1>3 DEF ReleaseComplete
<1>8. mSubscriberList'[n] = left
  BY <1>1, <1>7 DEF SetList, ListsOK
<1>9. IF anyActiveSubscribers(left)
        THEN SetState(n, "PENDING") /\ Command(n, "REQUEST") /\ UNCHANGED queues
        ELSE SetState(n, "RELEASED") /\ UNCHANGED <<request, queues>>
  BY <1>1, <1>2, <1>3 DEF ReleaseComplete, RequestDataConn, queues
<1>10. \A m \in Nif : m # n => UNCHANGED <<mState[m], mSubscriberList[m], request[m]>>
  BY <1>1, <1>7, <1>9 DEF SetState, SetList, Command, StatesOK, ListsOK, RequestOK
<1>11. \A h \in Handle : h \notin Handles(mSubscriberList[n]) => atl'[h] = atl[h]
  <2>1. HandlesAt(list, InactiveIn(list)) \in SUBSET Handles(list)
    BY <1>2, ListElements DEF InactiveIn
  <2> QED BY <1>2, <1>7, <2>1 DEF TellOver
<1>12. Machine(n)!Notify(Machine(n)!Inactive(ToSet(list)), "idle")
  <2>1. \A h \in Handle : h \in HandlesAt(list, InactiveIn(list))
                            <=> Machine(n)!Of(Machine(n)!Inactive(ToSet(list)), h) # {}
    BY <1>2, ActiveOf
  <2> QED BY <1>7, <2>1, ViewOver
<1>13. IF Machine(n)!anyActiveSubscribers(ToSet(mSubscriberList[n]))
         THEN mState'[n] = "PENDING" /\ request'[n] = Append(request[n], "REQUEST")
         ELSE mState'[n] = "RELEASED" /\ request'[n] = request[n]
  BY <1>1, <1>2, <1>6, <1>9 DEF SetState, Command, StatesOK, RequestOK
<1>14. Machine(n)!ReleaseComplete
  BY <1>2, <1>5, <1>8, <1>12, <1>13 DEF Machine!ReleaseComplete, Machine!Send, Machine!Quiet
<1> QED BY <1>4, <1>8, <1>9, <1>10, <1>11, <1>14 DEF Inside

LEMMA IgnoreWithin ==
  ASSUME ManagerInv, NEW n \in Regular, Ignore, UNCHANGED owner
  PROVE  Machine(n)!Ignore /\ Inside(n)
<1>1. Machine(n)!Ignore
  BY DEF Ignore, Machine!Ignore, ViewOf
<1>2. Distinct(mSubscriberList'[n])
  BY DEF Ignore, ManagerInv, MachineBooks
<1> QED BY <1>1, <1>2 DEF Inside, Ignore

LEMMA ReleasedSteps ==
  ASSUME ManagerInv, NEW n \in Nif, processAgpsEventReleased(n) \/ processAgpsEventDenied(n)
  PROVE  Steps
<1>1. PICK event \in {"CLOSED", "FAILED"} : Take(n, event)
  BY DEF processAgpsEventReleased, processAgpsEventDenied
<1>2. n \in Regular /\ n # "DS"
  <2>1. n # "DS"
    BY <1>1 DEF Take, ManagerInv, DsUnused
  <2> QED BY <2>1, RegularMachines
<1>3. ReportOK /\ UNCHANGED <<nif, dataConn, owner>>
  BY <1>1, Types DEF ManagerInv, Take
<1>4. Machine(n)!Take(event) /\ \A m \in Nif : m # n => UNCHANGED report[m]
  BY <1>1, <1>3 DEF Take, Machine!Take, ReportOK
<1>5. Machine(n)!Next /\ Inside(n)
  <2>1. ASSUME ForceRelease(n) \/ Denied(n) PROVE Machine(n)!DropEverybody /\ Inside(n)
    <3>1. /\ SetState(n, "RELEASED") /\ SetList(n, <<>>) /\ TellOver(Handles(mSubscriberList[n]))
          /\ UNCHANGED <<request, queues>>
      BY <1>2, <2>1 DEF ForceRelease, Denied
    <3> QED BY <1>2, <1>3, <3>1, DropWithin
  <2>2. ASSUME ReleaseComplete(n) PROVE Machine(n)!ReleaseComplete /\ Inside(n)
    BY <1>2, <1>3, <2>2, ReleaseCompleteWithin
  <2>3. ASSUME Ignore PROVE Machine(n)!Ignore /\ Inside(n)
    BY <1>2, <1>3, <2>3, IgnoreWithin
  <2>4. CASE processAgpsEventReleased(n)
    <3>1. Machine(n)!Take("CLOSED")
      BY <1>1, <1>4, <2>4 DEF processAgpsEventReleased, Take
    <3>2. Machine(n)!processAgpsEventReleased /\ Inside(n)
      BY <1>2, <2>1, <2>2, <2>3, <2>4, <3>1
      DEF processAgpsEventReleased, Machine!processAgpsEventReleased
    <3> QED BY <3>2 DEF Machine!Next
  <2>5. CASE processAgpsEventDenied(n)
    <3>1. Machine(n)!Take("FAILED")
      BY <1>1, <1>4, <2>5 DEF processAgpsEventDenied, Take
    <3>2. Machine(n)!processAgpsEventDenied /\ Inside(n)
      BY <1>2, <2>1, <2>2, <2>3, <2>5, <3>1
      DEF processAgpsEventDenied, Machine!processAgpsEventDenied
    <3> QED BY <3>2 DEF Machine!Next
  <2> QED BY <2>4, <2>5
<1> QED BY <1>2, <1>3, <1>4, <1>5, StepOf DEF Inside

(* Releases: the list that is left is the set that is left.                *)
IsUnsubscribed(left, list, i, n) ==
  /\ left \in Seq(Subscriber) /\ Distinct(left)
  /\ ToSet(left) = (ToSet(list) \ Machine(n)!Of(ToSet(list), list[i].mConnHandle))
                     \cup (IF list[i].mWaitForCloseComplete
                             THEN {[list[i] EXCEPT !.mIsInactive = TRUE]} ELSE {})
  /\ left = <<>> <=> ToSet(left) = {}

LEMMA UnsubscribedSet ==
  ASSUME NEW list \in Seq(Subscriber), Distinct(list), NEW i \in DOMAIN list, NEW n
  PROVE  IsUnsubscribed(Unsubscribed(list, i, {}), list, i, n)
<1>0. PICK left : left = Unsubscribed(list, i, {})
  OBVIOUS
<1> SUFFICES IsUnsubscribed(left, list, i, n)
  BY <1>0
<1>h. PICK h : h = list[i].mConnHandle
  OBVIOUS
<1>1. left \in Seq(Subscriber) /\ Distinct(left)
  BY <1>0, UnsubscribedTypes
<1>2. PICK rest : rest = {list[j] : j \in (DOMAIN list) \ {i}}
  OBVIOUS
<1>3. ToSet(list) = {list[j] : j \in DOMAIN list}
  BY SetOfList
<1>4. rest = ToSet(list) \ Machine(n)!Of(ToSet(list), h)
  <2>1. \A j \in DOMAIN list : j # i => list[j].mConnHandle # h
    BY <1>h DEF Distinct
  <2> QED BY <1>2, <1>3, <1>h, <2>1 DEF Machine!Of
<1>5. CASE list[i].mWaitForCloseComplete
  <2>1. left = [list EXCEPT ![i].mIsInactive = TRUE]
    BY <1>0, <1>5 DEF Unsubscribed
  <2>2. /\ DOMAIN left = DOMAIN list
        /\ left[i] = [list[i] EXCEPT !.mIsInactive = TRUE]
        /\ \A j \in DOMAIN list : j # i => left[j] = list[j]
    <3>1. \A m : m = [list EXCEPT ![i].mIsInactive = TRUE] =>
                   /\ DOMAIN m = DOMAIN list
                   /\ m[i] = [list[i] EXCEPT !.mIsInactive = TRUE]
                   /\ \A j \in DOMAIN list : j # i => m[j] = list[j]
      BY MarkedList
    <3> QED BY <2>1, <3>1
  <2>3. PICK s : s = [list[i] EXCEPT !.mIsInactive = TRUE] /\ left[i] = s
    BY <2>2
  <2>4. ToSet(left) = {left[j] : j \in DOMAIN left}
    BY <1>1, SetOfList
  <2>5. ToSet(left) = rest \cup {s}
    <3>1. \A x \in ToSet(left) : x \in rest \cup {s}
      BY <1>2, <2>2, <2>3, <2>4
    <3>2. \A x \in rest : x \in ToSet(left)
      BY <1>2, <2>2, <2>4
    <3>3. s \in ToSet(left)
      BY <2>2, <2>3, <2>4
    <3> QED BY <3>1, <3>2, <3>3
  <2>6. left # <<>>
    BY <2>2
  <2>7. ToSet(left) # {}
    BY <2>5
  <2>8. ToSet(left) = (ToSet(list) \ Machine(n)!Of(ToSet(list), list[i].mConnHandle))
                        \cup {[list[i] EXCEPT !.mIsInactive = TRUE]}
    BY <1>4, <1>h, <2>3, <2>5
  <2> QED BY <1>1, <1>5, <2>6, <2>7, <2>8 DEF IsUnsubscribed
<1>6. CASE ~list[i].mWaitForCloseComplete
  <2>1. ToSet(left) = rest
    BY <1>0, <1>2, <1>6, DeletedList DEF Unsubscribed
  <2>2. left = <<>> <=> ToSet(left) = {}
    <3>1. ToSet(left) = {left[j] : j \in DOMAIN left} /\ DOMAIN left = 1..Len(left)
      BY <1>1, SetOfList, ListDomain
    <3>2. Len(left) \in Nat
      BY <1>1
    <3>3. CASE left = <<>>
      BY <3>1, <3>3
    <3>4. CASE left # <<>>
      <4>1. 1 \in DOMAIN left
        BY <1>1, <3>1, <3>2, <3>4
      <4> QED BY <3>1, <3>4, <4>1
    <3> QED BY <3>3, <3>4
  <2>3. ToSet(left) = (ToSet(list) \ Machine(n)!Of(ToSet(list), list[i].mConnHandle)) \cup {}
    BY <1>4, <1>h, <2>1
  <2> QED BY <1>1, <1>6, <2>2, <2>3 DEF IsUnsubscribed
<1> QED BY <1>5, <1>6

LEMMA UnsubscribeSteps ==
  ASSUME ManagerInv, FreedReads = {}, NEW h \in Handle, Room, NEW n \in Regular,
         NEW i \in DOMAIN mSubscriberList[n], mSubscriberList[n][i].mConnHandle = h,
         processAgpsEventUnsubscribe(n, i), UNCHANGED <<nif, report, dataConn, owner>>
  PROVE  Steps
<1>1. StatesOK /\ ListsOK /\ AtlOK /\ RequestOK /\ n \in Nif
  BY RegularMachines, Types DEF ManagerInv
<1>2. PICK list \in Seq(Subscriber) : list = mSubscriberList[n]
  BY <1>1, ListOf
<1>3. PICK s : s = list[i]
  OBVIOUS
<1>4. s \in ToSet(list) /\ s.mConnHandle = h /\ h \in Handles(list)
  BY <1>2, <1>3, SetOfList DEF Handles, HandlesAt
<1>5. mState[n] # "RELEASED"
  BY <1>2, <1>4 DEF ManagerInv, MachineBooks, Machine!StateMatchesSubscribers
<1>6. owner[h] = n
  BY <1>2, <1>4, WhoIsInTheList
<1>7. PICK left : left = Unsubscribed(list, i, {})
  OBVIOUS
<1>8. /\ SetList(n, left) /\ AfterUnsubscribed(n, left)
      /\ IF s.mWaitForCloseComplete THEN atl' = [atl EXCEPT ![h] = "closing"] ELSE TellOver({h})
  <2>1. PICK garbage \in SUBSET FreedReads :
          /\ SetList(n, Unsubscribed(list, i, garbage))
          /\ AfterUnsubscribed(n, Unsubscribed(list, i, garbage))
          /\ IF list[i].mWaitForCloseComplete
               THEN atl' = [atl EXCEPT ![list[i].mConnHandle] = "closing"]
               ELSE TellOver({list[i].mConnHandle})
    BY <1>2, <1>5, UnsubscribeCases
  <2>2. garbage = {}
    OBVIOUS
  <2> QED BY <1>3, <1>4, <1>7, <2>1, <2>2
<1>9. /\ left \in Seq(Subscriber) /\ Distinct(left)
      /\ ToSet(left) = Machine(n)!AfterUnsubscribe(s)
      /\ left = <<>> <=> ToSet(left) = {}
  <2>1. Distinct(list) /\ i \in DOMAIN list
    BY <1>2 DEF ManagerInv, MachineBooks
  <2>2. IsUnsubscribed(left, list, i, n)
    BY <1>7, <2>1, UnsubscribedSet
  <2> QED BY <1>2, <1>3, <1>4, <2>2 DEF IsUnsubscribed, Machine!AfterUnsubscribe
<1>10. anyActiveSubscribers(left) <=> Machine(n)!anyActiveSubscribers(ToSet(left))
  BY <1>9, SetOfList
<1>11. mSubscriberList'[n] = left
  BY <1>1, <1>8 DEF SetList, ListsOK
<1>12. ViewOf(n)' = [ViewOf(n) EXCEPT ![h] = IF s.mWaitForCloseComplete THEN "closing" ELSE "idle"]
  BY <1>1, <1>6, <1>8 DEF ViewOf, TellOver, AtlOK
<1>13. UNCHANGED queues
  BY <1>8 DEF AfterUnsubscribed, ReleaseDataConn
<1>14. \A m \in Nif : m # n => UNCHANGED <<mState[m], mSubscriberList[m], request[m], report[m]>>
  BY <1>1, <1>8
  DEF AfterUnsubscribed, ReleaseDataConn, SetState, SetList, Command, StatesOK, ListsOK, RequestOK
<1>15. \A g \in Handle : g \notin Handles(mSubscriberList[n]) => atl'[g] = atl[g]
  BY <1>1, <1>2, <1>4, <1>8 DEF TellOver, AtlOK
<1>16. IF left = <<>>
         THEN /\ mState'[n] = "RELEASED"
              /\ request'[n] = IF mState[n] = "RELEASING" THEN request[n]
                                                          ELSE Append(request[n], "RELEASE")
         ELSE IF mState[n] # "RELEASING" /\ ~anyActiveSubscribers(left)
           THEN mState'[n] = "RELEASING" /\ request'[n] = Append(request[n], "RELEASE")
           ELSE mState'[n] = mState[n] /\ request'[n] = request[n]
  BY <1>1, <1>8 DEF AfterUnsubscribed, ReleaseDataConn, SetState, Command, StatesOK, RequestOK
<1>17. Machine(n)!Unsubscribe(s)
  <2>1. Machine(n)!Room
    BY <1>1, RoomForMachine DEF ManagerInv
  <2>2. IF Machine(n)!AfterUnsubscribe(s) = {}
          THEN /\ mState'[n] = "RELEASED"
               /\ IF mState[n] = "RELEASING" THEN Machine(n)!Quiet ELSE Machine(n)!Send("RELEASE")
          ELSE IF mState[n] # "RELEASING" /\ ~Machine(n)!anyActiveSubscribers(Machine(n)!AfterUnsubscribe(s))
            THEN mState'[n] = "RELEASING" /\ Machine(n)!Send("RELEASE")
            ELSE mState'[n] = mState[n] /\ Machine(n)!Quiet
    BY <1>9, <1>10, <1>16 DEF Machine!Quiet, Machine!Send
  <2> QED BY <1>4, <1>5, <1>9, <1>11, <1>12, <2>1, <2>2 DEF Machine!Unsubscribe
<1>18. Machine(n)!Next
  BY <1>2, <1>4, <1>17 DEF Machine!Next
<1> QED BY <1>9, <1>11, <1>13, <1>14, <1>15, <1>18, StepOf

LEMMA ReleaseATLSteps ==
  ASSUME ManagerInv, FreedReads = {}, NEW h \in Handle, releaseATL(h)
  PROVE  Steps
<1>1. Room /\ UNCHANGED <<nif, report, dataConn, owner>>
  BY DEF releaseATL
<1>2. CASE Holding(h) = {} /\ TellOver({h}) /\ UNCHANGED <<mState, mSubscriberList, request, queues>>
  <2>1. \A m \in Nif : Own(m)' = Own(m)
    BY <1>1, <1>2 DEF Own
  <2>2. DsUnused'
    BY <1>1, <1>2 DEF ManagerInv, DsUnused, queues
  <2>3. ASSUME NEW n \in Regular PROVE MachineStep(n)
    <3>1. n \in Nif /\ h \notin Handles(mSubscriberList[n])
      BY <1>2, RegularMachines DEF Holding
    <3>2. ViewOf(n)[h] = "idle"
      BY <3>1, WhoIsInTheList
    <3>3. \A g \in Handle : ViewOf(n)'[g] = ViewOf(n)[g]
      BY <1>1, <1>2, <3>2 DEF TellOver, ViewOf
    <3> QED BY <2>1, <3>1, <3>3, Stutters
  <2> QED BY <2>2, <2>3 DEF Steps
<1>3. ASSUME NEW n \in Holding(h), NEW i \in DOMAIN mSubscriberList[n],
             mSubscriberList[n][i].mConnHandle = h, processAgpsEventUnsubscribe(n, i)
      PROVE  Steps
  <2>1. n \in Regular
    <3>1. mSubscriberList["DS"] = <<>>
      BY DEF ManagerInv, DsUnused
    <3>2. n # "DS"
      BY <1>3, <3>1
    <3> QED BY <3>2, RegularMachines DEF Holding
  <2> QED BY <1>1, <1>3, <2>1, UnsubscribeSteps
<1>4. TypeOK
  BY DEF ManagerInv
<1> QED BY <1>2, <1>3, <1>4, ReleaseATLCases

(* Requests: whatever its type, a regular machine takes it, or it is       *)
(* refused as the machine does not exist.                                  *)
LEMMA RegularOfType ==
  ASSUME EmergencyPdn = FALSE, NEW type
  PROVE  getAgpsStateMachine(type) \in Regular
BY DEF getAgpsStateMachine, Regular

LEMMA RefusedRequestSteps ==
  ASSUME ManagerInv, EmergencyPdn = FALSE, NEW h \in Handle, NEW type, ModemRequest(h, type),
         getAgpsStateMachine(type) \notin nif
  PROVE  Steps
<1>1. getAgpsStateMachine(type) # "DS" /\ AtlOK
  BY RegularOfType, RegularMachines, Types DEF ManagerInv
<1>2. PICK n : n = getAgpsStateMachine(type)
  OBVIOUS
<1>3. /\ atl[h] = "idle" /\ owner' = [owner EXCEPT ![h] = n]
      /\ atl' = [[atl EXCEPT ![h] = "requested"] EXCEPT ![h] = "idle"]
      /\ UNCHANGED <<nif, mState, mSubscriberList, msgQ, timers, request, report, dataConn>>
  BY <1>1, <1>2 DEF ModemRequest, requestATL
<1>4. atl' = atl /\ \A g \in Handle : g # h => owner'[g] = owner[g]
  BY <1>1, <1>3 DEF AtlOK
<1>5. DsUnused'
  BY <1>3 DEF ManagerInv, DsUnused
<1>6. ASSUME NEW m \in Regular PROVE MachineStep(m)
  <2>1. \A g \in Handle : ViewOf(m)'[g] = ViewOf(m)[g]
    BY <1>3, <1>4 DEF ViewOf
  <2>2. Own(m)' = Own(m)
    BY <1>3 DEF Own
  <2> QED BY <2>1, <2>2, Stutters
<1> QED BY <1>5, <1>6 DEF Steps

LEMMA TakenRequestSteps ==
  ASSUME ManagerInv, EmergencyPdn = FALSE, NEW h \in Handle, NEW type, ModemRequest(h, type),
         getAgpsStateMachine(type) \in nif
  PROVE  Steps
<1>1. PICK n \in Regular : n = getAgpsStateMachine(type)
  BY RegularOfType
<1>2. n \in Nif /\ n # "DS" /\ n \in nif
  BY <1>1, RegularMachines
<1>3. StatesOK /\ ListsOK /\ AtlOK /\ RequestOK
  BY Types DEF ManagerInv
<1>4. PICK wait \in BOOLEAN : wait = (type = "SUPL_ES")
  OBVIOUS
<1>5. PICK s : s = [mConnHandle |-> h, mWaitForCloseComplete |-> wait, mIsInactive |-> FALSE]
  OBVIOUS
<1>6. s \in Subscriber /\ s.mConnHandle = h
  BY <1>5 DEF Subscriber
<1>7. PICK view : view = [atl EXCEPT ![h] = "requested"]
  OBVIOUS
<1>8. /\ Room /\ atl[h] = "idle" /\ owner' = [owner EXCEPT ![h] = n]
      /\ nif' = nif /\ UNCHANGED <<report, dataConn>>
      /\ processAgpsEventSubscribe(n, s, view, msgQ)
  BY <1>1, <1>2, <1>4, <1>5, <1>7 DEF ModemRequest, requestATL
<1>9. \A m \in Regular : h \notin Handles(mSubscriberList[m])
  BY <1>8, WhoIsInTheList
<1>10. PICK list \in Seq(Subscriber) : list = mSubscriberList[n]
  BY <1>2, <1>3, ListOf
<1>11. PICK added : added = addSubscriber(list, s)
  OBVIOUS
<1>12. h \notin Handles(list) /\ Distinct(list)
  BY <1>9, <1>10 DEF ManagerInv, MachineBooks
<1>13. ToSet(added) = ToSet(list) \cup {s} /\ Distinct(added)
  BY <1>6, <1>11, <1>12, AddedList
<1>14. /\ SetList(n, added)
       /\ IF mState[n] = "ACQUIRED" THEN TellOpen(view, {h}) ELSE atl' = view
       /\ IF mState[n] = "RELEASED"
            THEN SetState(n, "PENDING") /\ Command(n, "REQUEST")
            ELSE UNCHANGED <<mState, request>>
       /\ UNCHANGED <<msgQ, timers>>
  BY <1>2, <1>6, <1>8, <1>10, <1>11 DEF processAgpsEventSubscribe, RequestDataConn
<1>15. mSubscriberList'[n] = added
  BY <1>2, <1>3, <1>14 DEF SetList, ListsOK
<1>16. /\ owner'[h] = n
       /\ atl'[h] = IF mState[n] = "ACQUIRED" THEN "open" ELSE "requested"
       /\ \A g \in Handle : g # h => owner'[g] = owner[g] /\ atl'[g] = atl[g]
  BY <1>3, <1>7, <1>8, <1>14 DEF AtlOK, TellOpen
<1>17. ViewOf(n)' = [ViewOf(n) EXCEPT ![h] = IF mState[n] = "ACQUIRED" THEN "open" ELSE "requested"]
  BY <1>16 DEF ViewOf
<1>18. Machine(n)!Subscribe(h, wait)
  <2>1. Machine(n)!Room
    BY <1>2, <1>8, RoomForMachine DEF ManagerInv
  <2>2. ViewOf(n)[h] = "idle"
    BY <1>8 DEF ViewOf
  <2>3. ToSet(mSubscriberList'[n]) = Machine(n)!addSubscriber(s)
    <3>1. Machine(n)!Of(ToSet(list), h) = {}
      BY <1>12, SetOfList
    <3> QED BY <1>6, <1>10, <1>13, <1>15, <3>1 DEF Machine!addSubscriber
  <2>4. IF mState[n] = "RELEASED"
          THEN mState'[n] = "PENDING" /\ Machine(n)!Send("REQUEST")
          ELSE mState'[n] = mState[n] /\ Machine(n)!Quiet
    BY <1>2, <1>3, <1>14 DEF SetState, Command, StatesOK, RequestOK, Machine!Send, Machine!Quiet
  <2> QED BY <1>5, <1>8, <1>17, <2>1, <2>2, <2>3, <2>4 DEF Machine!Subscribe
<1>19. MachineStep(n)
  <2>1. Machine(n)!Next
    BY <1>18 DEF Machine!Next
  <2> QED BY <1>13, <1>15, <2>1 DEF MachineStep
<1>20. \A m \in Nif : m # n => Own(m)' = Own(m)
  BY <1>3, <1>8, <1>14 DEF Own, SetState, SetList, Command, StatesOK, ListsOK, RequestOK
<1>21. ASSUME NEW m \in Regular, m # n PROVE MachineStep(m)
  <2>1. \A g \in Handle : ViewOf(m)'[g] = ViewOf(m)[g]
    BY <1>8, <1>16, <1>21 DEF ViewOf
  <2>2. Own(m)' = Own(m)
    BY <1>20, <1>21, RegularMachines
  <2> QED BY <2>1, <2>2, Stutters
<1>22. DsUnused'
  <2>1. Own("DS")' = Own("DS")
    BY <1>2, <1>20 DEF Nif
  <2> QED BY <1>8, <1>14, <2>1 DEF ManagerInv, DsUnused, Own
<1> QED BY <1>19, <1>21, <1>22 DEF Steps

LEMMA ModemRequestSteps ==
  ASSUME ManagerInv, EmergencyPdn = FALSE, NEW h \in Handle, NEW type, ModemRequest(h, type)
  PROVE  Steps
BY TakenRequestSteps, RefusedRequestSteps

(* Every step of the manager is a step of one machine, or of none: there   *)
(* are no messages to itself, no retries and no modem restarts.            *)
LEMMA EveryStep ==
  ASSUME ManagerInv, EmergencyPdn = FALSE, FreedReads = {}, MaxSSR = 0, [Next]_vars
  PROVE  Steps
<1>1. ASSUME UNCHANGED vars PROVE Steps
  <2>1. UNCHANGED <<nif, mState, mSubscriberList, msgQ, timers, request, report, dataConn, atl, owner>>
    BY <1>1 DEF vars, machines, queues, network
  <2>2. DsUnused'
    BY <2>1 DEF ManagerInv, DsUnused
  <2>3. ASSUME NEW n \in Regular PROVE MachineStep(n)
    <3>1. Own(n)' = Own(n) /\ \A h \in Handle : ViewOf(n)'[h] = ViewOf(n)[h]
      BY <2>1 DEF Own, ViewOf
    <3> QED BY <3>1, Stutters
  <2> QED BY <2>2, <2>3 DEF Steps
<1>2. ~AgpsMsgRequestATL /\ ~retryCallback /\ ~handleModemSSR
  <2>1. ~AgpsMsgRequestATL
    BY DEF AgpsMsgRequestATL, ManagerInv, DsUnused
  <2>2. ~retryCallback
    BY DEF retryCallback, ManagerInv, DsUnused
  <2>3. ~handleModemSSR
    BY Types DEF handleModemSSR, ManagerInv, RestOK
  <2> QED BY <2>1, <2>2, <2>3
<1> QED
  BY <1>1, <1>2, ModemRequestSteps, ReleaseATLSteps, GrantedSteps, ReleasedSteps, NetworkSteps
  DEF Next

-----------------------------------------------------------------------------
(* The books of each machine: AgpsStateMachineProofs, for its part of the  *)
(* state                                                                   *)

AtAgnss == INSTANCE AgpsStateMachineProofs WITH
  mState <- mState["AGNSS"], mSubscriberList <- ToSet(mSubscriberList["AGNSS"]),
  atl <- ViewOf("AGNSS"), request <- request["AGNSS"], report <- report["AGNSS"],
  dataConn <- dataConn["AGNSS"]

AtInternet == INSTANCE AgpsStateMachineProofs WITH
  mState <- mState["INTERNET"], mSubscriberList <- ToSet(mSubscriberList["INTERNET"]),
  atl <- ViewOf("INTERNET"), request <- request["INTERNET"], report <- report["INTERNET"],
  dataConn <- dataConn["INTERNET"]

(* Machine("AGNSS") under its three names: expanded, the same formulas  *)
LEMMA AgnssIsMachine ==
  /\ Agnss!Init <=> Machine("AGNSS")!Init
  /\ Agnss!Next <=> Machine("AGNSS")!Next
BY DEF
   Agnss!Init, Machine!Init, Agnss!Next, Machine!Next, Agnss!Subscribe,
   Machine!Subscribe, Agnss!Unsubscribe, Machine!Unsubscribe,
   Agnss!processAgpsEventGranted, Machine!processAgpsEventGranted,
   Agnss!processAgpsEventReleased, Machine!processAgpsEventReleased,
   Agnss!processAgpsEventDenied, Machine!processAgpsEventDenied,
   Agnss!FrameworkRequest, Machine!FrameworkRequest, Agnss!FrameworkRelease,
   Machine!FrameworkRelease, Agnss!FrameworkLoss, Machine!FrameworkLoss, Agnss!Room,
   Machine!Room, Agnss!addSubscriber, Machine!addSubscriber, Agnss!Of, Machine!Of,
   Agnss!Active, Machine!Active, Agnss!Inactive, Machine!Inactive,
   Agnss!anyActiveSubscribers, Machine!anyActiveSubscribers, Agnss!Notify,
   Machine!Notify, Agnss!Send, Machine!Send, Agnss!Quiet, Machine!Quiet, Agnss!Take,
   Machine!Take, Agnss!Ignore, Machine!Ignore, Agnss!ReleaseComplete,
   Machine!ReleaseComplete, Agnss!DropEverybody, Machine!DropEverybody,
   Agnss!AfterUnsubscribe, Machine!AfterUnsubscribe

LEMMA AtAgnssIsMachine == AtAgnss!Next <=> Machine("AGNSS")!Next
BY DEF
   AtAgnss!Next, Machine!Next, AtAgnss!Subscribe, Machine!Subscribe,
   AtAgnss!Unsubscribe, Machine!Unsubscribe, AtAgnss!processAgpsEventGranted,
   Machine!processAgpsEventGranted, AtAgnss!processAgpsEventReleased,
   Machine!processAgpsEventReleased, AtAgnss!processAgpsEventDenied,
   Machine!processAgpsEventDenied, AtAgnss!FrameworkRequest, Machine!FrameworkRequest,
   AtAgnss!FrameworkRelease, Machine!FrameworkRelease, AtAgnss!FrameworkLoss,
   Machine!FrameworkLoss, AtAgnss!Room, Machine!Room, AtAgnss!addSubscriber,
   Machine!addSubscriber, AtAgnss!Of, Machine!Of, AtAgnss!Active, Machine!Active,
   AtAgnss!Inactive, Machine!Inactive, AtAgnss!anyActiveSubscribers,
   Machine!anyActiveSubscribers, AtAgnss!Notify, Machine!Notify, AtAgnss!Send,
   Machine!Send, AtAgnss!Quiet, Machine!Quiet, AtAgnss!Take, Machine!Take,
   AtAgnss!Ignore, Machine!Ignore, AtAgnss!ReleaseComplete, Machine!ReleaseComplete,
   AtAgnss!DropEverybody, Machine!DropEverybody, AtAgnss!AfterUnsubscribe,
   Machine!AfterUnsubscribe

LEMMA AtAgnssBooks ==
  AtAgnss!Books <=> /\ Machine("AGNSS")!OneSubscriberPerHandle
                    /\ Machine("AGNSS")!StateMatchesSubscribers
                    /\ Machine("AGNSS")!ModemAgrees
BY DEF AtAgnss!Books,
   AtAgnss!OneSubscriberPerHandle, Machine!OneSubscriberPerHandle,
   AtAgnss!StateMatchesSubscribers, Machine!StateMatchesSubscribers,
   AtAgnss!ModemAgrees, Machine!ModemAgrees, AtAgnss!Of, Machine!Of, AtAgnss!Active,
   Machine!Active, AtAgnss!Inactive, Machine!Inactive, AtAgnss!anyActiveSubscribers,
   Machine!anyActiveSubscribers

(* Machine("INTERNET") under its three names: expanded, the same formulas*)
LEMMA InternetIsMachine ==
  /\ Internet!Init <=> Machine("INTERNET")!Init
  /\ Internet!Next <=> Machine("INTERNET")!Next
BY DEF
   Internet!Init, Machine!Init, Internet!Next, Machine!Next, Internet!Subscribe,
   Machine!Subscribe, Internet!Unsubscribe, Machine!Unsubscribe,
   Internet!processAgpsEventGranted, Machine!processAgpsEventGranted,
   Internet!processAgpsEventReleased, Machine!processAgpsEventReleased,
   Internet!processAgpsEventDenied, Machine!processAgpsEventDenied,
   Internet!FrameworkRequest, Machine!FrameworkRequest, Internet!FrameworkRelease,
   Machine!FrameworkRelease, Internet!FrameworkLoss, Machine!FrameworkLoss,
   Internet!Room, Machine!Room, Internet!addSubscriber, Machine!addSubscriber,
   Internet!Of, Machine!Of, Internet!Active, Machine!Active, Internet!Inactive,
   Machine!Inactive, Internet!anyActiveSubscribers, Machine!anyActiveSubscribers,
   Internet!Notify, Machine!Notify, Internet!Send, Machine!Send, Internet!Quiet,
   Machine!Quiet, Internet!Take, Machine!Take, Internet!Ignore, Machine!Ignore,
   Internet!ReleaseComplete, Machine!ReleaseComplete, Internet!DropEverybody,
   Machine!DropEverybody, Internet!AfterUnsubscribe, Machine!AfterUnsubscribe

LEMMA AtInternetIsMachine == AtInternet!Next <=> Machine("INTERNET")!Next
BY DEF
   AtInternet!Next, Machine!Next, AtInternet!Subscribe, Machine!Subscribe,
   AtInternet!Unsubscribe, Machine!Unsubscribe, AtInternet!processAgpsEventGranted,
   Machine!processAgpsEventGranted, AtInternet!processAgpsEventReleased,
   Machine!processAgpsEventReleased, AtInternet!processAgpsEventDenied,
   Machine!processAgpsEventDenied, AtInternet!FrameworkRequest,
   Machine!FrameworkRequest, AtInternet!FrameworkRelease, Machine!FrameworkRelease,
   AtInternet!FrameworkLoss, Machine!FrameworkLoss, AtInternet!Room, Machine!Room,
   AtInternet!addSubscriber, Machine!addSubscriber, AtInternet!Of, Machine!Of,
   AtInternet!Active, Machine!Active, AtInternet!Inactive, Machine!Inactive,
   AtInternet!anyActiveSubscribers, Machine!anyActiveSubscribers, AtInternet!Notify,
   Machine!Notify, AtInternet!Send, Machine!Send, AtInternet!Quiet, Machine!Quiet,
   AtInternet!Take, Machine!Take, AtInternet!Ignore, Machine!Ignore,
   AtInternet!ReleaseComplete, Machine!ReleaseComplete, AtInternet!DropEverybody,
   Machine!DropEverybody, AtInternet!AfterUnsubscribe, Machine!AfterUnsubscribe

LEMMA AtInternetBooks ==
  AtInternet!Books <=> /\ Machine("INTERNET")!OneSubscriberPerHandle
                       /\ Machine("INTERNET")!StateMatchesSubscribers
                       /\ Machine("INTERNET")!ModemAgrees
BY DEF AtInternet!Books,
   AtInternet!OneSubscriberPerHandle, Machine!OneSubscriberPerHandle,
   AtInternet!StateMatchesSubscribers, Machine!StateMatchesSubscribers,
   AtInternet!ModemAgrees, Machine!ModemAgrees, AtInternet!Of, Machine!Of,
   AtInternet!Active, Machine!Active, AtInternet!Inactive, Machine!Inactive,
   AtInternet!anyActiveSubscribers, Machine!anyActiveSubscribers

LEMMA BoundsOK == MaxInFlight \in Nat /\ ReleaseMayFail \in BOOLEAN
BY AgpsAssumption

LEMMA SetsAndViews ==
  ASSUME TypeOK, NEW n \in Nif
  PROVE  /\ mState[n] \in State
         /\ ToSet(mSubscriberList[n]) \in SUBSET Subscriber
         /\ ViewOf(n) \in [Handle -> View]
         /\ request[n] \in Seq(Cmd) /\ report[n] \in Seq(Reply)
         /\ dataConn[n] \in BOOLEAN
<1>1. StatesOK /\ ListsOK /\ AtlOK /\ RequestOK /\ ReportOK
  BY Types
<1>2. PICK list \in Seq(Subscriber) : list = mSubscriberList[n]
  BY <1>1, ListOf
<1>3. ToSet(mSubscriberList[n]) \in SUBSET Subscriber
  BY <1>2, SetOfList
<1>4. ViewOf(n) \in [Handle -> View]
  BY <1>1 DEF ViewOf, AtlOK, View
<1> QED BY <1>1, <1>3, <1>4 DEF StatesOK, RequestOK, ReportOK

LEMMA AtAgnssKept ==
  ASSUME ManagerInv, MachineStep("AGNSS")
  PROVE  MachineBooks("AGNSS")'
<1>1. "AGNSS" \in Nif /\ "AGNSS" \in Regular
  BY DEF Nif, Regular
<1>2. AtAgnss!TypeOK
  BY <1>1, SetsAndViews
  DEF ManagerInv, AtAgnss!TypeOK, AtAgnss!Subscriber, AtAgnss!AgpsState, AtAgnss!AtlView,
      Subscriber, State, View, Cmd, Reply
<1>3. AtAgnss!Books
  BY <1>1, AtAgnssBooks DEF ManagerInv, MachineBooks
<1>4. [AtAgnss!Next]_(AtAgnss!vars)
  BY AtAgnssIsMachine DEF MachineStep, AtAgnss!vars, Machine!vars
<1>5. AtAgnss!Books'
  BY <1>2, <1>3, <1>4, BoundsOK, AtAgnss!BooksKept
<1>6. (AtAgnss!Books <=> /\ Machine("AGNSS")!OneSubscriberPerHandle
                     /\ Machine("AGNSS")!StateMatchesSubscribers
                     /\ Machine("AGNSS")!ModemAgrees)'
  BY AtAgnssBooks, PTL
<1>7. Distinct(mSubscriberList["AGNSS"])'
  BY DEF MachineStep, Distinct
<1> QED BY <1>5, <1>6, <1>7 DEF MachineBooks

LEMMA AtInternetKept ==
  ASSUME ManagerInv, MachineStep("INTERNET")
  PROVE  MachineBooks("INTERNET")'
<1>1. "INTERNET" \in Nif /\ "INTERNET" \in Regular
  BY DEF Nif, Regular
<1>2. AtInternet!TypeOK
  BY <1>1, SetsAndViews
  DEF ManagerInv, AtInternet!TypeOK, AtInternet!Subscriber, AtInternet!AgpsState, AtInternet!AtlView,
      Subscriber, State, View, Cmd, Reply
<1>3. AtInternet!Books
  BY <1>1, AtInternetBooks DEF ManagerInv, MachineBooks
<1>4. [AtInternet!Next]_(AtInternet!vars)
  BY AtInternetIsMachine DEF MachineStep, AtInternet!vars, Machine!vars
<1>5. AtInternet!Books'
  BY <1>2, <1>3, <1>4, BoundsOK, AtInternet!BooksKept
<1>6. (AtInternet!Books <=> /\ Machine("INTERNET")!OneSubscriberPerHandle
                     /\ Machine("INTERNET")!StateMatchesSubscribers
                     /\ Machine("INTERNET")!ModemAgrees)'
  BY AtInternetBooks, PTL
<1>7. Distinct(mSubscriberList["INTERNET"])'
  BY DEF MachineStep, Distinct
<1> QED BY <1>5, <1>6, <1>7 DEF MachineBooks

LEMMA ManagerInvKept ==
  ASSUME ManagerInv, TypeOK', Steps
  PROVE  ManagerInv'
<1>1. DsUnused' /\ MachineStep("AGNSS") /\ MachineStep("INTERNET")
  BY DEF Steps, Regular
<1>2. MachineBooks("AGNSS")' /\ MachineBooks("INTERNET")'
  BY <1>1, AtAgnssKept, AtInternetKept
<1>3. (\A n \in Regular : MachineBooks(n))'
  BY <1>2 DEF Regular
<1> QED BY <1>1, <1>3 DEF ManagerInv

LEMMA ManagerInvInit ==
  ASSUME EmergencyPdn = FALSE, Init
  PROVE  /\ ManagerInv
         /\ \A n \in Regular : Machine(n)!Init
<1>1. TypeOK
  BY InitTypes
<1>2. DsUnused
  BY DEF Init, createAgpsStateMachines, DsUnused, Regular, Nif
<1>3. ASSUME NEW n \in Regular
      PROVE  /\ mState[n] = "RELEASED" /\ mSubscriberList[n] = <<>> /\ request[n] = <<>>
             /\ report[n] = <<>> /\ dataConn[n] = FALSE
             /\ ViewOf(n) = [h \in Handle |-> "idle"] /\ ToSet(mSubscriberList[n]) = {}
  <2>1. /\ mState[n] = "RELEASED" /\ mSubscriberList[n] = <<>> /\ request[n] = <<>>
        /\ report[n] = <<>> /\ dataConn[n] = FALSE
    BY <1>3, RegularMachines DEF Init
  <2>2. ViewOf(n) = [h \in Handle |-> "idle"]
    BY DEF Init, ViewOf
  <2>3. ToSet(mSubscriberList[n]) = {}
    BY <2>1 DEF ToSet
  <2> QED BY <2>1, <2>2, <2>3
<1>4. ASSUME NEW n \in Regular PROVE MachineBooks(n) /\ Machine(n)!Init
  <2>1. Distinct(mSubscriberList[n])
    <3>1. mSubscriberList[n] = <<>>
      BY <1>3
    <3> QED BY <3>1 DEF Distinct
  <2>2. Machine(n)!OneSubscriberPerHandle
    BY <1>3 DEF Machine!OneSubscriberPerHandle
  <2>3. Machine(n)!StateMatchesSubscribers
    BY <1>3 DEF Machine!StateMatchesSubscribers
  <2>4. Machine(n)!ModemAgrees
    BY <1>3 DEF Machine!ModemAgrees, Machine!Of
  <2>5. Machine(n)!Init
    BY <1>3 DEF Machine!Init
  <2> QED BY <2>1, <2>2, <2>3, <2>4, <2>5 DEF MachineBooks
<1> QED BY <1>1, <1>2, <1>4 DEF ManagerInv

LEMMA OneList ==
  ASSUME ManagerInv
  PROVE  HandleInOneList
<1> SUFFICES ASSUME NEW h \in Handle, NEW m \in Holding(h), NEW n \in Holding(h)
             PROVE  m = n
  BY DEF HandleInOneList
<1>1. mSubscriberList["DS"] = <<>>
  BY DEF ManagerInv, DsUnused
<1>2. Handles(mSubscriberList["DS"]) = {}
  BY <1>1 DEF Handles, HandlesAt
<1>3. m \in Regular /\ n \in Regular
  BY <1>2, RegularMachines DEF Holding
<1>4. owner[h] = m /\ owner[h] = n
  BY <1>3, WhoIsInTheList DEF Holding
<1> QED BY <1>4

(* Without an emergency PDN and while the modem does not restart, each of  *)
(* the two machines of the manager, whatever the other one does with the   *)
(* same handles, goes through the steps of AgpsStateMachine only, and no   *)
(* handle is in two lists, so that the order in which releaseATL searches  *)
(* them (Agps.cpp:798) does not matter. The hypothesis on FreedReads is    *)
(* that of NobodyIsForgotten: no foreign handle in freed memory.           *)
THEOREM MachinesRefine ==
  ASSUME EmergencyPdn = FALSE, FreedReads = {}, MaxSSR = 0
  PROVE  Spec => MachinesImplement
<1>1. Init => ManagerInv
  BY ManagerInvInit
<1>2. ManagerInv /\ TypeOK' /\ [Next]_vars => ManagerInv'
  BY EveryStep, ManagerInvKept
<1>3. Spec => []ManagerInv
  BY <1>1, <1>2, ManagerTypes, PTL DEF Spec
<1>4. Init => Agnss!Init /\ Internet!Init
  BY ManagerInvInit, AgnssIsMachine, InternetIsMachine DEF Regular
<1>5. ManagerInv /\ [Next]_vars => [Agnss!Next]_(Agnss!vars) /\ [Internet!Next]_(Internet!vars)
  <2> SUFFICES ASSUME ManagerInv, [Next]_vars
               PROVE  [Agnss!Next]_(Agnss!vars) /\ [Internet!Next]_(Internet!vars)
    OBVIOUS
  <2>1. MachineStep("AGNSS") /\ MachineStep("INTERNET")
    BY EveryStep DEF Steps, Regular
  <2>2. [Agnss!Next]_(Agnss!vars)
    BY <2>1, AgnssIsMachine DEF MachineStep, Agnss!vars, Machine!vars
  <2>3. [Internet!Next]_(Internet!vars)
    BY <2>1, InternetIsMachine DEF MachineStep, Internet!vars, Machine!vars
  <2> QED BY <2>2, <2>3
<1>6. Spec => Agnss!Spec /\ Internet!Spec
  BY <1>3, <1>4, <1>5, PTL DEF Spec, Agnss!Spec, Internet!Spec
<1>7. ManagerInv => HandleInOneList
  BY OneList
<1> QED BY <1>3, <1>6, <1>7, PTL
        DEF MachinesImplement, AgnssImplements, InternetImplements
=============================================================================
