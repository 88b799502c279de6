----------------------- MODULE AgpsStateMachineProofs -----------------------
(***************************************************************************)
(* Proofs, for any set of handles and any bounds, of the safety properties *)
(* that the runs of AgpsStateMachine check on small instances.             *)
(***************************************************************************)
EXTENDS AgpsStateMachine, QueueTheorems, TLAPS

Command == {"REQUEST", "RELEASE"}
Reply == {"OPEN", "CLOSED", "FAILED"}

-----------------------------------------------------------------------------
(* The state of the machine and of its two neighbours keeps its shape      *)
(* under every event of Agps.cpp.                                          *)
LEMMA TypeKept ==
  ASSUME TypeOK, [Next]_vars
  PROVE  TypeOK'
<1> DEFINE MachineOK == /\ mState \in AgpsState
                        /\ mSubscriberList \in SUBSET Subscriber
                        /\ atl \in [Handle -> AtlView]
           ReportOK == report \in Seq(Reply) /\ dataConn \in BOOLEAN
<1>t. request \in Seq(Command) /\ ReportOK /\ MachineOK
  BY DEF TypeOK, Command, Reply
<1>g. SUFFICES request' \in Seq(Command) /\ ReportOK' /\ MachineOK'
  BY DEF TypeOK, Command, Reply
<1>s. \A c \in Command : Send(c) => request' \in Seq(Command)
  BY <1>t, AppendProperties DEF Send
<1>k. ASSUME NEW e, Take(e) PROVE ReportOK'
  BY <1>k, <1>t, TailProperties DEF Take
<1>1. ASSUME NEW h \in Handle, NEW wait \in BOOLEAN, Subscribe(h, wait)
      PROVE  request' \in Seq(Command) /\ ReportOK' /\ MachineOK'
  <2>1. request' \in Seq(Command)
    BY <1>1, <1>t, <1>s DEF Subscribe, Command, Quiet
  <2>2. ReportOK'
    BY <1>1, <1>t DEF Subscribe
  <2>3. mSubscriberList' \in SUBSET Subscriber
    <3> DEFINE s == [mConnHandle |-> h, mWaitForCloseComplete |-> wait,
                     mIsInactive |-> FALSE]
    <3>1. s \in Subscriber
      BY DEF Subscriber
    <3>2. mSubscriberList' = addSubscriber(s)
      BY <1>1 DEF Subscribe
    <3> HIDE DEF s
    <3> QED BY <3>1, <3>2, <1>t DEF addSubscriber
  <2>4. mState' \in AgpsState /\ atl' \in [Handle -> AtlView]
    BY <1>1, <1>t DEF Subscribe, AgpsState, AtlView
  <2> QED BY <2>1, <2>2, <2>3, <2>4
<1>2. ASSUME NEW s \in mSubscriberList, Unsubscribe(s)
      PROVE  request' \in Seq(Command) /\ ReportOK' /\ MachineOK'
  <2>1. request' \in Seq(Command)
    BY <1>2, <1>t, <1>s DEF Unsubscribe, Command, Quiet
  <2>2. ReportOK'
    BY <1>2, <1>t DEF Unsubscribe
  <2>3. AfterUnsubscribe(s) \in SUBSET Subscriber
    BY <1>t DEF AfterUnsubscribe, Of, Subscriber
  <2>4. s.mConnHandle \in Handle
    BY <1>t DEF Subscriber
  <2>5. MachineOK'
    BY <1>2, <1>t, <2>3, <2>4 DEF Unsubscribe, AgpsState, AtlView
  <2> QED BY <2>1, <2>2, <2>5
<1>3. CASE processAgpsEventGranted
  <2>1. ReportOK'
    BY <1>3, <1>k DEF processAgpsEventGranted
  <2>2. request' = request /\ MachineOK'
    BY <1>3, <1>t
    DEF processAgpsEventGranted, Notify, Ignore, AgpsState, AtlView
  <2> QED BY <2>1, <2>2, <1>t
<1>4. ASSUME ReleaseComplete PROVE request' \in Seq(Command) /\ MachineOK'
  <2>1. request' \in Seq(Command)
    BY <1>4, <1>t, <1>s DEF ReleaseComplete, Command, Quiet
  <2>2. MachineOK'
    BY <1>4, <1>t DEF ReleaseComplete, Notify, AgpsState, AtlView, Active
  <2> QED BY <2>1, <2>2
<1>5. ASSUME DropEverybody PROVE request' \in Seq(Command) /\ MachineOK'
  BY <1>5, <1>t DEF DropEverybody, Notify, AgpsState, AtlView
<1>6. CASE processAgpsEventReleased
  BY <1>4, <1>5, <1>6, <1>t, <1>k DEF processAgpsEventReleased, Ignore
<1>7. CASE processAgpsEventDenied
  BY <1>4, <1>5, <1>7, <1>t, <1>k DEF processAgpsEventDenied, Ignore
<1>8. CASE FrameworkRequest
  <2>1. request' \in Seq(Command) /\ MachineOK'
    BY <1>8, <1>t, TailProperties DEF FrameworkRequest
  <2>2. report' \in Seq(Reply)
    BY <1>8, <1>t, AppendProperties DEF FrameworkRequest, Reply
  <2>3. dataConn' \in BOOLEAN
    BY <1>8, <1>t DEF FrameworkRequest
  <2> QED BY <2>1, <2>2, <2>3
<1>9. CASE FrameworkRelease
  <2>1. request' \in Seq(Command) /\ MachineOK'
    BY <1>9, <1>t, TailProperties DEF FrameworkRelease
  <2>2. report' \in Seq(Reply)
    BY <1>9, <1>t, AppendProperties DEF FrameworkRelease, Reply
  <2>3. dataConn' \in BOOLEAN
    BY <1>9, <1>t DEF FrameworkRelease
  <2> QED BY <2>1, <2>2, <2>3
<1>10. CASE FrameworkLoss
  <2>1. request' \in Seq(Command) /\ MachineOK'
    BY <1>10, <1>t DEF FrameworkLoss
  <2>2. report' \in Seq(Reply)
    BY <1>10, <1>t, AppendProperties DEF FrameworkLoss, Reply
  <2>3. dataConn' \in BOOLEAN
    BY <1>10 DEF FrameworkLoss
  <2> QED BY <2>1, <2>2, <2>3
<1>11. CASE UNCHANGED vars
  BY <1>11, <1>t DEF vars
<1> QED
  BY <1>1, <1>2, <1>3, <1>6, <1>7, <1>8, <1>9, <1>10, <1>11 DEF Next

(* Type correctness, in every state the machine reaches.                   *)
THEOREM TypeCorrect == Spec => []TypeOK
<1>1. Init => TypeOK
  <2> SUFFICES ASSUME Init PROVE TypeOK
    OBVIOUS
  <2>1. request \in Seq(Command) /\ report \in Seq(Reply)
    BY DEF Init
  <2>2. dataConn \in BOOLEAN
    BY DEF Init
  <2>3. mState \in AgpsState /\ mSubscriberList \in SUBSET Subscriber
    BY DEF Init, AgpsState
  <2>4. atl \in [Handle -> AtlView]
    BY DEF Init, AtlView
  <2> QED BY <2>1, <2>2, <2>3, <2>4 DEF TypeOK, Command, Reply
<1> QED BY <1>1, TypeKept, PTL DEF Spec

-----------------------------------------------------------------------------
(* The books of the machine. None of the three parts is inductive alone:   *)
(* that a handle the modem sees as idle is not in the list keeps the list  *)
(* unique; uniqueness makes the end of a release remove exactly those told *)
(* of it; and the state tells which of the modem's views are possible.     *)
Books == OneSubscriberPerHandle /\ StateMatchesSubscribers /\ ModemAgrees

(* requestATL of an idle handle keeps the books: the handle was in no      *)
(* entry of the list, and its view follows from the state it joins.        *)
LEMMA BooksSubscribe ==
  ASSUME TypeOK, Books,
         NEW h \in Handle, NEW wait \in BOOLEAN, Subscribe(h, wait)
  PROVE  Books'
<1> DEFINE s == [mConnHandle |-> h, mWaitForCloseComplete |-> wait,
                 mIsInactive |-> FALSE]
<1>1. /\ s.mConnHandle = h /\ s.mIsInactive = FALSE
  OBVIOUS
<1>2. Of(mSubscriberList, h) = {}
  BY DEF Subscribe, Books, ModemAgrees
<1>3. mSubscriberList' = mSubscriberList \cup {s}
  BY <1>1, <1>2 DEF Subscribe, addSubscriber
<1>4. /\ atl' = [atl EXCEPT ![h] =
                   IF mState = "ACQUIRED" THEN "open" ELSE "requested"]
      /\ mState' = IF mState = "RELEASED" THEN "PENDING" ELSE mState
  BY DEF Subscribe
<1> HIDE DEF s
<1>5. OneSubscriberPerHandle'
  BY <1>1, <1>2, <1>3 DEF Books, OneSubscriberPerHandle, Of
<1>6. StateMatchesSubscribers'
  BY <1>1, <1>3, <1>4 DEF Books, StateMatchesSubscribers, TypeOK, AgpsState,
     Active, Inactive, anyActiveSubscribers
<1>7. ModemAgrees'
  BY <1>1, <1>3, <1>4 DEF Books, StateMatchesSubscribers, ModemAgrees, TypeOK,
     AgpsState, Of, Active, Inactive
<1> QED BY <1>5, <1>6, <1>7 DEF Books

(* releaseATL keeps the books, in each way it may leave the list: empty,   *)
(* with inactive subscribers only, or with somebody still active.          *)
LEMMA BooksUnsubscribe ==
  ASSUME TypeOK, Books, NEW s \in mSubscriberList, Unsubscribe(s)
  PROVE  Books'
<1> DEFINE h == s.mConnHandle
           gone == [s EXCEPT !.mIsInactive = TRUE]
           left == mSubscriberList'
<1>1. /\ h \in Handle
      /\ gone \in Subscriber
      /\ gone.mConnHandle = h /\ gone.mIsInactive
      /\ gone.mWaitForCloseComplete = s.mWaitForCloseComplete
  BY DEF TypeOK, Subscriber
<1>2. /\ Of(mSubscriberList, h) = {s}
      /\ \A x : x \in left <=> (x \in mSubscriberList /\ x # s)
                              \/ (s.mWaitForCloseComplete /\ x = gone)
  <2>1. Of(mSubscriberList, h) = {s}
    BY DEF Books, OneSubscriberPerHandle, Of
  <2>2. left = (mSubscriberList \ {s})
                 \cup (IF s.mWaitForCloseComplete THEN {gone} ELSE {})
    BY <2>1 DEF Unsubscribe, AfterUnsubscribe
  <2> HIDE DEF gone
  <2> QED BY <2>1, <2>2
<1>3. atl' = [atl EXCEPT ![h] =
                IF s.mWaitForCloseComplete THEN "closing" ELSE "idle"]
  BY DEF Unsubscribe
<1>4. /\ mState # "RELEASED"
      /\ mState' = IF left = {} THEN "RELEASED"
                   ELSE IF ~anyActiveSubscribers(left) THEN "RELEASING"
                   ELSE mState
  BY DEF Unsubscribe
<1>5. mState = "RELEASING" /\ left # {} => Inactive(left) # {}
  BY <1>1, <1>2 DEF Books, OneSubscriberPerHandle, StateMatchesSubscribers, Inactive
<1>6. OneSubscriberPerHandle'
  <2>1. ASSUME NEW x \in left
        PROVE  \/ x \in mSubscriberList /\ x.mConnHandle # h
               \/ x = gone /\ s.mWaitForCloseComplete
    BY <2>1, <1>2 DEF Books, OneSubscriberPerHandle
  <2> HIDE DEF gone
  <2> QED BY <1>1, <2>1 DEF Books, OneSubscriberPerHandle
<1> HIDE DEF gone
<1>7. StateMatchesSubscribers'
  BY <1>4, <1>5 DEF StateMatchesSubscribers, TypeOK, AgpsState,
     Active, Inactive, anyActiveSubscribers
<1>8. ModemAgrees'
  <2> SUFFICES ASSUME NEW k \in Handle
               PROVE /\ atl'[k] = "idle" => Of(left, k) = {}
                     /\ atl'[k] = "requested" =>
                          /\ Active(Of(left, k)) # {}
                          /\ mState' \in {"PENDING", "RELEASING"}
                     /\ atl'[k] = "open" =>
                          Active(Of(left, k)) # {} /\ mState' = "ACQUIRED"
                     /\ atl'[k] = "closing" =>
                          Inactive(Of(left, k)) # {} /\ mState' # "RELEASED"
    BY DEF ModemAgrees
  <2>1. CASE k = h
    <3>1. CASE s.mWaitForCloseComplete
      <4>1. gone \in left /\ gone \in Inactive(Of(left, k))
        BY <1>1, <1>2, <2>1, <3>1 DEF Inactive, Of
      <4> QED BY <1>1, <1>3, <1>4, <2>1, <3>1, <4>1 DEF TypeOK
    <3>2. CASE ~s.mWaitForCloseComplete
      BY <1>1, <1>2, <1>3, <2>1, <3>2 DEF TypeOK, Of
    <3> QED BY <3>1, <3>2
  <2>2. CASE k # h
    <3>0. \A x : x.mConnHandle = k => (x \in left <=> x \in mSubscriberList)
      BY <1>1, <1>2, <2>2
    <3>1. Of(left, k) = Of(mSubscriberList, k) /\ atl'[k] = atl[k]
      BY <1>1, <1>3, <2>2, <3>0 DEF TypeOK, Of
    <3>2. Of(left, k) # {} => left # {}
      BY DEF Of
    <3>3. Active(Of(left, k)) # {} => anyActiveSubscribers(left)
      BY DEF Of, Active, anyActiveSubscribers
    <3>4. /\ Active(Of(left, k)) # {} => Of(left, k) # {}
          /\ Inactive(Of(left, k)) # {} => Of(left, k) # {}
      BY DEF Active, Inactive
    <3>5. /\ atl[k] = "idle" => Of(left, k) = {}
          /\ atl[k] = "requested" => /\ Active(Of(left, k)) # {}
                                     /\ mState \in {"PENDING", "RELEASING"}
          /\ atl[k] = "open" => Active(Of(left, k)) # {} /\ mState = "ACQUIRED"
          /\ atl[k] = "closing" => Inactive(Of(left, k)) # {}
      BY <3>1 DEF Books, ModemAgrees
    <3> HIDE DEF left
    <3> QED BY <1>4, <3>1, <3>2, <3>3, <3>4, <3>5
  <2> QED BY <2>1, <2>2
<1> QED BY <1>6, <1>7, <1>8 DEF Books

(* An OPEN report keeps the books, in PENDING and, late, in any state.     *)
LEMMA BooksGranted ==
  ASSUME TypeOK, Books, processAgpsEventGranted
  PROVE  Books'
<1>1. CASE mState = "PENDING"
  BY <1>1 DEF processAgpsEventGranted, Notify, Books, OneSubscriberPerHandle,
     StateMatchesSubscribers, ModemAgrees, TypeOK, Of, Active, Inactive,
     anyActiveSubscribers
<1>2. CASE mState # "PENDING"
  BY <1>2 DEF processAgpsEventGranted, Ignore, Books, OneSubscriberPerHandle,
     StateMatchesSubscribers, ModemAgrees
<1> QED BY <1>1, <1>2

(* The end of a release keeps the books: exactly the inactive subscribers  *)
(* are told of it and leave.                                               *)
LEMMA BooksReleaseComplete ==
  ASSUME TypeOK, Books, mState = "RELEASING", ReleaseComplete
  PROVE  Books'
<1>1. OneSubscriberPerHandle'
  BY DEF ReleaseComplete, Books, OneSubscriberPerHandle, Active
<1>2. StateMatchesSubscribers'
  BY DEF ReleaseComplete, StateMatchesSubscribers, Active, Inactive,
     anyActiveSubscribers
<1>3. ModemAgrees'
  BY DEF ReleaseComplete, Notify, Books, OneSubscriberPerHandle, ModemAgrees,
     TypeOK, Of, Active, Inactive, anyActiveSubscribers
<1> QED BY <1>1, <1>2, <1>3 DEF Books

(* A lost or denied connection keeps the books: everybody is told, and     *)
(* leaves.                                                                 *)
LEMMA BooksDropEverybody ==
  ASSUME TypeOK, Books, DropEverybody
  PROVE  Books'
BY DEF DropEverybody, Notify, Books, OneSubscriberPerHandle,
   StateMatchesSubscribers, ModemAgrees, TypeOK, AtlView, Of, Active, Inactive

(* Every event keeps the books.                                            *)
LEMMA BooksKept ==
  ASSUME TypeOK, Books, [Next]_vars
  PROVE  Books'
<1>1. ASSUME NEW h \in Handle, NEW wait \in BOOLEAN, Subscribe(h, wait)
      PROVE  Books'
  BY <1>1, BooksSubscribe
<1>2. ASSUME NEW s \in mSubscriberList, Unsubscribe(s) PROVE Books'
  BY <1>2, BooksUnsubscribe
<1>3. CASE processAgpsEventGranted
  BY <1>3, BooksGranted
<1>4. ASSUME UNCHANGED <<mState, mSubscriberList, atl>> PROVE Books'
  BY <1>4 DEF Books, OneSubscriberPerHandle, StateMatchesSubscribers,
     ModemAgrees
<1>5. CASE processAgpsEventReleased
  BY <1>5, <1>4, BooksReleaseComplete, BooksDropEverybody
  DEF processAgpsEventReleased, Ignore
<1>6. CASE processAgpsEventDenied
  BY <1>6, <1>4, BooksReleaseComplete, BooksDropEverybody
  DEF processAgpsEventDenied, Ignore
<1>7. CASE FrameworkRequest \/ FrameworkRelease \/ FrameworkLoss
  BY <1>7, <1>4 DEF FrameworkRequest, FrameworkRelease, FrameworkLoss
<1>8. CASE UNCHANGED vars
  BY <1>8, <1>4 DEF vars
<1> QED BY <1>1, <1>2, <1>3, <1>5, <1>6, <1>7, <1>8 DEF Next

(* In whatever order the modem's requests and releases and the framework's *)
(* reports, late ones included, reach the handlers of Agps.cpp: the state  *)
(* matches the subscriber list, no handle is in it twice, and what the     *)
(* modem was told agrees with both.                                        *)
THEOREM BooksAgree ==
  Spec => [](OneSubscriberPerHandle /\ StateMatchesSubscribers /\ ModemAgrees)
<1>1. Init => Books
  BY DEF Init, Books, OneSubscriberPerHandle, StateMatchesSubscribers,
     ModemAgrees, Of
<1> QED BY <1>1, BooksKept, TypeCorrect, PTL DEF Spec, Books

(* In particular the state is the one the handlers count on: "should be    *)
(* empty if we are in released state" (processAgpsEventReleased).          *)
THEOREM StateFollowsSubscribers == Spec => []StateMatchesSubscribers
BY BooksAgree, PTL

-----------------------------------------------------------------------------
(* A machine in PENDING has an answer coming: the report that ends the     *)
(* wait, or the command that report will answer, is under way, and no late *)
(* report of an earlier command can use it up.                             *)
THEOREM AnswerOnItsWay == Spec => []ReportOnItsWay
<1>1. Init => ReportOnItsWay
  BY DEF Init, ReportOnItsWay
<1>2. TypeOK /\ ReportOnItsWay /\ [Next]_vars => ReportOnItsWay'
  <2> SUFFICES ASSUME TypeOK, ReportOnItsWay, [Next]_vars, mState' = "PENDING"
               PROVE  \/ IsIn("REQUEST", request')
                      \/ IsIn("OPEN", report')
                      \/ IsIn("FAILED", report')
    BY DEF ReportOnItsWay
  <2>t. request \in Seq(Command) /\ report \in Seq(Reply)
    BY DEF TypeOK, Command, Reply
  <2>s. Send("REQUEST") => IsIn("REQUEST", request')
    BY <2>t, AppendProperties DEF Send, Command
  <2>m. ASSUME NEW c \in Command, Send(c)
        PROVE  IsIn("REQUEST", request) => IsIn("REQUEST", request')
    BY <2>m, <2>t, AppendProperties DEF Send
  <2>1. ASSUME NEW h \in Handle, NEW wait \in BOOLEAN, Subscribe(h, wait)
        PROVE  \/ IsIn("REQUEST", request')
               \/ IsIn("OPEN", report') \/ IsIn("FAILED", report')
    BY <2>1, <2>s DEF Subscribe, Quiet, ReportOnItsWay
  <2>2. ASSUME NEW s \in mSubscriberList, Unsubscribe(s)
        PROVE  \/ IsIn("REQUEST", request')
               \/ IsIn("OPEN", report') \/ IsIn("FAILED", report')
    BY <2>2, <2>m DEF Unsubscribe, Quiet, ReportOnItsWay, Command
  <2>3. CASE processAgpsEventGranted
    BY <2>3, <2>t, TailProperties
    DEF processAgpsEventGranted, Take, Ignore, ReportOnItsWay
  <2>4. CASE processAgpsEventReleased
    <3>1. mState = "PENDING" \/ Send("REQUEST")
      BY <2>4 DEF processAgpsEventReleased, DropEverybody, ReleaseComplete, Ignore
    <3>2. mState = "PENDING" => request' = request
      BY <2>4 DEF processAgpsEventReleased, Ignore
    <3>3. \A y : IsIn(y, report) /\ y # "CLOSED" => IsIn(y, report')
      BY <2>4, <2>t, TailProperties DEF processAgpsEventReleased, Take
    <3> QED BY <3>1, <3>2, <3>3, <2>s DEF ReportOnItsWay
  <2>5. CASE processAgpsEventDenied
    BY <2>5, <2>s
    DEF processAgpsEventDenied, DropEverybody, ReleaseComplete, Ignore, Quiet
  <2>6. CASE FrameworkRequest
    BY <2>6, <2>t, AppendProperties DEF FrameworkRequest, Reply
  <2>7. CASE FrameworkRelease
    <3>1. IsIn("REQUEST", request) => IsIn("REQUEST", request')
      BY <2>7, <2>t, TailProperties DEF FrameworkRelease
    <3>2. \A y : IsIn(y, report) => IsIn(y, report')
      BY <2>7, <2>t, AppendProperties DEF FrameworkRelease, Reply
    <3> QED BY <2>7, <3>1, <3>2 DEF FrameworkRelease, ReportOnItsWay
  <2>8. CASE FrameworkLoss
    <3>1. \A y : IsIn(y, report) => IsIn(y, report')
      BY <2>8, <2>t, AppendProperties DEF FrameworkLoss, Reply
    <3> QED BY <2>8, <3>1 DEF FrameworkLoss, ReportOnItsWay
  <2>9. CASE UNCHANGED vars
    BY <2>9 DEF vars, ReportOnItsWay
  <2> QED BY <2>1, <2>2, <2>3, <2>4, <2>5, <2>6, <2>7, <2>8, <2>9 DEF Next
<1> QED BY <1>1, <1>2, TypeCorrect, PTL DEF Spec
=============================================================================
