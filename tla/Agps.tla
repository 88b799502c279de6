-------------------------------- MODULE Agps --------------------------------
(***************************************************************************)
(* The AgpsManager of gps/gnss/Agps.cpp: three state machines (AGNSS,      *)
(* INTERNET and, for emergency SUPL over its own PDN, DS), the routing of  *)
(* ATL requests and releases to them, and what DSStateMachine overrides:   *)
(* the retries of a data call the DS client is too busy for, and the       *)
(* fallback to a regular SUPL request, both through the adapter's queue.   *)
(*                                                                         *)
(* Every handler runs to its end in the adapter's message task, so each is *)
(* one action. The requests the manager posts to itself stay in msgQ until *)
(* they are processed, with anything else happening in between; the retry  *)
(* timer fires in a thread of its own.                                     *)
(***************************************************************************)
EXTENDS Naturals, Sequences, Queue, SequencesExt

CONSTANTS
  Handle,          \* the connection handles of the modem
  ModemType,       \* the types of connection the modem asks for
  EmergencyPdn,    \* USE_EMERGENCY_PDN_FOR_EMERGENCY_SUPL
  MaxRetries,      \* MAX_START_DATA_CALL_RETRIES
  DsResult,        \* what mDSClientOpenAndStartDataCallFn may return
  FreedReads,      \* handles a read of a freed subscriber may yield
  ReleaseMayFail,  \* may the framework fail to close an open connection?
  MaxInFlight,     \* bound on what is under way, for new input
  MaxSSR           \* bound on modem restarts

AgpsType == {"SUPL", "WWAN_ANY", "SUPL_ES"}

ASSUME AgpsAssumption ==
  /\ ModemType \subseteq AgpsType
  /\ EmergencyPdn \in BOOLEAN
  /\ MaxRetries \in Nat /\ MaxInFlight \in Nat /\ MaxSSR \in Nat
  /\ DsResult \subseteq {"SUCCESS", "BUSY", "UNSUPPORTED", "OTHER"}
  /\ FreedReads \subseteq Handle
  /\ ReleaseMayFail \in BOOLEAN

VARIABLES
  nif,               \* the machines created so far
  mState,            \* of each machine
  mSubscriberList,   \* of each machine
  mRetries,          \* of the DS machine
  msgQ,              \* AgpsMsgRequestATL messages posted by the manager
  timers,            \* running retry timers
  atl,               \* what the modem knows of each handle
  owner,             \* the machine the modem's last request of a handle went to
  request, report,   \* commands to, and reports of, each machine's network side
  dataConn,          \* is each machine's data connection up?
  ssr                \* modem restarts so far

machines == <<nif, mState, mSubscriberList>>
queues == <<msgQ, timers, mRetries>>
network == <<request, report, dataConn>>
vars == <<machines, queues, network, atl, owner, ssr>>

Nif == {"AGNSS", "INTERNET", "DS"}
Subscriber == [mConnHandle : Handle, mWaitForCloseComplete : BOOLEAN,
               mIsInactive : BOOLEAN]
Msg == [mConnHandle : Handle, mAgpsType : AgpsType]

TypeOK ==
  /\ nif \subseteq Nif
  /\ mState \in [Nif -> {"RELEASED", "PENDING", "ACQUIRED", "RELEASING"}]
  /\ mSubscriberList \in [Nif -> Seq(Subscriber)]
  /\ mRetries \in 0..MaxRetries
  /\ msgQ \in Seq(Msg)
  /\ timers \in Nat
  /\ atl \in [Handle -> {"idle", "requested", "open", "closing"}]
  /\ owner \in [Handle -> Nif]
  /\ request \in [Nif -> Seq({"REQUEST", "RELEASE"})]
  /\ report \in [Nif -> Seq({"OPEN", "CLOSED", "FAILED"})]
  /\ dataConn \in [Nif -> BOOLEAN]
  /\ ssr \in 0..MaxSSR

(* The machines exist before the modem is told to send requests: only that *)
(* of the internet if no assistance is configured, and the DS machine only *)
(* if its client could be initialised.                                     *)
createAgpsStateMachines ==
  nif \in {{"INTERNET"}, {"AGNSS", "INTERNET"}} \cup (IF EmergencyPdn THEN {Nif} ELSE {})

Init ==
  /\ createAgpsStateMachines
  /\ mState = [n \in Nif |-> "RELEASED"]
  /\ mSubscriberList = [n \in Nif |-> <<>>]
  /\ mRetries = 0
  /\ msgQ = <<>>
  /\ timers = 0
  /\ atl = [h \in Handle |-> "idle"]
  /\ owner = [h \in Handle |-> "AGNSS"]
  /\ request = [n \in Nif |-> <<>>]
  /\ report = [n \in Nif |-> <<>>]
  /\ dataConn = [n \in Nif |-> FALSE]
  /\ ssr = 0

-----------------------------------------------------------------------------
(* Subscriber lists *)

HandlesAt(list, P) == {list[i].mConnHandle : i \in P}

Handles(list) == HandlesAt(list, DOMAIN list)

ActiveIn(list) == {i \in DOMAIN list : ~list[i].mIsInactive}

InactiveIn(list) == {i \in DOMAIN list : list[i].mIsInactive}

(* What is left of a list when only the positions P stay, in their order:  *)
(* the k-th element is the one with k of these positions up to its own.    *)
KeepAt(list, P) ==
  [k \in 1..Cardinality(P) |-> list[CHOOSE i \in P : UpTo(P, i) = k]]

anyActiveSubscribers(list) == ActiveIn(list) # {}

(* The position of the handle's subscriber in the list                     *)
getSubscriber(list, h) == Min({i \in DOMAIN list : list[i].mConnHandle = h})

getFirstSubscriber(list) == list[Min(ActiveIn(list))]

addSubscriber(list, s) ==
  IF s.mConnHandle \in Handles(list) THEN list ELSE Append(list, s)

(* deleteSubscriber is given the very element of the list it deletes: the  *)
(* elements after it are compared with freed memory, and those whose       *)
(* handle it happens to yield (garbage) are deleted too.                   *)
deleteSubscriber(list, i, garbage) ==
  KeepAt(list, {j \in DOMAIN list : \/ j < i
                                    \/ j > i /\ list[j].mConnHandle \notin garbage})

(* Telling the modem: an open status matters to a handle that waits for    *)
(* one; a failed open, or a close, ends the handle's use in any case.      *)
TellOpen(view, H) ==
  atl' = [h \in Handle |->
            IF h \in H /\ view[h] = "requested" THEN "open" ELSE view[h]]

TellOver(H) == atl' = [h \in Handle |-> IF h \in H THEN "idle" ELSE atl[h]]

-----------------------------------------------------------------------------
(* requestOrReleaseDataConn *)

UnderWay(n) == Len(request[n]) + Len(report[n])

Room ==
  UnderWay("AGNSS") + UnderWay("INTERNET") + UnderWay("DS") + Len(msgQ) + timers
    < MaxInFlight

SetState(n, state) == mState' = [mState EXCEPT ![n] = state]

SetList(n, list) == mSubscriberList' = [mSubscriberList EXCEPT ![n] = list]

Command(n, cmd) == request' = [request EXCEPT ![n] = Append(@, cmd)]

SuplRequest(h) == [mConnHandle |-> h, mAgpsType |-> "SUPL"]

(* The answer of the DS client to a call setup; the client is not asked    *)
(* when nobody needs the call.                                             *)
DsReply(list) == IF anyActiveSubscribers(list) THEN DsResult ELSE {"OTHER"}

(* DSStateMachine::requestOrReleaseDataConn(true) with reply r *)
StartDataCall(list, r, q) ==
  LET exhausted == r = "BUSY" /\ mRetries = MaxRetries
      fallback == exhausted \/ r = "UNSUPPORTED"
  IN  /\ IF r = "SUCCESS" THEN Command("DS", "REQUEST") ELSE UNCHANGED request
      /\ mRetries' = CASE fallback   -> 0
                       [] ~fallback /\ r = "BUSY" -> mRetries + 1
                       [] OTHER      -> mRetries
      /\ timers' = IF r = "BUSY" /\ ~exhausted THEN timers + 1 ELSE timers
      /\ msgQ' = IF fallback
                   THEN Append(q, SuplRequest(getFirstSubscriber(list).mConnHandle))
                   ELSE q

(* requestOrReleaseDataConn(true) of machine n, which then is in PENDING   *)
(* if this succeeded, and in state otherwise. q is the rest of msgQ.       *)
RequestDataConn(n, list, otherwise, q) ==
  IF n # "DS"
    THEN /\ Command(n, "REQUEST")
         /\ SetState(n, "PENDING")
         /\ msgQ' = q
         /\ UNCHANGED <<timers, mRetries>>
    ELSE \E r \in DsReply(list) :
           /\ StartDataCall(list, r, q)
           /\ SetState(n, IF r = "SUCCESS" THEN "PENDING" ELSE otherwise)

ReleaseDataConn(n) == Command(n, "RELEASE") /\ UNCHANGED queues

-----------------------------------------------------------------------------
(* ATL requests *)

getAgpsStateMachine(type) ==
  CASE type = "SUPL"    -> "AGNSS"
    [] type = "SUPL_ES" -> IF EmergencyPdn THEN "DS" ELSE "AGNSS"
    [] OTHER            -> "INTERNET"

processAgpsEventSubscribe(n, s, view, q) ==
  LET list == addSubscriber(mSubscriberList[n], s)
  IN  /\ SetList(n, list)
      /\ IF mState[n] = "ACQUIRED"
           THEN TellOpen(view, {s.mConnHandle}) ELSE atl' = view
      /\ IF mState[n] = "RELEASED"
           THEN RequestDataConn(n, list, "RELEASED", q)
           ELSE msgQ' = q /\ UNCHANGED <<mState, request, timers, mRetries>>

(* AgpsManager::requestATL, which may have to create the DS machine first  *)
requestATL(h, type, view, q) ==
  LET n == getAgpsStateMachine(type)
      s == [mConnHandle |-> h, mWaitForCloseComplete |-> type = "SUPL_ES",
            mIsInactive |-> FALSE]
  IN  /\ nif' \in (IF n = "DS" /\ "AGNSS" \in nif THEN {nif, nif \cup {n}} ELSE {nif})
      /\ IF n \in nif'
           THEN processAgpsEventSubscribe(n, s, view, q)
           ELSE /\ atl' = [view EXCEPT ![h] = "idle"]
                /\ msgQ' = q
                /\ UNCHANGED <<mState, mSubscriberList, request, timers, mRetries>>
      /\ UNCHANGED <<report, dataConn, ssr>>

(* The modem reuses a handle only once it was told its connection is over. *)
ModemRequest(h, type) ==
  /\ Room
  /\ atl[h] = "idle"
  /\ owner' = [owner EXCEPT ![h] = getAgpsStateMachine(type)]
  /\ requestATL(h, type, [atl EXCEPT ![h] = "requested"], msgQ)

AgpsMsgRequestATL ==
  /\ msgQ # <<>>
  /\ requestATL(Head(msgQ).mConnHandle, Head(msgQ).mAgpsType, atl, Tail(msgQ))
  /\ UNCHANGED owner

(* The retry timer fires. *)
retryCallback ==
  /\ timers > 0
  /\ timers' = timers - 1
  /\ msgQ' = IF anyActiveSubscribers(mSubscriberList["DS"])
               THEN Append(msgQ,
                      [mConnHandle |-> getFirstSubscriber(mSubscriberList["DS"]).mConnHandle,
                       mAgpsType |-> "SUPL_ES"])
               ELSE msgQ
  /\ UNCHANGED <<machines, mRetries, network, atl, owner, ssr>>

-----------------------------------------------------------------------------
(* ATL releases *)

(* The machines that know h; releaseATL searches them in a fixed order.    *)
Holding(h) == {n \in Nif : h \in Handles(mSubscriberList[n])}

SearchOrder == <<"AGNSS", "INTERNET", "DS">>

FirstHolding(h) ==
  SearchOrder[Min({i \in DOMAIN SearchOrder : SearchOrder[i] \in Holding(h)})]

processAgpsEventUnsubscribe(n, i) ==
  LET list == mSubscriberList[n]
      s == list[i]
      h == s.mConnHandle
      waits == s.mWaitForCloseComplete
  IN  IF mState[n] = "RELEASED"
        THEN TellOver({h}) /\ UNCHANGED <<mState, mSubscriberList, request, queues>>
        ELSE \E garbage \in SUBSET FreedReads :
          LET left == IF waits THEN [list EXCEPT ![i].mIsInactive = TRUE]
                               ELSE deleteSubscriber(list, i, garbage)
              releasing == mState[n] = "RELEASING"
          IN  /\ SetList(n, left)
              /\ IF waits THEN atl' = [atl EXCEPT ![h] = "closing"]
                          ELSE TellOver({h})
              /\ CASE left = <<>> ->
                        /\ SetState(n, "RELEASED")
                        /\ IF releasing THEN UNCHANGED <<request, queues>>
                                        ELSE ReleaseDataConn(n)
                   [] left # <<>> /\ ~releasing /\ ~anyActiveSubscribers(left) ->
                        SetState(n, "RELEASING") /\ ReleaseDataConn(n)
                   [] OTHER -> UNCHANGED <<mState, request, queues>>

releaseATL(h) ==
  /\ Room
  /\ IF Holding(h) = {}
       THEN TellOver({h}) /\ UNCHANGED <<mState, mSubscriberList, request, queues>>
       ELSE LET n == FirstHolding(h)
            IN  processAgpsEventUnsubscribe(n, getSubscriber(mSubscriberList[n], h))
  /\ UNCHANGED <<nif, report, dataConn, owner, ssr>>

-----------------------------------------------------------------------------
(* Reports of the network *)

Take(n, event) ==
  /\ report[n] # <<>>
  /\ Head(report[n]) = event
  /\ report' = [report EXCEPT ![n] = Tail(@)]
  /\ UNCHANGED <<nif, dataConn, owner, ssr>>

Ignore == UNCHANGED <<mState, mSubscriberList, atl, request, queues>>

processAgpsEventGranted(n) ==
  /\ Take(n, "OPEN")
  /\ IF mState[n] = "PENDING"
       THEN /\ SetState(n, "ACQUIRED")
            /\ TellOpen(atl, HandlesAt(mSubscriberList[n], ActiveIn(mSubscriberList[n])))
            /\ UNCHANGED <<mSubscriberList, request, queues>>
       ELSE Ignore

(* End of a release, by RELEASED or by DENIED *)
ReleaseComplete(n) ==
  LET list == mSubscriberList[n]
      left == KeepAt(list, ActiveIn(list))
  IN  /\ TellOver(HandlesAt(list, InactiveIn(list)))
      /\ SetList(n, left)
      /\ IF anyActiveSubscribers(left)
           THEN RequestDataConn(n, left, "PENDING", msgQ)
           ELSE SetState(n, "RELEASED") /\ UNCHANGED <<request, queues>>

(* Mutant: the list is dropped before anybody in it is notified. *)
ForceReleaseSilent(n) ==
  /\ SetState(n, "RELEASED")
  /\ SetList(n, <<>>)
  /\ UNCHANGED <<atl, request, queues>>

(* Mutant: the subscribers are notified and stay. *)
ForceReleaseKeeps(n) ==
  /\ SetState(n, "RELEASED")
  /\ TellOver(Handles(mSubscriberList[n]))
  /\ UNCHANGED <<mSubscriberList, request, queues>>

(* RELEASED in ACQUIRED: the connection was taken away. *)
ForceRelease(n) ==
  /\ SetState(n, "RELEASED")
  /\ SetList(n, <<>>)
  /\ TellOver(Handles(mSubscriberList[n]))
  /\ UNCHANGED <<request, queues>>

(* Mutant: the fallback request is posted for the first subscriber only. *)
DeniedOnlyFirst(n) ==
  /\ SetState(n, "RELEASED")
  /\ SetList(n, <<>>)
  /\ IF n = "DS" /\ mSubscriberList[n] # <<>>
       THEN /\ msgQ' = Append(msgQ, SuplRequest(Head(mSubscriberList[n]).mConnHandle))
            /\ mRetries' = 0
            /\ UNCHANGED <<atl, timers>>
       ELSE TellOver(Handles(mSubscriberList[n])) /\ UNCHANGED queues
  /\ UNCHANGED request

(* DENIED in PENDING: the modem is told, or, by the DS machine, a regular  *)
(* SUPL request is posted for everybody.                                   *)
Denied(n) ==
  /\ SetState(n, "RELEASED")
  /\ SetList(n, <<>>)
  /\ IF n = "DS"
       THEN /\ msgQ' = msgQ \o [i \in DOMAIN mSubscriberList[n] |->
                                  SuplRequest(mSubscriberList[n][i].mConnHandle)]
            /\ mRetries' = IF mSubscriberList[n] = <<>> THEN mRetries ELSE 0
            /\ UNCHANGED <<atl, timers>>
       ELSE TellOver(Handles(mSubscriberList[n])) /\ UNCHANGED queues
  /\ UNCHANGED request

processAgpsEventReleased(n) ==
  /\ Take(n, "CLOSED")
  /\ CASE mState[n] = "ACQUIRED"             -> ForceRelease(n)
       [] mState[n] = "RELEASING"            -> ReleaseComplete(n)
       [] mState[n] = "PENDING" /\ n = "DS"  -> Denied(n)
       [] OTHER                              -> Ignore

processAgpsEventDenied(n) ==
  /\ Take(n, "FAILED")
  /\ CASE mState[n] = "PENDING"   -> Denied(n)
       [] mState[n] = "RELEASING" -> ReleaseComplete(n)
       [] OTHER                   -> Ignore

-----------------------------------------------------------------------------
(* The modem restarts and forgets everything it asked for. *)
handleModemSSR ==
  /\ Room
  /\ ssr < MaxSSR
  /\ ssr' = ssr + 1
  /\ mSubscriberList' = [n \in Nif |-> <<>>]
  /\ atl' = [h \in Handle |-> "idle"]
  /\ IF EmergencyPdn THEN Command("DS", "RELEASE") ELSE UNCHANGED request
  /\ UNCHANGED <<nif, mState, queues, report, dataConn, owner>>

-----------------------------------------------------------------------------
(* The network side of each machine, external: the framework, or the DS    *)
(* client, which reports a failed setup as closed. As in AgpsStateMachine. *)

Execute(n, cmd) ==
  /\ request[n] # <<>>
  /\ Head(request[n]) = cmd
  /\ request' = [request EXCEPT ![n] = Tail(@)]
  /\ UNCHANGED <<machines, queues, atl, owner, ssr>>

Report(n, event) == report' = [report EXCEPT ![n] = Append(@, event)]

SetConn(n, up) == dataConn' = [dataConn EXCEPT ![n] = up]

NetworkRequest(n) ==
  /\ Execute(n, "REQUEST")
  /\ \/ Report(n, "OPEN") /\ SetConn(n, TRUE)
     \/ Report(n, IF n = "DS" THEN "CLOSED" ELSE "FAILED") /\ UNCHANGED dataConn

NetworkRelease(n) ==
  /\ Execute(n, "RELEASE")
  /\ \/ Report(n, "CLOSED") /\ SetConn(n, FALSE)
     \/ /\ ReleaseMayFail /\ dataConn[n] /\ n # "DS"
        /\ Report(n, "FAILED") /\ UNCHANGED dataConn
     \/ ~dataConn[n] /\ UNCHANGED <<report, dataConn>>

NetworkLoss(n) ==
  /\ Room
  /\ dataConn[n]
  /\ SetConn(n, FALSE)
  /\ Report(n, "CLOSED")
  /\ UNCHANGED <<machines, queues, request, atl, owner, ssr>>

-----------------------------------------------------------------------------
Next ==
  \/ \E h \in Handle, type \in ModemType : ModemRequest(h, type)
  \/ \E h \in Handle : releaseATL(h)
  \/ AgpsMsgRequestATL
  \/ retryCallback
  \/ \E n \in Nif : \/ processAgpsEventGranted(n)
                    \/ processAgpsEventReleased(n)
                    \/ processAgpsEventDenied(n)
                    \/ NetworkRequest(n)
                    \/ NetworkRelease(n)
                    \/ NetworkLoss(n)
  \/ handleModemSSR

Spec == Init /\ [][Next]_vars

(* The message task processes its messages and reports, timers fire, and   *)
(* the network executes commands. The modem is free to do nothing.         *)
Fairness ==
  /\ WF_vars(AgpsMsgRequestATL)
  /\ WF_vars(retryCallback)
  /\ \A n \in Nif : /\ WF_vars(processAgpsEventGranted(n))
                    /\ WF_vars(processAgpsEventReleased(n))
                    /\ WF_vars(processAgpsEventDenied(n))
                    /\ WF_vars(NetworkRequest(n))
                    /\ WF_vars(NetworkRelease(n))

FairSpec == Spec /\ Fairness

-----------------------------------------------------------------------------
(* Properties *)

(* Without the emergency PDN each of the two machines, whatever the other  *)
(* one does with the same handles, implements AgpsStateMachine: the list   *)
(* is its set of subscribers, and the modem's view of a handle concerns    *)
(* the machine its last request went to.                                   *)
ViewOf(n) == [h \in Handle |-> IF owner[h] = n THEN atl[h] ELSE "idle"]

Agnss == INSTANCE AgpsStateMachine WITH
  mState <- mState["AGNSS"], mSubscriberList <- ToSet(mSubscriberList["AGNSS"]),
  atl <- ViewOf("AGNSS"), request <- request["AGNSS"],
  report <- report["AGNSS"], dataConn <- dataConn["AGNSS"]

Internet == INSTANCE AgpsStateMachine WITH
  mState <- mState["INTERNET"],
  mSubscriberList <- ToSet(mSubscriberList["INTERNET"]),
  atl <- ViewOf("INTERNET"), request <- request["INTERNET"],
  report <- report["INTERNET"], dataConn <- dataConn["INTERNET"]

AgnssImplements == Agnss!Spec

InternetImplements == Internet!Spec

(* releaseATL searches the machines in a fixed order and stops at the      *)
(* first that knows the handle: no other may know it.                      *)
HandleInOneList == \A h \in Handle : \A m, n \in Holding(h) : m = n

(* Both machines of the manager, with its retries and messages, behave as  *)
(* AgpsStateMachine says, each for its own handles.                        *)
MachinesImplement == AgnssImplements /\ InternetImplements /\ []HandleInOneList

Posted(h) == \E i \in DOMAIN msgQ : msgQ[i].mConnHandle = h

(* The manager never loses a request: a handle the modem waits for is in   *)
(* some list, or a message to subscribe it again is in the queue.          *)
NobodyForgotten ==
  \A h \in Handle : atl[h] \in {"requested", "closing"} =>
                       Holding(h) # {} \/ Posted(h)

(* The same, in states of the right type: no more retries than allowed.    *)
HandlesKept == TypeOK /\ NobodyForgotten

(* "Remove the specified subscriber from list" (Agps.h:194): a subscriber  *)
(* leaves a list when the modem is told that its connection is over, or a  *)
(* message to subscribe it elsewhere is posted, and not otherwise.         *)
RemovedOnlyWhenTold ==
  [][\A n \in Nif : \A h \in Handles(mSubscriberList[n]) :
       h \in Handles(mSubscriberList'[n]) \/ atl'[h] = "idle" \/ Posted(h)']_vars

(* "Retry DS Client call setup after some delay" (Agps.cpp:628): a machine *)
(* that waits for a data call gets one, or is told that there is none.     *)
DsPendingEnds == mState["DS"] = "PENDING" ~> mState["DS"] # "PENDING"
=============================================================================
