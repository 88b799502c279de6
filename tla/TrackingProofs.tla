--------------------------- MODULE TrackingProofs ---------------------------
(***************************************************************************)
(* Proofs, for any clients, intervals and bounds, that the state of the    *)
(* tracking sessions keeps its type and that the modem runs at the         *)
(* smallest interval of the sessions there are.                            *)
(***************************************************************************)
EXTENDS Tracking, QueueTheorems, TLAPS

Restart == [msg |-> "RestartSessions"]

-----------------------------------------------------------------------------
(* Sets of sessions *)

(* The interval of a session is a positive number. *)
LEMMA SessionInterval ==
  ASSUME NEW s \in Session
  PROVE  s.minInterval \in Interval /\ s.minInterval \in Nat /\ s.minInterval # 0
BY AdapterAssumption DEF Session

(* A session below all others gives the smallest interval. *)
LEMMA BelowIsSmallest ==
  ASSUME NEW T \in SUBSET Session, NEW s \in Session, Below(s.minInterval, T)
  PROVE  IsSmallest(T \cup {s}, s.minInterval)
BY SessionInterval DEF Below, IsSmallest

(* One that is not leaves the smallest interval as it is. *)
LEMMA SmallestAdd ==
  ASSUME NEW T \in SUBSET Session, NEW s \in Session, NEW i \in Nat,
         IsSmallest(T, i), ~Below(s.minInterval, T)
  PROVE  IsSmallest(T \cup {s}, i)
BY SessionInterval DEF Below, IsSmallest

(* And so it can be taken away. *)
LEMMA SmallestRemove ==
  ASSUME NEW T \in SUBSET Session, NEW s \in T, NEW i \in Nat,
         IsSmallest(T, i), ~Below(s.minInterval, T \ {s})
  PROVE  IsSmallest(T \ {s}, i)
<1>1. PICK t \in T \ {s} : t.minInterval <= s.minInterval
  BY SessionInterval DEF Below
<1>2. \A u \in T : i <= u.minInterval
  BY DEF IsSmallest
<1>3. PICK u \in T : u.minInterval = i
  BY DEF IsSmallest
<1>4. \E v \in T \ {s} : v.minInterval = i
  BY <1>1, <1>2, <1>3, SessionInterval
<1> QED BY <1>2, <1>4 DEF IsSmallest

-----------------------------------------------------------------------------
(* Type correctness *)

(* What a handler reads from the head of the queue *)
LEMMA HeadOfQueue ==
  ASSUME msgQ \in Seq(Msg), msgQ # <<>>
  PROVE  /\ Tail(msgQ) \in Seq(Msg)
         /\ Head(msgQ) \in Msg
         /\ Head(msgQ).msg \in {"StartTracking", "UpdateTracking"} =>
              Head(msgQ).minInterval \in Interval
<1>1. Head(msgQ) \in Msg /\ Tail(msgQ) \in Seq(Msg)
  OBVIOUS
<1>2. ASSUME NEW m \in Msg, m.msg \in {"StartTracking", "UpdateTracking"}
      PROVE  m.minInterval \in Interval
  BY <1>2 DEF Msg
<1> QED BY <1>1, <1>2

(* A call of the modem, or none, leaves it running at an interval or not. *)
LEMMA ModemCallTypes ==
  ASSUME engine \in Interval \cup {0}, restartFailed \in BOOLEAN,
         NEW s, NEW i \in Interval, NEW ok,
         \/ startTrackingMultiplex(i, ok)
         \/ stopTrackingMultiplex(s, ok)
         \/ updateTrackingMultiplex(s, i, ok)
         \/ NoCall
  PROVE  engine' \in Interval \cup {0} /\ restartFailed' \in BOOLEAN
<1>1. ASSUME NEW j \in Interval, startTracking(j, ok)
      PROVE  engine' \in Interval \cup {0} /\ restartFailed' \in BOOLEAN
  BY <1>1 DEF startTracking
<1>2. ASSUME NEW S, startSmallest(S, ok)
      PROVE  engine' \in Interval \cup {0} /\ restartFailed' \in BOOLEAN
  BY <1>1, <1>2 DEF startSmallest
<1>3. ASSUME stopTracking(ok)
      PROVE  engine' \in Interval \cup {0} /\ restartFailed' \in BOOLEAN
  BY <1>3 DEF stopTracking
<1>4. ASSUME NoCall
      PROVE  engine' \in Interval \cup {0} /\ restartFailed' \in BOOLEAN
  BY <1>4 DEF NoCall
<1>5. CASE startTrackingMultiplex(i, ok)
  BY <1>5, <1>1, <1>4 DEF startTrackingMultiplex
<1>6. CASE stopTrackingMultiplex(s, ok)
  BY <1>6, <1>2, <1>3, <1>4 DEF stopTrackingMultiplex
<1>7. CASE updateTrackingMultiplex(s, i, ok)
  BY <1>7, <1>1, <1>2, <1>4 DEF updateTrackingMultiplex
<1> QED BY <1>4, <1>5, <1>6, <1>7

(* What a handler does to the sessions and the modem keeps their types. *)
LEMMA HandlerTypes ==
  ASSUME AdapterTypeOK, NEW c \in Client, NEW id \in Id, NEW err \in BOOLEAN,
         \/ MsgStartTracking(c, id, err)
         \/ MsgUpdateTracking(c, id, err)
         \/ MsgStopTracking(c, id, err)
  PROVE  AdapterTypeOK'
<1>1. /\ engine \in Interval \cup {0} /\ restartFailed \in BOOLEAN
      /\ msgQ \in Seq(Msg)
      /\ mTrackingSessions \in SUBSET Session
  BY DEF AdapterTypeOK
<1>2. /\ removing = {} /\ msgQ # <<>> /\ msgQ' = Tail(msgQ)
      /\ UNCHANGED <<mSessionIdCounter, modemVars, mClientData, loopVars>>
  BY DEF MsgStartTracking, MsgUpdateTracking, MsgStopTracking, Receive
<1>3. msgQ' \in Seq(Msg)
  BY <1>1, <1>2, HeadOfQueue
<1> DEFINE Kept == /\ engine' \in Interval \cup {0} /\ restartFailed' \in BOOLEAN
                   /\ mTrackingSessions' \in SUBSET Session
<1>4. ASSUME MsgStartTracking(c, id, err) PROVE Kept
  <2>1. Head(msgQ).minInterval \in Interval
    BY <1>1, <1>2, <1>4, HeadOfQueue DEF MsgStartTracking, Receive
  <2>2. [client |-> c, id |-> id, minInterval |-> Head(msgQ).minInterval] \in Session
    BY <2>1 DEF Session
  <2>3. CASE UNCHANGED sessionVars
    BY <1>1, <2>3 DEF sessionVars
  <2>4. ASSUME NEW ok, startTrackingMultiplex(Head(msgQ).minInterval, ok),
               mTrackingSessions' = IF err THEN mTrackingSessions
                 ELSE mTrackingSessions \cup
                        {[client |-> c, id |-> id, minInterval |-> Head(msgQ).minInterval]}
        PROVE  Kept
    <3>1. engine' \in Interval \cup {0} /\ restartFailed' \in BOOLEAN
      BY <2>1, <2>4, <1>1, ModemCallTypes
    <3>2. mTrackingSessions' \in SUBSET Session
      BY <2>2, <2>4, <1>1
    <3> QED BY <3>1, <3>2
  <2> QED BY <1>4, <2>3, <2>4 DEF MsgStartTracking
<1>5. ASSUME MsgUpdateTracking(c, id, err) PROVE Kept
  <2>1. Head(msgQ).minInterval \in Interval
    BY <1>1, <1>2, <1>5, HeadOfQueue DEF MsgUpdateTracking, Receive
  <2>3. CASE UNCHANGED sessionVars
    BY <1>1, <2>3 DEF sessionVars
  <2>4. ASSUME NEW s \in Sessions(c, id), NEW ok,
               updateTrackingMultiplex(s, Head(msgQ).minInterval, ok),
               mTrackingSessions' = IF err THEN mTrackingSessions
                 ELSE (mTrackingSessions \ {s})
                        \cup {[client |-> c, id |-> id, minInterval |-> Head(msgQ).minInterval]}
        PROVE  Kept
    <3>1. engine' \in Interval \cup {0} /\ restartFailed' \in BOOLEAN
      BY <2>1, <2>4, <1>1, ModemCallTypes
    <3>2. [client |-> c, id |-> id, minInterval |-> Head(msgQ).minInterval] \in Session
      BY <2>1 DEF Session
    <3>3. mTrackingSessions' \in SUBSET Session
      BY <3>2, <2>4, <1>1
    <3> QED BY <3>1, <3>3
  <2> QED BY <1>5, <2>3, <2>4 DEF MsgUpdateTracking
<1>6. ASSUME MsgStopTracking(c, id, err) PROVE Kept
  <2>1. PICK s \in Sessions(c, id), ok \in Answers :
          /\ stopTrackingMultiplex(s, ok)
          /\ mTrackingSessions' = IF err THEN mTrackingSessions ELSE mTrackingSessions \ {s}
    BY <1>6 DEF MsgStopTracking
  <2>2. s.minInterval \in Interval
    BY <1>1, SessionInterval DEF Sessions
  <2>3. engine' \in Interval \cup {0} /\ restartFailed' \in BOOLEAN
    BY <2>1, <2>2, <1>1, ModemCallTypes
  <2> QED BY <2>1, <2>3, <1>1
<1>7. Kept
  BY <1>4, <1>5, <1>6
<1>8. toStop' = {} /\ removing' = {}
  BY <1>2 DEF AdapterTypeOK, loopVars
<1> QED BY <1>2, <1>3, <1>7, <1>8 DEF AdapterTypeOK, loopVars, modemVars

(* The other steps of the adapter's task keep the types too. *)
LEMMA LoopTypes ==
  ASSUME AdapterTypeOK, NEW err \in BOOLEAN,
         \/ \E s \in toStop : stopClientSession(s, err)
         \/ Silent
  PROVE  AdapterTypeOK'
<1>1. /\ engine \in Interval \cup {0} /\ restartFailed \in BOOLEAN
      /\ msgQ \in Seq(Msg)
      /\ mTrackingSessions \in SUBSET Session
  BY DEF AdapterTypeOK
<1>2. ASSUME NEW kind, Receive(kind)
      PROVE  msgQ' \in Seq(Msg) /\ UNCHANGED <<mSessionIdCounter, up, downs>> /\ removing = {}
  BY <1>1, <1>2, HeadOfQueue DEF Receive, modemVars
<1>3. ASSUME NEW s \in toStop, stopClientSession(s, err) PROVE AdapterTypeOK'
  <2>1. PICK ok \in Answers :
          /\ stopTrackingMultiplex(s, ok)
          /\ mTrackingSessions' = IF err THEN mTrackingSessions ELSE mTrackingSessions \ {s}
    BY <1>3 DEF stopClientSession
  <2>2. s.minInterval \in Interval
    BY SessionInterval DEF AdapterTypeOK
  <2>3. engine' \in Interval \cup {0} /\ restartFailed' \in BOOLEAN
    BY <2>1, <2>2, <1>1, ModemCallTypes
  <2>4. /\ toStop' = toStop \ {s}
        /\ UNCHANGED <<mSessionIdCounter, msgQ, mClientData, removing, up, downs>>
    BY <1>3 DEF stopClientSession, modemVars
  <2> QED BY <2>1, <2>3, <2>4 DEF AdapterTypeOK
<1>4. ASSUME NEW c \in Client, MsgAddClient(c) PROVE AdapterTypeOK'
  BY <1>4, <1>2 DEF MsgAddClient, AdapterTypeOK, sessionVars, loopVars
<1>5. ASSUME NEW c \in Client, MsgRemoveClient(c) PROVE AdapterTypeOK'
  BY <1>5, <1>2 DEF MsgRemoveClient, AdapterTypeOK, sessionVars
<1>6. ASSUME NEW c \in Client, eraseClient(c) PROVE AdapterTypeOK'
  BY <1>6 DEF eraseClient, AdapterTypeOK, sessionVars, modemVars
<1>7. ASSUME MsgUnknownSession PROVE AdapterTypeOK'
  BY <1>7, <1>2 DEF MsgUnknownSession, AdapterTypeOK, sessionVars, loopVars
<1>8. ASSUME MsgRestartSessions PROVE AdapterTypeOK'
  <2>1. engine' \in Interval \cup {0} /\ restartFailed' \in BOOLEAN
    <3>1. CASE NoCall
      BY <3>1, <1>1 DEF NoCall
    <3>2. CASE \E ok \in Answers :
                 /\ \E i \in Interval : engine' = IF ok THEN i ELSE engine
                 /\ restartFailed' = ~ok
      BY <3>2, <1>1
    <3> QED BY <3>1, <3>2, <1>8 DEF MsgRestartSessions
  <2> QED BY <2>1, <1>8, <1>2 DEF MsgRestartSessions, AdapterTypeOK, loopVars
<1> QED BY <1>3, <1>4, <1>5, <1>6, <1>7, <1>8 DEF Silent

(* A message that is sent is one of those the adapter knows. *)
LEMMA SendTypes ==
  ASSUME AdapterTypeOK, NEW m \in Msg, sendMsg(m), mSessionIdCounter' \in 1..MaxSession
  PROVE  AdapterTypeOK' /\ UNCHANGED <<refused, crashed>>
<1>1. msgQ' \in Seq(Msg)
  BY AppendProperties DEF sendMsg, AdapterTypeOK
<1> QED BY <1>1 DEF sendMsg, AdapterTypeOK, sessionVars, loopVars, modemVars

(* Type correctness of the clients, the adapter and its queue, whatever    *)
(* the clients ask for and the modem refuses.                              *)
THEOREM TypeCorrect == Spec => []TypeOK
<1>1. Init => TypeOK
  <2> SUFFICES ASSUME Init PROVE TypeOK
    OBVIOUS
  <2>1. msgQ \in Seq(Msg)
    BY DEF Init, AdapterInit
  <2>2. mSessionIdCounter \in 1..MaxSession /\ downs \in 0..MaxDown
    BY AdapterAssumption DEF Init, AdapterInit
  <2>3. up \in BOOLEAN /\ restartFailed \in BOOLEAN /\ crashed \in BOOLEAN
    BY DEF Init, AdapterInit
  <2>4. AdapterTypeOK
    BY <2>1, <2>2, <2>3 DEF Init, AdapterInit, AdapterTypeOK
  <2>5. mQueue \in [Client -> Seq(Request)]
    BY DEF Init
  <2> QED BY <2>3, <2>4, <2>5 DEF Init, TypeOK
<1>2. TypeOK /\ [Next]_vars => TypeOK'
  <2> SUFFICES ASSUME TypeOK, [Next]_vars PROVE TypeOK'
    OBVIOUS
  <2>t. AdapterTypeOK
    BY DEF TypeOK
  <2> DEFINE ClientOK == /\ alive \in [Client -> {"new", "live", "dead"}]
                         /\ mTracking \in [Client -> BOOLEAN]
                         /\ mSession \in [Client -> Id \cup {0}]
                         /\ mQueue \in [Client -> Seq(Request)]
                         /\ starting \in [Client -> Id \cup {0}]
  <2>c. ClientOK
    BY DEF TypeOK
  <2>g. ASSUME AdapterTypeOK', ClientOK', refused' \subseteq Id, crashed' \in BOOLEAN
        PROVE  TypeOK'
    BY <2>g DEF TypeOK
  <2>u. ASSUME UNCHANGED clientVars PROVE ClientOK'
    BY <2>u, <2>c DEF clientVars
  <2>1. ASSUME TaskStep PROVE TypeOK'
    <3>1. ASSUME NEW c \in Client, NEW id \in Id, Respond(c, id), reportResponse(c, id)
          PROVE  TypeOK'
      <4>1. AdapterTypeOK'
        BY <3>1, <2>t, HandlerTypes DEF Respond
      <4>2. refused' \subseteq Id
        BY <3>1 DEF Respond, TypeOK
      <4>3. crashed' \in BOOLEAN
        BY <3>1 DEF reportResponse, TypeOK
      <4>4. mQueue' \in [Client -> Seq(Request)]
        <5>1. mQueue[c] \in Seq(Request)
          BY <2>c
        <5>2. mQueue[c] # <<>> => Tail(mQueue[c]) \in Seq(Request)
          BY <5>1
        <5>3. \/ mQueue' = mQueue
              \/ mQueue[c] # <<>> /\ mQueue' = [mQueue EXCEPT ![c] = Tail(@)]
          BY <3>1 DEF reportResponse, getRequestBySession
        <5> QED BY <5>2, <5>3, <2>c
      <4>5. ClientOK'
        BY <3>1, <2>c, <4>4 DEF reportResponse
      <4> QED BY <4>1, <4>2, <4>3, <4>5, <2>g
    <3>2. ASSUME NEW s \in toStop, NEW err \in BOOLEAN, stopClientSession(s, err),
                 refused' = IF err THEN refused \cup {s.id} ELSE refused,
                 UNCHANGED <<clientVars, crashed>>
          PROVE  TypeOK'
      <4>1. AdapterTypeOK'
        BY <3>2, <2>t, LoopTypes
      <4>2. s.id \in Id
        BY <2>t DEF AdapterTypeOK, Session
      <4>3. refused' \subseteq Id /\ crashed' \in BOOLEAN
        BY <3>2, <4>2 DEF TypeOK
      <4> QED BY <4>1, <4>3, <3>2, <2>u, <2>g
    <3>3. ASSUME Silent, UNCHANGED <<clientVars, refused, crashed>> PROVE TypeOK'
      <4>1. AdapterTypeOK'
        BY <3>3, <2>t, LoopTypes
      <4>2. refused' \subseteq Id /\ crashed' \in BOOLEAN
        BY <3>3 DEF TypeOK
      <4> QED BY <4>1, <4>2, <3>3, <2>u, <2>g
    <3> QED BY <2>1, <3>1, <3>2, <3>3 DEF TaskStep
  <2>2. ASSUME ClientStep PROVE TypeOK'
    <3>s. ASSUME NEW m \in Msg, sendMsg(m), mSessionIdCounter' \in 1..MaxSession, ClientOK'
          PROVE  TypeOK'
      BY <3>s, <2>t, <2>g, SendTypes DEF TypeOK
    <3>n. mSessionIdCounter \in 1..MaxSession /\ MaxSession \in Nat
      BY <2>t, AdapterAssumption DEF AdapterTypeOK
    <3>q. ASSUME NEW c \in Client, NEW r \in Request, mQueue' = [mQueue EXCEPT ![c] = Append(@, r)]
          PROVE  mQueue' \in [Client -> Seq(Request)]
      <4>1. Append(mQueue[c], r) \in Seq(Request)
        BY <2>c
      <4> QED BY <3>q, <4>1, <2>c
    <3>1. ASSUME NEW c \in Client, locAPISetCallbacks(c) PROVE TypeOK'
      <4>1. [msg |-> "AddClient", client |-> c] \in Msg
        BY DEF Msg
      <4>2. ClientOK'
        BY <3>1, <2>c DEF locAPISetCallbacks
      <4> QED BY <3>1, <4>1, <4>2, <3>s, <3>n DEF locAPISetCallbacks, createInstance
    <3>2. ASSUME NEW c \in Client, noteSession(c) PROVE TypeOK'
      <4>1. <<"StartTracking">> \in Seq(Request)
        BY DEF Request
      <4>2. mQueue' \in [Client -> Seq(Request)]
        BY <3>2, <4>1, <2>c DEF noteSession
      <4>3. ClientOK'
        BY <3>2, <4>2, <2>c DEF noteSession
      <4>4. AdapterTypeOK'
        BY <3>2, <2>t DEF noteSession, adapterVars, sessionVars, loopVars, modemVars,
                          AdapterTypeOK
      <4> QED BY <3>2, <4>3, <4>4, <2>g DEF noteSession, TypeOK
    <3>3. ASSUME NEW c \in Client, locAPIStopTracking(c) PROVE TypeOK'
      <4>1. [msg |-> "StopTracking", client |-> c, id |-> mSession[c]] \in Msg
        BY <3>3, <2>c DEF Msg, locAPIStopTracking
      <4>2. mQueue' \in [Client -> Seq(Request)]
        BY <3>3, <3>q DEF locAPIStopTracking, Request
      <4>3. ClientOK'
        BY <3>3, <4>2, <2>c DEF locAPIStopTracking
      <4> QED BY <3>3, <4>1, <4>3, <3>s, <3>n DEF locAPIStopTracking, stopTrackingOf
    <3>4. ASSUME NEW c \in Client, destroy(c) PROVE TypeOK'
      <4>1. [msg |-> "RemoveClient", client |-> c] \in Msg
        BY DEF Msg
      <4>2. mQueue' \in [Client -> Seq(Request)]
        BY <3>4, <2>c DEF destroy
      <4>3. ClientOK'
        BY <3>4, <4>2, <2>c DEF destroy
      <4> QED BY <3>4, <4>1, <4>3, <3>s, <3>n DEF destroy, removeClient
    <3>5. ASSUME NEW c \in Client, NEW i \in Interval, locAPIStartTracking(c, i) PROVE TypeOK'
      <4>1. mSessionIdCounter' \in Id /\ mSessionIdCounter' \in 1..MaxSession
        BY <3>5, <3>n DEF locAPIStartTracking, startTrackingOf, Id
      <4>2. [msg |-> "StartTracking", client |-> c, id |-> mSessionIdCounter',
             minInterval |-> i] \in Msg
        BY <4>1 DEF Msg
      <4>3. ClientOK'
        BY <3>5, <4>1, <2>c DEF locAPIStartTracking
      <4> QED BY <3>5, <4>1, <4>2, <4>3, <3>s DEF locAPIStartTracking, startTrackingOf
    <3>6. ASSUME NEW c \in Client, NEW i \in Interval, locAPIUpdateTrackingOptions(c, i)
          PROVE  TypeOK'
      <4>1. [msg |-> "UpdateTracking", client |-> c, id |-> mSession[c],
             minInterval |-> i] \in Msg
        BY <3>6, <2>c DEF Msg, locAPIUpdateTrackingOptions
      <4>2. mQueue' \in [Client -> Seq(Request)]
        BY <3>6, <3>q DEF locAPIUpdateTrackingOptions, Request
      <4>3. ClientOK'
        BY <3>6, <4>2, <2>c DEF locAPIUpdateTrackingOptions
      <4> QED BY <3>6, <4>1, <4>3, <3>s, <3>n
              DEF locAPIUpdateTrackingOptions, updateTrackingOptions
    <3> QED BY <2>2, <3>1, <3>2, <3>3, <3>4, <3>5, <3>6 DEF ClientStep
  <2>3. ASSUME ModemStep PROVE TypeOK'
    <3>1. ASSUME EngineDown PROVE AdapterTypeOK'
      <4>1. downs' \in 0..MaxDown
        BY <3>1, <2>t, AdapterAssumption DEF EngineDown, AdapterTypeOK
      <4>2. up' \in BOOLEAN
        BY <3>1 DEF EngineDown
      <4>3. /\ engine' = 0
            /\ UNCHANGED <<mSessionIdCounter, msgQ, mClientData, mTrackingSessions,
                           restartFailed, removing, toStop>>
        BY <3>1 DEF EngineDown, loopVars
      <4> QED BY <4>1, <4>2, <4>3, <2>t DEF AdapterTypeOK
    <3>2. ASSUME handleEngineUpEvent PROVE AdapterTypeOK'
      <4>1. Restart \in Msg
        BY DEF Msg, Restart
      <4>2. msgQ' \in Seq(Msg)
        BY <3>2, <4>1, <2>t, AppendProperties DEF handleEngineUpEvent, AdapterTypeOK, Restart
      <4> QED BY <3>2, <4>2, <2>t DEF handleEngineUpEvent, AdapterTypeOK, sessionVars, loopVars
    <3> QED BY <2>3, <3>1, <3>2, <2>u, <2>g DEF ModemStep, TypeOK
  <2>4. ASSUME UNCHANGED vars PROVE TypeOK'
    BY <2>4 DEF TypeOK, AdapterTypeOK, vars, adapterVars, clientVars, sessionVars, loopVars,
                modemVars
  <2> QED BY <2>1, <2>2, <2>3, <2>4 DEF Next
<1> QED BY <1>1, <1>2, PTL DEF Spec

-----------------------------------------------------------------------------
(* The modem runs at the smallest interval *)

AtSmallest == engine # 0 => IsSmallest(mTrackingSessions, engine)

(* What a change of the sessions owes: the modem still runs at their       *)
(* smallest interval, and stands still only if there are none left, or if  *)
(* it did before.                                                          *)
Multiplexed ==
  /\ AtSmallest'
  /\ engine' = 0 => \/ mTrackingSessions' = {}
                    \/ /\ engine = 0 /\ mTrackingSessions # {}
                       /\ restartFailed' = restartFailed

(* The types the lemmas below start from, and what they are about *)
Typed ==
  /\ mTrackingSessions \in SUBSET Session
  /\ engine \in Interval \cup {0}

(* A refused call, and an invalid one, changes nothing. *)
LEMMA NothingDone ==
  ASSUME Typed, AtSmallest, UNCHANGED <<mTrackingSessions, engine, restartFailed>>
  PROVE  Multiplexed
BY DEF AtSmallest, Multiplexed

(* startTrackingMultiplex and the session that is saved after it *)
LEMMA StartMultiplexed ==
  ASSUME Typed, AtSmallest, NEW s \in Session, NEW ok \in BOOLEAN,
         startTrackingMultiplex(s.minInterval, ok),
         mTrackingSessions' = IF Below(s.minInterval, mTrackingSessions) /\ ~ok
                                THEN mTrackingSessions ELSE mTrackingSessions \cup {s}
  PROVE  Multiplexed
<1> DEFINE T == mTrackingSessions
           i == s.minInterval
<1>t. T \in SUBSET Session /\ i \in Nat /\ i # 0 /\ engine \in Nat
  BY SessionInterval, AdapterAssumption DEF Typed
<1>1. CASE Below(i, T) /\ ok
  <2>1. engine' = i /\ T' = T \cup {s}
    BY <1>1 DEF startTrackingMultiplex, startTracking
  <2>2. IsSmallest(T \cup {s}, i)
    BY <1>1, <1>t, BelowIsSmallest
  <2> QED BY <2>1, <2>2, <1>t DEF AtSmallest, Multiplexed
<1>2. CASE Below(i, T) /\ ~ok
  BY <1>2, NothingDone DEF startTrackingMultiplex, startTracking
<1>3. CASE ~Below(i, T)
  <2>1. engine' = engine /\ restartFailed' = restartFailed /\ T' = T \cup {s}
    BY <1>3 DEF startTrackingMultiplex, NoCall
  <2>2. T # {}
    BY <1>3 DEF Below
  <2>3. engine # 0 => IsSmallest(T \cup {s}, engine)
    BY <1>3, <1>t, SmallestAdd DEF AtSmallest
  <2> QED BY <2>1, <2>2, <2>3 DEF AtSmallest, Multiplexed
<1> QED BY <1>1, <1>2, <1>3

(* stopTrackingMultiplex and the session that is erased after it *)
LEMMA StopMultiplexed ==
  ASSUME Typed, AtSmallest, NEW s \in mTrackingSessions, NEW ok \in BOOLEAN,
         stopTrackingMultiplex(s, ok),
         mTrackingSessions' = IF StopCalls(s) /\ ~ok
                                THEN mTrackingSessions ELSE mTrackingSessions \ {s}
  PROVE  Multiplexed
<1> DEFINE T == mTrackingSessions
<1>t. T \in SUBSET Session /\ s \in Session /\ engine \in Nat
  BY AdapterAssumption DEF Typed
<1>1. CASE Others(s) = {} /\ ok
  BY <1>1 DEF stopTrackingMultiplex, stopTracking, Others, AtSmallest, Multiplexed
<1>2. CASE Others(s) # {} /\ StopCalls(s) /\ ok
  <2>1. PICK i \in Interval : IsSmallest(Others(s), i) /\ engine' = i
    BY <1>2 DEF stopTrackingMultiplex, StopCalls, startSmallest, startTracking
  <2>2. i # 0 /\ T' = Others(s)
    BY <1>2, AdapterAssumption DEF Others
  <2> QED BY <2>1, <2>2 DEF AtSmallest, Multiplexed
<1>3. CASE StopCalls(s) /\ ~ok
  BY <1>3, NothingDone DEF stopTrackingMultiplex, stopTracking, startSmallest, startTracking,
                           StopCalls, NoCall
<1>4. CASE ~StopCalls(s)
  <2>1. Others(s) # {}
    BY <1>4 DEF StopCalls, Below
  <2>2. engine' = engine /\ restartFailed' = restartFailed /\ T' = T \ {s}
    BY <1>4, <2>1 DEF stopTrackingMultiplex, StopCalls, NoCall
  <2>3. engine # 0 => IsSmallest(T \ {s}, engine)
    BY <1>4, <1>t, SmallestRemove DEF AtSmallest, StopCalls, Others
  <2> QED BY <2>2, <2>3 DEF AtSmallest, Multiplexed
<1>5. Others(s) = {} => StopCalls(s)
  BY DEF StopCalls, Below
<1> QED BY <1>1, <1>2, <1>3, <1>4, <1>5

(* updateTrackingMultiplex and the options that are saved after it *)
LEMMA UpdateMultiplexed ==
  ASSUME Typed, AtSmallest, NEW s \in mTrackingSessions, NEW t \in Session,
         NEW ok \in BOOLEAN,
         updateTrackingMultiplex(s, t.minInterval, ok),
         mTrackingSessions' = IF UpdateCalls(s, t.minInterval) /\ ~ok
                                THEN mTrackingSessions ELSE Others(s) \cup {t}
  PROVE  Multiplexed
<1> DEFINE T == mTrackingSessions
           i == t.minInterval
<1>t. /\ T \in SUBSET Session /\ Others(s) \in SUBSET Session /\ s \in Session
      /\ i \in Nat /\ i # 0 /\ engine \in Nat
  BY SessionInterval, AdapterAssumption DEF Typed, Others
<1>1. CASE Below(i, Others(s)) /\ ok
  <2>1. engine' = i /\ T' = Others(s) \cup {t}
    BY <1>1 DEF updateTrackingMultiplex, startTracking
  <2>2. IsSmallest(Others(s) \cup {t}, i)
    BY <1>1, <1>t, BelowIsSmallest
  <2> QED BY <2>1, <2>2, <1>t DEF AtSmallest, Multiplexed
<1>2. CASE ~Below(i, Others(s)) /\ Below(s.minInterval, Others(s)) /\ ok
  <2>1. PICK j \in Interval : IsSmallest(Others(s), j) /\ engine' = j
    BY <1>2 DEF updateTrackingMultiplex, startSmallest, startTracking
  <2>2. j \in Nat /\ j # 0 /\ T' = Others(s) \cup {t}
    BY <1>2, AdapterAssumption
  <2>3. IsSmallest(Others(s) \cup {t}, j)
    BY <1>2, <1>t, <2>1, <2>2, SmallestAdd
  <2> QED BY <2>1, <2>2, <2>3 DEF AtSmallest, Multiplexed
<1>3. CASE UpdateCalls(s, i) /\ ~ok
  BY <1>3, NothingDone DEF updateTrackingMultiplex, startSmallest, startTracking, UpdateCalls,
                           NoCall
<1>4. CASE ~UpdateCalls(s, i)
  <2>1. ~Below(i, Others(s)) /\ ~Below(s.minInterval, Others(s))
    BY <1>4 DEF UpdateCalls
  <2>2. engine' = engine /\ restartFailed' = restartFailed /\ T' = Others(s) \cup {t}
    BY <1>4, <2>1 DEF updateTrackingMultiplex, NoCall
  <2>3. engine # 0 => IsSmallest(Others(s), engine)
    BY <2>1, <1>t, SmallestRemove DEF AtSmallest, Others
  <2>4. engine # 0 => IsSmallest(Others(s) \cup {t}, engine)
    BY <2>1, <2>3, <1>t, SmallestAdd
  <2> QED BY <2>2, <2>4 DEF AtSmallest, Multiplexed
<1> QED BY <1>1, <1>2, <1>3, <1>4 DEF UpdateCalls

(* The responses' handlers multiplex. *)
LEMMA HandlerMultiplexed ==
  ASSUME AdapterTypeOK, AtSmallest, NEW c \in Client, NEW id \in Id, NEW err \in BOOLEAN,
         \/ MsgStartTracking(c, id, err)
         \/ MsgUpdateTracking(c, id, err)
         \/ MsgStopTracking(c, id, err)
  PROVE  Multiplexed
<1>t. /\ Typed /\ Answers \subseteq BOOLEAN
      /\ \A s \in Sessions(c, id) : s \in mTrackingSessions
  BY DEF AdapterTypeOK, Typed, Answers, Sessions
<1>n. ASSUME UNCHANGED sessionVars PROVE Multiplexed
  BY <1>n, <1>t, NothingDone DEF sessionVars
<1> DEFINE i == Head(msgQ).minInterval
           s0 == [client |-> c, id |-> id, minInterval |-> i]
<1>s. ASSUME i \in Interval PROVE s0 \in Session /\ s0.minInterval = i
  BY <1>s DEF Session
<1>h. ASSUME Receive("StartTracking") \/ Receive("UpdateTracking") PROVE i \in Interval
  BY <1>h, HeadOfQueue DEF Receive, AdapterTypeOK
<1>1. CASE MsgStartTracking(c, id, err)
  <2>1. s0 \in Session /\ s0.minInterval = i
    BY <1>1, <1>h, <1>s DEF MsgStartTracking
  <2>2. ASSUME NEW ok \in Answers, startTrackingMultiplex(i, ok),
               err = (Below(i, mTrackingSessions) /\ ~ok),
               mTrackingSessions' = IF err THEN mTrackingSessions
                                    ELSE mTrackingSessions \cup {s0}
        PROVE  Multiplexed
    <3>1. mTrackingSessions' = IF Below(s0.minInterval, mTrackingSessions) /\ ~ok
                                 THEN mTrackingSessions ELSE mTrackingSessions \cup {s0}
      BY <2>1, <2>2
    <3>2. startTrackingMultiplex(s0.minInterval, ok)
      BY <2>1, <2>2
    <3> HIDE DEF s0
    <3> QED BY <2>1, <3>1, <3>2, <1>t, StartMultiplexed
  <2> QED BY <1>1, <1>n, <2>2 DEF MsgStartTracking
<1>2. CASE MsgUpdateTracking(c, id, err)
  <2>1. s0 \in Session /\ s0.minInterval = i
    BY <1>2, <1>h, <1>s DEF MsgUpdateTracking
  <2>2. ASSUME NEW s \in Sessions(c, id), NEW ok \in Answers,
               updateTrackingMultiplex(s, i, ok),
               err = (UpdateCalls(s, i) /\ ~ok),
               mTrackingSessions' = IF err THEN mTrackingSessions
                                    ELSE (mTrackingSessions \ {s}) \cup {s0}
        PROVE  Multiplexed
    <3>1. mTrackingSessions' = IF UpdateCalls(s, s0.minInterval) /\ ~ok
                                 THEN mTrackingSessions ELSE Others(s) \cup {s0}
      BY <2>1, <2>2 DEF Others
    <3>2. updateTrackingMultiplex(s, s0.minInterval, ok)
      BY <2>1, <2>2
    <3> HIDE DEF s0
    <3> QED BY <2>1, <3>1, <3>2, <1>t, UpdateMultiplexed
  <2> QED BY <1>2, <1>n, <2>2 DEF MsgUpdateTracking
<1>3. CASE MsgStopTracking(c, id, err)
  BY <1>3, <1>t, StopMultiplexed DEF MsgStopTracking
<1> QED BY <1>1, <1>2, <1>3

(* The modem runs at the smallest interval of the sessions, and stands     *)
(* still only without sessions, or between a restart of the modem and that *)
(* of the sessions (startTrackingMultiplex and its siblings, restart and   *)
(* removal of a client).                                                   *)
THEOREM EngineRunsAtSmallest == Spec => []EngineAtSmallest
<1>1. Init => EngineAtSmallest
  BY DEF Init, AdapterInit, EngineAtSmallest
<1>2. TypeOK /\ EngineAtSmallest /\ [Next]_vars => EngineAtSmallest'
  <2> SUFFICES ASSUME TypeOK, EngineAtSmallest, [Next]_vars PROVE EngineAtSmallest'
    OBVIOUS
  <2>t. AdapterTypeOK /\ Typed /\ msgQ \in Seq(Msg) /\ Restart \in Msg
    BY DEF TypeOK, AdapterTypeOK, Typed, Restart, Msg
  <2>e. /\ AtSmallest
        /\ engine = 0 => mTrackingSessions = {} \/ ~up \/ restartFailed \/ Has(Restart)
    BY DEF EngineAtSmallest, AtSmallest, Restart
  <2>g. ASSUME Multiplexed, up' = up, Has(Restart) => Has(Restart)' PROVE EngineAtSmallest'
    BY <2>g, <2>e DEF Multiplexed, AtSmallest, EngineAtSmallest, Restart
  <2>u. ASSUME UNCHANGED sessionVars, up' = up, Has(Restart) => Has(Restart)'
        PROVE  EngineAtSmallest'
    BY <2>u, <2>g, <2>t, <2>e, NothingDone DEF sessionVars
  <2>r. ASSUME NEW kind, kind # "RestartSessions", Receive(kind)
        PROVE  up' = up /\ (Has(Restart) => Has(Restart)')
    <3>1. Head(msgQ) # Restart /\ msgQ # <<>> /\ msgQ' = Tail(msgQ)
      BY <2>r DEF Receive, Restart
    <3>2. up' = up
      BY <2>r DEF Receive, modemVars
    <3> QED BY <3>1, <3>2, <2>t, TailProperties DEF Has
  <2>1. ASSUME NEW c \in Client, NEW id \in Id, Respond(c, id) PROVE EngineAtSmallest'
    <3>1. Multiplexed
      BY <2>1, <2>t, <2>e, HandlerMultiplexed DEF Respond
    <3>2. Receive("StartTracking") \/ Receive("UpdateTracking") \/ Receive("StopTracking")
      BY <2>1 DEF Respond, MsgStartTracking, MsgUpdateTracking, MsgStopTracking
    <3> QED BY <3>1, <3>2, <2>r, <2>g
  <2>2. ASSUME NEW s \in toStop, NEW err \in BOOLEAN, stopClientSession(s, err)
        PROVE  EngineAtSmallest'
    <3>1. PICK ok \in Answers :
            /\ stopTrackingMultiplex(s, ok)
            /\ mTrackingSessions' = IF StopCalls(s) /\ ~ok
                                       THEN mTrackingSessions ELSE mTrackingSessions \ {s}
      BY <2>2 DEF stopClientSession
    <3>2. s \in mTrackingSessions /\ ok \in BOOLEAN
      BY <2>t DEF AdapterTypeOK, Answers
    <3>3. Multiplexed
      BY <3>1, <3>2, <2>t, <2>e, StopMultiplexed
    <3>4. up' = up /\ (Has(Restart) => Has(Restart)')
      BY <2>2 DEF stopClientSession, modemVars, Has
    <3> QED BY <3>3, <3>4, <2>g
  <2>3. ASSUME Silent PROVE EngineAtSmallest'
    <3>1. ASSUME NEW c \in Client, MsgAddClient(c) \/ MsgRemoveClient(c)
          PROVE  EngineAtSmallest'
      BY <3>1, <2>r, <2>u DEF MsgAddClient, MsgRemoveClient
    <3>2. ASSUME NEW c \in Client, eraseClient(c) PROVE EngineAtSmallest'
      BY <3>2, <2>u DEF eraseClient, modemVars, Has
    <3>3. ASSUME MsgUnknownSession PROVE EngineAtSmallest'
      BY <3>3, <2>r, <2>u DEF MsgUnknownSession
    <3>4. ASSUME MsgRestartSessions PROVE EngineAtSmallest'
      <4>1. mTrackingSessions' = mTrackingSessions
        BY <3>4 DEF MsgRestartSessions
      <4>2. CASE mTrackingSessions = {}
        BY <3>4, <4>1, <4>2, <2>e DEF MsgRestartSessions, NoCall, EngineAtSmallest, AtSmallest
      <4>3. CASE mTrackingSessions # {}
        <5>1. PICK ok \in Answers, j \in Interval :
                /\ IsSmallest(mTrackingSessions, j)
                /\ engine' = IF ok THEN j ELSE engine
                /\ restartFailed' = ~ok
          BY <3>4, <4>3 DEF MsgRestartSessions
        <5>2. CASE ok
          <6>1. engine' = j /\ j # 0
            BY <5>1, <5>2, AdapterAssumption
          <6> QED BY <5>1, <6>1, <4>1 DEF EngineAtSmallest
        <5>3. CASE ~ok
          BY <5>1, <5>3, <4>1, <2>e DEF EngineAtSmallest, AtSmallest
        <5> QED BY <5>2, <5>3
      <4> QED BY <4>2, <4>3
    <3> QED BY <2>3, <3>1, <3>2, <3>3, <3>4 DEF Silent
  <2>4. ASSUME ClientStep PROVE EngineAtSmallest'
    <3>1. ASSUME NEW c \in Client, noteSession(c) PROVE EngineAtSmallest'
      BY <3>1, <2>u DEF noteSession, adapterVars, modemVars, Has
    <3>2. ASSUME NEW m, sendMsg(m) PROVE EngineAtSmallest'
      <4>1. Has(Restart) => Has(Restart)'
        <5>1. msgQ' = Append(msgQ, m)
          BY <3>2 DEF sendMsg
        <5>2. msgQ \in Seq(Msg \cup {m})
          BY <2>t
        <5> QED BY <5>1, <5>2, AppendProperties DEF Has
      <4> QED BY <3>2, <4>1, <2>u DEF sendMsg, modemVars
    <3> QED BY <2>4, <3>1, <3>2
            DEF ClientStep, locAPISetCallbacks, locAPIStartTracking, locAPIStopTracking,
                locAPIUpdateTrackingOptions, destroy, createInstance, removeClient,
                startTrackingOf, stopTrackingOf, updateTrackingOptions
  <2>5. ASSUME EngineDown PROVE EngineAtSmallest'
    BY <2>5 DEF EngineDown, EngineAtSmallest
  <2>6. ASSUME handleEngineUpEvent PROVE EngineAtSmallest'
    <3>1. Has(Restart)'
      BY <2>6, <2>t, AppendProperties DEF handleEngineUpEvent, Has, Restart
    <3>2. UNCHANGED <<mTrackingSessions, engine>>
      BY <2>6 DEF handleEngineUpEvent, sessionVars
    <3> QED BY <3>1, <3>2, <2>e DEF EngineAtSmallest, AtSmallest, Restart
  <2>7. ASSUME UNCHANGED vars PROVE EngineAtSmallest'
    BY <2>7, <2>u DEF vars, adapterVars, modemVars, Has
  <2> QED BY <2>1, <2>2, <2>3, <2>4, <2>5, <2>6, <2>7 DEF Next, TaskStep, ModemStep
<1> QED BY <1>1, <1>2, TypeCorrect, PTL DEF Spec


-----------------------------------------------------------------------------
(* Clients and adapter agree about requests and sessions *)

(* A request of client c about its session id; the first there is; and the *)
(* removal of the client                                                   *)
IsOf(m, c, id) == m.msg \in Request /\ m.client = c /\ m.id = id
IsStart(m, c, id) == m.msg = "StartTracking" /\ m.client = c /\ m.id = id
IsBy(m, c) == m.msg \in Request /\ m.client = c
IsRemoval(m, c) == m.msg = "RemoveClient" /\ m.client = c
Positions == 1..Len(msgQ)

(* A client is tracking, or about to, with a session id it was given.      *)
ClientsOK ==
  \A c \in Client :
    /\ mSession[c] <= mSessionIdCounter /\ starting[c] <= mSessionIdCounter
    /\ alive[c] = "new" => mSession[c] = 0
    /\ starting[c] # 0 => alive[c] = "live" /\ ~mTracking[c]

IdsGiven ==
  \A c \in Client, id \in Id :
    /\ \A i \in Positions : IsOf(msgQ[i], c, id) => id <= mSessionIdCounter
    /\ Sessions(c, id) # {} => id <= mSessionIdCounter

(* The start of a session comes before all that is asked of it.            *)
StartsFirst ==
  \A c \in Client, id \in Id : \A i \in Positions : IsStart(msgQ[i], c, id) =>
    /\ Sessions(c, id) = {}
    /\ \A j \in Positions : IsOf(msgQ[j], c, id) => i <= j

OneSession ==
  \A c \in Client, id \in Id : \A s, t \in Sessions(c, id) : s = t

(* Of a session a client is about to note there is its start, no more: the *)
(* client holds its mutex, which the response would need.                  *)
StartingQueued ==
  \A c \in Client, id \in Id : starting[c] = id =>
    /\ Sessions(c, id) = {}
    /\ \E i \in Positions :
         /\ IsStart(msgQ[i], c, id)
         /\ \A j \in Positions : IsOf(msgQ[j], c, id) => j = i

(* Nothing a client asked for follows its removal.                         *)
RemovedLast ==
  /\ \A c \in Client : \A i \in Positions : IsRemoval(msgQ[i], c) =>
       /\ alive[c] = "dead"
       /\ \A j \in Positions : IsBy(msgQ[j], c) => j < i
  /\ \A c \in removing : alive[c] = "dead"
  /\ \A s \in toStop : s.client \in removing

(* Somebody will stop session id of client c.                              *)
IsWanted(c, id) ==
  \/ id = starting[c]
  \/ alive[c] = "live" /\ mTracking[c] /\ mSession[c] = id
  \/ Has([msg |-> "StopTracking", client |-> c, id |-> id])
  \/ Has([msg |-> "RemoveClient", client |-> c])

StartsWanted ==
  \A c \in Client, id \in Id : \A i \in Positions :
    IsStart(msgQ[i], c, id) => IsWanted(c, id)

(* SessionsWanted, session by session                                      *)
Wanted ==
  \A c \in Client, id \in Id : \A s \in Sessions(c, id) :
    IsWanted(c, id) \/ s \in toStop \/ id \in refused

(* What makes SessionsInStep inductive                                     *)
Ordered == /\ ClientsOK /\ IdsGiven /\ StartsFirst /\ OneSession /\ StartingQueued
           /\ RemovedLast /\ StartsWanted /\ Wanted
InStep == Ordered /\ RequestsInStep

LEMMA WantedSessions ==
  ASSUME TypeOK
  PROVE  SessionsWanted <=> Wanted
<1>1. \A s \in mTrackingSessions : s.client \in Client /\ s.id \in Id
  BY DEF TypeOK, AdapterTypeOK, Session
<1> QED BY <1>1 DEF SessionsWanted, Wanted, IsWanted, Sessions

LEMMA TypesOf ==
  ASSUME TypeOK
  PROVE  /\ msgQ \in Seq(Msg) /\ mSessionIdCounter \in Nat
         /\ \A c \in Client :
              /\ alive[c] \in {"new", "live", "dead"} /\ mTracking[c] \in BOOLEAN
              /\ mSession[c] \in Nat /\ starting[c] \in Nat
              /\ starting[c] = 0 \/ starting[c] \in Id
         /\ 0 \notin Id /\ \A id \in Id : id \in Nat
<1>1. msgQ \in Seq(Msg) /\ mSessionIdCounter \in Nat
  BY DEF TypeOK, AdapterTypeOK
<1>2. 0 \notin Id /\ \A id \in Id : id \in Nat
  BY AdapterAssumption DEF Id
<1>3. \A c \in Client : /\ alive[c] \in {"new", "live", "dead"} /\ mTracking[c] \in BOOLEAN
                        /\ mSession[c] \in Id \cup {0} /\ starting[c] \in Id \cup {0}
  BY DEF TypeOK
<1> QED BY <1>1, <1>2, <1>3

(* The queue with a message more                                           *)
Sent(m) ==
  /\ Len(msgQ) \in Nat /\ Len(msgQ) + 1 \in Positions' /\ msgQ'[Len(msgQ) + 1] = m
  /\ \A i \in Positions : i \in Positions' /\ i < Len(msgQ) + 1 /\ msgQ'[i] = msgQ[i]
  /\ \A i \in Positions' : i \in Nat /\ (i \in Positions \/ i = Len(msgQ) + 1)
  /\ \A x : Has(x) => Has(x)'
  /\ Has(m)'

LEMMA SentMore ==
  ASSUME msgQ \in Seq(Msg), NEW m \in Msg, msgQ' = Append(msgQ, m)
  PROVE  Sent(m)
<1>1. PICK e : e = Append(msgQ, m) /\ IsOneMore(msgQ, m, e)
  BY QueueGrows, QueueOf
<1>2. /\ Len(msgQ) \in Nat /\ Len(msgQ') = Len(msgQ) + 1
      /\ \A i \in 1..Len(msgQ) : msgQ'[i] = msgQ[i]
      /\ msgQ'[Len(msgQ) + 1] = m
  BY <1>1 DEF IsOneMore
<1>3. /\ IsIn(m, msgQ') /\ \A x : IsIn(x, msgQ) => IsIn(x, msgQ')
  BY AppendProperties
<1> QED BY <1>2, <1>3 DEF Sent, Positions, Has

(* The queue without its head                                              *)
Taken ==
  /\ 1 \in Positions /\ Head(msgQ) = msgQ[1] /\ Head(msgQ) \in Msg
  /\ \A i \in Positions' : i \in Nat \ {0} /\ i + 1 \in Positions /\ msgQ'[i] = msgQ[i + 1]
  /\ \A i \in Positions :
       i \in Nat /\ (i # 1 => i - 1 \in Positions' /\ msgQ'[i - 1] = msgQ[i])
  /\ \A x : Has(x) /\ x # Head(msgQ) => Has(x)'

LEMMA TakenLess ==
  ASSUME msgQ \in Seq(Msg), msgQ # <<>>, msgQ' = Tail(msgQ)
  PROVE  Taken
<1>1. PICK e : e = Tail(msgQ) /\ IsOneLess(msgQ, e)
  BY QueueShrinks, QueueOf
<1>2. \A x : Has(x) /\ x # Head(msgQ) => Has(x)'
  BY TailProperties DEF Has
<1>3. Head(msgQ) \in Msg
  BY HeadOfQueue
<1> QED BY <1>1, <1>2, <1>3 DEF Taken, Positions, IsOneLess

(* What the messages are made of                                           *)
LEMMA MessageOf ==
  ASSUME NEW m \in Msg
  PROVE  /\ m.msg \in Request => m.client \in Client /\ m.id \in Id
         /\ m.msg \in {"AddClient", "RemoveClient"} => m.client \in Client
BY DEF Msg, Request

LEMMA MessagesOf ==
  ASSUME msgQ \in Seq(Msg), NEW i \in Positions
  PROVE  msgQ[i] \in Msg
BY DEF Positions


(* RequestsInStep of one client                                            *)
ClientInOrder(c) ==
  alive[c] = "live" /\ starting[c] = 0 /\ mSession[c] # 0 =>
    /\ EndsWith(mQueue[c], msgQ, Pending(c))
    /\ Answerable(c) => Len(mQueue[c]) = Cardinality(Pending(c))

LEMMA PendingPositions ==
  ASSUME msgQ \in Seq(Msg), NEW c \in Client, mQueue \in [Client -> Seq(Request)]
  PROVE  /\ Pending(c) \in SUBSET Positions
         /\ IsQueue(msgQ) /\ IsQueue(mQueue[c]) /\ Len(msgQ) \in Nat
BY QueueOf DEF Pending, Positions

(* A message is sent: a client's own request is noted with it.             *)
LEMMA OrderedSent ==
  ASSUME msgQ \in Seq(Msg), mQueue \in [Client -> Seq(Request)], NEW c \in Client, NEW m \in Msg,
         msgQ' = Append(msgQ, m), mTrackingSessions' = mTrackingSessions,
         ClientInOrder(c), alive[c] = "live" /\ starting[c] = 0, mSession'[c] = mSession[c],
         mSession[c] # 0,
         IF IsPending(c, m) THEN mQueue'[c] = Append(mQueue[c], m.msg) /\ m.msg # "StartTracking"
                            ELSE mQueue'[c] = mQueue[c]
  PROVE  ClientInOrder(c)'
<1>1. PICK n, r, P, q : n = Len(msgQ) /\ r = mQueue[c] /\ P = Pending(c) /\ q = msgQ'
  OBVIOUS
<1>2. /\ n \in Nat /\ P \in SUBSET (1..n) /\ IsQueue(msgQ) /\ IsQueue(r)
  BY <1>1, PendingPositions DEF Positions
<1>3. Sent(m)
  BY SentMore
<1>4. EndsWith(r, msgQ, P) /\ (Answerable(c) => Len(r) = Cardinality(P))
  BY <1>1 DEF ClientInOrder
<1>5. /\ EndsWith(r, q, P)
      /\ EndsWith(Append(r, m.msg), q, P \cup {n + 1})
  BY <1>1, <1>2, <1>4, EndsAppend
<1>6. Pending(c)' = IF IsPending(c, m) THEN P \cup {n + 1} ELSE P
  <2>1. \A x : IsPending(c, x)' <=> IsPending(c, x)
    BY DEF IsPending
  <2> QED BY <1>1, <1>3, <2>1 DEF Sent, Pending, Positions, IsPending
<1>7. Len(Append(r, m.msg)) = Len(r) + 1
  BY <1>2, QueueAppend
<1>8. Cardinality(P \cup {n + 1}) = Cardinality(P) + 1
  BY <1>2, UpToMore
<1>9. Answerable(c)' => Answerable(c)
  <2>1. Sessions(c, mSession[c])' = Sessions(c, mSession[c])
    BY DEF Sessions
  <2>2. ASSUME NEW i \in Pending(c)', msgQ'[i].msg = "StartTracking"
        PROVE  i \in Pending(c) /\ msgQ[i].msg = "StartTracking"
    BY <1>1, <1>3, <1>6, <2>2 DEF Sent, Pending, Positions
  <2> QED BY <2>1, <2>2 DEF Answerable
<1> QED BY <1>1, <1>4, <1>5, <1>6, <1>7, <1>8, <1>9 DEF ClientInOrder

(* The head of the queue is handled: a request of the client's session is  *)
(* answered, if it may be, and its own taken off the client's queue.       *)
LEMMA OrderedTaken ==
  ASSUME msgQ \in Seq(Msg), mQueue \in [Client -> Seq(Request)], NEW c \in Client,
         msgQ # <<>>, msgQ' = Tail(msgQ),
         ClientInOrder(c), alive[c] = "live" /\ starting[c] = 0, mSession'[c] = mSession[c],
         mSession[c] # 0,
         IF IsPending(c, Head(msgQ))
           THEN \/ /\ Answerable(c)
                   /\ mQueue[c] # <<>> => mQueue'[c] = Tail(mQueue[c])
                \/ ~Answerable(c)' /\ mQueue'[c] = mQueue[c]
           ELSE (Answerable(c)' => Answerable(c)) /\ mQueue'[c] = mQueue[c]
  PROVE  ClientInOrder(c)'
<1>1. PICK n, r, P, q, R : /\ n = Len(msgQ) /\ r = mQueue[c] /\ P = Pending(c) /\ q = msgQ'
                           /\ R = WithoutHead(P, Len(Tail(msgQ)))
  OBVIOUS
<1>2. /\ n \in Nat /\ P \in SUBSET (1..n) /\ IsQueue(msgQ) /\ IsQueue(r)
  BY <1>1, PendingPositions DEF Positions
<1>3. Taken
  BY TakenLess
<1>4. EndsWith(r, msgQ, P) /\ (Answerable(c) => Len(r) = Cardinality(P))
  BY <1>1 DEF ClientInOrder
<1>5. /\ EndsWith(r, q, R)
      /\ 1 \in P => r # <<>> /\ EndsWith(Tail(r), q, R)
      /\ Cardinality(R) = IF 1 \in P THEN Cardinality(P) - 1 ELSE Cardinality(P)
  <2>1. P \in SUBSET (1..Len(msgQ))
    BY <1>1, <1>2
  <2>2. /\ EndsWith(r, Tail(msgQ), R)
        /\ 1 \in P => r # <<>> /\ EndsWith(Tail(r), Tail(msgQ), R)
        /\ Cardinality(R) = IF 1 \in P THEN Cardinality(P) - 1 ELSE Cardinality(P)
    <3>1. R = WithoutHead(P, Len(Tail(msgQ)))
      BY <1>1
    <3>2. PICK o : o = msgQ
      OBVIOUS
    <3>3. /\ IsQueue(o) /\ o # <<>> /\ P \in SUBSET (1..Len(o)) /\ IsQueue(r)
          /\ EndsWith(r, o, P) /\ R = WithoutHead(P, Len(Tail(o)))
      BY <1>2, <1>4, <2>1, <3>1, <3>2
    <3>4. /\ EndsWith(r, Tail(o), R)
          /\ 1 \in P => r # <<>> /\ EndsWith(Tail(r), Tail(o), R)
          /\ Cardinality(R) = IF 1 \in P THEN Cardinality(P) - 1 ELSE Cardinality(P)
      BY ONLY <3>3, EndsTail
    <3> QED BY <3>2, <3>4
  <2> QED BY <1>1, <2>2
<1>6. /\ 1 \in P <=> IsPending(c, Head(msgQ))
      /\ Pending(c)' = R
  <2>1. \A m : IsPending(c, m)' <=> IsPending(c, m)
    BY DEF IsPending
  <2>2. 1 \in P <=> IsPending(c, Head(msgQ))
    BY <1>1, <1>3 DEF Taken, Pending, Positions
  <2>3. \A i \in Positions' : i \in Pending(c)' <=> i + 1 \in P
    BY <1>1, <1>3, <2>1 DEF Taken, Pending, Positions, IsPending
  <2> QED BY <1>1, <2>2, <2>3 DEF Pending, Positions, WithoutHead
<1>7. r # <<>> => Len(Tail(r)) = Len(r) - 1
  BY <1>2, QueueTail
<1> QED BY <1>1, <1>4, <1>5, <1>6, <1>7 DEF ClientInOrder


(* What a step that only sends a message does to the adapter               *)
Posts(m) ==
  /\ msgQ' = Append(msgQ, m)
  /\ UNCHANGED <<mTrackingSessions, removing, toStop, refused>>

(* A call that asks about the session the client has, or none              *)
LEMMA SentAbout ==
  ASSUME TypeOK, Ordered, NEW m \in Msg, Posts(m),
         UNCHANGED <<mSessionIdCounter, mSession, starting>>,
         m.msg \notin {"StartTracking", "RemoveClient"},
         m.msg \in Request =>
           alive[m.client] = "live" /\ starting[m.client] = 0 /\ m.id = mSession[m.client],
         \A c \in Client : \/ alive'[c] = alive[c]
                           \/ alive[c] = "new" /\ alive'[c] = "live",
         \A c \in Client : \/ mTracking'[c] = mTracking[c]
                           \/ /\ ~mTracking'[c]
                              /\ m = [msg |-> "StopTracking", client |-> c, id |-> mSession[c]]
  PROVE  Ordered'
<1>1. Sent(m)
  BY TypesOf, SentMore DEF Posts
<1>2. UNCHANGED <<mTrackingSessions, removing, toStop, refused>>
  BY DEF Posts
<1>3. \A c, id : Sessions(c, id)' = Sessions(c, id)
  BY <1>2 DEF Sessions
<1>4. ClientsOK'
  BY TypesOf DEF Ordered, ClientsOK
<1>5. IdsGiven'
  BY <1>1, <1>3 DEF Ordered, IdsGiven, ClientsOK, Sent, IsOf
<1>6. StartsFirst'
  BY <1>1, <1>3 DEF Ordered, StartsFirst, Sent, IsStart
<1>7. OneSession'
  BY <1>3 DEF Ordered, OneSession
<1>8. StartingQueued'
  <2>1. \A c \in Client, id \in Id : starting[c] = id => ~IsOf(m, c, id)
    BY TypesOf DEF IsOf
  <2> QED BY <2>1, <1>1, <1>3 DEF Ordered, StartingQueued, Sent
<1>9. RemovedLast'
  <2>1. \A c \in Client : alive[c] = "dead" => alive'[c] = "dead" /\ ~IsBy(m, c)
    BY DEF IsBy
  <2>2. \A c \in Client : ~IsRemoval(m, c)
    BY DEF IsRemoval
  <2>3. removing \in SUBSET Client
    BY DEF TypeOK, AdapterTypeOK
  <2> QED BY <1>1, <1>2, <2>1, <2>2, <2>3 DEF Ordered, RemovedLast, Sent
<1>10. \A c \in Client, id \in Id : IsWanted(c, id) => IsWanted(c, id)'
  BY <1>1 DEF IsWanted, Sent
<1>11. StartsWanted'
  BY <1>1, <1>10 DEF Ordered, StartsWanted, Sent, IsStart
<1>12. Wanted'
  BY <1>2, <1>3, <1>10 DEF Ordered, Wanted
<1> QED BY <1>4, <1>5, <1>6, <1>7, <1>8, <1>9, <1>11, <1>12 DEF Ordered


(* The client asks for a session: its id is one nobody knows yet.          *)
LEMMA SentStart ==
  ASSUME TypeOK, TypeOK', Ordered, NEW c \in Client, NEW i \in Interval, locAPIStartTracking(c, i)
  PROVE  Ordered'
<1>0. PICK new, m :
        /\ new = mSessionIdCounter'
        /\ m = [msg |-> "StartTracking", client |-> c, id |-> new, minInterval |-> i]
  OBVIOUS
<1>q. msgQ' = Append(msgQ, m)
  BY <1>0 DEF locAPIStartTracking, startTrackingOf, sendMsg
<1>1. /\ UNCHANGED <<mTrackingSessions, removing, toStop, refused, alive, mTracking, mSession>>
      /\ starting[c] = 0 /\ alive[c] = "live" /\ ~mTracking[c]
      /\ new = mSessionIdCounter' /\ new = mSessionIdCounter + 1
      /\ mSessionIdCounter < MaxSession
  BY <1>0 DEF locAPIStartTracking, startTrackingOf, sendMsg, Locks, sessionVars, loopVars
<1>2. new \in Id /\ m \in Msg
  <2>1. new \in Id
    BY <1>1, AdapterAssumption DEF TypeOK, AdapterTypeOK, Id
  <2> QED BY <1>0, <2>1 DEF Msg
<1>3. Sent(m)
  BY <1>q, <1>2, TypesOf, SentMore
<1>4. starting'[c] = new /\ \A d \in Client : d # c => starting'[d] = starting[d]
  BY <1>1 DEF locAPIStartTracking, TypeOK
<1>5. /\ IsStart(m, c, new) /\ IsOf(m, c, new)
      /\ \A d, id : IsStart(m, d, id) \/ IsOf(m, d, id) => d = c /\ id = new
      /\ \A d : ~IsRemoval(m, d) /\ (IsBy(m, d) => d = c)
  BY <1>0 DEF IsStart, IsOf, IsRemoval, IsBy, Request
<1>6. \A d, id : Sessions(d, id)' = Sessions(d, id)
  BY <1>1 DEF Sessions
<1>7. /\ Sessions(c, new) = {}
      /\ \A d \in Client : \A j \in Positions : ~IsOf(msgQ[j], d, new)
  BY <1>1, <1>2, TypesOf DEF Ordered, IdsGiven
<1>8. ClientsOK'
  BY <1>1, <1>4, TypesOf DEF Ordered, ClientsOK
<1>9. IdsGiven'
  <2>1. \A id \in Id : id <= mSessionIdCounter => id <= new
    BY <1>1, TypesOf
  <2> QED BY <2>1, <1>1, <1>2, <1>3, <1>5, <1>6, TypesOf DEF Ordered, IdsGiven, Sent
<1>10. StartsFirst'
  <2>1. \A j \in Positions : IsStart(msgQ[j], c, new) => IsOf(msgQ[j], c, new)
    BY DEF IsStart, IsOf, Request
  <2> QED BY <2>1, <1>2, <1>3, <1>5, <1>6, <1>7 DEF Ordered, StartsFirst, Sent
<1>11. OneSession'
  BY <1>6 DEF Ordered, OneSession
<1>12. StartingQueued'
  <2>1. \A d \in Client, id \in Id : starting'[d] = id => (d = c /\ id = new) \/ (d # c /\ starting[d] = id)
    BY <1>4
  <2>2. Len(msgQ) + 1 \in Positions' /\ \A j \in Positions' : IsOf(msgQ'[j], c, new) => j = Len(msgQ) + 1
    BY <1>3, <1>7 DEF Sent
  <2> QED BY <2>1, <2>2, <1>3, <1>5, <1>6, <1>7 DEF Ordered, StartingQueued, Sent
<1>13. RemovedLast'
  BY <1>1, <1>3, <1>5 DEF Ordered, RemovedLast, Sent
<1>14. \A d \in Client, id \in Id : IsWanted(d, id) => IsWanted(d, id)'
  BY <1>1, <1>3, <1>4, TypesOf DEF IsWanted, Sent
<1>15. StartsWanted'
  <2>1. IsWanted(c, new)'
    BY <1>4 DEF IsWanted
  <2> QED BY <2>1, <1>3, <1>5, <1>14 DEF Ordered, StartsWanted, Sent
<1>16. Wanted'
  BY <1>1, <1>6, <1>14 DEF Ordered, Wanted
<1> QED BY <1>8, <1>9, <1>10, <1>11, <1>12, <1>13, <1>15, <1>16 DEF Ordered

(* The client goes: nothing it asks for comes after.                       *)
LEMMA SentRemoval ==
  ASSUME TypeOK, Ordered, NEW c \in Client, destroy(c)
  PROVE  Ordered'
<1>0. PICK m : m = [msg |-> "RemoveClient", client |-> c]
  OBVIOUS
<1>q. msgQ' = Append(msgQ, m)
  BY <1>0 DEF destroy, removeClient, sendMsg
<1>1. /\ starting[c] = 0
      /\ UNCHANGED <<mTrackingSessions, removing, toStop, refused, mTracking, starting,
                     mSessionIdCounter>>
  BY DEF destroy, removeClient, sendMsg, Locks, sessionVars, loopVars
<1>2. /\ alive'[c] = "dead" /\ \A d \in Client : d # c => alive'[d] = alive[d]
      /\ mSession'[c] = 0 /\ \A d \in Client : d # c => mSession'[d] = mSession[d]
  BY DEF destroy, TypeOK
<1>3. m \in Msg
  BY <1>0 DEF Msg
<1>4. Sent(m)
  BY <1>q, <1>3, TypesOf, SentMore
<1>5. /\ IsRemoval(m, c) /\ \A d : IsRemoval(m, d) => d = c
      /\ \A d, id : ~IsStart(m, d, id) /\ ~IsOf(m, d, id)
      /\ \A d : ~IsBy(m, d)
  BY <1>0 DEF IsStart, IsOf, IsRemoval, IsBy, Request
<1>6. \A d, id : Sessions(d, id)' = Sessions(d, id)
  BY <1>1 DEF Sessions
<1>7. ClientsOK'
  BY <1>1, <1>2, TypesOf DEF Ordered, ClientsOK
<1>8. IdsGiven'
  BY <1>1, <1>4, <1>5, <1>6 DEF Ordered, IdsGiven, Sent
<1>9. StartsFirst'
  BY <1>4, <1>5, <1>6 DEF Ordered, StartsFirst, Sent
<1>10. OneSession'
  BY <1>6 DEF Ordered, OneSession
<1>11. StartingQueued'
  BY <1>1, <1>4, <1>5, <1>6 DEF Ordered, StartingQueued, Sent
<1>12. RemovedLast'
  <2>1. \A d \in Client : alive[d] = "dead" => alive'[d] = "dead"
    BY <1>2
  <2>2. removing \in SUBSET Client
    BY DEF TypeOK, AdapterTypeOK
  <2> QED BY <1>1, <1>2, <1>4, <1>5, <2>1, <2>2 DEF Ordered, RemovedLast, Sent
<1>13. \A d \in Client, id \in Id : IsWanted(d, id) => IsWanted(d, id)'
  <2>1. Has(m)' /\ \A x : Has(x) => Has(x)'
    BY <1>4 DEF Sent
  <2> QED BY <1>0, <1>1, <1>2, <2>1 DEF IsWanted
<1>14. StartsWanted'
  BY <1>4, <1>5, <1>13 DEF Ordered, StartsWanted, Sent
<1>15. Wanted'
  BY <1>1, <1>6, <1>13 DEF Ordered, Wanted
<1> QED BY <1>7, <1>8, <1>9, <1>10, <1>11, <1>12, <1>14, <1>15 DEF Ordered

(* The client notes the session it asked for.                              *)
LEMMA SessionNoted ==
  ASSUME TypeOK, Ordered, NEW c \in Client, noteSession(c)
  PROVE  Ordered' /\ ClientInOrder(c)'
<1>1. /\ UNCHANGED <<mSessionIdCounter, msgQ, mTrackingSessions, removing, toStop, refused, alive>>
      /\ starting[c] # 0
  BY DEF noteSession, adapterVars, sessionVars, loopVars
<1>2. /\ mSession'[c] = starting[c] /\ \A d \in Client : d # c => mSession'[d] = mSession[d]
      /\ starting'[c] = 0 /\ \A d \in Client : d # c => starting'[d] = starting[d]
      /\ mTracking'[c] = TRUE /\ \A d \in Client : d # c => mTracking'[d] = mTracking[d]
      /\ mQueue'[c] = <<"StartTracking">>
  BY DEF noteSession, TypeOK
<1>3. PICK id \in Id : id = starting[c]
  BY <1>1, TypesOf
<1>4. /\ \A d, k : Sessions(d, k)' = Sessions(d, k)
      /\ \A x : Has(x)' <=> Has(x)
  BY <1>1 DEF Sessions, Has
<1>5. alive[c] = "live" /\ ~mTracking[c]
  BY <1>1 DEF Ordered, ClientsOK
<1>6. PICK k \in Positions :
        /\ IsStart(msgQ[k], c, id)
        /\ \A j \in Positions : IsOf(msgQ[j], c, id) => j = k
  BY <1>3 DEF Ordered, StartingQueued
<1>7. ClientsOK'
  BY <1>1, <1>2, <1>5, TypesOf DEF Ordered, ClientsOK
<1>8. IdsGiven' /\ StartsFirst' /\ OneSession' /\ RemovedLast'
  BY <1>1, <1>4 DEF Ordered, IdsGiven, StartsFirst, OneSession, RemovedLast, Positions
<1>9. StartingQueued'
  <2>1. \A d \in Client, n \in Id : starting'[d] = n => starting[d] = n
    BY <1>2, TypesOf
  <2> QED BY <1>1, <1>4, <2>1 DEF Ordered, StartingQueued, Positions
<1>10. \A d \in Client, n \in Id : IsWanted(d, n) => IsWanted(d, n)'
  BY <1>1, <1>2, <1>4, <1>5 DEF IsWanted
<1>11. StartsWanted' /\ Wanted'
  BY <1>1, <1>4, <1>10 DEF Ordered, StartsWanted, Wanted, Positions
<1>12. Pending(c)' = {k}
  <2>1. \A j \in Positions : IsPending(c, msgQ[j])' <=> IsOf(msgQ[j], c, id)
    BY <1>1, <1>2, <1>3 DEF IsPending, IsOf
  <2>2. IsOf(msgQ[k], c, id)
    BY <1>6 DEF IsStart, IsOf, Request
  <2> QED BY <1>1, <1>6, <2>1, <2>2 DEF Pending, Positions
<1>13. EndsWith(<<"StartTracking">>, msgQ, {k}) /\ Cardinality({k}) = 1
  <2>1. Cardinality({k}) = 1 /\ {j \in {k} : j <= k} = {k}
    <3>1. k \in Nat
      BY TypesOf DEF Positions
    <3> QED BY <3>1, FS_Singleton
  <2>2. UpTo({k}, k) = 1 /\ Len(<<"StartTracking">>) = 1
    BY <2>1 DEF UpTo
  <2>3. <<"StartTracking">>[1] = msgQ[k].msg
    BY <1>6 DEF IsStart
  <2> QED BY <2>1, <2>2, <2>3 DEF EndsWith
<1>14. ClientInOrder(c)'
  <2>1. Len(<<"StartTracking">>) = 1
    OBVIOUS
  <2> QED BY <1>1, <1>2, <1>12, <1>13, <2>1 DEF ClientInOrder
<1> QED BY <1>7, <1>8, <1>9, <1>11, <1>14 DEF Ordered


(* The adapter handles a message: the session it is about may come, change *)
(* or go, no other.                                                        *)
LEMMA TakenOrdered ==
  ASSUME TypeOK, Ordered, Taken, NEW h, h = Head(msgQ), removing = {},
         UNCHANGED <<mSessionIdCounter, alive, mTracking, mSession, starting>>,
         refused \subseteq refused',
         \A d \in Client, id \in Id : ~IsOf(h, d, id) => Sessions(d, id)' = Sessions(d, id),
         \A d \in Client, id \in Id : IsOf(h, d, id) =>
           starting[d] # id /\ \A s, t \in Sessions(d, id)' : s = t,
         \A d \in Client, id \in Id : IsOf(h, d, id) \/ IsRemoval(h, d) =>
           \A s \in Sessions(d, id)' : IsWanted(d, id)' \/ s \in toStop' \/ id \in refused',
         \A d \in removing' : alive[d] = "dead",
         \A s \in toStop' : s.client \in removing'
  PROVE  Ordered'
<1>1. /\ 1 \in Positions /\ h = msgQ[1]
      /\ \A i \in Positions' : i \in Nat \ {0} /\ i + 1 \in Positions /\ msgQ'[i] = msgQ[i + 1]
      /\ \A i \in Positions :
           i \in Nat /\ (i # 1 => i - 1 \in Positions' /\ msgQ'[i - 1] = msgQ[i])
      /\ \A x : Has(x) /\ x # h => Has(x)'
  BY DEF Taken
<1>2. ClientsOK'
  BY DEF Ordered, ClientsOK
<1>3. IdsGiven'
  BY <1>1 DEF Ordered, IdsGiven
<1>4. ASSUME NEW d \in Client, NEW id \in Id, NEW i \in Positions', IsStart(msgQ'[i], d, id)
      PROVE  /\ ~IsOf(h, d, id) /\ ~IsRemoval(h, d)
             /\ i + 1 \in Positions /\ IsStart(msgQ[i + 1], d, id)
  <2>1. i \in Nat \ {0} /\ i + 1 \in Positions /\ IsStart(msgQ[i + 1], d, id)
    BY <1>1, <1>4
  <2>2. ~(i + 1 <= 1) /\ ~(i + 1 < 1)
    BY <2>1
  <2>3. IsBy(msgQ[i + 1], d)
    BY <2>1 DEF IsStart, IsBy, Request
  <2>4. ~IsOf(h, d, id)
    BY <1>1, <2>1, <2>2 DEF Ordered, StartsFirst
  <2>5. ~IsRemoval(h, d)
    BY <1>1, <2>1, <2>2, <2>3 DEF Ordered, RemovedLast
  <2> QED BY <2>1, <2>4, <2>5
<1>5. StartsFirst'
  <2> SUFFICES ASSUME NEW d \in Client, NEW id \in Id, NEW i \in Positions', IsStart(msgQ'[i], d, id)
               PROVE  /\ Sessions(d, id)' = {}
                      /\ \A j \in Positions' : IsOf(msgQ'[j], d, id) => i <= j
    BY DEF StartsFirst, IsStart, IsOf
  <2>1. Sessions(d, id)' = Sessions(d, id) /\ i + 1 \in Positions /\ IsStart(msgQ[i + 1], d, id)
    BY <1>4
  <2>2. Sessions(d, id) = {} /\ \A j \in Positions : IsOf(msgQ[j], d, id) => i + 1 <= j
    BY <2>1 DEF Ordered, StartsFirst
  <2>3. \A j \in Positions' : IsOf(msgQ'[j], d, id) => i + 1 <= j + 1
    BY <1>1, <2>2
  <2>4. i \in Nat /\ \A j \in Positions' : j \in Nat
    BY <1>1
  <2> QED BY <2>1, <2>2, <2>3, <2>4
<1>6. OneSession'
  BY DEF Ordered, OneSession
<1>7. StartingQueued'
  <2> SUFFICES ASSUME NEW d \in Client, NEW id \in Id, starting[d] = id
               PROVE  /\ Sessions(d, id)' = {}
                      /\ \E i \in Positions' :
                           /\ IsStart(msgQ'[i], d, id)
                           /\ \A j \in Positions' : IsOf(msgQ'[j], d, id) => j = i
    BY DEF StartingQueued, IsStart, IsOf
  <2>1. Sessions(d, id)' = {} /\ ~IsOf(h, d, id)
    BY DEF Ordered, StartingQueued
  <2>2. PICK i \in Positions :
          /\ IsStart(msgQ[i], d, id)
          /\ \A j \in Positions : IsOf(msgQ[j], d, id) => j = i
    BY DEF Ordered, StartingQueued
  <2>3. i # 1
    BY <1>1, <2>1, <2>2 DEF IsStart, IsOf, Request
  <2>4. i \in Nat /\ i - 1 \in Positions' /\ msgQ'[i - 1] = msgQ[i]
    BY <1>1, <2>3
  <2>5. \A j \in Positions' : IsOf(msgQ'[j], d, id) => j \in Nat /\ j + 1 = i
    BY <1>1, <2>2
  <2>6. \A j \in Positions' : IsOf(msgQ'[j], d, id) => j = i - 1
    BY <2>4, <2>5
  <2> QED BY <2>1, <2>2, <2>4, <2>6
<1>8. RemovedLast'
  <2> SUFFICES ASSUME NEW d \in Client, NEW i \in Positions', IsRemoval(msgQ'[i], d)
               PROVE  alive[d] = "dead" /\ \A j \in Positions' : IsBy(msgQ'[j], d) => j < i
    BY DEF RemovedLast, IsRemoval, IsBy
  <2>1. i \in Nat /\ i + 1 \in Positions /\ IsRemoval(msgQ[i + 1], d)
    BY <1>1
  <2>2. alive[d] = "dead" /\ \A j \in Positions : IsBy(msgQ[j], d) => j < i + 1
    BY <2>1 DEF Ordered, RemovedLast
  <2>3. \A j \in Positions' : IsBy(msgQ'[j], d) => j + 1 < i + 1
    BY <1>1, <2>2
  <2>4. \A j \in Positions' : j \in Nat
    BY <1>1
  <2> QED BY <2>1, <2>2, <2>3, <2>4
<1>9. ASSUME NEW d \in Client, NEW id \in Id, IsWanted(d, id), ~IsOf(h, d, id), ~IsRemoval(h, d)
      PROVE  IsWanted(d, id)'
  <2>1. PICK x, y : /\ x = [msg |-> "StopTracking", client |-> d, id |-> id]
                    /\ y = [msg |-> "RemoveClient", client |-> d]
    OBVIOUS
  <2>2. x # h /\ y # h
    BY <1>9, <2>1 DEF IsOf, IsRemoval, Request
  <2>3. (Has(x) => Has(x)') /\ (Has(y) => Has(y)')
    BY <1>1, <2>2
  <2> QED BY <1>9, <2>1, <2>3 DEF IsWanted
<1>10. StartsWanted'
  <2> SUFFICES ASSUME NEW d \in Client, NEW id \in Id, NEW i \in Positions', IsStart(msgQ'[i], d, id)
               PROVE  IsWanted(d, id)'
    BY DEF StartsWanted, IsStart
  <2>1. IsWanted(d, id) /\ ~IsOf(h, d, id) /\ ~IsRemoval(h, d)
    BY <1>4 DEF Ordered, StartsWanted
  <2> QED BY <1>9, <2>1
<1>11. Wanted'
  <2> SUFFICES ASSUME NEW d \in Client, NEW id \in Id, NEW s \in Sessions(d, id)'
               PROVE  IsWanted(d, id)' \/ s \in toStop' \/ id \in refused'
    BY DEF Wanted
  <2>1. CASE IsOf(h, d, id) \/ IsRemoval(h, d)
    BY <2>1
  <2>2. CASE ~IsOf(h, d, id) /\ ~IsRemoval(h, d)
    <3>1. s \in Sessions(d, id) /\ toStop = {}
      BY <2>2 DEF TypeOK, AdapterTypeOK
    <3>2. IsWanted(d, id) \/ id \in refused
      BY <3>1 DEF Ordered, Wanted
    <3> QED BY <3>2, <2>2, <1>9
  <2> QED BY <2>1, <2>2
<1> QED BY <1>2, <1>3, <1>5, <1>6, <1>7, <1>8, <1>10, <1>11 DEF Ordered


(* What a response does to the session it is about: there is one at most,  *)
(* and after a stop none but one the modem refused to stop.                *)
Answered(c, id, h) ==
  /\ msgQ # <<>> /\ h = Head(msgQ) /\ msgQ' = Tail(msgQ) /\ IsOf(h, c, id)
  /\ removing = {} /\ removing' = {} /\ toStop' = {}
  /\ UNCHANGED mSessionIdCounter
  /\ refused \subseteq refused'
  /\ \A d, k : d # c \/ k # id => Sessions(d, k)' = Sessions(d, k)
  /\ \A s, t \in Sessions(c, id)' : s = t
  /\ IsStart(h, c, id) \/ Sessions(c, id) # {}
  /\ Sessions(c, id)' # {} => IsStart(h, c, id) \/ Sessions(c, id) # {}
  /\ Sessions(c, id)' # {} => h.msg # "StopTracking" \/ id \in refused'

LEMMA RespondAnswers ==
  ASSUME TypeOK, Ordered, NEW c \in Client, NEW id \in Id, Respond(c, id)
  PROVE  \E h : Answered(c, id, h)
<1>1. PICK h : h = Head(msgQ)
  OBVIOUS
<1>2. /\ msgQ # <<>> /\ msgQ' = Tail(msgQ) /\ removing = {}
      /\ UNCHANGED <<mSessionIdCounter, removing, toStop>>
      /\ h.client = c /\ h.id = id /\ h.msg \in Request
      /\ refused \subseteq refused'
  BY <1>1 DEF Respond, MsgStartTracking, MsgUpdateTracking, MsgStopTracking, Receive, loopVars,
              Request
<1>3. Taken /\ toStop = {} /\ IsOf(h, c, id)
  BY <1>2, TypesOf, TakenLess DEF TypeOK, AdapterTypeOK, IsOf
<1>4. \A s, t \in Sessions(c, id) : s = t
  BY DEF Ordered, OneSession
<1> DEFINE Result ==
      /\ \A d, k : d # c \/ k # id => Sessions(d, k)' = Sessions(d, k)
      /\ \A s, t \in Sessions(c, id)' : s = t
      /\ IsStart(h, c, id) \/ Sessions(c, id) # {}
      /\ Sessions(c, id)' # {} => h.msg # "StopTracking" \/ id \in refused'
<1>5. ASSUME NEW err \in BOOLEAN, MsgStartTracking(c, id, err) PROVE Result
  <2>1. h.msg = "StartTracking" /\ IsStart(h, c, id)
    BY <1>1, <1>2, <1>5 DEF MsgStartTracking, Receive, IsStart
  <2>2. Sessions(c, id) = {}
    BY <1>1, <1>3, <2>1 DEF Ordered, StartsFirst, Taken
  <2>3. PICK s0 : s0 = [client |-> c, id |-> id, minInterval |-> h.minInterval]
    OBVIOUS
  <2>4. mTrackingSessions' = mTrackingSessions \/ mTrackingSessions' = mTrackingSessions \cup {s0}
    BY <1>1, <1>5, <2>3 DEF MsgStartTracking, sessionVars
  <2>5. s0.client = c /\ s0.id = id
    BY <2>3
  <2> QED BY <2>1, <2>2, <2>4, <2>5 DEF Sessions
<1>6. ASSUME NEW err \in BOOLEAN, MsgUpdateTracking(c, id, err) PROVE Result
  <2>1. h.msg = "UpdateTracking"
    BY <1>1, <1>6 DEF MsgUpdateTracking, Receive
  <2>2. PICK s0 : s0 = [client |-> c, id |-> id, minInterval |-> h.minInterval]
    OBVIOUS
  <2>3. PICK s \in Sessions(c, id) : \/ mTrackingSessions' = mTrackingSessions
                                     \/ mTrackingSessions' = (mTrackingSessions \ {s}) \cup {s0}
    BY <1>1, <1>6, <2>2 DEF MsgUpdateTracking, sessionVars
  <2>4. s0.client = c /\ s0.id = id
    BY <2>2
  <2>5. s.client = c /\ s.id = id
    BY DEF Sessions
  <2>6. Sessions(c, id)' = {s} \/ Sessions(c, id)' = {s0}
    BY <1>4, <2>3, <2>4, <2>5 DEF Sessions
  <2>7. \A d, k : d # c \/ k # id => Sessions(d, k)' = Sessions(d, k)
    BY <2>3, <2>4, <2>5 DEF Sessions
  <2>8. Sessions(c, id) # {}
    OBVIOUS
  <2> QED BY <2>1, <2>6, <2>7, <2>8
<1>7. ASSUME NEW err \in BOOLEAN, MsgStopTracking(c, id, err),
             refused' = IF err THEN refused \cup {id} ELSE refused
      PROVE  Result
  <2>1. PICK s \in Sessions(c, id) :
          mTrackingSessions' = IF err THEN mTrackingSessions ELSE mTrackingSessions \ {s}
    BY <1>7 DEF MsgStopTracking
  <2>2. s.client = c /\ s.id = id
    BY DEF Sessions
  <2>3. Sessions(c, id)' = IF err THEN Sessions(c, id) ELSE {}
    BY <1>4, <2>1, <2>2 DEF Sessions
  <2>4. \A d, k : d # c \/ k # id => Sessions(d, k)' = Sessions(d, k)
    BY <2>1, <2>2 DEF Sessions
  <2>5. Sessions(c, id) # {} /\ (err => id \in refused')
    BY <1>7
  <2> QED BY <1>4, <2>3, <2>4, <2>5
<1>8. Result
  BY <1>5, <1>6, <1>7 DEF Respond
<1> QED BY <1>1, <1>2, <1>3, <1>8 DEF Answered

(* A response keeps the order, and takes the request it answers off the    *)
(* queue of the client whose session it is about.                          *)
LEMMA ResponseInStep ==
  ASSUME TypeOK, InStep, NEW c \in Client, NEW id \in Id, Respond(c, id), reportResponse(c, id)
  PROVE  InStep'
<1>1. PICK h : Answered(c, id, h)
  BY RespondAnswers DEF InStep
<1>2. /\ UNCHANGED <<alive, mTracking, mSession, starting>> /\ starting[c] = 0
      /\ \A d \in Client : mQueue'[d] =
           IF d = c /\ alive[c] = "live" /\ mSession[c] = id /\ mQueue[c] # <<>>
             THEN Tail(mQueue[c]) ELSE mQueue[d]
  BY DEF reportResponse, getRequestBySession, TypeOK
<1>3. Taken
  BY <1>1, TypesOf, TakenLess DEF Answered
<1>4. \A d, k : IsOf(h, d, k) \/ IsBy(h, d) \/ IsRemoval(h, d) => d = c /\ (IsOf(h, d, k) => k = id)
  BY <1>1 DEF Answered, IsOf, IsBy, IsRemoval, Request
<1>5. \A d : ~IsRemoval(h, d)
  BY <1>1 DEF Answered, IsOf, IsRemoval, Request
<1>6. ASSUME Sessions(c, id)' # {} PROVE IsWanted(c, id)' \/ id \in refused'
  <2>1. IsWanted(c, id) \/ id \in refused
    <3>1. CASE IsStart(h, c, id)
      BY <1>3, <1>1, <3>1 DEF InStep, Ordered, StartsWanted, Taken, Answered
    <3>2. CASE Sessions(c, id) # {}
      <4>1. toStop = {}
        BY <1>1 DEF Answered, TypeOK, AdapterTypeOK
      <4> QED BY <3>2, <4>1 DEF InStep, Ordered, Wanted
    <3> QED BY <3>1, <3>2, <1>1 DEF Answered
  <2>2. CASE h.msg = "StopTracking"
    BY <1>1, <1>6, <2>2 DEF Answered
  <2>3. CASE h.msg # "StopTracking"
    <3>1. PICK x, y : /\ x = [msg |-> "StopTracking", client |-> c, id |-> id]
                      /\ y = [msg |-> "RemoveClient", client |-> c]
      OBVIOUS
    <3>2. x # h /\ y # h
      BY <2>3, <3>1, <1>5 DEF IsRemoval
    <3>3. (Has(x) => Has(x)') /\ (Has(y) => Has(y)')
      BY <1>1, <1>3, <3>2 DEF Taken, Answered
    <3>4. refused \subseteq refused'
      BY <1>1 DEF Answered
    <3> QED BY <2>1, <3>1, <3>3, <3>4, <1>2 DEF IsWanted
  <2> QED BY <2>2, <2>3
<1>7. Ordered'
  <2>1. \A d \in Client, k \in Id : ~IsOf(h, d, k) => Sessions(d, k)' = Sessions(d, k)
    BY <1>1 DEF Answered, IsOf
  <2>2. \A d \in Client, k \in Id : IsOf(h, d, k) =>
          starting[d] # k /\ \A s, t \in Sessions(d, k)' : s = t
    BY <1>1, <1>2, <1>4, TypesOf DEF Answered
  <2>3. \A d \in Client, k \in Id : IsOf(h, d, k) \/ IsRemoval(h, d) =>
          \A s \in Sessions(d, k)' : IsWanted(d, k)' \/ s \in toStop' \/ k \in refused'
    <3>1. ASSUME NEW d \in Client, NEW k \in Id, IsOf(h, d, k) \/ IsRemoval(h, d),
                 NEW s \in Sessions(d, k)'
          PROVE  IsWanted(d, k)' \/ k \in refused'
      <4>1. d = c /\ k = id /\ Sessions(c, id)' # {}
        BY <1>4, <1>5, <3>1
      <4> QED BY <1>6, <4>1
    <3> QED BY <3>1
  <2>4. /\ h = Head(msgQ) /\ removing = {} /\ refused \subseteq refused'
        /\ UNCHANGED mSessionIdCounter /\ removing' = {} /\ toStop' = {}
    BY <1>1 DEF Answered
  <2> QED BY <1>2, <1>3, <2>1, <2>2, <2>3, <2>4, TakenOrdered DEF InStep
<1>8. RequestsInStep'
  <2>1. ASSUME NEW d \in Client, alive[d] = "live" /\ starting[d] = 0, mSession[d] # 0
        PROVE  ClientInOrder(d)'
    <3>1. ClientInOrder(d)
      BY DEF InStep, RequestsInStep, ClientInOrder
    <3>2. mQueue \in [Client -> Seq(Request)] /\ msgQ \in Seq(Msg)
      BY TypesOf DEF TypeOK
    <3>3. CASE IsPending(d, h)
      <4>1. d = c /\ mSession[d] = id
        BY <1>1, <3>3 DEF IsPending, Answered, IsOf
      <4>2. Answerable(d)
        <5>1. CASE IsStart(h, c, id)
          <6>1. 1 \in Pending(d) /\ msgQ[1].msg = "StartTracking"
            BY <1>1, <1>3, <3>3, <5>1 DEF Pending, Positions, Taken, Answered, IsStart
          <6> QED BY <6>1 DEF Answerable
        <5>2. CASE Sessions(c, id) # {}
          BY <4>1, <5>2 DEF Answerable
        <5> QED BY <5>1, <5>2, <1>1 DEF Answered
      <4>3. mQueue[d] # <<>> => mQueue'[d] = Tail(mQueue[d])
        BY <1>2, <4>1, <2>1
      <4> QED BY <1>1, <1>2, <2>1, <3>1, <3>2, <3>3, <4>2, <4>3, OrderedTaken DEF Answered
    <3>4. CASE ~IsPending(d, h)
      <4>1. d # c \/ mSession[d] # id
        BY <1>1, <3>4 DEF IsPending, Answered, IsOf
      <4>2. mQueue'[d] = mQueue[d] /\ Sessions(d, mSession[d])' = Sessions(d, mSession[d])
        <5>1. PICK k : k = mSession[d] /\ k = mSession'[d]
          BY <1>2
        <5>2. Sessions(d, k)' = Sessions(d, k)
          BY <1>1, <4>1, <5>1 DEF Answered
        <5>3. mQueue'[d] = mQueue[d]
          BY <1>2, <4>1
        <5> QED BY <5>1, <5>2, <5>3 DEF Sessions
      <4>3. Answerable(d)' => Answerable(d)
        <5>1. ASSUME NEW i \in Pending(d)', msgQ'[i].msg = "StartTracking"
              PROVE  i + 1 \in Pending(d) /\ msgQ[i + 1].msg = "StartTracking"
          <6>1. i \in Positions' /\ IsPending(d, msgQ'[i])
            BY <1>2, <5>1 DEF Pending, Positions, IsPending
          <6> QED BY <1>3, <5>1, <6>1 DEF Taken, Pending, Positions
        <5> QED BY <4>2, <5>1 DEF Answerable
      <4> QED BY <1>1, <1>2, <2>1, <3>1, <3>2, <3>4, <4>2, <4>3, OrderedTaken DEF Answered
    <3> QED BY <3>3, <3>4
  <2> QED BY <1>2, <2>1 DEF RequestsInStep, ClientInOrder
<1> QED BY <1>7, <1>8 DEF InStep


(* RequestsInStep of a client the step does not touch                      *)
LEMMA OrderedKept ==
  ASSUME RequestsInStep, NEW d \in Client,
         msgQ' = msgQ, \A k : Sessions(d, k)' \subseteq Sessions(d, k),
         alive'[d] = alive[d], starting'[d] = starting[d], mSession'[d] = mSession[d],
         mQueue'[d] = mQueue[d]
  PROVE  ClientInOrder(d)'
<1>1. PICK k : k = mSession[d] /\ k = mSession'[d]
  OBVIOUS
<1>2. Sessions(d, mSession[d])' \subseteq Sessions(d, mSession[d])
  <2>1. Sessions(d, k)' \subseteq Sessions(d, k)
    OBVIOUS
  <2> QED BY <1>1, <2>1 DEF Sessions
<1>3. Pending(d)' = Pending(d)
  BY DEF Pending, IsPending
<1>4. Answerable(d)' => Answerable(d)
  BY <1>2, <1>3 DEF Answerable
<1> QED BY <1>3, <1>4 DEF RequestsInStep, ClientInOrder

LEMMA InOrder ==
  ASSUME \A d \in Client : ClientInOrder(d)'
  PROVE  RequestsInStep'
BY DEF RequestsInStep, ClientInOrder

(* A message that gets no response                                         *)
LEMMA SilentInStep ==
  ASSUME TypeOK, InStep, Silent, UNCHANGED <<clientVars, refused>>
  PROVE  InStep'
<1>u. UNCHANGED <<alive, mTracking, mSession, mQueue, starting, refused>>
  BY DEF clientVars
<1>k. ASSUME NEW c \in Client, eraseClient(c) PROVE InStep'
  <2>1. /\ UNCHANGED <<msgQ, mSessionIdCounter, mTrackingSessions, toStop>>
        /\ removing' = {} /\ toStop = {}
    BY <1>k DEF eraseClient, sessionVars
  <2>2. \A d, id : Sessions(d, id)' = Sessions(d, id)
    BY <2>1 DEF Sessions
  <2>3. \A d, id : IsWanted(d, id)' <=> IsWanted(d, id)
    BY <2>1, <1>u DEF IsWanted, Has
  <2>4. Ordered'
    BY <1>u, <2>1, <2>2, <2>3
       DEF InStep, Ordered, ClientsOK, IdsGiven, StartsFirst, OneSession, StartingQueued,
           RemovedLast, StartsWanted, Wanted, Positions
  <2>5. RequestsInStep'
    BY <1>u, <2>1, <2>2, OrderedKept, InOrder DEF InStep
  <2> QED BY <2>4, <2>5 DEF InStep
<1> DEFINE Quiet(h) == \/ \A d : ~IsBy(h, d)
                       \/ /\ h.msg # "StartTracking"
                          /\ Sessions(h.client, h.id) = {}
(* What is left: the head of the queue is no request, or one of a session  *)
(* there is not.                                                           *)
<1>t. ASSUME NEW h, h = Head(msgQ), msgQ # <<>>, msgQ' = Tail(msgQ), removing = {}, Quiet(h),
             UNCHANGED <<mSessionIdCounter, mTrackingSessions>>,
             \A d \in Client : IsRemoval(h, d) => \A id : \A s \in Sessions(d, id) : s \in toStop',
             \A d \in removing' : IsRemoval(h, d) /\ d \in Client,
             \A s \in toStop' : s.client \in removing'
      PROVE  InStep'
  <2>1. Taken
    BY <1>t, TypesOf, TakenLess
  <2>2. \A d, id : Sessions(d, id)' = Sessions(d, id)
    BY <1>t DEF Sessions
  <2>3. \A d, id : IsOf(h, d, id) => h.msg # "StartTracking" /\ Sessions(d, id) = {}
    BY <1>t DEF IsOf, IsBy
  <2>4. Ordered'
    <3>1. ASSUME NEW d \in Client, NEW id \in Id, IsOf(h, d, id)
          PROVE  starting[d] # id /\ \A s, t \in Sessions(d, id)' : s = t
      <4>1. starting[d] # id
        <5> SUFFICES ASSUME starting[d] = id PROVE FALSE
          OBVIOUS
        <5>1. PICK i \in Positions :
                /\ IsStart(msgQ[i], d, id)
                /\ \A j \in Positions : IsOf(msgQ[j], d, id) => j = i
          BY DEF InStep, Ordered, StartingQueued
        <5>2. 1 = i
          BY <3>1, <5>1, <2>1, <1>t DEF Taken
        <5> QED BY <5>1, <5>2, <2>1, <2>3, <3>1, <1>t DEF Taken, IsStart
      <4> QED BY <4>1, <2>2, <2>3, <3>1
    <3>2. ASSUME NEW d \in Client, NEW id \in Id, IsOf(h, d, id) \/ IsRemoval(h, d),
                 NEW s \in Sessions(d, id)'
          PROVE  s \in toStop'
      BY <1>t, <2>2, <2>3, <3>2
    <3>3. \A d \in removing' : alive[d] = "dead"
      BY <1>t, <2>1 DEF InStep, Ordered, RemovedLast, Taken
    <3> QED BY <1>t, <1>u, <2>1, <2>2, <3>1, <3>2, <3>3, TakenOrdered DEF InStep
  <2>5. ASSUME NEW d \in Client, alive[d] = "live" /\ starting[d] = 0, mSession[d] # 0
        PROVE  ClientInOrder(d)'
    <3>1. ClientInOrder(d)
      BY <2>5 DEF InStep, RequestsInStep, ClientInOrder
    <3>2. mQueue \in [Client -> Seq(Request)] /\ msgQ \in Seq(Msg)
      BY TypesOf DEF TypeOK
    <3>3. PICK k : k = mSession[d] /\ k = mSession'[d]
      BY <1>u
    <3>4. Sessions(d, mSession[d])' = Sessions(d, mSession[d])
      BY <2>2, <3>3 DEF Sessions
    <3>5. ASSUME NEW i \in Pending(d)', msgQ'[i].msg = "StartTracking"
          PROVE  /\ i \in Nat \ {0} /\ i + 1 \in Positions /\ IsStart(msgQ[i + 1], d, mSession[d])
                 /\ i + 1 \in Pending(d) /\ msgQ[i + 1].msg = "StartTracking"
      <4>1. i \in Positions' /\ IsPending(d, msgQ'[i])
        BY <1>u, <3>5 DEF Pending, Positions, IsPending
      <4> QED BY <2>1, <3>5, <4>1 DEF Taken, Pending, Positions, IsPending, IsStart
    <3>6. Answerable(d)' => Answerable(d)
      BY <3>4, <3>5 DEF Answerable
    <3>7. ASSUME IsPending(d, h), Answerable(d)' PROVE FALSE
      <4>1. IsOf(h, d, mSession[d]) /\ mSession[d] \in Id
        BY <3>7, <2>5 DEF IsPending, IsOf, TypeOK
      <4>2. Sessions(d, mSession[d])' = {}
        BY <2>3, <3>4, <4>1
      <4>3. PICK i \in Pending(d)' : msgQ'[i].msg = "StartTracking"
        BY <3>7, <4>2 DEF Answerable
      <4>4. i \in Nat \ {0} /\ i + 1 \in Positions /\ IsStart(msgQ[i + 1], d, mSession[d])
        BY <3>5, <4>3
      <4>5. i + 1 <= 1
        <5>1. /\ k \in Id /\ IsOf(h, d, k) /\ IsStart(msgQ[i + 1], d, k) /\ i + 1 \in Positions
              /\ 1 \in Positions /\ h = msgQ[1]
          BY <1>t, <2>1, <3>3, <4>1, <4>4 DEF Taken
        <5> QED BY <5>1 DEF InStep, Ordered, StartsFirst
      <4> QED BY <4>4, <4>5
    <3> QED BY <1>t, <1>u, <2>5, <3>1, <3>2, <3>6, <3>7, OrderedTaken
  <2> QED BY <1>u, <2>4, <2>5 DEF InStep, RequestsInStep, ClientInOrder
<1>1. ASSUME NEW c \in Client, MsgAddClient(c) PROVE InStep'
  <2>1. PICK h : h = Head(msgQ)
    OBVIOUS
  <2>2. Quiet(h) /\ \A d : ~IsRemoval(h, d)
    BY <1>1, <2>1 DEF MsgAddClient, Receive, IsBy, IsRemoval, Request
  <2>3. /\ msgQ # <<>> /\ msgQ' = Tail(msgQ) /\ removing = {} /\ removing' = {} /\ toStop' = toStop
        /\ UNCHANGED <<mSessionIdCounter, mTrackingSessions>>
    BY <1>1 DEF MsgAddClient, Receive, sessionVars, loopVars
  <2>4. toStop = {}
    BY <2>3 DEF TypeOK, AdapterTypeOK
  <2> QED BY <1>t, <2>1, <2>2, <2>3, <2>4
<1>2. ASSUME NEW c \in Client, MsgRemoveClient(c) PROVE InStep'
  <2>1. PICK h : h = Head(msgQ)
    OBVIOUS
  <2>2. Quiet(h) /\ \A d : IsRemoval(h, d) <=> d = c
    BY <1>2, <2>1 DEF MsgRemoveClient, Receive, IsBy, IsRemoval, Request
  <2>3. /\ msgQ # <<>> /\ msgQ' = Tail(msgQ) /\ removing = {} /\ removing' = {c}
        /\ toStop' = {s \in mTrackingSessions : s.client = c}
        /\ UNCHANGED <<mSessionIdCounter, mTrackingSessions>>
    BY <1>2 DEF MsgRemoveClient, Receive, sessionVars
  <2>4. /\ \A id : \A s \in Sessions(c, id) : s \in toStop'
        /\ \A s \in toStop' : s.client \in removing'
    BY <2>3 DEF Sessions
  <2> QED BY <1>t, <2>1, <2>2, <2>3, <2>4
<1>3. ASSUME MsgUnknownSession PROVE InStep'
  <2>1. PICK h : h = Head(msgQ)
    OBVIOUS
  <2>2. Quiet(h) /\ \A d : ~IsRemoval(h, d)
    BY <1>3, <2>1 DEF MsgUnknownSession, Receive, IsBy, IsRemoval, Request
  <2>3. /\ msgQ # <<>> /\ msgQ' = Tail(msgQ) /\ removing = {} /\ removing' = {} /\ toStop' = toStop
        /\ UNCHANGED <<mSessionIdCounter, mTrackingSessions>>
    BY <1>3 DEF MsgUnknownSession, Receive, sessionVars, loopVars
  <2>4. toStop = {}
    BY <2>3 DEF TypeOK, AdapterTypeOK
  <2> QED BY <1>t, <2>1, <2>2, <2>3, <2>4
<1>4. ASSUME MsgRestartSessions PROVE InStep'
  <2>1. PICK h : h = Head(msgQ)
    OBVIOUS
  <2>2. Quiet(h) /\ \A d : ~IsRemoval(h, d)
    BY <1>4, <2>1 DEF MsgRestartSessions, Receive, IsBy, IsRemoval, Request
  <2>3. /\ msgQ # <<>> /\ msgQ' = Tail(msgQ) /\ removing = {} /\ removing' = {} /\ toStop' = toStop
        /\ UNCHANGED <<mSessionIdCounter, mTrackingSessions>>
    BY <1>4 DEF MsgRestartSessions, Receive, loopVars
  <2>4. toStop = {}
    BY <2>3 DEF TypeOK, AdapterTypeOK
  <2> QED BY <1>t, <2>1, <2>2, <2>3, <2>4
<1> QED BY <1>k, <1>1, <1>2, <1>3, <1>4 DEF Silent


(* The loop that stops the sessions of a client that is removed            *)
LEMMA StopLoopInStep ==
  ASSUME TypeOK, InStep, NEW s \in toStop, NEW err \in BOOLEAN, stopClientSession(s, err),
         refused' = IF err THEN refused \cup {s.id} ELSE refused, UNCHANGED clientVars
  PROVE  InStep'
<1>1. /\ UNCHANGED <<alive, mTracking, mSession, mQueue, starting, msgQ, mSessionIdCounter, removing>>
      /\ toStop' = toStop \ {s}
      /\ mTrackingSessions' = IF err THEN mTrackingSessions ELSE mTrackingSessions \ {s}
      /\ refused \subseteq refused' /\ (err => s.id \in refused')
  BY DEF stopClientSession, clientVars
<1>2. \A d, id : Sessions(d, id)' \subseteq Sessions(d, id)
  BY <1>1 DEF Sessions
<1>3. \A d, id : IsWanted(d, id)' <=> IsWanted(d, id)
  BY <1>1 DEF IsWanted, Has
<1>4. ClientsOK' /\ RemovedLast' /\ StartsWanted'
  BY <1>1, <1>3 DEF InStep, Ordered, ClientsOK, RemovedLast, StartsWanted, Positions
<1>5. IdsGiven' /\ StartsFirst' /\ OneSession' /\ StartingQueued'
  <2>1. Positions' = Positions
    BY <1>1 DEF Positions
  <2>2. IdsGiven' /\ OneSession'
    BY <1>1, <1>2, <2>1 DEF InStep, Ordered, IdsGiven, OneSession
  <2>3. StartsFirst'
    BY <1>1, <1>2, <2>1 DEF InStep, Ordered, StartsFirst
  <2>4. StartingQueued'
    BY <1>1, <1>2, <2>1 DEF InStep, Ordered, StartingQueued
  <2> QED BY <2>2, <2>3, <2>4
<1>6. Wanted'
  <2> SUFFICES ASSUME NEW d \in Client, NEW id \in Id, NEW t \in Sessions(d, id)'
               PROVE  IsWanted(d, id)' \/ t \in toStop' \/ id \in refused'
    BY DEF Wanted
  <2>1. IsWanted(d, id) \/ t \in toStop \/ id \in refused
    BY <1>2 DEF InStep, Ordered, Wanted
  <2>2. t \in mTrackingSessions' /\ t.id = id
    BY DEF Sessions
  <2>3. t = s => id \in refused'
    BY <1>1, <2>2
  <2> QED BY <1>1, <1>3, <2>1, <2>3
<1>7. RequestsInStep'
  BY <1>1, <1>2, OrderedKept, InOrder DEF InStep
<1> QED BY <1>4, <1>5, <1>6, <1>7 DEF InStep, Ordered

(* The modem, and a step of nobody, change none of this; a restarted modem *)
(* has a message sent that asks for nothing.                               *)
LEMMA ModemInStep ==
  ASSUME TypeOK, InStep, \/ EngineDown \/ UNCHANGED adapterVars
                         \/ handleEngineUpEvent,
         UNCHANGED <<clientVars, refused>>
  PROVE  InStep'
<1>1. UNCHANGED <<alive, mTracking, mSession, mQueue, starting, refused>>
  BY DEF clientVars
<1>2. CASE EngineDown \/ UNCHANGED adapterVars
  <2>1. UNCHANGED <<msgQ, mSessionIdCounter, mTrackingSessions, removing, toStop>>
    BY <1>2 DEF EngineDown, loopVars, adapterVars, sessionVars
  <2>2. \A d, id : Sessions(d, id)' = Sessions(d, id)
    BY <2>1 DEF Sessions
  <2>3. \A d, id : IsWanted(d, id)' <=> IsWanted(d, id)
    BY <2>1, <1>1 DEF IsWanted, Has
  <2>4. Ordered'
    BY <1>1, <2>1, <2>2, <2>3
       DEF InStep, Ordered, ClientsOK, IdsGiven, StartsFirst, OneSession, StartingQueued,
           RemovedLast, StartsWanted, Wanted, Positions
  <2>5. RequestsInStep'
    BY <1>1, <2>1, <2>2, OrderedKept, InOrder DEF InStep
  <2> QED BY <2>4, <2>5 DEF InStep
<1>3. CASE handleEngineUpEvent
  <2>1. PICK m : m = Restart
    OBVIOUS
  <2>2. m \in Msg /\ m.msg = "RestartSessions" /\ m.msg \notin Request
    BY <2>1 DEF Restart, Msg, Request
  <2>3. Posts(m) /\ mSessionIdCounter' = mSessionIdCounter
    BY <1>1, <1>3, <2>1 DEF handleEngineUpEvent, Posts, Restart, sessionVars, loopVars
  <2>4. Ordered'
    BY <1>1, <2>2, <2>3, SentAbout DEF InStep
  <2>5. ASSUME NEW d \in Client, alive[d] = "live" /\ starting[d] = 0, mSession[d] # 0
        PROVE  ClientInOrder(d)'
    <3>1. ClientInOrder(d) /\ ~IsPending(d, m)
      BY <2>2 DEF InStep, RequestsInStep, ClientInOrder, IsPending
    <3>2. mQueue \in [Client -> Seq(Request)] /\ msgQ \in Seq(Msg)
      BY TypesOf DEF TypeOK
    <3> QED BY <1>1, <2>2, <2>3, <2>5, <3>1, <3>2, OrderedSent DEF Posts
  <2> QED BY <1>1, <2>4, <2>5 DEF InStep, RequestsInStep, ClientInOrder
<1> QED BY <1>2, <1>3

(* The steps of the clients                                                *)
LEMMA AskedInStep ==
  ASSUME TypeOK, TypeOK', InStep, ClientStep
  PROVE  InStep'
<1>t. /\ mQueue \in [Client -> Seq(Request)] /\ msgQ \in Seq(Msg)
      /\ alive \in [Client -> {"new", "live", "dead"}] /\ mTracking \in [Client -> BOOLEAN]
      /\ mSession \in [Client -> Id \cup {0}] /\ starting \in [Client -> Id \cup {0}]
  BY TypesOf DEF TypeOK
<1>o. \A d \in Client : ClientInOrder(d)
  BY DEF InStep, RequestsInStep, ClientInOrder
<1>p. ASSUME NEW m, sendMsg(m) PROVE Posts(m)
  BY <1>p DEF sendMsg, Posts, sessionVars, loopVars
(* A message leaves the order of a client that does not ask for it.        *)
<1>q. ASSUME NEW m \in Msg, sendMsg(m), NEW d \in Client, ~IsPending(d, m),
             alive'[d] = alive[d], starting'[d] = starting[d], mSession'[d] = mSession[d],
             mQueue'[d] = mQueue[d]
      PROVE  ClientInOrder(d)'
  <2>1. CASE alive[d] = "live" /\ starting[d] = 0 /\ mSession[d] # 0
    BY <1>p, <1>q, <1>t, <1>o, <2>1, OrderedSent DEF Posts
  <2>2. CASE ~(alive[d] = "live" /\ starting[d] = 0 /\ mSession[d] # 0)
    BY <1>q, <2>2 DEF ClientInOrder
  <2> QED BY <2>1, <2>2
<1>1. ASSUME NEW c \in Client, locAPISetCallbacks(c) PROVE InStep'
  <2>1. PICK m : m = [msg |-> "AddClient", client |-> c]
    OBVIOUS
  <2>2. m \in Msg /\ m.msg = "AddClient" /\ m.msg \notin Request /\ \A d : ~IsPending(d, m)
    BY <2>1 DEF Msg, Request, IsPending
  <2>3. sendMsg(m) /\ UNCHANGED <<mSessionIdCounter, mTracking, mSession, mQueue, starting>>
    BY <1>1, <2>1 DEF locAPISetCallbacks, createInstance
  <2>4. \A d \in Client : \/ alive'[d] = alive[d]
                          \/ d = c /\ alive[d] = "new" /\ alive'[d] = "live"
    BY <1>1, <1>t DEF locAPISetCallbacks
  <2>5. Ordered'
    BY <1>p, <2>2, <2>3, <2>4, SentAbout DEF InStep
  <2>6. ASSUME NEW d \in Client PROVE ClientInOrder(d)'
    <3>1. CASE alive'[d] = alive[d]
      BY <1>q, <2>2, <2>3, <3>1
    <3>2. CASE alive[d] = "new"
      BY <2>3, <3>2 DEF InStep, Ordered, ClientsOK, ClientInOrder
    <3> QED BY <2>4, <3>1, <3>2
  <2> QED BY <2>5, <2>6, InOrder DEF InStep
<1>2. ASSUME NEW c \in Client, noteSession(c) PROVE InStep'
  <2>1. Ordered' /\ ClientInOrder(c)'
    BY <1>2, SessionNoted DEF InStep
  <2>2. UNCHANGED <<msgQ, mTrackingSessions, alive>>
    BY <1>2 DEF noteSession, adapterVars, sessionVars
  <2>3. ASSUME NEW d \in Client, d # c PROVE ClientInOrder(d)'
    <3>1. \A k : Sessions(d, k)' \subseteq Sessions(d, k)
      BY <2>2 DEF Sessions
    <3>2. starting'[d] = starting[d] /\ mSession'[d] = mSession[d] /\ mQueue'[d] = mQueue[d]
      BY <1>2, <1>t, <2>3 DEF noteSession
    <3> QED BY <2>2, <3>1, <3>2, OrderedKept DEF InStep
  <2> QED BY <2>1, <2>3, InOrder DEF InStep
<1>3. ASSUME NEW c \in Client, destroy(c) PROVE InStep'
  <2>1. PICK m : m = [msg |-> "RemoveClient", client |-> c]
    OBVIOUS
  <2>2. m \in Msg /\ \A d : ~IsPending(d, m)
    BY <2>1 DEF Msg, Request, IsPending
  <2>3. sendMsg(m) /\ starting' = starting
    BY <1>3, <2>1 DEF destroy, removeClient
  <2>4. /\ alive'[c] = "dead"
        /\ \A d \in Client : d # c => /\ alive'[d] = alive[d] /\ mSession'[d] = mSession[d]
                                      /\ mQueue'[d] = mQueue[d]
    BY <1>3, <1>t DEF destroy
  <2>5. ClientInOrder(c)'
    BY <2>4 DEF ClientInOrder
  <2>6. \A d \in Client : d # c => ClientInOrder(d)'
    BY <1>q, <2>2, <2>3, <2>4
  <2>7. Ordered'
    BY <1>3, SentRemoval DEF InStep
  <2> QED BY <2>5, <2>6, <2>7, InOrder DEF InStep
<1>4. ASSUME NEW c \in Client, NEW i \in Interval, locAPIStartTracking(c, i) PROVE InStep'
  <2>1. PICK new, m :
          /\ new = mSessionIdCounter'
          /\ m = [msg |-> "StartTracking", client |-> c, id |-> new, minInterval |-> i]
    OBVIOUS
  <2>2. sendMsg(m) /\ UNCHANGED <<alive, mTracking, mSession, mQueue>>
    BY <1>4, <2>1 DEF locAPIStartTracking, startTrackingOf
  <2>3. new \in Id /\ starting'[c] = new /\ \A d \in Client : d # c => starting'[d] = starting[d]
    BY <1>4, <1>t, <2>1, AdapterAssumption
       DEF locAPIStartTracking, startTrackingOf, TypeOK, AdapterTypeOK, Id
  <2>4. m \in Msg /\ \A d : IsPending(d, m) => d = c
    BY <2>1, <2>3 DEF Msg, IsPending
  <2>5. ClientInOrder(c)'
    BY <2>3, TypesOf DEF ClientInOrder
  <2>6. \A d \in Client : d # c => ClientInOrder(d)'
    BY <1>q, <2>2, <2>3, <2>4
  <2>7. Ordered'
    BY <1>4, SentStart DEF InStep
  <2> QED BY <2>5, <2>6, <2>7, InOrder DEF InStep
(* A request about the session there is                                    *)
<1>r. ASSUME NEW c \in Client, NEW m \in Msg, sendMsg(m), Locks(c), mSession[c] # 0,
             m.msg \in {"UpdateTracking", "StopTracking"}, m.client = c, m.id = mSession[c],
             mQueue' = [mQueue EXCEPT ![c] = Append(@, m.msg)],
             UNCHANGED <<mSessionIdCounter, alive, mSession, starting>>,
             \/ mTracking' = mTracking
             \/ /\ mTracking' = [mTracking EXCEPT ![c] = FALSE]
                /\ m = [msg |-> "StopTracking", client |-> c, id |-> mSession[c]]
      PROVE  InStep'
  <2>1. \A d \in Client : \/ mTracking'[d] = mTracking[d]
                          \/ /\ ~mTracking'[d]
                             /\ m = [msg |-> "StopTracking", client |-> d, id |-> mSession[d]]
    BY <1>r, <1>t
  <2>2. Ordered'
    BY <1>p, <1>r, <2>1, SentAbout DEF InStep, Locks
  <2>3. mQueue'[c] = Append(mQueue[c], m.msg) /\ \A d \in Client : d # c => mQueue'[d] = mQueue[d]
    BY <1>r, <1>t
  <2>4. IsPending(c, m) /\ m.msg # "StartTracking" /\ \A d : d # c => ~IsPending(d, m)
    BY <1>r DEF IsPending, Request
  <2>5. ClientInOrder(c)'
    BY <1>p, <1>r, <1>t, <1>o, <2>3, <2>4, OrderedSent DEF Posts, Locks
  <2>6. \A d \in Client : d # c => ClientInOrder(d)'
    BY <1>q, <1>r, <2>3, <2>4
  <2> QED BY <2>2, <2>5, <2>6, InOrder DEF InStep
<1>5. ASSUME NEW c \in Client, locAPIStopTracking(c) PROVE InStep'
  <2>1. PICK m : m = [msg |-> "StopTracking", client |-> c, id |-> mSession[c]]
    OBVIOUS
  <2>2. mSession[c] # 0 /\ mSession[c] \in Id
    BY <1>5, <1>t DEF locAPIStopTracking
  <2>3. m \in Msg /\ m.msg = "StopTracking" /\ m.client = c /\ m.id = mSession[c]
    BY <2>1, <2>2 DEF Msg
  <2> QED BY <1>5, <1>r, <2>1, <2>2, <2>3 DEF locAPIStopTracking, stopTrackingOf
<1>6. ASSUME NEW c \in Client, NEW i \in Interval, locAPIUpdateTrackingOptions(c, i) PROVE InStep'
  <2>1. PICK m : m = [msg |-> "UpdateTracking", client |-> c, id |-> mSession[c],
                      minInterval |-> i]
    OBVIOUS
  <2>2. mSession[c] # 0 /\ mSession[c] \in Id
    BY <1>6, <1>t DEF locAPIUpdateTrackingOptions
  <2>3. m \in Msg /\ m.msg = "UpdateTracking" /\ m.client = c /\ m.id = mSession[c]
    BY <2>1, <2>2 DEF Msg
  <2> QED BY <1>6, <1>r, <2>1, <2>2, <2>3 DEF locAPIUpdateTrackingOptions, updateTrackingOptions
<1> QED BY <1>1, <1>2, <1>3, <1>4, <1>5, <1>6 DEF ClientStep

(* Whatever clients ask for, and when, and whatever the modem refuses: a   *)
(* response finds the request it answers at the head of the client's queue *)
(* (locAPIStartTracking, noteSession, getRequestBySession), and a session  *)
(* that runs is one somebody will stop (saveTrackingSession,               *)
(* stopClientSessions).                                                    *)
THEOREM KeptInStep == Spec => []SessionsInStep
<1>1. Init => InStep
  <2> SUFFICES ASSUME Init PROVE InStep
    OBVIOUS
  <2>1. Positions = {} /\ \A c, id : Sessions(c, id) = {}
    BY DEF Init, AdapterInit, Positions, Sessions
  <2>2. /\ \A c \in Client : /\ alive[c] = "new" /\ mSession[c] = 0 /\ starting[c] = 0
                             /\ 0 <= mSessionIdCounter
        /\ removing = {} /\ toStop = {} /\ \A id \in Id : id # 0
    BY DEF Init, AdapterInit, Id
  <2> QED BY <2>1, <2>2
          DEF InStep, Ordered, ClientsOK, IdsGiven, StartsFirst, OneSession, StartingQueued,
              RemovedLast, StartsWanted, Wanted, RequestsInStep
<1>2. TypeOK /\ TypeOK' /\ InStep /\ [Next]_vars => InStep'
  <2> SUFFICES ASSUME TypeOK, TypeOK', InStep, [Next]_vars PROVE InStep'
    OBVIOUS
  <2>1. ASSUME TaskStep PROVE InStep'
    BY <2>1, ResponseInStep, StopLoopInStep, SilentInStep DEF TaskStep
  <2>2. ASSUME ModemStep PROVE InStep'
    BY <2>2, ModemInStep DEF ModemStep
  <2>3. ASSUME UNCHANGED vars PROVE InStep'
    BY <2>3, ModemInStep DEF vars
  <2> QED BY <2>1, <2>2, <2>3, AskedInStep DEF Next
<1>3. TypeOK /\ InStep => SessionsInStep
  BY WantedSessions DEF InStep, Ordered, SessionsInStep
<1> QED BY <1>1, <1>2, <1>3, TypeCorrect, PTL DEF Spec
=============================================================================
