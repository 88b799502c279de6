------------------------ MODULE ModemRequestsProofs -------------------------
(***************************************************************************)
(* Proofs about the requests of modem, framework and user that share the   *)
(* adapter's message task, for any number of messages, notifications and   *)
(* settings.                                                               *)
(***************************************************************************)
EXTENDS ModemRequests, QueueTheorems, FiniteSetTheorems

-----------------------------------------------------------------------------
(* Who sends and receives what: the steps of one kind of request leave the *)
(* messages of the others in the queue, and in their order.                *)
NiKinds == {"NiNotify", "NiClient", "NiResponse", "InformNi"}
OdcpiKinds == {"InitOdcpi", "OdcpiRequest", "OdcpiTimerExpire"}
ControlKinds ==
  {"SetConfig", "RestartSessions", "UpdateConfig", "RequestCapabilities", "Enable", "Disable",
   "DeleteAidingData"}

QueueStep(kinds) ==
  \/ UNCHANGED msgQ
  \/ msgQ # <<>> /\ Head(msgQ).msg \in kinds /\ msgQ' = Tail(msgQ)
  \/ \E r : /\ IsQueue(r)
            /\ \A i \in 1..Len(r) : r[i].msg \in kinds
            /\ msgQ' = msgQ \o r

NiStep == NiInput \/ NiHandler \/ \E r \in ReqID : NiThreadStep(r)
OdcpiStep == OdcpiInput \/ OdcpiHandler \/ odcpiTimerExpireEvent
ControlStep == ControlInput \/ ControlHandler

LEMMA Steps ==
  ASSUME [Next]_vars
  PROVE  \/ NiStep /\ UNCHANGED <<odcpiVars, controlVars>>
         \/ OdcpiStep /\ UNCHANGED <<niVars, controlVars>>
         \/ ControlStep /\ UNCHANGED <<niVars, odcpiVars>>
         \/ restartSessions
         \/ UNCHANGED <<taskVars, niVars, odcpiVars, controlVars>>
BY DEF Next, vars, Handler, NiThread_, NiStep, OdcpiStep, ControlStep

LEMMA Appends ==
  ASSUME IsQueue(msgQ), NEW m, NEW kinds, m.msg \in kinds, msgQ' = Append(msgQ, m)
  PROVE  QueueStep(kinds)
<1> DEFINE r == <<m>>
<1>1. IsQueue(r) /\ Len(r) = 1 /\ r[1] = m
  BY ShortQueues
<1>2. msgQ' = msgQ \o r
  BY AppendConcat
<1>3. \A i \in 1..Len(r) : r[i].msg \in kinds
  BY <1>1
<1> HIDE DEF r
<1> QED BY <1>1, <1>2, <1>3 DEF QueueStep

LEMMA SaysOne ==
  ASSUME IsQueue(msgQ), NEW m, NEW kinds, m.msg \in kinds, Says(<<m>>)
  PROVE  QueueStep(kinds)
BY AppendConcat, Appends DEF Says

LEMMA NiQueue ==
  ASSUME IsQueue(msgQ), NiStep
  PROVE  QueueStep(NiKinds)
<1>1. CASE \E k \in Kind : requestNiNotifyEvent(k)
  <2>1. PICK k \in Kind : requestNiNotifyEvent(k)
    BY <1>1
  <2> QED BY <2>1, Appends DEF requestNiNotifyEvent, Input, NiKinds
<1>2. CASE \E has \in BOOLEAN : NiClientInput(has)
  <2>1. PICK has \in BOOLEAN : NiClientInput(has)
    BY <1>2
  <2> QED BY <2>1, Appends DEF NiClientInput, Input, NiKinds
<1>3. CASE \E r \in ReqID, resp \in UserResponse : gnssNiResponseCommand(r, resp)
  <2>1. PICK r \in ReqID, resp \in UserResponse : gnssNiResponseCommand(r, resp)
    BY <1>3
  <2> QED BY <2>1, Appends DEF gnssNiResponseCommand, Input, NiKinds
<1>4. CASE MsgNiClient \/ requestNiNotify \/ MsgGnssNiResponse \/ informNiResponse
  BY <1>4 DEF MsgNiClient, requestNiNotify, MsgGnssNiResponse, informNiResponse, Receive, Takes,
              QueueStep, NiKinds
<1>5. CASE setResponse
  BY <1>5 DEF setResponse, QueueStep
<1>6. ASSUME NEW r \in ReqID, NiThreadStep(r) PROVE QueueStep(NiKinds)
  <2>1. CASE niThreadSend(r)
    BY <2>1, Appends DEF niThreadSend, Post, NiKinds
  <2>2. CASE ~niThreadSend(r)
    BY <1>6, <2>2 DEF NiThreadStep, niThreadStart, niThreadSignalled, niThreadTimedOut,
                      niThreadClear, niUnchanged, taskVars, QueueStep
  <2> QED BY <2>1, <2>2
<1> QED BY <1>1, <1>2, <1>3, <1>4, <1>5, <1>6 DEF NiStep, NiInput, NiHandler

LEMMA OdcpiQueue ==
  ASSUME IsQueue(msgQ), OdcpiStep
  PROVE  QueueStep(OdcpiKinds)
<1>1. CASE initOdcpiCommand
  BY <1>1, Appends DEF initOdcpiCommand, Input, OdcpiKinds
<1>2. CASE \E start, emergency \in BOOLEAN : reportOdcpiRequestEvent(start, emergency)
  <2>1. PICK start, emergency \in BOOLEAN : reportOdcpiRequestEvent(start, emergency)
    BY <1>2
  <2> QED BY <2>1, Appends DEF reportOdcpiRequestEvent, Input, OdcpiKinds
<1>3. CASE odcpiTimerExpireEvent
  BY <1>3, Appends DEF odcpiTimerExpireEvent, Post, OdcpiKinds
<1>4. CASE OdcpiHandler
  BY <1>4 DEF OdcpiHandler, initOdcpi, reportOdcpiRequest, odcpiTimerExpire, Receive, Takes,
              QueueStep, OdcpiKinds
<1> QED BY <1>1, <1>2, <1>3, <1>4 DEF OdcpiStep, OdcpiInput

(* The calls of the service put several messages in the queue at once.     *)
SetCallbackMsg ==
  {[msg |-> "RequestCapabilities"], [msg |-> "UpdateConfig", config |-> mPendingConfig],
   [msg |-> "Enable", id |-> mSessionId + 1]}

LEMMA SetCallbackMsgs ==
  ASSUME setCallback
  PROVE  \E r : /\ IsQueue(r)
                /\ \A i \in 1..Len(r) : r[i] \in SetCallbackMsg
                /\ msgQ' = msgQ \o r
                /\ IF mApi \/ UpdateMsgs(mPendingConfig) = <<>>
                     THEN \A i \in 1..Len(r) : r[i].msg # "UpdateConfig"
                     ELSE \E i \in 1..Len(r) : r[i] = [msg |-> "UpdateConfig",
                                                       config |-> mPendingConfig]
<1> DEFINE request == [msg |-> "RequestCapabilities"]
           change == [msg |-> "UpdateConfig", config |-> mPendingConfig]
           power == [msg |-> "Enable", id |-> mSessionId + 1]
           register == IF ~mApi THEN <<request>> ELSE <<>>
           update == IF ~mApi THEN UpdateMsgs(mPendingConfig) ELSE <<>>
           r == register \o update \o EnableMsgs
<1>1. msgQ' = msgQ \o r
  BY DEF setCallback, Says
<1>2. IsQueue(register) /\ \A i \in 1..Len(register) : register[i] = request
  BY ShortQueues
<1>3. /\ IsQueue(update) /\ \A i \in 1..Len(update) : update[i] = change
      /\ IF mApi \/ UpdateMsgs(mPendingConfig) = <<>> THEN Len(update) = 0 ELSE Len(update) = 1
  BY ShortQueues DEF UpdateMsgs
<1>4. IsQueue(EnableMsgs) /\ \A i \in 1..Len(EnableMsgs) : EnableMsgs[i] = power
  BY ShortQueues DEF EnableMsgs
<1>a. request.msg # "UpdateConfig" /\ power.msg # "UpdateConfig"
  OBVIOUS
<1> HIDE DEF request, change, power, register, update
<1>5. /\ IsQueue(register \o update)
      /\ \A i \in 1..Len(register \o update) :
           \/ (register \o update)[i] = request
           \/ Len(update) # 0 /\ (register \o update)[i] = change
  <2>1. IsQueue(register \o update)
    BY <1>2, <1>3, QueueConcat
  <2>2. ASSUME NEW i \in 1..Len(register \o update)
        PROVE  \/ (register \o update)[i] = request
               \/ Len(update) # 0 /\ (register \o update)[i] = change
    <3>1. CASE i \in 1..Len(register) /\ (register \o update)[i] = register[i]
      BY <1>2, <3>1
    <3>2. CASE i - Len(register) \in 1..Len(update)
               /\ (register \o update)[i] = update[i - Len(register)]
      BY <1>3, <3>2
    <3> QED BY <3>1, <3>2, <1>2, <1>3, EachOfConcat
  <2> QED BY <2>1, <2>2
<1>6. Len(update) = 1 => \E i \in 1..Len(register \o update) : (register \o update)[i] = change
  <2> SUFFICES ASSUME Len(update) = 1
               PROVE  \E i \in 1..Len(register \o update) : (register \o update)[i] = change
    OBVIOUS
  <2>1. IsQueue(register) /\ IsQueue(update) /\ \E i \in 1..Len(update) : update[i] = change
    BY <1>2, <1>3
  <2> QED BY <2>1, IsInConcat
<1>7. /\ IsQueue(r)
      /\ \A i \in 1..Len(r) : r[i] = request \/ r[i] = power \/ (Len(update) # 0 /\ r[i] = change)
  <2>1. IsQueue(r)
    BY <1>4, <1>5, QueueConcat
  <2>2. ASSUME NEW i \in 1..Len(r)
        PROVE  r[i] = request \/ r[i] = power \/ (Len(update) # 0 /\ r[i] = change)
    <3> DEFINE l == register \o update
    <3>1. CASE i \in 1..Len(l) /\ r[i] = l[i]
      BY <1>5, <3>1
    <3>2. CASE i - Len(l) \in 1..Len(EnableMsgs) /\ r[i] = EnableMsgs[i - Len(l)]
      BY <1>4, <3>2
    <3>3. IsQueue(l) /\ IsQueue(EnableMsgs) /\ i \in 1..Len(l \o EnableMsgs)
      BY <1>4, <1>5
    <3> HIDE DEF l
    <3> QED BY <3>1, <3>2, <3>3, EachOfConcat DEF l
  <2> QED BY <2>1, <2>2
<1>8. Len(update) = 1 => \E i \in 1..Len(r) : r[i] = change
  <2>1. IsQueue(register \o update) /\ IsQueue(EnableMsgs)
    BY <1>4, <1>5
  <2> QED BY <2>1, <1>6, IsInConcat
<1> HIDE DEF r
<1>9. \A i \in 1..Len(r) : r[i] \in SetCallbackMsg
  BY <1>7 DEF SetCallbackMsg, request, change, power
<1>10. IF mApi \/ UpdateMsgs(mPendingConfig) = <<>>
         THEN \A i \in 1..Len(r) : r[i].msg # "UpdateConfig"
         ELSE \E i \in 1..Len(r) : r[i] = change
  BY <1>3, <1>7, <1>8, <1>a
<1> QED BY <1>1, <1>7, <1>9, <1>10 DEF change

LEMMA SetCallbackQueue ==
  ASSUME setCallback
  PROVE  QueueStep({"RequestCapabilities", "UpdateConfig", "Enable"})
<1>1. PICK r : /\ IsQueue(r)
               /\ \A i \in 1..Len(r) : r[i] \in SetCallbackMsg
               /\ msgQ' = msgQ \o r
  BY SetCallbackMsgs
<1>2. \A m \in SetCallbackMsg : m.msg \in {"RequestCapabilities", "UpdateConfig", "Enable"}
  BY DEF SetCallbackMsg
<1>3. \A i \in 1..Len(r) : r[i].msg \in {"RequestCapabilities", "UpdateConfig", "Enable"}
  BY <1>1, <1>2
<1> QED BY <1>1, <1>3 DEF QueueStep

LEMMA InputQueue ==
  ASSUME IsQueue(msgQ)
  PROVE  /\ cleanup => QueueStep({"Disable"})
         /\ \A s \in Settings : updateConfiguration(s[1], s[2]) => QueueStep({"UpdateConfig"})
         /\ gnssDeleteAidingData => QueueStep({"DeleteAidingData"})
         /\ handleEngineUpEvent => QueueStep({"SetConfig", "RestartSessions"})
<1>1. ASSUME cleanup PROVE QueueStep({"Disable"})
  <2>1. CASE UNCHANGED msgQ
    BY <2>1 DEF QueueStep
  <2>2. CASE Says(<<[msg |-> "Disable", id |-> mRequestQueues["CONTROL"].session]>>)
    BY <2>2, SaysOne
  <2> QED BY <1>1, <2>1, <2>2 DEF cleanup
<1>2. ASSUME NEW s \in Settings, updateConfiguration(s[1], s[2]) PROVE QueueStep({"UpdateConfig"})
  <2> DEFINE config == Only(s[1], s[2])
  <2>1. CASE UNCHANGED msgQ
    BY <2>1 DEF QueueStep
  <2>2. CASE Says(UpdateMsgs(config))
    <3>1. CASE UpdateMsgs(config) = <<>>
      BY <2>2, <3>1, ShortQueues DEF Says, QueueStep
    <3>2. CASE UpdateMsgs(config) = <<[msg |-> "UpdateConfig", config |-> config]>>
      BY <2>2, <3>2, SaysOne
    <3> QED BY <3>1, <3>2 DEF UpdateMsgs
  <2> QED BY <1>2, <2>1, <2>2 DEF updateConfiguration
<1>3. ASSUME gnssDeleteAidingData PROVE QueueStep({"DeleteAidingData"})
  <2>1. Says(<<[msg |-> "DeleteAidingData", id |-> mSessionId']>>)
    BY <1>3 DEF gnssDeleteAidingData
  <2> QED BY <2>1, SaysOne
<1>4. ASSUME handleEngineUpEvent PROVE QueueStep({"SetConfig", "RestartSessions"})
  <2> DEFINE r == <<[msg |-> "SetConfig"], [msg |-> "RestartSessions"]>>
  <2>1. msgQ' = msgQ \o r
    BY <1>4 DEF handleEngineUpEvent, Says
  <2>2. IsQueue(r) /\ \A i \in 1..Len(r) : r[i].msg \in {"SetConfig", "RestartSessions"}
    BY ShortQueues
  <2> QED BY <2>1, <2>2 DEF QueueStep
<1> QED BY <1>1, <1>2, <1>3, <1>4

LEMMA ReceiveQueue == \A kind : Receive(kind) => QueueStep({kind})
BY DEF Receive, Takes, QueueStep

LEMMA MoreKinds ==
  ASSUME NEW few, NEW kinds, QueueStep(few), few \subseteq kinds
  PROVE  QueueStep(kinds)
BY DEF QueueStep

LEMMA ControlQueue ==
  ASSUME IsQueue(msgQ), ControlStep
  PROVE  QueueStep(ControlKinds)
<1>1. CASE ControlInput
  BY <1>1, SetCallbackQueue, InputQueue, MoreKinds DEF ControlInput, ControlKinds
<1>2. CASE ControlHandler
  <2>1. PICK kind \in ControlKinds : Receive(kind)
    BY <1>2 DEF ControlHandler, setConfig, gnssUpdateConfig, requestCapabilities, enable, disable,
                deleteAidingData, ControlKinds
  <2>2. QueueStep({kind})
    BY <2>1, ReceiveQueue
  <2> QED BY <2>2, MoreKinds
<1> QED BY <1>1, <1>2 DEF ControlStep

(* The queue stays a queue, whoever uses it.                               *)
QueueOK == IsQueue(msgQ)

LEMMA QueueTyped == Spec => []QueueOK
<1>1. Init => QueueOK
  BY ShortQueues DEF Init, QueueOK
<1>2. QueueOK /\ [Next]_vars => QueueOK'
  <2> SUFFICES ASSUME QueueOK, [Next]_vars PROVE QueueOK'
    OBVIOUS
  <2> USE DEF QueueOK
  <2>1. ASSUME NEW kinds, QueueStep(kinds) PROVE QueueOK'
    BY <2>1, QueueTail, QueueConcat DEF QueueStep
  <2>2. CASE restartSessions
    BY <2>2, QueueTail DEF restartSessions, Receive, Takes
  <2> QED BY <2>1, <2>2, Steps, NiQueue, OdcpiQueue, ControlQueue DEF taskVars
<1> QED BY <1>1, <1>2, PTL DEF Spec

(* What is in the queue after a step was there before or is of its kinds,  *)
(* and what is of other kinds stays.                                       *)
LEMMA NewMsgs ==
  ASSUME QueueOK, NEW kinds, QueueStep(kinds), NEW i \in 1..Len(msgQ')
  PROVE  (\E j \in 1..Len(msgQ) : msgQ'[i] = msgQ[j]) \/ msgQ'[i].msg \in kinds
<1>1. CASE msgQ # <<>> /\ msgQ' = Tail(msgQ)
  BY <1>1, EachOfTail DEF QueueOK
<1>2. ASSUME NEW r, IsQueue(r), \A j \in 1..Len(r) : r[j].msg \in kinds, msgQ' = msgQ \o r
      PROVE  (\E j \in 1..Len(msgQ) : msgQ'[i] = msgQ[j]) \/ msgQ'[i].msg \in kinds
  BY <1>2, EachOfConcat DEF QueueOK
<1> QED BY <1>1, <1>2 DEF QueueStep

LEMMA OldMsgs ==
  ASSUME QueueOK, NEW kinds, QueueStep(kinds), NEW j \in 1..Len(msgQ), msgQ[j].msg \notin kinds
  PROVE  \E i \in 1..Len(msgQ') : msgQ'[i] = msgQ[j]
<1>1. CASE msgQ # <<>> /\ Head(msgQ).msg \in kinds /\ msgQ' = Tail(msgQ)
  <2>1. /\ Len(msgQ) \in Nat /\ Len(Tail(msgQ)) = Len(msgQ) - 1
        /\ j # 1
    BY <1>1, QueueTail DEF QueueOK
  <2>2. j - 1 \in 1..Len(Tail(msgQ)) /\ (j - 1) + 1 = j
    BY <2>1
  <2>3. Tail(msgQ)[j - 1] = msgQ[j]
    BY <1>1, <2>2, EachOfTail DEF QueueOK
  <2> QED BY <1>1, <2>2, <2>3
<1>2. ASSUME NEW r, IsQueue(r), msgQ' = msgQ \o r
      PROVE  \E i \in 1..Len(msgQ') : msgQ'[i] = msgQ[j]
  BY <1>2, IsInConcat DEF QueueOK
<1> QED BY <1>1, <1>2 DEF QueueStep

-----------------------------------------------------------------------------
(* On demand positions: an active request always has what makes the        *)
(* framework be asked again, the timer or its expiry in the queue, in      *)
(* whatever order requests, expiries and restarts of the modem are         *)
(* handled.                                                                *)
Expiry == [msg |-> "OdcpiTimerExpire"]

LEMMA ExpiryLeft ==
  ASSUME QueueOK, IsIn(Expiry, msgQ), msgQ # <<>>, Head(msgQ).msg # "OdcpiTimerExpire",
         msgQ' = Tail(msgQ)
  PROVE  IsIn(Expiry, msgQ')
<1>1. Expiry.msg = "OdcpiTimerExpire"
  BY DEF Expiry
<1>2. Expiry # Head(msgQ)
  BY <1>1
<1> QED BY <1>2, StillIn DEF QueueOK

LEMMA ExpiryStays ==
  ASSUME QueueOK, NEW kinds, QueueStep(kinds), "OdcpiTimerExpire" \notin kinds, IsIn(Expiry, msgQ)
  PROVE  IsIn(Expiry, msgQ')
BY StillIn, ExpiryLeft DEF QueueOK, QueueStep

THEOREM RequestServed == Spec => []OdcpiServed
<1>1. Init => OdcpiServed
  BY DEF Init, OdcpiInit, OdcpiServed
<1>2. QueueOK /\ OdcpiServed /\ [Next]_vars => OdcpiServed'
  <2> SUFFICES ASSUME QueueOK, OdcpiServed, [Next]_vars PROVE OdcpiServed'
    OBVIOUS
  <2> USE DEF OdcpiServed
  <2>1. CASE OdcpiInput
    <3>1. UNCHANGED odcpiVars /\ \E m : msgQ' = Append(msgQ, m)
      BY <2>1 DEF OdcpiInput, initOdcpiCommand, reportOdcpiRequestEvent, Input
    <3> QED BY <3>1, StillIn DEF QueueOK, odcpiVars
  <2>2. CASE odcpiTimerExpireEvent
    <3>1. IsIn(Expiry, msgQ')
      BY <2>2, QueueAppend DEF odcpiTimerExpireEvent, Post, Expiry, QueueOK, IsIn
    <3> QED BY <2>2, <3>1 DEF odcpiTimerExpireEvent, Expiry
  <2>3. CASE odcpiTimerExpire
    BY <2>3 DEF odcpiTimerExpire, timerStart, timerStop
  <2>4. CASE initOdcpi \/ reportOdcpiRequest
    <3>1. IsIn(Expiry, msgQ) => IsIn(Expiry, msgQ')
      BY <2>4, ExpiryLeft DEF initOdcpi, reportOdcpiRequest, Receive, Takes
    <3>2. CASE initOdcpi
      BY <3>1, <3>2 DEF initOdcpi, Expiry
    <3>3. CASE reportOdcpiRequest
      BY <3>1, <3>3 DEF reportOdcpiRequest, OdcpiStart, OdcpiStop, StartNow, timerStart,
                        timerUnchanged, Expiry
    <3> QED BY <2>4, <3>2, <3>3
  <2>5. CASE restartSessions
    <3>1. IsIn(Expiry, msgQ) => IsIn(Expiry, msgQ')
      BY <2>5, ExpiryLeft DEF restartSessions, Receive, Takes
    <3> QED BY <2>5, <3>1 DEF restartSessions, Expiry
  <2>6. CASE UNCHANGED odcpiVars /\ (NiStep \/ ControlStep \/ UNCHANGED taskVars)
    <3>1. IsIn(Expiry, msgQ) => IsIn(Expiry, msgQ')
      BY <2>6, NiQueue, ControlQueue, ExpiryStays DEF NiKinds, ControlKinds, taskVars, QueueOK
    <3> QED BY <2>6, <3>1 DEF odcpiVars, Expiry
  <2> QED BY <2>1, <2>2, <2>3, <2>4, <2>5, <2>6, Steps DEF OdcpiStep, OdcpiHandler
<1> QED BY <1>1, <1>2, QueueTyped, PTL DEF Spec

-----------------------------------------------------------------------------
(* Power and configuration *)

(* A configuration has values of its items' enumerations.                  *)
Written(config) ==
  /\ DOMAIN config \subseteq Item
  /\ \A i \in DOMAIN config \cap DOMAIN ItemValues : config[i] \in ItemValues[i]

(* What messages and configurations consist of *)
ControlMsgOK(m) ==
  /\ m.msg = "UpdateConfig" => Written(m.config)
  /\ m.msg = "Enable" => m.id \in Nat \ {0}

ControlShape ==
  /\ mSessionId \in Nat /\ powerVoteId \in Nat
  /\ \A j \in 1..Len(msgQ) : ControlMsgOK(msgQ[j])
  /\ Written(mPendingConfig) /\ Written(wanted)
  /\ (Item \ {"SUPL_HOST"}) \cup {"INJECT"} \subseteq DOMAIN mGpsConf

(* A message that gives item i a value; the value the last one gives it    *)
Updates(m, i) == m.msg = "UpdateConfig" /\ i \in DOMAIN m.config
NoUpdate(q, i) == \A j \in 1..Len(q) : ~Updates(q[j], i)
LastUpdate(q, i, v) ==
  \E j \in 1..Len(q) :
    /\ Updates(q[j], i)
    /\ \A k \in j..Len(q) : Updates(q[k], i) => q[k].config[i] = v

(* What the framework wants of an item is on its way to mGps_conf: in the  *)
(* pending configuration, or in the last message about it, or there; and   *)
(* the call that would be taken for a repetition is one.                   *)
WantedOnItsWay ==
  IF mApi
    THEN /\ \A i \in DOMAIN wanted \ {"SUPL_HOST"} :
              \/ LastUpdate(msgQ, i, wanted[i])
              \/ /\ NoUpdate(msgQ, i)
                 /\ mGpsConf["INJECT"] \/ i \notin Injected => mGpsConf[i] = convert(i, wanted[i])
         /\ \A i \in DOMAIN mConfig \ {"SUPL_HOST"} : i \in DOMAIN wanted /\ wanted[i] = mConfig[i]
    ELSE /\ \A j \in 1..Len(msgQ) : msgQ[j].msg # "UpdateConfig"
         /\ DOMAIN wanted \ {"SUPL_HOST"} = DOMAIN mPendingConfig \ {"SUPL_HOST"}
         /\ \A i \in DOMAIN wanted \ {"SUPL_HOST"} : mPendingConfig[i] = wanted[i]
         /\ mConfig = <<>>

ControlInv == QueueOK /\ ControlShape /\ LockFollowsVote /\ ConfigSurvivesRestart /\ WantedOnItsWay

LEMMA OtherMsgsOK ==
  ASSUME QueueOK, \A j \in 1..Len(msgQ) : ControlMsgOK(msgQ[j]),
         NEW kinds, QueueStep(kinds), kinds \cap {"UpdateConfig", "Enable"} = {}
  PROVE  \A i \in 1..Len(msgQ') : ControlMsgOK(msgQ'[i])
<1> SUFFICES ASSUME NEW i \in 1..Len(msgQ') PROVE ControlMsgOK(msgQ'[i])
  OBVIOUS
<1>1. CASE \E j \in 1..Len(msgQ) : msgQ'[i] = msgQ[j]
  BY <1>1
<1>2. CASE msgQ'[i].msg \in kinds
  BY <1>2 DEF ControlMsgOK
<1> QED BY <1>1, <1>2, NewMsgs

LEMMA ReceivedMsgsOK ==
  ASSUME QueueOK, \A j \in 1..Len(msgQ) : ControlMsgOK(msgQ[j]), NEW kind, Receive(kind)
  PROVE  /\ \A i \in 1..Len(msgQ') : ControlMsgOK(msgQ'[i])
         /\ ControlMsgOK(Head(msgQ)) /\ Head(msgQ).msg = kind
BY QueueTail, EachOfTail DEF QueueOK, Receive, Takes

LEMMA WrittenOver ==
  ASSUME NEW c, Written(c), NEW d, Written(d)
  PROVE  Written(Over(c, d))
BY DEF Written, Over

LEMMA WrittenPending ==
  ASSUME NEW config, Written(config), Written(mPendingConfig)
  PROVE  Written(updatePending(config))
<1> DEFINE c == [i \in DOMAIN config |-> IF i = "SUPL_HOST" THEN NoHost ELSE config[i]]
<1>1. Written(c)
  BY DEF Written, ItemValues
<1> HIDE DEF c
<1> QED BY <1>1, WrittenOver DEF updatePending, c

LEMMA SettingWritten ==
  ASSUME NEW s \in Settings
  PROVE  Written(Only(s[1], s[2]))
BY SettingsAssumption DEF Written, Only

LEMMA ShapeStep == QueueOK /\ ControlShape /\ [Next]_vars => ControlShape'
<1> SUFFICES ASSUME QueueOK, ControlShape, [Next]_vars PROVE ControlShape'
  OBVIOUS
<1> USE DEF ControlShape
<1>1. CASE UNCHANGED controlVars /\ (NiStep \/ OdcpiStep \/ restartSessions \/ UNCHANGED taskVars)
  <2>1. \A i \in 1..Len(msgQ') : ControlMsgOK(msgQ'[i])
    <3>1. CASE NiStep
      BY <3>1, NiQueue, OtherMsgsOK DEF NiKinds, QueueOK
    <3>2. CASE OdcpiStep
      BY <3>2, OdcpiQueue, OtherMsgsOK DEF OdcpiKinds, QueueOK
    <3>3. CASE restartSessions
      BY <3>3, ReceivedMsgsOK DEF restartSessions
    <3> QED BY <1>1, <3>1, <3>2, <3>3 DEF taskVars
  <2> QED BY <1>1, <2>1 DEF controlVars, hidlVars, clientVars, confVars
<1>2. CASE setCallback
  <2>1. PICK r : /\ IsQueue(r)
                 /\ \A i \in 1..Len(r) : r[i] \in SetCallbackMsg
                 /\ msgQ' = msgQ \o r
    BY <1>2, SetCallbackMsgs
  <2>2. \A m \in SetCallbackMsg : ControlMsgOK(m)
    BY DEF SetCallbackMsg, ControlMsgOK
  <2>3. \A i \in 1..Len(msgQ') : ControlMsgOK(msgQ'[i])
    BY <2>1, <2>2, EachOfConcat DEF QueueOK
  <2>4. mSessionId' \in Nat
    BY <1>2 DEF setCallback, EnableClient
  <2> QED BY <1>2, <2>3, <2>4 DEF setCallback, confVars
<1>3. ASSUME NEW s \in Settings, updateConfiguration(s[1], s[2]) PROVE ControlShape'
  <2> DEFINE config == Only(s[1], s[2])
  <2>1. Written(config)
    BY SettingWritten
  <2>2. \A i \in 1..Len(msgQ') : ControlMsgOK(msgQ'[i])
    <3>1. CASE UNCHANGED msgQ \/ (UpdateMsgs(config) = <<>> /\ Says(UpdateMsgs(config)))
      <4>1. CASE UNCHANGED msgQ
        BY <4>1
      <4>2. CASE UpdateMsgs(config) = <<>> /\ Says(UpdateMsgs(config))
        <5>1. QueueStep({})
          BY <4>2, ShortQueues DEF Says, QueueStep
        <5> QED BY <5>1, OtherMsgsOK
      <4> QED BY <3>1, <4>1, <4>2
    <3>2. CASE Says(<<[msg |-> "UpdateConfig", config |-> config]>>)
      <4> DEFINE m == [msg |-> "UpdateConfig", config |-> config]
      <4>1. ControlMsgOK(m)
        BY <2>1 DEF ControlMsgOK
      <4>2. msgQ' = msgQ \o <<m>> /\ IsQueue(<<m>>) /\ Len(<<m>>) = 1 /\ <<m>>[1] = m
        BY <3>2, ShortQueues DEF Says
      <4> HIDE DEF m
      <4> QED BY <4>1, <4>2, EachOfConcat DEF QueueOK
    <3> QED BY <1>3, <3>1, <3>2 DEF updateConfiguration, UpdateMsgs
  <2>3. Written(wanted')
    BY <1>3, <2>1, WrittenOver DEF updateConfiguration
  <2>4. Written(mPendingConfig')
    BY <1>3, <2>1, WrittenPending DEF updateConfiguration
  <2> QED BY <1>3, <2>2, <2>3, <2>4 DEF updateConfiguration, confVars
<1>4. CASE cleanup
  <2>1. \A i \in 1..Len(msgQ') : ControlMsgOK(msgQ'[i])
    BY <1>4, InputQueue, OtherMsgsOK DEF QueueOK
  <2> QED BY <1>4, <2>1 DEF cleanup, hidlVars, confVars
<1>5. CASE gnssDeleteAidingData
  <2>1. \A i \in 1..Len(msgQ') : ControlMsgOK(msgQ'[i])
    BY <1>5, InputQueue, OtherMsgsOK DEF QueueOK
  <2> QED BY <1>5, <2>1 DEF gnssDeleteAidingData, hidlVars, confVars
<1>6. CASE handleEngineUpEvent
  <2>1. \A i \in 1..Len(msgQ') : ControlMsgOK(msgQ'[i])
    BY <1>6, InputQueue, OtherMsgsOK DEF QueueOK
  <2> QED BY <1>6, <2>1 DEF handleEngineUpEvent, hidlVars
<1>7. CASE ControlHandler
  <2>1. PICK kind \in ControlKinds : Receive(kind)
    BY <1>7 DEF ControlHandler, setConfig, gnssUpdateConfig, requestCapabilities, enable, disable,
                deleteAidingData, ControlKinds
  <2>2. \A i \in 1..Len(msgQ') : ControlMsgOK(msgQ'[i])
    BY <2>1, ReceivedMsgsOK
  <2>3. UNCHANGED <<mSessionId, wanted, mPendingConfig>>
    BY <1>7 DEF ControlHandler, setConfig, gnssUpdateConfig, requestCapabilities, enable, disable,
                deleteAidingData, hidlVars
  <2>4. powerVoteId' \in Nat
    <3>1. CASE enable
      <4>1. Head(msgQ).id \in Nat
        BY <3>1, ReceivedMsgsOK DEF enable, ControlMsgOK
      <4> QED BY <3>1, <4>1 DEF enable
    <3>2. CASE disable
      BY <3>2 DEF disable, DropVote
    <3> QED BY <1>7, <3>1, <3>2 DEF ControlHandler, setConfig, gnssUpdateConfig,
               requestCapabilities, deleteAidingData, confVars
  <2>5. DOMAIN mGpsConf \subseteq DOMAIN mGpsConf'
    BY <1>7 DEF ControlHandler, setConfig, gnssUpdateConfig, requestCapabilities, enable, disable,
                deleteAidingData, confVars, KeepConfig, Over
  <2> QED BY <2>2, <2>3, <2>4, <2>5
<1> QED BY <1>1, <1>2, <1>3, <1>4, <1>5, <1>6, <1>7, Steps DEF ControlStep, ControlInput,
           restartSessions

(* What telling the modem some values does to an item: it is told, or      *)
(* refused; or not touched.                                                *)
LEMMA TellItem ==
  ASSUME NEW values, Tell(values), NEW i
  PROVE  /\ i \in DOMAIN values /\ i \notin refused' => i \in DOMAIN modem' /\ modem'[i] = values[i]
         /\ i \notin DOMAIN values =>
              /\ i \in DOMAIN modem' <=> i \in DOMAIN modem
              /\ i \in DOMAIN modem => modem'[i] = modem[i]
              /\ i \in refused' <=> i \in refused
<1>1. PICK no \in {{}} \cup {{j} : j \in DOMAIN values \cap Refusable} :
        /\ modem' = Over([j \in DOMAIN values \ no |-> values[j]], modem)
        /\ refused' = (refused \ DOMAIN values) \cup no
  BY DEF Tell
<1>2. no \subseteq DOMAIN values
  BY <1>1
<1>3. CASE i \in DOMAIN values
  BY <1>1, <1>2, <1>3 DEF Over
<1>4. CASE i \notin DOMAIN values
  BY <1>1, <1>2, <1>4 DEF Over
<1> QED BY <1>3, <1>4

(* The enumerations are converted back to what they were converted from.   *)
LEMMA ConvertedBack ==
  ASSUME NEW config, Written(config), NEW i \in DOMAIN config, i \in Resent \cup {"GPS_LOCK"}
  PROVE  convertBack(i, convert(i, config[i])) = config[i]
<1>1. CASE i = "GPS_LOCK"
  <2>1. config[i] \in {"NONE", "MO", "NI", "MO_AND_NI"}
    BY <1>1 DEF Written, ItemValues
  <2> QED BY <1>1, <2>1 DEF convert, convertBack
<1>2. CASE i = "SUPL_VER"
  <2>1. config[i] \in {"1_0_0", "2_0_0", "2_0_2"}
    BY <1>2 DEF Written, ItemValues
  <2> QED BY <1>2, <2>1 DEF convert, convertBack
<1>3. CASE i = "LPP_PROFILE"
  <2>1. config[i] \in {"RRLP_ON_LTE", "USER", "CONTROL", "BOTH"}
    BY <1>3 DEF Written, ItemValues
  <2> QED BY <1>3, <2>1 DEF convert, convertBack
<1>4. CASE i \in {"A_GLONASS", "LPPE_CP", "LPPE_UP"}
  BY <1>4 DEF convert, convertBack
<1> QED BY <1>1, <1>2, <1>3, <1>4 DEF Resent, Injected, Lppe

(* What an update of the configuration does to an item                     *)
LEMMA KeptItem ==
  ASSUME NEW config, KeepConfig(config), NEW i \in DOMAIN mGpsConf
  PROVE  /\ i \in Kept(config) => mGpsConf'[i] = convert(i, config[i])
         /\ i \notin Kept(config) => mGpsConf'[i] = mGpsConf[i]
BY DEF KeepConfig, Over

LEMMA InjectKept ==
  ASSUME ControlShape, NEW config, Written(config), KeepConfig(config)
  PROVE  mGpsConf'["INJECT"] = mGpsConf["INJECT"]
<1>1. "INJECT" \notin Kept(config) /\ "INJECT" \in DOMAIN mGpsConf
  BY DEF Kept, Written, Item, Injected, Lppe, KeptOnly, ControlShape
<1> QED BY <1>1, KeptItem

LEMMA LockUntold ==
  ASSUME NEW values, Tell(values), "GPS_LOCK" \notin DOMAIN values,
         "GPS_LOCK" \in DOMAIN modem', "GPS_LOCK" \notin refused'
  PROVE  /\ "GPS_LOCK" \in DOMAIN modem /\ "GPS_LOCK" \notin refused
         /\ modem'["GPS_LOCK"] = modem["GPS_LOCK"]
BY TellItem

(* The engine's lock after each step                                       *)
LEMMA LockStep == QueueOK /\ ControlShape /\ LockFollowsVote /\ [Next]_vars => LockFollowsVote'
<1> SUFFICES ASSUME QueueOK, ControlShape, LockFollowsVote, [Next]_vars PROVE LockFollowsVote'
  OBVIOUS
<1> USE DEF LockFollowsVote
<1>1. CASE UNCHANGED confVars
  BY <1>1 DEF confVars
<1>2. CASE handleEngineUpEvent
  BY <1>2 DEF handleEngineUpEvent
<1>3. CASE setConfig
  <2> DEFINE items == Lppe \cup (IF mGpsConf["INJECT"] THEN Injected ELSE {})
                     \cup (IF NewServer(FileHost) THEN {"SUPL_HOST"} ELSE {})
             values == [i \in items |-> IF i = "SUPL_HOST" THEN FileHost
                                       ELSE convertBack(i, mGpsConf[i])]
  <2>1. Tell(values) /\ UNCHANGED <<powerVoteId, mGpsConf>>
    BY <1>3 DEF setConfig
  <2>2. "GPS_LOCK" \notin DOMAIN values
    BY DEF Lppe, Injected
  <2> HIDE DEF values
  <2> QED BY <2>1, <2>2, LockUntold
<1>4. CASE gnssUpdateConfig
  <2> DEFINE config == Head(msgQ).config
             values == [i \in Told(config) |-> config[i]]
  <2>1. Written(config)
    BY <1>4, ReceivedMsgsOK DEF gnssUpdateConfig, ControlMsgOK, ControlShape
  <2>2. Tell(values) /\ KeepConfig(config) /\ UNCHANGED powerVoteId
    BY <1>4 DEF gnssUpdateConfig
  <2>3. "GPS_LOCK" \in DOMAIN mGpsConf
    BY DEF ControlShape, Item
  <2>4. "GPS_LOCK" \in DOMAIN values <=> "GPS_LOCK" \in DOMAIN config /\ powerVoteId = 0
    BY DEF Told, Resent, Injected, Lppe
  <2>5. "GPS_LOCK" \in Kept(config) <=> "GPS_LOCK" \in DOMAIN config
    BY DEF Kept, Injected
  <2>6. CASE "GPS_LOCK" \in DOMAIN values
    <3>1. values["GPS_LOCK"] = config["GPS_LOCK"]
      BY <2>6
    <3>2. convertBack("GPS_LOCK", mGpsConf'["GPS_LOCK"]) = config["GPS_LOCK"]
      BY <2>1, <2>2, <2>3, <2>4, <2>5, <2>6, KeptItem, ConvertedBack
    <3>3. ~(powerVoteId' > 0)
      BY <2>2, <2>4, <2>6
    <3> HIDE DEF values, config
    <3> QED BY <2>2, <2>6, <3>1, <3>2, <3>3, TellItem
  <2>7. CASE "GPS_LOCK" \notin DOMAIN values
    <3>1. powerVoteId > 0 \/ mGpsConf'["GPS_LOCK"] = mGpsConf["GPS_LOCK"]
      BY <2>2, <2>3, <2>4, <2>5, <2>7, KeptItem DEF ControlShape
    <3> HIDE DEF values, config
    <3> QED BY <2>2, <2>7, <3>1, LockUntold
  <2> QED BY <2>6, <2>7
<1>5. CASE enable
  <2>1. CASE powerVoteId > 0
    BY <1>5, <2>1 DEF enable
  <2>2. CASE ~(powerVoteId > 0)
    <3> DEFINE values == Only("GPS_LOCK", "NONE")
    <3>1. Tell(values) /\ powerVoteId' = Head(msgQ).id
      BY <1>5, <2>2 DEF enable
    <3>2. powerVoteId' > 0
      BY <1>5, <3>1, ReceivedMsgsOK DEF enable, ControlMsgOK, ControlShape
    <3>3. "GPS_LOCK" \in DOMAIN values /\ values["GPS_LOCK"] = "NONE"
      BY DEF Only
    <3> HIDE DEF values
    <3> QED BY <3>1, <3>2, <3>3, TellItem
  <2> QED BY <2>1, <2>2
<1>6. CASE disable
  <2>1. CASE UNCHANGED <<powerVoteId, modem, refused>>
    BY <1>6, <2>1 DEF disable
  <2>2. CASE DropVote
    <3> DEFINE values == Only("GPS_LOCK", convertBack("GPS_LOCK", mGpsConf["GPS_LOCK"]))
    <3>1. Tell(values) /\ powerVoteId' = 0 /\ UNCHANGED mGpsConf
      BY <1>6, <2>2 DEF disable, DropVote
    <3>2. /\ "GPS_LOCK" \in DOMAIN values
          /\ values["GPS_LOCK"] = convertBack("GPS_LOCK", mGpsConf["GPS_LOCK"])
      BY DEF Only
    <3> HIDE DEF values
    <3> QED BY <3>1, <3>2, TellItem
  <2> QED BY <1>6, <2>1, <2>2 DEF disable
<1>7. CASE UNCHANGED controlVars \/ setCallback \/ cleanup \/ gnssDeleteAidingData \/
           requestCapabilities \/ deleteAidingData
  BY <1>1, <1>7 DEF controlVars, setCallback, cleanup, gnssDeleteAidingData, requestCapabilities,
                    deleteAidingData
<1>8. CASE \E s \in Settings : updateConfiguration(s[1], s[2])
  BY <1>1, <1>8 DEF updateConfiguration
<1> QED BY <1>2, <1>3, <1>4, <1>5, <1>6, <1>7, <1>8, Steps DEF ControlStep, ControlInput,
           ControlHandler, restartSessions

LEMMA QueuedNone ==
  ASSUME QueueOK
  PROVE  /\ Queued({"SetConfig"}) = {} <=> \A j \in 1..Len(msgQ) : msgQ[j].msg # "SetConfig"
         /\ Queued({"UpdateConfig"}) = {} <=> \A j \in 1..Len(msgQ) : msgQ[j].msg # "UpdateConfig"
<1>1. DOMAIN msgQ = 1..Len(msgQ)
  BY DEF QueueOK, IsQueue
<1> QED BY <1>1 DEF Queued

LEMMA ConfiguringBefore ==
  ASSUME QueueOK, QueueOK', NEW kinds, QueueStep(kinds), "SetConfig" \notin kinds,
         Queued({"SetConfig"})' = {}
  PROVE  Queued({"SetConfig"}) = {}
<1>1. Queued({"SetConfig"})' = {} <=> \A j \in 1..Len(msgQ') : msgQ'[j].msg # "SetConfig"
  <2>1. DOMAIN msgQ' = 1..Len(msgQ')
    BY DEF QueueOK, IsQueue
  <2> QED BY <2>1 DEF Queued
<1> QED BY <1>1, QueuedNone, OldMsgs

(* What a configured modem has after each step                             *)
ModemConfigured ==
  \A i \in Resent \ refused :
    mGpsConf["INJECT"] \/ i \in Lppe => i \in DOMAIN modem /\ modem[i] = convertBack(i, mGpsConf[i])

LEMMA SurviveStep ==
  QueueOK /\ QueueOK' /\ ControlShape /\ ConfigSurvivesRestart /\ [Next]_vars => ConfigSurvivesRestart'
<1> SUFFICES ASSUME QueueOK, QueueOK', ControlShape, ConfigSurvivesRestart, [Next]_vars,
                    Queued({"SetConfig"})' = {}
             PROVE  ModemConfigured'
  BY DEF ConfigSurvivesRestart, ModemConfigured
<1>a. ASSUME NEW kinds, QueueStep(kinds), "SetConfig" \notin kinds PROVE ModemConfigured
  BY <1>a, ConfiguringBefore DEF ConfigSurvivesRestart, ModemConfigured
<1>b. ASSUME NEW kind, Receive(kind), kind # "SetConfig" PROVE ModemConfigured
  <2>1. QueueStep({kind})
    BY <1>b, ReceiveQueue
  <2> QED BY <1>a, <1>b, <2>1
<1>c. ASSUME NEW values, Tell(values), NEW i \in Resent \ refused',
             i \in DOMAIN values => values[i] = convertBack(i, mGpsConf'[i]),
             i \notin DOMAIN values =>
               /\ ModemConfigured
               /\ mGpsConf'[i] = mGpsConf[i]
               /\ mGpsConf["INJECT"] \/ i \in Lppe
      PROVE  i \in DOMAIN modem' /\ modem'[i] = convertBack(i, mGpsConf'[i])
  <2>1. CASE i \in DOMAIN values
    BY <1>c, <2>1, TellItem
  <2>2. CASE i \notin DOMAIN values
    <3>1. /\ i \in DOMAIN modem' <=> i \in DOMAIN modem
          /\ i \in DOMAIN modem => modem'[i] = modem[i]
          /\ i \notin refused
      BY <1>c, <2>2, TellItem
    <3> QED BY <1>c, <2>2, <3>1 DEF ModemConfigured
  <2> QED BY <2>1, <2>2
<1>1. CASE setConfig
  <2> DEFINE items == Lppe \cup (IF mGpsConf["INJECT"] THEN Injected ELSE {})
                     \cup (IF NewServer(FileHost) THEN {"SUPL_HOST"} ELSE {})
             values == [i \in items |-> IF i = "SUPL_HOST" THEN FileHost
                                       ELSE convertBack(i, mGpsConf[i])]
  <2>1. Tell(values) /\ UNCHANGED mGpsConf
    BY <1>1 DEF setConfig
  <2>2. ASSUME NEW i \in Resent, mGpsConf["INJECT"] \/ i \in Lppe
        PROVE  i \in DOMAIN values /\ values[i] = convertBack(i, mGpsConf[i])
    BY <2>2 DEF Resent, Injected, Lppe
  <2> HIDE DEF values
  <2> QED BY <2>1, <2>2, <1>c DEF ModemConfigured
<1>2. CASE gnssUpdateConfig
  <2> DEFINE config == Head(msgQ).config
             values == [i \in Told(config) |-> config[i]]
  <2>1. Written(config)
    BY <1>2, ReceivedMsgsOK DEF gnssUpdateConfig, ControlMsgOK, ControlShape
  <2>2. Tell(values) /\ KeepConfig(config)
    BY <1>2 DEF gnssUpdateConfig
  <2>3. ModemConfigured
    BY <1>2, <1>b DEF gnssUpdateConfig
  <2>4. mGpsConf'["INJECT"] = mGpsConf["INJECT"]
    BY <2>1, <2>2, InjectKept
  <2>5. ASSUME NEW i \in Resent PROVE i \in DOMAIN mGpsConf
    BY DEF ControlShape, Resent, Injected, Lppe, Item
  <2>6. ASSUME NEW i \in Resent
        PROVE  /\ i \in Told(config) => config[i] = convertBack(i, mGpsConf'[i])
               /\ i \notin Told(config) => mGpsConf'[i] = mGpsConf[i]
    <3>1. i \in Told(config) <=> i \in Kept(config) /\ mGpsConf[i] # convert(i, config[i])
      BY DEF Told, Kept, Resent, Injected, Lppe
    <3>2. i \in Kept(config) => i \in DOMAIN config
      BY DEF Kept
    <3>3. /\ i \in Kept(config) => mGpsConf'[i] = convert(i, config[i])
          /\ i \notin Kept(config) => mGpsConf'[i] = mGpsConf[i]
      BY <2>2, <2>5, KeptItem
    <3>4. i \in DOMAIN config => convertBack(i, convert(i, config[i])) = config[i]
      BY <2>1, ConvertedBack
    <3> QED BY <3>1, <3>2, <3>3, <3>4
  <2>7. DOMAIN values = Told(config) /\ \A i \in Told(config) : values[i] = config[i]
    OBVIOUS
  <2> HIDE DEF values, config
  <2> QED BY <2>2, <2>3, <2>4, <2>6, <2>7, <1>c DEF ModemConfigured
<1>3. CASE enable \/ disable
  <2>1. ModemConfigured
    BY <1>3, <1>b DEF enable, disable
  <2>2. UNCHANGED mGpsConf
    BY <1>3 DEF enable, disable
  <2>3. CASE UNCHANGED <<modem, refused>>
    BY <2>1, <2>2, <2>3 DEF ModemConfigured
  <2>4. ASSUME NEW v, Tell(Only("GPS_LOCK", v)) PROVE ModemConfigured'
    <3> DEFINE values == Only("GPS_LOCK", v)
    <3>1. \A i \in Resent : i \notin DOMAIN values
      BY DEF Only, Resent, Injected, Lppe
    <3>2. Tell(values)
      BY <2>4
    <3> HIDE DEF values
    <3> QED BY <2>1, <2>2, <3>1, <3>2, <1>c DEF ModemConfigured
  <2> QED BY <1>3, <2>3, <2>4 DEF enable, disable, DropVote
<1>4. CASE handleEngineUpEvent
  <2> DEFINE r == <<[msg |-> "SetConfig"], [msg |-> "RestartSessions"]>>
  <2>1. /\ msgQ' = msgQ \o r /\ IsQueue(r)
        /\ \E i \in 1..Len(r) : r[i] = [msg |-> "SetConfig"]
    BY <1>4, ShortQueues DEF handleEngineUpEvent, Says
  <2>2. \E i \in 1..Len(msgQ') : msgQ'[i] = [msg |-> "SetConfig"]
    BY <2>1, IsInConcat DEF QueueOK
  <2>3. Queued({"SetConfig"})' = {} <=> \A j \in 1..Len(msgQ') : msgQ'[j].msg # "SetConfig"
    <3>1. DOMAIN msgQ' = 1..Len(msgQ')
      BY DEF QueueOK, IsQueue
    <3> QED BY <3>1 DEF Queued
  <2> QED BY <2>2, <2>3
<1>5. CASE UNCHANGED <<mGpsConf, modem, refused>> /\ ModemConfigured
  BY <1>5 DEF ModemConfigured
<1>6. CASE UNCHANGED controlVars /\ (NiStep \/ OdcpiStep \/ restartSessions \/ UNCHANGED taskVars)
  <2>1. ModemConfigured
    <3>1. CASE NiStep
      BY <3>1, <1>a, NiQueue DEF NiKinds, QueueOK
    <3>2. CASE OdcpiStep
      BY <3>2, <1>a, OdcpiQueue DEF OdcpiKinds, QueueOK
    <3>3. CASE restartSessions
      BY <3>3, <1>b DEF restartSessions
    <3>4. CASE UNCHANGED taskVars
      BY <3>4, <1>a DEF taskVars, QueueStep
    <3> QED BY <1>6, <3>1, <3>2, <3>3, <3>4
  <2> QED BY <1>5, <1>6, <2>1 DEF controlVars, confVars
<1>7. CASE setCallback \/ cleanup \/ gnssDeleteAidingData
  <2>1. ModemConfigured
    BY <1>7, <1>a, SetCallbackQueue, InputQueue DEF QueueOK
  <2> QED BY <1>5, <1>7, <2>1 DEF setCallback, cleanup, gnssDeleteAidingData, confVars
<1>8. CASE \E s \in Settings : updateConfiguration(s[1], s[2])
  <2>1. ModemConfigured
    BY <1>8, <1>a, InputQueue DEF QueueOK
  <2> QED BY <1>5, <1>8, <2>1 DEF updateConfiguration, confVars
<1>9. CASE requestCapabilities \/ deleteAidingData
  <2>1. ModemConfigured
    BY <1>9, <1>b DEF requestCapabilities, deleteAidingData
  <2> QED BY <1>5, <1>9, <2>1 DEF requestCapabilities, deleteAidingData, confVars
<1> QED BY <1>1, <1>2, <1>3, <1>4, <1>6, <1>7, <1>8, <1>9, Steps DEF ControlStep, ControlInput,
           ControlHandler, restartSessions

(* Updates on their way *)
LEMMA UpdatesConcat ==
  ASSUME NEW q, IsQueue(q), NEW r, IsQueue(r), NEW i, NEW v
  PROVE  /\ NoUpdate(q, i) /\ NoUpdate(r, i) => NoUpdate(q \o r, i)
         /\ LastUpdate(q, i, v) /\ NoUpdate(r, i) => LastUpdate(q \o r, i, v)
         /\ LastUpdate(r, i, v) => LastUpdate(q \o r, i, v)
<1>0. /\ Len(q) \in Nat /\ Len(r) \in Nat /\ Len(q \o r) = Len(q) + Len(r)
      /\ \A k \in 1..Len(q) : (q \o r)[k] = q[k]
  BY QueueConcat
<1>a. \A k \in 1..Len(q \o r) : (k \in 1..Len(q) /\ (q \o r)[k] = q[k])
                                  \/ (k - Len(q) \in 1..Len(r) /\ (q \o r)[k] = r[k - Len(q)])
  BY EachOfConcat
<1>1. NoUpdate(q, i) /\ NoUpdate(r, i) => NoUpdate(q \o r, i)
  BY <1>a DEF NoUpdate
<1>2. ASSUME LastUpdate(q, i, v), NoUpdate(r, i) PROVE LastUpdate(q \o r, i, v)
  <2>1. PICK j \in 1..Len(q) : /\ Updates(q[j], i)
                               /\ \A k \in j..Len(q) : Updates(q[k], i) => q[k].config[i] = v
    BY <1>2 DEF LastUpdate
  <2>2. j \in 1..Len(q \o r) /\ Updates((q \o r)[j], i)
    BY <1>0, <2>1
  <2>3. ASSUME NEW k \in j..Len(q \o r), Updates((q \o r)[k], i) PROVE (q \o r)[k].config[i] = v
    <3>1. k \in 1..Len(q \o r)
      BY <1>0, <2>1
    <3>2. k \in 1..Len(q) /\ (q \o r)[k] = q[k]
      BY <1>2, <1>a, <2>3, <3>1 DEF NoUpdate
    <3>3. k \in j..Len(q)
      BY <3>2, <1>0
    <3> QED BY <2>1, <2>3, <3>2, <3>3
  <2> QED BY <2>2, <2>3 DEF LastUpdate
<1>3. ASSUME LastUpdate(r, i, v) PROVE LastUpdate(q \o r, i, v)
  <2>1. PICK j \in 1..Len(r) : /\ Updates(r[j], i)
                               /\ \A k \in j..Len(r) : Updates(r[k], i) => r[k].config[i] = v
    BY <1>3 DEF LastUpdate
  <2>2. Len(q) + j \in 1..Len(q \o r) /\ (q \o r)[Len(q) + j] = r[j]
    <3>1. Len(q) + j \in 1..Len(q \o r)
      BY <1>0, <2>1
    <3>2. (q \o r)[Len(q) + j] = r[j]
      BY <2>1, QueueConcat
    <3> QED BY <3>1, <3>2
  <2>3. ASSUME NEW k \in (Len(q) + j)..Len(q \o r), Updates((q \o r)[k], i)
        PROVE  (q \o r)[k].config[i] = v
    <3>1. k \in 1..Len(q \o r) /\ k \notin 1..Len(q)
      BY <1>0, <2>1
    <3>2. (q \o r)[k] = r[k - Len(q)]
      BY <1>a, <3>1
    <3>3. k - Len(q) \in j..Len(r)
      BY <1>0, <2>1
    <3> QED BY <2>1, <2>3, <3>2, <3>3
  <2> QED BY <2>1, <2>2, <2>3 DEF LastUpdate
<1> QED BY <1>1, <1>2, <1>3

LEMMA UpdatesTail ==
  ASSUME NEW q, IsQueue(q), q # <<>>, NEW i, NEW v
  PROVE  /\ NoUpdate(q, i) => NoUpdate(Tail(q), i) /\ ~Updates(Head(q), i)
         /\ LastUpdate(q, i, v) =>
              \/ LastUpdate(Tail(q), i, v)
              \/ NoUpdate(Tail(q), i) /\ Updates(Head(q), i) /\ Head(q).config[i] = v
<1>0. /\ Len(q) \in Nat \ {0} /\ Len(Tail(q)) = Len(q) - 1 /\ Head(q) = q[1]
      /\ \A k \in 1..Len(Tail(q)) : Tail(q)[k] = q[k + 1]
  BY QueueTail
<1>1. NoUpdate(q, i) => NoUpdate(Tail(q), i) /\ ~Updates(Head(q), i)
  BY <1>0 DEF NoUpdate
<1>2. ASSUME LastUpdate(q, i, v), ~LastUpdate(Tail(q), i, v)
      PROVE  NoUpdate(Tail(q), i) /\ Updates(Head(q), i) /\ Head(q).config[i] = v
  <2>1. PICK j \in 1..Len(q) : /\ Updates(q[j], i)
                               /\ \A k \in j..Len(q) : Updates(q[k], i) => q[k].config[i] = v
    BY <1>2 DEF LastUpdate
  <2>2. ASSUME NEW l \in 1..Len(Tail(q)), Updates(Tail(q)[l], i), l + 1 >= j PROVE FALSE
    <3>1. ASSUME NEW k \in l..Len(Tail(q)), Updates(Tail(q)[k], i) PROVE Tail(q)[k].config[i] = v
      <4>1. k \in 1..Len(Tail(q)) /\ k + 1 \in j..Len(q)
        BY <1>0, <2>1, <2>2
      <4>2. Tail(q)[k] = q[k + 1]
        BY <1>0, <4>1
      <4> QED BY <2>1, <3>1, <4>1, <4>2
    <3> QED BY <1>2, <2>2, <3>1 DEF LastUpdate
  <2>3. j = 1
    <3> SUFFICES ASSUME j # 1 PROVE FALSE
      OBVIOUS
    <3>1. j - 1 \in 1..Len(Tail(q)) /\ (j - 1) + 1 = j
      BY <1>0, <2>1
    <3>2. Tail(q)[j - 1] = q[j]
      BY <1>0, <3>1
    <3>3. Updates(Tail(q)[j - 1], i)
      BY <2>1, <3>2
    <3>4. (j - 1) + 1 >= j
      BY <2>1
    <3> QED BY <2>2, <3>1, <3>3, <3>4
  <2>4. NoUpdate(Tail(q), i)
    BY <1>0, <2>2, <2>3 DEF NoUpdate
  <2>5. 1 \in j..Len(q)
    BY <1>0, <2>3
  <2> QED BY <1>0, <2>1, <2>3, <2>4, <2>5
<1> QED BY <1>1, <1>2

(* A step that has nothing to do with the updates                          *)
LEMMA WantedKept ==
  ASSUME QueueOK, WantedOnItsWay, NEW kinds, QueueStep(kinds), "UpdateConfig" \notin kinds,
         UNCHANGED <<mApi, mPendingConfig, wanted, mConfig, mGpsConf>>
  PROVE  WantedOnItsWay'
<1>1. ASSUME NEW i, NEW v
      PROVE  /\ NoUpdate(msgQ, i) => NoUpdate(msgQ', i)
             /\ LastUpdate(msgQ, i, v) => LastUpdate(msgQ', i, v)
  <2>1. CASE msgQ # <<>> /\ Head(msgQ).msg \in kinds /\ msgQ' = Tail(msgQ)
    BY <2>1, UpdatesTail DEF QueueOK, Updates
  <2>2. ASSUME NEW r, IsQueue(r), \A j \in 1..Len(r) : r[j].msg \in kinds, msgQ' = msgQ \o r
        PROVE  /\ NoUpdate(msgQ, i) => NoUpdate(msgQ', i)
               /\ LastUpdate(msgQ, i, v) => LastUpdate(msgQ', i, v)
    <3>1. NoUpdate(r, i)
      BY <2>2 DEF NoUpdate, Updates
    <3> QED BY <2>2, <3>1, UpdatesConcat DEF QueueOK
  <2> QED BY <2>1, <2>2 DEF QueueStep
<1>2. CASE mApi
  BY <1>1, <1>2 DEF WantedOnItsWay
<1>3. CASE ~mApi
  <2>1. \A j \in 1..Len(msgQ') : msgQ'[j].msg # "UpdateConfig"
    BY <1>3, NewMsgs DEF WantedOnItsWay
  <2> QED BY <1>3, <2>1 DEF WantedOnItsWay
<1> QED BY <1>2, <1>3

LEMMA WantedSetCallback ==
  ASSUME QueueOK, WantedOnItsWay, setCallback
  PROVE  WantedOnItsWay'
<1>1. PICK r : /\ IsQueue(r)
               /\ \A i \in 1..Len(r) : r[i] \in SetCallbackMsg
               /\ msgQ' = msgQ \o r
               /\ IF mApi \/ UpdateMsgs(mPendingConfig) = <<>>
                    THEN \A i \in 1..Len(r) : r[i].msg # "UpdateConfig"
                    ELSE \E i \in 1..Len(r) : r[i] = [msg |-> "UpdateConfig",
                                                      config |-> mPendingConfig]
  BY SetCallbackMsgs
<1>2. mApi' = TRUE /\ UNCHANGED <<wanted, mPendingConfig, mGpsConf>>
  BY DEF setCallback, confVars
<1>3. mConfig' = IF ~mApi /\ mPendingConfig # <<>> THEN mPendingConfig ELSE mConfig
  BY DEF setCallback
<1>4. CASE mApi
  <2>1. ASSUME NEW i PROVE NoUpdate(r, i)
    BY <1>1, <1>4 DEF NoUpdate, Updates
  <2> QED BY <1>1, <1>2, <1>3, <1>4, <2>1, UpdatesConcat DEF QueueOK, WantedOnItsWay
<1>5. CASE ~mApi /\ mPendingConfig = <<>>
  <2>1. DOMAIN mPendingConfig = {}
    BY <1>5
  <2>2. DOMAIN wanted \ {"SUPL_HOST"} = {} /\ DOMAIN mConfig' = {}
    BY <1>3, <1>5, <2>1 DEF WantedOnItsWay
  <2> QED BY <1>2, <2>2 DEF WantedOnItsWay
<1>6. CASE ~mApi /\ mPendingConfig # <<>>
  <2> DEFINE change == [msg |-> "UpdateConfig", config |-> mPendingConfig]
  <2>1. UpdateMsgs(mPendingConfig) # <<>>
    BY <1>6 DEF WantedOnItsWay, UpdateMsgs
  <2>2. PICK j \in 1..Len(r) : r[j] = change
    BY <1>1, <1>6, <2>1
  <2>3. ASSUME NEW k \in 1..Len(r), r[k].msg = "UpdateConfig" PROVE r[k].config = mPendingConfig
    <3>1. \A m \in SetCallbackMsg : m.msg = "UpdateConfig" => m.config = mPendingConfig
      BY DEF SetCallbackMsg
    <3> QED BY <1>1, <2>3, <3>1
  <2>4. Len(r) \in Nat
    BY <1>1, QueueTail, QueueConcat
  <2>5. ASSUME NEW i \in DOMAIN mPendingConfig PROVE LastUpdate(r, i, mPendingConfig[i])
    <3>1. Updates(r[j], i)
      BY <2>2 DEF Updates
    <3>2. \A k \in j..Len(r) : k \in 1..Len(r)
      BY <2>4
    <3> QED BY <2>3, <3>1, <3>2 DEF LastUpdate, Updates
  <2>6. ASSUME NEW i \in DOMAIN wanted \ {"SUPL_HOST"} PROVE LastUpdate(msgQ', i, wanted[i])
    <3>1. i \in DOMAIN mPendingConfig /\ mPendingConfig[i] = wanted[i]
      BY <1>6 DEF WantedOnItsWay
    <3> QED BY <1>1, <2>5, <3>1, UpdatesConcat DEF QueueOK
  <2>7. ASSUME NEW i \in DOMAIN mPendingConfig \ {"SUPL_HOST"}
        PROVE  i \in DOMAIN wanted /\ wanted[i] = mPendingConfig[i]
    BY <1>6 DEF WantedOnItsWay
  <2> QED BY <1>2, <1>3, <1>6, <2>6, <2>7 DEF WantedOnItsWay
<1> QED BY <1>4, <1>5, <1>6

LEMMA WantedUpdateConfiguration ==
  ASSUME QueueOK, WantedOnItsWay, NEW s \in Settings, updateConfiguration(s[1], s[2])
  PROVE  WantedOnItsWay'
<1> DEFINE config == Only(s[1], s[2])
           change == [msg |-> "UpdateConfig", config |-> config]
<1>1. /\ UNCHANGED <<mApi, mGpsConf>>
      /\ wanted' = Over(config, wanted)
  BY DEF updateConfiguration, confVars
<1>2. /\ DOMAIN config = {s[1]} /\ config[s[1]] = s[2]
      /\ DOMAIN wanted' = DOMAIN wanted \cup {s[1]} /\ wanted'[s[1]] = s[2]
      /\ \A i \in DOMAIN wanted \ {s[1]} : wanted'[i] = wanted[i]
  BY <1>1 DEF Only, Over
<1>3. CASE ~mApi
  <2>1. /\ mPendingConfig' = updatePending(config)
        /\ UNCHANGED <<msgQ, mConfig>>
    BY <1>3 DEF updateConfiguration
  <2>2. /\ DOMAIN mPendingConfig' = DOMAIN mPendingConfig \cup {s[1]}
        /\ s[1] # "SUPL_HOST" => mPendingConfig'[s[1]] = s[2]
        /\ \A i \in DOMAIN mPendingConfig \ {s[1]} : mPendingConfig'[i] = mPendingConfig[i]
    BY <1>2, <2>1 DEF updatePending, Over
  <2> HIDE DEF config, change
  <2> QED BY <1>1, <1>2, <1>3, <2>1, <2>2 DEF WantedOnItsWay
<1>4. CASE mApi
  <2>1. mConfig' = config /\ Says(UpdateMsgs(config))
    BY <1>4 DEF updateConfiguration
  <2>2. \A i \in DOMAIN mConfig' \ {"SUPL_HOST"} : i \in DOMAIN wanted' /\ wanted'[i] = mConfig'[i]
    BY <1>2, <2>1
  <2>3. ASSUME NEW i \in DOMAIN wanted' \ {"SUPL_HOST"}
        PROVE  \/ LastUpdate(msgQ', i, wanted'[i])
               \/ /\ NoUpdate(msgQ', i)
                  /\ mGpsConf["INJECT"] \/ i \notin Injected => mGpsConf[i] = convert(i, wanted'[i])
    <3>1. CASE config = mConfig /\ "SUPL_HOST" \notin DOMAIN config
      <4>1. msgQ' = msgQ
        BY <2>1, <3>1, ConcatNothing DEF Says, UpdateMsgs, QueueOK
      <4>2. i \in DOMAIN wanted /\ wanted'[i] = wanted[i]
        BY <1>2, <1>4, <3>1 DEF WantedOnItsWay
      <4> QED BY <1>4, <4>1, <4>2 DEF WantedOnItsWay
    <3>2. CASE ~(config = mConfig /\ "SUPL_HOST" \notin DOMAIN config)
      <4>1. config # <<>>
        BY <1>2
      <4>2. msgQ' = msgQ \o <<change>>
        BY <2>1, <3>2, <4>1 DEF Says, UpdateMsgs
      <4>3. IsQueue(<<change>>) /\ Len(<<change>>) = 1 /\ <<change>>[1] = change
        BY ShortQueues
      <4>4. CASE i = s[1]
        <5>1. Updates(change, i) /\ change.config[i] = wanted'[i]
          BY <1>2, <4>4 DEF Updates
        <5> HIDE DEF change
        <5>2. LastUpdate(<<change>>, i, wanted'[i])
          BY <4>3, <5>1 DEF LastUpdate
        <5> QED BY <4>2, <4>3, <5>2, UpdatesConcat DEF QueueOK
      <4>5. CASE i # s[1]
        <5>1. ~Updates(change, i)
          BY <1>2, <4>5 DEF Updates
        <5> HIDE DEF change
        <5>2. NoUpdate(<<change>>, i)
          BY <4>3, <5>1 DEF NoUpdate
        <5>3. i \in DOMAIN wanted /\ wanted'[i] = wanted[i]
          BY <1>2, <4>5
        <5>4. LastUpdate(msgQ, i, wanted[i]) \/ NoUpdate(msgQ, i)
          BY <1>4, <5>3 DEF WantedOnItsWay
        <5>5. CASE LastUpdate(msgQ, i, wanted[i])
          BY <4>2, <4>3, <5>2, <5>3, <5>5, UpdatesConcat DEF QueueOK
        <5>6. CASE NoUpdate(msgQ, i) /\ ~LastUpdate(msgQ, i, wanted[i])
          <6>1. NoUpdate(msgQ', i)
            BY <4>2, <4>3, <5>2, <5>6, UpdatesConcat DEF QueueOK
          <6> QED BY <1>4, <5>3, <5>6, <6>1 DEF WantedOnItsWay
        <5> QED BY <5>4, <5>5, <5>6
      <4> QED BY <4>4, <4>5
    <3> QED BY <3>1, <3>2
  <2> QED BY <1>1, <1>4, <2>2, <2>3 DEF WantedOnItsWay
<1> QED BY <1>3, <1>4

LEMMA WantedUpdateConfig ==
  ASSUME QueueOK, ControlShape, WantedOnItsWay, gnssUpdateConfig
  PROVE  WantedOnItsWay'
<1> DEFINE config == Head(msgQ).config
<1>1. /\ msgQ # <<>> /\ Head(msgQ).msg = "UpdateConfig" /\ msgQ' = Tail(msgQ)
      /\ Written(config)
  BY ReceivedMsgsOK DEF gnssUpdateConfig, Receive, Takes, ControlMsgOK, ControlShape
<1>2. mApi
  BY <1>1, QueueTail DEF QueueOK, WantedOnItsWay
<1>3. /\ UNCHANGED <<mApi, wanted, mPendingConfig, mConfig>>
      /\ KeepConfig(config)
  BY DEF gnssUpdateConfig, hidlVars
<1>4. mGpsConf'["INJECT"] = mGpsConf["INJECT"]
  BY <1>1, <1>3, InjectKept
<1>5. ASSUME NEW i \in DOMAIN wanted \ {"SUPL_HOST"}
      PROVE  \/ LastUpdate(msgQ', i, wanted[i])
             \/ /\ NoUpdate(msgQ', i)
                /\ mGpsConf["INJECT"] \/ i \notin Injected => mGpsConf'[i] = convert(i, wanted[i])
  <2>1. i \in DOMAIN mGpsConf
    BY DEF ControlShape, Written
  <2>2. /\ i \in Kept(config) => mGpsConf'[i] = convert(i, config[i])
        /\ i \notin Kept(config) => mGpsConf'[i] = mGpsConf[i]
    BY <1>3, <2>1, KeptItem
  <2>3. i \in Kept(config) <=> i \in DOMAIN config /\ (i \in Injected => mGpsConf["INJECT"])
    BY DEF Kept
  <2>4. Updates(Head(msgQ), i) <=> i \in DOMAIN config
    BY <1>1 DEF Updates
  <2> HIDE DEF config
  <2>5. CASE LastUpdate(msgQ, i, wanted[i])
    <3>1. CASE LastUpdate(Tail(msgQ), i, wanted[i])
      BY <1>1, <3>1
    <3>2. CASE NoUpdate(Tail(msgQ), i) /\ Updates(Head(msgQ), i) /\ config[i] = wanted[i]
      BY <1>1, <2>2, <2>3, <2>4, <3>2
    <3> QED BY <1>1, <2>5, <3>1, <3>2, UpdatesTail DEF QueueOK, config
  <2>6. CASE /\ NoUpdate(msgQ, i)
             /\ mGpsConf["INJECT"] \/ i \notin Injected => mGpsConf[i] = convert(i, wanted[i])
    <3>1. NoUpdate(Tail(msgQ), i) /\ i \notin DOMAIN config
      BY <1>1, <2>4, <2>6, UpdatesTail DEF QueueOK
    <3> QED BY <1>1, <2>2, <2>3, <2>6, <3>1
  <2> QED BY <1>2, <2>5, <2>6 DEF WantedOnItsWay
<1> QED BY <1>2, <1>3, <1>4, <1>5 DEF WantedOnItsWay

LEMMA WantedStep ==
  QueueOK /\ ControlShape /\ WantedOnItsWay /\ [Next]_vars => WantedOnItsWay'
<1> SUFFICES ASSUME QueueOK, ControlShape, WantedOnItsWay, [Next]_vars PROVE WantedOnItsWay'
  OBVIOUS
<1>a. ASSUME NEW kind, Receive(kind), kind # "UpdateConfig",
             UNCHANGED <<mApi, mPendingConfig, wanted, mConfig, mGpsConf>>
      PROVE  WantedOnItsWay'
  <2>1. QueueStep({kind})
    BY <1>a, ReceiveQueue
  <2> QED BY <1>a, <2>1, WantedKept
<1>1. CASE UNCHANGED controlVars /\ (NiStep \/ OdcpiStep \/ restartSessions \/ UNCHANGED taskVars)
  <2>1. UNCHANGED <<mApi, mPendingConfig, wanted, mConfig, mGpsConf>>
    BY <1>1 DEF controlVars, hidlVars, clientVars, confVars
  <2>2. CASE NiStep
    BY <2>1, <2>2, NiQueue, WantedKept DEF NiKinds, QueueOK
  <2>3. CASE OdcpiStep
    BY <2>1, <2>3, OdcpiQueue, WantedKept DEF OdcpiKinds, QueueOK
  <2>4. CASE restartSessions
    BY <2>1, <2>4, <1>a DEF restartSessions
  <2>5. CASE UNCHANGED taskVars
    <3>1. QueueStep({})
      BY <2>5 DEF taskVars, QueueStep
    <3> QED BY <2>1, <3>1, WantedKept
  <2> QED BY <1>1, <2>2, <2>3, <2>4, <2>5
<1>2. CASE cleanup \/ gnssDeleteAidingData \/ handleEngineUpEvent
  <2>1. UNCHANGED <<mApi, mPendingConfig, wanted, mConfig, mGpsConf>>
    BY <1>2 DEF cleanup, gnssDeleteAidingData, handleEngineUpEvent, hidlVars, clientVars, confVars
  <2>2. QueueStep({"Disable", "DeleteAidingData", "SetConfig", "RestartSessions"})
    BY <1>2, InputQueue, MoreKinds DEF QueueOK
  <2> QED BY <2>1, <2>2, WantedKept
<1>3. CASE setConfig
  BY <1>3, <1>a DEF setConfig, hidlVars, clientVars
<1>4. CASE requestCapabilities \/ enable \/ disable \/ deleteAidingData
  BY <1>4, <1>a DEF requestCapabilities, enable, disable, deleteAidingData, hidlVars, confVars
<1> QED BY <1>1, <1>2, <1>3, <1>4, WantedSetCallback, WantedUpdateConfiguration, WantedUpdateConfig,
           Steps DEF ControlStep, ControlInput, ControlHandler, restartSessions

LEMMA ControlInductive == Spec => []ControlInv
<1>1. Init => ControlInv
  <2> SUFFICES ASSUME Init PROVE ControlInv
    OBVIOUS
  <2> USE DEF Init, ControlInit
  <2>1. QueueOK
    BY ShortQueues DEF QueueOK
  <2>2. msgQ = <<[msg |-> "SetConfig"]>> /\ Len(msgQ) = 1 /\ msgQ[1].msg = "SetConfig"
    OBVIOUS
  <2>3. DOMAIN <<>> = {}
    OBVIOUS
  <2>4. ControlShape
    <3>1. Written(mPendingConfig) /\ Written(wanted)
      BY <2>3 DEF Written
    <3>2. (Item \ {"SUPL_HOST"}) \cup {"INJECT"} \subseteq DOMAIN mGpsConf
      BY DEF readConfig
    <3> QED BY <2>2, <3>1, <3>2 DEF ControlShape, ControlMsgOK
  <2>5. LockFollowsVote
    BY <2>3 DEF LockFollowsVote
  <2>6. ConfigSurvivesRestart
    BY <2>1, <2>2, QueuedNone DEF ConfigSurvivesRestart
  <2>7. WantedOnItsWay
    BY <2>2, <2>3 DEF WantedOnItsWay
  <2> QED BY <2>1, <2>4, <2>5, <2>6, <2>7 DEF ControlInv
<1>2. ControlInv /\ QueueOK' /\ [Next]_vars => ControlInv'
  BY ShapeStep, LockStep, SurviveStep, WantedStep DEF ControlInv
<1> QED BY <1>1, <1>2, QueueTyped, PTL DEF Spec

(* The engine is unlocked while a client votes for power and has the       *)
(* configured lock otherwise, in whatever order enable, disable and        *)
(* setGpsLock are handled, unless the modem refused.                       *)
THEOREM LockIsVotes == Spec => []LockFollowsVote
BY ControlInductive, PTL DEF ControlInv

(* What the framework wants reaches mGps_conf, also what it set before     *)
(* there was a client, and from there a modem that has restarted.          *)
THEOREM ConfigurationKept == Spec => []ConfigKept
<1>1. ControlInv => ConfigKept
  <2> SUFFICES ASSUME ControlInv, mApi, Queued({"UpdateConfig"}) = {},
                      NEW i \in DOMAIN wanted \ {"SUPL_HOST"}
               PROVE  mGpsConf["INJECT"] \/ i \notin Injected => mGpsConf[i] = convert(i, wanted[i])
    BY DEF ControlInv, ConfigKept, ConfigIsWanted
  <2>1. \A j \in 1..Len(msgQ) : msgQ[j].msg # "UpdateConfig"
    BY QueuedNone DEF ControlInv
  <2>2. ~LastUpdate(msgQ, i, wanted[i])
    BY <2>1 DEF LastUpdate, Updates
  <2> QED BY <2>2 DEF ControlInv, WantedOnItsWay
<1> QED BY <1>1, ControlInductive, PTL

-----------------------------------------------------------------------------
(* The service and its requests: a response finds the request it answers,  *)
(* and the vote of the adapter becomes that of the client.                 *)
Asking == {"Enable", "Disable", "DeleteAidingData"}
Switching == {"Enable", "Disable"}

(* The queue gets one message m of some kinds, or none; or loses its head. *)
Grows ==
  /\ QueueOK /\ QueueOK'
  /\ Len(msgQ) \in Nat /\ Len(msgQ') \in Nat /\ Len(msgQ) <= Len(msgQ')
  /\ \A i \in 1..Len(msgQ) : i \in 1..Len(msgQ') /\ msgQ'[i] = msgQ[i]
AddsAt(kinds, m, p) ==
  /\ Grows /\ p \in 1..Len(msgQ') /\ p > Len(msgQ)
  /\ msgQ'[p] = m /\ m.msg \in kinds
  /\ \A i \in 1..Len(msgQ') : msgQ'[i].msg \in kinds => i \in 1..Len(msgQ) \/ i = p
Adds(kinds, m) == \E p : AddsAt(kinds, m, p)
AddsNone(kinds) ==
  /\ Grows
  /\ \A i \in 1..Len(msgQ') : msgQ'[i].msg \in kinds => i \in 1..Len(msgQ)
Drops(h) == QueueOK /\ msgQ # <<>> /\ h = Head(msgQ) /\ msgQ' = Tail(msgQ)

LEMMA QueuedAre ==
  ASSUME QueueOK, NEW kinds
  PROVE  Queued(kinds) = {i \in 1..Len(msgQ) : msgQ[i].msg \in kinds} /\ Len(msgQ) \in Nat
BY DEF Queued, QueueOK, IsQueue

LEMMA QueuedThen ==
  ASSUME QueueOK', NEW kinds
  PROVE  Queued(kinds)' = {i \in 1..Len(msgQ') : msgQ'[i].msg \in kinds} /\ Len(msgQ') \in Nat
<1>1. DOMAIN msgQ' = 1..Len(msgQ') /\ Len(msgQ') \in Nat
  BY DEF QueueOK, IsQueue
<1> QED BY <1>1 DEF Queued

(* Where the messages of some kinds are after a step                       *)
LEMMA QueuedMore ==
  ASSUME NEW kinds, NEW m, NEW p, AddsAt(kinds, m, p)
  PROVE  Queued(kinds)' = Queued(kinds) \cup {p}
<1>1. /\ Queued(kinds) = {i \in 1..Len(msgQ) : msgQ[i].msg \in kinds}
      /\ Queued(kinds)' = {i \in 1..Len(msgQ') : msgQ'[i].msg \in kinds}
  BY QueuedAre, QueuedThen DEF AddsAt, Grows
<1> QED BY <1>1 DEF AddsAt, Grows

LEMMA QueuedSame ==
  ASSUME NEW kinds, AddsNone(kinds)
  PROVE  Queued(kinds)' = Queued(kinds)
<1>1. /\ Queued(kinds) = {i \in 1..Len(msgQ) : msgQ[i].msg \in kinds}
      /\ Queued(kinds)' = {i \in 1..Len(msgQ') : msgQ'[i].msg \in kinds}
  BY QueuedAre, QueuedThen DEF AddsNone, Grows
<1> QED BY <1>1 DEF AddsNone, Grows

LEMMA QueuedLess ==
  ASSUME NEW h, Drops(h), NEW kinds
  PROVE  /\ IsOneLess(msgQ, msgQ')
         /\ Queued(kinds) \in SUBSET (1..Len(msgQ))
         /\ Queued(kinds)' = WithoutHead(Queued(kinds), Len(msgQ'))
         /\ 1 \in Queued(kinds) <=> h.msg \in kinds
<1>1. IsOneLess(msgQ, msgQ') /\ QueueOK'
  BY QueueShrinks, QueueTail DEF Drops, QueueOK
<1>2. /\ Queued(kinds) = {i \in 1..Len(msgQ) : msgQ[i].msg \in kinds}
      /\ Queued(kinds)' = {i \in 1..Len(msgQ') : msgQ'[i].msg \in kinds}
  BY <1>1, QueuedAre, QueuedThen DEF Drops
<1>3. /\ h = msgQ[1] /\ 1 \in 1..Len(msgQ)
      /\ \A k \in 1..Len(msgQ') : k + 1 \in 1..Len(msgQ) /\ msgQ'[k] = msgQ[k + 1]
  BY <1>1 DEF Drops, IsOneLess
<1> QED BY <1>1, <1>2, <1>3 DEF WithoutHead

(* The requests r of session s are those whose messages are queued.        *)
Own(s) == {i \in Queued(Asking) : msgQ[i].id = s}
Matches(s, r) == Len(r) = Cardinality(Own(s)) /\ EndsWith(r, msgQ, Own(s))

LEMMA MatchesSame ==
  ASSUME AddsNone(Asking), NEW s, NEW r, IsQueue(r), Matches(s, r)
  PROVE  Matches(s, r)'
<1>1. PICK q, e, P : q = msgQ /\ e = msgQ' /\ P = Own(s)
  OBVIOUS
<1>2. /\ IsQueue(q) /\ IsQueue(e) /\ Len(q) <= Len(e) /\ \A i \in 1..Len(q) : e[i] = q[i]
      /\ P \in SUBSET (1..Len(q)) /\ EndsWith(r, q, P) /\ Len(r) = Cardinality(P)
  BY <1>1, QueuedAre DEF AddsNone, Grows, QueueOK, Own, Matches
<1>3. EndsWith(r, e, P)
  BY ONLY <1>2, IsQueue(r), EndsLonger
<1>4. Own(s)' = P
  BY <1>1, <1>2, QueuedSame, QueuedAre DEF Own, AddsNone, Grows
<1> QED BY <1>1, <1>2, <1>3, <1>4 DEF Matches

LEMMA MatchesMore ==
  ASSUME NEW m, Adds(Asking, m), NEW s, NEW r, IsQueue(r), Matches(s, r)
  PROVE  IF m.id = s THEN Matches(s, Append(r, m.msg))' ELSE Matches(s, r)'
<1>1. PICK q, e, P, p : q = msgQ /\ e = msgQ' /\ P = Own(s) /\ AddsAt(Asking, m, p)
  BY DEF Adds
<1>2. /\ IsQueue(q) /\ IsQueue(e) /\ Len(q) <= Len(e) /\ \A i \in 1..Len(q) : e[i] = q[i]
      /\ P \in SUBSET (1..Len(q)) /\ EndsWith(r, q, P) /\ Len(r) = Cardinality(P)
      /\ p \in 1..Len(e) /\ p > Len(q) /\ e[p] = m
  BY <1>1, QueuedAre DEF AddsAt, Grows, QueueOK, Own, Matches
<1>3. /\ EndsWith(r, e, P) /\ EndsWith(Append(r, m.msg), e, P \cup {p})
      /\ Cardinality(P \cup {p}) = Cardinality(P) + 1
  BY ONLY <1>2, IsQueue(r), EndsLonger
<1>4. Own(s)' = IF m.id = s THEN P \cup {p} ELSE P
  <2>1. Queued(Asking)' = Queued(Asking) \cup {p}
    BY <1>1, QueuedMore
  <2>2. \A i \in Queued(Asking) : i \in 1..Len(q) /\ msgQ'[i] = msgQ[i]
    BY <1>1, <1>2, QueuedAre DEF AddsAt, Grows
  <2> QED BY <1>1, <1>2, <2>1, <2>2 DEF Own
<1>5. Len(Append(r, m.msg)) = Len(r) + 1
  BY QueueAppend
<1> QED BY <1>1, <1>2, <1>3, <1>4, <1>5 DEF Matches

LEMMA MatchesLess ==
  ASSUME NEW h, Drops(h), NEW s, NEW r, IsQueue(r), Matches(s, r)
  PROVE  IF h.msg \in Asking /\ h.id = s THEN r # <<>> /\ Matches(s, Tail(r))' ELSE Matches(s, r)'
<1>1. PICK q, e, P, R : q = msgQ /\ e = msgQ' /\ P = Own(s) /\ R = WithoutHead(P, Len(e))
  OBVIOUS
<1>2. /\ IsQueue(q) /\ q # <<>> /\ e = Tail(q)
      /\ P \in SUBSET (1..Len(q)) /\ EndsWith(r, q, P) /\ Len(r) = Cardinality(P)
  BY <1>1, QueuedLess DEF Drops, QueueOK, Own, Matches
<1>3. R = WithoutHead(P, Len(Tail(q)))
  BY <1>1, <1>2
<1>4. /\ EndsWith(r, Tail(q), R)
      /\ 1 \in P => r # <<>> /\ EndsWith(Tail(r), Tail(q), R)
      /\ Cardinality(R) = IF 1 \in P THEN Cardinality(P) - 1 ELSE Cardinality(P)
  BY ONLY <1>2, <1>3, IsQueue(r), EndsTail
<1>5. 1 \in P <=> h.msg \in Asking /\ h.id = s
  BY <1>1, QueuedLess DEF Own, Drops, IsOneLess
<1>6. Own(s)' = R
  <2>1. /\ Queued(Asking)' = WithoutHead(Queued(Asking), Len(msgQ'))
        /\ \A k \in 1..Len(msgQ') : msgQ'[k] = msgQ[k + 1]
    BY QueuedLess DEF IsOneLess
  <2> QED BY <1>1, <2>1 DEF Own, WithoutHead
<1>7. r # <<>> => Len(Tail(r)) = Len(r) - 1
  BY QueueTail
<1> QED BY <1>1, <1>2, <1>4, <1>5, <1>6, <1>7 DEF Matches

(* As many as there are messages of a kind                                 *)
LEMMA QueuedCount ==
  ASSUME NEW kinds
  PROVE  /\ AddsNone(kinds) => Cardinality(Queued(kinds))' = Cardinality(Queued(kinds))
         /\ \A m : Adds(kinds, m) => Cardinality(Queued(kinds))' = Cardinality(Queued(kinds)) + 1
         /\ \A h : Drops(h) =>
              Cardinality(Queued(kinds))' =
                IF h.msg \in kinds THEN Cardinality(Queued(kinds)) - 1 ELSE Cardinality(Queued(kinds))
<1>1. ASSUME AddsNone(kinds) PROVE Cardinality(Queued(kinds))' = Cardinality(Queued(kinds))
  BY <1>1, QueuedSame
<1>2. ASSUME NEW m, NEW p, AddsAt(kinds, m, p)
      PROVE  Cardinality(Queued(kinds))' = Cardinality(Queued(kinds)) + 1
  <2>1. PICK n, P : n = Len(msgQ) /\ P = Queued(kinds)
    OBVIOUS
  <2>2. n \in Nat /\ P \in SUBSET (1..n) /\ p \notin P
    BY <1>2, <2>1, QueuedAre DEF AddsAt, Grows
  <2>3. IsFiniteSet(P)
    BY <2>2, PositionsFinite
  <2>4. Cardinality(P \cup {p}) = Cardinality(P) + 1
    BY <2>2, <2>3, FS_AddElement
  <2> QED BY <1>2, <2>1, <2>4, QueuedMore
<1>3. ASSUME NEW h, Drops(h)
      PROVE  Cardinality(Queued(kinds))' =
               IF h.msg \in kinds THEN Cardinality(Queued(kinds)) - 1 ELSE Cardinality(Queued(kinds))
  <2>1. PICK n, P, R : n = Len(msgQ') /\ P = Queued(kinds) /\ R = Queued(kinds)'
    OBVIOUS
  <2>2. n \in Nat /\ P \in SUBSET (1..n + 1) /\ R = WithoutHead(P, n)
        /\ (1 \in P <=> h.msg \in kinds)
    <3>1. Len(msgQ) \in Nat \ {0} /\ Len(msgQ') = Len(msgQ) - 1
      BY <1>3, QueuedLess DEF IsOneLess
    <3>2. n \in Nat /\ n + 1 = Len(msgQ)
      BY <2>1, <3>1
    <3> QED BY <1>3, <2>1, <3>2, QueuedLess
  <2>3. Cardinality(R) = IF 1 \in P THEN Cardinality(P) - 1 ELSE Cardinality(P)
    BY ONLY <2>2, UpToLess
  <2> QED BY <2>1, <2>2, <2>3
<1> QED BY <1>1, <1>2, <1>3 DEF Adds

(* The votes there are to come: w gives the vote of the adapter after each *)
(* message, from the vote it has to that of the client.                    *)
VoteBefore(m) == IF m.msg = "Enable" THEN 0 ELSE m.id
VoteAfter(m) == IF m.msg = "Enable" THEN m.id ELSE 0
Turns(m, v, u) ==
  IF m.msg \in Switching THEN v = VoteBefore(m) /\ u = VoteAfter(m) ELSE u = v
Linked(w, q, first, last) ==
  /\ w[0] = first /\ w[Len(q)] = last
  /\ \A i \in 1..Len(q) : Turns(q[i], w[i - 1], w[i])
VotesLead(q, first, last) == \E w : Linked(w, q, first, last)

LEMMA VotesNone ==
  ASSUME NEW q, IsQueue(q), NEW first, NEW last, VotesLead(q, first, last),
         \A i \in 1..Len(q) : q[i].msg \notin Switching
  PROVE  first = last
<1>1. PICK w : Linked(w, q, first, last)
  BY DEF VotesLead
<1>2. PICK n : n = Len(q) /\ n \in Nat
  BY DEF IsQueue
<1>3. \A i \in 1..n : w[i] = w[i - 1]
  BY <1>1, <1>2 DEF Linked, Turns
<1>4. PICK P, B : P = {i \in 1..n : w[i] # first} /\ B = {i + 1 : i \in P}
  OBVIOUS
<1>5. IsFiniteSet(B) /\ Cardinality(B) = Cardinality(P)
  BY <1>2, <1>4, ShiftedPositions
<1>6. P \subseteq B
  <2> SUFFICES ASSUME NEW i \in P PROVE i \in B
    OBVIOUS
  <2>1. i \in 1..n /\ w[i - 1] # first
    BY <1>3, <1>4
  <2>2. i - 1 # 0
    BY <1>1, <2>1 DEF Linked
  <2>3. i - 1 \in 1..n /\ (i - 1) + 1 = i
    BY <1>2, <2>1, <2>2
  <2> QED BY <1>4, <2>1, <2>3
<1>7. P = B
  BY <1>5, <1>6, FS_Subset
<1>8. n \notin P
  <2> SUFFICES ASSUME n \in P PROVE FALSE
    OBVIOUS
  <2>1. n + 1 \in P
    BY <1>4, <1>7
  <2> QED BY <1>2, <1>4, <2>1
<1>9. n = 0 \/ n \in 1..n
  BY <1>2
<1> QED BY <1>1, <1>2, <1>4, <1>8, <1>9 DEF Linked

LEMMA VotesMore ==
  ASSUME NEW m, Adds(Switching, m), NEW first, NEW last, VotesLead(msgQ, first, last),
         NEW next, Turns(m, last, next)
  PROVE  VotesLead(msgQ', first, next)
<1>1. PICK p : AddsAt(Switching, m, p)
  BY DEF Adds
<1>2. PICK w, n, q, e : /\ Linked(w, msgQ, first, last)
                        /\ n = Len(msgQ) /\ q = msgQ /\ e = msgQ'
  BY DEF VotesLead
<1>3. /\ n \in Nat /\ Len(e) \in Nat /\ n <= Len(e) /\ \A i \in 1..n : i \in 1..Len(e) /\ e[i] = q[i]
      /\ p \in 1..Len(e) /\ p > n /\ e[p] = m /\ m.msg \in Switching
      /\ \A i \in 1..Len(e) : e[i].msg \in Switching => i \in 1..n \/ i = p
  BY <1>1, <1>2 DEF AddsAt, Grows
<1> DEFINE x == [i \in 0..Len(e) |-> IF i <= n THEN w[i] ELSE IF i < p THEN last ELSE next]
<1>4. x[0] = first /\ x[Len(e)] = next
  BY <1>2, <1>3 DEF Linked
<1>5. ASSUME NEW i \in 1..Len(e) PROVE Turns(e[i], x[i - 1], x[i])
  <2>1. i \in 0..Len(e) /\ i - 1 \in 0..Len(e)
    BY <1>3
  <2>2. CASE i <= n
    <3>1. i \in 1..n /\ x[i] = w[i] /\ x[i - 1] = w[i - 1]
      BY <1>3, <2>1, <2>2
    <3>2. Turns(q[i], w[i - 1], w[i])
      BY <1>2, <3>1 DEF Linked
    <3> QED BY <1>3, <3>1, <3>2
  <2>3. CASE n < i
    <3>1. x[i] = IF i < p THEN last ELSE next
      BY <1>3, <2>1, <2>3
    <3>2. x[i - 1] = IF i <= p THEN last ELSE next
      <4>1. CASE i - 1 <= n
        <5>1. i - 1 = n /\ i <= p
          BY <1>3, <2>3, <4>1
        <5> QED BY <1>2, <2>1, <4>1, <5>1 DEF Linked
      <4>2. CASE ~(i - 1 <= n)
        <5>1. i - 1 < p <=> i <= p
          BY <1>3
        <5> QED BY <2>1, <4>2, <5>1
      <4> QED BY <4>1, <4>2
    <3>3. CASE i = p
      <4>1. x[i] = next /\ x[i - 1] = last
        BY <1>3, <3>1, <3>2, <3>3
      <4> QED BY <1>3, <3>3, <4>1
    <3>4. CASE i # p
      <4>1. x[i] = x[i - 1]
        BY <1>3, <3>1, <3>2, <3>4
      <4>2. e[i].msg \notin Switching
        BY <1>3, <2>3, <3>4
      <4> QED BY <4>1, <4>2 DEF Turns
    <3> QED BY <3>3, <3>4
  <2> QED BY <1>3, <2>2, <2>3
<1> HIDE DEF x
<1> QED BY <1>2, <1>4, <1>5 DEF VotesLead, Linked

LEMMA VotesSame ==
  ASSUME AddsNone(Switching), NEW first, NEW last, VotesLead(msgQ, first, last)
  PROVE  VotesLead(msgQ', first, last)
<1>1. PICK w, n, q, e : /\ Linked(w, msgQ, first, last)
                        /\ n = Len(msgQ) /\ q = msgQ /\ e = msgQ'
  BY DEF VotesLead
<1>2. /\ n \in Nat /\ Len(e) \in Nat /\ n <= Len(e) /\ \A i \in 1..n : i \in 1..Len(e) /\ e[i] = q[i]
      /\ \A i \in 1..Len(e) : e[i].msg \in Switching => i \in 1..n
  BY <1>1 DEF AddsNone, Grows
<1> DEFINE x == [i \in 0..Len(e) |-> IF i <= n THEN w[i] ELSE last]
<1>3. x[0] = first /\ x[Len(e)] = last
  BY <1>1, <1>2 DEF Linked
<1>4. ASSUME NEW i \in 1..Len(e) PROVE Turns(e[i], x[i - 1], x[i])
  <2>1. i \in 0..Len(e) /\ i - 1 \in 0..Len(e)
    BY <1>2
  <2>2. CASE i <= n
    <3>1. i \in 1..n /\ x[i] = w[i] /\ x[i - 1] = w[i - 1]
      BY <1>2, <2>1, <2>2
    <3>2. Turns(q[i], w[i - 1], w[i])
      BY <1>1, <3>1 DEF Linked
    <3> QED BY <1>2, <3>1, <3>2
  <2>3. CASE n < i
    <3>1. x[i] = last
      BY <1>2, <2>1, <2>3
    <3>2. x[i - 1] = last
      <4>1. CASE i - 1 <= n
        <5>1. i - 1 = n
          BY <1>2, <2>3, <4>1
        <5> QED BY <1>1, <2>1, <4>1, <5>1 DEF Linked
      <4>2. CASE ~(i - 1 <= n)
        BY <2>1, <4>2
      <4> QED BY <4>1, <4>2
    <3>3. e[i].msg \notin Switching
      BY <1>2, <2>3
    <3> QED BY <3>1, <3>2, <3>3 DEF Turns
  <2> QED BY <1>2, <2>2, <2>3
<1> HIDE DEF x
<1> QED BY <1>1, <1>3, <1>4 DEF VotesLead, Linked

LEMMA VotesLess ==
  ASSUME NEW h, Drops(h), NEW first, NEW last, VotesLead(msgQ, first, last)
  PROVE  \E next : Turns(h, first, next) /\ VotesLead(msgQ', next, last)
<1>1. PICK w, n, q, e : /\ Linked(w, msgQ, first, last)
                        /\ n = Len(msgQ) /\ q = msgQ /\ e = msgQ' /\ IsOneLess(q, e)
  BY QueueShrinks DEF VotesLead, Drops, QueueOK
<1>2. /\ n \in Nat \ {0} /\ Len(e) = n - 1 /\ h = q[1] /\ 1 \in 1..n
      /\ \A k \in 1..Len(e) : k + 1 \in 1..n /\ e[k] = q[k + 1]
  BY <1>1 DEF IsOneLess, Drops
<1> DEFINE x == [i \in 0..Len(e) |-> w[i + 1]]
<1>3. x[0] = w[1] /\ x[Len(e)] = last
  <2>1. 0 \in 0..Len(e) /\ Len(e) \in 0..Len(e) /\ 0 + 1 = 1 /\ Len(e) + 1 = n
    BY <1>2
  <2> QED BY <1>1, <2>1 DEF Linked
<1>4. ASSUME NEW i \in 1..Len(e) PROVE Turns(e[i], x[i - 1], x[i])
  <2>0. Len(e) \in Nat /\ i + 1 \in 1..n
    BY <1>2
  <2>1. i \in 0..Len(e) /\ i - 1 \in 0..Len(e) /\ (i - 1) + 1 = i /\ (i + 1) - 1 = i /\ i + 1 \in 1..n
    BY <2>0
  <2>2. Turns(q[i + 1], w[i], w[i + 1])
    BY <1>1, <2>1 DEF Linked
  <2>3. x[i - 1] = w[i] /\ x[i] = w[i + 1]
    BY <2>1
  <2> QED BY <1>2, <2>2, <2>3
<1>5. Turns(h, first, w[1])
  <2>1. 1 - 1 = 0 /\ w[0] = first
    BY <1>1 DEF Linked
  <2>2. Turns(q[1], w[1 - 1], w[1])
    BY <1>1, <1>2 DEF Linked
  <2> QED BY <1>2, <2>1, <2>2
<1> HIDE DEF x
<1>6. VotesLead(e, w[1], last)
  BY <1>3, <1>4 DEF VotesLead, Linked
<1> QED BY <1>1, <1>5, <1>6

(* How the steps change the queue                                          *)
LEMMA SaysAdds ==
  ASSUME QueueOK, NEW r, IsQueue(r), msgQ' = msgQ \o r, NEW kinds
  PROVE  /\ (\A i \in 1..Len(r) : r[i].msg \notin kinds) => AddsNone(kinds)
         /\ \A j \in 1..Len(r) :
              r[j].msg \in kinds /\ (\A i \in 1..Len(r) : r[i].msg \in kinds => i = j)
                => Adds(kinds, r[j])
<1>1. PICK q, e, n, k : q = msgQ /\ e = msgQ' /\ n = Len(q) /\ k = Len(r)
  OBVIOUS
<1>2. /\ n \in Nat /\ k \in Nat /\ IsQueue(e) /\ Len(e) = n + k
      /\ \A i \in 1..n : e[i] = q[i]
      /\ \A i \in 1..k : e[n + i] = r[i]
  BY <1>1, QueueConcat DEF QueueOK
<1>3. ASSUME NEW i \in 1..Len(e) PROVE i \in 1..n \/ (i - n \in 1..k /\ e[i] = r[i - n] /\ n + (i - n) = i)
  <2>1. i \in 1..n \/ (i - n \in 1..k /\ n + (i - n) = i)
    BY <1>2
  <2> QED BY <1>2, <2>1
<1>4. Grows
  <2>1. n <= Len(e) /\ \A i \in 1..n : i \in 1..Len(e)
    BY <1>2
  <2> QED BY <1>1, <1>2, <2>1 DEF Grows, QueueOK
<1>5. ASSUME \A i \in 1..k : r[i].msg \notin kinds PROVE AddsNone(kinds)
  BY <1>1, <1>3, <1>4, <1>5 DEF AddsNone
<1>6. ASSUME NEW j \in 1..k, r[j].msg \in kinds, \A i \in 1..k : r[i].msg \in kinds => i = j
      PROVE  Adds(kinds, r[j])
  <2>1. n + j \in 1..Len(e) /\ n + j > n /\ e[n + j] = r[j]
    BY <1>2
  <2>2. \A i \in 1..Len(e) : e[i].msg \in kinds => i \in 1..n \/ i = n + j
    BY <1>3, <1>6
  <2> QED BY <1>1, <1>4, <1>6, <2>1, <2>2 DEF Adds, AddsAt
<1> QED BY <1>1, <1>5, <1>6

LEMMA SaysOneAdds ==
  ASSUME QueueOK, NEW m, msgQ' = msgQ \o <<m>>, NEW kinds
  PROVE  IF m.msg \in kinds THEN Adds(kinds, m) ELSE AddsNone(kinds)
<1>1. PICK r : r = <<m>> /\ IsQueue(r) /\ Len(r) = 1 /\ r[1] = m
  BY ShortQueues
<1>2. msgQ' = msgQ \o r
  BY <1>1
<1>3. 1 \in 1..Len(r) /\ \A i \in 1..Len(r) : i = 1
  BY <1>1
<1> QED BY <1>1, <1>2, <1>3, SaysAdds

LEMMA StepsAddNone ==
  ASSUME QueueOK, NEW few, QueueStep(few), NEW kinds, few \cap kinds = {}
  PROVE  AddsNone(kinds) \/ \E h : Drops(h) /\ h.msg \notin kinds
<1>1. CASE UNCHANGED msgQ
  <2>1. QueueOK' /\ Len(msgQ) \in Nat
    BY <1>1 DEF QueueOK, IsQueue
  <2> QED BY <1>1, <2>1 DEF AddsNone, Grows
<1>2. CASE msgQ # <<>> /\ Head(msgQ).msg \in few /\ msgQ' = Tail(msgQ)
  BY <1>2 DEF Drops
<1>3. CASE \E r : IsQueue(r) /\ (\A i \in 1..Len(r) : r[i].msg \in few) /\ msgQ' = msgQ \o r
  BY <1>3, SaysAdds
<1> QED BY <1>1, <1>2, <1>3 DEF QueueStep

ThreeParts(r, x, y, z) ==
  /\ IsQueue(r) /\ Len(x) \in Nat /\ Len(y) \in Nat /\ Len(z) \in Nat
  /\ Len(r) = Len(x) + Len(y) + Len(z)
  /\ \A i \in 1..Len(x) : r[i] = x[i]
  /\ \A i \in 1..Len(y) : r[Len(x) + i] = y[i]
  /\ \A i \in 1..Len(z) : r[Len(x) + Len(y) + i] = z[i]

LEMMA ThreeQueues ==
  ASSUME NEW x, IsQueue(x), NEW y, IsQueue(y), NEW z, IsQueue(z)
  PROVE  ThreeParts(x \o y \o z, x, y, z)
<1> DEFINE r == x \o y \o z
<1>1. PICK l : l = x \o y
  OBVIOUS
<1>2. /\ Len(x) \in Nat /\ Len(y) \in Nat /\ IsQueue(l) /\ Len(l) = Len(x) + Len(y)
      /\ \A i \in 1..Len(x) : l[i] = x[i]
      /\ \A i \in 1..Len(y) : l[Len(x) + i] = y[i]
  BY <1>1, QueueConcat
<1>3. r = l \o z
  BY <1>1
<1> HIDE DEF r
<1>4. /\ Len(z) \in Nat /\ IsQueue(r) /\ Len(r) = Len(l) + Len(z)
      /\ \A i \in 1..Len(l) : r[i] = l[i]
      /\ \A i \in 1..Len(z) : r[Len(l) + i] = z[i]
  <2>1. IsQueue(l) /\ IsQueue(z) /\ r = l \o z
    BY <1>2, <1>3
  <2> QED BY ONLY <2>1, QueueConcat
<1>5. /\ \A i \in 1..Len(x) : i \in 1..Len(l)
      /\ \A i \in 1..Len(y) : Len(x) + i \in 1..Len(l)
  BY <1>2
<1>6. ThreeParts(r, x, y, z)
  BY <1>2, <1>4, <1>5 DEF ThreeParts
<1> QED BY <1>6 DEF r

(* What setCallback adds: what enables the client, and the configuration   *)
Power == [msg |-> "Enable", id |-> mSessionId + 1]
Change == [msg |-> "UpdateConfig", config |-> mPendingConfig]
NoChange == mApi \/ UpdateMsgs(mPendingConfig) = <<>>

LEMMA SetCallbackAdds ==
  ASSUME QueueOK, setCallback
  PROVE  /\ IF mEnabled THEN AddsNone(Asking) /\ AddsNone(Switching)
            ELSE Adds(Asking, Power) /\ Adds(Switching, Power)
         /\ IF NoChange THEN AddsNone({"UpdateConfig"}) ELSE Adds({"UpdateConfig"}, Change)
<1>1. PICK request, power, change : /\ request = [msg |-> "RequestCapabilities"]
                                    /\ power = Power /\ change = Change
  OBVIOUS
<1>2. PICK x, y, z : /\ x = IF ~mApi THEN <<request>> ELSE <<>>
                     /\ y = IF ~mApi THEN UpdateMsgs(mPendingConfig) ELSE <<>>
                     /\ z = EnableMsgs
  OBVIOUS
<1>3. PICK r : r = x \o y \o z
  OBVIOUS
<1>4. msgQ' = msgQ \o r
  BY <1>1, <1>2, <1>3 DEF setCallback, Says
<1>5. /\ IsQueue(x) /\ Len(x) \in 0..1
      /\ \A i \in 1..Len(x) : x[i].msg = "RequestCapabilities"
  BY <1>1, <1>2, ShortQueues
<1>6. /\ IsQueue(y) /\ Len(y) = IF NoChange THEN 0 ELSE 1
      /\ ~NoChange => y[1] = change
  <2>1. y = IF NoChange THEN <<>> ELSE <<change>>
    BY <1>1, <1>2 DEF NoChange, UpdateMsgs, Change
  <2> QED BY <2>1, ShortQueues
<1>7. /\ IsQueue(z) /\ Len(z) = IF mEnabled THEN 0 ELSE 1
      /\ ~mEnabled => z[1] = power
  <2>1. z = IF mEnabled THEN <<>> ELSE <<power>>
    BY <1>1, <1>2 DEF EnableMsgs, Power
  <2> QED BY <2>1, ShortQueues
<1>8. change.msg = "UpdateConfig" /\ power.msg = "Enable"
  BY <1>1 DEF Change, Power
<1>9. PICK a, b, c : a = Len(x) /\ b = Len(y) /\ c = Len(z)
  OBVIOUS
<1>10. /\ IsQueue(r) /\ a \in 0..1 /\ b \in 0..1 /\ c \in 0..1 /\ Len(r) = a + b + c
       /\ \A i \in 1..a : r[i].msg = "RequestCapabilities"
       /\ b = 1 => r[a + 1] = change
       /\ c = 1 => r[a + b + 1] = power
       /\ (b = 0 <=> NoChange) /\ (c = 0 <=> mEnabled)
  <2>1. /\ IsQueue(r) /\ Len(r) = a + b + c
        /\ \A i \in 1..a : r[i] = x[i]
        /\ \A i \in 1..b : r[a + i] = y[i]
        /\ \A i \in 1..c : r[a + b + i] = z[i]
    <3>1. IsQueue(x) /\ IsQueue(y) /\ IsQueue(z)
      BY <1>5, <1>6, <1>7
    <3>2. ThreeParts(r, x, y, z)
      BY ONLY <1>3, <3>1, ThreeQueues
    <3> QED BY ONLY <1>9, <3>2 DEF ThreeParts
  <2>2. a \in 0..1 /\ b \in 0..1 /\ c \in 0..1 /\ (b = 0 <=> NoChange) /\ (c = 0 <=> mEnabled)
    BY <1>5, <1>6, <1>7, <1>9
  <2>3. ASSUME b = 1 PROVE r[a + 1] = change
    BY <1>6, <2>1, <2>2, <2>3
  <2>4. ASSUME c = 1 PROVE r[a + b + 1] = power
    BY <1>7, <2>1, <2>2, <2>4
  <2>5. \A i \in 1..a : r[i].msg = "RequestCapabilities"
    BY <1>5, <1>9, <2>1
  <2> QED BY <2>1, <2>2, <2>3, <2>4, <2>5
<1>11. ASSUME NEW i \in 1..Len(r)
       PROVE  \/ r[i].msg = "RequestCapabilities"
              \/ b = 1 /\ i = a + 1 /\ r[i].msg = "UpdateConfig"
              \/ c = 1 /\ i = a + b + 1 /\ r[i].msg = "Enable"
  <2>1. \/ i \in 1..a
        \/ b = 1 /\ i = a + 1
        \/ c = 1 /\ i = a + b + 1
    BY <1>10
  <2> QED BY <1>8, <1>10, <2>1
<1>12. ASSUME NEW kinds, "Enable" \in kinds, {"RequestCapabilities", "UpdateConfig"} \cap kinds = {}
       PROVE  IF mEnabled THEN AddsNone(kinds) ELSE Adds(kinds, power)
  <2>1. CASE mEnabled
    <3>1. \A i \in 1..Len(r) : r[i].msg \notin kinds
      BY <1>10, <1>11, <1>12, <2>1
    <3> QED BY <1>4, <1>10, <2>1, <3>1, SaysAdds
  <2>2. CASE ~mEnabled
    <3>1. a + b + 1 \in 1..Len(r)
      BY <1>10, <2>2
    <3>2. \A i \in 1..Len(r) : r[i].msg \in kinds => i = a + b + 1
      BY <1>11, <1>12
    <3>3. r[a + b + 1] = power
      BY <1>10, <2>2
    <3> QED BY <1>4, <1>8, <1>10, <1>12, <2>2, <3>1, <3>2, <3>3, SaysAdds
  <2> QED BY <2>1, <2>2
<1>13. IF NoChange THEN AddsNone({"UpdateConfig"}) ELSE Adds({"UpdateConfig"}, change)
  <2>1. CASE NoChange
    <3>1. \A i \in 1..Len(r) : r[i].msg \notin {"UpdateConfig"}
      BY <1>10, <1>11, <2>1
    <3> QED BY <1>4, <1>10, <2>1, <3>1, SaysAdds
  <2>2. CASE ~NoChange
    <3>1. a + 1 \in 1..Len(r)
      BY <1>10, <2>2
    <3>2. \A i \in 1..Len(r) : r[i].msg \in {"UpdateConfig"} => i = a + 1
      BY <1>11
    <3>3. r[a + 1] = change /\ r[a + 1].msg \in {"UpdateConfig"}
      BY <1>8, <1>10, <2>2
    <3> QED BY <1>4, <1>10, <2>2, <3>1, <3>2, <3>3, SaysAdds
  <2> QED BY <2>1, <2>2
<1> QED BY <1>1, <1>12, <1>13 DEF Asking, Switching

(* What makes ControlInStep inductive                                      *)
Ctl == mRequestQueues["CONTROL"]
Del == mRequestQueues["DELETE"]
Cfg == mRequestQueues["CONFIG"]
VoteWanted == IF mEnabled THEN Ctl.session ELSE 0
Request == Asking \cup {"UpdateConfig"}

ClientTypeOK ==
  /\ mSessionId \in Nat /\ mEnabled \in BOOLEAN
  /\ mRequestQueues \in [{"CONTROL", "DELETE", "CONFIG"} -> [session : Nat, requests : Seq(Request)]]
SessionsOK ==
  /\ Ctl.session <= mSessionId /\ Del.session <= mSessionId
  /\ Ctl.session = Del.session => Ctl.session = 0
  /\ mEnabled => Ctl.session # 0
AskingIds == \A i \in 1..Len(msgQ) : msgQ[i].msg \in Asking => msgQ[i].id \in 1..mSessionId
RequestsMatch ==
  /\ Matches(Ctl.session, Ctl.requests)
  /\ Matches(Del.session, Del.requests)
  /\ Len(Cfg.requests) = Cardinality(Queued({"UpdateConfig"}))
VotesMatch == VotesLead(msgQ, powerVoteId, VoteWanted)
ClientInv == QueueOK /\ ClientTypeOK /\ SessionsOK /\ AskingIds /\ RequestsMatch /\ VotesMatch

LEMMA RequestTypes ==
  ASSUME ClientTypeOK
  PROVE  /\ Ctl.session \in Nat /\ Del.session \in Nat
         /\ IsQueue(Ctl.requests) /\ IsQueue(Del.requests) /\ IsQueue(Cfg.requests)
         /\ Ctl.requests \in Seq(Request) /\ Del.requests \in Seq(Request)
         /\ Cfg.requests \in Seq(Request) /\ Len(Cfg.requests) \in Nat
<1>1. \A q \in {"CONTROL", "DELETE", "CONFIG"} :
        mRequestQueues[q].session \in Nat /\ mRequestQueues[q].requests \in Seq(Request)
  BY DEF ClientTypeOK
<1>2. \A q \in {"CONTROL", "DELETE", "CONFIG"} :
        IsQueue(mRequestQueues[q].requests) /\ Len(mRequestQueues[q].requests) \in Nat
  BY <1>1, QueueOf
<1> QED BY <1>1, <1>2 DEF Ctl, Del, Cfg

LEMMA IdsMore ==
  ASSUME ClientTypeOK, AskingIds, mSessionId' \in Nat, mSessionId <= mSessionId',
         \/ AddsNone(Asking)
         \/ \E m : Adds(Asking, m) /\ m.id \in 1..mSessionId'
         \/ \E h : Drops(h)
  PROVE  AskingIds'
<1> SUFFICES ASSUME NEW i \in 1..Len(msgQ'), msgQ'[i].msg \in Asking
             PROVE  msgQ'[i].id \in 1..mSessionId'
  BY DEF AskingIds
<1>1. ASSUME NEW j \in 1..Len(msgQ), msgQ'[i] = msgQ[j] PROVE msgQ'[i].id \in 1..mSessionId'
  <2>1. msgQ[j].id \in 1..mSessionId
    BY <1>1 DEF AskingIds
  <2> QED BY <1>1, <2>1 DEF ClientTypeOK
<1>2. CASE AddsNone(Asking)
  <2>1. i \in 1..Len(msgQ) /\ msgQ'[i] = msgQ[i]
    BY <1>2 DEF AddsNone, Grows
  <2> QED BY <1>1, <2>1
<1>3. CASE \E m : Adds(Asking, m) /\ m.id \in 1..mSessionId'
  <2>1. (i \in 1..Len(msgQ) /\ msgQ'[i] = msgQ[i]) \/ msgQ'[i].id \in 1..mSessionId'
    BY <1>3 DEF Adds, AddsAt, Grows
  <2> QED BY <1>1, <2>1
<1>4. CASE \E h : Drops(h)
  <2>1. i + 1 \in 1..Len(msgQ) /\ msgQ'[i] = msgQ[i + 1]
    BY <1>4, QueuedLess DEF IsOneLess
  <2> QED BY <1>1, <2>1
<1> QED BY <1>2, <1>3, <1>4

(* A session that has not been given out has no messages.                  *)
LEMMA Fresh ==
  ASSUME QueueOK, ClientTypeOK, AskingIds, NEW s \in Nat, s = 0 \/ s > mSessionId
  PROVE  Matches(s, <<>>)
<1>1. Own(s) = {}
  <2> SUFFICES ASSUME NEW i \in Own(s) PROVE FALSE
    OBVIOUS
  <2>1. i \in 1..Len(msgQ) /\ msgQ[i].msg \in Asking /\ msgQ[i].id = s
    BY QueuedAre DEF Own
  <2>2. s \in 1..mSessionId
    BY <2>1 DEF AskingIds
  <2> QED BY <2>2 DEF ClientTypeOK
<1>2. Len(<<>>) = 0 /\ Cardinality({}) = 0
  BY FS_EmptySet
<1> QED BY <1>1, <1>2 DEF Matches, EndsWith

(* The step leaves the messages of these kinds alone, but for its head     *)
Keeps(kinds) == AddsNone(kinds) \/ \E h : Drops(h) /\ h.msg \notin kinds

LEMMA MatchesKept ==
  ASSUME Keeps(Asking), NEW s, NEW r, IsQueue(r), Matches(s, r)
  PROVE  Matches(s, r)'
BY MatchesSame, MatchesLess DEF Keeps

LEMMA VotesKept ==
  ASSUME Keeps(Switching), NEW first, NEW last, VotesLead(msgQ, first, last)
  PROVE  VotesLead(msgQ', first, last)
<1>1. CASE AddsNone(Switching)
  BY <1>1, VotesSame
<1>2. ASSUME NEW h, Drops(h), h.msg \notin Switching
      PROVE  VotesLead(msgQ', first, last)
  BY <1>2, VotesLess DEF Turns
<1> QED BY <1>1, <1>2 DEF Keeps

LEMMA CountKept ==
  ASSUME Keeps({"UpdateConfig"})
  PROVE  Cardinality(Queued({"UpdateConfig"}))' = Cardinality(Queued({"UpdateConfig"}))
BY QueuedCount DEF Keeps

LEMMA StepsKeep ==
  ASSUME QueueOK, NEW few, QueueStep(few), NEW kinds, few \cap kinds = {}
  PROVE  Keeps(kinds)
BY StepsAddNone DEF Keeps

(* Whatever else the adapter does *)
LEMMA ClientKept ==
  ASSUME ClientInv, QueueOK', UNCHANGED <<mEnabled, mRequestQueues, mSessionId, powerVoteId>>,
         Keeps(Asking), Keeps(Switching), Keeps({"UpdateConfig"})
  PROVE  ClientInv'
<1> USE DEF ClientInv
<1>1. ClientTypeOK' /\ SessionsOK'
  BY DEF ClientTypeOK, SessionsOK, Ctl, Del
<1>2. AskingIds'
  BY IdsMore DEF ClientTypeOK, Keeps
<1>3. PICK c, d, f : c = Ctl /\ d = Del /\ f = Cfg /\ c = Ctl' /\ d = Del' /\ f = Cfg'
  BY DEF Ctl, Del, Cfg
<1>4. RequestsMatch'
  <2>1. IsQueue(c.requests) /\ IsQueue(d.requests)
    BY <1>3, RequestTypes
  <2>2. Matches(c.session, c.requests) /\ Matches(d.session, d.requests)
    BY <1>3 DEF RequestsMatch
  <2>3. Matches(c.session, c.requests)' /\ Matches(d.session, d.requests)'
    BY <2>1, <2>2, MatchesKept
  <2>4. Len(f.requests) = Cardinality(Queued({"UpdateConfig"}))'
    BY <1>3, CountKept DEF RequestsMatch
  <2> QED BY <1>3, <2>3, <2>4 DEF RequestsMatch
<1>5. VotesMatch'
  <2>1. PICK a, b : /\ a = powerVoteId /\ b = VoteWanted /\ a = powerVoteId' /\ b = VoteWanted'
                    /\ VotesLead(msgQ, a, b)
    BY DEF VotesMatch, VoteWanted, Ctl
  <2>2. VotesLead(msgQ', a, b)
    BY <2>1, VotesKept
  <2> QED BY <2>1, <2>2 DEF VotesMatch
<1> QED BY <1>1, <1>2, <1>4, <1>5

(* A change of the configuration, and its response: only its own requests  *)
(* are concerned.                                                          *)
LEMMA ClientConfigures ==
  ASSUME ClientInv, QueueOK', UNCHANGED <<mEnabled, mSessionId, powerVoteId>>,
         Keeps(Asking), Keeps(Switching), NEW r \in Seq(Request),
         mRequestQueues' = [mRequestQueues EXCEPT !["CONFIG"].requests = r],
         Len(r) = Cardinality(Queued({"UpdateConfig"}))'
  PROVE  ClientInv'
<1> USE DEF ClientInv
<1>1. PICK c, d : c = Ctl /\ d = Del /\ c = Ctl' /\ d = Del' /\ Cfg'.requests = r
  BY DEF Ctl, Del, Cfg, ClientTypeOK
<1>2. ClientTypeOK'
  BY DEF ClientTypeOK
<1>3. SessionsOK'
  BY <1>1 DEF SessionsOK
<1>4. AskingIds'
  BY IdsMore DEF ClientTypeOK, Keeps
<1>5. RequestsMatch'
  <2>1. IsQueue(c.requests) /\ IsQueue(d.requests)
    BY <1>1, RequestTypes
  <2>2. Matches(c.session, c.requests) /\ Matches(d.session, d.requests)
    BY <1>1 DEF RequestsMatch
  <2>3. Matches(c.session, c.requests)' /\ Matches(d.session, d.requests)'
    BY <2>1, <2>2, MatchesKept
  <2> QED BY <1>1, <2>3 DEF RequestsMatch
<1>6. VotesMatch'
  <2>1. PICK a, b : /\ a = powerVoteId /\ b = VoteWanted /\ a = powerVoteId' /\ b = VoteWanted'
                    /\ VotesLead(msgQ, a, b)
    BY <1>1 DEF VotesMatch, VoteWanted
  <2>2. VotesLead(msgQ', a, b)
    BY <2>1, VotesKept
  <2> QED BY <2>1, <2>2 DEF VotesMatch
<1> QED BY <1>2, <1>3, <1>4, <1>5, <1>6

LEMMA ClientUpdates ==
  ASSUME ClientInv, QueueOK', NEW i, NEW v, updateConfiguration(i, v)
  PROVE  ClientInv'
<1> DEFINE config == Only(i, v)
           change == [msg |-> "UpdateConfig", config |-> config]
<1>1. UNCHANGED <<mEnabled, mSessionId, powerVoteId>>
  BY DEF updateConfiguration, confVars
<1>2. CASE UNCHANGED <<msgQ, mRequestQueues>>
  <2>1. \A kinds : Keeps(kinds)
    BY <1>2, StepsKeep DEF ClientInv, QueueStep, Keeps, AddsNone, Grows, QueueOK, IsQueue
  <2> QED BY <1>1, <1>2, <2>1, ClientKept
<1>3. CASE mApi /\ UpdateMsgs(config) # <<>>
  <2>1. /\ msgQ' = msgQ \o <<change>>
        /\ mRequestQueues' = [mRequestQueues EXCEPT !["CONFIG"].requests = Append(@, "UpdateConfig")]
    BY <1>3 DEF updateConfiguration, UpdateMsgs, UpdateRequests, Says
  <2>2. change.msg = "UpdateConfig"
    OBVIOUS
  <2> HIDE DEF change
  <2>3. QueueOK
    BY DEF ClientInv
  <2>4. Keeps(Asking) /\ Keeps(Switching) /\ Adds({"UpdateConfig"}, change)
    BY <2>1, <2>2, <2>3, SaysOneAdds DEF Keeps, Asking, Switching
  <2>5. PICK r : r = Append(Cfg.requests, "UpdateConfig")
    OBVIOUS
  <2>6. r \in Seq(Request) /\ Len(r) = Len(Cfg.requests) + 1
    BY <2>5, RequestTypes DEF ClientInv, Request
  <2>7. Len(r) = Cardinality(Queued({"UpdateConfig"}))'
    BY <2>4, <2>6, QueuedCount DEF ClientInv, RequestsMatch
  <2>8. mRequestQueues' = [mRequestQueues EXCEPT !["CONFIG"].requests = r]
    BY <2>1, <2>5 DEF Cfg, ClientInv, ClientTypeOK
  <2> QED BY <1>1, <2>4, <2>6, <2>7, <2>8, ClientConfigures
<1>4. CASE mApi /\ UpdateMsgs(config) = <<>>
  <2>1. mRequestQueues' = mRequestQueues /\ msgQ' = msgQ \o <<>>
    BY <1>4 DEF updateConfiguration, UpdateRequests, Says
  <2>2. msgQ' = msgQ
    BY <2>1, ConcatNothing DEF ClientInv, QueueOK
  <2> QED BY <1>2, <2>1, <2>2
<1>5. CASE ~mApi
  BY <1>2, <1>5 DEF updateConfiguration
<1> QED BY <1>3, <1>4, <1>5

LEMMA ReceiveDrops ==
  ASSUME QueueOK, NEW kind, Receive(kind)
  PROVE  /\ Drops(Head(msgQ)) /\ Head(msgQ).msg = kind
         /\ \A kinds : kind \notin kinds => Keeps(kinds)
BY DEF Receive, Takes, Drops, Keeps

LEMMA ClientConfigured ==
  ASSUME ClientInv, QueueOK', gnssUpdateConfig
  PROVE  ClientInv'
<1>1. /\ UNCHANGED <<mEnabled, mSessionId, powerVoteId>> /\ Receive("UpdateConfig")
      /\ mRequestQueues' = [mRequestQueues EXCEPT !["CONFIG"].requests = Tail(@)]
  BY DEF gnssUpdateConfig
<1>2. QueueOK
  BY DEF ClientInv
<1>3. PICK h : h = Head(msgQ) /\ Drops(h) /\ h.msg = "UpdateConfig"
  BY <1>1, <1>2, ReceiveDrops
<1>4. Keeps(Asking) /\ Keeps(Switching)
  BY <1>1, <1>2, ReceiveDrops DEF Asking, Switching
<1>5. PICK r, s : r = Tail(Cfg.requests) /\ s = Cfg.requests
  OBVIOUS
<1>6. Cardinality(Queued({"UpdateConfig"}))' = Len(s) - 1
  BY <1>3, <1>5, QueuedCount DEF ClientInv, RequestsMatch
<1>7. s # <<>>
  <2>1. 1 \in Queued({"UpdateConfig"})
    BY <1>3, QueuedLess
  <2>2. Queued({"UpdateConfig"}) \in SUBSET (1..Len(msgQ)) /\ Len(msgQ) \in Nat
    BY <1>2, QueuedAre
  <2>3. PICK P : P = Queued({"UpdateConfig"}) /\ IsFiniteSet(P)
    BY <2>2, PositionsFinite
  <2>4. Cardinality(P) # 0
    BY <2>1, <2>3, FS_EmptySet
  <2> QED BY <1>5, <2>3, <2>4 DEF ClientInv, RequestsMatch
<1>8. s \in Seq(Request)
  BY <1>5, RequestTypes DEF ClientInv
<1>9. r \in Seq(Request) /\ Len(r) = Len(s) - 1
  BY <1>5, <1>7, <1>8
<1>10. mRequestQueues' = [mRequestQueues EXCEPT !["CONFIG"].requests = r]
  BY <1>1, <1>5 DEF Cfg, ClientInv, ClientTypeOK
<1> QED BY <1>1, <1>4, <1>6, <1>9, <1>10, ClientConfigures

(* A response: the session that is asked has the request at the head.      *)
LEMMA ClientAnswered ==
  ASSUME ClientInv, QueueOK', UNCHANGED <<mEnabled, mSessionId>>,
         NEW h, Drops(h), h.msg \in Asking, mRequestQueues' = popBySession(h.id),
         \A next : Turns(h, powerVoteId, next) => powerVoteId' = next
  PROVE  ClientInv'
<1> USE DEF ClientInv
<1>1. PICK c, d, f : c = Ctl /\ d = Del /\ f = Cfg
  OBVIOUS
<1>2. h.id \in 1..mSessionId
  BY QueuedLess DEF AskingIds, Drops, IsOneLess
<1>3. h.id \in Nat \ {0}
  BY <1>2 DEF ClientTypeOK
<1>4. /\ IsQueue(c.requests) /\ IsQueue(d.requests)
      /\ c.session \in Nat /\ d.session \in Nat
      /\ Matches(c.session, c.requests) /\ Matches(d.session, d.requests)
  BY <1>1, RequestTypes DEF RequestsMatch
<1>5. /\ IF h.id = c.session THEN c.requests # <<>> /\ Matches(c.session, Tail(c.requests))'
         ELSE Matches(c.session, c.requests)'
      /\ IF h.id = d.session THEN d.requests # <<>> /\ Matches(d.session, Tail(d.requests))'
         ELSE Matches(d.session, d.requests)'
  BY <1>4, MatchesLess
<1>6. h.id = c.session => h.id # d.session
  BY <1>1, <1>3 DEF SessionsOK
<1>7. /\ Ctl'.session = c.session /\ Del'.session = d.session /\ Cfg' = f
      /\ Ctl'.requests = IF h.id = c.session THEN Tail(c.requests) ELSE c.requests
      /\ Del'.requests = IF h.id = d.session THEN Tail(d.requests) ELSE d.requests
      /\ ClientTypeOK'
  <2>1. ASSUME NEW s \in Seq(Request), s # <<>> PROVE Tail(s) \in Seq(Request)
    BY <2>1
  <2>2. c.requests \in Seq(Request) /\ d.requests \in Seq(Request)
    BY <1>1, RequestTypes
  <2>3. CASE h.id = c.session
    <3>1. mRequestQueues' = [mRequestQueues EXCEPT !["CONTROL"].requests = Tail(@)]
      BY <1>1, <1>5, <2>3 DEF popBySession, Ctl
    <3>2. Tail(c.requests) \in Seq(Request)
      BY <1>5, <2>1, <2>2, <2>3
    <3> QED BY <1>1, <1>6, <2>3, <3>1, <3>2 DEF Ctl, Del, Cfg, ClientTypeOK
  <2>4. CASE h.id = d.session
    <3>1. mRequestQueues' = [mRequestQueues EXCEPT !["DELETE"].requests = Tail(@)]
      BY <1>1, <1>5, <1>6, <2>4 DEF popBySession, Ctl, Del
    <3>2. Tail(d.requests) \in Seq(Request)
      BY <1>5, <2>1, <2>2, <2>4
    <3> QED BY <1>1, <1>6, <2>4, <3>1, <3>2 DEF Ctl, Del, Cfg, ClientTypeOK
  <2>5. CASE h.id # c.session /\ h.id # d.session
    <3>1. mRequestQueues' = mRequestQueues
      BY <1>1, <2>5 DEF popBySession, Ctl, Del
    <3> QED BY <1>1, <2>5, <3>1 DEF Ctl, Del, Cfg, ClientTypeOK
  <2> QED BY <2>3, <2>4, <2>5
<1>8. SessionsOK'
  BY <1>1, <1>7 DEF SessionsOK
<1>9. AskingIds'
  BY IdsMore DEF ClientTypeOK
<1>10. RequestsMatch'
  <2>1. PICK x, y : x = Ctl' /\ y = Del'
    OBVIOUS
  <2>2. x.session = c.session /\ Matches(x.session, x.requests)'
    BY <1>5, <1>7, <2>1
  <2>3. y.session = d.session /\ Matches(y.session, y.requests)'
    BY <1>5, <1>7, <2>1
  <2>4. Len(f.requests) = Cardinality(Queued({"UpdateConfig"}))'
    <3>1. h.msg \notin {"UpdateConfig"}
      BY DEF Asking
    <3> QED BY <1>1, <3>1, CountKept DEF RequestsMatch, Keeps
  <2> QED BY <1>7, <2>1, <2>2, <2>3, <2>4 DEF RequestsMatch
<1>11. VotesMatch'
  <2>1. PICK a, b : a = powerVoteId /\ b = VoteWanted /\ b = VoteWanted' /\ VotesLead(msgQ, a, b)
    BY <1>1, <1>7 DEF VotesMatch, VoteWanted
  <2>2. PICK next : Turns(h, a, next) /\ VotesLead(msgQ', next, b)
    BY <2>1, VotesLess
  <2> QED BY <2>1, <2>2 DEF VotesMatch
<1> QED BY <1>7, <1>8, <1>9, <1>10, <1>11

LEMMA ClientResponses ==
  ASSUME ClientInv, QueueOK', powerVoteId \in Nat, enable \/ disable \/ deleteAidingData
  PROVE  ClientInv'
<1>1. QueueOK /\ AskingIds /\ ClientTypeOK
  BY DEF ClientInv
<1>2. PICK h : h = Head(msgQ)
  OBVIOUS
<1>3. UNCHANGED <<mEnabled, mSessionId>> /\ mRequestQueues' = popBySession(h.id)
  BY <1>2 DEF enable, disable, deleteAidingData
<1>4. Drops(h) /\ h.msg \in Asking
  BY <1>1, <1>2, ReceiveDrops DEF enable, disable, deleteAidingData, Asking
<1>6. ASSUME NEW next, Turns(h, powerVoteId, next) PROVE powerVoteId' = next
  <2>1. CASE enable
    <3>1. h.msg = "Enable"
      BY <1>1, <1>2, <2>1, ReceiveDrops DEF enable
    <3>2. powerVoteId = 0 /\ next = h.id
      BY <1>6, <3>1 DEF Turns, Switching, VoteBefore, VoteAfter
    <3> QED BY <1>2, <2>1, <3>2 DEF enable
  <2>2. CASE disable
    <3>1. h.msg = "Disable"
      BY <1>1, <1>2, <2>2, ReceiveDrops DEF disable
    <3>2. powerVoteId = h.id /\ next = 0
      BY <1>6, <3>1 DEF Turns, Switching, VoteBefore, VoteAfter
    <3> QED BY <1>2, <2>2, <3>2 DEF disable, DropVote
  <2>3. CASE deleteAidingData
    <3>1. h.msg = "DeleteAidingData"
      BY <1>1, <1>2, <2>3, ReceiveDrops DEF deleteAidingData
    <3>2. next = powerVoteId
      BY <1>6, <3>1 DEF Turns, Switching
    <3> QED BY <2>3, <3>2 DEF deleteAidingData, confVars
  <2> QED BY <2>1, <2>2, <2>3
<1> QED BY <1>3, <1>4, <1>6, ClientAnswered

(* A call: its request joins those of its session, which may be new. The   *)
(* votes follow the client's.                                              *)
LEMMA ClientCalls ==
  ASSUME ClientInv, QueueOK', NEW m, Adds(Asking, m), ClientTypeOK', SessionsOK',
         mSessionId <= mSessionId', m.id \in 1..mSessionId',
         NEW c, c = Ctl', NEW d, d = Del',
         \/ c = Ctl /\ c.session # m.id
         \/ \E r : IsQueue(r) /\ Matches(c.session, r) /\ c.session = m.id /\ c.requests = Append(r, m.msg),
         \/ d = Del /\ d.session # m.id
         \/ \E r : IsQueue(r) /\ Matches(d.session, r) /\ d.session = m.id /\ d.requests = Append(r, m.msg),
         Len(Cfg'.requests) = Cardinality(Queued({"UpdateConfig"}))',
         powerVoteId' = powerVoteId,
         \/ Keeps(Switching) /\ VoteWanted' = VoteWanted
         \/ Adds(Switching, m) /\ Turns(m, VoteWanted, VoteWanted')
  PROVE  ClientInv'
<1> USE DEF ClientInv
<1>1. AskingIds'
  BY IdsMore DEF ClientTypeOK
<1>2. Matches(c.session, c.requests)'
  <2>1. CASE c = Ctl /\ c.session # m.id
    <3>1. IsQueue(c.requests) /\ Matches(c.session, c.requests)
      BY <2>1, RequestTypes DEF RequestsMatch
    <3> QED BY <2>1, <3>1, MatchesMore
  <2>2. ASSUME NEW r, IsQueue(r), Matches(c.session, r), c.session = m.id, c.requests = Append(r, m.msg)
        PROVE  Matches(c.session, c.requests)'
    BY <2>2, MatchesMore
  <2> QED BY <2>1, <2>2
<1>3. Matches(d.session, d.requests)'
  <2>1. CASE d = Del /\ d.session # m.id
    <3>1. IsQueue(d.requests) /\ Matches(d.session, d.requests)
      BY <2>1, RequestTypes DEF RequestsMatch
    <3> QED BY <2>1, <3>1, MatchesMore
  <2>2. ASSUME NEW r, IsQueue(r), Matches(d.session, r), d.session = m.id, d.requests = Append(r, m.msg)
        PROVE  Matches(d.session, d.requests)'
    BY <2>2, MatchesMore
  <2> QED BY <2>1, <2>2
<1>4. RequestsMatch'
  BY <1>2, <1>3 DEF RequestsMatch
<1>5. VotesMatch'
  <2>1. PICK a, b, e : a = powerVoteId /\ b = VoteWanted /\ e = VoteWanted' /\ VotesLead(msgQ, a, b)
    BY DEF VotesMatch
  <2>2. VotesLead(msgQ', a, e)
    <3>1. CASE Keeps(Switching) /\ VoteWanted' = VoteWanted
      BY <2>1, <3>1, VotesKept
    <3>2. CASE Adds(Switching, m) /\ Turns(m, VoteWanted, VoteWanted')
      BY <2>1, <3>2, VotesMore
    <3> QED BY <3>1, <3>2
  <2> QED BY <2>1, <2>2 DEF VotesMatch
<1> QED BY <1>1, <1>4, <1>5

LEMMA ClientCleansUp ==
  ASSUME ClientInv, QueueOK', cleanup
  PROVE  ClientInv'
<1>1. CASE mApi /\ mEnabled
  <2> DEFINE m == [msg |-> "Disable", id |-> Ctl.session]
  <2>1. /\ msgQ' = msgQ \o <<m>> /\ mEnabled' = FALSE
        /\ mRequestQueues' = [mRequestQueues EXCEPT !["CONTROL"].requests = Append(@, "Disable")]
        /\ UNCHANGED <<mSessionId, powerVoteId>>
    BY <1>1 DEF cleanup, Says, push, confVars, Ctl
  <2>2. m.msg = "Disable" /\ m.id = Ctl.session
    OBVIOUS
  <2> HIDE DEF m
  <2>3. /\ QueueOK /\ ClientTypeOK /\ SessionsOK
        /\ IsQueue(Ctl.requests) /\ Ctl.requests \in Seq(Request)
        /\ Ctl.session \in Nat
        /\ Matches(Ctl.session, Ctl.requests)
    BY RequestTypes DEF ClientInv, RequestsMatch
  <2>4. Adds(Asking, m) /\ Adds(Switching, m) /\ Keeps({"UpdateConfig"})
    BY <2>1, <2>2, <2>3, SaysOneAdds DEF Keeps, Asking, Switching
  <2>5. PICK c, d, r : c = Ctl' /\ d = Del' /\ r = Ctl.requests
    OBVIOUS
  <2>6. Append(r, "Disable") \in Seq(Request)
    BY <2>3, <2>5 DEF Request, Asking
  <2>7. /\ c.session = Ctl.session /\ c.requests = Append(r, "Disable") /\ d = Del /\ Cfg' = Cfg
        /\ ClientTypeOK'
    BY <2>1, <2>3, <2>5, <2>6 DEF ClientTypeOK, Ctl, Del, Cfg
  <2>8. SessionsOK' /\ m.id \in 1..mSessionId' /\ Del.session # m.id
    BY <1>1, <2>1, <2>2, <2>3, <2>5, <2>7 DEF SessionsOK, ClientTypeOK
  <2>9. Len(Cfg'.requests) = Cardinality(Queued({"UpdateConfig"}))'
    BY <2>4, <2>7, CountKept DEF ClientInv, RequestsMatch
  <2>10. Turns(m, VoteWanted, VoteWanted')
    BY <1>1, <2>1, <2>2 DEF Turns, Switching, VoteBefore, VoteAfter, VoteWanted
  <2>11. mSessionId <= mSessionId'
    BY <2>1, <2>3 DEF ClientTypeOK
  <2> QED BY <2>1, <2>2, <2>3, <2>4, <2>5, <2>7, <2>8, <2>9, <2>10, <2>11, ClientCalls
<1>2. CASE ~(mApi /\ mEnabled)
  <2>1. UNCHANGED <<msgQ, mEnabled, mRequestQueues, mSessionId, powerVoteId>>
    BY <1>2 DEF cleanup, confVars
  <2>2. \A kinds : Keeps(kinds)
    BY <2>1, StepsKeep DEF ClientInv, QueueStep, Keeps, AddsNone, Grows, QueueOK, IsQueue
  <2> QED BY <2>1, <2>2, ClientKept
<1> QED BY <1>1, <1>2

LEMMA ClientDeletes ==
  ASSUME ClientInv, QueueOK', gnssDeleteAidingData
  PROVE  ClientInv'
<1> DEFINE s == mSessionId + 1
           m == [msg |-> "DeleteAidingData", id |-> s]
<1>1. /\ msgQ' = msgQ \o <<m>> /\ mSessionId' = s
      /\ mRequestQueues' = [mRequestQueues EXCEPT !["DELETE"] = [session |-> s, requests |-> <<"DeleteAidingData">>]]
      /\ UNCHANGED <<mEnabled, powerVoteId>>
  BY DEF gnssDeleteAidingData, Says, resetAndPush, confVars
<1>2. m.msg = "DeleteAidingData" /\ m.id = s
  OBVIOUS
<1> HIDE DEF m
<1>3. /\ QueueOK /\ ClientTypeOK /\ SessionsOK /\ AskingIds
      /\ Ctl.session \in Nat /\ Del.session \in Nat /\ mSessionId \in Nat
  BY RequestTypes DEF ClientInv, ClientTypeOK
<1>4. Adds(Asking, m) /\ Keeps(Switching) /\ Keeps({"UpdateConfig"})
  BY <1>1, <1>2, <1>3, SaysOneAdds DEF Keeps, Asking, Switching
<1>5. PICK c, d, r : c = Ctl' /\ d = Del' /\ r = <<>>
  OBVIOUS
<1>6. Append(r, "DeleteAidingData") = <<"DeleteAidingData">> /\ <<"DeleteAidingData">> \in Seq(Request)
      /\ IsQueue(r)
  BY <1>5, ShortQueues DEF Request, Asking
<1>7. /\ c = Ctl /\ d.session = s /\ d.requests = <<"DeleteAidingData">> /\ Cfg' = Cfg
      /\ ClientTypeOK'
  BY <1>1, <1>3, <1>5, <1>6 DEF ClientTypeOK, Ctl, Del, Cfg
<1>8. SessionsOK' /\ m.id \in 1..mSessionId' /\ Ctl.session # m.id /\ mSessionId <= mSessionId'
  BY <1>1, <1>2, <1>3, <1>5, <1>7 DEF SessionsOK
<1>9. Len(Cfg'.requests) = Cardinality(Queued({"UpdateConfig"}))'
  BY <1>4, <1>7, CountKept DEF ClientInv, RequestsMatch
<1>10. VoteWanted' = VoteWanted
  BY <1>1, <1>5, <1>7 DEF VoteWanted
<1>11. Matches(d.session, r)
  <2>1. s \in Nat /\ s > mSessionId
    BY <1>3
  <2> QED BY <1>3, <1>5, <1>7, <2>1, Fresh
<1> QED BY <1>1, <1>2, <1>4, <1>5, <1>6, <1>7, <1>8, <1>9, <1>10, <1>11, ClientCalls

LEMMA ClientSetsCallback ==
  ASSUME ClientInv, QueueOK', setCallback
  PROVE  ClientInv'
<1>1. /\ QueueOK /\ ClientTypeOK /\ SessionsOK /\ AskingIds
      /\ Ctl.session \in Nat /\ Del.session \in Nat /\ mSessionId \in Nat
      /\ Cfg.requests \in Seq(Request) /\ Len(Cfg.requests) = Cardinality(Queued({"UpdateConfig"}))
  BY RequestTypes DEF ClientInv, ClientTypeOK, RequestsMatch
<1>2. PICK config : config = IF ~mApi THEN UpdateRequests(mPendingConfig, mRequestQueues)
                             ELSE mRequestQueues
  OBVIOUS
<1>3. /\ mEnabled' = TRUE /\ powerVoteId' = powerVoteId
      /\ mSessionId' = IF mEnabled THEN mSessionId ELSE mSessionId + 1
      /\ mRequestQueues' = IF mEnabled THEN config
                           ELSE [config EXCEPT !["CONTROL"] = [session |-> mSessionId',
                                                               requests |-> <<"Enable">>]]
  BY <1>2 DEF setCallback, EnableClient, confVars
<1>4. PICK r : /\ r \in Seq(Request)
               /\ config = [mRequestQueues EXCEPT !["CONFIG"].requests = r]
               /\ Len(r) = Cardinality(Queued({"UpdateConfig"}))'
  <2>1. CASE NoChange
    <3>1. config = mRequestQueues
      BY <1>2, <2>1 DEF NoChange, UpdateRequests
    <3>2. Keeps({"UpdateConfig"})
      BY <1>1, <2>1, SetCallbackAdds DEF Keeps
    <3>3. config = [mRequestQueues EXCEPT !["CONFIG"].requests = Cfg.requests]
      BY <1>1, <3>1 DEF Cfg, ClientTypeOK
    <3> QED BY <1>1, <3>2, <3>3, CountKept
  <2>2. CASE ~NoChange
    <3>1. config = [mRequestQueues EXCEPT !["CONFIG"].requests = Append(@, "UpdateConfig")]
      BY <1>2, <2>2 DEF NoChange, UpdateRequests
    <3>2. Adds({"UpdateConfig"}, Change)
      BY <1>1, <2>2, SetCallbackAdds
    <3>3. PICK s : s = Append(Cfg.requests, "UpdateConfig")
      OBVIOUS
    <3>4. s \in Seq(Request) /\ Len(s) = Len(Cfg.requests) + 1
      BY <1>1, <3>3 DEF Request
    <3>5. config = [mRequestQueues EXCEPT !["CONFIG"].requests = s]
      BY <1>1, <3>1, <3>3 DEF Cfg, ClientTypeOK
    <3>6. Len(s) = Cardinality(Queued({"UpdateConfig"}))'
      BY <1>1, <3>2, <3>4, QueuedCount
    <3> QED BY <3>4, <3>5, <3>6
  <2> QED BY <2>1, <2>2
<1>5. CASE mEnabled
  <2>1. Keeps(Asking) /\ Keeps(Switching)
    BY <1>1, <1>5, SetCallbackAdds DEF Keeps
  <2>2. UNCHANGED <<mEnabled, mSessionId, powerVoteId>> /\ mRequestQueues' = [mRequestQueues EXCEPT !["CONFIG"].requests = r]
    BY <1>3, <1>4, <1>5
  <2> QED BY <1>4, <2>1, <2>2, ClientConfigures
<1>6. CASE ~mEnabled
  <2>1. PICK m, s : m = Power /\ s = mSessionId + 1
    OBVIOUS
  <2>2. m.msg = "Enable" /\ m.id = s /\ s \in Nat /\ s > mSessionId /\ mSessionId' = s
    BY <1>1, <1>3, <1>6, <2>1 DEF Power
  <2>3. Adds(Asking, m) /\ Adds(Switching, m)
    BY <1>1, <1>6, <2>1, SetCallbackAdds
  <2>4. PICK c, d, e : c = Ctl' /\ d = Del' /\ e = <<>>
    OBVIOUS
  <2>5. Append(e, "Enable") = <<"Enable">> /\ <<"Enable">> \in Seq(Request) /\ IsQueue(e)
    BY <2>4, ShortQueues DEF Request, Asking
  <2>6. /\ c.session = s /\ c.requests = <<"Enable">> /\ d = Del /\ Cfg'.requests = r
        /\ ClientTypeOK'
    <3>1. mRequestQueues' = [[mRequestQueues EXCEPT !["CONFIG"].requests = r]
                                EXCEPT !["CONTROL"] = [session |-> s, requests |-> <<"Enable">>]]
      BY <1>3, <1>4, <1>6, <2>2
    <3>2. PICK f, h : /\ f = [mRequestQueues EXCEPT !["CONFIG"].requests = r]
                      /\ h = [session |-> s, requests |-> <<"Enable">>]
      OBVIOUS
    <3>3. /\ f \in [{"CONTROL", "DELETE", "CONFIG"} -> [session : Nat, requests : Seq(Request)]]
          /\ f["DELETE"] = Del /\ f["CONFIG"].requests = r
      BY <1>1, <1>4, <3>2 DEF ClientTypeOK, Del
    <3>4. h \in [session : Nat, requests : Seq(Request)] /\ h.session = s /\ h.requests = <<"Enable">>
      BY <2>2, <2>5, <3>2
    <3>5. mRequestQueues' = [f EXCEPT !["CONTROL"] = h]
      BY <3>1, <3>2
    <3>6. Ctl' = h /\ Del' = Del /\ Cfg'.requests = r
      BY <3>3, <3>5 DEF Ctl, Del, Cfg
    <3>7. ClientTypeOK'
      <4>1. mRequestQueues' \in [{"CONTROL", "DELETE", "CONFIG"} -> [session : Nat, requests : Seq(Request)]]
        BY <3>3, <3>4, <3>5
      <4>2. mSessionId' \in Nat /\ mEnabled' \in BOOLEAN
        BY <1>3, <2>2
      <4> QED BY <4>1, <4>2 DEF ClientTypeOK
    <3> QED BY <2>4, <3>4, <3>6, <3>7
  <2>7. SessionsOK' /\ m.id \in 1..mSessionId' /\ Del.session # m.id /\ mSessionId <= mSessionId'
    BY <1>1, <1>3, <2>2, <2>4, <2>6 DEF SessionsOK
  <2>8. Turns(m, VoteWanted, VoteWanted')
    BY <1>3, <1>6, <2>2, <2>4, <2>6 DEF VoteWanted, Turns, Switching, VoteBefore, VoteAfter
  <2>9. Matches(c.session, e)
    BY <1>1, <2>2, <2>4, <2>6, Fresh
  <2>10. /\ c.session = m.id /\ c.requests = Append(e, m.msg)
         /\ Len(Cfg'.requests) = Cardinality(Queued({"UpdateConfig"}))'
    BY <1>4, <2>2, <2>5, <2>6
  <2> QED BY <1>3, <2>3, <2>4, <2>5, <2>6, <2>7, <2>8, <2>9, <2>10, ClientCalls
<1> QED BY <1>5, <1>6

LEMMA ClientStep ==
  ASSUME ClientInv, QueueOK', powerVoteId \in Nat, [Next]_vars
  PROVE  ClientInv'
<1> DEFINE Untouched == UNCHANGED <<mEnabled, mRequestQueues, mSessionId, powerVoteId>>
<1>1. QueueOK
  BY DEF ClientInv
<1>2. ASSUME NEW few, QueueStep(few), few \cap Request = {}, Untouched
      PROVE  ClientInv'
  <2>1. few \cap Asking = {} /\ few \cap Switching = {} /\ few \cap {"UpdateConfig"} = {}
    BY <1>2 DEF Request, Asking, Switching
  <2>2. Keeps(Asking) /\ Keeps(Switching) /\ Keeps({"UpdateConfig"})
    BY <1>1, <1>2, <2>1, StepsKeep
  <2> QED BY <1>2, <2>2, ClientKept
<1>3. CASE NiStep /\ UNCHANGED <<odcpiVars, controlVars>>
  <2>1. QueueStep(NiKinds) /\ NiKinds \cap Request = {}
    BY <1>1, <1>3, NiQueue DEF QueueOK, NiKinds, Request, Asking
  <2> QED BY <1>2, <1>3, <2>1 DEF controlVars, clientVars, confVars
<1>4. CASE OdcpiStep /\ UNCHANGED <<niVars, controlVars>>
  <2>1. QueueStep(OdcpiKinds) /\ OdcpiKinds \cap Request = {}
    BY <1>1, <1>4, OdcpiQueue DEF QueueOK, OdcpiKinds, Request, Asking
  <2> QED BY <1>2, <1>4, <2>1 DEF controlVars, clientVars, confVars
<1>5. CASE restartSessions
  <2>1. QueueStep({"RestartSessions"}) /\ {"RestartSessions"} \cap Request = {}
    BY <1>5, ReceiveQueue DEF restartSessions, Request, Asking
  <2> QED BY <1>2, <1>5, <2>1 DEF restartSessions, controlVars, clientVars, confVars
<1>6. CASE UNCHANGED <<taskVars, niVars, odcpiVars, controlVars>>
  <2>1. QueueStep({})
    BY <1>6 DEF QueueStep, taskVars
  <2> QED BY <1>2, <1>6, <2>1 DEF controlVars, clientVars, confVars
<1>7. CASE handleEngineUpEvent
  <2>1. QueueStep({"SetConfig", "RestartSessions"}) /\ {"SetConfig", "RestartSessions"} \cap Request = {}
    BY <1>1, <1>7, InputQueue DEF QueueOK, Request, Asking
  <2> QED BY <1>2, <1>7, <2>1 DEF handleEngineUpEvent, clientVars
<1>8. CASE setConfig
  <2>1. QueueStep({"SetConfig"}) /\ {"SetConfig"} \cap Request = {}
    BY <1>8, ReceiveQueue DEF setConfig, Request, Asking
  <2> QED BY <1>2, <1>8, <2>1 DEF setConfig, clientVars
<1>9. CASE requestCapabilities
  <2>1. QueueStep({"RequestCapabilities"}) /\ {"RequestCapabilities"} \cap Request = {}
    BY <1>9, ReceiveQueue DEF requestCapabilities, Request, Asking
  <2> QED BY <1>2, <1>9, <2>1 DEF requestCapabilities, confVars
<1>10. CASE \E s \in Settings : updateConfiguration(s[1], s[2])
  BY <1>10, ClientUpdates
<1>11. ASSUME ControlStep PROVE ClientInv'
  BY <1>7, <1>8, <1>9, <1>10, <1>11, ClientSetsCallback, ClientCleansUp, ClientDeletes,
     ClientConfigured, ClientResponses DEF ControlStep, ControlInput, ControlHandler
<1> QED BY <1>3, <1>4, <1>5, <1>6, <1>11, Steps

LEMMA CapabilitiesStep ==
  ASSUME ControlInv, CapabilitiesCurrent, [Next]_vars
  PROVE  CapabilitiesCurrent'
<1> USE DEF CapabilitiesCurrent
<1>1. ASSUME UNCHANGED <<mCapabilities, mGpsConf>> PROVE CapabilitiesCurrent'
  BY <1>1
<1>2. ASSUME UNCHANGED controlVars PROVE CapabilitiesCurrent'
  BY <1>1, <1>2 DEF controlVars, clientVars, confVars
<1>3. CASE ControlInput
  BY <1>1, <1>3 DEF ControlInput, setCallback, cleanup, gnssDeleteAidingData, handleEngineUpEvent,
                    updateConfiguration, clientVars, confVars
<1>4. CASE gnssUpdateConfig
  <2>1. PICK config : config = Head(msgQ).config
    OBVIOUS
  <2>2. /\ KeepConfig(config)
        /\ IF "SUPL_MODE" \in DOMAIN config /\ config["SUPL_MODE"] # mGpsConf["SUPL_MODE"]
             THEN broadcastCapabilities(config["SUPL_MODE"])
             ELSE UNCHANGED mCapabilities
    BY <1>4, <2>1 DEF gnssUpdateConfig
  <2>3. "SUPL_MODE" \in DOMAIN mGpsConf
    BY DEF ControlInv, ControlShape, Item, KeptOnly
  <2>4. "SUPL_MODE" \in Kept(config) <=> "SUPL_MODE" \in DOMAIN config
    BY DEF Kept, Injected
  <2>5. mGpsConf'["SUPL_MODE"] = IF "SUPL_MODE" \in DOMAIN config THEN config["SUPL_MODE"]
                                 ELSE mGpsConf["SUPL_MODE"]
    BY <2>2, <2>3, <2>4, KeptItem DEF convert
  <2> QED BY <2>2, <2>5 DEF broadcastCapabilities
<1>5. CASE requestCapabilities
  BY <1>5 DEF requestCapabilities, confVars
<1>6. CASE setConfig \/ enable \/ disable \/ deleteAidingData
  BY <1>1, <1>6 DEF setConfig, enable, disable, deleteAidingData, clientVars, confVars
<1> QED BY <1>2, <1>3, <1>4, <1>5, <1>6, Steps DEF ControlStep, ControlHandler, restartSessions

LEMMA ClientInductive == Spec => [](ClientInv /\ CapabilitiesCurrent)
<1>1. Init => ClientInv /\ CapabilitiesCurrent
  <2> SUFFICES ASSUME Init PROVE ClientInv /\ CapabilitiesCurrent
    OBVIOUS
  <2> USE DEF Init, ControlInit
  <2>1. QueueOK /\ Len(msgQ) = 1 /\ msgQ[1].msg = "SetConfig"
    BY ShortQueues DEF QueueOK
  <2>2. <<>> \in Seq(Request) /\ Len(<<>>) = 0
    OBVIOUS
  <2>3. /\ Ctl.session = 0 /\ Del.session = 0 /\ VoteWanted = 0
        /\ Ctl.requests = <<>> /\ Del.requests = <<>> /\ Cfg.requests = <<>>
    BY DEF NoRequests, Ctl, Del, Cfg, VoteWanted
  <2>4. ClientTypeOK
    BY <2>2 DEF ClientTypeOK, NoRequests
  <2>5. SessionsOK /\ AskingIds
    BY <2>1, <2>3 DEF SessionsOK, AskingIds, Asking
  <2>6. RequestsMatch
    <3>1. Matches(0, <<>>)
      BY <2>1, <2>4, <2>5, Fresh
    <3>2. Queued({"UpdateConfig"}) = {}
      BY <2>1, QueuedNone
    <3> QED BY <2>2, <2>3, <3>1, <3>2, FS_EmptySet DEF RequestsMatch
  <2>7. VotesMatch
    <3>1. PICK w : w = [i \in 0..1 |-> 0]
      OBVIOUS
    <3>2. w[0] = 0 /\ w[1] = 0
      BY <3>1
    <3>3. \A i \in 1..Len(msgQ) : i = 1 /\ i - 1 = 0
      BY <2>1
    <3>4. Linked(w, msgQ, 0, 0)
      BY <2>1, <3>2, <3>3 DEF Linked, Turns, Switching
    <3> QED BY <2>3, <3>4 DEF VotesMatch, VotesLead
  <2> QED BY <2>1, <2>4, <2>5, <2>6, <2>7 DEF ClientInv, CapabilitiesCurrent
<1>2. ControlInv /\ ClientInv /\ CapabilitiesCurrent /\ QueueOK' /\ [Next]_vars
        => (ClientInv /\ CapabilitiesCurrent)'
  BY ClientStep, CapabilitiesStep DEF ControlInv, ControlShape
<1> QED BY <1>1, <1>2, QueueTyped, ControlInductive, PTL DEF Spec

(* Every response finds its own request at the head of its queue, also     *)
(* when the client was enabled again or deleted aiding data again          *)
(* meanwhile; the adapter's vote becomes that of the client; and a client  *)
(* that has its capabilities knows the SUPL modes of the moment.           *)
THEOREM ClientKeptInStep == Spec => []ClientInStep
<1>1. ClientInv /\ CapabilitiesCurrent => ClientInStep
  <2> SUFFICES ASSUME ClientInv PROVE ControlInStep
    BY DEF ClientInStep
  <2>1. ASSUME NEW q \in {"CONTROL", "DELETE"}
        PROVE  /\ Len(mRequestQueues[q].requests) = Cardinality(Own(mRequestQueues[q].session))
               /\ EndsWith(mRequestQueues[q].requests, msgQ, Own(mRequestQueues[q].session))
    BY DEF ClientInv, RequestsMatch, Matches, Ctl, Del
  <2>2. Len(mRequestQueues["CONFIG"].requests) = Cardinality(Queued({"UpdateConfig"}))
    BY DEF ClientInv, RequestsMatch, Cfg
  <2>3. ASSUME Queued({"Enable", "Disable"}) = {} PROVE (powerVoteId > 0) = mEnabled
    <3>1. \A i \in 1..Len(msgQ) : msgQ[i].msg \notin Switching
      BY <2>3, QueuedAre DEF ClientInv, Switching
    <3>2. powerVoteId = VoteWanted
      BY <3>1, VotesNone DEF ClientInv, VotesMatch, QueueOK
    <3>3. Ctl.session \in Nat
      BY RequestTypes DEF ClientInv
    <3>4. mEnabled \in BOOLEAN /\ (mEnabled => Ctl.session # 0)
      BY DEF ClientInv, ClientTypeOK, SessionsOK
    <3>5. CASE mEnabled
      <4>1. powerVoteId > 0
        BY <3>2, <3>3, <3>4, <3>5 DEF VoteWanted
      <4> QED BY <3>4, <3>5, <4>1
    <3>6. CASE ~mEnabled
      <4>1. ~(powerVoteId > 0)
        BY <3>2, <3>6 DEF VoteWanted
      <4> QED BY <3>4, <3>6, <4>1
    <3> QED BY <3>5, <3>6
  <2> QED BY <2>1, <2>2, <2>3 DEF ControlInStep, Own, Asking
<1> QED BY <1>1, ClientInductive, PTL

-----------------------------------------------------------------------------
(* Network initiated requests. The payload of a notification is in one     *)
(* place, a message, a session or a thread, until it is gone, and nowhere  *)
(* after that.                                                             *)
PayloadKinds == {"NiNotify", "InformNi"}
Carries(m, p) == m.msg \in PayloadKinds /\ m.data = p
NoMsg(q, p) == \A i \in 1..Len(q) : ~Carries(q[i], p)
OneMsg(q, p) ==
  \E i \in 1..Len(q) : Carries(q[i], p) /\ \A j \in 1..Len(q) : Carries(q[j], p) => j = i

(* The notifications in the queue c, oldest first and ahead of the ids of  *)
(* the requests, and the answers                                           *)
NotesIn(q, ids, last) ==
  /\ \A i \in 1..Len(q) :
       /\ q[i].msg = "NiNotify" => q[i].kind \in Kind /\ q[i].data \in ids + 1 .. last
       /\ q[i].msg = "InformNi" => q[i].data \in 1..last
  /\ \A i, j \in 1..Len(q) :
       i < j /\ q[i].msg = "NiNotify" /\ q[j].msg = "NiNotify" => q[i].data < q[j].data

LEMMA LongerQueue ==
  ASSUME NEW q, NEW e, Len(q) \in Nat, Len(e) \in Nat, Len(q) <= Len(e),
         \A i \in 1..Len(q) : e[i] = q[i],
         \A i \in 1..Len(e) : i \in 1..Len(q) \/ e[i].msg \notin PayloadKinds,
         NEW ids, NEW last
  PROVE  /\ NotesIn(q, ids, last) => NotesIn(e, ids, last)
         /\ \A p : (NoMsg(q, p) => NoMsg(e, p)) /\ (OneMsg(q, p) => OneMsg(e, p))
<1>1. 1..Len(q) \subseteq 1..Len(e)
  OBVIOUS
<1>2. ASSUME NotesIn(q, ids, last) PROVE NotesIn(e, ids, last)
  <2>1. \A i \in 1..Len(e) : e[i].msg \in {"NiNotify", "InformNi"} => i \in 1..Len(q) /\ e[i] = q[i]
    BY DEF PayloadKinds
  <2> QED BY <1>2, <2>1 DEF NotesIn
<1>3. \A p : \A i \in 1..Len(e) : Carries(e[i], p) => i \in 1..Len(q) /\ Carries(q[i], p)
  BY DEF Carries
<1>4. \A p : \A i \in 1..Len(q) : Carries(q[i], p) => Carries(e[i], p)
  BY DEF Carries
<1> QED BY <1>1, <1>2, <1>3, <1>4 DEF NoMsg, OneMsg

LEMMA CarryingQueue ==
  ASSUME NEW q, NEW x, NEW e, IsOneMore(q, x, e), NEW ids \in Nat, NEW last \in Nat,
         NotesIn(q, ids, last), ids <= last
  PROVE  /\ x.msg = "InformNi" /\ x.data \in 1..last => NotesIn(e, ids, last)
         /\ x.msg = "NiNotify" /\ x.kind \in Kind /\ x.data = last + 1 => NotesIn(e, ids, last + 1)
         /\ \A p : /\ NoMsg(q, p) => IF Carries(x, p) THEN OneMsg(e, p) ELSE NoMsg(e, p)
                   /\ OneMsg(q, p) /\ ~Carries(x, p) => OneMsg(e, p)
<1>1. /\ Len(q) \in Nat /\ Len(e) = Len(q) + 1
      /\ \A k \in 1..Len(q) : k \in 1..Len(e) /\ e[k] = q[k]
      /\ Len(e) \in 1..Len(e) /\ e[Len(e)] = x
      /\ \A k \in 1..Len(e) : k \in 1..Len(q) \/ k = Len(e)
  BY DEF IsOneMore
<1>2. ASSUME x.msg = "InformNi", x.data \in 1..last PROVE NotesIn(e, ids, last)
  BY <1>1, <1>2 DEF NotesIn
<1>3. ASSUME x.msg = "NiNotify", x.kind \in Kind, x.data = last + 1 PROVE NotesIn(e, ids, last + 1)
  <2>1. ASSUME NEW i \in 1..Len(e)
        PROVE  /\ e[i].msg = "NiNotify" => e[i].kind \in Kind /\ e[i].data \in ids + 1 .. last + 1
               /\ e[i].msg = "InformNi" => e[i].data \in 1..last + 1
    <3>1. CASE i \in 1..Len(q)
      <4>1. /\ q[i].msg = "NiNotify" => q[i].kind \in Kind /\ q[i].data \in ids + 1 .. last
            /\ q[i].msg = "InformNi" => q[i].data \in 1..last
        BY <3>1 DEF NotesIn
      <4> QED BY <1>1, <3>1, <4>1
    <3>2. CASE i = Len(e)
      <4>1. e[i] = x
        BY <1>1, <3>2
      <4>2. last + 1 \in ids + 1 .. last + 1
        OBVIOUS
      <4> QED BY <1>3, <4>1, <4>2
    <3> QED BY <1>1, <3>1, <3>2
  <2>2. ASSUME NEW i \in 1..Len(e), NEW j \in 1..Len(e), i < j, e[i].msg = "NiNotify", e[j].msg = "NiNotify"
        PROVE  e[i].data < e[j].data
    <3>1. i \in 1..Len(q) /\ e[i] = q[i] /\ e[i].data \in ids + 1 .. last
      BY <1>1, <2>2 DEF NotesIn
    <3>2. CASE j = Len(e)
      <4>1. e[j].data = last + 1
        BY <1>1, <1>3, <3>2
      <4> QED BY <3>1, <4>1
    <3>3. CASE j \in 1..Len(q)
      BY <1>1, <2>2, <3>1, <3>3 DEF NotesIn
    <3> QED BY <1>1, <3>2, <3>3
  <2> QED BY <2>1, <2>2 DEF NotesIn
<1>4. ASSUME NEW p
      PROVE  /\ NoMsg(q, p) => IF Carries(x, p) THEN OneMsg(e, p) ELSE NoMsg(e, p)
             /\ OneMsg(q, p) /\ ~Carries(x, p) => OneMsg(e, p)
  <2>1. \A k \in 1..Len(q) : Carries(e[k], p) <=> Carries(q[k], p)
    BY <1>1
  <2>2. Carries(e[Len(e)], p) <=> Carries(x, p)
    BY <1>1
  <2> QED BY <1>1, <2>1, <2>2 DEF NoMsg, OneMsg
<1> QED BY <1>2, <1>3, <1>4

LEMMA ShorterQueue ==
  ASSUME NEW q, NEW e, IsOneLess(q, e), NEW ids \in Nat, NEW last \in Nat, NotesIn(q, ids, last)
  PROVE  /\ NotesIn(e, ids, last)
         /\ Head(q).msg = "NiNotify" => NotesIn(e, ids + 1, last)
         /\ \A p : /\ NoMsg(q, p) => NoMsg(e, p)
                   /\ OneMsg(q, p) => IF Carries(Head(q), p) THEN NoMsg(e, p) ELSE OneMsg(e, p)
<1>1. /\ Len(q) \in Nat \ {0} /\ Len(e) = Len(q) - 1
      /\ Head(q) = q[1] /\ 1 \in 1..Len(q)
      /\ \A k \in 1..Len(e) : k + 1 \in 1..Len(q) /\ e[k] = q[k + 1]
      /\ \A k \in 1..Len(q) : k # 1 => k - 1 \in 1..Len(e) /\ e[k - 1] = q[k]
  BY DEF IsOneLess
<1>2. ASSUME NEW i \in 1..Len(e), NEW j \in 1..Len(e), i < j, e[i].msg = "NiNotify", e[j].msg = "NiNotify"
      PROVE  e[i].data < e[j].data
  <2>1. i + 1 \in 1..Len(q) /\ j + 1 \in 1..Len(q) /\ i + 1 < j + 1
    BY <1>1, <1>2
  <2> QED BY <1>1, <1>2, <2>1 DEF NotesIn
<1>3. NotesIn(e, ids, last)
  BY <1>1, <1>2 DEF NotesIn
<1>4. ASSUME Head(q).msg = "NiNotify" PROVE NotesIn(e, ids + 1, last)
  <2>1. ASSUME NEW i \in 1..Len(e), e[i].msg = "NiNotify" PROVE e[i].data \in (ids + 1) + 1 .. last
    <3>1. /\ i + 1 \in 1..Len(q) /\ 1 < i + 1 /\ q[i + 1] = e[i]
          /\ q[1].data \in ids + 1 .. last /\ q[i + 1].data \in ids + 1 .. last
      BY <1>1, <1>4, <2>1 DEF NotesIn
    <3>2. q[1].data < q[i + 1].data
      BY <1>1, <1>4, <2>1, <3>1 DEF NotesIn
    <3>3. \A a, b \in ids + 1 .. last : a < b => b \in (ids + 1) + 1 .. last
      OBVIOUS
    <3>4. q[i + 1].data \in (ids + 1) + 1 .. last
      BY <3>1, <3>2, <3>3
    <3> QED BY <3>1, <3>4
  <2> QED BY <1>1, <1>2, <1>3, <2>1 DEF NotesIn
<1>5. ASSUME NEW p
      PROVE  /\ NoMsg(q, p) => NoMsg(e, p)
             /\ OneMsg(q, p) => IF Carries(Head(q), p) THEN NoMsg(e, p) ELSE OneMsg(e, p)
  <2>1. \A k \in 1..Len(e) : k + 1 \in 1..Len(q) /\ (Carries(e[k], p) <=> Carries(q[k + 1], p))
    BY <1>1
  <2>2. \A k \in 1..Len(q) : k # 1 => k - 1 \in 1..Len(e) /\ (Carries(e[k - 1], p) <=> Carries(q[k], p))
    BY <1>1
  <2>3. ASSUME NoMsg(q, p) PROVE NoMsg(e, p)
    BY <2>1, <2>3 DEF NoMsg
  <2>4. ASSUME NEW i \in 1..Len(q), Carries(q[i], p), \A j \in 1..Len(q) : Carries(q[j], p) => j = i,
               Carries(Head(q), p)
        PROVE  NoMsg(e, p)
    <3>1. i = 1
      BY <1>1, <2>4
    <3>2. \A k \in 1..Len(e) : k + 1 # 1
      OBVIOUS
    <3> QED BY <2>1, <2>4, <3>1, <3>2 DEF NoMsg
  <2>5. ASSUME NEW i \in 1..Len(q), Carries(q[i], p), \A j \in 1..Len(q) : Carries(q[j], p) => j = i,
               ~Carries(Head(q), p)
        PROVE  OneMsg(e, p)
    <3>1. i # 1
      BY <1>1, <2>5
    <3>2. i - 1 \in 1..Len(e) /\ Carries(e[i - 1], p)
      BY <2>2, <2>5, <3>1
    <3>3. \A k \in 1..Len(e) : Carries(e[k], p) => k + 1 = i
      BY <2>1, <2>5
    <3>4. \A k \in 1..Len(e) : k + 1 = i => k = i - 1
      OBVIOUS
    <3> QED BY <3>2, <3>3, <3>4 DEF OneMsg
  <2> QED BY <2>3, <2>4, <2>5 DEF OneMsg
<1> QED BY <1>3, <1>4, <1>5


InNoSession(p) == \A k \in Kind : niSession[k].rawRequest # p
InOneSession(p) ==
  \E k \in Kind : /\ niSession[k].rawRequest = p
                  /\ \A l \in Kind : niSession[l].rawRequest = p => l = k
InNoThread(p) == \A r \in ReqID : niThread[r].rawRequest # p
InOneThread(p) ==
  \E r \in ReqID : /\ niThread[r].rawRequest = p
                   /\ \A q \in ReqID : niThread[q].rawRequest = p => q = r

Gone(p) == p > notified \/ p \in freed \/ p \in leaked
Placed(p) ==
  IF Gone(p) THEN NoMsg(msgQ, p) /\ InNoSession(p) /\ InNoThread(p)
  ELSE \/ OneMsg(msgQ, p) /\ InNoSession(p) /\ InNoThread(p)
       \/ NoMsg(msgQ, p) /\ InOneSession(p) /\ InNoThread(p)
       \/ NoMsg(msgQ, p) /\ InNoSession(p) /\ InOneThread(p)

NiTypeOK ==
  /\ notified \in 0..MaxNotify /\ reqIDCounter \in 0..notified
  /\ freed \subseteq 1..notified /\ leaked \subseteq 1..notified
  /\ niSession \in [Kind -> [rawRequest : 0..notified, reqID : 0..reqIDCounter,
                             respRecvd : BOOLEAN, resp : Response]]
  /\ niThread \in [ReqID -> [kind : Kind, at : {"new", "waiting", "unlocked", "sending", "done"},
                             resp : Response, rawRequest : 0..notified]]

(* A thread has the payload between its wait and its message, and one that *)
(* is to be created has none.                                              *)
NiThreadsOK ==
  \A r \in ReqID :
    /\ niThread[r].at \in {"new", "waiting", "done"} => niThread[r].rawRequest = None
    /\ niThread[r].at = "sending" => niThread[r].rawRequest # None
    /\ r > reqIDCounter => niThread[r].at = "done"

NiOwned ==
  /\ IsQueue(msgQ) /\ NotesIn(msgQ, reqIDCounter, notified)
  /\ NiTypeOK /\ NiThreadsOK /\ \A p \in Payload : Placed(p)

LEMMA SamePointers ==
  ASSUME \A k \in Kind : niSession'[k].rawRequest = niSession[k].rawRequest,
         \A r \in ReqID : niThread'[r].rawRequest = niThread[r].rawRequest, NEW p
  PROVE  /\ InNoSession(p)' <=> InNoSession(p)
         /\ InOneSession(p)' <=> InOneSession(p)
         /\ InNoThread(p)' <=> InNoThread(p)
         /\ InOneThread(p)' <=> InOneThread(p)
BY DEF InNoSession, InOneSession, InNoThread, InOneThread

(* Steps that leave the payloads where they are                            *)
LEMMA PlacedSame ==
  ASSUME \A p \in Payload : Placed(p), UNCHANGED <<notified, freed, leaked>>,
         \A k \in Kind : niSession'[k].rawRequest = niSession[k].rawRequest,
         \A r \in ReqID : niThread'[r].rawRequest = niThread[r].rawRequest,
         NEW e, e = msgQ', \A p \in Payload : (NoMsg(msgQ, p) => NoMsg(e, p)) /\ (OneMsg(msgQ, p) => OneMsg(e, p))
  PROVE  \A p \in Payload : Placed(p)'
<1> SUFFICES ASSUME NEW p \in Payload PROVE Placed(p)'
  OBVIOUS
<1>1. Gone(p)' <=> Gone(p)
  BY DEF Gone
<1>2. (NoMsg(msgQ, p) => NoMsg(msgQ', p)) /\ (OneMsg(msgQ, p) => OneMsg(msgQ', p))
  OBVIOUS
<1>3. NoMsg(msgQ, p)' <=> NoMsg(msgQ', p)
  BY DEF NoMsg, Carries
<1>4. OneMsg(msgQ, p)' <=> OneMsg(msgQ', p)
  BY DEF OneMsg, Carries
<1> QED BY <1>1, <1>2, <1>3, <1>4, SamePointers DEF Placed

(* What the steps of the others do to the queue                            *)
LEMMA OthersQueue ==
  ASSUME IsQueue(msgQ), NEW kinds, QueueStep(kinds), kinds \cap PayloadKinds = {}, NEW e, e = msgQ',
         NEW ids \in Nat, NEW last \in Nat, NotesIn(msgQ, ids, last)
  PROVE  /\ IsQueue(e) /\ NotesIn(e, ids, last)
         /\ \A p : (NoMsg(msgQ, p) => NoMsg(e, p)) /\ (OneMsg(msgQ, p) => OneMsg(e, p))
<1>1. CASE UNCHANGED msgQ
  BY <1>1
<1>2. CASE msgQ # <<>> /\ Head(msgQ).msg \in kinds /\ msgQ' = Tail(msgQ)
  <2>1. IsOneLess(msgQ, e)
    BY <1>2, QueueShrinks
  <2>2. \A p : ~Carries(Head(msgQ), p)
    BY <1>2 DEF Carries
  <2> QED BY <2>1, <2>2, ShorterQueue DEF IsOneLess
<1>3. ASSUME NEW r, IsQueue(r), \A i \in 1..Len(r) : r[i].msg \in kinds, msgQ' = msgQ \o r
      PROVE  /\ IsQueue(e) /\ NotesIn(e, ids, last)
             /\ \A p : (NoMsg(msgQ, p) => NoMsg(e, p)) /\ (OneMsg(msgQ, p) => OneMsg(e, p))
  <2>1. PICK q : q = msgQ
    OBVIOUS
  <2>2. e = q \o r
    BY <1>3, <2>1
  <2>3. /\ Len(q) \in Nat /\ Len(r) \in Nat /\ IsQueue(e) /\ Len(e) = Len(q) + Len(r)
        /\ \A i \in 1..Len(q) : e[i] = q[i]
    BY <1>3, <2>1, <2>2, QueueConcat
  <2>4. \A i \in 1..Len(e) : i \in 1..Len(q) \/ e[i].msg \notin PayloadKinds
    BY <1>3, <2>1, <2>2, EachOfConcat
  <2>5. Len(e) \in Nat /\ Len(q) <= Len(e)
    BY <2>3
  <2> QED BY <2>1, <2>3, <2>4, <2>5, LongerQueue
<1> QED BY <1>1, <1>2, <1>3 DEF QueueStep


(* The user's responses, queued and being handled; only those are handled  *)
(* in more than one step.                                                  *)
HandlingTyped ==
  /\ IsQueue(handling)
  /\ \A i \in 1..Len(handling) : handling[i].kind \in Kind /\ handling[i].resp \in Response
ResponsesTyped ==
  \A i \in 1..Len(msgQ) :
    msgQ[i].msg = "NiResponse" => msgQ[i].id \in ReqID /\ msgQ[i].resp \in UserResponse
ResponsesOK == QueueOK /\ HandlingTyped /\ ResponsesTyped

LEMMA OthersHandle ==
  ASSUME OdcpiStep \/ ControlStep \/ restartSessions
  PROVE  handling' = handling
<1>1. CASE OdcpiStep
  BY <1>1 DEF OdcpiStep, OdcpiInput, OdcpiHandler, initOdcpiCommand, reportOdcpiRequestEvent,
     odcpiTimerExpireEvent, initOdcpi, reportOdcpiRequest, odcpiTimerExpire, Input, Post, Receive
<1>2. CASE ControlInput
  <2>1. \A s \in Settings : updateConfiguration(s[1], s[2]) => handling' = handling
    BY DEF updateConfiguration, Says
  <2> QED BY <1>2, <2>1 DEF ControlInput, setCallback, cleanup, gnssDeleteAidingData, handleEngineUpEvent, Says
<1>3. CASE ControlHandler
  BY <1>3 DEF ControlHandler, setConfig, gnssUpdateConfig, requestCapabilities, enable, disable,
     deleteAidingData, Receive
<1>4. CASE restartSessions
  BY <1>4 DEF restartSessions, Receive
<1> QED BY <1>1, <1>2, <1>3, <1>4 DEF ControlStep

LEMMA OthersRespond ==
  ASSUME ResponsesOK, NEW kinds, QueueStep(kinds), "NiResponse" \notin kinds
  PROVE  ResponsesTyped'
<1> SUFFICES ASSUME NEW i \in 1..Len(msgQ'), msgQ'[i].msg = "NiResponse"
             PROVE  msgQ'[i].id \in ReqID /\ msgQ'[i].resp \in UserResponse
  BY DEF ResponsesTyped
<1>1. \E j \in 1..Len(msgQ) : msgQ'[i] = msgQ[j]
  BY NewMsgs DEF ResponsesOK
<1> QED BY <1>1 DEF ResponsesOK, ResponsesTyped

(* The steps of the others, by the messages they send or receive *)
LEMMA OthersKinds ==
  ASSUME QueueOK, OdcpiStep \/ ControlStep \/ restartSessions
  PROVE  \E kinds : QueueStep(kinds) /\ kinds \cap NiKinds = {}
<1>1. OdcpiKinds \cap NiKinds = {} /\ ControlKinds \cap NiKinds = {} /\ {"RestartSessions"} \cap NiKinds = {}
  BY DEF NiKinds, OdcpiKinds, ControlKinds
<1>2. CASE OdcpiStep
  <2>1. QueueStep(OdcpiKinds)
    BY <1>2, OdcpiQueue DEF QueueOK
  <2> QED BY <1>1, <2>1
<1>3. CASE ControlStep
  <2>1. QueueStep(ControlKinds)
    BY <1>3, ControlQueue DEF QueueOK
  <2> QED BY <1>1, <2>1
<1>4. CASE restartSessions
  <2>1. QueueStep({"RestartSessions"})
    BY <1>4, ReceiveQueue DEF restartSessions
  <2> QED BY <1>1, <2>1
<1> QED BY <1>2, <1>3, <1>4

LEMMA ResponsesNi ==
  ASSUME ResponsesOK, NiStep, QueueOK'
  PROVE  ResponsesOK'
<1>0. IsQueue(msgQ) /\ IsQueue(handling) /\ HandlingTyped /\ ResponsesTyped
  BY DEF ResponsesOK, QueueOK, HandlingTyped
<1>1. ASSUME NEW x, msgQ' = Append(msgQ, x), handling' = handling,
             x.msg = "NiResponse" => x.id \in ReqID /\ x.resp \in UserResponse
      PROVE  ResponsesOK'
  <2>1. PICK e : e = msgQ'
    OBVIOUS
  <2>2. IsOneMore(msgQ, x, e)
    BY <1>0, <1>1, <2>1, QueueGrows
  <2> QED BY <1>0, <1>1, <2>1, <2>2 DEF IsOneMore, ResponsesOK, ResponsesTyped, HandlingTyped
<1>2. ASSUME msgQ # <<>>, msgQ' = Tail(msgQ) PROVE ResponsesTyped'
  <2>1. PICK e : e = msgQ'
    OBVIOUS
  <2>2. IsOneLess(msgQ, e)
    BY <1>0, <1>2, <2>1, QueueShrinks
  <2> QED BY <1>0, <1>2, <2>1, <2>2 DEF IsOneLess, ResponsesTyped
<1>3. ASSUME UNCHANGED <<msgQ, handling>> PROVE ResponsesOK'
  BY <1>0, <1>3 DEF ResponsesOK, ResponsesTyped, HandlingTyped, QueueOK
<1>4. ASSUME NEW kind, Receive(kind) PROVE ResponsesOK'
  BY <1>0, <1>2, <1>4 DEF Receive, Takes, ResponsesOK, HandlingTyped
<1>5. CASE NiInput
  <2>1. ASSUME NEW k \in Kind, requestNiNotifyEvent(k) PROVE ResponsesOK'
    BY <1>1, <2>1 DEF requestNiNotifyEvent, Input
  <2>2. ASSUME NEW has \in BOOLEAN, NiClientInput(has) PROVE ResponsesOK'
    BY <1>1, <2>2 DEF NiClientInput, Input
  <2>3. ASSUME NEW r \in ReqID, NEW resp \in UserResponse, gnssNiResponseCommand(r, resp) PROVE ResponsesOK'
    <3>1. PICK x : x = [msg |-> "NiResponse", id |-> r, resp |-> resp]
      OBVIOUS
    <3>2. msgQ' = Append(msgQ, x) /\ handling' = handling
      BY <2>3, <3>1 DEF gnssNiResponseCommand, Input
    <3> QED BY <1>1, <3>1, <3>2
  <2> QED BY <1>5, <2>1, <2>2, <2>3 DEF NiInput
<1>6. CASE MsgNiClient \/ requestNiNotify \/ informNiResponse
  BY <1>4, <1>6 DEF MsgNiClient, requestNiNotify, informNiResponse
<1>7. CASE MsgGnssNiResponse
  <2>1. msgQ # <<>> /\ Head(msgQ).msg = "NiResponse" /\ msgQ' = Tail(msgQ)
    BY <1>7 DEF MsgGnssNiResponse, Takes
  <2>2. PICK resp \in Response : resp = Head(msgQ).resp
    <3>1. Head(msgQ) = msgQ[1] /\ 1 \in 1..Len(msgQ)
      BY <1>0, <2>1, QueueTail
    <3> QED BY <1>0, <2>1, <3>1 DEF ResponsesTyped, Response
  <2>3. PICK a, b, c :
          /\ a = [kind |-> "SUPL", resp |-> "IGNORE"] /\ b = [kind |-> "ES", resp |-> resp]
          /\ c = [kind |-> "SUPL", resp |-> resp]
    OBVIOUS
  <2>4. handling' \in {<<>>, <<a, b>>, <<b>>, <<c>>}
    BY <1>7, <2>2, <2>3 DEF MsgGnssNiResponse
  <2>5. a.kind \in Kind /\ b.kind \in Kind /\ c.kind \in Kind
        /\ a.resp \in Response /\ b.resp \in Response /\ c.resp \in Response
    BY <2>3 DEF Kind, Response
  <2>6. HandlingTyped'
    BY <2>4, <2>5, ShortQueues DEF HandlingTyped
  <2> QED BY <1>2, <2>1, <2>6 DEF ResponsesOK
<1>8. CASE setResponse
  <2>1. handling # <<>> /\ handling' = Tail(handling) /\ msgQ' = msgQ
    BY <1>8 DEF setResponse
  <2>2. PICK h : h = handling'
    OBVIOUS
  <2>3. IsOneLess(handling, h)
    BY <1>0, <2>1, <2>2, QueueShrinks
  <2>4. HandlingTyped'
    BY <1>0, <2>2, <2>3 DEF IsOneLess, HandlingTyped
  <2> QED BY <1>0, <2>1, <2>4 DEF ResponsesOK, ResponsesTyped
<1>9. ASSUME NEW r \in ReqID, NiThreadStep(r) PROVE ResponsesOK'
  <2>1. CASE niThreadSend(r)
    BY <1>1, <2>1 DEF niThreadSend, Post
  <2>2. CASE ~niThreadSend(r)
    BY <1>3, <1>9, <2>2 DEF NiThreadStep, niThreadStart, niThreadSignalled, niThreadTimedOut,
                      niThreadClear, niUnchanged, taskVars
  <2> QED BY <2>1, <2>2
<1> QED BY <1>5, <1>6, <1>7, <1>8, <1>9 DEF NiStep, NiHandler

LEMMA ResponsesInductive == Spec => []ResponsesOK
<1>1. Init => ResponsesOK
  BY ShortQueues DEF Init, ResponsesOK, QueueOK, HandlingTyped, ResponsesTyped
<1>2. QueueOK' /\ ResponsesOK /\ [Next]_vars => ResponsesOK'
  <2> SUFFICES ASSUME QueueOK', ResponsesOK, [Next]_vars PROVE ResponsesOK'
    OBVIOUS
  <2>1. CASE NiStep
    BY <2>1, ResponsesNi
  <2>2. CASE OdcpiStep \/ ControlStep \/ restartSessions
    <3>1. \E kinds : QueueStep(kinds) /\ kinds \cap NiKinds = {}
      BY <2>2, OthersKinds DEF ResponsesOK
    <3>2. ResponsesTyped'
      BY <3>1, OthersRespond DEF NiKinds
    <3>3. HandlingTyped'
      BY <2>2, OthersHandle DEF ResponsesOK, HandlingTyped
    <3> QED BY <3>2, <3>3 DEF ResponsesOK
  <2>3. CASE UNCHANGED <<taskVars, niVars, odcpiVars, controlVars>>
    BY <2>3 DEF taskVars, ResponsesOK, QueueOK, HandlingTyped, ResponsesTyped
  <2> QED BY <2>1, <2>2, <2>3, Steps
<1> QED BY <1>1, <1>2, QueueTyped, PTL DEF Spec


(* Ownership: steps that do not touch a payload                            *)
Leaves(e) ==
  /\ IsQueue(e) /\ NotesIn(e, reqIDCounter, notified)
  /\ \A p \in Payload : (NoMsg(msgQ, p) => NoMsg(e, p)) /\ (OneMsg(msgQ, p) => OneMsg(e, p))

LEMMA OwnedKept ==
  ASSUME NiOwned, NEW e, e = msgQ', Leaves(e), UNCHANGED <<notified, freed, leaked, reqIDCounter>>,
         \A k \in Kind : niSession'[k].rawRequest = niSession[k].rawRequest,
         \A r \in ReqID : niThread'[r].rawRequest = niThread[r].rawRequest,
         NiTypeOK', NiThreadsOK'
  PROVE  NiOwned'
<1>1. IsQueue(msgQ') /\ NotesIn(msgQ', reqIDCounter', notified')
  BY DEF Leaves
<1>2. IsQueue(msgQ)' /\ NotesIn(msgQ, reqIDCounter, notified)'
  BY <1>1 DEF NotesIn
<1>3. \A p \in Payload : Placed(p)'
  BY PlacedSame DEF NiOwned, Leaves
<1> QED BY <1>2, <1>3 DEF NiOwned

LEMMA SameTypes ==
  ASSUME NiTypeOK, NiThreadsOK, UNCHANGED <<notified, freed, leaked, niData>>
  PROVE  NiTypeOK' /\ NiThreadsOK'
BY DEF NiTypeOK, NiThreadsOK, niData

LEMMA KeptQueue ==
  ASSUME NiOwned
  PROVE  /\ Leaves(msgQ)
         /\ \A x : x.msg \notin PayloadKinds => Leaves(Append(msgQ, x))
         /\ msgQ # <<>> /\ Head(msgQ).msg \notin PayloadKinds => Leaves(Tail(msgQ))
<1>0. /\ IsQueue(msgQ) /\ reqIDCounter \in Nat /\ notified \in Nat /\ reqIDCounter <= notified
      /\ NotesIn(msgQ, reqIDCounter, notified)
  BY NotifyAssumption DEF NiOwned, NiTypeOK
<1>1. ASSUME NEW x, x.msg \notin PayloadKinds PROVE Leaves(Append(msgQ, x))
  <2>1. PICK e : e = Append(msgQ, x)
    OBVIOUS
  <2>2. IsOneMore(msgQ, x, e)
    BY <1>0, <2>1, QueueGrows
  <2>3. /\ IsQueue(e) /\ Len(e) \in Nat /\ Len(msgQ) \in Nat /\ Len(msgQ) <= Len(e)
        /\ \A i \in 1..Len(msgQ) : e[i] = msgQ[i]
        /\ \A i \in 1..Len(e) : i \in 1..Len(msgQ) \/ e[i].msg \notin PayloadKinds
    BY <1>1, <2>2 DEF IsOneMore
  <2>4. Leaves(e)
    BY <1>0, <2>3, LongerQueue DEF Leaves
  <2> QED BY <2>1, <2>4
<1>2. ASSUME msgQ # <<>>, Head(msgQ).msg \notin PayloadKinds PROVE Leaves(Tail(msgQ))
  <2>1. PICK e : e = Tail(msgQ)
    OBVIOUS
  <2>2. IsOneLess(msgQ, e)
    BY <1>0, <1>2, <2>1, QueueShrinks
  <2>3. \A p : ~Carries(Head(msgQ), p)
    BY <1>2 DEF Carries
  <2>4. Leaves(e)
    BY <1>0, <2>2, <2>3, ShorterQueue DEF Leaves, IsOneLess
  <2> QED BY <2>1, <2>4
<1> QED BY <1>0, <1>1, <1>2 DEF Leaves

LEMMA OwnedByNi ==
  ASSUME NiOwned, ResponsesOK
  PROVE  /\ \A has : NiClientInput(has) => NiOwned'
         /\ \A r \in ReqID, resp \in UserResponse : gnssNiResponseCommand(r, resp) => NiOwned'
         /\ MsgNiClient => NiOwned'
         /\ MsgGnssNiResponse => NiOwned'
         /\ setResponse => NiOwned'
<1>0. NiTypeOK /\ NiThreadsOK
  BY DEF NiOwned
<1>1. ASSUME NEW e, e = msgQ', Leaves(e), UNCHANGED <<notified, freed, leaked, niData>> PROVE NiOwned'
  BY <1>0, <1>1, SameTypes, OwnedKept DEF niData
<1>2. ASSUME NEW x, x.msg \notin PayloadKinds, msgQ' = Append(msgQ, x),
             UNCHANGED <<notified, freed, leaked, niData>>
      PROVE  NiOwned'
  BY <1>1, <1>2, KeptQueue
<1>3. ASSUME NEW kind, Takes(kind), kind \notin PayloadKinds, UNCHANGED <<notified, freed, leaked, niData>>
      PROVE  NiOwned'
  BY <1>1, <1>3, KeptQueue DEF Takes
<1>4. ASSUME NEW has, NiClientInput(has) PROVE NiOwned'
  BY <1>2, <1>4 DEF NiClientInput, Input, PayloadKinds, niVars, niEnv
<1>5. ASSUME NEW r \in ReqID, NEW resp \in UserResponse, gnssNiResponseCommand(r, resp) PROVE NiOwned'
  <2>1. PICK x : x = [msg |-> "NiResponse", id |-> r, resp |-> resp]
    OBVIOUS
  <2>2. x.msg \notin PayloadKinds
    BY <2>1 DEF PayloadKinds
  <2> QED BY <1>2, <1>5, <2>1, <2>2 DEF gnssNiResponseCommand, Input
<1>6. ASSUME MsgNiClient PROVE NiOwned'
  BY <1>3, <1>6 DEF MsgNiClient, Receive, PayloadKinds, niEnv
<1>7. ASSUME MsgGnssNiResponse PROVE NiOwned'
  BY <1>3, <1>7 DEF MsgGnssNiResponse, PayloadKinds, niVars, niEnv
<1>8. ASSUME setResponse PROVE NiOwned'
  <2>1. PICK s : s = Head(handling)
    OBVIOUS
  <2>2. s.kind \in Kind /\ s.resp \in Response
    <3>1. handling # <<>> /\ IsQueue(handling)
      BY <1>8 DEF setResponse, ResponsesOK, HandlingTyped
    <3>2. s = handling[1] /\ 1 \in 1..Len(handling)
      BY <2>1, <3>1, QueueTail
    <3> QED BY <3>2 DEF ResponsesOK, HandlingTyped
  <2>3. /\ niSession' = [niSession EXCEPT ![s.kind].resp = s.resp, ![s.kind].respRecvd = TRUE]
        /\ UNCHANGED <<msgQ, reqIDCounter, niThread, notified, freed, leaked>>
    BY <1>8, <2>1 DEF setResponse, niEnv
  <2>4. PICK n, c : n = notified /\ c = reqIDCounter
    OBVIOUS
  <2>5. niSession \in [Kind -> [rawRequest : 0..n, reqID : 0..c, respRecvd : BOOLEAN, resp : Response]]
    BY <1>0, <2>4 DEF NiTypeOK
  <2>6. niSession' \in [Kind -> [rawRequest : 0..n, reqID : 0..c, respRecvd : BOOLEAN, resp : Response]]
    BY <2>2, <2>3, <2>5
  <2>7. \A k \in Kind : niSession'[k].rawRequest = niSession[k].rawRequest
    BY <2>2, <2>3, <2>5
  <2>8. NiTypeOK' /\ NiThreadsOK'
    BY <1>0, <2>3, <2>4, <2>6 DEF NiTypeOK, NiThreadsOK
  <2>9. PICK e : e = msgQ' /\ Leaves(e)
    BY <2>3, KeptQueue
  <2> QED BY <2>3, <2>7, <2>8, <2>9, OwnedKept
<1> QED BY <1>4, <1>5, <1>6, <1>7, <1>8

(* A notification comes with a new payload.                                *)
LEMMA OwnedNotifyEvent ==
  ASSUME NiOwned, NEW k \in Kind, requestNiNotifyEvent(k)
  PROVE  NiOwned'
<1>1. PICK n, c, x, e : /\ n = notified /\ c = reqIDCounter /\ e = msgQ'
                        /\ x = [msg |-> "NiNotify", kind |-> k, data |-> n + 1]
  OBVIOUS
<1>2. /\ notified' = n + 1 /\ n < MaxNotify /\ e = Append(msgQ, x)
      /\ UNCHANGED <<reqIDCounter, niSession, niThread, freed, leaked>>
  BY <1>1 DEF requestNiNotifyEvent, Input, niData
<1>3. /\ n \in Nat /\ c \in Nat /\ c <= n /\ IsQueue(msgQ) /\ NotesIn(msgQ, c, n)
      /\ n + 1 \in 0..MaxNotify
  BY <1>1, <1>2, NotifyAssumption DEF NiOwned, NiTypeOK
<1>4. IsOneMore(msgQ, x, e)
  BY <1>2, <1>3, QueueGrows
<1>5. x.msg = "NiNotify" /\ x.kind \in Kind /\ x.data = n + 1
  BY <1>1
<1>6. NotesIn(e, c, n + 1) /\ IsQueue(e)
  BY <1>3, <1>4, <1>5, CarryingQueue DEF IsOneMore
<1>7. \A p : /\ NoMsg(msgQ, p) => IF Carries(x, p) THEN OneMsg(e, p) ELSE NoMsg(e, p)
             /\ OneMsg(msgQ, p) /\ ~Carries(x, p) => OneMsg(e, p)
  BY <1>3, <1>4, CarryingQueue
<1>8. NiTypeOK' /\ NiThreadsOK'
  <2>1. NiTypeOK /\ NiThreadsOK
    BY DEF NiOwned
  <2>2. /\ freed \subseteq 1..n + 1 /\ leaked \subseteq 1..n + 1 /\ c \in 0..n + 1
    BY <1>1, <1>3, <2>1 DEF NiTypeOK
  <2>3. /\ niSession \in [Kind -> [rawRequest : 0..n + 1, reqID : 0..c, respRecvd : BOOLEAN, resp : Response]]
        /\ niThread \in [ReqID -> [kind : Kind, at : {"new", "waiting", "unlocked", "sending", "done"},
                                   resp : Response, rawRequest : 0..n + 1]]
    BY <1>1, <1>3, <2>1 DEF NiTypeOK
  <2> QED BY <1>1, <1>2, <1>3, <2>1, <2>2, <2>3 DEF NiTypeOK, NiThreadsOK
<1>9. ASSUME NEW p \in Payload PROVE Placed(p)'
  <2>1. Placed(p) /\ p \in Nat /\ freed \subseteq 1..n /\ leaked \subseteq 1..n
    BY <1>1 DEF NiOwned, NiTypeOK, Payload
  <2>2. /\ InNoSession(p)' <=> InNoSession(p)
        /\ InOneSession(p)' <=> InOneSession(p)
        /\ InNoThread(p)' <=> InNoThread(p)
        /\ InOneThread(p)' <=> InOneThread(p)
    BY <1>2 DEF InNoSession, InOneSession, InNoThread, InOneThread
  <2>3. (NoMsg(msgQ, p)' <=> NoMsg(e, p)) /\ (OneMsg(msgQ, p)' <=> OneMsg(e, p))
    BY <1>1 DEF NoMsg, OneMsg, Carries
  <2>4. Carries(x, p) <=> p = n + 1
    BY <1>5 DEF Carries, PayloadKinds
  <2>5. CASE p = n + 1
    <3>1. Gone(p) /\ ~Gone(p)'
      BY <1>1, <1>2, <1>3, <2>1, <2>5 DEF Gone
    <3> QED BY <1>7, <2>1, <2>2, <2>3, <2>4, <2>5, <3>1 DEF Placed
  <2>6. CASE p # n + 1
    <3>1. Gone(p) <=> Gone(p)'
      BY <1>1, <1>2, <1>3, <2>1, <2>6 DEF Gone
    <3> QED BY <1>7, <2>1, <2>2, <2>3, <2>4, <2>6, <3>1 DEF Placed
  <2> QED BY <2>5, <2>6
<1>10. IsQueue(msgQ)' /\ NotesIn(msgQ, reqIDCounter, notified)'
  BY <1>1, <1>2, <1>6 DEF NotesIn
<1> QED BY <1>8, <1>9, <1>10 DEF NiOwned

(* The payload of the oldest message: it has it alone.                     *)
LEMMA HeadPayload ==
  ASSUME NiOwned, msgQ # <<>>, Head(msgQ).msg \in PayloadKinds, NEW p, p = Head(msgQ).data,
         NEW e, e = Tail(msgQ)
  PROVE  /\ p \in Payload /\ p \in 1..notified /\ ~Gone(p)
         /\ Head(msgQ).msg = "NiNotify" => Head(msgQ).kind \in Kind /\ p \in reqIDCounter + 1 .. notified
         /\ NoMsg(e, p) /\ InNoSession(p) /\ InNoThread(p)
         /\ IsQueue(e) /\ NotesIn(e, reqIDCounter, notified)
         /\ Head(msgQ).msg = "NiNotify" => NotesIn(e, reqIDCounter + 1, notified)
         /\ \A q \in Payload : q # p => (NoMsg(msgQ, q) => NoMsg(e, q)) /\ (OneMsg(msgQ, q) => OneMsg(e, q))
<1>1. /\ IsQueue(msgQ) /\ reqIDCounter \in Nat /\ notified \in Nat /\ notified <= MaxNotify
      /\ NotesIn(msgQ, reqIDCounter, notified) /\ \A q \in Payload : Placed(q)
  BY NotifyAssumption DEF NiOwned, NiTypeOK
<1>2. IsOneLess(msgQ, e)
  BY <1>1, QueueShrinks
<1>3. Head(msgQ) = msgQ[1] /\ 1 \in 1..Len(msgQ) /\ IsQueue(e)
  BY <1>2 DEF IsOneLess
<1>4. /\ Head(msgQ).msg = "NiNotify" => Head(msgQ).kind \in Kind /\ p \in reqIDCounter + 1 .. notified
      /\ Head(msgQ).msg = "InformNi" => p \in 1..notified
  BY <1>1, <1>3 DEF NotesIn
<1>5. p \in 1..notified /\ p \in Payload
  BY <1>1, <1>4, NotifyAssumption DEF PayloadKinds, Payload
<1>6. Carries(Head(msgQ), p) /\ \A q : q # p => ~Carries(Head(msgQ), q)
  BY DEF Carries
<1>7. ~NoMsg(msgQ, p)
  BY <1>3, <1>6 DEF NoMsg
<1>8. ~Gone(p) /\ OneMsg(msgQ, p) /\ InNoSession(p) /\ InNoThread(p)
  BY <1>1, <1>5, <1>7 DEF Placed
<1>9. /\ NotesIn(e, reqIDCounter, notified)
      /\ Head(msgQ).msg = "NiNotify" => NotesIn(e, reqIDCounter + 1, notified)
      /\ \A q : /\ NoMsg(msgQ, q) => NoMsg(e, q)
                /\ OneMsg(msgQ, q) => IF Carries(Head(msgQ), q) THEN NoMsg(e, q) ELSE OneMsg(e, q)
  BY <1>1, <1>2, ShorterQueue
<1> QED BY <1>3, <1>4, <1>5, <1>6, <1>8, <1>9

(* The oldest message is taken, and its payload is freed or lost.          *)
LEMMA OwnedEnds ==
  ASSUME NiOwned, msgQ # <<>>, Head(msgQ).msg \in PayloadKinds, msgQ' = Tail(msgQ),
         UNCHANGED <<notified, niData>>, NEW p, p = Head(msgQ).data,
         \/ freed' = freed \cup {p} /\ leaked' = leaked
         \/ leaked' = leaked \cup {p} /\ freed' = freed
  PROVE  NiOwned'
<1>1. PICK e : e = msgQ' /\ e = Tail(msgQ)
  OBVIOUS
<1>2. /\ p \in Payload /\ p \in 1..notified /\ ~Gone(p)
      /\ NoMsg(e, p) /\ InNoSession(p) /\ InNoThread(p)
      /\ IsQueue(e) /\ NotesIn(e, reqIDCounter, notified)
      /\ \A q \in Payload : q # p => (NoMsg(msgQ, q) => NoMsg(e, q)) /\ (OneMsg(msgQ, q) => OneMsg(e, q))
  BY <1>1, HeadPayload
<1>3. IsQueue(msgQ)' /\ NotesIn(msgQ, reqIDCounter, notified)'
  BY <1>1, <1>2 DEF NotesIn, niData
<1>4. NiTypeOK' /\ NiThreadsOK'
  BY <1>2 DEF NiOwned, NiTypeOK, NiThreadsOK, niData
<1>5. ASSUME NEW q \in Payload PROVE Placed(q)'
  <2>1. /\ InNoSession(q)' <=> InNoSession(q)
        /\ InOneSession(q)' <=> InOneSession(q)
        /\ InNoThread(q)' <=> InNoThread(q)
        /\ InOneThread(q)' <=> InOneThread(q)
    BY DEF niData, InNoSession, InOneSession, InNoThread, InOneThread
  <2>2. (NoMsg(msgQ, q)' <=> NoMsg(e, q)) /\ (OneMsg(msgQ, q)' <=> OneMsg(e, q))
    BY <1>1 DEF NoMsg, OneMsg, Carries
  <2>3. Gone(q)' <=> Gone(q) \/ q = p
    BY DEF Gone
  <2> QED BY <1>2, <2>1, <2>2, <2>3 DEF NiOwned, Placed
<1> QED BY <1>3, <1>4, <1>5 DEF NiOwned

(* A session takes the payload of the notification.                        *)
LEMMA OwnedSaved ==
  ASSUME NiOwned, Receive("NiNotify"), NEW k, k = Head(msgQ).kind, NEW p, p = Head(msgQ).data,
         NEW created, SaveRequest(k, p, created), UNCHANGED notified
  PROVE  NiOwned'
<1>1. PICK n, c, e : n = notified /\ c = reqIDCounter /\ e = msgQ'
  OBVIOUS
<1>2. msgQ # <<>> /\ Head(msgQ).msg = "NiNotify" /\ e = Tail(msgQ)
  BY <1>1 DEF Receive, Takes
<1>3. /\ p \in Payload /\ p \in c + 1 .. n /\ ~Gone(p) /\ k \in Kind
      /\ NoMsg(e, p) /\ InNoSession(p) /\ InNoThread(p)
      /\ IsQueue(e) /\ NotesIn(e, c + 1, n)
      /\ \A q \in Payload : q # p => (NoMsg(msgQ, q) => NoMsg(e, q)) /\ (OneMsg(msgQ, q) => OneMsg(e, q))
  BY <1>1, <1>2, HeadPayload DEF PayloadKinds
<1>4. /\ c \in Nat /\ n \in Nat /\ n <= MaxNotify /\ c + 1 \in ReqID /\ c + 1 \in 0..n
      /\ niSession \in [Kind -> [rawRequest : 0..n, reqID : 0..c + 1, respRecvd : BOOLEAN, resp : Response]]
      /\ niThread \in [ReqID -> [kind : Kind, at : {"new", "waiting", "unlocked", "sending", "done"},
                                 resp : Response, rawRequest : 0..n]]
      /\ NiThreadsOK
  <2>1. /\ c \in Nat /\ n \in Nat /\ n <= MaxNotify /\ NiThreadsOK
        /\ niSession \in [Kind -> [rawRequest : 0..n, reqID : 0..c, respRecvd : BOOLEAN, resp : Response]]
        /\ niThread \in [ReqID -> [kind : Kind, at : {"new", "waiting", "unlocked", "sending", "done"},
                                   resp : Response, rawRequest : 0..n]]
    BY <1>1, NotifyAssumption DEF NiOwned, NiTypeOK
  <2>2. c + 1 \in 1..n /\ c + 1 \in 1..MaxNotify
    BY <1>3, <2>1, NotifyAssumption
  <2>3. 0..c \subseteq 0..c + 1
    BY <2>1
  <2>4. niSession \in [Kind -> [rawRequest : 0..n, reqID : 0..c + 1, respRecvd : BOOLEAN, resp : Response]]
    BY <2>1, <2>3
  <2> QED BY <2>1, <2>2, <2>4 DEF ReqID
<1>5. /\ reqIDCounter' = c + 1 /\ ~Busy(k)
      /\ niSession' = [niSession EXCEPT ![k].rawRequest = p, ![k].reqID = c + 1]
      /\ \/ niThread' = [niThread EXCEPT ![c + 1] = [kind |-> k, at |-> "new", resp |-> "NO_RESPONSE",
                                                     rawRequest |-> None]]
         \/ niThread' = niThread
      /\ UNCHANGED <<freed, leaked>>
  BY <1>1 DEF SaveRequest
<1>6. niSession[k].rawRequest = None
  BY <1>3, <1>5 DEF Busy, HasRequest, Kind
<1>7. /\ niSession' \in [Kind -> [rawRequest : 0..n, reqID : 0..c + 1, respRecvd : BOOLEAN, resp : Response]]
      /\ niSession'[k].rawRequest = p
      /\ \A l \in Kind : l # k => niSession'[l].rawRequest = niSession[l].rawRequest
  <2>1. p \in 0..n
    BY <1>3, <1>4
  <2> QED BY <1>3, <1>4, <1>5, <2>1
<1>8. /\ niThread' \in [ReqID -> [kind : Kind, at : {"new", "waiting", "unlocked", "sending", "done"},
                                  resp : Response, rawRequest : 0..n]]
      /\ \A r \in ReqID : niThread'[r].rawRequest = niThread[r].rawRequest
      /\ \A r \in ReqID : r # c + 1 => niThread'[r] = niThread[r]
      /\ niThread'[c + 1].at \in {"new", "done"} /\ niThread'[c + 1].rawRequest = None
  <2>1. niThread[c + 1].at = "done" /\ niThread[c + 1].rawRequest = None
    BY <1>1, <1>4 DEF NiThreadsOK
  <2>2. [kind |-> k, at |-> "new", resp |-> "NO_RESPONSE", rawRequest |-> None] \in
          [kind : Kind, at : {"new", "waiting", "unlocked", "sending", "done"},
           resp : Response, rawRequest : 0..n]
    BY <1>3, <1>4 DEF Response, UserResponse, None
  <2>3. CASE niThread' = niThread
    BY <1>4, <2>1, <2>3
  <2>4. CASE niThread' = [niThread EXCEPT ![c + 1] = [kind |-> k, at |-> "new", resp |-> "NO_RESPONSE",
                                                     rawRequest |-> None]]
    BY <1>4, <2>1, <2>2, <2>4
  <2> QED BY <1>5, <2>3, <2>4
<1>9. NiTypeOK'
  BY <1>1, <1>4, <1>5, <1>7, <1>8 DEF NiOwned, NiTypeOK
<1>10. NiThreadsOK'
  <2>1. \A r \in ReqID : r > c + 1 => r > c /\ r # c + 1
    BY <1>4 DEF ReqID
  <2>2. ~(c + 1 > c + 1)
    BY <1>4
  <2> QED BY <1>1, <1>4, <1>5, <1>8, <2>1, <2>2 DEF NiThreadsOK
<1>11. IsQueue(msgQ)' /\ NotesIn(msgQ, reqIDCounter, notified)'
  BY <1>1, <1>3, <1>5 DEF NotesIn
<1>12. ASSUME NEW q \in Payload PROVE Placed(q)'
  <2>1. Placed(q) /\ q # None
    BY DEF NiOwned, Payload, None
  <2>2. (InNoThread(q)' <=> InNoThread(q)) /\ (InOneThread(q)' <=> InOneThread(q))
    BY <1>8 DEF InNoThread, InOneThread
  <2>3. (NoMsg(msgQ, q)' <=> NoMsg(e, q)) /\ (OneMsg(msgQ, q)' <=> OneMsg(e, q))
    BY <1>1 DEF NoMsg, OneMsg, Carries
  <2>4. Gone(q)' <=> Gone(q)
    BY <1>5 DEF Gone
  <2>5. q # p => (InNoSession(q) => InNoSession(q)') /\ (InOneSession(q) => InOneSession(q)')
    BY <1>3, <1>6, <1>7, <2>1 DEF InNoSession, InOneSession
  <2>6. InNoSession(p) => InOneSession(p)'
    BY <1>3, <1>7 DEF InNoSession, InOneSession
  <2> QED BY <1>3, <2>1, <2>2, <2>3, <2>4, <2>5, <2>6 DEF Placed
<1> QED BY <1>9, <1>10, <1>11, <1>12 DEF NiOwned


(* The thread of request r leaves its wait: the payload goes from the      *)
(* session to the thread, or is freed.                                     *)
LEMMA OwnedTaken ==
  ASSUME NiOwned, NEW r \in ReqID, NEW resp \in Response, niThread[r].at \in {"new", "waiting"},
         TakeRequest(r, resp), UNCHANGED <<msgQ, notified, reqIDCounter, leaked>>
  PROVE  NiOwned'
<1>1. PICK n, c, k, p, send : /\ n = notified /\ c = reqIDCounter /\ k = niThread[r].kind
                              /\ p = niSession[k].rawRequest
                              /\ send = (p # None /\ resp # "IGNORE")
  OBVIOUS
<1>2. /\ n \in Nat /\ c \in Nat /\ n <= MaxNotify /\ NiThreadsOK
      /\ niSession \in [Kind -> [rawRequest : 0..n, reqID : 0..c, respRecvd : BOOLEAN, resp : Response]]
      /\ niThread \in [ReqID -> [kind : Kind, at : {"new", "waiting", "unlocked", "sending", "done"},
                                 resp : Response, rawRequest : 0..n]]
      /\ freed \subseteq 1..n
  BY <1>1, NotifyAssumption DEF NiOwned, NiTypeOK
<1>3. k \in Kind /\ p \in 0..n /\ niThread[r].rawRequest = None /\ send \in BOOLEAN
  BY <1>1, <1>2 DEF NiThreadsOK
<1>4. /\ niSession' = [niSession EXCEPT ![k].respRecvd = FALSE, ![k].resp = resp, ![k].rawRequest = None]
      /\ niThread' = [niThread EXCEPT ![r].at = "unlocked", ![r].resp = resp,
                                      ![r].rawRequest = IF send THEN p ELSE None]
      /\ freed' = IF p # None /\ ~send THEN freed \cup {p} ELSE freed
  BY <1>1 DEF TakeRequest
<1>5. None \in 0..n /\ (p # None => p \in 1..n /\ p \in Payload)
  <2>1. None \in 0..n /\ (p # None => p \in 1..n)
    BY <1>2, <1>3 DEF None
  <2>2. 1..n \subseteq Payload
    BY <1>2, NotifyAssumption DEF Payload
  <2> QED BY <2>1, <2>2
<1>6. /\ niSession' \in [Kind -> [rawRequest : 0..n, reqID : 0..c, respRecvd : BOOLEAN, resp : Response]]
      /\ niSession'[k].rawRequest = None
      /\ \A l \in Kind : l # k => niSession'[l].rawRequest = niSession[l].rawRequest
  <2>1. PICK s : s = [niSession[k] EXCEPT !.respRecvd = FALSE, !.resp = resp, !.rawRequest = None]
    OBVIOUS
  <2>2. s \in [rawRequest : 0..n, reqID : 0..c, respRecvd : BOOLEAN, resp : Response] /\ s.rawRequest = None
    BY <1>2, <1>3, <1>5, <2>1
  <2>3. niSession' = [niSession EXCEPT ![k] = s]
    BY <1>2, <1>3, <1>4, <2>1
  <2> QED BY <1>2, <1>3, <2>2, <2>3
<1>7. PICK v \in 0..n : v = IF send THEN p ELSE None
  BY <1>3, <1>5
<1>8. /\ niThread' \in [ReqID -> [kind : Kind, at : {"new", "waiting", "unlocked", "sending", "done"},
                                  resp : Response, rawRequest : 0..n]]
      /\ niThread'[r].rawRequest = v /\ niThread'[r].at = "unlocked"
      /\ \A q \in ReqID : q # r => niThread'[q] = niThread[q]
  <2>1. niThread' = [niThread EXCEPT ![r].at = "unlocked", ![r].resp = resp, ![r].rawRequest = v]
    BY <1>4, <1>7
  <2>2. PICK t : t = [niThread[r] EXCEPT !.at = "unlocked", !.resp = resp, !.rawRequest = v]
    OBVIOUS
  <2>3. /\ t \in [kind : Kind, at : {"new", "waiting", "unlocked", "sending", "done"},
                  resp : Response, rawRequest : 0..n]
        /\ t.rawRequest = v /\ t.at = "unlocked"
    BY <1>2, <1>3, <1>5, <2>2
  <2>4. niThread' = [niThread EXCEPT ![r] = t]
    BY <1>2, <2>1, <2>2
  <2> QED BY <1>2, <2>3, <2>4
<1>9. NiTypeOK'
  <2>1. freed' \subseteq 1..n
    BY <1>2, <1>4, <1>5
  <2> QED BY <1>1, <1>6, <1>8, <2>1 DEF NiOwned, NiTypeOK
<1>10. NiThreadsOK'
  <2>1. ~(r > reqIDCounter)
    BY <1>2 DEF NiThreadsOK
  <2> QED BY <1>2, <1>8, <2>1 DEF NiThreadsOK
<1>11. IsQueue(msgQ)' /\ NotesIn(msgQ, reqIDCounter, notified)'
  BY DEF NiOwned, NotesIn
<1>12. ASSUME NEW q \in Payload PROVE Placed(q)'
  <2>1. Placed(q) /\ q # None
    BY DEF NiOwned, Payload, None
  <2>2. (NoMsg(msgQ, q)' <=> NoMsg(msgQ, q)) /\ (OneMsg(msgQ, q)' <=> OneMsg(msgQ, q))
    BY DEF NoMsg, OneMsg, Carries
  <2>3. CASE q = p
    <3>1. InOneSession(p) /\ ~InNoSession(p)
      BY <1>1, <1>3, <2>1, <2>3 DEF InOneSession, InNoSession, Placed
    <3>2. ~Gone(p) /\ NoMsg(msgQ, p) /\ InNoThread(p)
      BY <2>1, <2>3, <3>1 DEF Placed
    <3>3. InNoSession(p)'
      BY <1>1, <1>3, <1>6, <2>1, <2>3, <3>1 DEF InOneSession, InNoSession
    <3>4. CASE send
      <4>1. InOneThread(p)'
        BY <1>7, <1>8, <3>2, <3>4 DEF InNoThread, InOneThread
      <4>2. ~Gone(p)'
        BY <1>4, <3>2, <3>4 DEF Gone
      <4> QED BY <2>2, <2>3, <3>2, <3>3, <4>1, <4>2 DEF Placed
    <3>5. CASE ~send
      <4>1. InNoThread(p)'
        BY <1>7, <1>8, <2>1, <2>3, <3>2, <3>5 DEF InNoThread
      <4>2. Gone(p)'
        BY <1>4, <2>1, <2>3, <3>5 DEF Gone
      <4> QED BY <2>2, <2>3, <3>2, <3>3, <4>1, <4>2 DEF Placed
    <3> QED BY <3>4, <3>5
  <2>4. CASE q # p
    <3>1. Gone(q)' <=> Gone(q)
      BY <1>4, <2>4 DEF Gone
    <3>2. (InNoSession(q)' <=> InNoSession(q)) /\ (InOneSession(q)' <=> InOneSession(q))
      BY <1>1, <1>3, <1>6, <2>1, <2>4 DEF InNoSession, InOneSession
    <3>3. (InNoThread(q)' <=> InNoThread(q)) /\ (InOneThread(q)' <=> InOneThread(q))
      BY <1>3, <1>7, <1>8, <2>1, <2>4 DEF InNoThread, InOneThread
    <3> QED BY <2>1, <2>2, <3>1, <3>2, <3>3 DEF Placed
  <2> QED BY <2>3, <2>4
<1> QED BY <1>9, <1>10, <1>11, <1>12 DEF NiOwned

(* The thread of request r hands the payload to the message task.          *)
LEMMA OwnedSent ==
  ASSUME NiOwned, NEW r \in ReqID, niThreadSend(r)
  PROVE  NiOwned'
<1>1. PICK n, c, p, x, e : /\ n = notified /\ c = reqIDCounter /\ p = niThread[r].rawRequest /\ e = msgQ'
                           /\ x = [msg |-> "InformNi", data |-> p, resp |-> niThread[r].resp]
  OBVIOUS
<1>2. /\ n \in Nat /\ c \in Nat /\ c <= n /\ n <= MaxNotify /\ NiThreadsOK /\ NotesIn(msgQ, c, n) /\ IsQueue(msgQ)
      /\ niThread \in [ReqID -> [kind : Kind, at : {"new", "waiting", "unlocked", "sending", "done"},
                                 resp : Response, rawRequest : 0..n]]
  BY <1>1, NotifyAssumption DEF NiOwned, NiTypeOK
<1>3. /\ niThread[r].at = "sending" /\ e = Append(msgQ, x)
      /\ niThread' = [niThread EXCEPT ![r].at = "done", ![r].rawRequest = None]
      /\ UNCHANGED <<notified, reqIDCounter, niSession, freed, leaked>>
  BY <1>1 DEF niThreadSend, At, Post, niEnv
<1>4. p \in 1..n /\ p \in Payload
  BY <1>1, <1>2, <1>3 DEF NiThreadsOK, None, Payload
<1>5. Placed(p) /\ ~InNoThread(p)
  BY <1>1, <1>4 DEF NiOwned, InNoThread
<1>6. ~Gone(p) /\ NoMsg(msgQ, p) /\ InNoSession(p) /\ InOneThread(p)
  BY <1>5 DEF Placed
<1>7. x.msg = "InformNi" /\ x.data \in 1..n
  BY <1>1, <1>4
<1>8. IsOneMore(msgQ, x, e)
  BY <1>2, <1>3, QueueGrows
<1>9. /\ NotesIn(e, c, n)
      /\ \A q : /\ NoMsg(msgQ, q) => IF Carries(x, q) THEN OneMsg(e, q) ELSE NoMsg(e, q)
                /\ OneMsg(msgQ, q) /\ ~Carries(x, q) => OneMsg(e, q)
  BY <1>2, <1>7, <1>8, CarryingQueue
<1>10. /\ niThread' \in [ReqID -> [kind : Kind, at : {"new", "waiting", "unlocked", "sending", "done"},
                                   resp : Response, rawRequest : 0..n]]
       /\ niThread'[r].rawRequest = None /\ niThread'[r].at = "done"
       /\ \A q \in ReqID : q # r => niThread'[q] = niThread[q]
  <2>1. None \in 0..n
    BY <1>2 DEF None
  <2> QED BY <1>2, <1>3, <2>1
<1>11. NiTypeOK'
  BY <1>1, <1>3, <1>10 DEF NiOwned, NiTypeOK
<1>12. NiThreadsOK'
  BY <1>2, <1>3, <1>10 DEF NiThreadsOK
<1>13. IsQueue(msgQ)' /\ NotesIn(msgQ, reqIDCounter, notified)'
  BY <1>1, <1>3, <1>8, <1>9 DEF NotesIn, IsOneMore
<1>14. ASSUME NEW q \in Payload PROVE Placed(q)'
  <2>1. Placed(q) /\ q # None
    BY DEF NiOwned, Payload, None
  <2>2. (NoMsg(msgQ, q)' <=> NoMsg(e, q)) /\ (OneMsg(msgQ, q)' <=> OneMsg(e, q))
    BY <1>1 DEF NoMsg, OneMsg, Carries
  <2>3. Gone(q)' <=> Gone(q)
    BY <1>3 DEF Gone
  <2>4. (InNoSession(q)' <=> InNoSession(q)) /\ (InOneSession(q)' <=> InOneSession(q))
    BY <1>3 DEF InNoSession, InOneSession
  <2>5. Carries(x, q) <=> q = p
    BY <1>1 DEF Carries, PayloadKinds
  <2>6. CASE q = p
    <3>1. InNoThread(p)'
      BY <1>1, <1>6, <1>10, <2>1, <2>6 DEF InOneThread, InNoThread
    <3> QED BY <1>6, <1>9, <2>2, <2>3, <2>4, <2>5, <2>6, <3>1 DEF Placed
  <2>7. CASE q # p
    <3>1. (InNoThread(q)' <=> InNoThread(q)) /\ (InOneThread(q)' <=> InOneThread(q))
      BY <1>1, <1>10, <2>1, <2>7 DEF InNoThread, InOneThread
    <3> QED BY <1>9, <2>1, <2>2, <2>3, <2>4, <2>5, <2>7, <3>1 DEF Placed
  <2> QED BY <2>6, <2>7
<1> QED BY <1>11, <1>12, <1>13, <1>14 DEF NiOwned


(* The steps of a request's thread *)
LEMMA OwnedByThread ==
  ASSUME NiOwned, NEW r \in ReqID, NiThreadStep(r)
  PROVE  NiOwned'
<1>1. PICK n, c : n = notified /\ c = reqIDCounter
  OBVIOUS
<1>2. /\ n \in Nat /\ c \in Nat /\ NiThreadsOK /\ NiTypeOK /\ Leaves(msgQ)
      /\ niSession \in [Kind -> [rawRequest : 0..n, reqID : 0..c, respRecvd : BOOLEAN, resp : Response]]
      /\ niThread \in [ReqID -> [kind : Kind, at : {"new", "waiting", "unlocked", "sending", "done"},
                                 resp : Response, rawRequest : 0..n]]
  BY <1>1, KeptQueue, NotifyAssumption DEF NiOwned, NiTypeOK
<1>3. ASSUME NEW resp \in Response, At(r, "new") \/ At(r, "waiting"), TakeRequest(r, resp), UNCHANGED niUnchanged
      PROVE  NiOwned'
  BY <1>3, OwnedTaken DEF At, niUnchanged, taskVars, niEnv
<1>4. niThread[r].kind \in Kind /\ niSession[niThread[r].kind].resp \in Response
  BY <1>2
<1>5. CASE niThreadStart(r)
  <2>1. CASE niThread' = [niThread EXCEPT ![r].at = "waiting"] /\ UNCHANGED <<niSession, freed>>
    <3>1. /\ niThread[r].at = "new" /\ UNCHANGED <<msgQ, notified, reqIDCounter, leaked>>
      BY <1>5 DEF niThreadStart, At, niUnchanged, taskVars, niEnv
    <3>2. /\ niThread' \in [ReqID -> [kind : Kind, at : {"new", "waiting", "unlocked", "sending", "done"},
                                      resp : Response, rawRequest : 0..n]]
          /\ niThread'[r].rawRequest = niThread[r].rawRequest /\ niThread'[r].at = "waiting"
          /\ \A q \in ReqID : q # r => niThread'[q] = niThread[q]
      BY <1>2, <2>1
    <3>3. NiTypeOK' /\ NiThreadsOK'
      BY <1>1, <1>2, <2>1, <3>1, <3>2 DEF NiTypeOK, NiThreadsOK
    <3>4. PICK e : e = msgQ' /\ Leaves(e)
      BY <1>2, <3>1
    <3> QED BY <2>1, <3>1, <3>2, <3>3, <3>4, OwnedKept
  <2>2. CASE TakeRequest(r, niSession[niThread[r].kind].resp)
    BY <1>3, <1>4, <1>5, <2>2 DEF niThreadStart
  <2> QED BY <1>5, <2>1, <2>2 DEF niThreadStart
<1>6. CASE niThreadSignalled(r)
  BY <1>3, <1>4, <1>6 DEF niThreadSignalled
<1>7. CASE niThreadTimedOut(r)
  BY <1>3, <1>7 DEF niThreadTimedOut, Response, UserResponse
<1>8. CASE niThreadClear(r)
  <2>1. PICK k, at : /\ k \in Kind /\ k = niThread[r].kind
                     /\ at = IF niThread[r].rawRequest = None THEN "done" ELSE "sending"
    BY <1>4
  <2>2. /\ niThread[r].at = "unlocked" /\ UNCHANGED <<msgQ, notified, reqIDCounter, leaked, freed>>
        /\ niSession' = [niSession EXCEPT ![k].reqID = None]
        /\ niThread' = [niThread EXCEPT ![r].at = at]
    BY <1>8, <2>1 DEF niThreadClear, At, niUnchanged, taskVars, niEnv
  <2>3. /\ niThread' \in [ReqID -> [kind : Kind, at : {"new", "waiting", "unlocked", "sending", "done"},
                                    resp : Response, rawRequest : 0..n]]
        /\ niThread'[r].rawRequest = niThread[r].rawRequest /\ niThread'[r].at = at
        /\ \A q \in ReqID : q # r => niThread'[q] = niThread[q]
    BY <1>2, <2>1, <2>2
  <2>4. /\ niSession' \in [Kind -> [rawRequest : 0..n, reqID : 0..c, respRecvd : BOOLEAN, resp : Response]]
        /\ \A l \in Kind : niSession'[l].rawRequest = niSession[l].rawRequest
    <3>1. None \in 0..c
      BY <1>2 DEF None
    <3>2. PICK t : /\ t = [niSession[k] EXCEPT !.reqID = None]
                   /\ niSession' = [niSession EXCEPT ![k] = t]
      BY <2>2
    <3>3. /\ t \in [rawRequest : 0..n, reqID : 0..c, respRecvd : BOOLEAN, resp : Response]
          /\ t.rawRequest = niSession[k].rawRequest
      BY <1>2, <2>1, <3>1, <3>2
    <3> QED BY <1>2, <2>1, <3>2, <3>3
  <2>5. NiTypeOK' /\ NiThreadsOK'
    BY <1>1, <1>2, <2>1, <2>2, <2>3, <2>4 DEF NiTypeOK, NiThreadsOK
  <2>6. PICK e : e = msgQ' /\ Leaves(e)
    BY <1>2, <2>2
  <2> QED BY <2>2, <2>3, <2>4, <2>5, <2>6, OwnedKept
<1>9. CASE niThreadSend(r)
  BY <1>9, OwnedSent
<1> QED BY <1>5, <1>6, <1>7, <1>8, <1>9 DEF NiThreadStep

LEMMA OwnedByMessages ==
  ASSUME NiOwned
  PROVE  (requestNiNotify => NiOwned') /\ (informNiResponse => NiOwned')
<1>1. PICK k, p : k = Head(msgQ).kind /\ p = Head(msgQ).data
  OBVIOUS
<1>2. ASSUME requestNiNotify PROVE NiOwned'
  <2>1. /\ Receive("NiNotify") /\ msgQ # <<>> /\ Head(msgQ).msg \in PayloadKinds /\ msgQ' = Tail(msgQ)
        /\ UNCHANGED notified
        /\ NoCallback(p) \/ IgnoreRequest(k, p) \/ \E created \in BOOLEAN : SaveRequest(k, p, created)
    BY <1>1, <1>2 DEF requestNiNotify, Receive, Takes, PayloadKinds, niEnv
  <2>2. CASE NoCallback(p)
    BY <1>1, <2>1, <2>2, OwnedEnds DEF NoCallback
  <2>3. CASE IgnoreRequest(k, p)
    BY <1>1, <2>1, <2>3, OwnedEnds DEF IgnoreRequest
  <2>4. ASSUME NEW created \in BOOLEAN, SaveRequest(k, p, created) PROVE NiOwned'
    BY <1>1, <2>1, <2>4, OwnedSaved
  <2> QED BY <2>1, <2>2, <2>3, <2>4
<1>3. ASSUME informNiResponse PROVE NiOwned'
  BY <1>1, <1>3, OwnedEnds DEF informNiResponse, Receive, Takes, PayloadKinds
<1> QED BY <1>2, <1>3

LEMMA NiOwnedInductive == Spec => []NiOwned
<1>1. Init => NiOwned
  <2> SUFFICES ASSUME Init PROVE NiOwned
    OBVIOUS
  <2>1. /\ msgQ = <<[msg |-> "SetConfig"]>> /\ notified = 0 /\ reqIDCounter = 0 /\ freed = {} /\ leaked = {}
        /\ niSession = [k \in Kind |-> NoSession] /\ niThread = [r \in ReqID |-> NoThread]
    BY DEF Init, NiInit
  <2>2. /\ IsQueue(msgQ) /\ NotesIn(msgQ, reqIDCounter, notified)
        /\ \A i \in 1..Len(msgQ) : msgQ[i].msg \notin PayloadKinds
    <3>1. IsQueue(msgQ) /\ Len(msgQ) = 1 /\ msgQ[1].msg = "SetConfig"
      BY <2>1, ShortQueues
    <3> QED BY <3>1 DEF NotesIn, PayloadKinds
  <2>3. NiTypeOK
    BY <2>1, NotifyAssumption DEF NiTypeOK, NoSession, NoThread, None, Kind, Response, UserResponse
  <2>4. NiThreadsOK
    BY <2>1 DEF NiThreadsOK, NoThread
  <2>5. ASSUME NEW p \in Payload PROVE Placed(p)
    <3>1. p > 0 /\ p # None
      BY DEF Payload, None
    <3> QED BY <2>1, <2>2, <3>1 DEF Placed, Gone, NoMsg, Carries, InNoSession, InNoThread, NoSession, NoThread
  <2> QED BY <2>2, <2>3, <2>4, <2>5 DEF NiOwned
<1>2. NiOwned /\ ResponsesOK /\ [Next]_vars => NiOwned'
  <2> SUFFICES ASSUME NiOwned, ResponsesOK, [Next]_vars PROVE NiOwned'
    OBVIOUS
  <2>1. CASE NiStep
    BY <2>1, OwnedByNi, OwnedNotifyEvent, OwnedByMessages, OwnedByThread DEF NiStep, NiInput, NiHandler
  <2>2. ASSUME UNCHANGED niVars, NEW e, e = msgQ', Leaves(e) PROVE NiOwned'
    BY <2>2, SameTypes, OwnedKept DEF NiOwned, niVars, niData, niEnv
  <2>3. CASE (OdcpiStep \/ ControlStep \/ restartSessions) /\ UNCHANGED niVars
    <3>1. PICK kinds : QueueStep(kinds) /\ kinds \cap NiKinds = {}
      BY <2>3, OthersKinds DEF ResponsesOK
    <3>2. kinds \cap PayloadKinds = {}
      BY <3>1 DEF NiKinds, PayloadKinds
    <3>3. PICK e : e = msgQ'
      OBVIOUS
    <3>4. Leaves(e)
      BY <3>1, <3>2, <3>3, OthersQueue, NotifyAssumption DEF NiOwned, NiTypeOK, Leaves
    <3> QED BY <2>2, <2>3, <3>3, <3>4
  <2>4. CASE UNCHANGED <<taskVars, niVars, odcpiVars, controlVars>>
    BY <2>2, <2>4, KeptQueue DEF taskVars
  <2>5. restartSessions => UNCHANGED niVars
    BY DEF restartSessions
  <2> QED BY <2>1, <2>3, <2>4, <2>5, Steps
<1> QED BY <1>1, <1>2, ResponsesInductive, PTL DEF Spec


LEMMA HoldersOfPlaced ==
  ASSUME NiOwned, NEW p \in Payload
  PROVE  Cardinality(Holders(p)) = IF Gone(p) THEN 0 ELSE 1
<1>1. PICK ms, ss, ts :
        /\ ms = {<<"msg", i>> : i \in {j \in DOMAIN msgQ : /\ msgQ[j].msg \in {"NiNotify", "InformNi"}
                                                           /\ msgQ[j].data = p}}
        /\ ss = {<<"session", k>> : k \in {l \in Kind : niSession[l].rawRequest = p}}
        /\ ts = {<<"thread", r>> : r \in {q \in ReqID : niThread[q].rawRequest = p}}
  OBVIOUS
<1>2. Holders(p) = ms \cup ss \cup ts
  BY <1>1 DEF Holders
<1>3. DOMAIN msgQ = 1..Len(msgQ)
  BY DEF NiOwned, IsQueue
<1>4. (NoMsg(msgQ, p) => ms = {}) /\ (OneMsg(msgQ, p) => \E x : ms = {x})
  <2>1. PICK at : at = {j \in DOMAIN msgQ : msgQ[j].msg \in {"NiNotify", "InformNi"} /\ msgQ[j].data = p}
    OBVIOUS
  <2>2. (NoMsg(msgQ, p) => at = {}) /\ (OneMsg(msgQ, p) => \E j : at = {j})
    BY <1>3, <2>1 DEF NoMsg, OneMsg, Carries, PayloadKinds
  <2>3. \A y : y \in ms <=> \E i \in at : y = <<"msg", i>>
    BY <1>1, <2>1
  <2>4. (at = {} => ms = {}) /\ \A x : at = {x} => ms = {<<"msg", x>>}
    BY <2>3
  <2> QED BY <2>2, <2>4
<1>5. (InNoSession(p) => ss = {}) /\ (InOneSession(p) => \E x : ss = {x})
  <2>1. PICK at : at = {l \in Kind : niSession[l].rawRequest = p}
    OBVIOUS
  <2>2. (InNoSession(p) => at = {}) /\ (InOneSession(p) => \E k : at = {k})
    BY <2>1 DEF InNoSession, InOneSession
  <2>3. \A y : y \in ss <=> \E i \in at : y = <<"session", i>>
    BY <1>1, <2>1
  <2>4. (at = {} => ss = {}) /\ \A x : at = {x} => ss = {<<"session", x>>}
    BY <2>3
  <2> QED BY <2>2, <2>4
<1>6. (InNoThread(p) => ts = {}) /\ (InOneThread(p) => \E x : ts = {x})
  <2>1. PICK at : at = {q \in ReqID : niThread[q].rawRequest = p}
    OBVIOUS
  <2>2. (InNoThread(p) => at = {}) /\ (InOneThread(p) => \E r : at = {r})
    BY <2>1 DEF InNoThread, InOneThread
  <2>3. \A y : y \in ts <=> \E i \in at : y = <<"thread", i>>
    BY <1>1, <2>1
  <2>4. (at = {} => ts = {}) /\ \A x : at = {x} => ts = {<<"thread", x>>}
    BY <2>3
  <2> QED BY <2>2, <2>4
<1>7. Placed(p)
  BY DEF NiOwned
<1>8. IF Gone(p) THEN Holders(p) = {} ELSE \E x : Holders(p) = {x}
  <2>1. CASE Gone(p)
    BY <1>2, <1>4, <1>5, <1>6, <1>7, <2>1 DEF Placed
  <2>2. CASE ~Gone(p)
    BY <1>2, <1>4, <1>5, <1>6, <1>7, <2>2 DEF Placed
  <2> QED BY <2>1, <2>2
<1> QED BY <1>8, FS_EmptySet, FS_Singleton

(* PayloadOwned holds in every behaviour: there is one pointer to the      *)
(* payload of a notification until it is freed or lost, and none after     *)
(* that, whichever way the message task and the threads of the requests    *)
(* interleave (requestNiNotify, niThreadProc and the destructor of         *)
(* MsgInformNiResponse, which free it).                                    *)
THEOREM PayloadsOwned == Spec => []PayloadOwned
<1>1. NiOwned => PayloadOwned
  <2> SUFFICES ASSUME NiOwned, NEW p \in Payload
               PROVE  Cardinality(Holders(p)) = IF p <= notified /\ p \notin freed \cup leaked THEN 1 ELSE 0
    BY DEF PayloadOwned
  <2>1. Gone(p) <=> ~(p <= notified /\ p \notin freed \cup leaked)
    BY NotifyAssumption DEF Gone, NiOwned, NiTypeOK, Payload
  <2> QED BY <2>1, HoldersOfPlaced
<1> QED BY <1>1, NiOwnedInductive, PTL


-----------------------------------------------------------------------------
(* What the user said, on its way from his response to the answer of the   *)
(* modem: the ids of the sessions are those of the requests he was asked   *)
(* about, and a response that is noted in time is noted for its request.   *)
OwnAnswer(p, resp) ==
  resp # "NO_RESPONSE" => p # None /\ \E r \in ReqID : asked[r] = p /\ resp \in said[r]

AskedOK ==
  /\ asked \in [ReqID -> 0..notified] /\ said \in [ReqID -> SUBSET UserResponse] /\ late \in BOOLEAN
  /\ \A r \in ReqID : r > reqIDCounter => asked[r] = None
  /\ \A k \in Kind : HasRequest(k) /\ niSession[k].reqID # None =>
       asked[niSession[k].reqID] = niSession[k].rawRequest

MsgAnswers(m) ==
  /\ m.msg = "NiResponse" => m.resp \in said[m.id]
  /\ m.msg = "InformNi" /\ ~late => OwnAnswer(m.data, m.resp)
MsgsOK == \A i \in 1..Len(msgQ) : MsgAnswers(msgQ[i])

HandlingOK ==
  \A i \in 1..Len(handling) :
    HasRequest(handling[i].kind) /\ handling[i].resp # "IGNORE" =>
      OwnAnswer(niSession[handling[i].kind].rawRequest, handling[i].resp)

SessionAnswers(k) ==
  niSession[k].respRecvd =>
    HasRequest(k) /\ (niSession[k].resp # "IGNORE" => OwnAnswer(niSession[k].rawRequest, niSession[k].resp))
ThreadAnswers(r) == niThread[r].rawRequest # None => OwnAnswer(niThread[r].rawRequest, niThread[r].resp)

AnswersInv ==
  /\ AskedOK /\ MsgsOK /\ HandlingOK
  /\ ~late => /\ \A k \in Kind : SessionAnswers(k)
              /\ \A r \in ReqID : ThreadAnswers(r)
              /\ \A t \in told : OwnAnswer(t[1], t[2])

(* What was asked and said stays so. *)
Remembers ==
  /\ \A r \in ReqID : (asked[r] # None => asked'[r] = asked[r]) /\ said[r] \subseteq said'[r]
  /\ late => late'

LEMMA OwnRemembered ==
  ASSUME Remembers, NEW p, NEW resp, OwnAnswer(p, resp)
  PROVE  OwnAnswer(p, resp)'
BY DEF Remembers, OwnAnswer

LEMMA MsgsKept ==
  ASSUME Remembers, ResponsesTyped, MsgsOK, AskedOK, late' \in BOOLEAN, NEW e, e = msgQ',
         \A i \in 1..Len(e) : (\E j \in 1..Len(msgQ) : e[i] = msgQ[j]) \/ MsgAnswers(e[i])'
  PROVE  MsgsOK'
<1>1. ASSUME NEW m, \E j \in 1..Len(msgQ) : m = msgQ[j] PROVE MsgAnswers(m)'
  <2>1. MsgAnswers(m)
    BY <1>1 DEF MsgsOK
  <2>2. m.msg = "NiResponse" => m.id \in ReqID
    BY <1>1 DEF ResponsesTyped
  <2>3. m.msg = "NiResponse" => m.resp \in said'[m.id]
    BY <2>1, <2>2 DEF MsgAnswers, Remembers
  <2>4. m.msg = "InformNi" /\ ~late' => OwnAnswer(m.data, m.resp)'
    BY <2>1, OwnRemembered DEF MsgAnswers, Remembers
  <2> QED BY <2>3, <2>4 DEF MsgAnswers
<1>2. \A i \in 1..Len(e) : MsgAnswers(e[i])'
  BY <1>1
<1> QED BY <1>2 DEF MsgsOK, MsgAnswers, OwnAnswer

(* A message leaves the queue, stays or joins it. *)
LEMMA MsgsSteps ==
  ASSUME Remembers, ResponsesOK, MsgsOK, AskedOK, late' \in BOOLEAN
  PROVE  /\ msgQ' = msgQ => MsgsOK'
         /\ msgQ # <<>> /\ msgQ' = Tail(msgQ) => MsgsOK'
         /\ \A m : msgQ' = Append(msgQ, m) /\ MsgAnswers(m)' => MsgsOK'
         /\ \A kinds : QueueStep(kinds) /\ kinds \cap {"NiResponse", "InformNi"} = {} => MsgsOK'
<1>0. IsQueue(msgQ) /\ QueueOK /\ ResponsesTyped
  BY DEF ResponsesOK, QueueOK
<1>1. PICK e : e = msgQ'
  OBVIOUS
<1>2. ASSUME msgQ' = msgQ PROVE MsgsOK'
  BY <1>0, <1>1, <1>2, MsgsKept
<1>3. ASSUME msgQ # <<>>, msgQ' = Tail(msgQ) PROVE MsgsOK'
  <2>1. IsOneLess(msgQ, e)
    BY <1>0, <1>1, <1>3, QueueShrinks
  <2> QED BY <1>0, <1>1, <2>1, MsgsKept DEF IsOneLess
<1>4. ASSUME NEW m, msgQ' = Append(msgQ, m), MsgAnswers(m)' PROVE MsgsOK'
  <2>1. IsOneMore(msgQ, m, e)
    BY <1>0, <1>1, <1>4, QueueGrows
  <2>2. \A i \in 1..Len(e) : (\E j \in 1..Len(msgQ) : e[i] = msgQ[j]) \/ e[i] = m
    BY <2>1 DEF IsOneMore
  <2>3. \A i \in 1..Len(e) : e[i] = m => MsgAnswers(e[i])'
    BY <1>4
  <2> QED BY <1>0, <1>1, <2>2, <2>3, MsgsKept
<1>5. ASSUME NEW kinds, QueueStep(kinds), kinds \cap {"NiResponse", "InformNi"} = {} PROVE MsgsOK'
  <2>1. \A i \in 1..Len(e) : (\E j \in 1..Len(msgQ) : e[i] = msgQ[j]) \/ e[i].msg \in kinds
    BY <1>0, <1>1, <1>5, NewMsgs
  <2>2. \A m : m.msg \in kinds => MsgAnswers(m)'
    BY <1>5 DEF MsgAnswers
  <2> QED BY <1>0, <1>1, <2>1, <2>2, MsgsKept
<1> QED BY <1>2, <1>3, <1>4, <1>5


LEMMA AnswersKept ==
  ASSUME AnswersInv, Remembers, AskedOK', MsgsOK', UNCHANGED <<handling, niSession, niThread, told>>
  PROVE  AnswersInv'
<1>1. \A p, resp : OwnAnswer(p, resp) => OwnAnswer(p, resp)'
  BY OwnRemembered
<1>2. \A k \in Kind : HasRequest(k)' <=> HasRequest(k)
  BY DEF HasRequest
<1>3. HandlingOK'
  <2> SUFFICES ASSUME NEW i \in 1..Len(handling), HasRequest(handling[i].kind)', handling[i].resp # "IGNORE"
               PROVE  OwnAnswer(niSession[handling[i].kind].rawRequest, handling[i].resp)'
    BY DEF HandlingOK
  <2>1. PICK p, resp : p = niSession[handling[i].kind].rawRequest /\ resp = handling[i].resp
    OBVIOUS
  <2>2. OwnAnswer(p, resp)
    BY <2>1 DEF AnswersInv, HandlingOK, HasRequest
  <2>3. OwnAnswer(p, resp)'
    BY <1>1, <2>2
  <2> QED BY <2>1, <2>3 DEF OwnAnswer
<1>4. ASSUME ~late', NEW k \in Kind PROVE SessionAnswers(k)'
  <2>1. SessionAnswers(k)
    BY <1>4 DEF AnswersInv, Remembers
  <2>2. PICK p, resp : p = niSession[k].rawRequest /\ resp = niSession[k].resp
    OBVIOUS
  <2>3. OwnAnswer(niSession[k].rawRequest, niSession[k].resp) => OwnAnswer(p, resp)'
    BY <1>1, <2>2
  <2> QED BY <1>2, <2>1, <2>2, <2>3 DEF SessionAnswers, OwnAnswer
<1>5. ASSUME ~late', NEW r \in ReqID PROVE ThreadAnswers(r)'
  <2>1. ThreadAnswers(r)
    BY <1>5 DEF AnswersInv, Remembers
  <2>2. PICK p, resp : p = niThread[r].rawRequest /\ resp = niThread[r].resp
    OBVIOUS
  <2>3. OwnAnswer(niThread[r].rawRequest, niThread[r].resp) => OwnAnswer(p, resp)'
    BY <1>1, <2>2
  <2> QED BY <2>1, <2>2, <2>3 DEF ThreadAnswers, OwnAnswer
<1>6. ASSUME ~late', NEW t \in told PROVE OwnAnswer(t[1], t[2])'
  BY <1>1, <1>6 DEF AnswersInv, Remembers
<1> QED BY <1>3, <1>4, <1>5, <1>6 DEF AnswersInv

LEMMA AnswersByInputs ==
  ASSUME AnswersInv, ResponsesOK, NiOwned
  PROVE  /\ \A k \in Kind : requestNiNotifyEvent(k) => AnswersInv'
         /\ \A has : NiClientInput(has) => AnswersInv'
         /\ \A r \in ReqID, resp \in UserResponse : gnssNiResponseCommand(r, resp) => AnswersInv'
         /\ MsgNiClient => AnswersInv'
<1>0. AskedOK /\ MsgsOK /\ notified \in Nat /\ IsQueue(msgQ) /\ late \in BOOLEAN
  BY NotifyAssumption DEF AnswersInv, NiOwned, NiTypeOK, AskedOK
<1>1. ASSUME UNCHANGED <<handling, niData, told, asked, said, late>>, notified' \in {notified, notified + 1},
             \/ \E m : msgQ' = Append(msgQ, m) /\ m.msg \notin {"NiResponse", "InformNi"}
             \/ msgQ # <<>> /\ msgQ' = Tail(msgQ)
      PROVE  AnswersInv'
  <2>1. Remembers /\ late' \in BOOLEAN
    BY <1>0, <1>1 DEF Remembers
  <2>2. AskedOK'
    BY <1>0, <1>1 DEF AskedOK, HasRequest, niData
  <2>3. \A m : m.msg \notin {"NiResponse", "InformNi"} => MsgAnswers(m)'
    BY DEF MsgAnswers
  <2>4. MsgsOK'
    BY <1>0, <1>1, <2>1, <2>3, MsgsSteps
  <2> QED BY <1>1, <2>1, <2>2, <2>4, AnswersKept DEF niData
<1>2. ASSUME NEW k \in Kind, requestNiNotifyEvent(k) PROVE AnswersInv'
  <2>1. PICK m : m = [msg |-> "NiNotify", kind |-> k, data |-> notified']
    OBVIOUS
  <2>2. m.msg \notin {"NiResponse", "InformNi"} /\ msgQ' = Append(msgQ, m)
    BY <1>2, <2>1 DEF requestNiNotifyEvent, Input
  <2> QED BY <1>1, <1>2, <2>2 DEF requestNiNotifyEvent, Input
<1>3. ASSUME NEW has, NiClientInput(has) PROVE AnswersInv'
  <2>1. PICK m : m = [msg |-> "NiClient", has |-> has]
    OBVIOUS
  <2>2. m.msg \notin {"NiResponse", "InformNi"} /\ msgQ' = Append(msgQ, m)
    BY <1>3, <2>1 DEF NiClientInput, Input
  <2> QED BY <1>1, <1>3, <2>2 DEF NiClientInput, Input, niVars, niEnv
<1>4. ASSUME NEW r \in ReqID, NEW resp \in UserResponse, gnssNiResponseCommand(r, resp) PROVE AnswersInv'
  <2>1. PICK m : m = [msg |-> "NiResponse", id |-> r, resp |-> resp]
    OBVIOUS
  <2>2. /\ msgQ' = Append(msgQ, m) /\ said' = [said EXCEPT ![r] = @ \cup {resp}]
        /\ UNCHANGED <<handling, niData, notified, told, asked, late>>
    BY <1>4, <2>1 DEF gnssNiResponseCommand, Input
  <2>3. said' \in [ReqID -> SUBSET UserResponse] /\ resp \in said'[r] /\ \A q \in ReqID : said[q] \subseteq said'[q]
    BY <1>0, <2>2 DEF AskedOK
  <2>4. Remembers /\ late' \in BOOLEAN
    BY <1>0, <2>2, <2>3 DEF Remembers
  <2>5. AskedOK'
    BY <1>0, <2>2, <2>3 DEF AskedOK, HasRequest, niData
  <2>6. MsgAnswers(m)'
    BY <2>1, <2>3 DEF MsgAnswers
  <2>7. MsgsOK'
    BY <1>0, <2>2, <2>4, <2>6, MsgsSteps
  <2> QED BY <2>2, <2>4, <2>5, <2>7, AnswersKept DEF niData
<1>5. ASSUME MsgNiClient PROVE AnswersInv'
  BY <1>1, <1>5 DEF MsgNiClient, Receive, Takes, niEnv
<1> QED BY <1>2, <1>3, <1>4, <1>5


(* The user's response is for the request he was asked about.              *)
LEMMA AnswersByResponse ==
  ASSUME AnswersInv, ResponsesOK, NiOwned, MsgGnssNiResponse
  PROVE  AnswersInv'
<1>0. /\ AskedOK /\ MsgsOK /\ IsQueue(msgQ) /\ late \in BOOLEAN /\ ResponsesTyped
      /\ reqIDCounter \in Nat /\ notified \in Nat
      /\ niSession \in [Kind -> [rawRequest : 0..notified, reqID : 0..reqIDCounter,
                                 respRecvd : BOOLEAN, resp : Response]]
  BY NotifyAssumption DEF AnswersInv, NiOwned, NiTypeOK, AskedOK, ResponsesOK
<1>1. /\ msgQ # <<>> /\ Head(msgQ).msg = "NiResponse" /\ msgQ' = Tail(msgQ) /\ UNCHANGED niVars
  BY DEF MsgGnssNiResponse, Takes
<1>2. Head(msgQ) = msgQ[1] /\ 1 \in 1..Len(msgQ)
  BY <1>0, <1>1, QueueTail
<1>3. PICK id, resp : /\ id = Head(msgQ).id /\ resp = Head(msgQ).resp
                      /\ id \in ReqID /\ resp \in UserResponse /\ resp \in said[id]
  BY <1>0, <1>1, <1>2 DEF ResponsesTyped, MsgsOK, MsgAnswers
<1>4. ASSUME NEW k \in Active(id) PROVE OwnAnswer(niSession[k].rawRequest, resp)
  <2>1. k \in Kind /\ niSession[k].reqID = id /\ HasRequest(k) /\ id # None
    BY <1>3, <1>4 DEF Active, ReqID, None
  <2>2. asked[id] = niSession[k].rawRequest
    BY <1>0, <2>1 DEF AskedOK
  <2> QED BY <1>3, <2>1, <2>2 DEF OwnAnswer, HasRequest
<1>5. Active(id) # {} => "ES" \in Active(id) \/ "SUPL" \in Active(id)
  BY DEF Active, Kind
<1>6. PICK a, b, c :
        /\ a = [kind |-> "SUPL", resp |-> "IGNORE"] /\ b = [kind |-> "ES", resp |-> resp]
        /\ c = [kind |-> "SUPL", resp |-> resp]
  OBVIOUS
<1>7. \/ handling' = <<>>
      \/ "ES" \in Active(id) /\ handling' \in {<<a, b>>, <<b>>}
      \/ "SUPL" \in Active(id) /\ handling' = <<c>>
  BY <1>3, <1>5, <1>6 DEF MsgGnssNiResponse
<1>8. \A i \in 1..Len(handling') :
        handling'[i].resp # "IGNORE" => OwnAnswer(niSession[handling'[i].kind].rawRequest, handling'[i].resp)
  <2>1. PICK h : h = handling'
    OBVIOUS
  <2>2. \A i \in 1..Len(h) :
          \/ h[i] = a
          \/ h[i] = b /\ "ES" \in Active(id)
          \/ h[i] = c /\ "SUPL" \in Active(id)
    BY <1>7, <2>1
  <2>3. /\ "ES" \in Active(id) => OwnAnswer(niSession["ES"].rawRequest, resp)
        /\ "SUPL" \in Active(id) => OwnAnswer(niSession["SUPL"].rawRequest, resp)
    BY <1>4
  <2>4. ASSUME NEW i \in 1..Len(h), h[i].resp # "IGNORE"
        PROVE  OwnAnswer(niSession[h[i].kind].rawRequest, h[i].resp)
    <3>1. CASE h[i] = b /\ "ES" \in Active(id)
      <4>1. h[i].kind = "ES" /\ h[i].resp = resp
        BY <1>6, <3>1
      <4> QED BY <2>3, <3>1, <4>1
    <3>2. CASE h[i] = c /\ "SUPL" \in Active(id)
      <4>1. h[i].kind = "SUPL" /\ h[i].resp = resp
        BY <1>6, <3>2
      <4> QED BY <2>3, <3>2, <4>1
    <3> QED BY <1>6, <2>2, <2>4, <3>1, <3>2
  <2> QED BY <2>1, <2>4
<1>9. UNCHANGED <<niSession, niThread, reqIDCounter, told, asked, said, late, notified>>
  BY <1>1 DEF niVars, niData, niEnv
<1>10. HandlingOK'
  BY <1>8, <1>9 DEF HandlingOK, OwnAnswer
<1>11. AskedOK'
  BY <1>0, <1>9 DEF AskedOK, HasRequest
<1>12. MsgsOK'
  <2>1. Remembers /\ late' \in BOOLEAN
    BY <1>0, <1>9 DEF Remembers
  <2> QED BY <1>0, <1>1, <2>1, MsgsSteps
<1> QED BY <1>9, <1>10, <1>11, <1>12 DEF AnswersInv, SessionAnswers, ThreadAnswers, HasRequest, OwnAnswer

(* The response is noted: late if the session's request has gone. *)
LEMMA AnswersBySetResponse ==
  ASSUME AnswersInv, ResponsesOK, NiOwned, setResponse
  PROVE  AnswersInv'
<1>0. /\ AskedOK /\ MsgsOK /\ late \in BOOLEAN /\ HandlingTyped /\ HandlingOK /\ IsQueue(handling)
      /\ niSession \in [Kind -> [rawRequest : 0..notified, reqID : 0..reqIDCounter,
                                 respRecvd : BOOLEAN, resp : Response]]
  BY DEF AnswersInv, NiOwned, NiTypeOK, AskedOK, ResponsesOK, HandlingTyped
<1>1. PICK s, h : s = Head(handling) /\ h = handling'
  OBVIOUS
<1>2. /\ handling # <<>> /\ h = Tail(handling)
      /\ niSession' = [niSession EXCEPT ![s.kind].resp = s.resp, ![s.kind].respRecvd = TRUE]
      /\ late' = (late \/ ~HasRequest(s.kind))
      /\ UNCHANGED <<msgQ, reqIDCounter, niThread, notified, said, told, asked>>
  BY <1>1 DEF setResponse, niEnv
<1>3. IsOneLess(handling, h)
  BY <1>0, <1>1, <1>2, QueueShrinks
<1>4. s = handling[1] /\ 1 \in 1..Len(handling) /\ s.kind \in Kind /\ s.resp \in Response
  BY <1>0, <1>1, <1>3 DEF IsOneLess, HandlingTyped
<1>5. /\ \A k \in Kind : niSession'[k].rawRequest = niSession[k].rawRequest /\ niSession'[k].reqID = niSession[k].reqID
      /\ niSession'[s.kind].resp = s.resp
      /\ \A k \in Kind : k # s.kind => niSession'[k] = niSession[k]
  BY <1>0, <1>2, <1>4
<1>6. Remembers /\ late' \in BOOLEAN
  BY <1>0, <1>2 DEF Remembers
<1>7. AskedOK'
  BY <1>0, <1>2, <1>5, <1>6 DEF AskedOK, HasRequest
<1>8. MsgsOK'
  BY <1>0, <1>2, <1>6, MsgsSteps
<1>9. \A p, resp : OwnAnswer(p, resp) <=> OwnAnswer(p, resp)'
  BY <1>2 DEF OwnAnswer
<1>10. HandlingOK'
  <2> SUFFICES ASSUME NEW i \in 1..Len(h), HasRequest(h[i].kind)', h[i].resp # "IGNORE"
               PROVE  OwnAnswer(niSession[h[i].kind].rawRequest, h[i].resp)'
    BY <1>1 DEF HandlingOK, HasRequest, OwnAnswer
  <2>1. PICK m : m = h[i] /\ m = handling[i + 1] /\ i + 1 \in 1..Len(handling)
    BY <1>3 DEF IsOneLess
  <2>2. m.kind \in Kind
    BY <1>0, <2>1 DEF HandlingTyped
  <2>3. HasRequest(m.kind)
    BY <1>5, <2>1, <2>2 DEF HasRequest
  <2>4. OwnAnswer(niSession[m.kind].rawRequest, m.resp)
    BY <1>0, <2>1, <2>3 DEF HandlingOK
  <2> QED BY <1>2, <1>5, <2>1, <2>2, <2>4 DEF OwnAnswer
<1>11. ASSUME ~late' PROVE \A k \in Kind : SessionAnswers(k)'
  <2>1. HasRequest(s.kind) /\ \A k \in Kind : SessionAnswers(k)
    BY <1>2, <1>11 DEF AnswersInv
  <2>2. s.resp # "IGNORE" => OwnAnswer(niSession[s.kind].rawRequest, s.resp)
    BY <1>0, <1>4, <2>1 DEF HandlingOK
  <2>3. SessionAnswers(s.kind)'
    BY <1>2, <1>4, <1>5, <2>1, <2>2 DEF SessionAnswers, HasRequest, OwnAnswer
  <2>4. ASSUME NEW k \in Kind, k # s.kind PROVE SessionAnswers(k)'
    <3>1. niSession'[k] = niSession[k]
      BY <1>0, <1>2, <2>4
    <3> QED BY <1>2, <2>1, <3>1 DEF SessionAnswers, HasRequest, OwnAnswer
  <2> QED BY <2>3, <2>4
<1>12. ASSUME ~late' PROVE (\A r \in ReqID : ThreadAnswers(r)') /\ \A t \in told : OwnAnswer(t[1], t[2])'
  BY <1>2, <1>12 DEF AnswersInv, ThreadAnswers, OwnAnswer
<1> QED BY <1>2, <1>7, <1>8, <1>10, <1>11, <1>12 DEF AnswersInv

(* The modem gets the answer the thread sent. *)
LEMMA AnswersByInform ==
  ASSUME AnswersInv, ResponsesOK, NiOwned, informNiResponse
  PROVE  AnswersInv'
<1>0. AskedOK /\ MsgsOK /\ late \in BOOLEAN /\ IsQueue(msgQ)
  BY DEF AnswersInv, NiOwned, AskedOK
<1>1. /\ msgQ # <<>> /\ Head(msgQ).msg = "InformNi" /\ msgQ' = Tail(msgQ)
      /\ told' = told \cup {<<Head(msgQ).data, Head(msgQ).resp>>}
      /\ UNCHANGED <<handling, niSession, niThread, reqIDCounter, notified, asked, said, late>>
  BY DEF informNiResponse, Receive, Takes, niData
<1>2. Remembers /\ AskedOK'
  BY <1>0, <1>1 DEF Remembers, AskedOK, HasRequest
<1>3. MsgsOK'
  BY <1>0, <1>1, <1>2, MsgsSteps
<1>4. ~late => OwnAnswer(Head(msgQ).data, Head(msgQ).resp)
  <2>1. Head(msgQ) = msgQ[1] /\ 1 \in 1..Len(msgQ)
    BY <1>0, <1>1, QueueTail
  <2> QED BY <1>0, <1>1, <2>1 DEF MsgsOK, MsgAnswers
<1>5. ~late => \A t \in told' : OwnAnswer(t[1], t[2])
  BY <1>1, <1>4 DEF AnswersInv
<1>6. (~late => \A t \in told : OwnAnswer(t[1], t[2]))'
  BY <1>1, <1>5 DEF OwnAnswer
<1> QED BY <1>1, <1>2, <1>3, <1>6
     DEF AnswersInv, HandlingOK, SessionAnswers, ThreadAnswers, HasRequest, OwnAnswer


(* A request is saved: its id is new. *)
LEMMA AnswersByNotify ==
  ASSUME AnswersInv, ResponsesOK, NiOwned, requestNiNotify
  PROVE  AnswersInv'
<1>1. PICK k, p, n, c : /\ k = Head(msgQ).kind /\ p = Head(msgQ).data
                        /\ n = notified /\ c = reqIDCounter
  OBVIOUS
<1>0. /\ AskedOK /\ MsgsOK /\ late \in BOOLEAN /\ n \in Nat /\ c \in Nat
      /\ niSession \in [Kind -> [rawRequest : 0..n, reqID : 0..c, respRecvd : BOOLEAN, resp : Response]]
      /\ niThread \in [ReqID -> [kind : Kind, at : {"new", "waiting", "unlocked", "sending", "done"},
                                 resp : Response, rawRequest : 0..n]]
      /\ asked \in [ReqID -> 0..n] /\ NiThreadsOK
  BY <1>1, NotifyAssumption DEF AnswersInv, NiOwned, NiTypeOK, AskedOK
<1>2. /\ handling = <<>> /\ handling' = handling /\ msgQ # <<>> /\ Head(msgQ).msg = "NiNotify"
      /\ msgQ' = Tail(msgQ) /\ UNCHANGED <<notified, said, told, late>>
      /\ NoCallback(p) \/ IgnoreRequest(k, p) \/ \E created \in BOOLEAN : SaveRequest(k, p, created)
  BY <1>1 DEF requestNiNotify, Receive, Takes, niEnv
<1>3. /\ p \in Payload /\ k \in Kind /\ p \in c + 1 .. n
  <2>1. PICK e : e = Tail(msgQ)
    OBVIOUS
  <2> QED BY <1>1, <1>2, <2>1, HeadPayload DEF PayloadKinds
<1>4. CASE NoCallback(p) \/ IgnoreRequest(k, p)
  <2>1. UNCHANGED <<niData, asked>>
    BY <1>4 DEF NoCallback, IgnoreRequest
  <2>2. Remembers /\ AskedOK'
    BY <1>0, <1>2, <2>1 DEF Remembers, AskedOK, HasRequest, niData
  <2>3. MsgsOK'
    BY <1>0, <1>2, <2>2, MsgsSteps
  <2> QED BY <1>2, <2>1, <2>2, <2>3, AnswersKept DEF niData
<1>5. ASSUME NEW created, SaveRequest(k, p, created) PROVE AnswersInv'
  <2>1. /\ reqIDCounter' = c + 1 /\ ~Busy(k) /\ asked' = [asked EXCEPT ![c + 1] = p]
        /\ niSession' = [niSession EXCEPT ![k].rawRequest = p, ![k].reqID = c + 1]
        /\ \/ niThread' = [niThread EXCEPT ![c + 1] = [kind |-> k, at |-> "new", resp |-> "NO_RESPONSE",
                                                       rawRequest |-> None]]
           \/ niThread' = niThread
    BY <1>1, <1>5 DEF SaveRequest
  <2>2. c + 1 \in ReqID /\ p \in 0..n /\ p # None /\ c + 1 > c
    <3>1. n <= MaxNotify
      BY <1>1, NotifyAssumption DEF NiOwned, NiTypeOK
    <3>2. c + 1 \in 1..MaxNotify
      BY <1>0, <1>3, <3>1, NotifyAssumption
    <3> QED BY <1>0, <1>3, <3>2 DEF ReqID, Payload, None
  <2>3. /\ asked[c + 1] = None /\ asked' \in [ReqID -> 0..n] /\ asked'[c + 1] = p
        /\ \A r \in ReqID : r # c + 1 => asked'[r] = asked[r]
    BY <1>0, <1>1, <2>1, <2>2 DEF AskedOK
  <2>4. /\ ~HasRequest(k) /\ niSession'[k].rawRequest = p /\ niSession'[k].reqID = c + 1
        /\ niSession'[k].respRecvd = niSession[k].respRecvd
        /\ \A l \in Kind : l # k => niSession'[l] = niSession[l]
    BY <1>0, <1>3, <2>1 DEF Busy, Kind
  <2>5. \A r \in ReqID : niThread'[r].rawRequest # None => niThread'[r] = niThread[r]
    BY <1>0, <2>1, <2>2
  <2>6. Remembers
    BY <1>2, <2>3 DEF Remembers
  <2>7. AskedOK'
    <3>1. \A r \in ReqID : r > c + 1 => asked'[r] = None
      BY <1>0, <1>1, <2>2, <2>3 DEF AskedOK, ReqID
    <3>2. \A l \in Kind : niSession[l].reqID # c + 1
      BY <1>0
    <3>3. \A l \in Kind : niSession[l].reqID # None => niSession[l].reqID \in ReqID
      <4>1. c + 1 \in 1..MaxNotify /\ \A i \in 0..c : i # None => i \in 1..MaxNotify
        BY <1>0, <2>2, NotifyAssumption DEF ReqID, None
      <4> QED BY <1>0, <4>1 DEF ReqID
    <3>4. ASSUME NEW l \in Kind, niSession'[l].rawRequest # None, niSession'[l].reqID # None
          PROVE  asked'[niSession'[l].reqID] = niSession'[l].rawRequest
      <4>1. CASE l = k
        BY <2>3, <2>4, <4>1
      <4>2. CASE l # k
        BY <1>0, <2>3, <2>4, <3>2, <3>3, <3>4, <4>2 DEF AskedOK, HasRequest
      <4> QED BY <4>1, <4>2
    <3> QED BY <1>0, <1>1, <1>2, <2>1, <2>3, <3>1, <3>4 DEF AskedOK, HasRequest
  <2>8. MsgsOK'
    BY <1>0, <1>2, <2>6, MsgsSteps
  <2>9. HandlingOK'
    BY <1>2, ShortQueues DEF HandlingOK
  <2>10. \A q, resp : OwnAnswer(q, resp) => OwnAnswer(q, resp)'
    BY <2>6, OwnRemembered
  <2>11. ASSUME ~late', NEW l \in Kind PROVE SessionAnswers(l)'
    <3>1. SessionAnswers(l) /\ SessionAnswers(k)
      BY <1>2, <1>3, <2>11 DEF AnswersInv
    <3>2. CASE l = k
      BY <2>4, <3>1, <3>2 DEF SessionAnswers
    <3>3. CASE l # k
      <4>1. PICK q, resp : q = niSession[l].rawRequest /\ resp = niSession[l].resp
        OBVIOUS
      <4>2. OwnAnswer(niSession[l].rawRequest, niSession[l].resp) => OwnAnswer(q, resp)'
        BY <2>10, <4>1
      <4> QED BY <2>4, <3>1, <3>3, <4>1, <4>2 DEF SessionAnswers, HasRequest, OwnAnswer
    <3> QED BY <3>2, <3>3
  <2>12. ASSUME ~late', NEW r \in ReqID PROVE ThreadAnswers(r)'
    <3>1. ThreadAnswers(r)
      BY <1>2, <2>12 DEF AnswersInv
    <3>2. PICK q, resp : q = niThread[r].rawRequest /\ resp = niThread[r].resp
      OBVIOUS
    <3>3. OwnAnswer(niThread[r].rawRequest, niThread[r].resp) => OwnAnswer(q, resp)'
      BY <2>10, <3>2
    <3> QED BY <2>5, <3>1, <3>2, <3>3 DEF ThreadAnswers, OwnAnswer
  <2>13. ASSUME ~late', NEW t \in told PROVE OwnAnswer(t[1], t[2])'
    BY <1>2, <2>10, <2>13 DEF AnswersInv
  <2> QED BY <1>2, <2>7, <2>8, <2>9, <2>11, <2>12, <2>13 DEF AnswersInv
<1> QED BY <1>2, <1>4, <1>5

(* The steps of a request's thread take the response with the payload, and *)
(* leave what the others answer.                                           *)
LEMMA AnswersByThread ==
  ASSUME AnswersInv, ResponsesOK, NiOwned, NEW r \in ReqID, NiThreadStep(r)
  PROVE  AnswersInv'
<1>1. PICK n, c, k, p : n = notified /\ c = reqIDCounter /\ k = niThread[r].kind /\ p = niSession[k].rawRequest
  OBVIOUS
<1>0. /\ AskedOK /\ MsgsOK /\ late \in BOOLEAN /\ n \in Nat /\ c \in Nat /\ HandlingOK /\ HandlingTyped
      /\ niSession \in [Kind -> [rawRequest : 0..n, reqID : 0..c, respRecvd : BOOLEAN, resp : Response]]
      /\ niThread \in [ReqID -> [kind : Kind, at : {"new", "waiting", "unlocked", "sending", "done"},
                                 resp : Response, rawRequest : 0..n]]
      /\ k \in Kind /\ p \in 0..n
  BY <1>1, NotifyAssumption DEF AnswersInv, NiOwned, NiTypeOK, AskedOK, ResponsesOK
<1>2. UNCHANGED <<handling, niCb, reqIDCounter, notified, said, told, asked, late>>
  BY DEF NiThreadStep, niThreadStart, niThreadSignalled, niThreadTimedOut, niThreadClear, niThreadSend,
         niUnchanged, taskVars, niEnv, Post
<1>3. Remembers /\ late' \in BOOLEAN
  BY <1>0, <1>2 DEF Remembers
<1>4. \A q, resp : OwnAnswer(q, resp) <=> OwnAnswer(q, resp)'
  BY <1>2 DEF OwnAnswer
(* The sessions keep the requests they have, and gain no response *)
<1>5. ASSUME MsgsOK', ~late => \A q \in ReqID : ThreadAnswers(q)',
             \A l \in Kind : /\ niSession'[l].rawRequest \in {niSession[l].rawRequest, None}
                             /\ niSession'[l].reqID \in {niSession[l].reqID, None},
             \A l \in Kind : niSession'[l].respRecvd =>
               /\ niSession[l].respRecvd /\ niSession'[l].resp = niSession[l].resp
               /\ niSession'[l].rawRequest = niSession[l].rawRequest
      PROVE  AnswersInv'
  <2>1. AskedOK'
    BY <1>0, <1>2, <1>5 DEF AskedOK, HasRequest
  <2>2. HandlingOK'
    <3> SUFFICES ASSUME NEW i \in 1..Len(handling), HasRequest(handling[i].kind)', handling[i].resp # "IGNORE"
                 PROVE  OwnAnswer(niSession[handling[i].kind].rawRequest, handling[i].resp)'
      BY <1>2 DEF HandlingOK, HasRequest, OwnAnswer
    <3>1. PICK m : m = handling[i] /\ m.kind \in Kind
      BY <1>0 DEF HandlingTyped
    <3>2. HasRequest(m.kind) /\ niSession'[m.kind].rawRequest = niSession[m.kind].rawRequest
      BY <1>2, <1>5, <3>1 DEF HasRequest
    <3>3. OwnAnswer(niSession[m.kind].rawRequest, m.resp)
      BY <1>0, <3>1, <3>2 DEF HandlingOK
    <3> QED BY <1>2, <3>1, <3>2, <3>3 DEF OwnAnswer
  <2>3. ~late => \A l \in Kind : SessionAnswers(l)'
    BY <1>2, <1>5 DEF AnswersInv, SessionAnswers, HasRequest, OwnAnswer
  <2>4. ~late => \A t \in told' : OwnAnswer(t[1], t[2])'
    BY <1>2, <1>4 DEF AnswersInv
  <2> QED BY <1>2, <1>5, <2>1, <2>2, <2>3, <2>4 DEF AnswersInv
<1>6. ASSUME NEW resp \in Response, TakeRequest(r, resp), UNCHANGED msgQ,
             ~late => (p # None /\ resp # "IGNORE" => OwnAnswer(p, resp))
      PROVE  AnswersInv'
  <2>1. MsgsOK'
    BY <1>0, <1>3, <1>6, MsgsSteps
  <2>2. PICK v : v = IF p # None /\ resp # "IGNORE" THEN p ELSE None
    OBVIOUS
  <2>3. /\ niSession' = [niSession EXCEPT ![k].respRecvd = FALSE, ![k].resp = resp, ![k].rawRequest = None]
        /\ niThread' = [niThread EXCEPT ![r].at = "unlocked", ![r].resp = resp, ![r].rawRequest = v]
    BY <1>1, <1>6, <2>2 DEF TakeRequest
  <2>4. /\ niSession'[k].rawRequest = None /\ ~niSession'[k].respRecvd
        /\ niSession'[k].reqID = niSession[k].reqID
        /\ \A l \in Kind : l # k => niSession'[l] = niSession[l]
        /\ niThread'[r].rawRequest = v /\ niThread'[r].resp = resp
        /\ \A q \in ReqID : q # r => niThread'[q] = niThread[q]
    BY <1>0, <2>3
  <2>5. ASSUME ~late, NEW q \in ReqID PROVE ThreadAnswers(q)'
    <3>1. CASE q = r
      BY <1>2, <1>6, <2>2, <2>4, <2>5, <3>1 DEF ThreadAnswers, OwnAnswer
    <3>2. CASE q # r
      BY <1>2, <2>4, <2>5, <3>2 DEF AnswersInv, ThreadAnswers, OwnAnswer
    <3> QED BY <3>1, <3>2
  <2> QED BY <1>5, <2>1, <2>4, <2>5
<1>7. ASSUME ~late, niSession[k].respRecvd, niSession[k].resp # "IGNORE" PROVE OwnAnswer(p, niSession[k].resp)
  BY <1>0, <1>1, <1>7 DEF AnswersInv, SessionAnswers
(* The thread keeps its payload and the response                           *)
<1>8. ASSUME UNCHANGED msgQ, NEW at, niThread' = [niThread EXCEPT ![r].at = at],
             niSession' = niSession \/ niSession' = [niSession EXCEPT ![k].reqID = None]
      PROVE  AnswersInv'
  <2>1. MsgsOK'
    BY <1>0, <1>3, <1>8, MsgsSteps
  <2>2. \A q \in ReqID : niThread'[q].rawRequest = niThread[q].rawRequest /\ niThread'[q].resp = niThread[q].resp
    BY <1>0, <1>8
  <2>3. \A l \in Kind : /\ niSession'[l].rawRequest = niSession[l].rawRequest
                        /\ niSession'[l].respRecvd = niSession[l].respRecvd
                        /\ niSession'[l].resp = niSession[l].resp
                        /\ niSession'[l].reqID \in {niSession[l].reqID, None}
    BY <1>0, <1>8
  <2>4. ~late => \A q \in ReqID : ThreadAnswers(q)'
    BY <1>2, <2>2 DEF AnswersInv, ThreadAnswers, OwnAnswer
  <2> QED BY <1>5, <2>1, <2>3, <2>4
<1>9. CASE niThreadStart(r)
  <2>1. UNCHANGED msgQ /\ (\/ TakeRequest(r, niSession[k].resp) /\ niSession[k].respRecvd
                           \/ niThread' = [niThread EXCEPT ![r].at = "waiting"] /\ niSession' = niSession)
    BY <1>1, <1>9 DEF niThreadStart, niUnchanged, taskVars
  <2>2. niSession[k].resp \in Response
    BY <1>0
  <2> QED BY <1>6, <1>7, <1>8, <2>1, <2>2
<1>10. CASE niThreadSignalled(r)
  <2>1. UNCHANGED msgQ /\ TakeRequest(r, niSession[k].resp) /\ niSession[k].respRecvd
    BY <1>1, <1>10 DEF niThreadSignalled, niUnchanged, taskVars
  <2>2. niSession[k].resp \in Response
    BY <1>0
  <2> QED BY <1>6, <1>7, <2>1, <2>2
<1>11. CASE niThreadTimedOut(r)
  <2>1. UNCHANGED msgQ /\ TakeRequest(r, "NO_RESPONSE") /\ "NO_RESPONSE" \in Response
    BY <1>11 DEF niThreadTimedOut, niUnchanged, taskVars, Response, UserResponse
  <2>2. OwnAnswer(p, "NO_RESPONSE")
    BY DEF OwnAnswer
  <2> QED BY <1>6, <2>1, <2>2
<1>12. CASE niThreadClear(r)
  BY <1>1, <1>8, <1>12 DEF niThreadClear, niUnchanged, taskVars
<1>13. CASE niThreadSend(r)
  <2>1. PICK m : m = [msg |-> "InformNi", data |-> niThread[r].rawRequest, resp |-> niThread[r].resp]
    OBVIOUS
  <2>2. /\ msgQ' = Append(msgQ, m) /\ UNCHANGED niSession /\ niThread[r].at = "sending"
        /\ niThread' = [niThread EXCEPT ![r].at = "done", ![r].rawRequest = None]
    BY <1>13, <2>1 DEF niThreadSend, Post, At
  <2>3. niThread[r].rawRequest # None
    BY <2>2 DEF NiOwned, NiThreadsOK
  <2>4. ~late => OwnAnswer(m.data, m.resp)
    BY <2>1, <2>3 DEF AnswersInv, ThreadAnswers
  <2>5. MsgAnswers(m)'
    BY <1>2, <2>1, <2>4 DEF MsgAnswers, OwnAnswer
  <2>6. MsgsOK'
    BY <1>0, <1>3, <2>2, <2>5, MsgsSteps
  <2>7. niThread'[r].rawRequest = None /\ \A q \in ReqID : q # r => niThread'[q] = niThread[q]
    BY <1>0, <2>2
  <2>8. ~late => \A q \in ReqID : ThreadAnswers(q)'
    BY <1>2, <2>7 DEF AnswersInv, ThreadAnswers, OwnAnswer
  <2> QED BY <1>5, <2>2, <2>6, <2>8
<1> QED BY <1>9, <1>10, <1>11, <1>12, <1>13 DEF NiThreadStep


LEMMA AnswersInductive == Spec => []AnswersInv
<1>1. Init => AnswersInv
  <2> SUFFICES ASSUME Init PROVE AnswersInv
    OBVIOUS
  <2>1. /\ msgQ = <<[msg |-> "SetConfig"]>> /\ handling = <<>> /\ told = {} /\ late = FALSE
        /\ asked = [r \in ReqID |-> None] /\ said = [r \in ReqID |-> {}] /\ notified = 0
        /\ niSession = [k \in Kind |-> NoSession] /\ niThread = [r \in ReqID |-> NoThread]
    BY DEF Init, NiInit
  <2>2. AskedOK
    <3>1. asked \in [ReqID -> 0..0]
      BY <2>1 DEF None
    <3>2. said \in [ReqID -> SUBSET UserResponse]
      BY <2>1
    <3>3. \A k \in Kind : ~HasRequest(k)
      BY <2>1 DEF HasRequest, NoSession
    <3> QED BY <2>1, <3>1, <3>2, <3>3 DEF AskedOK
  <2>3. MsgsOK
    <3>1. IsQueue(msgQ) /\ Len(msgQ) = 1 /\ msgQ[1].msg = "SetConfig"
      BY <2>1, ShortQueues
    <3> QED BY <3>1 DEF MsgsOK, MsgAnswers
  <2>4. HandlingOK
    BY <2>1 DEF HandlingOK
  <2>5. (\A k \in Kind : SessionAnswers(k)) /\ \A r \in ReqID : ThreadAnswers(r)
    BY <2>1 DEF SessionAnswers, ThreadAnswers, NoSession, NoThread
  <2> QED BY <2>1, <2>2, <2>3, <2>4, <2>5 DEF AnswersInv
<1>2. AnswersInv /\ NiOwned /\ ResponsesOK /\ [Next]_vars => AnswersInv'
  <2> SUFFICES ASSUME AnswersInv, NiOwned, ResponsesOK, [Next]_vars PROVE AnswersInv'
    OBVIOUS
  <2>1. CASE NiStep
    BY <2>1, AnswersByInputs, AnswersByResponse, AnswersBySetResponse, AnswersByInform, AnswersByNotify,
       AnswersByThread DEF NiStep, NiInput, NiHandler
  <2>2. ASSUME UNCHANGED <<niVars, handling>>, MsgsOK' PROVE AnswersInv'
    <3>1. UNCHANGED <<niSession, niThread, reqIDCounter, told, asked, said, late, notified>>
      BY <2>2 DEF niVars, niData, niEnv
    <3>2. Remembers
      BY <3>1 DEF Remembers
    <3>3. AskedOK'
      BY <3>1 DEF AnswersInv, AskedOK, HasRequest
    <3> QED BY <2>2, <3>1, <3>2, <3>3, AnswersKept
  <2>3. ASSUME UNCHANGED niVars PROVE Remembers /\ late' \in BOOLEAN /\ AskedOK /\ MsgsOK
    BY <2>3 DEF Remembers, AnswersInv, AskedOK, niVars, niEnv
  <2>4. CASE (OdcpiStep \/ ControlStep \/ restartSessions) /\ UNCHANGED niVars
    <3>1. PICK kinds : QueueStep(kinds) /\ kinds \cap NiKinds = {}
      BY <2>4, OthersKinds DEF ResponsesOK
    <3>2. kinds \cap {"NiResponse", "InformNi"} = {}
      BY <3>1 DEF NiKinds
    <3>3. MsgsOK'
      BY <2>3, <2>4, <3>1, <3>2, MsgsSteps
    <3> QED BY <2>2, <2>4, <3>3, OthersHandle
  <2>5. CASE UNCHANGED <<taskVars, niVars, odcpiVars, controlVars>>
    <3>1. UNCHANGED <<msgQ, handling, niVars>>
      BY <2>5 DEF taskVars
    <3> QED BY <2>2, <2>3, <3>1, MsgsSteps
  <2>6. restartSessions => UNCHANGED niVars
    BY DEF restartSessions
  <2> QED BY <2>1, <2>4, <2>5, <2>6, Steps
<1> QED BY <1>1, <1>2, NiOwnedInductive, ResponsesInductive, PTL DEF Spec

(* AnswerIsItsOwn holds in every behaviour: unless a response was noted    *)
(* after its request had gone, an answer of the modem that is not          *)
(* NO_RESPONSE is what the user said to that very request                  *)
(* (gnssNiResponseCommand, setResponse of MsgGnssNiResponse, and           *)
(* niThreadProc, which clears the session's response when it leaves).      *)
THEOREM AnswersAreTheirOwn == Spec => []AnswerIsItsOwn
<1>1. AnswersInv => AnswerIsItsOwn
  BY DEF AnswersInv, AnswerIsItsOwn, AnswersOwn, OwnAnswer
<1> QED BY <1>1, AnswersInductive, PTL
=============================================================================
