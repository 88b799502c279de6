----------------------- MODULE LocationServicesProofs -----------------------
(***************************************************************************)
(* Proofs about the services around GnssAdapter, for any number of clients,*)
(* sessions, adapters, calls and messages. Each invariant is that of one   *)
(* part; the steps of the other parts leave its variables alone.           *)
(***************************************************************************)
EXTENDS LocationServices, QueueTheorems, FiniteSetTheorems

-----------------------------------------------------------------------------
(* LocationAPI: the interfaces and their clients *)

ApiTypeOK ==
  /\ interface \in [Interfaces -> {"unloaded", "loaded", "failed"}]
  /\ registered \in [Interfaces -> SUBSET Clients]
  /\ DOMAIN clientData = Clients
  /\ \A s \in apiSessions : s.client \in Clients /\ s.at \in Interfaces

(* An interface is loaded before the first client that needs it is there,  *)
(* and only a loaded one has sessions.                                     *)
LoadedWhenNeeded ==
  \A i \in Interfaces : interface[i] = "unloaded" =>
    registered[i] = {} /\ \A c \in Clients : Alive(c) => ~needs(i, clientData[c])
SessionsLoaded == \A s \in apiSessions : interface[s.at] = "loaded"

ApiInv == ApiTypeOK /\ LoadedWhenNeeded /\ SessionsLoaded /\ InterfacesServe

(* What a client needs for more callbacks it needs for them all. *)
LEMMA NeedsMore ==
  ASSUME NEW i \in Interfaces, NEW less, NEW more, less \subseteq more, needs(i, less)
  PROVE  needs(i, more)
BY DEF needs, Interfaces

LEMMA OfferedIsAlive ==
  ASSUME NEW c \in Clients, NEW cbs \in Offers[c]
  PROVE  cbs # NoClient
BY OffersAssumption DEF NoClient

LEMMA SetCallbacksStep ==
  ASSUME ApiInv, NEW c \in Clients, NEW cbs \in Offers[c], setCallbacks(c, cbs)
  PROVE  ApiInv'
<1>0. /\ ApiTypeOK /\ LoadedWhenNeeded /\ SessionsLoaded /\ RegisteredWhereNeeded /\ SessionsBelong
      /\ cbs # NoClient
  BY OfferedIsAlive DEF ApiInv, InterfacesServe
<1>1. /\ interface' \in [Interfaces -> {"unloaded", "loaded", "failed"}]
      /\ \A i \in Interfaces : IF needs(i, cbs) /\ interface[i] = "unloaded"
                                 THEN interface'[i] # "unloaded" ELSE interface'[i] = interface[i]
  BY DEF setCallbacks, load
<1>2. registered' = [i \in Interfaces |->
                       IF needs(i, cbs) /\ interface'[i] = "loaded"
                       THEN registered[i] \union {c} ELSE registered[i]]
  BY DEF setCallbacks, addClient
<1>3. /\ clientData' = [clientData EXCEPT ![c] = cbs] /\ apiSessions' = apiSessions
      /\ Alive(c) => clientData[c] \subseteq cbs
  BY DEF setCallbacks
<1>4. /\ clientData'[c] = cbs /\ Alive(c)'
      /\ \A d \in Clients \ {c} : clientData'[d] = clientData[d] /\ (Alive(d)' <=> Alive(d))
  BY <1>0, <1>3 DEF ApiTypeOK, Alive
<1>5. ApiTypeOK'
  BY <1>0, <1>1, <1>2, <1>3 DEF ApiTypeOK
<1>6. LoadedWhenNeeded'
  <2> SUFFICES ASSUME NEW i \in Interfaces, interface'[i] = "unloaded"
               PROVE  /\ registered'[i] = {}
                      /\ \A d \in Clients : Alive(d)' => ~needs(i, clientData'[d])
    BY DEF LoadedWhenNeeded, needs, Alive
  <2>1. interface[i] = "unloaded" /\ ~needs(i, cbs)
    BY <1>1
  <2>2. registered[i] = {} /\ \A d \in Clients : Alive(d) => ~needs(i, clientData[d])
    BY <1>0, <2>1 DEF LoadedWhenNeeded
  <2> QED BY <1>2, <1>4, <2>1, <2>2
<1>7. SessionsLoaded'
  BY <1>0, <1>1, <1>3 DEF SessionsLoaded, ApiTypeOK
<1>8. RegisteredWhereNeeded'
  <2> SUFFICES ASSUME NEW i \in Interfaces, interface'[i] = "loaded"
               PROVE  registered'[i] = {d \in Clients : Alive(d)' /\ needs(i, clientData'[d])}
    BY DEF RegisteredWhereNeeded, needs, Alive
  <2>1. registered[i] = {d \in Clients : Alive(d) /\ needs(i, clientData[d])}
    <3>1. CASE interface[i] = "loaded"
      BY <1>0, <3>1 DEF RegisteredWhereNeeded
    <3>2. CASE interface[i] # "loaded"
      <4>1. interface[i] = "unloaded"
        BY <1>1, <3>2
      <4> QED BY <1>0, <4>1 DEF LoadedWhenNeeded
    <3> QED BY <3>1, <3>2
  <2>2. c \in registered[i] => needs(i, cbs)
    BY <1>3, <2>1, NeedsMore
  <2>3. registered'[i] = IF needs(i, cbs) THEN registered[i] \union {c} ELSE registered[i]
    BY <1>2
  <2> QED BY <1>4, <2>1, <2>2, <2>3
<1>9. SessionsBelong'
  <2> SUFFICES ASSUME interface'["gnss"] # "failed", NEW s \in apiSessions
               PROVE  Alive(s.client)' /\ s.client \in registered'[s.at]
    BY <1>3 DEF SessionsBelong, Alive
  <2>1. Alive(s.client) /\ s.client \in registered[s.at] /\ s.client \in Clients /\ s.at \in Interfaces
    BY <1>0, <1>1 DEF SessionsBelong, ApiTypeOK, Interfaces
  <2> QED BY <1>2, <1>4, <2>1
<1> QED BY <1>5, <1>6, <1>7, <1>8, <1>9 DEF ApiInv, InterfacesServe

LEMMA DestroyStep ==
  ASSUME ApiInv, NEW c \in Clients, destroy(c)
  PROVE  ApiInv'
<1> DEFINE at == {i \in Interfaces : needs(i, clientData[c]) /\ interface[i] = "loaded"}
<1>0. ApiTypeOK /\ LoadedWhenNeeded /\ SessionsLoaded /\ RegisteredWhereNeeded /\ SessionsBelong
  BY DEF ApiInv, InterfacesServe
<1>1. /\ registered' = [i \in Interfaces |-> IF i \in at THEN registered[i] \ {c} ELSE registered[i]]
      /\ apiSessions' = {s \in apiSessions : s.client # c \/ s.at \notin at}
      /\ clientData' = [clientData EXCEPT ![c] = NoClient]
      /\ interface' = interface /\ Alive(c)
  BY DEF destroy
<1>2. /\ clientData'[c] = NoClient /\ ~Alive(c)'
      /\ \A d \in Clients \ {c} : clientData'[d] = clientData[d] /\ (Alive(d)' <=> Alive(d))
  BY <1>0, <1>1 DEF ApiTypeOK, Alive
<1>3. at \subseteq Interfaces
  OBVIOUS
<1>4. ApiTypeOK'
  BY <1>0, <1>1 DEF ApiTypeOK
<1>5. LoadedWhenNeeded'
  <2> SUFFICES ASSUME NEW i \in Interfaces, interface[i] = "unloaded"
               PROVE  /\ registered'[i] = {}
                      /\ \A d \in Clients : Alive(d)' => ~needs(i, clientData'[d])
    BY <1>1 DEF LoadedWhenNeeded, needs, Alive
  <2>1. registered[i] = {} /\ \A d \in Clients : Alive(d) => ~needs(i, clientData[d])
    BY <1>0 DEF LoadedWhenNeeded
  <2> QED BY <1>1, <1>2, <2>1
<1>6. SessionsLoaded'
  BY <1>0, <1>1 DEF SessionsLoaded
<1>7. RegisteredWhereNeeded'
  <2> SUFFICES ASSUME NEW i \in Interfaces, interface[i] = "loaded"
               PROVE  registered'[i] = {d \in Clients : Alive(d)' /\ needs(i, clientData'[d])}
    BY <1>1 DEF RegisteredWhereNeeded, needs, Alive
  <2>1. registered[i] = {d \in Clients : Alive(d) /\ needs(i, clientData[d])}
    BY <1>0 DEF RegisteredWhereNeeded
  <2>2. registered'[i] = registered[i] \ {c}
    BY <1>1, <2>1
  <2> QED BY <1>2, <2>1, <2>2
<1>8. SessionsBelong'
  <2> SUFFICES ASSUME interface["gnss"] # "failed", NEW s \in apiSessions, s.client # c \/ s.at \notin at
               PROVE  Alive(s.client)' /\ s.client \in registered'[s.at]
    BY <1>1 DEF SessionsBelong, Alive
  <2>1. /\ Alive(s.client) /\ s.client \in registered[s.at] /\ s.client \in Clients
        /\ s.at \in Interfaces /\ interface[s.at] = "loaded"
    BY <1>0 DEF SessionsBelong, ApiTypeOK, SessionsLoaded
  <2>2. s.client # c
    BY <1>0, <2>1 DEF RegisteredWhereNeeded
  <2> QED BY <1>1, <1>2, <2>1, <2>2
<1> QED BY <1>4, <1>5, <1>6, <1>7, <1>8 DEF ApiInv, InterfacesServe

(* A session is started at an interface that is loaded and that its client *)
(* needs, unless the GNSS library is missing.                              *)
LEMMA NewSessionStep ==
  ASSUME ApiInv, NEW c \in Clients, NEW kind, NEW i \in Interfaces, Alive(c),
         interface[i] = "loaded", interface["gnss"] # "failed" => needs(i, clientData[c]),
         apiSessions' = apiSessions \union {Session(c, kind, i)},
         UNCHANGED <<interface, clientData, registered>>
  PROVE  ApiInv'
<1> DEFINE s == Session(c, kind, i)
<1>1. s.client = c /\ s.at = i
  BY DEF Session
<1> HIDE DEF s
<1>2. ApiTypeOK'
  BY <1>1 DEF ApiInv, ApiTypeOK, s
<1>3. SessionsLoaded'
  BY <1>1 DEF ApiInv, SessionsLoaded, s
<1>4. RegisteredWhereNeeded' /\ LoadedWhenNeeded'
  BY DEF ApiInv, InterfacesServe, RegisteredWhereNeeded, LoadedWhenNeeded, Alive, needs
<1>5. SessionsBelong'
  <2> SUFFICES ASSUME interface["gnss"] # "failed", NEW t \in apiSessions \union {s}
               PROVE  Alive(t.client) /\ t.client \in registered[t.at]
    BY DEF SessionsBelong, Alive, s
  <2>1. registered[i] = {d \in Clients : Alive(d) /\ needs(i, clientData[d])}
    BY DEF ApiInv, InterfacesServe, RegisteredWhereNeeded
  <2>2. CASE t \in apiSessions
    BY <2>2 DEF ApiInv, InterfacesServe, SessionsBelong
  <2>3. CASE t = s
    BY <1>1, <2>1, <2>3
  <2> QED BY <2>2, <2>3
<1> QED BY <1>2, <1>3, <1>4, <1>5 DEF ApiInv, InterfacesServe

LEMMA FewerSessionsStep ==
  ASSUME ApiInv, apiSessions' \subseteq apiSessions, UNCHANGED <<interface, clientData, registered>>
  PROVE  ApiInv'
<1>1. ApiTypeOK' /\ SessionsLoaded'
  BY DEF ApiInv, ApiTypeOK, SessionsLoaded
<1>2. RegisteredWhereNeeded' /\ LoadedWhenNeeded'
  BY DEF ApiInv, InterfacesServe, RegisteredWhereNeeded, LoadedWhenNeeded, Alive, needs
<1>3. SessionsBelong'
  BY DEF ApiInv, InterfacesServe, SessionsBelong, Alive
<1> QED BY <1>1, <1>2, <1>3 DEF ApiInv, InterfacesServe

LEMMA StartTrackingStep ==
  ASSUME ApiInv, NEW c \in Clients, startTracking(c)
  PROVE  ApiInv'
<1> DEFINE i == tracksAt(c, FALSE)
           cbs == clientData[c]
<1>1. /\ cbs \intersect {"tracking", "measurements"} # {} /\ i # "none"
      /\ apiSessions' = apiSessions \union {Session(c, "tracking", i)}
      /\ UNCHANGED <<interface, clientData, registered>>
  BY DEF startTracking
<1>2. Alive(c)
  BY <1>1 DEF Alive, NoClient
<1>3. \/ i = "gnss" /\ interface["gnss"] = "loaded"
      \/ i = "flp" /\ interface["flp"] = "loaded"
           /\ ~(interface["gnss"] = "loaded" /\ needsGnssTrackingInfo(cbs))
  BY <1>1 DEF tracksAt
<1>4. i \in Interfaces /\ interface[i] = "loaded"
  BY <1>3 DEF Interfaces
<1>5. ASSUME interface["gnss"] # "failed" PROVE needs(i, cbs)
  <2>1. needs("gnss", cbs)
    BY <1>1 DEF needs
  <2>2. interface["gnss"] = "loaded"
    BY <1>2, <1>5, <2>1 DEF ApiInv, ApiTypeOK, LoadedWhenNeeded, Interfaces
  <2>3. CASE i = "flp"
    BY <1>1, <1>3, <2>2, <2>3 DEF needsGnssTrackingInfo, needs
  <2> QED BY <1>3, <2>1, <2>3
<1> HIDE DEF i
<1> QED BY <1>1, <1>2, <1>4, <1>5, NewSessionStep

LEMMA ApiStepKeeps == ApiInv /\ (ApiNext \/ UNCHANGED apiVars) => ApiInv'
<1> SUFFICES ASSUME ApiInv, ApiNext \/ UNCHANGED apiVars PROVE ApiInv'
  OBVIOUS
<1>1. CASE UNCHANGED apiVars
  BY <1>1, FewerSessionsStep DEF apiVars
<1>2. ASSUME NEW c \in Clients, startBatching(c) PROVE ApiInv'
  <2>1. Alive(c) /\ needs("flp", clientData[c]) /\ interface["flp"] = "loaded"
    BY <1>2 DEF startBatching, Alive, NoClient, needs
  <2> QED BY <1>2, <2>1, NewSessionStep DEF startBatching, Interfaces
<1>3. ASSUME NEW c \in Clients, addGeofences(c) PROVE ApiInv'
  <2>1. Alive(c) /\ needs("geofence", clientData[c]) /\ interface["geofence"] = "loaded"
    BY <1>3 DEF addGeofences, Alive, NoClient, needs
  <2> QED BY <1>3, <2>1, NewSessionStep DEF addGeofences, Interfaces
<1>4. ASSUME NEW c \in Clients, stopTracking(c) \/ stopBatching(c) PROVE ApiInv'
  BY <1>4, FewerSessionsStep DEF stopTracking, stopBatching
<1> QED BY <1>1, <1>2, <1>3, <1>4, SetCallbacksStep, DestroyStep, StartTrackingStep DEF ApiNext

(* A client is known to the interfaces its callbacks need and to no other, *)
(* and its sessions run where it is known (LocationAPI::updateCallbacks,   *)
(* ~LocationAPI and startTracking).                                        *)
THEOREM ServedWhereNeeded == Spec => []InterfacesServe
<1>1. Init => ApiInv
  BY DEF Init, ApiInit, ApiInv, ApiTypeOK, LoadedWhenNeeded, SessionsLoaded, InterfacesServe,
         RegisteredWhereNeeded, SessionsBelong, Alive, Interfaces
<1>2. ApiInv /\ [Next]_vars => ApiInv'
  <2>1. [Next]_vars => ApiNext \/ UNCHANGED apiVars
    BY DEF Next, vars, servicesVars
  <2> QED BY <2>1, ApiStepKeeps
<1>3. ApiInv => InterfacesServe
  BY DEF ApiInv
<1> QED BY <1>1, <1>2, <1>3, PTL DEF Spec

-----------------------------------------------------------------------------
(* The observer of the framework's data items *)

ObserverMsgOK(m) ==
  /\ m.msg \in {"Subscribe", "Unsubscribe", "UpdateSubscription"} =>
       m.client \in ObserverClients /\ m.items \subseteq Items
  /\ m.msg = "Subscribe" => m.toRequestData \in BOOLEAN
  /\ m.msg \in {"Unsubscribe", "UpdateSubscription"} => m.client \in Observers
  /\ m.msg = "Notify" =>
       IF m.item = "network" THEN m.type \in Types \union {TypeUnknown} /\ m.up \in BOOLEAN
                             ELSE <<m.item, m.value>> \in {<<"tac", {"t1"}>>, <<"airplane", {"a1"}>>}

ObserverQueueOK == IsQueue(msgQ) /\ \A i \in 1..Len(msgQ) : ObserverMsgOK(msgQ[i])

(* What the cache holds of the network is the types that are connected.    *)
ObserverTypeOK ==
  /\ mClientToDataItems \in [ObserverClients -> SUBSET Items]
  /\ mDataItemToClients \in [Items -> SUBSET ObserverClients]
  /\ fwSubscribed \subseteq Items /\ fwRequested \subseteq Items
  /\ requesters \in [Items -> SUBSET ObserverClients]
  /\ DOMAIN mDataItemCache = Items
  /\ mDataItemCache["network"] # None => mDataItemCache["network"] \subseteq Types \union {TypeUnknown}
  /\ mDataItemCache["tac"] \in {None, {"t1"}} /\ mDataItemCache["airplane"] \in {None, {"a1"}}
  /\ DOMAIN told = ObserverClients /\ \A c \in ObserverClients : DOMAIN told[c] = Items

(* No client was told a value of an item that has none yet. *)
ToldNothingYet ==
  \A d \in Items, c \in ObserverClients : mDataItemCache[d] = None => told[c][d] = None

ObserverInv ==
  /\ ObserverTypeOK /\ ToldNothingYet
  /\ SubscriptionsAgree /\ ClientsToldLast

(* The queue of the message task, in the part that has the observer *)
LEMMA ObserverMsgsOK ==
  /\ IsQueue(ObserverMsgs)
  /\ \A i \in 1..Len(ObserverMsgs) : ObserverMsgOK(ObserverMsgs[i])
<1>1. IsQueue(ObserverMsgs) /\ Len(ObserverMsgs) = 2
  BY ShortQueues DEF ObserverMsgs
<1>2. ObserverMsgOK(ObserverMsgs[1]) /\ ObserverMsgOK(ObserverMsgs[2])
  BY DEF ObserverMsgOK, ObserverMsgs, SubscribeMsg, ObserverClients, Items, XtraItems
<1>3. \A i \in 1..Len(ObserverMsgs) : i = 1 \/ i = 2
  BY <1>1
<1> QED BY <1>1, <1>2, <1>3

LEMMA ObserverAppends ==
  ASSUME NEW q, IsQueue(q), \A i \in 1..Len(q) : ObserverMsgOK(q[i]),
         NEW m, ObserverMsgOK(m), msgQ' = Append(q, m)
  PROVE  ObserverQueueOK'
<1>1. IsQueue(msgQ') /\ Len(msgQ') = Len(q) + 1 /\ Len(q) \in Nat
  BY QueueAppend
<1>2. \A i \in 1..Len(msgQ') : i \in 1..Len(q) \/ i = Len(q) + 1
  BY <1>1
<1>3. \A i \in 1..Len(msgQ') : ObserverMsgOK(msgQ'[i])
  BY <1>2, QueueAppend
<1> QED BY <1>1, <1>3 DEF ObserverQueueOK, ObserverMsgOK

LEMMA ObserverTail ==
  ASSUME ObserverQueueOK, msgQ # <<>>
  PROVE  /\ IsQueue(Tail(msgQ)) /\ \A i \in 1..Len(Tail(msgQ)) : ObserverMsgOK(Tail(msgQ)[i])
         /\ ObserverMsgOK(Head(msgQ))
<1>1. \A i \in 1..Len(Tail(msgQ)) : ObserverMsgOK(Tail(msgQ)[i])
  BY EachOfTail DEF ObserverQueueOK
<1>2. ObserverMsgOK(Head(msgQ))
  BY QueueTail DEF ObserverQueueOK
<1> QED BY <1>1, <1>2, QueueTail DEF ObserverQueueOK

LEMMA TellQueue ==
  ASSUME ObserverQueueOK, msgQ # <<>>, NEW cs, NEW ds, NEW cache, Tell(cs, ds, cache)
  PROVE  ObserverQueueOK'
<1>1. \A vs : ObserverMsgOK([msg |-> "XtraUpdate", values |-> vs])
  BY DEF ObserverMsgOK
<1>2. \/ msgQ' = Tail(msgQ)
      \/ \E vs : msgQ' = Append(Tail(msgQ), [msg |-> "XtraUpdate", values |-> vs])
  BY DEF Tell
<1>3. CASE msgQ' = Tail(msgQ)
  BY <1>3, ObserverTail DEF ObserverQueueOK
<1>4. CASE \E vs : msgQ' = Append(Tail(msgQ), [msg |-> "XtraUpdate", values |-> vs])
  BY <1>1, <1>4, ObserverTail, ObserverAppends
<1> QED BY <1>2, <1>3, <1>4

LEMMA ObserverQueueStep == ObserverQueueOK /\ ObserverNext => ObserverQueueOK'
<1> SUFFICES ASSUME ObserverQueueOK, ObserverNext PROVE ObserverQueueOK'
  OBVIOUS
<1>0. IsQueue(msgQ) /\ \A i \in 1..Len(msgQ) : ObserverMsgOK(msgQ[i])
  BY DEF ObserverQueueOK
<1>a. ASSUME NEW m, Input(m), ObserverMsgOK(m) PROVE ObserverQueueOK'
  BY <1>0, <1>a, ObserverAppends DEF Input
<1>t. ASSUME msgQ # <<>>, msgQ' = Tail(msgQ) PROVE ObserverQueueOK'
  BY <1>t, ObserverTail DEF ObserverQueueOK
<1>u. ASSUME UNCHANGED msgQ PROVE ObserverQueueOK'
  BY <1>0, <1>u DEF ObserverQueueOK
<1>1. ASSUME NEW type \in Types \union {TypeUnknown}, NEW up \in BOOLEAN, eventConnectionStatus(type, up)
      PROVE  ObserverQueueOK'
  BY <1>1, <1>a DEF eventConnectionStatus, ObserverMsgOK
<1>2. CASE notify("tac", {"t1"}) \/ notify("airplane", {"a1"}) \/ setSubscriptionObj
  BY <1>2, <1>a DEF notify, setSubscriptionObj, ObserverMsgOK
<1>3. ASSUME NEW c \in Observers, NEW ds \in SUBSET Items, NEW r \in BOOLEAN,
             subscribe(c, ds, r) \/ unsubscribe(c, ds) \/ updateSubscription(c, ds)
      PROVE  ObserverQueueOK'
  BY <1>3, <1>a DEF subscribe, SubscribeMsg, unsubscribe, updateSubscription, ObserverMsgOK,
                    ObserverClients
<1>4. ASSUME NEW current \in BOOLEAN, onReceive(current) PROVE ObserverQueueOK'
  BY <1>4, <1>a DEF onReceive, ObserverMsgOK
<1>5. CASE setFrameworkActionReqObj \/ turnOn \/ turnOff
  BY <1>5, <1>a, <1>u DEF setFrameworkActionReqObj, turnOn, turnOff, InputNoMessage, ObserverMsgOK
<1>6. CASE HandleUnsubscribeReq \/ SetSubsObj \/ HandleTurnOffMsg \/ HandleOsObserverUpdateMsg
             \/ HandleStatusRequestMsg
  BY <1>6, <1>t DEF HandleUnsubscribeReq, SetSubsObj, HandleTurnOffMsg, HandleOsObserverUpdateMsg,
                    HandleStatusRequestMsg, Next1
<1>7. CASE HandleTurnOnMsg
  <2>1. ObserverMsgOK([msg |-> "TurnOn"])
    BY DEF ObserverMsgOK
  <2> QED BY <1>7, <1>t, <2>1, ObserverTail, ObserverAppends DEF HandleTurnOnMsg, Next1
<1>8. CASE HandleSubscribeReq \/ HandleUpdateSubscriptionReq
  BY <1>8, TellQueue DEF HandleSubscribeReq, AddSubscription, HandleUpdateSubscriptionReq, Next1
<1>9. CASE HandleNotify
  BY <1>9, <1>t, TellQueue DEF HandleNotify, Next1
<1>10. ASSUME NEW c \in Observers, unsubscribeAll(c) PROVE ObserverQueueOK'
  BY <1>3, <1>10 DEF unsubscribeAll
<1> QED BY <1>1, <1>2, <1>3, <1>4, <1>5, <1>6, <1>7, <1>8, <1>9, <1>10, ItemSetsAssumption
        DEF ObserverNext

LEMMA TellTold ==
  ASSUME NEW cs, NEW ds \in SUBSET Items, NEW cache, ObserverTypeOK, Tell(cs, ds, cache)
  PROVE  /\ DOMAIN told' = ObserverClients /\ \A c \in ObserverClients : DOMAIN told'[c] = Items
         /\ \A c \in ObserverClients, d \in Items :
              told'[c][d] = IF /\ c \in cs /\ d \in ds /\ cache[d] # None
                               /\ d \in mClientToDataItems'[c]
                            THEN cache[d] ELSE told[c][d]
<1>1. told' = [c \in ObserverClients |->
                IF c \in cs
                THEN [d \in Items |-> IF d \in {e \in ds : cache[e] # None} /\ d \in mClientToDataItems'[c]
                                      THEN cache[d] ELSE told[c][d]]
                ELSE told[c]]
  BY DEF Tell
<1> QED BY <1>1 DEF ObserverTypeOK

(* The client joins the items it subscribes to and leaves those it gives   *)
(* up; what it joins, and the cache has, it is told. The framework is told *)
(* of the items that no client had before, and of those that none has now. *)
JoinsLeaves(c, joined, left, toRequestData) ==
  /\ mClientToDataItems' \in [ObserverClients -> SUBSET Items]
  /\ \A b \in ObserverClients \ {c} : mClientToDataItems'[b] = mClientToDataItems[b]
  /\ \A d \in Items \ joined : d \in mClientToDataItems'[c] =>
       d \in mClientToDataItems[c] \/ c \notin mDataItemToClients'[d]
  /\ mDataItemToClients' = [d \in Items |->
       IF d \in left THEN mDataItemToClients[d] \ {c}
       ELSE IF d \in joined THEN mDataItemToClients[d] \union {c}
       ELSE mDataItemToClients[d]]
  /\ \/ c \in updated'
     \/ \A d \in Items : d \in mClientToDataItems'[c] <=> c \in mDataItemToClients'[d]
  /\ updated \subseteq updated'
  /\ LET new == {d \in joined : mDataItemToClients[d] = {}}
         dropped == {d \in left : mDataItemToClients[d] = {c}}
     IN  IF toRequestData THEN TellFramework({}, new, dropped) ELSE TellFramework(new, {}, dropped)
  /\ requesters' \in [Items -> SUBSET ObserverClients]
  /\ \A d \in Items : requesters'[d] = {} =>
       \/ requesters[d] = {} /\ (d \in joined /\ mSubscriptionObj => ~toRequestData)
       \/ mDataItemToClients'[d] = {}
  /\ \/ Tell({c}, joined, mDataItemCache)
     \/ joined = {} /\ told' = told
  /\ UNCHANGED <<mDataItemCache, mSubscriptionObj>>

LEMMA JoinLeaveStep ==
  ASSUME ObserverInv, NEW c \in ObserverClients,
         NEW joined \in SUBSET Items, NEW left \in SUBSET Items, joined \cap left = {},
         NEW toRequestData \in BOOLEAN, JoinsLeaves(c, joined, left, toRequestData)
  PROVE  ObserverInv'
<1> USE DEF JoinsLeaves
<1>0. ObserverTypeOK /\ ToldNothingYet /\ SubscriptionsAgree /\ ClientsToldLast
  BY DEF ObserverInv
<1>a. PICK new \in SUBSET Items, dropped \in SUBSET Items :
        /\ new = {d \in joined : mDataItemToClients[d] = {}}
        /\ dropped = {d \in left : mDataItemToClients[d] = {c}}
  OBVIOUS
<1>b. /\ ~mSubscriptionObj => UNCHANGED <<fwSubscribed, fwRequested>>
      /\ mSubscriptionObj =>
           /\ fwSubscribed' \union fwRequested' = (fwSubscribed \union fwRequested \union new) \ dropped
           /\ ~toRequestData => fwSubscribed' = (fwSubscribed \union new) \ dropped
           /\ fwSubscribed \ dropped \subseteq fwSubscribed'
  <2>1. CASE toRequestData
    <3>1. TellFramework({}, new, dropped)
      BY <1>a, <2>1
    <3> QED BY <2>1, <3>1 DEF TellFramework
  <2>2. CASE ~toRequestData
    <3>1. TellFramework(new, {}, dropped)
      BY <1>a, <2>2
    <3> QED BY <2>2, <3>1 DEF TellFramework
  <2> QED BY <2>1, <2>2
<1>1. /\ DOMAIN told' = ObserverClients /\ \A b \in ObserverClients : DOMAIN told'[b] = Items
      /\ \A b \in ObserverClients, d \in Items :
           told'[b][d] = IF /\ b = c /\ d \in joined /\ mDataItemCache[d] # None
                            /\ d \in mClientToDataItems'[b]
                         THEN mDataItemCache[d] ELSE told[b][d]
  <2>1. CASE Tell({c}, joined, mDataItemCache)
    <3>1. /\ DOMAIN told' = ObserverClients /\ \A b \in ObserverClients : DOMAIN told'[b] = Items
          /\ \A b \in ObserverClients, d \in Items :
               told'[b][d] = IF /\ b \in {c} /\ d \in joined /\ mDataItemCache[d] # None
                                /\ d \in mClientToDataItems'[b]
                             THEN mDataItemCache[d] ELSE told[b][d]
      <4> HIDE DEF JoinsLeaves
      <4> QED BY <1>0, <2>1, TellTold
    <3> QED BY <3>1
  <2>2. CASE joined = {} /\ told' = told
    BY <1>0, <2>2 DEF ObserverTypeOK
  <2> QED BY <2>1, <2>2
<1>2. ObserverTypeOK'
  <2>1. mDataItemToClients' \in [Items -> SUBSET ObserverClients]
    BY <1>0 DEF ObserverTypeOK
  <2>2. fwSubscribed' \subseteq Items /\ fwRequested' \subseteq Items
    BY <1>0, <1>a, <1>b DEF ObserverTypeOK
  <2> QED BY <1>0, <1>1, <2>1, <2>2 DEF ObserverTypeOK
<1>3. ToldNothingYet'
  BY <1>0, <1>1 DEF ToldNothingYet
<1>4. SubscriptionsAgree'
  <2>1. ASSUME NEW b \in ObserverClients \ updated', NEW d \in Items
        PROVE  d \in mClientToDataItems'[b] <=> b \in mDataItemToClients'[d]
    <3>1. CASE b = c
      BY <2>1, <3>1
    <3>2. CASE b # c
      BY <1>0, <2>1, <3>2 DEF SubscriptionsAgree
    <3> QED BY <3>1, <3>2
  <2>2. ASSUME mSubscriptionObj PROVE (fwSubscribed \union fwRequested = WantedItems)'
    <3>1. fwSubscribed \union fwRequested = {d \in Items : mDataItemToClients[d] # {}}
      BY <1>0, <2>2 DEF SubscriptionsAgree, WantedItems
    <3>2. fwSubscribed' \union fwRequested'
            = ({d \in Items : mDataItemToClients[d] # {}} \union new) \ dropped
      BY <1>b, <2>2, <3>1
    <3>3. ASSUME NEW d \in Items
          PROVE  d \in fwSubscribed' \union fwRequested' <=> mDataItemToClients'[d] # {}
      <4>1. CASE d \in left
        BY <1>a, <3>2, <4>1
      <4>2. CASE d \notin left
        BY <1>a, <3>2, <4>2
      <4> QED BY <4>1, <4>2
    <3> QED BY <1>2, <3>3 DEF ObserverTypeOK, WantedItems
  <2>3. ASSUME mSubscriptionObj, NEW d \in Items, mDataItemToClients'[d] # {}, requesters'[d] = {}
        PROVE  d \in fwSubscribed'
    <3>1. requesters[d] = {} /\ (d \in joined => ~toRequestData)
      BY <2>3
    <3>2. d \notin dropped
      BY <1>a, <2>3
    <3>3. CASE mDataItemToClients[d] # {}
      <4>1. d \in fwSubscribed
        BY <1>0, <2>3, <3>1, <3>3 DEF SubscriptionsAgree, WantedItems
      <4> QED BY <1>b, <2>3, <3>2, <4>1
    <3>4. CASE mDataItemToClients[d] = {}
      <4>1. d \in joined /\ d \in new
        BY <1>a, <2>3, <3>4
      <4> QED BY <1>b, <2>3, <3>1, <3>2, <4>1
    <3> QED BY <3>3, <3>4
  <2> QED BY <2>1, <2>2, <2>3 DEF SubscriptionsAgree, WantedItems
<1>5. ClientsToldLast'
  <2> SUFFICES ASSUME NEW d \in Items, NEW b \in mDataItemToClients'[d], d \in mClientToDataItems'[b]
               PROVE  told'[b][d] = mDataItemCache[d]
    BY DEF ClientsToldLast
  <2>0. b \in ObserverClients
    BY <1>2 DEF ObserverTypeOK
  <2>1. CASE b = c /\ d \in joined
    BY <1>0, <1>1, <2>0, <2>1 DEF ToldNothingYet
  <2>2. CASE ~(b = c /\ d \in joined)
    <3>1. told'[b][d] = told[b][d]
      BY <1>1, <2>0, <2>2
    <3>2. b \in mDataItemToClients[d] /\ d \in mClientToDataItems[b]
      BY <2>0, <2>2
    <3> QED BY <1>0, <3>1, <3>2 DEF ClientsToldLast
  <2> QED BY <2>1, <2>2
<1> QED BY <1>2, <1>3, <1>4, <1>5 DEF ObserverInv

LEMMA SubscribeStep ==
  ASSUME ObserverInv, ObserverQueueOK, HandleSubscribeReq
  PROVE  ObserverInv'
<1> DEFINE c == Head(msgQ).client
           ds == Head(msgQ).items
<1>1. c \in ObserverClients /\ ds \subseteq Items
  BY ObserverTail DEF HandleSubscribeReq, Next1, ObserverMsgOK
<1>r. PICK r \in BOOLEAN : r = Head(msgQ).toRequestData
  BY ObserverTail DEF HandleSubscribeReq, Next1, ObserverMsgOK
<1>2. /\ AddSubscription(c, ds, r) /\ UNCHANGED <<updated, mDataItemCache, mSubscriptionObj>>
      /\ requesters' = [d \in Items |-> IF mSubscriptionObj /\ r /\ d \in ds
                                         THEN requesters[d] \union {c} ELSE requesters[d]]
  BY <1>r DEF HandleSubscribeReq
<1> HIDE DEF c, ds
<1>3. /\ mClientToDataItems' = [mClientToDataItems EXCEPT ![c] = @ \union ds]
      /\ mDataItemToClients' = [d \in Items |-> IF d \in ds THEN mDataItemToClients[d] \union {c}
                                                ELSE mDataItemToClients[d]]
      /\ IF r THEN TellFramework({}, {d \in ds : mDataItemToClients[d] = {}}, {})
              ELSE TellFramework({d \in ds : mDataItemToClients[d] = {}}, {}, {})
      /\ Tell({c}, ds, mDataItemCache)
  BY <1>2 DEF AddSubscription, Enter
<1>4. /\ mClientToDataItems \in [ObserverClients -> SUBSET Items]
      /\ c \in updated \/ \A d \in Items : d \in mClientToDataItems[c] <=> c \in mDataItemToClients[d]
  BY <1>1 DEF ObserverInv, ObserverTypeOK, SubscriptionsAgree
<1>5. /\ mClientToDataItems' \in [ObserverClients -> SUBSET Items]
      /\ \A b \in ObserverClients \ {c} : mClientToDataItems'[b] = mClientToDataItems[b]
      /\ mClientToDataItems'[c] = mClientToDataItems[c] \union ds
  BY <1>1, <1>3, <1>4
<1>6. mDataItemToClients' = [d \in Items |->
           IF d \in {} THEN mDataItemToClients[d] \ {c}
           ELSE IF d \in ds THEN mDataItemToClients[d] \union {c}
           ELSE mDataItemToClients[d]]
  BY <1>3
<1>7. c \in updated' \/ \A d \in Items : d \in mClientToDataItems'[c] <=> c \in mDataItemToClients'[d]
  BY <1>1, <1>2, <1>3, <1>4, <1>5
<1>8. {d \in {} : mDataItemToClients[d] = {c}} = {}
  OBVIOUS
<1>9. \A d \in Items \ ds : d \in mClientToDataItems'[c] => d \in mClientToDataItems[c]
  BY <1>5
<1>10. /\ requesters' \in [Items -> SUBSET ObserverClients]
       /\ \A d \in Items : requesters'[d] = {} =>
            requesters[d] = {} /\ (d \in ds /\ mSubscriptionObj => ~r)
  BY <1>1, <1>2 DEF ObserverInv, ObserverTypeOK
<1>11. JoinsLeaves(c, ds, {}, r) /\ {} \in SUBSET Items
  BY <1>2, <1>3, <1>5, <1>6, <1>7, <1>8, <1>9, <1>10 DEF JoinsLeaves
<1> QED BY <1>1, <1>11, JoinLeaveStep

(* When items leave, those without clients forget who requested them.      *)
LEMMA ForgetRequestersStep ==
  ASSUME ObserverTypeOK, ForgetRequesters
  PROVE  /\ requesters' \in [Items -> SUBSET ObserverClients]
         /\ \A d \in Items : requesters'[d] = {} =>
              requesters[d] = {} \/ mDataItemToClients'[d] = {}
BY DEF ObserverTypeOK, ForgetRequesters

LEMMA UnsubscribeStep ==
  ASSUME ObserverInv, ObserverQueueOK, HandleUnsubscribeReq
  PROVE  ObserverInv'
<1> DEFINE c == Head(msgQ).client
           ds == Head(msgQ).items
<1>1. c \in ObserverClients /\ ds \subseteq Items
  BY ObserverTail DEF HandleUnsubscribeReq, Next1, ObserverMsgOK
<1>2. /\ DropSubscription(c, ds) /\ UNCHANGED <<updated, mDataItemCache, mSubscriptionObj, told>>
      /\ ForgetRequesters
  BY DEF HandleUnsubscribeReq
<1> HIDE DEF c, ds
<1> DEFINE unused == mClientToDataItems[c] \intersect ds
<1>3. /\ mClientToDataItems' = [mClientToDataItems EXCEPT ![c] = @ \ unused]
      /\ mDataItemToClients' = [d \in Items |-> IF d \in unused THEN mDataItemToClients[d] \ {c}
                                                ELSE mDataItemToClients[d]]
      /\ TellFramework({}, {}, {d \in unused : mDataItemToClients[d] = {c}})
  BY <1>2 DEF DropSubscription
<1>4. /\ mClientToDataItems \in [ObserverClients -> SUBSET Items]
      /\ c \in updated \/ \A d \in Items : d \in mClientToDataItems[c] <=> c \in mDataItemToClients[d]
  BY <1>1 DEF ObserverInv, ObserverTypeOK, SubscriptionsAgree
<1>5. /\ mClientToDataItems' \in [ObserverClients -> SUBSET Items]
      /\ \A b \in ObserverClients \ {c} : mClientToDataItems'[b] = mClientToDataItems[b]
      /\ mClientToDataItems'[c] = mClientToDataItems[c] \ unused
      /\ unused \in SUBSET Items
  BY <1>1, <1>3, <1>4
<1> HIDE DEF unused
<1>6. mDataItemToClients' = [d \in Items |->
           IF d \in unused THEN mDataItemToClients[d] \ {c}
           ELSE IF d \in {} THEN mDataItemToClients[d] \union {c}
           ELSE mDataItemToClients[d]]
  BY <1>3
<1>7. c \in updated' \/ \A d \in Items : d \in mClientToDataItems'[c] <=> c \in mDataItemToClients'[d]
  BY <1>1, <1>2, <1>3, <1>4, <1>5
<1>8. {d \in {} : mDataItemToClients[d] = {}} = {}
  OBVIOUS
<1>9. \A d \in Items \ {} : d \in mClientToDataItems'[c] => d \in mClientToDataItems[c]
  BY <1>5
<1>10. /\ requesters' \in [Items -> SUBSET ObserverClients]
       /\ \A d \in Items : requesters'[d] = {} => requesters[d] = {} \/ mDataItemToClients'[d] = {}
  BY <1>2, ForgetRequestersStep DEF ObserverInv
<1>11. JoinsLeaves(c, {}, unused, FALSE) /\ {} \in SUBSET Items
  BY <1>2, <1>3, <1>5, <1>6, <1>7, <1>8, <1>9, <1>10 DEF JoinsLeaves
<1> QED BY <1>1, <1>5, <1>11, JoinLeaveStep

LEMMA UpdateSubscriptionStep ==
  ASSUME ObserverInv, ObserverQueueOK, HandleUpdateSubscriptionReq
  PROVE  ObserverInv'
<1> DEFINE c == Head(msgQ).client
           ds == Head(msgQ).items
<1>1. c \in ObserverClients /\ ds \subseteq Items
  BY ObserverTail DEF HandleUpdateSubscriptionReq, Next1, ObserverMsgOK
<1>2. PICK gone \in Returned(c, ds) :
        /\ mClientToDataItems' = [mClientToDataItems EXCEPT ![c] = ds]
        /\ mDataItemToClients' = [d \in Items |->
             CASE d \in gone -> mDataItemToClients[d] \ {c}
               [] d \in ds \ gone -> mDataItemToClients[d] \union {c}
               [] OTHER -> mDataItemToClients[d]]
        /\ TellFramework({d \in ds \ gone : mDataItemToClients[d] = {}}, {},
                         {d \in gone : mDataItemToClients[d] = {c}})
        /\ Tell({c}, ds \ gone, mDataItemCache)
        /\ updated' = updated \union {c}
        /\ ForgetRequesters
        /\ UNCHANGED <<mDataItemCache, mSubscriptionObj>>
  BY DEF HandleUpdateSubscriptionReq
<1> HIDE DEF c, ds
<1>3. gone \subseteq mClientToDataItems[c] /\ gone \subseteq ds /\ gone \in SUBSET Items
      /\ ds \ gone \in SUBSET Items /\ (ds \ gone) \cap gone = {}
  BY <1>1 DEF Returned
<1>4. mClientToDataItems \in [ObserverClients -> SUBSET Items]
  BY DEF ObserverInv, ObserverTypeOK
<1>5. /\ mClientToDataItems' \in [ObserverClients -> SUBSET Items]
      /\ \A b \in ObserverClients \ {c} : mClientToDataItems'[b] = mClientToDataItems[b]
      /\ mClientToDataItems'[c] = ds
  BY <1>1, <1>2, <1>4
<1>6. mDataItemToClients' = [d \in Items |->
           IF d \in gone THEN mDataItemToClients[d] \ {c}
           ELSE IF d \in ds \ gone THEN mDataItemToClients[d] \union {c}
           ELSE mDataItemToClients[d]]
  BY <1>2
<1>7. c \in updated' /\ updated \subseteq updated'
  BY <1>2
<1>8. /\ requesters' \in [Items -> SUBSET ObserverClients]
      /\ \A d \in Items : requesters'[d] = {} => requesters[d] = {} \/ mDataItemToClients'[d] = {}
  BY <1>2, ForgetRequestersStep DEF ObserverInv
<1>9. \A d \in Items \ (ds \ gone) : d \in mClientToDataItems'[c] => d \in mClientToDataItems[c]
  BY <1>3, <1>5
<1>10. JoinsLeaves(c, ds \ gone, gone, FALSE)
  BY <1>2, <1>5, <1>6, <1>7, <1>8, <1>9 DEF JoinsLeaves
<1> QED BY <1>1, <1>3, <1>10, JoinLeaveStep

LEMMA NotifyStep ==
  ASSUME ObserverInv, ObserverQueueOK, HandleNotify
  PROVE  ObserverInv'
<1> DEFINE m == Head(msgQ)
           value == IF m.item = "network" THEN collate(m) ELSE m.value
<1>0. ObserverTypeOK /\ ToldNothingYet /\ SubscriptionsAgree /\ ClientsToldLast
  BY DEF ObserverInv
<1>1. /\ m.item \in Items
      /\ m.item = "network" => m.type \in Types \union {TypeUnknown}
      /\ m.item = "tac" => m.value = {"t1"}
      /\ m.item = "airplane" => m.value = {"a1"}
  BY ObserverTail DEF HandleNotify, Next1, ObserverMsgOK, Items, XtraItems
<1>2. /\ mDataItemCache' = [mDataItemCache EXCEPT ![m.item] = value]
      /\ IF value # mDataItemCache[m.item]
           THEN Tell(mDataItemToClients[m.item], {m.item}, mDataItemCache') ELSE told' = told
      /\ UNCHANGED <<mapVars, mSubscriptionObj>>
  BY DEF HandleNotify, updateCache, eventDataItemNotify, mapVars
<1>3. m.item = "network" => value \subseteq Types \union {TypeUnknown}
  BY <1>0, <1>1 DEF collate, ObserverTypeOK
<1>4. value # None
  <2>1. CASE m.item = "network"
    BY <1>3, <2>1, TypesAssumption DEF None, TypeUnknown
  <2>2. CASE m.item # "network"
    BY <1>1, <2>2 DEF None, Items, XtraItems
  <2> QED BY <2>1, <2>2
<1>5. (m.item = "tac" => value = {"t1"}) /\ (m.item = "airplane" => value = {"a1"})
  BY <1>1
<1> HIDE DEF value, m
<1>6. ASSUME NEW d \in Items
      PROVE  mDataItemCache'[d] = IF d = m.item THEN value ELSE mDataItemCache[d]
  BY <1>0, <1>2 DEF ObserverTypeOK
<1>7. /\ DOMAIN told' = ObserverClients /\ \A c \in ObserverClients : DOMAIN told'[c] = Items
      /\ \A c \in ObserverClients, d \in Items :
           told'[c][d] = IF /\ c \in mDataItemToClients[m.item] /\ d = m.item
                            /\ value # mDataItemCache[m.item] /\ d \in mClientToDataItems[c]
                         THEN value ELSE told[c][d]
  <2>1. CASE value # mDataItemCache[m.item]
    <3>0. PICK cache, cs, ds :
             cache = mDataItemCache' /\ cs = mDataItemToClients[m.item] /\ ds = {m.item}
      OBVIOUS
    <3>1. Tell(cs, ds, cache) /\ ds \in SUBSET Items
      BY <1>1, <1>2, <2>1, <3>0
    <3>2. /\ DOMAIN told' = ObserverClients /\ \A c \in ObserverClients : DOMAIN told'[c] = Items
          /\ \A c \in ObserverClients, d \in Items :
               told'[c][d] = IF /\ c \in cs /\ d \in ds
                                /\ cache[d] # None /\ d \in mClientToDataItems'[c]
                             THEN cache[d] ELSE told[c][d]
      BY <1>0, <3>1, TellTold
    <3>3. mClientToDataItems' = mClientToDataItems
      BY <1>2 DEF mapVars
    <3> QED BY <1>4, <1>6, <2>1, <3>0, <3>2, <3>3
  <2>2. CASE value = mDataItemCache[m.item]
    BY <1>0, <1>2, <2>2 DEF ObserverTypeOK
  <2> QED BY <2>1, <2>2
<1>8. ObserverTypeOK'
  <2>1. DOMAIN mDataItemCache' = Items
    BY <1>0, <1>2 DEF ObserverTypeOK
  <2>2. /\ mDataItemCache'["network"] # None => mDataItemCache'["network"] \subseteq Types \union {TypeUnknown}
        /\ mDataItemCache'["tac"] \in {None, {"t1"}} /\ mDataItemCache'["airplane"] \in {None, {"a1"}}
    BY <1>0, <1>3, <1>5, <1>6 DEF ObserverTypeOK, Items, XtraItems
  <2> QED BY <1>0, <1>2, <1>7, <2>1, <2>2 DEF ObserverTypeOK, mapVars, fwVars
<1>9. ToldNothingYet'
  BY <1>0, <1>4, <1>6, <1>7 DEF ToldNothingYet
<1>10. SubscriptionsAgree'
  BY <1>0, <1>2 DEF SubscriptionsAgree, WantedItems, mapVars, fwVars
<1>11. ClientsToldLast'
  <2> SUFFICES ASSUME NEW d \in Items, NEW c \in mDataItemToClients[d], d \in mClientToDataItems[c]
               PROVE  told'[c][d] = mDataItemCache'[d]
    BY <1>2 DEF ClientsToldLast, mapVars
  <2>1. c \in ObserverClients /\ told[c][d] = mDataItemCache[d]
    BY <1>0 DEF ObserverTypeOK, ClientsToldLast
  <2> QED BY <1>6, <1>7, <2>1
<1> QED BY <1>8, <1>9, <1>10, <1>11 DEF ObserverInv

LEMMA SetSubsObjStep ==
  ASSUME ObserverInv, SetSubsObj
  PROVE  ObserverInv'
<1>1. ObserverTypeOK'
  BY DEF ObserverInv, ObserverTypeOK, SetSubsObj
<1>2. SubscriptionsAgree'
  BY DEF ObserverInv, SubscriptionsAgree, WantedItems, SetSubsObj
<1>3. ToldNothingYet' /\ ClientsToldLast'
  BY DEF ObserverInv, ToldNothingYet, ClientsToldLast, SetSubsObj
<1> QED BY <1>1, <1>2, <1>3 DEF ObserverInv

LEMMA ObserverOthersStep ==
  ASSUME ObserverInv, UNCHANGED <<mapVars, mDataItemCache, mSubscriptionObj, told>>
  PROVE  ObserverInv'
BY DEF ObserverInv, ObserverTypeOK, ToldNothingYet, SubscriptionsAgree, WantedItems, ClientsToldLast,
       mapVars, fwVars

LEMMA ObserverStep == ObserverInv /\ ObserverQueueOK /\ ObserverNext => ObserverInv'
<1> SUFFICES ASSUME ObserverInv, ObserverQueueOK, ObserverNext PROVE ObserverInv'
  OBVIOUS
<1>1. CASE \/ \E t \in Types \union {TypeUnknown}, up \in BOOLEAN : eventConnectionStatus(t, up)
           \/ notify("tac", {"t1"}) \/ notify("airplane", {"a1"})
           \/ setSubscriptionObj \/ setFrameworkActionReqObj
           \/ \E c \in Observers, ds \in ItemSets :
                \/ \E toRequestData \in BOOLEAN : subscribe(c, ds, toRequestData)
                \/ unsubscribe(c, ds) \/ updateSubscription(c, ds)
           \/ \E c \in Observers : unsubscribeAll(c)
           \/ \E current \in BOOLEAN : onReceive(current)
           \/ turnOn \/ turnOff
           \/ HandleTurnOnMsg \/ HandleTurnOffMsg
           \/ HandleOsObserverUpdateMsg \/ HandleStatusRequestMsg
  <2> DEFINE Same == UNCHANGED <<mapVars, mDataItemCache, mSubscriptionObj, told>>
  <2>1. UNCHANGED observerVars => Same
    BY DEF observerVars, mapVars, fwVars
  <2>2. ASSUME NEW c, NEW ds,
               \/ \E r \in BOOLEAN : subscribe(c, ds, r)
               \/ unsubscribe(c, ds) \/ updateSubscription(c, ds) \/ unsubscribeAll(c)
        PROVE  Same
    BY <2>1, <2>2 DEF subscribe, unsubscribe, unsubscribeAll, updateSubscription
  <2>3. ASSUME \/ notify("tac", {"t1"}) \/ notify("airplane", {"a1"}) \/ setSubscriptionObj
               \/ \E current \in BOOLEAN : onReceive(current)
        PROVE  Same
    BY <2>1, <2>3 DEF notify, setSubscriptionObj, onReceive
  <2>4. ASSUME \/ \E t \in Types \union {TypeUnknown}, up \in BOOLEAN : eventConnectionStatus(t, up)
               \/ setFrameworkActionReqObj \/ turnOn \/ turnOff
               \/ HandleTurnOnMsg \/ HandleTurnOffMsg
               \/ HandleOsObserverUpdateMsg \/ HandleStatusRequestMsg
        PROVE  Same
    BY <2>4 DEF eventConnectionStatus, setFrameworkActionReqObj, turnOn, turnOff, HandleTurnOnMsg,
                HandleTurnOffMsg, HandleOsObserverUpdateMsg, HandleStatusRequestMsg
  <2>5. Same
    BY <1>1, <2>2, <2>3, <2>4
  <2> QED BY <2>5, ObserverOthersStep
<1> QED BY <1>1, SubscribeStep, UnsubscribeStep, UpdateSubscriptionStep, NotifyStep, SetSubsObjStep
        DEF ObserverNext

(* What the other parts do with the queue does not matter to the observer, *)
(* as they are not in a behaviour of its part.                             *)
ObserverPart == (part = "observer" => ObserverQueueOK) /\ ObserverInv

LEMMA ObserverInductive == Spec => []ObserverPart
<1>1. Init => ObserverPart
  <2> SUFFICES ASSUME Init PROVE ObserverPart
    OBVIOUS
  <2>1. part = "observer" => ObserverQueueOK
    BY ObserverMsgsOK DEF Init, ObserverQueueOK
  <2>2. ObserverTypeOK /\ ToldNothingYet
    BY DEF Init, ObserverInit, NoValues, ObserverTypeOK, ToldNothingYet, Items, XtraItems, None
  <2>3. SubscriptionsAgree /\ ClientsToldLast
    BY DEF Init, ObserverInit, NoValues, SubscriptionsAgree, ClientsToldLast
  <2> QED BY <2>1, <2>2, <2>3 DEF ObserverPart, ObserverInv
<1>2. ObserverPart /\ [Next]_vars => ObserverPart'
  <2> SUFFICES ASSUME ObserverPart, [Next]_vars PROVE ObserverPart'
    OBVIOUS
  <2>1. CASE part = "observer" /\ part' = part /\ ObserverNext
    BY <2>1, ObserverStep, ObserverQueueStep DEF ObserverPart
  <2>2. CASE UNCHANGED <<part, msgQ, observerVars>>
    BY <2>2, ObserverOthersStep
       DEF ObserverPart, ObserverQueueOK, ObserverMsgOK, observerVars, mapVars, fwVars
  <2>3. CASE part # "observer" /\ UNCHANGED <<part, observerVars>>
    BY <2>3, ObserverOthersStep DEF ObserverPart, observerVars, mapVars, fwVars
  <2> QED BY <2>1, <2>2, <2>3 DEF Next, vars, taskVars
<1> QED BY <1>1, <1>2, PTL DEF Spec

(* The two maps of the observer agree, and the framework has just the      *)
(* items that some client wants, and is subscribed to those that clients   *)
(* subscribed to, unless one of them requested their data: clients may     *)
(* join first and leave last before and after its object is there          *)
(* (SystemStatusOsObserver.cpp).                                           *)
THEOREM MapsAgree == Spec => []SubscriptionsAgree
<1>1. ObserverPart => SubscriptionsAgree
  BY DEF ObserverPart, ObserverInv
<1> QED BY <1>1, ObserverInductive, PTL

(* A client was told the last value of every item it is subscribed to,     *)
(* whenever it subscribed (sendCachedDataItems).                           *)
THEOREM ToldLast == Spec => []ClientsToldLast
<1>1. ObserverPart => ClientsToldLast
  BY DEF ObserverPart, ObserverInv
<1> QED BY <1>1, ObserverInductive, PTL

(* What the XTRA daemon knows. The types that are connected are those the  *)
(* cache will have when the queue q has been handled: a report counts that *)
(* no later one takes back.                                                *)
ReportMsg(m) == m.msg = "Notify" /\ m.item = "network"
Connects(m, t) == ReportMsg(m) /\ m.up /\ m.type = t
Disconnects(m, t) == ReportMsg(m) /\ ~m.up /\ m.type \in {t, TypeUnknown}
Bits == Types \ {TypeUnknown}
Cached(cache, t) == cache # None /\ t \in cache

StatusAfter(q, conn, cache) ==
  \A t \in Bits :
    t \in conn <=> \E i \in 0..Len(q) :
                     /\ IF i = 0 THEN Cached(cache, t) ELSE Connects(q[i], t)
                     /\ \A j \in 1..Len(q) : j > i => ~Disconnects(q[j], t)

(* The first report of all is in the queue until the cache has it.         *)
FirstAfter(q, fst, conn, cache) ==
  /\ fst = "nothing" => cache = None /\ conn = {} /\ \A i \in 1..Len(q) : ~ReportMsg(q[i])
  /\ fst = "connected" /\ cache = None =>
       \E i \in 1..Len(q) :
         ReportMsg(q[i]) /\ q[i].up /\ \A j \in 1..Len(q) : j < i => ~ReportMsg(q[j])

(* The daemon says it is current only after its first request.             *)
RequestsAfter(q, received) ==
  \A i \in 1..Len(q) : q[i].msg = "StatusRequest" /\ q[i].current => received

(* The observer's own subscription, and its last update                    *)
XtraJoins(m) == m.msg = "Subscribe" /\ m.client = XTRA /\ "network" \in m.items
JoinsIn(q) == \E i \in 1..Len(q) : XtraJoins(q[i])
XtraJoined == "network" \in mClientToDataItems[XTRA] /\ XTRA \in mDataItemToClients["network"]

UpdateMsg(m) == m.msg = "XtraUpdate" /\ "network" \in DOMAIN m.values
ValueAfter(q, val, cache) ==
  \E i \in 0..Len(q) :
    /\ IF i = 0 THEN val = cache ELSE UpdateMsg(q[i]) /\ q[i].values["network"] = cache
    /\ \A j \in 1..Len(q) : j > i => ~UpdateMsg(q[j])

QueueFits(q, conn, fst, cache, received) ==
  /\ FirstAfter(q, fst, conn, cache)
  /\ fst = "connected" => StatusAfter(q, conn, cache)
  /\ RequestsAfter(q, received)

XtraTypeOK ==
  /\ connected \subseteq Bits
  /\ mDataItemCache["network"] = None \/ mDataItemCache["network"] \subseteq Bits
  /\ first \in {"nothing", "connected", "disconnected"}
  /\ DOMAIN mValues = XtraItems /\ DOMAIN xtraKnows = XtraItems
XtraServed ==
  /\ XtraJoined \/ JoinsIn(msgQ)
  /\ XtraJoined /\ mDataItemCache["network"] # None =>
       ValueAfter(msgQ, mValues["network"], mDataItemCache["network"])
  /\ mReqStatusReceived => xtraKnows["network"] = mValues["network"]

XtraInv ==
  /\ XtraTypeOK /\ XtraServed
  /\ QueueFits(msgQ, connected, first, mDataItemCache["network"], mReqStatusReceived)

(* A message is sent *)
LEMMA StatusGrows ==
  ASSUME NEW q, IsQueue(q), NEW m, NEW conn, NEW cache, StatusAfter(q, conn, cache), NEW more,
         \A t \in Bits : t \in more <=> Connects(m, t) \/ (t \in conn /\ ~Disconnects(m, t))
  PROVE  StatusAfter(Append(q, m), more, cache)
<1>1. PICK e : e = Append(q, m) /\ IsOneMore(q, m, e)
  BY QueueGrows
<1>2. PICK n : /\ n = Len(q) /\ n \in Nat /\ Len(e) = n + 1 /\ e[n + 1] = m
               /\ \A i \in 1..n : e[i] = q[i]
  BY <1>1 DEF IsOneMore
<1> SUFFICES ASSUME NEW t \in Bits
             PROVE  t \in more <=>
                      \E i \in 0..n + 1 :
                        /\ IF i = 0 THEN Cached(cache, t) ELSE Connects(e[i], t)
                        /\ \A j \in 1..n + 1 : j > i => ~Disconnects(e[j], t)
  BY <1>1, <1>2 DEF StatusAfter
<1>3. t \in conn <=> \E i \in 0..n :
                       /\ IF i = 0 THEN Cached(cache, t) ELSE Connects(q[i], t)
                       /\ \A j \in 1..n : j > i => ~Disconnects(q[j], t)
  BY <1>2 DEF StatusAfter
<1>4. ASSUME t \in more
      PROVE  \E i \in 0..n + 1 : /\ IF i = 0 THEN Cached(cache, t) ELSE Connects(e[i], t)
                                 /\ \A j \in 1..n + 1 : j > i => ~Disconnects(e[j], t)
  <2>1. CASE Connects(m, t)
    <3>1. n + 1 \in 0..n + 1 /\ n + 1 # 0 /\ \A j \in 1..n + 1 : ~(j > n + 1)
      BY <1>2
    <3> QED BY <1>2, <2>1, <3>1
  <2>2. CASE t \in conn /\ ~Disconnects(m, t)
    <3>1. PICK i \in 0..n : /\ IF i = 0 THEN Cached(cache, t) ELSE Connects(q[i], t)
                            /\ \A j \in 1..n : j > i => ~Disconnects(q[j], t)
      BY <1>3, <2>2
    <3>2. i \in 0..n + 1 /\ (i # 0 => i \in 1..n)
      BY <1>2
    <3>3. \A j \in 1..n + 1 : j \in 1..n \/ j = n + 1
      BY <1>2
    <3>4. \A j \in 1..n + 1 : j > i => ~Disconnects(e[j], t)
      BY <1>2, <2>2, <3>1, <3>3
    <3>5. IF i = 0 THEN Cached(cache, t) ELSE Connects(e[i], t)
      BY <1>2, <3>1, <3>2
    <3> QED BY <3>2, <3>4, <3>5
  <2> QED BY <1>4, <2>1, <2>2
<1>5. ASSUME NEW i \in 0..n + 1, IF i = 0 THEN Cached(cache, t) ELSE Connects(e[i], t),
             \A j \in 1..n + 1 : j > i => ~Disconnects(e[j], t)
      PROVE  t \in more
  <2>1. CASE i = n + 1
    BY <1>2, <1>5, <2>1
  <2>2. CASE i # n + 1
    <3>1. i \in 0..n /\ n + 1 > i /\ n + 1 \in 1..n + 1 /\ (i # 0 => i \in 1..n)
      BY <1>2, <2>2
    <3>2. ~Disconnects(m, t)
      BY <1>2, <1>5, <3>1
    <3>3. \A j \in 1..n : j > i => ~Disconnects(q[j], t)
      BY <1>2, <1>5
    <3>4. IF i = 0 THEN Cached(cache, t) ELSE Connects(q[i], t)
      BY <1>2, <1>5, <3>1
    <3> QED BY <1>3, <3>1, <3>2, <3>3, <3>4
  <2> QED BY <2>1, <2>2
<1> QED BY <1>4, <1>5

LEMMA FitsReport ==
  ASSUME NEW q, IsQueue(q), NEW m, ReportMsg(m), NEW conn, NEW fst, NEW cache, NEW received,
         QueueFits(q, conn, fst, cache, received), NEW more, NEW fst2,
         fst2 = (IF fst # "nothing" THEN fst ELSE IF m.up THEN "connected" ELSE "disconnected"),
         \A t \in Bits : t \in more <=> Connects(m, t) \/ (t \in conn /\ ~Disconnects(m, t))
  PROVE  QueueFits(Append(q, m), more, fst2, cache, received)
<1>1. PICK e : e = Append(q, m) /\ IsOneMore(q, m, e)
  BY QueueGrows
<1>2. PICK n : /\ n = Len(q) /\ n \in Nat /\ Len(e) = n + 1 /\ e[n + 1] = m
               /\ \A i \in 1..n : e[i] = q[i]
               /\ \A i \in 1..n + 1 : i \in 1..n \/ i = n + 1
  BY <1>1 DEF IsOneMore
<1>3. FirstAfter(q, fst, conn, cache) /\ (fst = "connected" => StatusAfter(q, conn, cache))
  BY DEF QueueFits
<1>4. RequestsAfter(e, received)
  BY <1>2 DEF QueueFits, RequestsAfter, ReportMsg
<1>5. CASE fst # "nothing"
  <2>1. fst2 = fst
    BY <1>5
  <2>2. fst = "connected" => StatusAfter(e, more, cache)
    BY <1>1, <1>3, StatusGrows
  <2>3. ASSUME fst = "connected", cache = None
        PROVE  \E i \in 1..n + 1 :
                 ReportMsg(e[i]) /\ e[i].up /\ \A j \in 1..n + 1 : j < i => ~ReportMsg(e[j])
    <3>1. PICK i \in 1..n : ReportMsg(q[i]) /\ q[i].up /\ \A j \in 1..n : j < i => ~ReportMsg(q[j])
      BY <1>2, <1>3, <2>3 DEF FirstAfter
    <3>2. i \in 1..n + 1 /\ \A j \in 1..n + 1 : j < i => j \in 1..n
      BY <1>2
    <3> QED BY <1>2, <3>1, <3>2
  <2>4. FirstAfter(e, fst, more, cache)
    BY <1>2, <1>5, <2>3 DEF FirstAfter
  <2> QED BY <1>1, <1>4, <2>1, <2>2, <2>4 DEF QueueFits
<1>6. CASE fst = "nothing"
  <2>1. cache = None /\ conn = {} /\ \A i \in 1..n : ~ReportMsg(q[i])
    BY <1>2, <1>3, <1>6 DEF FirstAfter
  <2>2. fst2 = IF m.up THEN "connected" ELSE "disconnected"
    BY <1>6
  <2>3. n + 1 \in 1..n + 1 /\ \A j \in 1..n + 1 : j < n + 1 => j \in 1..n
    BY <1>2
  <2>4. FirstAfter(e, fst2, more, cache)
    BY <1>2, <2>1, <2>2, <2>3 DEF FirstAfter
  <2>5. StatusAfter(q, conn, cache)
    BY <1>2, <2>1 DEF StatusAfter, Cached, Connects
  <2>6. StatusAfter(e, more, cache)
    BY <1>1, <2>5, StatusGrows
  <2> QED BY <1>1, <1>4, <2>4, <2>6 DEF QueueFits
<1> QED BY <1>5, <1>6

LEMMA FitsMore ==
  ASSUME NEW q, IsQueue(q), NEW m, ~ReportMsg(m), NEW conn, NEW fst, NEW cache, NEW received,
         QueueFits(q, conn, fst, cache, received),
         m.msg = "StatusRequest" /\ m.current => received
  PROVE  QueueFits(Append(q, m), conn, fst, cache, received)
<1>1. PICK e : e = Append(q, m) /\ IsOneMore(q, m, e)
  BY QueueGrows
<1>2. PICK n : /\ n = Len(q) /\ n \in Nat /\ Len(e) = n + 1 /\ e[n + 1] = m
               /\ \A i \in 1..n : e[i] = q[i]
               /\ \A i \in 1..n + 1 : i \in 1..n \/ i = n + 1
  BY <1>1 DEF IsOneMore
<1>3. FirstAfter(q, fst, conn, cache) /\ (fst = "connected" => StatusAfter(q, conn, cache))
  BY DEF QueueFits
<1>4. RequestsAfter(e, received)
  BY <1>2 DEF QueueFits, RequestsAfter
<1>5. fst = "connected" => StatusAfter(e, conn, cache)
  BY <1>1, <1>3, StatusGrows DEF Connects, Disconnects
<1>6. ASSUME fst = "connected", cache = None
      PROVE  \E i \in 1..n + 1 :
               ReportMsg(e[i]) /\ e[i].up /\ \A j \in 1..n + 1 : j < i => ~ReportMsg(e[j])
  <2>1. PICK i \in 1..n : ReportMsg(q[i]) /\ q[i].up /\ \A j \in 1..n : j < i => ~ReportMsg(q[j])
    BY <1>2, <1>3, <1>6 DEF FirstAfter
  <2>2. i \in 1..n + 1 /\ \A j \in 1..n + 1 : j < i => j \in 1..n
    BY <1>2
  <2> QED BY <1>2, <2>1, <2>2
<1>7. FirstAfter(e, fst, conn, cache)
  BY <1>2, <1>3, <1>6 DEF FirstAfter
<1> QED BY <1>1, <1>4, <1>5, <1>7 DEF QueueFits

(* A message is handled *)
LEMMA StatusShrinks ==
  ASSUME NEW q, IsQueue(q), q # <<>>, NEW conn, NEW cache, StatusAfter(q, conn, cache), NEW after,
         \A t \in Bits : Cached(after, t) <=>
           Connects(Head(q), t) \/ (Cached(cache, t) /\ ~Disconnects(Head(q), t))
  PROVE  StatusAfter(Tail(q), conn, after)
<1>1. PICK e : e = Tail(q) /\ IsOneLess(q, e)
  BY QueueShrinks
<1>2. PICK n : /\ n = Len(e) /\ n \in Nat /\ Len(q) = n + 1 /\ Head(q) = q[1] /\ 1 \in 1..n + 1
               /\ \A k \in 1..n : k + 1 \in 1..n + 1 /\ e[k] = q[k + 1]
               /\ \A k \in 1..n + 1 : k # 1 => k - 1 \in 1..n /\ e[k - 1] = q[k]
  <2>1. Len(q) \in Nat \ {0} /\ Len(e) = Len(q) - 1
    BY <1>1 DEF IsOneLess
  <2>2. Len(e) \in Nat /\ Len(q) = Len(e) + 1
    BY <2>1
  <2> QED BY <1>1, <2>2 DEF IsOneLess
<1> SUFFICES ASSUME NEW t \in Bits
             PROVE  t \in conn <=>
                      \E i \in 0..n : /\ IF i = 0 THEN Cached(after, t) ELSE Connects(e[i], t)
                                      /\ \A j \in 1..n : j > i => ~Disconnects(e[j], t)
  BY <1>1, <1>2 DEF StatusAfter
<1>3. t \in conn <=>
        \E i \in 0..n + 1 : /\ IF i = 0 THEN Cached(cache, t) ELSE Connects(q[i], t)
                            /\ \A j \in 1..n + 1 : j > i => ~Disconnects(q[j], t)
  BY <1>2 DEF StatusAfter
<1>4. Cached(after, t) <=> Connects(q[1], t) \/ (Cached(cache, t) /\ ~Disconnects(q[1], t))
  BY <1>2
<1>5. ASSUME t \in conn
      PROVE  \E i \in 0..n : /\ IF i = 0 THEN Cached(after, t) ELSE Connects(e[i], t)
                             /\ \A j \in 1..n : j > i => ~Disconnects(e[j], t)
  <2>1. PICK i \in 0..n + 1 : /\ IF i = 0 THEN Cached(cache, t) ELSE Connects(q[i], t)
                              /\ \A j \in 1..n + 1 : j > i => ~Disconnects(q[j], t)
    BY <1>3, <1>5
  <2>2. CASE i \in {0, 1}
    <3>1. Cached(after, t)
      BY <1>2, <1>4, <2>1, <2>2
    <3>2. \A j \in 1..n : j + 1 > i
      BY <2>2
    <3>3. \A j \in 1..n : ~Disconnects(e[j], t)
      BY <1>2, <2>1, <3>2
    <3> QED BY <1>2, <3>1, <3>3
  <2>3. CASE i \notin {0, 1}
    <3>1. i \in 1..n + 1 /\ i # 1 /\ i - 1 # 0 /\ i - 1 \in 0..n
      BY <1>2, <2>3
    <3>2. \A j \in 1..n : j > i - 1 => j + 1 > i
      BY <1>2, <3>1
    <3>3. \A j \in 1..n : j > i - 1 => ~Disconnects(e[j], t)
      BY <1>2, <2>1, <3>2
    <3>4. Connects(e[i - 1], t)
      BY <1>2, <2>1, <3>1
    <3> QED BY <3>1, <3>3, <3>4
  <2> QED BY <2>2, <2>3
<1>6. ASSUME NEW i \in 0..n, IF i = 0 THEN Cached(after, t) ELSE Connects(e[i], t),
             \A j \in 1..n : j > i => ~Disconnects(e[j], t)
      PROVE  t \in conn
  <2>1. \A j \in 1..n + 1 : j > i + 1 => j # 1 /\ j - 1 > i
    BY <1>2
  <2>2. \A j \in 1..n + 1 : j > i + 1 => ~Disconnects(q[j], t)
    BY <1>2, <1>6, <2>1
  <2>3. i + 1 \in 0..n + 1 /\ i + 1 # 0 /\ 0 \in 0..n + 1
    BY <1>2
  <2>4. CASE i # 0 \/ Connects(q[1], t)
    <3>1. Connects(q[i + 1], t)
      BY <1>2, <1>6, <2>4
    <3> QED BY <1>3, <2>2, <2>3, <3>1
  <2>5. CASE i = 0 /\ ~Connects(q[1], t)
    <3>1. Cached(cache, t) /\ ~Disconnects(q[1], t)
      BY <1>4, <1>6, <2>5
    <3>2. \A j \in 1..n + 1 : j = 1 \/ j > i + 1
      BY <2>5
    <3>3. \A j \in 1..n + 1 : j > 0 => ~Disconnects(q[j], t)
      BY <2>2, <3>1, <3>2
    <3> QED BY <1>3, <2>3, <3>1, <3>3
  <2> QED BY <2>4, <2>5
<1> QED BY <1>5, <1>6

(* What a report makes of the cache                                        *)
Collated(m, cache, after) ==
  IF ReportMsg(m)
    THEN /\ after # None
         /\ m.up \/ cache # None => \A t \in Bits :
              Cached(after, t) <=> Connects(m, t) \/ (Cached(cache, t) /\ ~Disconnects(m, t))
    ELSE after = cache

LEMMA FitsLess ==
  ASSUME NEW q, IsQueue(q), q # <<>>, NEW conn, NEW fst, NEW cache, NEW received,
         QueueFits(q, conn, fst, cache, received),
         NEW after, Collated(Head(q), cache, after), NEW received2, received => received2
  PROVE  QueueFits(Tail(q), conn, fst, after, received2)
<1>1. PICK e : e = Tail(q) /\ IsOneLess(q, e)
  BY QueueShrinks
<1>2. PICK n : /\ n = Len(e) /\ n \in Nat /\ Len(q) = n + 1 /\ Head(q) = q[1] /\ 1 \in 1..n + 1
               /\ \A k \in 1..n : k + 1 \in 1..n + 1 /\ e[k] = q[k + 1]
               /\ \A k \in 1..n + 1 : k # 1 => k - 1 \in 1..n /\ e[k - 1] = q[k]
  <2>1. Len(q) \in Nat \ {0} /\ Len(e) = Len(q) - 1
    BY <1>1 DEF IsOneLess
  <2>2. Len(e) \in Nat /\ Len(q) = Len(e) + 1
    BY <2>1
  <2> QED BY <1>1, <2>2 DEF IsOneLess
<1>3. FirstAfter(q, fst, conn, cache) /\ (fst = "connected" => StatusAfter(q, conn, cache))
  BY DEF QueueFits
<1>4. RequestsAfter(e, received2)
  BY <1>2 DEF QueueFits, RequestsAfter
<1>5. CASE ReportMsg(q[1])
  <2>1. fst # "nothing" /\ after # None
    BY <1>2, <1>3, <1>5 DEF FirstAfter, Collated
  <2>2. FirstAfter(e, fst, conn, after)
    BY <2>1 DEF FirstAfter
  <2>3. ASSUME fst = "connected" PROVE StatusAfter(e, conn, after)
    <3>1. q[1].up \/ cache # None
      <4>1. ASSUME cache = None PROVE q[1].up
        <5>1. PICK i \in 1..n + 1 : /\ ReportMsg(q[i]) /\ q[i].up
                                    /\ \A j \in 1..n + 1 : j < i => ~ReportMsg(q[j])
          BY <1>2, <1>3, <2>3, <4>1 DEF FirstAfter
        <5>2. i = 1
          BY <1>2, <1>5, <5>1
        <5> QED BY <5>1, <5>2
      <4> QED BY <4>1
    <3>2. \A t \in Bits : Cached(after, t) <=>
            Connects(Head(q), t) \/ (Cached(cache, t) /\ ~Disconnects(Head(q), t))
      BY <1>2, <1>5, <3>1 DEF Collated
    <3> QED BY <1>1, <1>3, <2>3, <3>2, StatusShrinks
  <2> QED BY <1>1, <1>4, <2>2, <2>3 DEF QueueFits
<1>6. CASE ~ReportMsg(q[1])
  <2>1. after = cache
    BY <1>2, <1>6 DEF Collated
  <2>2. ASSUME fst = "connected", cache = None
        PROVE  \E i \in 1..n :
                 ReportMsg(e[i]) /\ e[i].up /\ \A j \in 1..n : j < i => ~ReportMsg(e[j])
    <3>1. PICK i \in 1..n + 1 : /\ ReportMsg(q[i]) /\ q[i].up
                                /\ \A j \in 1..n + 1 : j < i => ~ReportMsg(q[j])
      BY <1>2, <1>3, <2>2 DEF FirstAfter
    <3>2. i # 1
      BY <1>6, <3>1
    <3>3. i - 1 \in 1..n /\ ReportMsg(e[i - 1]) /\ e[i - 1].up
      BY <1>2, <3>1, <3>2
    <3>4. \A j \in 1..n : j < i - 1 => j + 1 < i
      BY <1>2, <3>1
    <3>5. \A j \in 1..n : j < i - 1 => ~ReportMsg(e[j])
      BY <1>2, <3>1, <3>4
    <3> QED BY <3>3, <3>5
  <2>3. FirstAfter(e, fst, conn, after)
    BY <1>2, <1>3, <2>1, <2>2 DEF FirstAfter
  <2>4. fst = "connected" => StatusAfter(e, conn, after)
    BY <1>1, <1>2, <1>3, <1>6, <2>1, StatusShrinks DEF Connects, Disconnects
  <2> QED BY <1>1, <1>4, <2>3, <2>4 DEF QueueFits
<1> QED BY <1>5, <1>6

(* What the observer's updates say, and whether it is subscribed           *)
LEMMA ValueGrows ==
  ASSUME NEW q, IsQueue(q), NEW m, NEW val, NEW cache,
         IF UpdateMsg(m) THEN m.values["network"] = cache ELSE ValueAfter(q, val, cache)
  PROVE  ValueAfter(Append(q, m), val, cache)
<1>1. PICK e : e = Append(q, m) /\ IsOneMore(q, m, e)
  BY QueueGrows
<1>2. PICK n : /\ n = Len(q) /\ n \in Nat /\ Len(e) = n + 1 /\ e[n + 1] = m
               /\ \A i \in 1..n : e[i] = q[i]
               /\ \A i \in 1..n + 1 : i \in 1..n \/ i = n + 1
  BY <1>1 DEF IsOneMore
<1>3. CASE UpdateMsg(m)
  <2>1. n + 1 \in 0..n + 1 /\ n + 1 # 0 /\ \A j \in 1..n + 1 : ~(j > n + 1)
    BY <1>2
  <2>2. UpdateMsg(e[n + 1]) /\ e[n + 1].values["network"] = cache
    BY <1>2, <1>3
  <2>3. \E i \in 0..n + 1 :
          /\ IF i = 0 THEN val = cache ELSE UpdateMsg(e[i]) /\ e[i].values["network"] = cache
          /\ \A j \in 1..n + 1 : j > i => ~UpdateMsg(e[j])
    BY <2>1, <2>2
  <2> QED BY <1>1, <1>2, <2>3 DEF ValueAfter
<1>4. CASE ~UpdateMsg(m)
  <2>1. PICK i \in 0..n :
          /\ IF i = 0 THEN val = cache ELSE UpdateMsg(q[i]) /\ q[i].values["network"] = cache
          /\ \A j \in 1..n : j > i => ~UpdateMsg(q[j])
    BY <1>2, <1>4 DEF ValueAfter
  <2>2. i \in 0..n + 1 /\ (i # 0 => i \in 1..n)
    BY <1>2
  <2>3. \A j \in 1..n + 1 : j > i => ~UpdateMsg(e[j])
    BY <1>2, <1>4, <2>1
  <2>4. IF i = 0 THEN val = cache ELSE UpdateMsg(e[i]) /\ e[i].values["network"] = cache
    BY <1>2, <2>1, <2>2
  <2>5. \E k \in 0..n + 1 :
          /\ IF k = 0 THEN val = cache ELSE UpdateMsg(e[k]) /\ e[k].values["network"] = cache
          /\ \A j \in 1..n + 1 : j > k => ~UpdateMsg(e[j])
    BY <2>2, <2>3, <2>4
  <2> QED BY <1>1, <1>2, <2>5 DEF ValueAfter
<1> QED BY <1>3, <1>4

LEMMA ValueShrinks ==
  ASSUME NEW q, IsQueue(q), q # <<>>, NEW val, NEW cache, ValueAfter(q, val, cache),
         NEW next, next = IF UpdateMsg(Head(q)) THEN Head(q).values["network"] ELSE val
  PROVE  ValueAfter(Tail(q), next, cache)
<1>1. PICK e : e = Tail(q) /\ IsOneLess(q, e)
  BY QueueShrinks
<1>2. PICK n : /\ n = Len(e) /\ n \in Nat /\ Len(q) = n + 1 /\ Head(q) = q[1] /\ 1 \in 1..n + 1
               /\ \A k \in 1..n : k + 1 \in 1..n + 1 /\ e[k] = q[k + 1]
               /\ \A k \in 1..n + 1 : k # 1 => k - 1 \in 1..n /\ e[k - 1] = q[k]
  <2>1. Len(q) \in Nat \ {0} /\ Len(e) = Len(q) - 1
    BY <1>1 DEF IsOneLess
  <2>2. Len(e) \in Nat /\ Len(q) = Len(e) + 1
    BY <2>1
  <2> QED BY <1>1, <2>2 DEF IsOneLess
<1>3. PICK i \in 0..n + 1 :
        /\ IF i = 0 THEN val = cache ELSE UpdateMsg(q[i]) /\ q[i].values["network"] = cache
        /\ \A j \in 1..n + 1 : j > i => ~UpdateMsg(q[j])
  BY <1>2 DEF ValueAfter
<1>4. \E k \in 0..n :
        /\ IF k = 0 THEN next = cache ELSE UpdateMsg(e[k]) /\ e[k].values["network"] = cache
        /\ \A j \in 1..n : j > k => ~UpdateMsg(e[j])
  <2>1. CASE i \in {0, 1}
    <3>1. next = cache
      BY <1>2, <1>3, <2>1
    <3>2. \A j \in 1..n : j + 1 > i
      BY <2>1
    <3>3. \A j \in 1..n : ~UpdateMsg(e[j])
      BY <1>2, <1>3, <3>2
    <3> QED BY <1>2, <3>1, <3>3
  <2>2. CASE i \notin {0, 1}
    <3>1. i \in 1..n + 1 /\ i # 1 /\ i - 1 # 0 /\ i - 1 \in 0..n
      BY <1>2, <2>2
    <3>2. \A j \in 1..n : j > i - 1 => j + 1 > i
      BY <1>2, <3>1
    <3>3. \A j \in 1..n : j > i - 1 => ~UpdateMsg(e[j])
      BY <1>2, <1>3, <3>2
    <3>4. UpdateMsg(e[i - 1]) /\ e[i - 1].values["network"] = cache
      BY <1>2, <1>3, <3>1
    <3> QED BY <3>1, <3>3, <3>4
  <2> QED BY <2>1, <2>2
<1> QED BY <1>1, <1>2, <1>4 DEF ValueAfter

LEMMA JoinsKept ==
  ASSUME NEW q, IsQueue(q), JoinsIn(q)
  PROVE  /\ \A m : JoinsIn(Append(q, m))
         /\ q # <<>> => XtraJoins(Head(q)) \/ JoinsIn(Tail(q))
<1>1. PICK i \in 1..Len(q) : XtraJoins(q[i])
  BY DEF JoinsIn
<1>2. \A m : JoinsIn(Append(q, m))
  <2> SUFFICES ASSUME NEW m PROVE JoinsIn(Append(q, m))
    OBVIOUS
  <2>1. PICK e : e = Append(q, m) /\ IsOneMore(q, m, e)
    BY QueueGrows
  <2>2. i \in 1..Len(e) /\ e[i] = q[i]
    BY <2>1 DEF IsOneMore
  <2> QED BY <1>1, <2>1, <2>2 DEF JoinsIn
<1>3. ASSUME q # <<>>, ~XtraJoins(Head(q)) PROVE JoinsIn(Tail(q))
  <2>1. PICK e : e = Tail(q) /\ IsOneLess(q, e)
    BY <1>3, QueueShrinks
  <2>2. i # 1
    BY <1>1, <1>3, <2>1 DEF IsOneLess
  <2>3. i - 1 \in 1..Len(e) /\ e[i - 1] = q[i]
    BY <2>1, <2>2 DEF IsOneLess
  <2> QED BY <1>1, <2>1, <2>3 DEF JoinsIn
<1> QED BY <1>2, <1>3

(* The observer has been told what the cache has, or it still has nothing. *)
NoNews ==
  XtraJoined' /\ mDataItemCache'["network"] # None =>
    XtraJoined /\ mDataItemCache'["network"] = mDataItemCache["network"]

LEMMA ServedMore ==
  ASSUME XtraServed, IsQueue(msgQ), NEW m, ~UpdateMsg(m), msgQ' = Append(msgQ, m) \/ msgQ' = msgQ,
         UNCHANGED <<mClientToDataItems, mDataItemToClients, mDataItemCache, xtraVars>>
  PROVE  XtraServed'
<1>1. PICK q : q = msgQ'
  OBVIOUS
<1>2. JoinsIn(msgQ) => JoinsIn(q)
  BY <1>1, JoinsKept
<1>3. ValueAfter(msgQ, mValues["network"], mDataItemCache["network"]) =>
        ValueAfter(q, mValues["network"], mDataItemCache["network"])
  BY <1>1, ValueGrows
<1>4. XtraJoined' <=> XtraJoined
  BY DEF XtraJoined
<1>5. XtraJoined \/ JoinsIn(q)
  BY <1>2 DEF XtraServed
<1>6. XtraJoined /\ mDataItemCache["network"] # None =>
        ValueAfter(q, mValues["network"], mDataItemCache["network"])
  BY <1>3 DEF XtraServed
<1>7. mReqStatusReceived => xtraKnows["network"] = mValues["network"]
  BY DEF XtraServed
<1>8. XtraJoined' \/ JoinsIn(msgQ')
  BY <1>1, <1>4, <1>5
<1>9. UNCHANGED <<mDataItemCache, mValues, xtraKnows, mReqStatusReceived>>
  BY DEF xtraVars
<1> QED BY <1>1, <1>4, <1>6, <1>7, <1>8, <1>9 DEF XtraServed, JoinsIn, ValueAfter

LEMMA ServedHandled ==
  ASSUME XtraServed, IsQueue(msgQ), msgQ # <<>>,
         XtraJoined \/ XtraJoins(Head(msgQ)) => XtraJoined',
         mValues'["network"] = (IF UpdateMsg(Head(msgQ)) THEN Head(msgQ).values["network"]
                                                         ELSE mValues["network"]),
         mReqStatusReceived' => xtraKnows'["network"] = mValues'["network"],
         \/ msgQ' = Tail(msgQ) /\ NoNews
         \/ \E u : /\ msgQ' = Append(Tail(msgQ), u)
                   /\ IF UpdateMsg(u) THEN u.values["network"] = mDataItemCache'["network"] ELSE NoNews
  PROVE  XtraServed'
<1>1. PICK q, val, cache, w :
        /\ q = msgQ' /\ val = mValues'["network"] /\ cache = mDataItemCache'["network"]
        /\ w = Tail(msgQ)
  OBVIOUS
<1>2. IsQueue(w)
  BY <1>1, QueueTail
<1>3. XtraJoined' \/ JoinsIn(q)
  <2>1. CASE ~XtraJoined'
    <3>1. JoinsIn(w)
      BY <1>1, <2>1, JoinsKept DEF XtraServed
    <3> QED BY <1>1, <1>2, <3>1, JoinsKept
  <2> QED BY <2>1
<1>4. ASSUME NoNews, XtraJoined', cache # None PROVE ValueAfter(w, val, cache)
  <2>1. ValueAfter(msgQ, mValues["network"], cache)
    BY <1>1, <1>4 DEF NoNews, XtraServed
  <2> QED BY <1>1, <2>1, ValueShrinks
<1>5. ASSUME XtraJoined', cache # None PROVE ValueAfter(q, val, cache)
  <2>1. CASE msgQ' = Tail(msgQ) /\ NoNews
    BY <1>1, <1>4, <1>5, <2>1
  <2>2. CASE \E u : /\ msgQ' = Append(Tail(msgQ), u)
                    /\ IF UpdateMsg(u) THEN u.values["network"] = mDataItemCache'["network"] ELSE NoNews
    <3>1. PICK u : /\ q = Append(w, u)
                   /\ IF UpdateMsg(u) THEN u.values["network"] = cache ELSE NoNews
      BY <1>1, <2>2
    <3>2. IF UpdateMsg(u) THEN u.values["network"] = cache ELSE ValueAfter(w, val, cache)
      BY <1>4, <1>5, <3>1
    <3> QED BY <1>2, <3>1, <3>2, ValueGrows
  <2> QED BY <2>1, <2>2
<1>6. XtraJoined' \/ JoinsIn(msgQ')
  BY <1>1, <1>3
<1>7. XtraJoined' /\ mDataItemCache'["network"] # None =>
        ValueAfter(msgQ', mValues'["network"], mDataItemCache'["network"])
  BY <1>1, <1>5
<1> QED BY <1>6, <1>7 DEF XtraServed, JoinsIn, ValueAfter

(* What a notification leaves in the queue for the XTRA client             *)
TellsXtra(cs, ds, cache) ==
  LET owed == /\ XTRA \in cs /\ "network" \in ds /\ cache["network"] # None
              /\ "network" \in mClientToDataItems'[XTRA]
  IN  \/ msgQ' = Tail(msgQ) /\ ~owed
      \/ \E u : /\ msgQ' = Append(Tail(msgQ), u) /\ u.msg = "XtraUpdate"
                /\ owed <=> UpdateMsg(u)
                /\ UpdateMsg(u) => u.values["network"] = cache["network"]

(* sendCachedDataItems, as far as it goes to the XTRA observer             *)
LEMMA TellXtra ==
  ASSUME NEW cs, NEW ds \in SUBSET Items, NEW cache, Tell(cs, ds, cache)
  PROVE  TellsXtra(cs, ds, cache)
<1> DEFINE cached == {d \in ds : cache[d] # None}
           both == cached \intersect mClientToDataItems'[XTRA]
           u == [msg |-> "XtraUpdate", values |-> [d \in both |-> [e \in cached |-> cache[e]][d]]]
<1>1. msgQ' = IF XTRA \in cs /\ both # {} THEN Append(Tail(msgQ), u) ELSE Tail(msgQ)
  BY DEF Tell
<1>2. \A d \in both : [e \in cached |-> cache[e]][d] = cache[d]
  OBVIOUS
<1>3. u.msg = "XtraUpdate" /\ u.values = [d \in both |-> [e \in cached |-> cache[e]][d]]
  OBVIOUS
<1> HIDE DEF u
<1>4. UpdateMsg(u) <=> "network" \in both
  BY <1>3 DEF UpdateMsg
<1>5. UpdateMsg(u) => u.values["network"] = cache["network"]
  BY <1>2, <1>3, <1>4
<1>6. /\ "network" \in both <=> /\ "network" \in ds /\ cache["network"] # None
                                /\ "network" \in mClientToDataItems'[XTRA]
      /\ "network" \in both => both # {}
  OBVIOUS
<1> HIDE DEF both
<1>7. CASE XTRA \in cs /\ both # {}
  BY <1>1, <1>3, <1>4, <1>5, <1>6, <1>7 DEF TellsXtra
<1>8. CASE ~(XTRA \in cs /\ both # {})
  BY <1>1, <1>6, <1>8 DEF TellsXtra
<1> QED BY <1>7, <1>8 DEF TellsXtra

(* The steps of the observer                                               *)
LEMMA XtraInputStep ==
  ASSUME XtraInv, IsQueue(msgQ), NEW m, ~ReportMsg(m), ~UpdateMsg(m),
         m.msg = "StatusRequest" /\ m.current => mReqStatusReceived,
         msgQ' = Append(msgQ, m) \/ msgQ' = msgQ,
         UNCHANGED <<mClientToDataItems, mDataItemToClients, mDataItemCache, worldVars, xtraVars>>
  PROVE  XtraInv'
<1>1. XtraServed'
  BY ServedMore DEF XtraInv
<1>2. XtraTypeOK'
  BY DEF XtraInv, XtraTypeOK, worldVars, xtraVars
<1>3. PICK q : q = msgQ'
  OBVIOUS
<1>4. QueueFits(q, connected, first, mDataItemCache["network"], mReqStatusReceived)
  BY <1>3, FitsMore DEF XtraInv
<1>5. UNCHANGED <<connected, first, mDataItemCache, mReqStatusReceived>>
  BY DEF worldVars, xtraVars
<1>6. QueueFits(msgQ, connected, first, mDataItemCache["network"], mReqStatusReceived)'
  BY <1>3, <1>4, <1>5 DEF QueueFits, FirstAfter, StatusAfter, RequestsAfter
<1> QED BY <1>1, <1>2, <1>6 DEF XtraInv

LEMMA XtraReportStep ==
  ASSUME XtraInv, IsQueue(msgQ), NEW type \in Types \union {TypeUnknown}, NEW up \in BOOLEAN,
         eventConnectionStatus(type, up)
  PROVE  XtraInv'
<1>1. PICK m : m = [msg |-> "Notify", item |-> "network", type |-> type, up |-> up]
  OBVIOUS
<1>2. m.msg = "Notify" /\ m.item = "network" /\ m.type = type /\ m.up = up
  BY <1>1
<1>3. /\ msgQ' = Append(msgQ, m)
      /\ connected' = IF up THEN connected \union ({type} \ {TypeUnknown})
                      ELSE IF type = TypeUnknown THEN {} ELSE connected \ {type}
      /\ first' = IF first # "nothing" THEN first ELSE IF up THEN "connected" ELSE "disconnected"
      /\ UNCHANGED <<mClientToDataItems, mDataItemToClients, mDataItemCache, xtraVars>>
  BY <1>1 DEF eventConnectionStatus, Input, mapVars
<1>4. XtraServed'
  <2>1. ~UpdateMsg(m)
    BY <1>2 DEF UpdateMsg
  <2> QED BY <1>3, <2>1, ServedMore DEF XtraInv
<1>5. XtraTypeOK'
  BY <1>3 DEF XtraInv, XtraTypeOK, xtraVars, Bits
<1>6. PICK q, conn, fst : q = msgQ' /\ conn = connected' /\ fst = first'
  OBVIOUS
<1>7. QueueFits(q, conn, fst, mDataItemCache["network"], mReqStatusReceived)
  <2>1. ReportMsg(m)
    BY <1>2 DEF ReportMsg
  <2>2. \A t \in Bits : t \in conn <=> Connects(m, t) \/ (t \in connected /\ ~Disconnects(m, t))
    BY <1>2, <1>3, <1>6, <2>1 DEF Connects, Disconnects, Bits
  <2>3. fst = IF first # "nothing" THEN first ELSE IF m.up THEN "connected" ELSE "disconnected"
    BY <1>2, <1>3, <1>6
  <2> QED BY <1>3, <1>6, <2>1, <2>2, <2>3, FitsReport DEF XtraInv
<1>8. UNCHANGED <<mDataItemCache, mReqStatusReceived>>
  BY <1>3 DEF xtraVars
<1>9. QueueFits(msgQ, connected, first, mDataItemCache["network"], mReqStatusReceived)'
  BY <1>6, <1>7, <1>8 DEF QueueFits, FirstAfter, StatusAfter, RequestsAfter
<1> QED BY <1>4, <1>5, <1>9 DEF XtraInv

LEMMA XtraHandled ==
  ASSUME XtraInv, IsQueue(msgQ), msgQ # <<>>, UNCHANGED worldVars,
         Collated(Head(msgQ), mDataItemCache["network"], mDataItemCache'["network"]),
         mReqStatusReceived => mReqStatusReceived', XtraTypeOK', XtraServed',
         \/ msgQ' = Tail(msgQ)
         \/ \E u : msgQ' = Append(Tail(msgQ), u) /\ u.msg \notin {"Notify", "StatusRequest"}
  PROVE  XtraInv'
<1>1. PICK q, w, cache, received : /\ q = msgQ' /\ w = Tail(msgQ) /\ cache = mDataItemCache'["network"]
                                   /\ received = mReqStatusReceived'
  OBVIOUS
<1>2. QueueFits(w, connected, first, cache, received) /\ IsQueue(w)
  <2>1. QueueFits(msgQ, connected, first, mDataItemCache["network"], mReqStatusReceived)
    BY DEF XtraInv
  <2> QED BY <1>1, <2>1, FitsLess, QueueTail
<1>3. QueueFits(q, connected, first, cache, received)
  <2>1. CASE \E u : msgQ' = Append(Tail(msgQ), u) /\ u.msg \notin {"Notify", "StatusRequest"}
    <3>1. PICK u : q = Append(w, u) /\ u.msg \notin {"Notify", "StatusRequest"}
      BY <1>1, <2>1
    <3>2. ~ReportMsg(u) /\ (u.msg = "StatusRequest" /\ u.current => received)
      BY <3>1 DEF ReportMsg
    <3> QED BY <1>2, <3>1, <3>2, FitsMore
  <2> QED BY <1>1, <1>2, <2>1
<1>4. UNCHANGED <<connected, first>>
  BY DEF worldVars
<1>5. QueueFits(msgQ, connected, first, mDataItemCache["network"], mReqStatusReceived)'
  BY <1>1, <1>3, <1>4 DEF QueueFits, FirstAfter, StatusAfter, RequestsAfter
<1> QED BY <1>5 DEF XtraInv

LEMMA XtraPlainHandled ==
  ASSUME XtraInv, IsQueue(msgQ), msgQ # <<>>,
         Head(msgQ).msg \notin {"Notify", "XtraUpdate", "StatusRequest"},
         UNCHANGED <<mDataItemCache, worldVars, xtraVars>>,
         XtraJoined \/ XtraJoins(Head(msgQ)) => XtraJoined',
         \/ msgQ' = Tail(msgQ) /\ NoNews
         \/ \E u : /\ msgQ' = Append(Tail(msgQ), u) /\ u.msg \notin {"Notify", "StatusRequest"}
                   /\ IF UpdateMsg(u) THEN u.values["network"] = mDataItemCache'["network"] ELSE NoNews
  PROVE  XtraInv'
<1>1. ~UpdateMsg(Head(msgQ)) /\ ~ReportMsg(Head(msgQ))
  BY DEF UpdateMsg, ReportMsg
<1>2. UNCHANGED <<mDataItemCache, mReqStatusReceived, mValues, xtraKnows, connected, first>>
  BY DEF xtraVars, worldVars
<1>3. XtraServed'
  <2>1. XtraServed /\ (mReqStatusReceived' => xtraKnows'["network"] = mValues'["network"])
    BY <1>2 DEF XtraInv, XtraServed
  <2>2. mValues'["network"] = IF UpdateMsg(Head(msgQ)) THEN Head(msgQ).values["network"]
                                                       ELSE mValues["network"]
    BY <1>1, <1>2
  <2>3. \/ msgQ' = Tail(msgQ) /\ NoNews
        \/ \E u : /\ msgQ' = Append(Tail(msgQ), u)
                  /\ IF UpdateMsg(u) THEN u.values["network"] = mDataItemCache'["network"] ELSE NoNews
    OBVIOUS
  <2> QED BY <2>1, <2>2, <2>3, ServedHandled
<1>4. XtraTypeOK'
  BY <1>2 DEF XtraInv, XtraTypeOK
<1>5. Collated(Head(msgQ), mDataItemCache["network"], mDataItemCache'["network"])
  BY <1>1, <1>2 DEF Collated
<1> QED BY <1>2, <1>3, <1>4, <1>5, XtraHandled

LEMMA XtraSubscribeStep ==
  ASSUME XtraInv, ObserverTypeOK, ObserverQueueOK, HandleSubscribeReq
  PROVE  XtraInv'
<1>1. PICK m, ds, c : m = Head(msgQ) /\ c = m.client /\ ds = m.items
  OBVIOUS
<1>2. /\ IsQueue(msgQ) /\ msgQ # <<>> /\ m.msg = "Subscribe"
      /\ c \in ObserverClients /\ ds \in SUBSET Items
  BY <1>1, ObserverTail DEF HandleSubscribeReq, Next1, ObserverMsgOK, ObserverQueueOK
<1>3. /\ mClientToDataItems' = [mClientToDataItems EXCEPT ![c] = @ \union ds]
      /\ mDataItemToClients' = [d \in Items |-> IF d \in ds THEN mDataItemToClients[d] \union {c}
                                                ELSE mDataItemToClients[d]]
      /\ Tell({c}, ds, mDataItemCache)
      /\ UNCHANGED <<mDataItemCache, worldVars, xtraVars>>
  BY <1>1 DEF HandleSubscribeReq, AddSubscription, Enter
<1>4. /\ "network" \in Items /\ XTRA \in ObserverClients
      /\ mClientToDataItems'[XTRA] = IF c = XTRA THEN mClientToDataItems[XTRA] \union ds
                                                 ELSE mClientToDataItems[XTRA]
      /\ mDataItemToClients'["network"] = IF "network" \in ds
           THEN mDataItemToClients["network"] \union {c} ELSE mDataItemToClients["network"]
  BY <1>2, <1>3 DEF ObserverTypeOK, ObserverClients, Items, XtraItems
<1>5. XtraJoins(m) <=> c = XTRA /\ "network" \in ds
  BY <1>1, <1>2 DEF XtraJoins
<1>6. XtraJoined \/ XtraJoins(m) => XtraJoined'
  BY <1>4, <1>5 DEF XtraJoined
<1>7. \/ msgQ' = Tail(msgQ) /\ NoNews
      \/ \E u : /\ msgQ' = Append(Tail(msgQ), u) /\ u.msg \notin {"Notify", "StatusRequest"}
                /\ IF UpdateMsg(u) THEN u.values["network"] = mDataItemCache'["network"] ELSE NoNews
  <2>1. \/ /\ msgQ' = Tail(msgQ)
           /\ ~(/\ XTRA \in {c} /\ "network" \in ds /\ mDataItemCache["network"] # None
                /\ "network" \in mClientToDataItems'[XTRA])
        \/ \E u : /\ msgQ' = Append(Tail(msgQ), u) /\ u.msg = "XtraUpdate"
                  /\ (/\ XTRA \in {c} /\ "network" \in ds /\ mDataItemCache["network"] # None
                      /\ "network" \in mClientToDataItems'[XTRA]) <=> UpdateMsg(u)
                  /\ UpdateMsg(u) => u.values["network"] = mDataItemCache["network"]
    <3>1. Tell({c}, ds, mDataItemCache)
      BY <1>3
    <3>2. TellsXtra({c}, ds, mDataItemCache)
      BY ONLY <1>2, <3>1, TellXtra
    <3> QED BY <3>2 DEF TellsXtra
  <2>2. ASSUME ~(/\ XTRA \in {c} /\ "network" \in ds /\ mDataItemCache["network"] # None
                 /\ "network" \in mClientToDataItems'[XTRA])
        PROVE  NoNews
    BY <1>3, <1>4, <2>2 DEF NoNews, XtraJoined
  <2> QED BY <1>3, <2>1, <2>2
<1> QED BY <1>1, <1>2, <1>3, <1>6, <1>7, XtraPlainHandled

LEMMA XtraOthersHandled ==
  ASSUME XtraInv, ObserverTypeOK, ObserverQueueOK,
         HandleUnsubscribeReq \/ HandleUpdateSubscriptionReq \/ SetSubsObj \/ HandleTurnOnMsg
           \/ HandleTurnOffMsg
  PROVE  XtraInv'
<1>1. PICK m, c : m = Head(msgQ) /\ c = m.client
  OBVIOUS
<1>2. /\ IsQueue(msgQ) /\ msgQ # <<>>
      /\ m.msg \in {"Unsubscribe", "UpdateSubscription", "SetSubsObj", "TurnOn", "TurnOff"}
      /\ m.msg \in {"Unsubscribe", "UpdateSubscription"} => c # XTRA
      /\ UNCHANGED <<mDataItemCache, worldVars, xtraVars>>
  BY <1>1, ObserverTail, TypesAssumption
     DEF ObserverQueueOK, ObserverMsgOK, HandleUnsubscribeReq, HandleUpdateSubscriptionReq,
         SetSubsObj, HandleTurnOnMsg, HandleTurnOffMsg, Next1
<1>3. "network" \in Items /\ XTRA \in ObserverClients
  BY DEF Items, XtraItems, ObserverClients
<1>4. XtraJoined' <=> XtraJoined
  <2>1. CASE HandleUnsubscribeReq
    <3>1. DropSubscription(c, m.items) /\ c # XTRA
      BY <1>1, <1>2, <2>1 DEF HandleUnsubscribeReq, Next1
    <3> QED BY <1>3, <3>1 DEF DropSubscription, XtraJoined, ObserverTypeOK
  <2>2. CASE HandleUpdateSubscriptionReq
    <3>1. c # XTRA
      BY <1>1, <1>2, <2>2 DEF HandleUpdateSubscriptionReq, Next1
    <3>a. PICK gone \in Returned(Head(msgQ).client, Head(msgQ).items) :
            /\ mClientToDataItems' = [mClientToDataItems EXCEPT ![Head(msgQ).client] = Head(msgQ).items]
            /\ mDataItemToClients' = [d \in Items |->
                 CASE d \in gone -> mDataItemToClients[d] \ {Head(msgQ).client}
                   [] d \in Head(msgQ).items \ gone -> mDataItemToClients[d] \union {Head(msgQ).client}
                   [] OTHER -> mDataItemToClients[d]]
      BY <2>2 DEF HandleUpdateSubscriptionReq
    <3>2. PICK ds :
            /\ mClientToDataItems' = [mClientToDataItems EXCEPT ![c] = ds]
            /\ mDataItemToClients' = [d \in Items |->
                 CASE d \in gone -> mDataItemToClients[d] \ {c}
                   [] d \in ds \ gone -> mDataItemToClients[d] \union {c}
                   [] OTHER -> mDataItemToClients[d]]
      BY <1>1, <3>a
    <3>3. XTRA \in mDataItemToClients'["network"] <=> XTRA \in mDataItemToClients["network"]
      BY <1>3, <3>1, <3>2
    <3>4. mClientToDataItems'[XTRA] = mClientToDataItems[XTRA]
      BY <1>3, <3>1, <3>2 DEF ObserverTypeOK
    <3> QED BY <3>3, <3>4 DEF XtraJoined
  <2>3. CASE SetSubsObj \/ HandleTurnOnMsg \/ HandleTurnOffMsg
    BY <2>3 DEF SetSubsObj, HandleTurnOnMsg, HandleTurnOffMsg, mapVars, XtraJoined
  <2> QED BY <2>1, <2>2, <2>3, ObserverTail, TypesAssumption
<1>5. NoNews /\ (XtraJoined \/ XtraJoins(m) => XtraJoined')
  BY <1>2, <1>4 DEF NoNews, XtraJoins
<1>6. \/ msgQ' = Tail(msgQ)
      \/ \E u : msgQ' = Append(Tail(msgQ), u) /\ u.msg \in {"TurnOn", "XtraUpdate"}
                /\ (UpdateMsg(u) => u.values["network"] = mDataItemCache'["network"])
  <2>1. CASE HandleUnsubscribeReq \/ SetSubsObj \/ HandleTurnOffMsg
    BY <2>1 DEF HandleUnsubscribeReq, SetSubsObj, HandleTurnOffMsg
  <2>2. CASE HandleTurnOnMsg
    <3>1. [msg |-> "TurnOn"].msg = "TurnOn"
      OBVIOUS
    <3>2. ~UpdateMsg([msg |-> "TurnOn"])
      BY DEF UpdateMsg
    <3> QED BY <2>2, <3>1, <3>2 DEF HandleTurnOnMsg
  <2>3. CASE HandleUpdateSubscriptionReq
    <3>1. PICK gone : Tell({c}, m.items \ gone, mDataItemCache)
      <4>1. \E g : Tell({Head(msgQ).client}, Head(msgQ).items \ g, mDataItemCache)
        BY <2>3 DEF HandleUpdateSubscriptionReq
      <4> QED BY <1>1, <4>1
    <3>2. m.items \subseteq Items
      BY <1>1, <2>3, ObserverTail DEF ObserverMsgOK, HandleUpdateSubscriptionReq, Next1
    <3>3. m.items \ gone \in SUBSET Items /\ mDataItemCache' = mDataItemCache
      BY <1>2, <3>2
    <3>4. PICK cs, ds : cs = {c} /\ ds = m.items \ gone
      OBVIOUS
    <3>5. Tell(cs, ds, mDataItemCache) /\ ds \in SUBSET Items
      BY <3>1, <3>3, <3>4
    <3>6. \/ msgQ' = Tail(msgQ)
          \/ \E u : /\ msgQ' = Append(Tail(msgQ), u) /\ u.msg = "XtraUpdate"
                    /\ UpdateMsg(u) => u.values["network"] = mDataItemCache["network"]
      <4>1. \/ /\ msgQ' = Tail(msgQ)
               /\ ~(/\ XTRA \in cs /\ "network" \in ds /\ mDataItemCache["network"] # None
                    /\ "network" \in mClientToDataItems'[XTRA])
            \/ \E u : /\ msgQ' = Append(Tail(msgQ), u) /\ u.msg = "XtraUpdate"
                      /\ (/\ XTRA \in cs /\ "network" \in ds /\ mDataItemCache["network"] # None
                          /\ "network" \in mClientToDataItems'[XTRA]) <=> UpdateMsg(u)
                      /\ UpdateMsg(u) => u.values["network"] = mDataItemCache["network"]
        BY <3>5, TellXtra DEF TellsXtra
      <4> QED BY <4>1
    <3> QED BY <3>3, <3>6
  <2> QED BY <2>1, <2>2, <2>3
<1>7. \/ msgQ' = Tail(msgQ) /\ NoNews
      \/ \E u : /\ msgQ' = Append(Tail(msgQ), u) /\ u.msg \notin {"Notify", "StatusRequest"}
                /\ IF UpdateMsg(u) THEN u.values["network"] = mDataItemCache'["network"] ELSE NoNews
  BY <1>5, <1>6
<1> QED BY <1>1, <1>2, <1>5, <1>7, XtraPlainHandled

LEMMA XtraNotifyStep ==
  ASSUME XtraInv, ObserverTypeOK, ObserverQueueOK, HandleNotify
  PROVE  XtraInv'
<1> DEFINE value == IF Head(msgQ).item = "network" THEN collate(Head(msgQ)) ELSE Head(msgQ).value
<1>1. PICK m, last, v : m = Head(msgQ) /\ last = mDataItemCache["network"] /\ v = value
  OBVIOUS
<1>2. /\ IsQueue(msgQ) /\ msgQ # <<>> /\ m.msg = "Notify" /\ m.item \in Items
      /\ m.item = "network" => m.type \in Types \union {TypeUnknown} /\ m.up \in BOOLEAN
  BY <1>1, ObserverTail DEF HandleNotify, Next1, ObserverMsgOK, ObserverQueueOK, Items, XtraItems
<1>3. /\ mDataItemCache' = [mDataItemCache EXCEPT ![m.item] = v]
      /\ IF v # mDataItemCache[m.item]
           THEN Tell(mDataItemToClients[m.item], {m.item}, mDataItemCache')
           ELSE msgQ' = Tail(msgQ)
      /\ UNCHANGED <<mClientToDataItems, mDataItemToClients, worldVars, xtraVars>>
  BY <1>1 DEF HandleNotify, updateCache, eventDataItemNotify
<1>4. m.item = "network" => v = CASE last = None -> {m.type} \ {TypeUnknown}
                                  [] last # None /\ m.up -> last \union ({m.type} \ {TypeUnknown})
                                  [] last # None /\ ~m.up /\ {m.type} \ {TypeUnknown} # {} ->
                                       last \ ({m.type} \ {TypeUnknown})
                                  [] OTHER -> {}
  BY <1>1 DEF collate
<1> HIDE DEF value
<1>5. /\ mDataItemCache'["network"] = IF m.item = "network" THEN v ELSE last
      /\ DOMAIN mDataItemCache' = Items /\ "network" \in Items /\ XTRA \in ObserverClients
  BY <1>1, <1>2, <1>3 DEF ObserverTypeOK, Items, XtraItems, ObserverClients
<1>6. connected \subseteq Bits /\ (last = None \/ last \subseteq Bits)
  BY <1>1 DEF XtraInv, XtraTypeOK
<1>7. m.item = "network" => v \subseteq Bits /\ v # None
  <2>1. m.item = "network" => v \subseteq Bits
    BY <1>2, <1>4, <1>6 DEF Bits
  <2>2. None \notin SUBSET Bits
    BY TypesAssumption DEF None, Bits
  <2> QED BY <2>1, <2>2
<1>8. Collated(m, last, mDataItemCache'["network"])
  <2>1. CASE m.item = "network"
    <3>1. ReportMsg(m) /\ mDataItemCache'["network"] = v
      BY <1>2, <1>5, <2>1 DEF ReportMsg
    <3>2. ASSUME m.up \/ last # None, NEW t \in Bits
          PROVE  Cached(v, t) <=> Connects(m, t) \/ (Cached(last, t) /\ ~Disconnects(m, t))
      <4>1. t # TypeUnknown /\ (Cached(v, t) <=> t \in v)
        BY <1>7, <2>1 DEF Bits, Cached
      <4>2. Connects(m, t) <=> m.up /\ m.type = t
        BY <3>1 DEF Connects
      <4>3. Disconnects(m, t) <=> ~m.up /\ m.type \in {t, TypeUnknown}
        BY <3>1 DEF Disconnects
      <4>4. CASE last = None
        BY <1>4, <2>1, <3>2, <4>1, <4>2, <4>4 DEF Cached
      <4>5. CASE last # None /\ m.up
        BY <1>4, <2>1, <4>1, <4>2, <4>3, <4>5 DEF Cached
      <4>6. CASE last # None /\ ~m.up /\ m.type # TypeUnknown
        BY <1>4, <2>1, <4>1, <4>2, <4>3, <4>6 DEF Cached
      <4>7. CASE last # None /\ ~m.up /\ m.type = TypeUnknown
        BY <1>4, <2>1, <4>1, <4>2, <4>3, <4>7 DEF Cached
      <4> QED BY <4>4, <4>5, <4>6, <4>7
    <3> QED BY <1>7, <2>1, <3>1, <3>2 DEF Collated
  <2>2. CASE m.item # "network"
    BY <1>5, <2>2 DEF Collated, ReportMsg
  <2> QED BY <2>1, <2>2
<1>9. \/ msgQ' = Tail(msgQ) /\ NoNews
      \/ \E u : /\ msgQ' = Append(Tail(msgQ), u) /\ u.msg = "XtraUpdate"
                /\ IF UpdateMsg(u) THEN u.values["network"] = mDataItemCache'["network"] ELSE NoNews
  <2>1. XtraJoined' <=> XtraJoined
    BY <1>3 DEF XtraJoined
  <2>2. CASE v = mDataItemCache[m.item]
    <3>1. mDataItemCache'["network"] = last
      BY <1>1, <1>5, <2>2
    <3> QED BY <1>1, <1>3, <2>1, <2>2, <3>1 DEF NoNews
  <2>3. CASE v # mDataItemCache[m.item]
    <3>1. PICK cs, ds, cache :
            cs = mDataItemToClients[m.item] /\ ds = {m.item} /\ cache = mDataItemCache'
      OBVIOUS
    <3>2. Tell(cs, ds, cache) /\ ds \in SUBSET Items
      BY <1>2, <1>3, <2>3, <3>1
    <3>3. \/ /\ msgQ' = Tail(msgQ)
             /\ ~(/\ XTRA \in cs /\ "network" \in ds /\ cache["network"] # None
                  /\ "network" \in mClientToDataItems'[XTRA])
          \/ \E u : /\ msgQ' = Append(Tail(msgQ), u) /\ u.msg = "XtraUpdate"
                    /\ (/\ XTRA \in cs /\ "network" \in ds /\ cache["network"] # None
                        /\ "network" \in mClientToDataItems'[XTRA]) <=> UpdateMsg(u)
                    /\ UpdateMsg(u) => u.values["network"] = cache["network"]
      BY <3>2, TellXtra DEF TellsXtra
    <3>4. ASSUME ~(/\ XTRA \in cs /\ "network" \in ds /\ cache["network"] # None
                   /\ "network" \in mClientToDataItems'[XTRA])
          PROVE  NoNews
      <4>1. CASE m.item = "network"
        BY <1>3, <2>1, <3>1, <3>4, <4>1 DEF NoNews, XtraJoined
      <4>2. CASE m.item # "network"
        BY <1>1, <1>5, <2>1, <4>2 DEF NoNews
      <4> QED BY <4>1, <4>2
    <3> QED BY <3>1, <3>3, <3>4
  <2> QED BY <2>2, <2>3
<1>10. UNCHANGED <<connected, first, mReqStatusReceived, mValues, xtraKnows>>
  BY <1>3 DEF worldVars, xtraVars
<1>11. XtraTypeOK'
  BY <1>1, <1>5, <1>6, <1>7, <1>10 DEF XtraInv, XtraTypeOK
<1>12. XtraServed'
  <2>1. ~UpdateMsg(m) /\ ~XtraJoins(m)
    BY <1>2 DEF UpdateMsg, XtraJoins
  <2>2. XtraServed /\ (mReqStatusReceived' => xtraKnows'["network"] = mValues'["network"])
    BY <1>10 DEF XtraInv, XtraServed
  <2>3. XtraJoined \/ XtraJoins(Head(msgQ)) => XtraJoined'
    BY <1>1, <1>3, <2>1 DEF XtraJoined
  <2>4. mValues'["network"] = IF UpdateMsg(Head(msgQ)) THEN Head(msgQ).values["network"]
                                                       ELSE mValues["network"]
    BY <1>1, <1>10, <2>1
  <2>5. \/ msgQ' = Tail(msgQ) /\ NoNews
        \/ \E u : /\ msgQ' = Append(Tail(msgQ), u)
                  /\ IF UpdateMsg(u) THEN u.values["network"] = mDataItemCache'["network"] ELSE NoNews
    BY <1>9
  <2> QED BY <1>2, <2>2, <2>3, <2>4, <2>5, ServedHandled
<1>13. \/ msgQ' = Tail(msgQ)
       \/ \E u : msgQ' = Append(Tail(msgQ), u) /\ u.msg \notin {"Notify", "StatusRequest"}
  BY <1>9
<1> QED BY <1>1, <1>2, <1>3, <1>8, <1>10, <1>11, <1>12, <1>13, XtraHandled

LEMMA XtraUpdateStep ==
  ASSUME XtraInv, ObserverQueueOK, HandleOsObserverUpdateMsg
  PROVE  XtraInv'
<1>1. PICK m, vs : m = Head(msgQ) /\ vs = m.values
  OBVIOUS
<1>2. /\ IsQueue(msgQ) /\ msgQ # <<>> /\ m.msg = "XtraUpdate" /\ msgQ' = Tail(msgQ)
      /\ UNCHANGED <<mClientToDataItems, mDataItemToClients, mDataItemCache, worldVars,
                     mReqStatusReceived>>
      /\ mValues' = [d \in XtraItems |-> IF d \in DOMAIN vs THEN vs[d] ELSE mValues[d]]
      /\ xtraKnows' = IF mReqStatusReceived
                      THEN [d \in XtraItems |-> IF d \in DOMAIN vs THEN vs[d] ELSE xtraKnows[d]]
                      ELSE xtraKnows
  BY <1>1 DEF ObserverQueueOK, HandleOsObserverUpdateMsg, Next1, mapVars
<1>3. "network" \in XtraItems /\ ~ReportMsg(m) /\ ~XtraJoins(m)
      /\ (UpdateMsg(m) <=> "network" \in DOMAIN vs)
  BY <1>1, <1>2 DEF XtraItems, ReportMsg, XtraJoins, UpdateMsg
<1>4. XtraTypeOK'
  BY <1>2 DEF XtraInv, XtraTypeOK, worldVars
<1>5. mValues'["network"] = IF UpdateMsg(m) THEN m.values["network"] ELSE mValues["network"]
  BY <1>1, <1>2, <1>3
<1>6. mReqStatusReceived' => xtraKnows'["network"] = mValues'["network"]
  BY <1>2, <1>3 DEF XtraInv, XtraServed
<1>7. NoNews /\ (XtraJoined \/ XtraJoins(m) => XtraJoined')
  BY <1>2, <1>3 DEF NoNews, XtraJoined
<1>8. XtraServed'
  BY <1>1, <1>2, <1>5, <1>6, <1>7, ServedHandled DEF XtraInv
<1>9. Collated(Head(msgQ), mDataItemCache["network"], mDataItemCache'["network"])
  BY <1>1, <1>2, <1>3 DEF Collated
<1> QED BY <1>2, <1>4, <1>8, <1>9, XtraHandled

LEMMA XtraRequestStep ==
  ASSUME XtraInv, ObserverQueueOK, HandleStatusRequestMsg
  PROVE  XtraInv'
<1>1. PICK m : m = Head(msgQ)
  OBVIOUS
<1>2. /\ IsQueue(msgQ) /\ msgQ # <<>> /\ m.msg = "StatusRequest" /\ msgQ' = Tail(msgQ)
      /\ UNCHANGED <<mClientToDataItems, mDataItemToClients, mDataItemCache, worldVars, mValues>>
      /\ mReqStatusReceived'
      /\ xtraKnows' = IF m.current THEN xtraKnows ELSE mValues
  BY <1>1 DEF ObserverQueueOK, HandleStatusRequestMsg, onStatusRequested, Next1, mapVars
<1>3. ~ReportMsg(m) /\ ~XtraJoins(m) /\ ~UpdateMsg(m)
  BY <1>2 DEF ReportMsg, XtraJoins, UpdateMsg
<1>4. XtraTypeOK'
  BY <1>2 DEF XtraInv, XtraTypeOK, worldVars
<1>5. m.current => mReqStatusReceived
  BY <1>1, <1>2, QueueShrinks DEF XtraInv, QueueFits, RequestsAfter, IsOneLess
<1>6. mReqStatusReceived' => xtraKnows'["network"] = mValues'["network"]
  BY <1>2, <1>5 DEF XtraInv, XtraServed
<1>7. NoNews /\ (XtraJoined \/ XtraJoins(m) => XtraJoined')
  BY <1>2, <1>3 DEF NoNews, XtraJoined
<1>8. XtraServed'
  BY <1>1, <1>2, <1>3, <1>6, <1>7, ServedHandled DEF XtraInv
<1>9. Collated(Head(msgQ), mDataItemCache["network"], mDataItemCache'["network"])
  BY <1>1, <1>2, <1>3 DEF Collated
<1> QED BY <1>2, <1>4, <1>8, <1>9, XtraHandled

LEMMA XtraStep == XtraInv /\ ObserverTypeOK /\ ObserverQueueOK /\ ObserverNext => XtraInv'
<1> SUFFICES ASSUME XtraInv, ObserverTypeOK, ObserverQueueOK, ObserverNext PROVE XtraInv'
  OBVIOUS
<1>0. IsQueue(msgQ)
  BY DEF ObserverQueueOK
<1>1. CASE \E t \in Types \union {TypeUnknown}, up \in BOOLEAN : eventConnectionStatus(t, up)
  BY <1>0, <1>1, XtraReportStep
<1>2. CASE \/ notify("tac", {"t1"}) \/ notify("airplane", {"a1"})
           \/ setSubscriptionObj \/ setFrameworkActionReqObj
           \/ \E c \in Observers, ds \in ItemSets :
                \/ \E toRequestData \in BOOLEAN : subscribe(c, ds, toRequestData)
                \/ unsubscribe(c, ds) \/ updateSubscription(c, ds)
           \/ \E c \in Observers : unsubscribeAll(c)
           \/ \E current \in BOOLEAN : onReceive(current)
           \/ turnOn \/ turnOff
  <2>1. UNCHANGED <<mClientToDataItems, mDataItemToClients, mDataItemCache, worldVars, xtraVars>>
    BY <1>2 DEF notify, setSubscriptionObj, setFrameworkActionReqObj, subscribe, unsubscribe,
                unsubscribeAll, updateSubscription, onReceive, turnOn, turnOff, observerVars, mapVars,
                worldVars, xtraVars
  <2> DEFINE Sent == \E m : /\ msgQ' = Append(msgQ, m) \/ msgQ' = msgQ
                            /\ ~ReportMsg(m) /\ ~UpdateMsg(m)
                            /\ m.msg = "StatusRequest" /\ m.current => mReqStatusReceived
  <2>2. Sent
    <3>1. ASSUME NEW m, msgQ' = Append(msgQ, m) \/ msgQ' = msgQ,
                 m.msg \in {"SetSubsObj", "Subscribe", "Unsubscribe", "UpdateSubscription",
                            "TurnOn", "TurnOff"}
          PROVE  Sent
      BY <3>1 DEF ReportMsg, UpdateMsg
    <3>2. ASSUME NEW d \in {"tac", "airplane"}, NEW v, notify(d, v) PROVE Sent
      <4>1. PICK m : m = [msg |-> "Notify", item |-> d, value |-> v]
        OBVIOUS
      <4>2. m.msg = "Notify" /\ m.item = d /\ msgQ' = Append(msgQ, m)
        BY <3>2, <4>1 DEF notify, Input
      <4> QED BY <4>2 DEF ReportMsg, UpdateMsg
    <3>3. CASE setSubscriptionObj
      <4>1. [msg |-> "SetSubsObj"].msg = "SetSubsObj"
        OBVIOUS
      <4> QED BY <3>1, <3>3, <4>1 DEF setSubscriptionObj, Input
    <3>4. ASSUME NEW c, NEW ds, unsubscribe(c, ds) \/ updateSubscription(c, ds) PROVE Sent
      <4>1. PICK kind \in {"Unsubscribe", "UpdateSubscription"} :
              msgQ' = Append(msgQ, [msg |-> kind, client |-> c, items |-> ds])
        BY <3>4 DEF unsubscribe, updateSubscription, Input
      <4>2. [msg |-> kind, client |-> c, items |-> ds].msg = kind
        OBVIOUS
      <4> QED BY <3>1, <4>1, <4>2
    <3>7. ASSUME NEW c, NEW ds, NEW r, subscribe(c, ds, r) PROVE Sent
      <4>1. SubscribeMsg(c, ds, r).msg = "Subscribe"
        BY DEF SubscribeMsg
      <4> QED BY <3>1, <3>7, <4>1 DEF subscribe, Input
    <3>8. ASSUME NEW c, unsubscribeAll(c) PROVE Sent
      BY <3>4, <3>8 DEF unsubscribeAll
    <3>5. ASSUME NEW current \in BOOLEAN, onReceive(current) PROVE Sent
      <4>1. PICK m : m = [msg |-> "StatusRequest", current |-> current]
        OBVIOUS
      <4>2. m.msg = "StatusRequest" /\ m.current = current /\ msgQ' = Append(msgQ, m)
        BY <3>5, <4>1 DEF onReceive, Input
      <4>3. current => mReqStatusReceived
        BY <3>5 DEF onReceive
      <4> QED BY <4>2, <4>3 DEF ReportMsg, UpdateMsg
    <3>6. CASE setFrameworkActionReqObj \/ turnOn \/ turnOff
      <4>1. /\ [msg |-> "TurnOn"].msg = "TurnOn"
            /\ [msg |-> "TurnOff"].msg = "TurnOff"
        OBVIOUS
      <4>2. msgQ' = msgQ \/ msgQ' = Append(msgQ, [msg |-> "TurnOn"])
            \/ msgQ' = Append(msgQ, [msg |-> "TurnOff"])
        BY <3>6 DEF setFrameworkActionReqObj, turnOn, turnOff, Input, InputNoMessage
      <4> QED BY <3>1, <4>1, <4>2
    <3> QED BY <1>2, <3>2, <3>3, <3>4, <3>5, <3>6, <3>7, <3>8
  <2> QED BY <1>0, <2>1, <2>2, XtraInputStep
<1> QED BY <1>1, <1>2, XtraSubscribeStep, XtraOthersHandled, XtraNotifyStep, XtraUpdateStep,
           XtraRequestStep DEF ObserverNext

XtraPart == IF part = "observer" THEN XtraInv ELSE first = "nothing"

(* The XTRA daemon knows the types that are connected when the message     *)
(* task has nothing to do: the order of the reports, of the observer's     *)
(* subscription and of the daemon's request does not matter                *)
(* (XtraSystemStatusObserver.cpp, SystemStatusOsObserver.cpp).             *)
THEOREM DaemonKnows == Spec => []XtraKnowsConnections
<1>1. Init => XtraPart
  <2> SUFFICES ASSUME Init, part = "observer" PROVE XtraInv
    BY DEF Init, ObserverInit, XtraPart
  <2>1. PICK q : q = msgQ /\ q = ObserverMsgs
    BY DEF Init
  <2>2. Len(q) = 2 /\ q[1] = SubscribeMsg(XTRA, {"network"}, FALSE)
        /\ q[1].msg = "Subscribe" /\ q[2].msg = "Subscribe"
    BY <2>1, ShortQueues DEF ObserverMsgs, SubscribeMsg
  <2>9. 1 \in 1..Len(q) /\ \A i \in 1..Len(q) : i = 1 \/ i = 2
    <3>1. PICK n : n = Len(q) /\ n = 2
      BY <2>2
    <3>2. 1 \in 1..n /\ \A i \in 1..n : i = 1 \/ i = 2
      BY ONLY <3>1
    <3> QED BY <3>1, <3>2
  <2>3. \A i \in 1..Len(q) : q[i].msg = "Subscribe"
    BY <2>2, <2>9, Zenon
  <2>4. XtraJoins(q[1]) /\ 1 \in 1..Len(q)
    <3>1. PICK m : m = q[1] /\ m = SubscribeMsg(XTRA, {"network"}, FALSE)
      BY <2>2
    <3>2. m.msg = "Subscribe" /\ m.client = XTRA /\ m.items = {"network"}
      BY ONLY <3>1 DEF SubscribeMsg
    <3>3. XtraJoins(m)
      BY ONLY <3>2 DEF XtraJoins
    <3> QED BY <3>1, <3>3, <2>9, Zenon
  <2>5. JoinsIn(msgQ)
    BY <2>1, <2>4 DEF JoinsIn
  <2>6. /\ connected = {} /\ first = "nothing" /\ mDataItemCache["network"] = None
        /\ ~mReqStatusReceived /\ DOMAIN mValues = XtraItems /\ DOMAIN xtraKnows = XtraItems
    BY DEF Init, ObserverInit, NoValues, NoXtraValues, Items, XtraItems
  <2>7. XtraTypeOK /\ XtraServed
    BY <2>5, <2>6 DEF XtraTypeOK, XtraServed
  <2>8. QueueFits(msgQ, connected, first, mDataItemCache["network"], mReqStatusReceived)
    BY <2>1, <2>3, <2>6 DEF QueueFits, FirstAfter, RequestsAfter, ReportMsg
  <2> QED BY <2>7, <2>8 DEF XtraInv
<1>2. ObserverPart /\ XtraPart /\ [Next]_vars => XtraPart'
  <2> SUFFICES ASSUME ObserverPart, XtraPart, [Next]_vars PROVE XtraPart'
    OBVIOUS
  <2>1. CASE part = "observer" /\ part' = part /\ ObserverNext
    BY <2>1, XtraStep DEF ObserverPart, ObserverInv, XtraPart
  <2>2. CASE UNCHANGED <<part, msgQ, observerVars>>
    BY <2>2 DEF XtraPart, XtraInv, XtraTypeOK, XtraServed, XtraJoined, QueueFits, observerVars,
                mapVars, worldVars, xtraVars
  <2>3. CASE part # "observer" /\ UNCHANGED <<part, observerVars>>
    BY <2>3 DEF XtraPart, observerVars, worldVars
  <2> QED BY <2>1, <2>2, <2>3 DEF Next, vars, taskVars
<1>3. XtraPart => XtraKnowsConnections
  <2> SUFFICES ASSUME XtraPart, msgQ = <<>>, first = "connected", mReqStatusReceived
               PROVE  xtraKnows["network"] = connected
    BY DEF XtraKnowsConnections
  <2>1. PICK q, cache : q = msgQ /\ cache = mDataItemCache["network"]
    OBVIOUS
  <2>2. Len(q) = 0 /\ 1..Len(q) = {} /\ 0..Len(q) = {0}
    BY <2>1
  <2>3. XtraTypeOK /\ XtraServed /\ QueueFits(q, connected, first, cache, mReqStatusReceived)
    BY <2>1 DEF XtraPart, XtraInv
  <2>4. cache # None
    BY <2>2, <2>3 DEF QueueFits, FirstAfter
  <2>5. XtraJoined
    BY <2>1, <2>2, <2>3 DEF XtraServed, JoinsIn
  <2>6. mValues["network"] = cache
    BY <2>1, <2>2, <2>3, <2>4, <2>5 DEF XtraServed, ValueAfter
  <2>7. \A t \in Bits : t \in connected <=> t \in cache
    BY <2>2, <2>3, <2>4 DEF QueueFits, StatusAfter, Cached
  <2>8. connected = cache
    BY <2>1, <2>3, <2>4, <2>7 DEF XtraTypeOK
  <2> QED BY <2>3, <2>6, <2>8 DEF XtraServed
<1> QED BY <1>1, <1>2, <1>3, ObserverInductive, PTL DEF Spec

-----------------------------------------------------------------------------
(* LocApiBase: the array of adapters, the events and the sessions *)

(* The adapters fill the first slots. A removal leaves a hole, which the   *)
(* last of them is to fill.                                                *)
ArrayOK ==
  /\ mLocAdapters \in [Slots -> Others \union {GNSS, NULL}]
  /\ \A i, j \in Slots : mLocAdapters[i] = mLocAdapters[j] /\ mLocAdapters[i] # NULL => i = j
  /\ \/ /\ removing = <<>>
        /\ \E n \in 0 .. MAX_ADAPTERS : \A i \in Slots : mLocAdapters[i] # NULL <=> i <= n
     \/ \E j, n \in Slots :
          /\ removing = <<j>> /\ j <= n
          /\ \A i \in Slots : mLocAdapters[i] # NULL <=> i <= n /\ i # j

AdapterMsgOK(m) ==
  /\ m.msg \in {"Open", "Ssr", "SetConfig", "RestartSessions", "SaveClient", "EraseClient",
                "InitCallback", "StartSession"}
  /\ m.msg \in {"SaveClient", "EraseClient"} => m.client \in ApiClients
  /\ m.msg = "InitCallback" => m.event \in {"agps", "odcpi"}

AdapterQueueOK == IsQueue(msgQ) /\ \A i \in 1..Len(msgQ) : AdapterMsgOK(msgQ[i])

(* GnssAdapter hears of nothing before it is there, and nothing removes it. *)
GnssFirst ==
  \/ GNSS \in Added
  \/ /\ cbInfo = {} /\ ~sessions
     /\ \A c \in ApiClients : mClientData[c] = {}
     /\ \A i \in 1..Len(msgQ) : msgQ[i].msg \in {"Open", "Ssr"}

ModemOK ==
  /\ \E mask : modem \in [up : BOOLEAN, open : BOOLEAN, mask : {mask}, fix : BOOLEAN]
  /\ sessions \in BOOLEAN /\ missed \in BOOLEAN

(* It asks for what its clients, AGPS and ODCPI need, but for NMEA.        *)
EventsOK ==
  /\ DOMAIN mClientData = ApiClients
  /\ DOMAIN mEvtMask = Others \union {GNSS}
  /\ \A a \in Others : mEvtMask[a] = OthersMask[a]
  /\ cbInfo \union ClientEvents(mClientData, FALSE) \subseteq mEvtMask[GNSS]

(* If the modem is to make NMEA sentences, it was told so before the first *)
(* client came: the configuration is queued as the adapter is added.       *)
NmeaFirst ==
  provider = "MP" =>
    \/ mNmeaMask /\ ClientEvents(mClientData, TRUE) \subseteq mEvtMask[GNSS]
    \/ /\ \A c \in ApiClients : mClientData[c] = {}
       /\ GNSS \in Added => \E i \in 1..Len(msgQ) : msgQ[i].msg = "SetConfig"
       /\ \A j \in 1..Len(msgQ) :
            msgQ[j].msg = "SaveClient" => \E i \in 1 .. j - 1 : msgQ[i].msg = "SetConfig"

(* A modem that is up delivers what is asked, or is to be opened anew.     *)
OpenOrToOpen ==
  modem.up /\ Added # {} /\ removing = <<>> =>
    \/ \E i \in 1..Len(msgQ) : msgQ[i].msg \in {"Open", "Ssr"}
    \/ modem.open /\ getEvtMask \subseteq modem.mask

(* A position of the queue after which the modem is not opened anew        *)
LastRestart(i) ==
  /\ msgQ[i].msg = "RestartSessions"
  /\ \A j \in i + 1 .. Len(msgQ) : msgQ[j].msg # "Ssr"
NoSsr == \A i \in 1..Len(msgQ) : msgQ[i].msg # "Ssr"

(* The news of a restart follows the message that opens the modem anew,    *)
(* unless there is no session it could interrupt.                          *)
NewsFollows ==
  \/ missed \/ NoSsr
  \/ \E i \in 1..Len(msgQ) : LastRestart(i)
  \/ /\ ~sessions
     /\ \A i \in 1..Len(msgQ) : msgQ[i].msg = "Ssr" =>
          \A j \in 1 .. i - 1 : msgQ[j].msg # "StartSession"

ServedOrRestarted ==
  modem.up /\ sessions /\ ~missed =>
    \/ modem.fix /\ NoSsr
    \/ \E i \in 1..Len(msgQ) :
         /\ LastRestart(i)
         /\ modem.open \/ \E j \in 1 .. i - 1 : msgQ[j].msg = "Ssr"

(* The array *)
LEMMA ArrayFilled ==
  ASSUME ArrayOK, removing = <<>>
  PROVE  ReportsReachAdded
<1>1. PICK n \in 0 .. MAX_ADAPTERS : \A i \in Slots : mLocAdapters[i] # NULL <=> i <= n
  BY DEF ArrayOK
<1>2. \A i \in Slots : Before(i) <=> i <= n
  BY <1>1, AdaptersAssumption DEF Before, Slots
<1>3. ToAll = Added
  BY <1>1, <1>2 DEF ToAll, Added
<1>4. ASSUME NEW i \in Slots, mLocAdapters[i] = GNSS
      PROVE  Before(i) /\ \A j \in 1 .. i - 1 : mLocAdapters[j] \notin {GNSS}
  <2>1. Before(i)
    BY <1>1, <1>2, <1>4 DEF GNSS, NULL
  <2>2. \A j \in 1 .. i - 1 : j \in Slots /\ j # i
    BY AdaptersAssumption DEF Slots
  <2> QED BY <1>4, <2>1, <2>2 DEF ArrayOK, GNSS, NULL
<1>5. To1stHandling({GNSS}) \subseteq Added \intersect {GNSS}
  BY DEF To1stHandling, Added, GNSS, NULL
<1>6. Added \intersect {GNSS} \subseteq To1stHandling({GNSS})
  BY <1>4 DEF To1stHandling, Added
<1> QED BY <1>3, <1>5, <1>6 DEF ReportsReachAdded

LEMMA AddStep ==
  ASSUME ArrayOK, NEW a \in Others \union {GNSS}, addAdapter(a)
  PROVE  ArrayOK' /\ Added' = Added \union {a} /\ removing = <<>> /\ removing' = <<>>
<1>1. PICK n \in 0 .. MAX_ADAPTERS : \A i \in Slots : mLocAdapters[i] # NULL <=> i <= n
  BY DEF ArrayOK, addAdapter
<1>2. PICK k \in Slots : /\ mLocAdapters[k] = NULL
                         /\ \A j \in 1 .. k - 1 : mLocAdapters[j] # NULL
                         /\ mLocAdapters' = [mLocAdapters EXCEPT ![k] = a]
  BY DEF addAdapter
<1>3. k = n + 1
  <2>1. n < k
    BY <1>1, <1>2, AdaptersAssumption DEF Slots
  <2>2. k - 1 <= n
    <3>1. CASE k = 1
      BY <3>1
    <3>2. CASE k # 1
      BY <1>1, <1>2, <3>2, AdaptersAssumption DEF Slots
    <3> QED BY <3>1, <3>2
  <2> QED BY <2>1, <2>2, AdaptersAssumption DEF Slots
<1>4. a # NULL /\ a \notin Added /\ removing = <<>> /\ removing' = <<>>
  BY AdaptersAssumption DEF addAdapter, GNSS, NULL
<1>5. /\ mLocAdapters \in [Slots -> Others \union {GNSS, NULL}]
      /\ \A i, j \in Slots : mLocAdapters[i] = mLocAdapters[j] /\ mLocAdapters[i] # NULL => i = j
  BY DEF ArrayOK
<1>6. \A i \in Slots : mLocAdapters'[i] = IF i = k THEN a ELSE mLocAdapters[i]
  BY <1>2, <1>5
<1>7. mLocAdapters' \in [Slots -> Others \union {GNSS, NULL}]
  BY <1>2, <1>5
<1>8. \A i \in Slots : mLocAdapters[i] # a
  BY <1>4 DEF Added
<1>9. n + 1 \in 0 .. MAX_ADAPTERS /\ \A i \in Slots : mLocAdapters'[i] # NULL <=> i <= n + 1
  BY <1>1, <1>3, <1>4, <1>6, AdaptersAssumption DEF Slots
<1>10. ArrayOK'
  <2>1. \A i, j \in Slots : mLocAdapters'[i] = mLocAdapters'[j] /\ mLocAdapters'[i] # NULL => i = j
    BY <1>5, <1>6, <1>8
  <2> QED BY <1>4, <1>7, <1>9, <2>1 DEF ArrayOK
<1>11. Added' = Added \union {a}
  BY <1>2, <1>4, <1>6 DEF Added
<1> QED BY <1>4, <1>10, <1>11

LEMMA RemoveStep ==
  ASSUME ArrayOK, NEW a \in Others, removeAdapter(a)
  PROVE  ArrayOK' /\ Added' = Added \ {a} /\ removing' # <<>>
<1>1. PICK n \in 0 .. MAX_ADAPTERS : \A i \in Slots : mLocAdapters[i] # NULL <=> i <= n
  BY DEF ArrayOK, removeAdapter
<1>2. PICK k \in Slots : /\ mLocAdapters[k] = a
                         /\ mLocAdapters' = [mLocAdapters EXCEPT ![k] = NULL]
                         /\ removing' = <<k>>
  BY DEF removeAdapter
<1>3. a # NULL
  BY AdaptersAssumption
<1>4. k <= n /\ n \in Slots
  BY <1>1, <1>2, <1>3, AdaptersAssumption DEF Slots
<1>5. /\ mLocAdapters \in [Slots -> Others \union {GNSS, NULL}]
      /\ \A i, j \in Slots : mLocAdapters[i] = mLocAdapters[j] /\ mLocAdapters[i] # NULL => i = j
  BY DEF ArrayOK
<1>6. \A i \in Slots : mLocAdapters'[i] = IF i = k THEN NULL ELSE mLocAdapters[i]
  BY <1>2, <1>5
<1>7. mLocAdapters' \in [Slots -> Others \union {GNSS, NULL}]
  BY <1>2, <1>5
<1>8. \A i \in Slots : mLocAdapters'[i] # NULL <=> i <= n /\ i # k
  BY <1>1, <1>6
<1>9. ArrayOK'
  <2>1. \A i, j \in Slots : mLocAdapters'[i] = mLocAdapters'[j] /\ mLocAdapters'[i] # NULL => i = j
    BY <1>5, <1>6
  <2> QED BY <1>2, <1>4, <1>7, <1>8, <2>1 DEF ArrayOK
<1>10. Added' = Added \ {a}
  <2>1. \A i \in Slots : mLocAdapters[i] = a <=> i = k
    BY <1>2, <1>3, <1>5
  <2> QED BY <1>6, <2>1 DEF Added
<1> QED BY <1>2, <1>9, <1>10

(* The last adapter is the one whose slot ends the array, and the modem is *)
(* closed only if the adapter removed was the last of all.                 *)
LEMMA FillStep ==
  ASSUME ArrayOK, fillHole
  PROVE  /\ ArrayOK' /\ Added' = Added /\ removing' = <<>>
         /\ \/ Added' = {} /\ modem' = Closed(modem) /\ UNCHANGED taskVars
            \/ Post([msg |-> "Open"]) /\ UNCHANGED modem
<1>1. PICK j \in Slots, n \in Slots : /\ removing = <<j>> /\ j <= n
                                      /\ \A i \in Slots : mLocAdapters[i] # NULL <=> i <= n /\ i # j
  BY DEF ArrayOK, fillHole
<1> DEFINE IsLast(k) == /\ \A i \in j + 1 .. k : mLocAdapters[i] # NULL
                        /\ k = MAX_ADAPTERS \/ mLocAdapters[k + 1] = NULL
<1>2. n \in j .. MAX_ADAPTERS /\ IsLast(n)
  BY <1>1, AdaptersAssumption DEF Slots
<1>3. ASSUME NEW k \in j .. MAX_ADAPTERS, IsLast(k) PROVE k = n
  <2>1. ~ k > n
    <3> SUFFICES ASSUME k > n PROVE FALSE
      OBVIOUS
    <3>1. n + 1 \in Slots /\ n + 1 \in j + 1 .. k
      BY <1>1, <1>3, AdaptersAssumption DEF Slots
    <3> QED BY <1>1, <1>3, <3>1 DEF Slots
  <2>2. ~ k < n
    <3> SUFFICES ASSUME k < n PROVE FALSE
      OBVIOUS
    <3>1. k + 1 \in Slots /\ k + 1 <= n /\ k + 1 # j /\ k # MAX_ADAPTERS
      BY <1>1, <1>3, AdaptersAssumption DEF Slots
    <3> QED BY <1>1, <1>3, <3>1
  <2> QED BY <1>1, <1>3, <2>1, <2>2, AdaptersAssumption DEF Slots
<1>4. n = CHOOSE k \in j .. MAX_ADAPTERS : IsLast(k)
  BY <1>2, <1>3
<1>5. /\ mLocAdapters' = Shifted(j, n)
      /\ IF n = 1 THEN modem' = Closed(modem) /\ UNCHANGED taskVars
                  ELSE Post([msg |-> "Open"]) /\ UNCHANGED modem
      /\ removing' = <<>>
  BY <1>1, <1>4 DEF fillHole
<1>6. /\ mLocAdapters \in [Slots -> Others \union {GNSS, NULL}]
      /\ \A i, k \in Slots : mLocAdapters[i] = mLocAdapters[k] /\ mLocAdapters[i] # NULL => i = k
  BY DEF ArrayOK
<1>7. /\ mLocAdapters' \in [Slots -> Others \union {GNSS, NULL}]
      /\ \A i \in Slots : mLocAdapters'[i] = IF i = n THEN NULL
                                             ELSE IF i = j THEN mLocAdapters[n] ELSE mLocAdapters[i]
  BY <1>5, <1>6 DEF Shifted
<1>8. n - 1 \in 0 .. MAX_ADAPTERS /\ \A i \in Slots : mLocAdapters'[i] # NULL <=> i <= n - 1
  BY <1>1, <1>7, AdaptersAssumption DEF Slots
<1>9. ArrayOK'
  <2>1. \A i, k \in Slots : mLocAdapters'[i] = mLocAdapters'[k] /\ mLocAdapters'[i] # NULL => i = k
    BY <1>6, <1>7
  <2> QED BY <1>5, <1>7, <1>8, <2>1 DEF ArrayOK
<1>10. Added' = Added
  <2>1. mLocAdapters[j] = NULL
    BY <1>1
  <2>2. Added' \subseteq Added
    BY <1>7 DEF Added
  <2>3. Added \subseteq Added'
    <3> SUFFICES ASSUME NEW i \in Slots, mLocAdapters[i] # NULL
                 PROVE  \E k \in Slots : mLocAdapters'[k] = mLocAdapters[i]
      BY DEF Added
    <3>1. CASE i = n
      BY <1>1, <1>7, <2>1, <3>1
    <3>2. CASE i # n
      BY <1>7, <2>1, <3>2
    <3> QED BY <3>1, <3>2
  <2> QED BY <2>2, <2>3
<1>11. n = 1 => Added' = {}
  BY <1>8, AdaptersAssumption DEF Added, Slots
<1> QED BY <1>5, <1>9, <1>10, <1>11

(* What a step does to the queue: nothing, more messages, or one less      *)
Grown(r) == IsQueue(r) /\ msgQ' = msgQ \o r
Shrunk == msgQ # <<>> /\ msgQ' = Tail(msgQ)

LEMMA GrownQueue ==
  ASSUME AdapterQueueOK, NEW r, Grown(r)
  PROVE  /\ Len(msgQ) \in Nat /\ Len(r) \in Nat /\ Len(msgQ') = Len(msgQ) + Len(r)
         /\ \A i \in 1..Len(msgQ) : msgQ'[i] = msgQ[i]
         /\ \A i \in 1..Len(r) : msgQ'[Len(msgQ) + i] = r[i]
         /\ \A i \in 1..Len(msgQ') :
              \/ i \in 1..Len(msgQ) /\ msgQ'[i] = msgQ[i]
              \/ i - Len(msgQ) \in 1..Len(r) /\ msgQ'[i] = r[i - Len(msgQ)]
         /\ (\A i \in 1..Len(r) : AdapterMsgOK(r[i])) => AdapterQueueOK'
<1>1. IsQueue(msgQ) /\ IsQueue(r) /\ msgQ' = msgQ \o r
  BY DEF AdapterQueueOK, Grown
<1>2. /\ Len(msgQ) \in Nat /\ Len(r) \in Nat /\ Len(msgQ') = Len(msgQ) + Len(r)
      /\ \A i \in 1..Len(msgQ) : msgQ'[i] = msgQ[i]
      /\ \A i \in 1..Len(r) : msgQ'[Len(msgQ) + i] = r[i]
      /\ IsQueue(msgQ')
  BY <1>1, QueueConcat
<1>3. \A i \in 1..Len(msgQ') :
        \/ i \in 1..Len(msgQ) /\ msgQ'[i] = msgQ[i]
        \/ i - Len(msgQ) \in 1..Len(r) /\ msgQ'[i] = r[i - Len(msgQ)]
  BY <1>1, EachOfConcat
<1>4. ASSUME \A i \in 1..Len(r) : AdapterMsgOK(r[i]) PROVE AdapterQueueOK'
  <2>1. \A i \in 1..Len(msgQ') : AdapterMsgOK(msgQ'[i])
    BY <1>3, <1>4 DEF AdapterQueueOK
  <2> QED BY <1>2, <2>1 DEF AdapterQueueOK, AdapterMsgOK
<1> QED BY <1>2, <1>3, <1>4

LEMMA ShrunkQueue ==
  ASSUME AdapterQueueOK, Shrunk
  PROVE  /\ Len(msgQ) \in Nat \ {0} /\ Len(msgQ') = Len(msgQ) - 1
         /\ Head(msgQ) = msgQ[1] /\ AdapterMsgOK(Head(msgQ))
         /\ \A i \in 1..Len(msgQ') : i + 1 \in 1..Len(msgQ) /\ msgQ'[i] = msgQ[i + 1]
         /\ AdapterQueueOK'
<1>1. IsQueue(msgQ) /\ msgQ # <<>> /\ msgQ' = Tail(msgQ)
  BY DEF AdapterQueueOK, Shrunk
<1>2. /\ Len(msgQ) \in Nat \ {0} /\ Len(msgQ') = Len(msgQ) - 1 /\ Head(msgQ) = msgQ[1]
      /\ IsQueue(msgQ')
  BY <1>1, QueueTail
<1>3. \A i \in 1..Len(msgQ') : i + 1 \in 1..Len(msgQ) /\ msgQ'[i] = msgQ[i + 1]
  BY <1>1, EachOfTail
<1>4. \A i \in 1..Len(msgQ') : AdapterMsgOK(msgQ'[i])
  BY <1>3 DEF AdapterQueueOK
<1>5. AdapterMsgOK(Head(msgQ))
  BY <1>2 DEF AdapterQueueOK
<1> QED BY <1>2, <1>3, <1>4, <1>5 DEF AdapterQueueOK, AdapterMsgOK

LEMMA OneMore ==
  ASSUME AdapterQueueOK, NEW m, msgQ' = Append(msgQ, m)
  PROVE  Grown(<<m>>) /\ Len(<<m>>) = 1 /\ <<m>>[1] = m
<1>1. IsQueue(msgQ) /\ IsQueue(<<m>>)
  BY ShortQueues DEF AdapterQueueOK
<1> QED BY <1>1, AppendConcat DEF Grown

(* NMEA: what keeps the configuration ahead of the clients *)
LEMMA NmeaGrows ==
  ASSUME AdapterQueueOK, NmeaFirst, NEW r, Grown(r),
         UNCHANGED <<provider, mNmeaMask, mClientData, mEvtMask>>,
         GNSS \in Added' => GNSS \in Added \/ \E i \in 1..Len(r) : r[i].msg = "SetConfig",
         \A i \in 1..Len(r) : r[i].msg = "SaveClient" => GNSS \in Added
  PROVE  NmeaFirst'
<1> SUFFICES ASSUME provider = "MP",
                    ~(mNmeaMask /\ ClientEvents(mClientData, TRUE) \subseteq mEvtMask[GNSS])
             PROVE  /\ \A c \in ApiClients : mClientData'[c] = {}
                    /\ GNSS \in Added' => \E i \in 1..Len(msgQ') : msgQ'[i].msg = "SetConfig"
                    /\ \A j \in 1..Len(msgQ') : msgQ'[j].msg = "SaveClient" =>
                         \E i \in 1 .. j - 1 : msgQ'[i].msg = "SetConfig"
  BY DEF NmeaFirst, ClientEvents
<1>0. /\ \A c \in ApiClients : mClientData[c] = {}
      /\ GNSS \in Added => \E i \in 1..Len(msgQ) : msgQ[i].msg = "SetConfig"
      /\ \A j \in 1..Len(msgQ) :
            msgQ[j].msg = "SaveClient" => \E i \in 1 .. j - 1 : msgQ[i].msg = "SetConfig"
  BY DEF NmeaFirst
<1>1. /\ Len(msgQ) \in Nat /\ Len(r) \in Nat /\ Len(msgQ') = Len(msgQ) + Len(r)
      /\ \A i \in 1..Len(msgQ) : msgQ'[i] = msgQ[i]
      /\ \A i \in 1..Len(r) : msgQ'[Len(msgQ) + i] = r[i]
      /\ \A i \in 1..Len(msgQ') :
           \/ i \in 1..Len(msgQ) /\ msgQ'[i] = msgQ[i]
           \/ i - Len(msgQ) \in 1..Len(r) /\ msgQ'[i] = r[i - Len(msgQ)]
  BY GrownQueue
<1>2. ASSUME GNSS \in Added' PROVE \E i \in 1..Len(msgQ') : msgQ'[i].msg = "SetConfig"
  <2>1. CASE GNSS \in Added
    BY <1>0, <1>1, <2>1
  <2>2. CASE \E i \in 1..Len(r) : r[i].msg = "SetConfig"
    <3>1. PICK i \in 1..Len(r) : r[i].msg = "SetConfig"
      BY <2>2
    <3>2. Len(msgQ) + i \in 1..Len(msgQ') /\ msgQ'[Len(msgQ) + i].msg = "SetConfig"
      BY <1>1, <3>1
    <3> QED BY <3>2
  <2> QED BY <1>2, <2>1, <2>2
<1>3. ASSUME NEW j \in 1..Len(msgQ'), msgQ'[j].msg = "SaveClient"
      PROVE  \E i \in 1 .. j - 1 : msgQ'[i].msg = "SetConfig"
  <2>1. CASE j \in 1..Len(msgQ) /\ msgQ'[j] = msgQ[j]
    <3>1. PICK i \in 1 .. j - 1 : msgQ[i].msg = "SetConfig"
      BY <1>0, <1>3, <2>1
    <3>2. i \in 1..Len(msgQ)
      BY <1>1, <2>1, <3>1
    <3> QED BY <1>1, <3>1, <3>2
  <2>2. CASE j - Len(msgQ) \in 1..Len(r) /\ msgQ'[j] = r[j - Len(msgQ)]
    <3>1. PICK i \in 1..Len(msgQ) : msgQ[i].msg = "SetConfig"
      BY <1>0, <1>3, <2>2
    <3> QED BY <1>1, <2>2, <3>1
  <2> QED BY <1>1, <2>1, <2>2
<1> QED BY <1>0, <1>2, <1>3

(* A message that is neither the configuration nor a client with callbacks *)
LEMMA NmeaShrinks ==
  ASSUME AdapterQueueOK, NmeaFirst, Shrunk, Head(msgQ).msg \notin {"SetConfig", "SaveClient"},
         UNCHANGED <<provider, mNmeaMask>>, Added' = Added,
         \A c \in ApiClients : mClientData'[c] = mClientData[c] \/ mClientData'[c] = {},
         mNmeaMask /\ ClientEvents(mClientData, TRUE) \subseteq mEvtMask[GNSS] =>
           ClientEvents(mClientData, TRUE)' \subseteq mEvtMask'[GNSS]
  PROVE  NmeaFirst'
<1> SUFFICES ASSUME provider = "MP",
                    ~(mNmeaMask /\ ClientEvents(mClientData, TRUE) \subseteq mEvtMask[GNSS])
             PROVE  /\ \A c \in ApiClients : mClientData'[c] = {}
                    /\ GNSS \in Added' => \E i \in 1..Len(msgQ') : msgQ'[i].msg = "SetConfig"
                    /\ \A j \in 1..Len(msgQ') : msgQ'[j].msg = "SaveClient" =>
                         \E i \in 1 .. j - 1 : msgQ'[i].msg = "SetConfig"
  BY DEF NmeaFirst, ClientEvents
<1>0. /\ \A c \in ApiClients : mClientData[c] = {}
      /\ GNSS \in Added => \E i \in 1..Len(msgQ) : msgQ[i].msg = "SetConfig"
      /\ \A j \in 1..Len(msgQ) :
            msgQ[j].msg = "SaveClient" => \E i \in 1 .. j - 1 : msgQ[i].msg = "SetConfig"
  BY DEF NmeaFirst
<1>1. /\ Len(msgQ) \in Nat \ {0} /\ Len(msgQ') = Len(msgQ) - 1
      /\ Head(msgQ) = msgQ[1]
      /\ \A i \in 1..Len(msgQ') : i + 1 \in 1..Len(msgQ) /\ msgQ'[i] = msgQ[i + 1]
  BY ShrunkQueue
<1>2. ASSUME NEW k \in 1..Len(msgQ), msgQ[k].msg = "SetConfig"
      PROVE  k - 1 \in 1..Len(msgQ') /\ msgQ'[k - 1].msg = "SetConfig"
  <2>1. k # 1
    BY <1>1, <1>2
  <2>2. k - 1 \in 1..Len(msgQ') /\ (k - 1) + 1 = k
    BY <1>1, <2>1
  <2> QED BY <1>1, <1>2, <2>2
<1>3. GNSS \in Added' => \E i \in 1..Len(msgQ') : msgQ'[i].msg = "SetConfig"
  BY <1>0, <1>2
<1>4. ASSUME NEW j \in 1..Len(msgQ'), msgQ'[j].msg = "SaveClient"
      PROVE  \E i \in 1 .. j - 1 : msgQ'[i].msg = "SetConfig"
  <2>1. j + 1 \in 1..Len(msgQ) /\ msgQ[j + 1].msg = "SaveClient" /\ (j + 1) - 1 = j
    BY <1>1, <1>4
  <2>2. PICK i \in 1 .. j : msgQ[i].msg = "SetConfig"
    BY <1>0, <2>1
  <2>3. i \in 1..Len(msgQ) /\ i - 1 <= j - 1
    BY <1>1, <2>1, <2>2
  <2> QED BY <1>1, <1>2, <2>2, <2>3
<1> QED BY <1>0, <1>3, <1>4

(* The news of a restart, and the sessions *)
LEMMA LastRestartGrows ==
  ASSUME AdapterQueueOK, NEW r, Grown(r), \A i \in 1..Len(r) : r[i].msg # "Ssr"
  PROVE  /\ \A i \in 1..Len(msgQ) : LastRestart(i) => LastRestart(i)' /\ i \in 1..Len(msgQ')
         /\ NoSsr => NoSsr'
         /\ \A i \in 1..Len(msgQ') : msgQ'[i].msg = "Ssr" => i \in 1..Len(msgQ)
         /\ \A i \in 1..Len(msgQ) : msgQ'[i] = msgQ[i]
<1>1. /\ Len(msgQ) \in Nat /\ Len(r) \in Nat /\ Len(msgQ') = Len(msgQ) + Len(r)
      /\ \A i \in 1..Len(msgQ) : msgQ'[i] = msgQ[i]
      /\ \A i \in 1..Len(msgQ') :
           \/ i \in 1..Len(msgQ) /\ msgQ'[i] = msgQ[i]
           \/ i - Len(msgQ) \in 1..Len(r) /\ msgQ'[i] = r[i - Len(msgQ)]
  BY GrownQueue
<1>2. \A i \in 1..Len(msgQ') : msgQ'[i].msg = "Ssr" => i \in 1..Len(msgQ)
  BY <1>1
<1>3. ASSUME NEW i \in 1..Len(msgQ), LastRestart(i) PROVE LastRestart(i)' /\ i \in 1..Len(msgQ')
  <2>1. i \in 1..Len(msgQ') /\ msgQ'[i].msg = "RestartSessions"
    BY <1>1, <1>3 DEF LastRestart
  <2>2. ASSUME NEW j \in i + 1 .. Len(msgQ') PROVE msgQ'[j].msg # "Ssr"
    <3>1. j \in 1..Len(msgQ')
      BY <1>1
    <3>2. CASE j \in 1..Len(msgQ)
      BY <1>1, <1>3, <3>2 DEF LastRestart
    <3>3. CASE j \notin 1..Len(msgQ)
      BY <1>2, <3>1, <3>3
    <3> QED BY <3>2, <3>3
  <2> QED BY <2>1, <2>2 DEF LastRestart
<1>4. NoSsr => NoSsr'
  BY <1>1, <1>2 DEF NoSsr
<1> QED BY <1>1, <1>2, <1>3, <1>4

LEMMA LastRestartShrinks ==
  ASSUME AdapterQueueOK, Shrunk
  PROVE  /\ \A i \in 1..Len(msgQ) : LastRestart(i) /\ i # 1 =>
              LastRestart(i - 1)' /\ i - 1 \in 1..Len(msgQ')
         /\ LastRestart(1) => NoSsr'
         /\ NoSsr => NoSsr'
<1>1. /\ Len(msgQ) \in Nat \ {0} /\ Len(msgQ') = Len(msgQ) - 1
      /\ \A i \in 1..Len(msgQ') : i + 1 \in 1..Len(msgQ) /\ msgQ'[i] = msgQ[i + 1]
  BY ShrunkQueue
<1>2. ASSUME NEW i \in 1..Len(msgQ), LastRestart(i), i # 1
      PROVE  LastRestart(i - 1)' /\ i - 1 \in 1..Len(msgQ')
  <2>1. i - 1 \in 1..Len(msgQ') /\ (i - 1) + 1 = i
    BY <1>1, <1>2
  <2>2. msgQ'[i - 1].msg = "RestartSessions"
    BY <1>1, <1>2, <2>1 DEF LastRestart
  <2>3. ASSUME NEW j \in (i - 1) + 1 .. Len(msgQ') PROVE msgQ'[j].msg # "Ssr"
    <3>1. j \in 1..Len(msgQ') /\ j + 1 \in i + 1 .. Len(msgQ)
      BY <1>1
    <3> QED BY <1>1, <1>2, <3>1 DEF LastRestart
  <2> QED BY <2>1, <2>2, <2>3 DEF LastRestart
<1>3. LastRestart(1) => NoSsr'
  <2> SUFFICES ASSUME LastRestart(1), NEW j \in 1..Len(msgQ') PROVE msgQ'[j].msg # "Ssr"
    BY DEF NoSsr
  <2>1. j + 1 \in 1 + 1 .. Len(msgQ)
    BY <1>1
  <2> QED BY <1>1, <2>1 DEF LastRestart
<1>4. NoSsr => NoSsr'
  BY <1>1 DEF NoSsr
<1> QED BY <1>2, <1>3, <1>4

LEMMA NewsGrows ==
  ASSUME AdapterQueueOK, NewsFollows, NEW r, Grown(r), \A i \in 1..Len(r) : r[i].msg # "Ssr",
         UNCHANGED <<missed, sessions>>
  PROVE  NewsFollows'
<1>1. /\ \A i \in 1..Len(msgQ) : LastRestart(i) => LastRestart(i)' /\ i \in 1..Len(msgQ')
      /\ NoSsr => NoSsr'
      /\ \A i \in 1..Len(msgQ') : msgQ'[i].msg = "Ssr" => i \in 1..Len(msgQ)
      /\ \A i \in 1..Len(msgQ) : msgQ'[i] = msgQ[i]
  BY LastRestartGrows
<1>2. CASE missed \/ NoSsr \/ \E i \in 1..Len(msgQ) : LastRestart(i)
  BY <1>1, <1>2 DEF NewsFollows
<1>3. CASE /\ ~sessions
           /\ \A i \in 1..Len(msgQ) : msgQ[i].msg = "Ssr" =>
                \A j \in 1 .. i - 1 : msgQ[j].msg # "StartSession"
  <2> SUFFICES ASSUME NEW i \in 1..Len(msgQ'), msgQ'[i].msg = "Ssr", NEW j \in 1 .. i - 1
               PROVE  msgQ'[j].msg # "StartSession"
    BY <1>3 DEF NewsFollows
  <2>1. Len(msgQ) \in Nat
    BY GrownQueue
  <2>2. i \in 1..Len(msgQ) /\ j \in 1..Len(msgQ) /\ msgQ[i].msg = "Ssr"
    BY <1>1, <2>1
  <2> QED BY <1>1, <1>3, <2>2
<1> QED BY <1>2, <1>3 DEF NewsFollows

(* A session may start only with a StartSession *)
LEMMA NewsShrinks ==
  ASSUME AdapterQueueOK, NewsFollows, Shrunk, UNCHANGED missed,
         sessions' # sessions => Head(msgQ).msg = "StartSession"
  PROVE  NewsFollows'
<1>0. /\ Len(msgQ) \in Nat \ {0} /\ Len(msgQ') = Len(msgQ) - 1 /\ Head(msgQ) = msgQ[1]
      /\ \A i \in 1..Len(msgQ') : i + 1 \in 1..Len(msgQ) /\ msgQ'[i] = msgQ[i + 1]
  BY ShrunkQueue
<1>1. CASE missed \/ NoSsr \/ \E i \in 1..Len(msgQ) : LastRestart(i)
  BY <1>1, LastRestartShrinks DEF NewsFollows
<1>2. CASE /\ ~sessions
           /\ \A i \in 1..Len(msgQ) : msgQ[i].msg = "Ssr" =>
                \A j \in 1 .. i - 1 : msgQ[j].msg # "StartSession"
  <2>1. CASE Head(msgQ).msg = "StartSession"
    <3>1. ASSUME NEW i \in 1..Len(msgQ'), msgQ'[i].msg = "Ssr" PROVE FALSE
      <4>1. i + 1 \in 1..Len(msgQ) /\ msgQ[i + 1].msg = "Ssr" /\ 1 \in 1 .. (i + 1) - 1
        BY <1>0, <3>1
      <4> QED BY <1>0, <1>2, <2>1, <4>1
    <3> QED BY <3>1 DEF NewsFollows, NoSsr
  <2>2. CASE sessions' = sessions
    <3> SUFFICES ASSUME NEW i \in 1..Len(msgQ'), msgQ'[i].msg = "Ssr", NEW j \in 1 .. i - 1
                 PROVE  msgQ'[j].msg # "StartSession"
      BY <1>2, <2>2 DEF NewsFollows
    <3>1. i + 1 \in 1..Len(msgQ) /\ msgQ[i + 1].msg = "Ssr"
      BY <1>0
    <3>2. j \in 1..Len(msgQ') /\ j + 1 \in 1 .. (i + 1) - 1
      BY <1>0
    <3> QED BY <1>0, <1>2, <3>1, <3>2
  <2> QED BY <2>1, <2>2
<1> QED BY <1>1, <1>2 DEF NewsFollows

LEMMA ServedGrows ==
  ASSUME AdapterQueueOK, ServedOrRestarted, NEW r, Grown(r), \A i \in 1..Len(r) : r[i].msg # "Ssr",
         UNCHANGED <<modem, missed, sessions>>
  PROVE  ServedOrRestarted'
<1> SUFFICES ASSUME modem.up, sessions, ~missed,
                    NEW i \in 1..Len(msgQ), LastRestart(i),
                    modem.open \/ \E j \in 1 .. i - 1 : msgQ[j].msg = "Ssr"
             PROVE  /\ LastRestart(i)' /\ i \in 1..Len(msgQ')
                    /\ modem.open \/ \E j \in 1 .. i - 1 : msgQ'[j].msg = "Ssr"
  BY LastRestartGrows DEF ServedOrRestarted
<1>1. ASSUME NEW j \in 1 .. i - 1 PROVE msgQ'[j] = msgQ[j]
  BY LastRestartGrows, GrownQueue
<1> QED BY <1>1, LastRestartGrows

(* A message other than StartSession                                       *)
LEMMA ServedShrinks ==
  ASSUME AdapterQueueOK, ServedOrRestarted, Shrunk, UNCHANGED <<missed, sessions>>,
         modem'.up = modem.up, modem.open => modem'.open,
         IF Head(msgQ).msg = "Ssr" THEN modem.up => modem'.open ELSE modem.fix => modem'.fix,
         Head(msgQ).msg = "RestartSessions" /\ sessions /\ modem.up /\ modem.open => modem'.fix
  PROVE  ServedOrRestarted'
<1> SUFFICES ASSUME modem.up, sessions, ~missed
             PROVE  \/ modem'.fix /\ NoSsr'
                    \/ \E i \in 1..Len(msgQ') :
                         /\ LastRestart(i)'
                         /\ modem'.open \/ \E j \in 1 .. i - 1 : msgQ'[j].msg = "Ssr"
  BY DEF ServedOrRestarted
<1>0. /\ Len(msgQ) \in Nat \ {0} /\ Len(msgQ') = Len(msgQ) - 1 /\ Head(msgQ) = msgQ[1]
      /\ \A i \in 1..Len(msgQ') : i + 1 \in 1..Len(msgQ) /\ msgQ'[i] = msgQ[i + 1]
  BY ShrunkQueue
<1>1. CASE modem.fix /\ NoSsr
  <2>1. Head(msgQ).msg # "Ssr"
    BY <1>0, <1>1 DEF NoSsr
  <2> QED BY <1>1, <2>1, LastRestartShrinks
<1>2. ASSUME NEW i \in 1..Len(msgQ), LastRestart(i),
             modem.open \/ \E j \in 1 .. i - 1 : msgQ[j].msg = "Ssr"
      PROVE  \/ modem'.fix /\ NoSsr'
             \/ \E k \in 1..Len(msgQ') :
                  /\ LastRestart(k)'
                  /\ modem'.open \/ \E j \in 1 .. k - 1 : msgQ'[j].msg = "Ssr"
  <2>1. CASE i = 1
    <3>1. Head(msgQ).msg = "RestartSessions" /\ modem.open
      BY <1>0, <1>2, <2>1 DEF LastRestart
    <3> QED BY <1>2, <2>1, <3>1, LastRestartShrinks
  <2>2. CASE i # 1
    <3>1. LastRestart(i - 1)' /\ i - 1 \in 1..Len(msgQ')
      BY <1>2, <2>2, LastRestartShrinks
    <3>2. ASSUME NEW j \in 1 .. i - 1, msgQ[j].msg = "Ssr"
          PROVE  modem'.open \/ \E k \in 1 .. (i - 1) - 1 : msgQ'[k].msg = "Ssr"
      <4>1. CASE j = 1
        BY <1>0, <3>2, <4>1
      <4>2. CASE j # 1
        <5>1. j - 1 \in 1 .. (i - 1) - 1 /\ j - 1 \in 1..Len(msgQ') /\ (j - 1) + 1 = j
          BY <1>0, <3>1, <4>2
        <5>2. msgQ'[j - 1].msg = "Ssr"
          BY <1>0, <3>2, <5>1
        <5> QED BY <5>1, <5>2
      <4> QED BY <4>1, <4>2
    <3>3. modem'.open \/ \E k \in 1 .. (i - 1) - 1 : msgQ'[k].msg = "Ssr"
      BY <1>2, <3>2
    <3> QED BY <3>1, <3>3
  <2> QED BY <2>1, <2>2
<1> QED BY <1>1, <1>2 DEF ServedOrRestarted

(* What the modem delivers *)
LEMMA ToBeOpened ==
  ASSUME AdapterQueueOK, NEW r, Grown(r),
         NEW i \in 1..Len(r), r[i].msg \in {"Open", "Ssr"}
  PROVE  OpenOrToOpen'
<1>1. Len(msgQ) + i \in 1..Len(msgQ') /\ msgQ'[Len(msgQ) + i] = r[i]
  BY GrownQueue
<1> QED BY <1>1 DEF OpenOrToOpen

LEMMA OpenGrows ==
  ASSUME AdapterQueueOK, OpenOrToOpen, NEW r, Grown(r), UNCHANGED <<arrayVars, mEvtMask, modem>>
  PROVE  OpenOrToOpen'
<1>1. Added' = Added /\ getEvtMask' = getEvtMask /\ removing' = removing
  BY DEF Added, getEvtMask, ToAll, Before, arrayVars
<1>2. \A i \in 1..Len(msgQ) : i \in 1..Len(msgQ') /\ msgQ'[i] = msgQ[i]
  BY GrownQueue
<1> QED BY <1>1, <1>2 DEF OpenOrToOpen

LEMMA OpenShrinks ==
  ASSUME AdapterQueueOK, OpenOrToOpen, Shrunk, Head(msgQ).msg \notin {"Open", "Ssr"},
         UNCHANGED <<arrayVars, mEvtMask>>,
         modem'.up = modem.up, modem'.open = modem.open, modem'.mask = modem.mask
  PROVE  OpenOrToOpen'
<1>1. Added' = Added /\ getEvtMask' = getEvtMask /\ removing' = removing
  BY DEF Added, getEvtMask, ToAll, Before, arrayVars
<1>2. /\ Len(msgQ) \in Nat \ {0} /\ Len(msgQ') = Len(msgQ) - 1 /\ Head(msgQ) = msgQ[1]
      /\ \A i \in 1..Len(msgQ') : i + 1 \in 1..Len(msgQ) /\ msgQ'[i] = msgQ[i + 1]
  BY ShrunkQueue
<1>3. ASSUME NEW i \in 1..Len(msgQ), msgQ[i].msg \in {"Open", "Ssr"}
      PROVE  i - 1 \in 1..Len(msgQ') /\ msgQ'[i - 1].msg \in {"Open", "Ssr"}
  <2>1. i # 1
    BY <1>2, <1>3
  <2>2. i - 1 \in 1..Len(msgQ') /\ (i - 1) + 1 = i
    BY <1>2, <2>1
  <2> QED BY <1>2, <1>3, <2>2
<1> QED BY <1>1, <1>3 DEF OpenOrToOpen

(* Opening the modem, where the events of GnssAdapter may have changed     *)
LEMMA OpenedDelivers ==
  ASSUME ModemOK, UNCHANGED <<arrayVars>>,
         modem' = Opened(modem, (UNION {mEvtMask'[a] : a \in ToAll}) \ mFgExclMask)
  PROVE  /\ modem'.up = modem.up /\ modem'.fix = modem.fix /\ (modem.open => modem'.open)
         /\ OpenOrToOpen'
<1>1. PICK mask : modem \in [up : BOOLEAN, open : BOOLEAN, mask : {mask}, fix : BOOLEAN]
  BY DEF ModemOK
<1>2. getEvtMask' = (UNION {mEvtMask'[a] : a \in ToAll}) \ mFgExclMask
  BY DEF getEvtMask, ToAll, Before, arrayVars, mFgExclMask
<1>3. modem' = Opened(modem, getEvtMask')
  BY <1>2
<1> QED BY <1>1, <1>3 DEF OpenOrToOpen, Opened

AdaptersInv ==
  /\ ArrayOK /\ AdapterQueueOK /\ ModemOK /\ GnssFirst /\ EventsOK
  /\ NmeaFirst /\ OpenOrToOpen /\ NewsFollows /\ ServedOrRestarted

LEMMA AdapterCallStep ==
  ASSUME AdaptersInv, AdapterCall
  PROVE  AdaptersInv'
<1>0. /\ ArrayOK /\ AdapterQueueOK /\ ModemOK /\ GnssFirst /\ EventsOK
      /\ NmeaFirst /\ OpenOrToOpen /\ NewsFollows /\ ServedOrRestarted
  BY DEF AdaptersInv
<1>1. PICK m : /\ msgQ' = Append(msgQ, m) /\ AdapterMsgOK(m) /\ m.msg \notin {"Open", "Ssr"}
  <2>1. ASSUME NEW m, Input(m), AdapterMsgOK(m), m.msg \notin {"Open", "Ssr"}
        PROVE  \E n : msgQ' = Append(msgQ, n) /\ AdapterMsgOK(n) /\ n.msg \notin {"Open", "Ssr"}
    BY <2>1 DEF Input
  <2>2. ASSUME NEW c \in ApiClients, NEW cbs
        PROVE  /\ AdapterMsgOK([msg |-> "SaveClient", client |-> c, callbacks |-> cbs])
               /\ AdapterMsgOK([msg |-> "EraseClient", client |-> c])
    BY DEF AdapterMsgOK
  <2>3. \A ev \in {"agps", "odcpi"} : AdapterMsgOK([msg |-> "InitCallback", event |-> ev])
    BY DEF AdapterMsgOK
  <2>4. AdapterMsgOK([msg |-> "StartSession"])
    BY DEF AdapterMsgOK
  <2> QED BY <2>1, <2>2, <2>3, <2>4 DEF AdapterCall
<1>2. GNSS \in Added /\ UNCHANGED locApiVars
  BY DEF AdapterCall
<1>3. Added' = Added /\ Grown(<<m>>) /\ Len(<<m>>) = 1 /\ <<m>>[1] = m
  BY <1>0, <1>1, <1>2, OneMore DEF locApiVars, Added
<1>4. PICK r : /\ Grown(r) /\ Len(r) = 1 /\ r[1] = m
  BY <1>3
<1>5. \A i \in 1..Len(r) : AdapterMsgOK(r[i]) /\ r[i].msg # "Ssr"
  BY <1>1, <1>4
<1>6. ArrayOK' /\ ModemOK' /\ EventsOK'
  BY <1>0, <1>2 DEF locApiVars, ArrayOK, ModemOK, EventsOK, ClientEvents
<1>7. AdapterQueueOK' /\ GnssFirst'
  BY <1>0, <1>2, <1>3, <1>4, <1>5, GrownQueue DEF GnssFirst
<1>8. NmeaFirst'
  BY <1>0, <1>2, <1>3, <1>4, NmeaGrows DEF locApiVars
<1>9. OpenOrToOpen'
  BY <1>0, <1>2, <1>4, OpenGrows DEF locApiVars, arrayVars
<1>10. NewsFollows' /\ ServedOrRestarted'
  BY <1>0, <1>2, <1>4, <1>5, NewsGrows, ServedGrows DEF locApiVars
<1> QED BY <1>6, <1>7, <1>8, <1>9, <1>10 DEF AdaptersInv

LEMMA AddAdapterQueue ==
  ASSUME AdapterQueueOK, NEW a, addAdapter(a)
  PROVE  \E r : /\ Grown(r) /\ Len(r) \in {1, 2} /\ r[1] = [msg |-> "Open"]
               /\ IF a = GNSS THEN Len(r) = 2 /\ r[2] = [msg |-> "SetConfig"] ELSE Len(r) = 1
<1> DEFINE open == <<[msg |-> "Open"]>>
           r == IF a = GNSS THEN <<[msg |-> "Open"], [msg |-> "SetConfig"]>> ELSE open
<1>1. IsQueue(msgQ) /\ IsQueue(open) /\ IsQueue(r)
  BY ShortQueues DEF AdapterQueueOK
<1>2. msgQ' = (msgQ \o open) \o (IF a = GNSS THEN <<[msg |-> "SetConfig"]>> ELSE <<>>)
  BY DEF addAdapter
<1>3. (msgQ \o open) \o <<>> = msgQ \o open
  BY <1>1, QueueConcat, ConcatNothing
<1>4. (msgQ \o open) \o <<[msg |-> "SetConfig"]>> = msgQ \o <<[msg |-> "Open"], [msg |-> "SetConfig"]>>
  BY <1>1, ConcatTwo
<1>5. msgQ' = msgQ \o r
  BY <1>2, <1>3, <1>4
<1>6. /\ Len(r) \in {1, 2} /\ r[1] = [msg |-> "Open"]
      /\ IF a = GNSS THEN Len(r) = 2 /\ r[2] = [msg |-> "SetConfig"] ELSE Len(r) = 1
  OBVIOUS
<1> QED BY <1>1, <1>5, <1>6 DEF Grown

LEMMA AddAdapterStep ==
  ASSUME AdaptersInv, NEW a \in Others \union {GNSS}, addAdapter(a)
  PROVE  AdaptersInv'
<1>0. /\ ArrayOK /\ AdapterQueueOK /\ ModemOK /\ GnssFirst /\ EventsOK
      /\ NmeaFirst /\ OpenOrToOpen /\ NewsFollows /\ ServedOrRestarted
  BY DEF AdaptersInv
<1>1. PICK r : /\ Grown(r) /\ Len(r) \in {1, 2} /\ r[1] = [msg |-> "Open"]
               /\ IF a = GNSS THEN Len(r) = 2 /\ r[2] = [msg |-> "SetConfig"] ELSE Len(r) = 1
  BY <1>0, AddAdapterQueue
<1>2. \A i \in 1..Len(r) : /\ AdapterMsgOK(r[i]) /\ r[i].msg \notin {"Ssr", "SaveClient"}
                           /\ a # GNSS => r[i].msg = "Open"
  BY <1>1 DEF AdapterMsgOK
<1>3. UNCHANGED <<missed, mEvtMask, wantVars, supported, modem, sessions>>
  BY DEF addAdapter
<1>4. ArrayOK' /\ Added' = Added \union {a}
  BY <1>0, AddStep
<1>5. ModemOK' /\ EventsOK'
  BY <1>0, <1>3 DEF ModemOK, EventsOK, ClientEvents, wantVars
<1>6. AdapterQueueOK'
  BY <1>0, <1>1, <1>2, GrownQueue
<1>7. GnssFirst'
  <2>1. CASE GNSS \in Added'
    BY <2>1 DEF GnssFirst
  <2>2. CASE GNSS \notin Added'
    <3>1. a # GNSS /\ GNSS \notin Added
      BY <1>4, <2>2
    <3>2. \A i \in 1..Len(msgQ') : msgQ'[i].msg \in {"Open", "Ssr"}
      BY <1>0, <1>1, <1>2, <3>1, GrownQueue DEF GnssFirst
    <3> QED BY <1>0, <1>3, <3>1, <3>2 DEF GnssFirst, wantVars
  <2> QED BY <2>1, <2>2
<1>8. NmeaFirst'
  <2>1. GNSS \in Added' => GNSS \in Added \/ \E i \in 1..Len(r) : r[i].msg = "SetConfig"
    BY <1>1, <1>4
  <2> QED BY <1>0, <1>1, <1>2, <1>3, <2>1, NmeaGrows DEF wantVars
<1>9. OpenOrToOpen'
  <2>1. 1 \in 1..Len(r) /\ r[1].msg \in {"Open", "Ssr"}
    BY <1>1
  <2> QED BY <1>0, <1>1, <2>1, ToBeOpened
<1>10. NewsFollows' /\ ServedOrRestarted'
  BY <1>0, <1>1, <1>2, <1>3, NewsGrows, ServedGrows
<1> QED BY <1>4, <1>5, <1>6, <1>7, <1>8, <1>9, <1>10 DEF AdaptersInv

LEMMA RemoveAdapterStep ==
  ASSUME AdaptersInv, NEW a \in Others, removeAdapter(a)
  PROVE  AdaptersInv'
<1>0. /\ ArrayOK /\ AdapterQueueOK /\ ModemOK /\ GnssFirst /\ EventsOK
      /\ NmeaFirst /\ OpenOrToOpen /\ NewsFollows /\ ServedOrRestarted
  BY DEF AdaptersInv
<1>1. UNCHANGED <<taskVars, missed, mEvtMask, wantVars, supported, modem, sessions>>
  BY DEF removeAdapter
<1>2. ArrayOK' /\ Added' = Added \ {a} /\ removing' # <<>>
  BY <1>0, RemoveStep
<1>3. GNSS \in Added' <=> GNSS \in Added
  BY <1>2, AdaptersAssumption
<1>4. ModemOK' /\ EventsOK' /\ AdapterQueueOK'
  BY <1>0, <1>1 DEF ModemOK, EventsOK, ClientEvents, wantVars, taskVars, AdapterQueueOK, AdapterMsgOK
<1>5. GnssFirst' /\ NmeaFirst'
  BY <1>0, <1>1, <1>3 DEF GnssFirst, NmeaFirst, ClientEvents, wantVars, taskVars
<1>6. OpenOrToOpen'
  BY <1>2 DEF OpenOrToOpen
<1>7. NewsFollows' /\ ServedOrRestarted'
  BY <1>0, <1>1 DEF NewsFollows, ServedOrRestarted, NoSsr, LastRestart, taskVars
<1> QED BY <1>2, <1>4, <1>5, <1>6, <1>7 DEF AdaptersInv

LEMMA FillHoleStep ==
  ASSUME AdaptersInv, fillHole
  PROVE  AdaptersInv'
<1>0. /\ ArrayOK /\ AdapterQueueOK /\ ModemOK /\ GnssFirst /\ EventsOK
      /\ NmeaFirst /\ OpenOrToOpen /\ NewsFollows /\ ServedOrRestarted
  BY DEF AdaptersInv
<1>1. UNCHANGED <<missed, mEvtMask, wantVars, supported, sessions>>
  BY DEF fillHole
<1>2. /\ ArrayOK' /\ Added' = Added /\ removing' = <<>>
      /\ \/ Added' = {} /\ modem' = Closed(modem) /\ UNCHANGED taskVars
         \/ Post([msg |-> "Open"]) /\ UNCHANGED modem
  BY <1>0, FillStep
<1>3. EventsOK'
  BY <1>0, <1>1 DEF EventsOK, ClientEvents, wantVars
<1>4. CASE Added' = {} /\ modem' = Closed(modem) /\ UNCHANGED taskVars
  <2>1. ModemOK'
    BY <1>0, <1>1, <1>4 DEF ModemOK, Closed
  <2>2. AdapterQueueOK' /\ GnssFirst' /\ NmeaFirst'
    BY <1>0, <1>1, <1>2, <1>4
       DEF AdapterQueueOK, AdapterMsgOK, GnssFirst, NmeaFirst, ClientEvents, wantVars, taskVars
  <2>3. OpenOrToOpen'
    BY <1>4 DEF OpenOrToOpen
  <2>4. ~sessions'
    BY <1>0, <1>1, <1>2, <1>4 DEF GnssFirst
  <2>5. NewsFollows' /\ ServedOrRestarted'
    BY <1>0, <1>1, <1>4, <2>4 DEF NewsFollows, ServedOrRestarted, NoSsr, LastRestart, taskVars
  <2> QED BY <1>2, <1>3, <2>1, <2>2, <2>3, <2>5 DEF AdaptersInv
<1>5. CASE Post([msg |-> "Open"]) /\ UNCHANGED modem
  <2>1. PICK r : Grown(r) /\ Len(r) = 1 /\ r[1] = [msg |-> "Open"]
    BY <1>0, <1>5, OneMore DEF Post
  <2>2. \A i \in 1..Len(r) : AdapterMsgOK(r[i]) /\ r[i].msg = "Open"
    BY <2>1 DEF AdapterMsgOK
  <2>3. ModemOK'
    BY <1>0, <1>1, <1>5 DEF ModemOK
  <2>4. AdapterQueueOK' /\ GnssFirst'
    <3>1. AdapterQueueOK'
      BY <1>0, <2>1, <2>2, GrownQueue
    <3>2. ASSUME \A i \in 1..Len(msgQ) : msgQ[i].msg \in {"Open", "Ssr"}
          PROVE  \A i \in 1..Len(msgQ') : msgQ'[i].msg \in {"Open", "Ssr"}
      BY <1>0, <2>1, <2>2, <3>2, GrownQueue
    <3> QED BY <1>0, <1>1, <1>2, <3>1, <3>2 DEF GnssFirst, wantVars
  <2>5. NmeaFirst'
    BY <1>0, <1>1, <1>2, <2>1, <2>2, NmeaGrows DEF wantVars
  <2>6. OpenOrToOpen'
    <3>1. 1 \in 1..Len(r) /\ r[1].msg \in {"Open", "Ssr"}
      BY <2>1
    <3> QED BY <1>0, <2>1, <3>1, ToBeOpened
  <2>7. NewsFollows' /\ ServedOrRestarted'
    BY <1>0, <1>1, <1>5, <2>1, <2>2, NewsGrows, ServedGrows
  <2> QED BY <1>2, <1>3, <2>3, <2>4, <2>5, <2>6, <2>7 DEF AdaptersInv
<1> QED BY <1>2, <1>4, <1>5

LEMMA GoDownStep ==
  ASSUME AdaptersInv, goDown
  PROVE  AdaptersInv'
<1>0. /\ ArrayOK /\ AdapterQueueOK /\ ModemOK /\ GnssFirst /\ EventsOK
      /\ NmeaFirst /\ OpenOrToOpen /\ NewsFollows /\ ServedOrRestarted
  BY DEF AdaptersInv
<1>1. /\ UNCHANGED <<taskVars, arrayVars, mEvtMask, wantVars, supported, sessions>>
      /\ modem' = [Closed(modem) EXCEPT !.up = FALSE]
  BY DEF goDown
<1>2. ModemOK' /\ ~modem'.up
  BY <1>0, <1>1 DEF ModemOK, Closed, arrayVars
<1>3. ArrayOK' /\ EventsOK' /\ AdapterQueueOK' /\ Added' = Added
  BY <1>0, <1>1 DEF ArrayOK, EventsOK, ClientEvents, AdapterQueueOK, AdapterMsgOK, Added, arrayVars,
                    wantVars, taskVars
<1>4. GnssFirst' /\ NmeaFirst'
  BY <1>0, <1>1, <1>3 DEF GnssFirst, NmeaFirst, ClientEvents, wantVars, taskVars
<1>5. OpenOrToOpen' /\ ServedOrRestarted'
  BY <1>2 DEF OpenOrToOpen, ServedOrRestarted
<1>6. NewsFollows'
  BY <1>0, <1>1 DEF NewsFollows, NoSsr, LastRestart, taskVars, arrayVars
<1> QED BY <1>2, <1>3, <1>4, <1>5, <1>6 DEF AdaptersInv

LEMMA EngineUpQueue ==
  ASSUME AdapterQueueOK, handleEngineUpEvent
  PROVE  \E r : /\ Grown(r) /\ Len(r) \in {1, 3} /\ r[1] = [msg |-> "Ssr"]
               /\ IF GNSS \in ToAll
                    THEN Len(r) = 3 /\ r[2] = [msg |-> "SetConfig"] /\ r[3] = [msg |-> "RestartSessions"]
                    ELSE Len(r) = 1
<1> DEFINE ssr == <<[msg |-> "Ssr"]>>
           news == <<[msg |-> "SetConfig"], [msg |-> "RestartSessions"]>>
<1>1. IsQueue(ssr) /\ IsQueue(news)
  BY ShortQueues
<1>2. msgQ' = msgQ \o EngineUpMsgs
  BY DEF handleEngineUpEvent
<1>3. CASE GNSS \in ToAll
  <2>1. EngineUpMsgs = ssr \o news
    BY <1>3 DEF EngineUpMsgs, AdapterMsgs
  <2>2. Len(ssr) = 1 /\ ssr[1] = [msg |-> "Ssr"]
    OBVIOUS
  <2>3. Len(news) = 2 /\ news[1] = [msg |-> "SetConfig"] /\ news[2] = [msg |-> "RestartSessions"]
    OBVIOUS
  <2> HIDE DEF ssr, news
  <2>4. /\ IsQueue(ssr \o news) /\ Len(ssr \o news) = Len(ssr) + Len(news)
        /\ \A i \in 1..Len(ssr) : (ssr \o news)[i] = ssr[i]
        /\ \A i \in 1..Len(news) : (ssr \o news)[Len(ssr) + i] = news[i]
    BY <1>1, QueueConcat
  <2>5. /\ Len(ssr \o news) = 3 /\ (ssr \o news)[1] = [msg |-> "Ssr"]
        /\ (ssr \o news)[1 + 1] = [msg |-> "SetConfig"]
        /\ (ssr \o news)[1 + 2] = [msg |-> "RestartSessions"]
    BY <2>2, <2>3, <2>4
  <2>6. PICK r : r = ssr \o news
    OBVIOUS
  <2>7. /\ IsQueue(r) /\ msgQ' = msgQ \o r
        /\ Len(r) = 3 /\ r[1] = [msg |-> "Ssr"] /\ r[2] = [msg |-> "SetConfig"]
        /\ r[3] = [msg |-> "RestartSessions"]
    BY <1>2, <2>1, <2>4, <2>5, <2>6
  <2> QED BY <1>3, <2>7 DEF Grown
<1>4. CASE GNSS \notin ToAll
  <2>1. EngineUpMsgs = ssr \o <<>>
    BY <1>4 DEF EngineUpMsgs, AdapterMsgs
  <2>2. Len(ssr) = 1 /\ ssr[1] = [msg |-> "Ssr"]
    OBVIOUS
  <2> HIDE DEF ssr, news
  <2>3. ssr \o <<>> = ssr
    BY <1>1, ConcatNothing
  <2> QED BY <1>1, <1>2, <1>4, <2>1, <2>2, <2>3 DEF Grown
<1> QED BY <1>3, <1>4

LEMMA EngineUpStep ==
  ASSUME AdaptersInv, handleEngineUpEvent
  PROVE  AdaptersInv'
<1>0. /\ ArrayOK /\ AdapterQueueOK /\ ModemOK /\ GnssFirst /\ EventsOK
      /\ NmeaFirst /\ OpenOrToOpen /\ NewsFollows /\ ServedOrRestarted
  BY DEF AdaptersInv
<1>1. PICK r : /\ Grown(r) /\ Len(r) \in {1, 3} /\ r[1] = [msg |-> "Ssr"]
               /\ IF GNSS \in ToAll
                    THEN Len(r) = 3 /\ r[2] = [msg |-> "SetConfig"] /\ r[3] = [msg |-> "RestartSessions"]
                    ELSE Len(r) = 1
  BY <1>0, EngineUpQueue
<1>2. \A i \in 1..Len(r) : /\ AdapterMsgOK(r[i]) /\ r[i].msg \notin {"StartSession", "SaveClient"}
                           /\ GNSS \notin ToAll => r[i].msg = "Ssr"
  BY <1>1 DEF AdapterMsgOK
<1>3. /\ UNCHANGED <<mLocAdapters, removing, mEvtMask, wantVars, supported, sessions>>
      /\ modem' = [modem EXCEPT !.up = TRUE]
      /\ missed' = (missed \/ (GNSS \in Added /\ GNSS \notin ToAll))
  BY DEF handleEngineUpEvent
<1>4. ModemOK'
  BY <1>0, <1>3 DEF ModemOK
<1>5. ArrayOK' /\ EventsOK' /\ Added' = Added
  BY <1>0, <1>3 DEF ArrayOK, EventsOK, ClientEvents, Added, wantVars
<1>6. AdapterQueueOK'
  BY <1>0, <1>1, <1>2, GrownQueue
<1>7. GNSS \in ToAll => GNSS \in Added
  BY AdaptersAssumption DEF ToAll, Added, GNSS, NULL
<1>8. GnssFirst'
  <2>1. CASE GNSS \in Added
    BY <1>5, <2>1 DEF GnssFirst
  <2>2. CASE GNSS \notin Added
    <3>1. \A i \in 1..Len(msgQ') : msgQ'[i].msg \in {"Open", "Ssr"}
      BY <1>0, <1>1, <1>2, <1>7, <2>2, GrownQueue DEF GnssFirst
    <3> QED BY <1>0, <1>3, <2>2, <3>1 DEF GnssFirst, wantVars
  <2> QED BY <2>1, <2>2
<1>9. NmeaFirst'
  BY <1>0, <1>1, <1>2, <1>3, <1>5, NmeaGrows DEF wantVars
<1>10. OpenOrToOpen'
  <2>1. 1 \in 1..Len(r) /\ r[1].msg \in {"Open", "Ssr"}
    BY <1>1
  <2> QED BY <1>0, <1>1, <2>1, ToBeOpened
<1>11. GNSS \in ToAll => \E i \in 1..Len(msgQ') :
                           /\ LastRestart(i)'
                           /\ \E j \in 1 .. i - 1 : msgQ'[j].msg = "Ssr"
  <2> SUFFICES ASSUME GNSS \in ToAll PROVE \E i \in 1..Len(msgQ') :
                                         /\ LastRestart(i)'
                                         /\ \E j \in 1 .. i - 1 : msgQ'[j].msg = "Ssr"
    OBVIOUS
  <2>0. PICK n : n = Len(msgQ)
    OBVIOUS
  <2>1. /\ n \in Nat /\ Len(msgQ') = n + 3
        /\ \A i \in 1..3 : msgQ'[n + i] = r[i]
    <3>1. /\ Len(msgQ) \in Nat /\ Len(msgQ') = Len(msgQ) + Len(r)
          /\ \A i \in 1..Len(r) : msgQ'[Len(msgQ) + i] = r[i]
      BY <1>0, <1>1, GrownQueue
    <3> QED BY <1>1, <2>0, <3>1
  <2>2. msgQ'[n + 1].msg = "Ssr" /\ msgQ'[n + 3].msg = "RestartSessions"
    BY <1>1, <2>1
  <2>3. LastRestart(n + 3)'
    BY <2>1, <2>2 DEF LastRestart
  <2>4. n + 3 \in 1..Len(msgQ') /\ n + 1 \in 1 .. (n + 3) - 1
    BY <2>1
  <2> QED BY <2>2, <2>3, <2>4
<1>12. NewsFollows'
  <2>1. CASE GNSS \in ToAll
    BY <1>11, <2>1 DEF NewsFollows
  <2>2. CASE GNSS \in Added /\ GNSS \notin ToAll
    BY <1>3, <2>2 DEF NewsFollows
  <2>3. CASE GNSS \notin Added
    <3>1. \A i \in 1..Len(msgQ') : msgQ'[i].msg \in {"Open", "Ssr"}
      BY <1>0, <1>1, <1>2, <1>7, <2>3, GrownQueue DEF GnssFirst
    <3>2. ASSUME NEW i \in 1..Len(msgQ'), NEW j \in 1 .. i - 1 PROVE msgQ'[j].msg # "StartSession"
      <4>1. j \in 1..Len(msgQ')
        BY <1>0, <1>1, GrownQueue
      <4> QED BY <3>1, <4>1
    <3> QED BY <1>0, <1>3, <2>3, <3>2 DEF NewsFollows, GnssFirst
  <2> QED BY <2>1, <2>2, <2>3
<1>13. ServedOrRestarted'
  <2> SUFFICES ASSUME sessions, ~missed' PROVE ServedOrRestarted'
    BY <1>3 DEF ServedOrRestarted
  <2>1. GNSS \in ToAll
    BY <1>0, <1>3 DEF GnssFirst
  <2> QED BY <1>11, <2>1 DEF ServedOrRestarted
<1> QED BY <1>4, <1>5, <1>6, <1>8, <1>9, <1>10, <1>12, <1>13 DEF AdaptersInv

(* A message of the task leaves the array alone. *)
LEMMA HandledArray ==
  ASSUME AdaptersInv, NEW kind, Handles(kind)
  PROVE  /\ Shrunk /\ Head(msgQ).msg = kind /\ AdapterMsgOK(Head(msgQ))
         /\ ArrayOK' /\ AdapterQueueOK' /\ UNCHANGED arrayVars /\ missed' = missed
         /\ Added' = Added
         /\ kind \notin {"Open", "Ssr"} => GNSS \in Added
<1>1. Shrunk /\ Head(msgQ).msg = kind /\ UNCHANGED arrayVars
  BY DEF Handles, Receive, Takes, Shrunk
<1>2. AdapterQueueOK /\ ArrayOK /\ GnssFirst
  BY DEF AdaptersInv
<1>3. ArrayOK' /\ Added' = Added /\ missed' = missed
  BY <1>1, <1>2 DEF ArrayOK, Added, arrayVars
<1>4. Head(msgQ) = msgQ[1] /\ 1 \in 1..Len(msgQ) /\ AdapterMsgOK(Head(msgQ)) /\ AdapterQueueOK'
  BY <1>1, <1>2, ShrunkQueue
<1>5. kind \notin {"Open", "Ssr"} => GNSS \in Added
  BY <1>1, <1>2, <1>4 DEF GnssFirst
<1> QED BY <1>1, <1>3, <1>4, <1>5

LEMMA GnssFirstShrinks ==
  ASSUME AdapterQueueOK, GnssFirst, Shrunk, Added' = Added,
         GNSS \notin Added => UNCHANGED <<cbInfo, sessions, mClientData>>
  PROVE  GnssFirst'
BY ShrunkQueue DEF GnssFirst

(* LocOpenMsg and LocSsrMsg *)
LEMMA OpenMsgStep ==
  ASSUME AdaptersInv, LocOpenMsg \/ LocSsrMsg
  PROVE  AdaptersInv'
<1>0. /\ ArrayOK /\ AdapterQueueOK /\ ModemOK /\ GnssFirst /\ EventsOK
      /\ NmeaFirst /\ OpenOrToOpen /\ NewsFollows /\ ServedOrRestarted
  BY DEF AdaptersInv
<1>1. PICK kind \in {"Open", "Ssr"} : Handles(kind) /\ (kind = "Open" => LocOpenMsg)
                                                /\ (kind = "Ssr" => LocSsrMsg)
  BY DEF LocOpenMsg, LocSsrMsg
<1>2. /\ Shrunk /\ Head(msgQ).msg = kind
      /\ ArrayOK' /\ AdapterQueueOK' /\ UNCHANGED arrayVars /\ missed' = missed /\ Added' = Added
  BY <1>1, HandledArray
<1>3. UNCHANGED <<mEvtMask, wantVars, sessions>>
  BY DEF LocOpenMsg, LocSsrMsg
<1>4. EventsOK' /\ GnssFirst'
  BY <1>0, <1>2, <1>3, GnssFirstShrinks DEF EventsOK, ClientEvents, wantVars
<1>5. NmeaFirst'
  BY <1>0, <1>2, <1>3, NmeaShrinks DEF wantVars, ClientEvents
<1>6. NewsFollows'
  BY <1>0, <1>2, <1>3, NewsShrinks
<1>7. PICK mask : modem \in [up : BOOLEAN, open : BOOLEAN, mask : {mask}, fix : BOOLEAN]
  BY <1>0 DEF ModemOK
<1>8. getEvtMask' = getEvtMask
  BY <1>2, <1>3 DEF getEvtMask, ToAll, Before, arrayVars, mFgExclMask
<1>9. \/ kind = "Open" /\ modem' = Opened(modem, getEvtMask)
      \/ kind = "Ssr" /\ modem' = Opened(Closed(modem), getEvtMask)
  BY <1>1 DEF LocOpenMsg, LocSsrMsg
<1>10. /\ \E m : modem' \in [up : BOOLEAN, open : BOOLEAN, mask : {m}, fix : BOOLEAN]
       /\ modem'.up = modem.up
       /\ modem.up => modem'.open /\ modem'.mask = getEvtMask
       /\ kind = "Open" => modem'.fix = modem.fix /\ (modem.open => modem'.open)
  <2>1. CASE kind = "Open" /\ modem.up
    <3>1. modem' \in [up : BOOLEAN, open : BOOLEAN, mask : {getEvtMask}, fix : BOOLEAN]
      BY <1>7, <1>9, <2>1 DEF Opened
    <3> QED BY <1>7, <1>9, <2>1, <3>1 DEF Opened
  <2>2. CASE kind = "Open" /\ ~modem.up
    BY <1>7, <1>9, <2>2 DEF Opened
  <2>3. CASE kind = "Ssr" /\ modem.up
    <3>1. modem' \in [up : BOOLEAN, open : BOOLEAN, mask : {getEvtMask}, fix : BOOLEAN]
      BY <1>7, <1>9, <2>3 DEF Opened, Closed
    <3> QED BY <1>7, <1>9, <2>3, <3>1 DEF Opened, Closed
  <2>4. CASE kind = "Ssr" /\ ~modem.up
    <3>1. modem' \in [up : BOOLEAN, open : BOOLEAN, mask : {{}}, fix : BOOLEAN]
      BY <1>7, <1>9, <2>4 DEF Opened, Closed
    <3> QED BY <1>7, <1>9, <2>4, <3>1 DEF Opened, Closed
  <2> QED BY <2>1, <2>2, <2>3, <2>4
<1>11. ModemOK'
  BY <1>0, <1>2, <1>3, <1>10 DEF ModemOK
<1>12. OpenOrToOpen'
  BY <1>8, <1>10 DEF OpenOrToOpen
<1>13. ServedOrRestarted'
  <2>1. CASE kind = "Open"
    BY <1>0, <1>2, <1>3, <1>10, <2>1, ServedShrinks
  <2>2. CASE kind = "Ssr"
    <3>1. modem.open => modem'.open \/ ~modem.up
      BY <1>10
    <3>2. CASE modem.up
      BY <1>0, <1>2, <1>3, <1>10, <2>2, <3>2, ServedShrinks
    <3>3. CASE ~modem.up
      BY <1>10, <3>3 DEF ServedOrRestarted
    <3> QED BY <3>2, <3>3
  <2> QED BY <2>1, <2>2
<1> QED BY <1>2, <1>4, <1>5, <1>6, <1>11, <1>12, <1>13 DEF AdaptersInv

(* What a client comes with, gives up or registers: GnssAdapter then opens *)
(* the modem with all its events                                           *)
LEMMA ReopenStep ==
  ASSUME AdaptersInv, NEW kind, kind \notin {"Open", "Ssr", "SetConfig", "RestartSessions", "StartSession"},
         Handles(kind), NEW mask, Reopen(mask), UNCHANGED <<provider, mNmeaMask, sessions>>,
         EventsOK', kind = "SaveClient" => NmeaFirst',
         kind # "SaveClient" =>
           /\ \A c \in ApiClients : mClientData'[c] = mClientData[c] \/ mClientData'[c] = {}
           /\ mNmeaMask /\ ClientEvents(mClientData, TRUE) \subseteq mEvtMask[GNSS] =>
                ClientEvents(mClientData, TRUE)' \subseteq mEvtMask'[GNSS]
  PROVE  AdaptersInv'
<1>0. /\ ArrayOK /\ AdapterQueueOK /\ ModemOK /\ GnssFirst /\ EventsOK
      /\ NmeaFirst /\ OpenOrToOpen /\ NewsFollows /\ ServedOrRestarted
  BY DEF AdaptersInv
<1>1. /\ Shrunk /\ Head(msgQ).msg = kind
      /\ ArrayOK' /\ AdapterQueueOK' /\ UNCHANGED arrayVars /\ missed' = missed
      /\ Added' = Added /\ GNSS \in Added
  BY HandledArray
<1>2. GnssFirst'
  BY <1>1 DEF GnssFirst
<1>3. NmeaFirst'
  <2>1. CASE kind = "SaveClient"
    BY <2>1
  <2>2. CASE kind # "SaveClient"
    BY <1>0, <1>1, <2>2, NmeaShrinks
  <2> QED BY <2>1, <2>2
<1>4. modem' = Opened(modem, (UNION {mEvtMask'[a] : a \in ToAll}) \ mFgExclMask)
  BY DEF Reopen
<1>5. /\ modem'.up = modem.up /\ modem'.fix = modem.fix /\ (modem.open => modem'.open)
      /\ OpenOrToOpen'
  BY <1>0, <1>1, <1>4, OpenedDelivers
<1>6. ModemOK'
  <2>1. PICK m : modem \in [up : BOOLEAN, open : BOOLEAN, mask : {m}, fix : BOOLEAN]
    BY <1>0 DEF ModemOK
  <2>2. PICK n : modem' = Opened(modem, n)
    BY <1>4
  <2>3. \/ modem' \in [up : BOOLEAN, open : BOOLEAN, mask : {m}, fix : BOOLEAN]
        \/ modem' \in [up : BOOLEAN, open : BOOLEAN, mask : {n}, fix : BOOLEAN]
    BY <2>1, <2>2 DEF Opened
  <2> QED BY <1>0, <1>1, <2>3 DEF ModemOK
<1>7. NewsFollows'
  BY <1>0, <1>1, NewsShrinks
<1>8. ServedOrRestarted'
  BY <1>0, <1>1, <1>5, ServedShrinks
<1> QED BY <1>1, <1>2, <1>3, <1>5, <1>6, <1>7, <1>8 DEF AdaptersInv

LEMMA SaveClientStep ==
  ASSUME AdaptersInv, saveClient
  PROVE  AdaptersInv'
<1>0. EventsOK /\ NmeaFirst /\ AdapterQueueOK
  BY DEF AdaptersInv
<1>1. /\ Shrunk /\ Head(msgQ).msg = "SaveClient" /\ AdapterMsgOK(Head(msgQ))
  BY HandledArray DEF saveClient
<1>2. PICK c \in ApiClients : \E cbs : mClientData' = [mClientData EXCEPT ![c] = cbs]
  BY <1>1 DEF saveClient, AdapterMsgOK
<1>3. /\ Reopen(Wanted(mClientData')) /\ UNCHANGED <<cbInfo, provider, mNmeaMask, sessions>>
  BY DEF saveClient
<1>4. /\ DOMAIN mEvtMask' = Others \union {GNSS} /\ mEvtMask'[GNSS] = Wanted(mClientData')
      /\ \A a \in Others : mEvtMask'[a] = mEvtMask[a]
  BY <1>0, <1>3, AdaptersAssumption DEF Reopen, EventsOK
<1>5. EventsOK'
  BY <1>0, <1>2, <1>3, <1>4 DEF EventsOK, Wanted, ClientEvents
<1>6. NmeaFirst'
  <2> SUFFICES ASSUME provider = "MP" PROVE mNmeaMask' /\ ClientEvents(mClientData, TRUE)' \subseteq mEvtMask'[GNSS]
    BY <1>3 DEF NmeaFirst
  <2>1. Len(msgQ) \in Nat \ {0} /\ Head(msgQ) = msgQ[1] /\ 1 \in 1..Len(msgQ)
    BY <1>0, <1>1, ShrunkQueue
  <2>2. ~ \E i \in 1 .. 1 - 1 : msgQ[i].msg = "SetConfig"
    OBVIOUS
  <2>3. mNmeaMask
    BY <1>0, <1>1, <2>1, <2>2 DEF NmeaFirst
  <2> QED BY <1>3, <1>4, <2>3 DEF Wanted, ClientEvents
<1> QED BY <1>3, <1>5, <1>6, ReopenStep DEF saveClient

LEMMA EraseClientStep ==
  ASSUME AdaptersInv, eraseClient
  PROVE  AdaptersInv'
<1>0. EventsOK
  BY DEF AdaptersInv
<1>1. AdapterMsgOK(Head(msgQ)) /\ Head(msgQ).msg = "EraseClient"
  BY HandledArray DEF eraseClient
<1>2. PICK c \in ApiClients : mClientData' = [mClientData EXCEPT ![c] = {}]
  BY <1>1 DEF eraseClient, AdapterMsgOK
<1>3. /\ Reopen(Wanted(mClientData')) /\ UNCHANGED <<cbInfo, provider, mNmeaMask, sessions>>
  BY DEF eraseClient
<1>4. /\ DOMAIN mEvtMask' = Others \union {GNSS} /\ mEvtMask'[GNSS] = Wanted(mClientData')
      /\ \A a \in Others : mEvtMask'[a] = mEvtMask[a]
  BY <1>0, <1>3, AdaptersAssumption DEF Reopen, EventsOK
<1>5. EventsOK'
  BY <1>0, <1>2, <1>3, <1>4 DEF EventsOK, Wanted, ClientEvents
<1>6. \A d \in ApiClients : mClientData'[d] = mClientData[d] \/ mClientData'[d] = {}
  BY <1>0, <1>2 DEF EventsOK
<1>7. mNmeaMask => ClientEvents(mClientData, TRUE)' \subseteq mEvtMask'[GNSS]
  BY <1>3, <1>4 DEF Wanted, ClientEvents
<1>8. PICK kind, mask : /\ kind = "EraseClient" /\ Handles(kind)
                        /\ mask = Wanted(mClientData') /\ Reopen(mask)
  BY <1>3 DEF eraseClient
<1>9. kind \notin {"Open", "Ssr", "SetConfig", "RestartSessions", "StartSession", "SaveClient"}
  BY <1>8
<1> QED BY <1>3, <1>5, <1>6, <1>7, <1>8, <1>9, ReopenStep

LEMMA InitCallbackStep ==
  ASSUME AdaptersInv, initCallback
  PROVE  AdaptersInv'
<1>0. EventsOK
  BY DEF AdaptersInv
<1>1. PICK mask : /\ mask = mEvtMask[GNSS] \union {Head(msgQ).event} /\ Reopen(mask)
                  /\ cbInfo' = cbInfo \union {Head(msgQ).event}
                  /\ UNCHANGED <<mClientData, provider, mNmeaMask, sessions>>
  BY DEF initCallback
<1>2. /\ DOMAIN mEvtMask' = Others \union {GNSS} /\ mEvtMask'[GNSS] = mask
      /\ \A a \in Others : mEvtMask'[a] = mEvtMask[a]
  BY <1>0, <1>1, AdaptersAssumption DEF Reopen, EventsOK
<1>3. EventsOK'
  BY <1>0, <1>1, <1>2 DEF EventsOK, ClientEvents
<1>4. ClientEvents(mClientData, TRUE)' = ClientEvents(mClientData, TRUE)
  BY <1>1 DEF ClientEvents
<1>5. mNmeaMask /\ ClientEvents(mClientData, TRUE) \subseteq mEvtMask[GNSS] =>
        ClientEvents(mClientData, TRUE)' \subseteq mEvtMask'[GNSS]
  BY <1>1, <1>2, <1>4
<1>6. PICK kind : kind = "InitCallback" /\ Handles(kind)
  BY DEF initCallback
<1>7. kind \notin {"Open", "Ssr", "SetConfig", "RestartSessions", "StartSession", "SaveClient"}
  BY <1>6
<1>8. UNCHANGED <<provider, mNmeaMask, sessions>>
  BY <1>1
<1>9. \A c \in ApiClients : mClientData'[c] = mClientData[c] \/ mClientData'[c] = {}
  BY <1>1
<1> QED BY <1>1, <1>3, <1>5, <1>6, <1>7, <1>8, <1>9, ReopenStep

LEMMA SetConfigStep ==
  ASSUME AdaptersInv, setConfig
  PROVE  AdaptersInv'
<1>0. /\ ArrayOK /\ AdapterQueueOK /\ ModemOK /\ GnssFirst /\ EventsOK
      /\ NmeaFirst /\ OpenOrToOpen /\ NewsFollows /\ ServedOrRestarted
  BY DEF AdaptersInv
<1>1. /\ Shrunk /\ Head(msgQ).msg = "SetConfig"
      /\ ArrayOK' /\ AdapterQueueOK' /\ UNCHANGED arrayVars /\ missed' = missed
      /\ Added' = Added /\ GNSS \in Added
  BY HandledArray DEF setConfig
<1>2. /\ mNmeaMask' = (provider = "MP" \/ supported)
      /\ UNCHANGED <<mEvtMask, mClientData, cbInfo, provider, supported, modem, sessions>>
  BY DEF setConfig
<1>3. ModemOK' /\ EventsOK' /\ GnssFirst'
  BY <1>0, <1>1, <1>2 DEF ModemOK, EventsOK, ClientEvents, GnssFirst
<1>4. NmeaFirst'
  <2>1. provider = "MP" => ClientEvents(mClientData, TRUE) \subseteq mEvtMask[GNSS]
    BY <1>0 DEF NmeaFirst, ClientEvents
  <2> QED BY <1>2, <2>1 DEF NmeaFirst, ClientEvents
<1>5. OpenOrToOpen'
  BY <1>0, <1>1, <1>2, OpenShrinks
<1>6. NewsFollows' /\ ServedOrRestarted'
  BY <1>0, <1>1, <1>2, NewsShrinks, ServedShrinks
<1> QED BY <1>1, <1>3, <1>4, <1>5, <1>6 DEF AdaptersInv

LEMMA RestartSessionsStep ==
  ASSUME AdaptersInv, restartSessions
  PROVE  AdaptersInv'
<1>0. /\ ArrayOK /\ AdapterQueueOK /\ ModemOK /\ GnssFirst /\ EventsOK
      /\ NmeaFirst /\ OpenOrToOpen /\ NewsFollows /\ ServedOrRestarted
  BY DEF AdaptersInv
<1>1. /\ Shrunk /\ Head(msgQ).msg = "RestartSessions"
      /\ ArrayOK' /\ AdapterQueueOK' /\ UNCHANGED arrayVars /\ missed' = missed
      /\ Added' = Added /\ GNSS \in Added
  BY HandledArray DEF restartSessions
<1>2. /\ modem' = IF sessions /\ modem.up /\ modem.open THEN [modem EXCEPT !.fix = TRUE] ELSE modem
      /\ UNCHANGED <<mEvtMask, wantVars, supported, sessions>>
  BY DEF restartSessions
<1>3. PICK mask : modem \in [up : BOOLEAN, open : BOOLEAN, mask : {mask}, fix : BOOLEAN]
  BY <1>0 DEF ModemOK
<1>4. /\ modem' \in [up : BOOLEAN, open : BOOLEAN, mask : {mask}, fix : BOOLEAN]
      /\ modem'.up = modem.up /\ modem'.open = modem.open /\ modem'.mask = modem.mask
      /\ modem.fix => modem'.fix
      /\ sessions /\ modem.up /\ modem.open => modem'.fix
  BY <1>2, <1>3
<1>5. ModemOK' /\ EventsOK' /\ GnssFirst'
  BY <1>0, <1>1, <1>2, <1>4 DEF ModemOK, EventsOK, ClientEvents, GnssFirst, wantVars
<1>6. NmeaFirst'
  BY <1>0, <1>1, <1>2, NmeaShrinks DEF wantVars, ClientEvents
<1>7. OpenOrToOpen'
  BY <1>0, <1>1, <1>2, <1>4, OpenShrinks
<1>8. NewsFollows'
  BY <1>0, <1>1, <1>2, NewsShrinks
<1>9. ServedOrRestarted'
  BY <1>0, <1>1, <1>2, <1>4, ServedShrinks
<1> QED BY <1>1, <1>5, <1>6, <1>7, <1>8, <1>9 DEF AdaptersInv

LEMMA StartSessionStep ==
  ASSUME AdaptersInv, startSession
  PROVE  AdaptersInv'
<1>0. /\ ArrayOK /\ AdapterQueueOK /\ ModemOK /\ GnssFirst /\ EventsOK
      /\ NmeaFirst /\ OpenOrToOpen /\ NewsFollows /\ ServedOrRestarted
  BY DEF AdaptersInv
<1>1. /\ Shrunk /\ Head(msgQ).msg = "StartSession"
      /\ ArrayOK' /\ AdapterQueueOK' /\ UNCHANGED arrayVars /\ missed' = missed
      /\ Added' = Added /\ GNSS \in Added
  BY HandledArray DEF startSession
<1>2. PICK ok \in BOOLEAN : /\ ok <=> modem.up /\ modem.open
                           /\ sessions' = (sessions \/ ok)
                           /\ modem' = [modem EXCEPT !.fix = @ \/ ok]
  <2>1. (modem.up /\ modem.open) \in BOOLEAN
    OBVIOUS
  <2> QED BY <2>1 DEF startSession
<1>3. UNCHANGED <<mEvtMask, wantVars, supported>>
  BY DEF startSession
<1>4. PICK mask : modem \in [up : BOOLEAN, open : BOOLEAN, mask : {mask}, fix : BOOLEAN]
  BY <1>0 DEF ModemOK
<1>5. /\ modem' \in [up : BOOLEAN, open : BOOLEAN, mask : {mask}, fix : BOOLEAN]
      /\ modem'.up = modem.up /\ modem'.open = modem.open /\ modem'.mask = modem.mask
      /\ modem.fix \/ ok => modem'.fix
  BY <1>2, <1>4
<1>6. ModemOK' /\ EventsOK' /\ GnssFirst'
  BY <1>0, <1>1, <1>2, <1>3, <1>5 DEF ModemOK, EventsOK, ClientEvents, GnssFirst, wantVars
<1>7. NmeaFirst'
  BY <1>0, <1>1, <1>3, NmeaShrinks DEF wantVars, ClientEvents
<1>8. OpenOrToOpen'
  BY <1>0, <1>1, <1>3, <1>5, OpenShrinks
<1>9. NewsFollows'
  BY <1>0, <1>1, NewsShrinks
<1>10. ServedOrRestarted'
  <2>1. CASE sessions' = sessions
    BY <1>0, <1>1, <1>5, <2>1, ServedShrinks
  <2>2. CASE sessions' # sessions
    <3>1. ok /\ ~sessions /\ sessions' /\ modem'.fix /\ modem'.open
      BY <1>0, <1>2, <1>5, <2>2 DEF ModemOK
    <3> QED BY <1>9, <3>1 DEF NewsFollows, ServedOrRestarted
  <2> QED BY <2>1, <2>2
<1> QED BY <1>1, <1>6, <1>7, <1>8, <1>9, <1>10 DEF AdaptersInv

LEMMA LocApiStep == AdaptersInv /\ LocApiNext => AdaptersInv'
BY AddAdapterStep, RemoveAdapterStep, FillHoleStep, GoDownStep, EngineUpStep, OpenMsgStep,
   SaveClientStep, EraseClientStep, InitCallbackStep, SetConfigStep, RestartSessionsStep,
   StartSessionStep, AdapterCallStep DEF LocApiNext

(* In a behaviour of another part there are no adapters. *)
AdaptersPart ==
  IF part = "adapters" THEN AdaptersInv ELSE ArrayOK /\ removing = <<>> /\ Added = {} /\ ~sessions

LEMMA AdaptersInductive == Spec => []AdaptersPart
<1>1. Init => AdaptersPart
  <2>0. SUFFICES ASSUME Init PROVE AdaptersPart
    OBVIOUS
  <2>1. ArrayOK /\ Added = {} /\ removing = <<>> /\ ~sessions
    BY <2>0, AdaptersAssumption DEF Init, LocApiInit, ArrayOK, Added, Slots
  <2>a. CASE part # "adapters"
    BY <2>1, <2>a DEF AdaptersPart
  <2> SUFFICES ASSUME part = "adapters", LocApiInit, msgQ = <<>> PROVE AdaptersInv
    BY <2>0, <2>a DEF AdaptersPart, Init
  <2>2. AdapterQueueOK
    BY ShortQueues DEF AdapterQueueOK
  <2>3. ModemOK
    <3>1. PICK up \in BOOLEAN : modem = [up |-> up, open |-> FALSE, mask |-> {}, fix |-> FALSE]
      BY DEF LocApiInit
    <3>2. modem \in [up : BOOLEAN, open : BOOLEAN, mask : {{}}, fix : BOOLEAN]
      BY <3>1
    <3> QED BY <3>2 DEF LocApiInit, ModemOK
  <2>4. GnssFirst /\ NmeaFirst
    BY <2>1 DEF LocApiInit, GnssFirst, NmeaFirst
  <2>5. EventsOK
    BY AdaptersAssumption DEF LocApiInit, EventsOK, ClientEvents, Over, Only
  <2>6. OpenOrToOpen
    BY <2>1 DEF OpenOrToOpen
  <2>7. NewsFollows /\ ServedOrRestarted
    BY DEF LocApiInit, NewsFollows, ServedOrRestarted, NoSsr
  <2> QED BY <2>1, <2>2, <2>3, <2>4, <2>5, <2>6, <2>7 DEF AdaptersInv
<1>2. AdaptersPart /\ [Next]_vars => AdaptersPart'
  <2> SUFFICES ASSUME AdaptersPart, [Next]_vars PROVE AdaptersPart'
    OBVIOUS
  <2>1. CASE part = "adapters" /\ part' = part /\ LocApiNext
    BY <2>1, LocApiStep DEF AdaptersPart
  <2>2. CASE UNCHANGED <<part, taskVars, locApiVars>>
    <3>1. UNCHANGED <<part, taskVars, arrayVars, wantVars, mEvtMask, modem, sessions>>
      BY <2>2 DEF locApiVars, arrayVars, wantVars
    <3>2. Added' = Added /\ getEvtMask' = getEvtMask /\ (ArrayOK => ArrayOK')
      BY <3>1 DEF Added, getEvtMask, ToAll, Before, mFgExclMask, ArrayOK, arrayVars
    <3>3. AdapterQueueOK /\ ModemOK /\ GnssFirst => AdapterQueueOK' /\ ModemOK' /\ GnssFirst'
      BY <3>1, <3>2 DEF AdapterQueueOK, AdapterMsgOK, ModemOK, GnssFirst, taskVars, arrayVars, wantVars
    <3>4. EventsOK /\ NmeaFirst => EventsOK' /\ NmeaFirst'
      BY <3>1, <3>2 DEF EventsOK, NmeaFirst, ClientEvents, taskVars, wantVars
    <3>5. OpenOrToOpen => OpenOrToOpen'
      BY <3>1, <3>2 DEF OpenOrToOpen, taskVars, arrayVars
    <3>6. NewsFollows /\ ServedOrRestarted => NewsFollows' /\ ServedOrRestarted'
      BY <3>1 DEF NewsFollows, ServedOrRestarted, NoSsr, LastRestart, taskVars, arrayVars
    <3>7. AdaptersInv => AdaptersInv'
      BY <3>2, <3>3, <3>4, <3>5, <3>6 DEF AdaptersInv
    <3>8. part' = part /\ removing' = removing /\ sessions' = sessions
      BY <3>1 DEF arrayVars
    <3> QED BY <3>2, <3>7, <3>8 DEF AdaptersPart
  <2>3. CASE part # "adapters" /\ UNCHANGED <<part, locApiVars>>
    BY <2>3 DEF AdaptersPart, ArrayOK, Added, locApiVars
  <2> QED BY <2>1, <2>2, <2>3 DEF Next, vars
<1> QED BY <1>1, <1>2, PTL DEF Spec

(* Reports of the modem reach every adapter of the array, and its requests *)
(* GnssAdapter, however adapters came and went (LocApiBase.cpp, addAdapter,*)
(* removeAdapter and the loops that stop at the first hole).               *)
THEOREM ReportsReach == Spec => []ReportsReachAdded
<1>1. AdaptersPart => ReportsReachAdded
  BY ArrayFilled DEF AdaptersPart, AdaptersInv, ReportsReachAdded
<1> QED BY <1>1, AdaptersInductive, PTL

LEMMA AllWithin ==
  ASSUME NEW a, NEW b, NEW c, NEW m, a \subseteq m, b \subseteq m, c \subseteq m
  PROVE  a \union b \union c \subseteq m
OBVIOUS

LEMMA LessWithin ==
  ASSUME NEW a, NEW m, a \subseteq m
  PROVE  a \ {} \subseteq m
OBVIOUS

(* A modem that is up delivers, when all is handled, what is wanted of it  *)
(* (LocApiBase::getEvtMask, GnssAdapter::updateClientsEventMask).          *)
THEOREM DeliversWanted == Spec => []ModemDeliversWanted
<1>1. AdaptersPart => ModemDeliversWanted
  <2> SUFFICES ASSUME part = "adapters", AdaptersInv, msgQ = <<>>, removing = <<>>, modem.up, Added # {}
               PROVE  /\ modem.open
                      /\ cbInfo \union (UNION {OthersMask[a] : a \in Added \ {GNSS}})
                           \union ((UNION {mClientData[c] : c \in ApiClients})
                                     \ (IF provider = "MP" THEN {} ELSE {"nmea"})) \subseteq modem.mask
    BY DEF AdaptersPart, ModemDeliversWanted, ApiIdle
  <2>0. ArrayOK /\ GnssFirst /\ EventsOK /\ NmeaFirst /\ OpenOrToOpen
    BY DEF AdaptersInv
  <2>1. modem.open /\ getEvtMask \subseteq modem.mask
    BY <2>0 DEF OpenOrToOpen
  <2>2. getEvtMask = (UNION {mEvtMask[a] : a \in Added})
    BY <2>0, ArrayFilled DEF ReportsReachAdded, getEvtMask, mFgExclMask
  <2>3. ASSUME NEW a \in Added PROVE mEvtMask[a] \subseteq modem.mask
    BY <2>1, <2>2
  <2>4. Added \subseteq Others \union {GNSS}
    BY <2>0 DEF Added, ArrayOK
  <2>5. (UNION {OthersMask[a] : a \in Added \ {GNSS}}) \subseteq modem.mask
    BY <2>0, <2>3, <2>4 DEF EventsOK
  <2>6. CASE GNSS \in Added
    <3>1. mEvtMask[GNSS] \subseteq modem.mask
      BY <2>3, <2>6
    <3>2. cbInfo \subseteq modem.mask
      BY <2>0, <3>1 DEF EventsOK
    <3>3. (UNION {mClientData[c] : c \in ApiClients}) \ {"nmea"} \subseteq modem.mask
      BY <2>0, <3>1 DEF EventsOK, ClientEvents
    <3>4. provider = "MP" => (UNION {mClientData[c] : c \in ApiClients}) \subseteq modem.mask
      BY <2>0, <2>6, <3>1 DEF NmeaFirst, ClientEvents
    <3>5. (UNION {mClientData[c] : c \in ApiClients}) \ (IF provider = "MP" THEN {} ELSE {"nmea"})
            \subseteq modem.mask
      <4>1. CASE provider = "MP"
        BY <3>4, <4>1, LessWithin
      <4>2. CASE provider # "MP"
        BY <3>3, <4>2
      <4> QED BY <4>1, <4>2
    <3> QED BY <2>1, <2>5, <3>2, <3>5, AllWithin
  <2>7. CASE GNSS \notin Added
    <3>1. cbInfo = {} /\ \A c \in ApiClients : mClientData[c] = {}
      BY <2>0, <2>7 DEF GnssFirst
    <3> QED BY <2>1, <2>5, <3>1
  <2> QED BY <2>6, <2>7
<1> QED BY <1>1, AdaptersInductive, PTL

(* Sessions go on after a restart of the modem (handleEngineUpEvent,       *)
(* GnssAdapter::restartSessions).                                          *)
THEOREM Restarted == Spec => []SessionsRestarted
<1>1. AdaptersPart => SessionsRestarted
  BY DEF AdaptersPart, AdaptersInv, ServedOrRestarted, SessionsRestarted, ApiIdle
<1> QED BY <1>1, AdaptersInductive, PTL

-----------------------------------------------------------------------------
(* LocationAPIClientBase: the batching sessions and the queue of requests *)

SessionDictOK ==
  /\ lastSession \in Nat /\ shifted \in BOOLEAN
  /\ mSessionBiDict \in [Ids -> [session : 0..lastSession, mode : SessionModes]]
  /\ \A i, j \in Ids : hasId(i) /\ mSessionBiDict[i].session = mSessionBiDict[j].session => i = j

(* What the FLP is to do: the start of a session is its first command, and *)
(* a command without a request is a stop of a session nobody has.          *)
CommandsOK ==
  /\ IsQueue(flpCommands) /\ IsQueue(sessionRequests)
  /\ \A k \in 1..Len(flpCommands) :
       /\ flpCommands[k].session \in 1..lastSession
       /\ \/ flpCommands[k].requested
          \/ flpCommands[k].op = "stop" /\ ~hasSession(flpCommands[k].session)
       /\ flpCommands[k].op = "start" =>
            \A j \in 1 .. k - 1 : flpCommands[j].session # flpCommands[k].session

FlpOK ==
  /\ flpRunning \subseteq 1..lastSession /\ flpTrips \subseteq flpRunning
  /\ \A k \in 1..Len(flpCommands) :
       flpCommands[k].op = "start" => flpCommands[k].session \notin flpRunning

(* The requests in the queue are those of the commands, in their order     *)
Answers(kind, op) == kind = op \/ (kind = "update" /\ op = "start")
MatchedBy(f, q, c) ==
  /\ f \in [1..Len(q) -> 1..Len(c)]
  /\ \A i, j \in 1..Len(q) : i < j => f[i] < f[j]
  /\ \A i \in 1..Len(q) : /\ c[f[i]].requested /\ c[f[i]].session = q[i].session
                          /\ Answers(q[i].kind, c[f[i]].op)
  /\ \A k \in 1..Len(c) : c[k].requested => \E i \in 1..Len(q) : f[i] = k
Matched(q, c) == \E f \in [1..Len(q) -> 1..Len(c)] : MatchedBy(f, q, c)

(* A session that an answer makes the client forget is over.               *)
ForgottenOver ==
  /\ answering.session \in 0..lastSession
  /\ ~shifted /\ answering # NoAnswer /\ Forgets(answering) =>
       answering.session \notin flpRunning /\ ~Queued("start", answering.session)

RequestsMatch == ~shifted => Matched(sessionRequests, flpCommands)

SessionsInv ==
  /\ SessionDictOK /\ CommandsOK /\ FlpOK /\ RequestsMatch /\ ForgottenOver
  /\ AnswersMatch /\ SessionStoppable

LEMMA MatchedBoth ==
  ASSUME NEW q, IsQueue(q), NEW c, IsQueue(c), Matched(q, c), NEW r, NEW d,
         d.requested, d.session = r.session, Answers(r.kind, d.op)
  PROVE  Matched(Append(q, r), Append(c, d))
<1>1. PICK f \in [1..Len(q) -> 1..Len(c)] : MatchedBy(f, q, c)
  BY DEF Matched
<1>2. PICK m, n : m = Len(q) /\ n = Len(c)
  OBVIOUS
<1>3. PICK q1 : /\ q1 = Append(q, r) /\ Len(q1) = m + 1 /\ q1[m + 1] = r
                /\ \A i \in 1..m : q1[i] = q[i]
  <2>1. /\ Len(q) \in Nat /\ Len(Append(q, r)) = Len(q) + 1
        /\ Append(q, r)[Len(q) + 1] = r
        /\ \A i \in 1..Len(q) : Append(q, r)[i] = q[i]
    BY QueueAppend
  <2> QED BY <1>2, <2>1
<1>4. PICK c1 : /\ c1 = Append(c, d) /\ Len(c1) = n + 1 /\ c1[n + 1] = d
                /\ \A i \in 1..n : c1[i] = c[i]
  <2>1. /\ Len(c) \in Nat /\ Len(Append(c, d)) = Len(c) + 1
        /\ Append(c, d)[Len(c) + 1] = d
        /\ \A i \in 1..Len(c) : Append(c, d)[i] = c[i]
    BY QueueAppend
  <2> QED BY <1>2, <2>1
<1>5. m \in Nat /\ n \in Nat
  BY <1>2, QueueAppend
<1>6. /\ f \in [1..m -> 1..n]
      /\ \A i, j \in 1..m : i < j => f[i] < f[j]
      /\ \A i \in 1..m : /\ c[f[i]].requested /\ c[f[i]].session = q[i].session
                         /\ Answers(q[i].kind, c[f[i]].op)
      /\ \A k \in 1..n : c[k].requested => \E i \in 1..m : f[i] = k
  BY <1>1, <1>2 DEF MatchedBy
<1> DEFINE g == [i \in 1..m + 1 |-> IF i = m + 1 THEN n + 1 ELSE f[i]]
<1>7. /\ g \in [1..m + 1 -> 1..n + 1] /\ g[m + 1] = n + 1
      /\ \A i \in 1..m : i # m + 1 /\ i \in 1..m + 1 /\ g[i] = f[i]
      /\ \A i \in 1..m + 1 : i \in 1..m \/ i = m + 1
  BY <1>5, <1>6
<1> HIDE DEF g
<1>8. \A i, j \in 1..m + 1 : i < j => g[i] < g[j]
  <2> SUFFICES ASSUME NEW i \in 1..m + 1, NEW j \in 1..m + 1, i < j PROVE g[i] < g[j]
    OBVIOUS
  <2>1. i \in 1..m
    BY <1>5
  <2>2. CASE j = m + 1
    BY <1>5, <1>6, <1>7, <2>1, <2>2
  <2>3. CASE j \in 1..m
    BY <1>6, <1>7, <2>1, <2>3
  <2> QED BY <1>7, <2>2, <2>3
<1>9. \A i \in 1..m + 1 : /\ c1[g[i]].requested /\ c1[g[i]].session = q1[i].session
                          /\ Answers(q1[i].kind, c1[g[i]].op)
  BY <1>3, <1>4, <1>6, <1>7
<1>10. \A k \in 1..n + 1 : c1[k].requested => \E i \in 1..m + 1 : g[i] = k
  <2> SUFFICES ASSUME NEW k \in 1..n + 1, c1[k].requested PROVE \E i \in 1..m + 1 : g[i] = k
    OBVIOUS
  <2>1. CASE k = n + 1
    BY <1>5, <1>7, <2>1
  <2>2. CASE k # n + 1
    <3>1. k \in 1..n
      BY <1>5, <2>2
    <3>2. PICK i \in 1..m : f[i] = k
      BY <1>4, <1>6, <3>1
    <3> QED BY <1>7, <3>2
  <2> QED BY <2>1, <2>2
<1>11. MatchedBy(g, q1, c1)
  BY <1>3, <1>4, <1>7, <1>8, <1>9, <1>10 DEF MatchedBy
<1>12. Matched(q1, c1)
  BY <1>3, <1>4, <1>7, <1>11 DEF Matched
<1> QED BY <1>3, <1>4, <1>12

LEMMA MatchedMore ==
  ASSUME NEW q, NEW c, IsQueue(c), Matched(q, c), NEW d, ~d.requested
  PROVE  Matched(q, Append(c, d))
<1>1. PICK f \in [1..Len(q) -> 1..Len(c)] : MatchedBy(f, q, c)
  BY DEF Matched
<1>2. PICK n : n = Len(c)
  OBVIOUS
<1>3. PICK c1 : /\ c1 = Append(c, d) /\ Len(c1) = n + 1 /\ c1[n + 1] = d
                /\ \A i \in 1..n : c1[i] = c[i]
  <2>1. /\ Len(c) \in Nat /\ Len(Append(c, d)) = Len(c) + 1
        /\ Append(c, d)[Len(c) + 1] = d
        /\ \A i \in 1..Len(c) : Append(c, d)[i] = c[i]
    BY QueueAppend
  <2> QED BY <1>2, <2>1
<1>4. n \in Nat
  BY <1>2, QueueAppend
<1>5. /\ f \in [1..Len(q) -> 1..n]
      /\ \A i, j \in 1..Len(q) : i < j => f[i] < f[j]
      /\ \A i \in 1..Len(q) : /\ c[f[i]].requested /\ c[f[i]].session = q[i].session
                              /\ Answers(q[i].kind, c[f[i]].op)
      /\ \A k \in 1..n : c[k].requested => \E i \in 1..Len(q) : f[i] = k
  BY <1>1, <1>2 DEF MatchedBy
<1>6. f \in [1..Len(q) -> 1..n + 1]
  BY <1>4, <1>5
<1>7. \A i \in 1..Len(q) : /\ c1[f[i]].requested /\ c1[f[i]].session = q[i].session
                           /\ Answers(q[i].kind, c1[f[i]].op)
  BY <1>3, <1>5
<1>8. \A k \in 1..n + 1 : c1[k].requested => \E i \in 1..Len(q) : f[i] = k
  BY <1>3, <1>4, <1>5
<1>9. MatchedBy(f, q, c1)
  BY <1>3, <1>5, <1>6, <1>7, <1>8 DEF MatchedBy
<1> QED BY <1>3, <1>6, <1>9 DEF Matched

(* The oldest command, if it was requested, has the oldest request.        *)
LEMMA MatchedHeads ==
  ASSUME NEW q, IsQueue(q), NEW c, IsQueue(c), c # <<>>, Matched(q, c), Head(c).requested
  PROVE  /\ q # <<>> /\ Head(c).session = Head(q).session /\ Answers(Head(q).kind, Head(c).op)
         /\ Matched(Tail(q), Tail(c))
<1>1. PICK f \in [1..Len(q) -> 1..Len(c)] : MatchedBy(f, q, c)
  BY DEF Matched
<1>2. PICK m, n : m = Len(q) /\ n = Len(c)
  OBVIOUS
<1>3. PICK c1 : /\ c1 = Tail(c) /\ n \in Nat \ {0} /\ Len(c1) = n - 1 /\ Head(c) = c[1]
                /\ \A i \in 1 .. n - 1 : c1[i] = c[i + 1]
  BY <1>2, QueueTail
<1>4. /\ f \in [1..m -> 1..n]
      /\ \A i, j \in 1..m : i < j => f[i] < f[j]
      /\ \A i \in 1..m : /\ c[f[i]].requested /\ c[f[i]].session = q[i].session
                         /\ Answers(q[i].kind, c[f[i]].op)
      /\ \A k \in 1..n : c[k].requested => \E i \in 1..m : f[i] = k
  BY <1>1, <1>2 DEF MatchedBy
<1>5. m \in Nat
  BY <1>2 DEF IsQueue
<1>6. m # 0 /\ f[1] = 1
  <2>1. PICK i \in 1..m : f[i] = 1
    BY <1>3, <1>4
  <2>2. i = 1
    <3>1. i # 1 => f[1] < f[i] /\ f[1] \in 1..n
      BY <1>4, <1>5, <2>1
    <3> QED BY <1>3, <2>1, <3>1
  <2> QED BY <1>5, <2>1, <2>2
<1>7. q # <<>>
  BY <1>2, <1>6
<1>8. PICK q1 : /\ q1 = Tail(q) /\ Len(q1) = m - 1 /\ Head(q) = q[1]
                /\ \A i \in 1 .. m - 1 : q1[i] = q[i + 1]
  BY <1>2, <1>7, QueueTail
<1> DEFINE g == [i \in 1 .. m - 1 |-> f[i + 1] - 1]
<1>9. ASSUME NEW i \in 1 .. m - 1
      PROVE  /\ i + 1 \in 1..m /\ g[i] = f[i + 1] - 1 /\ f[i + 1] \in 2..n /\ g[i] \in 1 .. n - 1
             /\ g[i] + 1 = f[i + 1]
  <2>1. i + 1 \in 1..m /\ 1 < i + 1 /\ 1 \in 1..m
    BY <1>5, <1>6
  <2>2. f[1] < f[i + 1] /\ f[i + 1] \in 1..n
    BY <1>4, <2>1
  <2>3. g[i] = f[i + 1] - 1
    OBVIOUS
  <2> QED BY <1>3, <1>6, <2>1, <2>2, <2>3
<1>10. g \in [1 .. m - 1 -> 1 .. n - 1]
  BY <1>9
<1> HIDE DEF g
<1>11. \A i, j \in 1 .. m - 1 : i < j => g[i] < g[j]
  <2> SUFFICES ASSUME NEW i \in 1 .. m - 1, NEW j \in 1 .. m - 1, i < j PROVE g[i] < g[j]
    OBVIOUS
  <2>1. i + 1 \in 1..m /\ j + 1 \in 1..m /\ i + 1 < j + 1
    BY <1>9
  <2>2. f[i + 1] < f[j + 1]
    BY <1>4, <2>1
  <2> QED BY <1>3, <1>9, <2>2
<1>12. \A i \in 1 .. m - 1 : /\ c1[g[i]].requested /\ c1[g[i]].session = q1[i].session
                            /\ Answers(q1[i].kind, c1[g[i]].op)
  <2> SUFFICES ASSUME NEW i \in 1 .. m - 1
               PROVE  /\ c1[g[i]].requested /\ c1[g[i]].session = q1[i].session
                      /\ Answers(q1[i].kind, c1[g[i]].op)
    OBVIOUS
  <2>1. c1[g[i]] = c[f[i + 1]] /\ q1[i] = q[i + 1]
    BY <1>3, <1>8, <1>9
  <2> QED BY <1>4, <1>9, <2>1
<1>13. \A k \in 1 .. n - 1 : c1[k].requested => \E i \in 1 .. m - 1 : g[i] = k
  <2> SUFFICES ASSUME NEW k \in 1 .. n - 1, c1[k].requested PROVE \E i \in 1 .. m - 1 : g[i] = k
    OBVIOUS
  <2>1. k + 1 \in 1..n /\ c[k + 1].requested
    BY <1>3
  <2>2. PICK i \in 1..m : f[i] = k + 1
    BY <1>4, <2>1
  <2>3. i # 1
    BY <1>3, <1>6, <2>2
  <2>4. i - 1 \in 1 .. m - 1 /\ (i - 1) + 1 = i
    BY <1>5, <2>3
  <2>5. g[i - 1] = k
    BY <1>3, <1>9, <2>2, <2>4
  <2> QED BY <2>4, <2>5
<1>14. Matched(q1, c1)
  <2>1. g \in [1..Len(q1) -> 1..Len(c1)]
    BY <1>3, <1>8, <1>10
  <2>2. MatchedBy(g, q1, c1)
    BY <1>3, <1>8, <1>11, <1>12, <1>13, <2>1 DEF MatchedBy
  <2> QED BY <2>1, <2>2 DEF Matched
<1>15. Head(c).session = Head(q).session /\ Answers(Head(q).kind, Head(c).op)
  BY <1>3, <1>4, <1>5, <1>6, <1>8
<1> QED BY <1>3, <1>7, <1>8, <1>14, <1>15

LEMMA MatchedTail ==
  ASSUME NEW q, IsQueue(q), NEW c, IsQueue(c), c # <<>>, Matched(q, c), ~Head(c).requested
  PROVE  Matched(q, Tail(c))
<1>1. PICK f \in [1..Len(q) -> 1..Len(c)] : MatchedBy(f, q, c)
  BY DEF Matched
<1>2. PICK m, n : m = Len(q) /\ n = Len(c)
  OBVIOUS
<1>3. PICK c1 : /\ c1 = Tail(c) /\ n \in Nat \ {0} /\ Len(c1) = n - 1 /\ Head(c) = c[1]
                /\ \A i \in 1 .. n - 1 : c1[i] = c[i + 1]
  <2>1. PICK t : t = Tail(c)
    OBVIOUS
  <2>2. /\ n \in Nat \ {0} /\ Len(t) = n - 1 /\ Head(c) = c[1]
        /\ \A i \in 1..Len(t) : t[i] = c[i + 1]
    BY ONLY IsQueue(c), c # <<>>, <1>2, <2>1, QueueTail
  <2> QED BY <2>1, <2>2
<1>4. /\ f \in [1..m -> 1..n]
      /\ \A i, j \in 1..m : i < j => f[i] < f[j]
      /\ \A i \in 1..m : /\ c[f[i]].requested /\ c[f[i]].session = q[i].session
                         /\ Answers(q[i].kind, c[f[i]].op)
      /\ \A k \in 1..n : c[k].requested => \E i \in 1..m : f[i] = k
  BY <1>1, <1>2 DEF MatchedBy
<1> DEFINE g == [i \in 1..m |-> f[i] - 1]
<1>5. ASSUME NEW i \in 1..m
      PROVE  g[i] = f[i] - 1 /\ f[i] \in 2..n /\ g[i] \in 1 .. n - 1 /\ g[i] + 1 = f[i]
  <2>1. f[i] # 1 /\ f[i] \in 1..n
    <3>1. f[i] \in 1..n /\ c[f[i]].requested
      BY <1>4
    <3>2. ~c[1].requested
      BY <1>3
    <3> QED BY <3>1, <3>2
  <2>2. g[i] = f[i] - 1
    OBVIOUS
  <2> HIDE DEF g
  <2>3. f[i] \in 2..n
    BY <1>3, <2>1
  <2> QED BY <1>3, <2>2, <2>3
<1>6. g \in [1..m -> 1 .. n - 1]
  BY <1>5
<1> HIDE DEF g
<1>7. \A i, j \in 1..m : i < j => g[i] < g[j]
  <2> SUFFICES ASSUME NEW i \in 1..m, NEW j \in 1..m, i < j PROVE g[i] < g[j]
    OBVIOUS
  <2>1. f[i] < f[j]
    BY <1>4
  <2> QED BY <1>3, <1>5, <2>1
<1>8. \A i \in 1..m : /\ c1[g[i]].requested /\ c1[g[i]].session = q[i].session
                     /\ Answers(q[i].kind, c1[g[i]].op)
  <2> SUFFICES ASSUME NEW i \in 1..m
               PROVE  /\ c1[g[i]].requested /\ c1[g[i]].session = q[i].session
                      /\ Answers(q[i].kind, c1[g[i]].op)
    OBVIOUS
  <2>1. c1[g[i]] = c[f[i]]
    BY <1>3, <1>5
  <2> QED BY <1>4, <2>1
<1>9. \A k \in 1 .. n - 1 : c1[k].requested => \E i \in 1..m : g[i] = k
  <2> SUFFICES ASSUME NEW k \in 1 .. n - 1, c1[k].requested PROVE \E i \in 1..m : g[i] = k
    OBVIOUS
  <2>1. k + 1 \in 1..n /\ c[k + 1].requested
    BY <1>3
  <2>2. PICK i \in 1..m : f[i] = k + 1
    BY <1>4, <2>1
  <2> QED BY <1>3, <1>5, <2>2
<1>10. Matched(q, c1)
  <2>1. g \in [1..Len(q) -> 1..Len(c1)]
    BY <1>2, <1>3, <1>6
  <2>2. MatchedBy(g, q, c1)
    BY <1>2, <1>3, <1>7, <1>8, <1>9, <2>1 DEF MatchedBy
  <2> QED BY <2>1, <2>2 DEF Matched
<1> QED BY <1>3, <1>10

LEMMA QueueDomain ==
  ASSUME NEW q, IsQueue(q)
  PROVE  DOMAIN q = 1..Len(q) /\ Len(q) \in Nat
<1>1. Len(q) \in Nat /\ q \in [1..Len(q) -> {q[i] : i \in 1..Len(q)}]
  BY DEF IsQueue
<1> QED BY <1>1

Waits(c, op, s) == \E k \in 1..Len(c) : c[k].op = op /\ c[k].session = s

LEMMA QueuedWaits ==
  ASSUME NEW op, NEW s
  PROVE  /\ IsQueue(flpCommands) => (Queued(op, s) <=> Waits(flpCommands, op, s))
         /\ IsQueue(flpCommands') => (Queued(op, s)' <=> Waits(flpCommands', op, s))
BY QueueDomain DEF Queued, Waits

(* A call that asks for one command, behind the queue c: the FLP's, or the *)
(* FLP's and the stop of the session that an update has given up.          *)
Behind(c) ==
  /\ IsQueue(c)
  /\ ~shifted => Matched(sessionRequests, c)
  /\ \A k \in 1..Len(c) :
       /\ c[k].session \in 1..lastSession
       /\ c[k].requested \/ (c[k].op = "stop" /\ ~hasSession(c[k].session)')
       /\ c[k].op = "start" => /\ c[k].session \notin flpRunning
                               /\ \A j \in 1 .. k - 1 : c[j].session # c[k].session
  /\ \A s \in 0..lastSession : Waits(c, "start", s) => Waits(flpCommands, "start", s)
  /\ \A s \in 1..lastSession : Waits(flpCommands, "stop", s) => Waits(c, "stop", s)
  /\ \A s \in 1..lastSession : hasSession(s) => hasSession(s)' \/ Waits(c, "stop", s)

AsksFor(r, c, d) ==
  /\ sessionRequests' = Append(sessionRequests, r)
  /\ flpCommands' = Append(c, d)
  /\ d.requested /\ d.session = r.session /\ Answers(r.kind, d.op)
  /\ d.op = "start" => d.session = lastSession + 1
  /\ UNCHANGED <<flpRunning, flpTrips, answering, shifted>>

LEMMA AsksForStep ==
  ASSUME SessionsInv, NEW r, NEW c, NEW d, AsksFor(r, c, d), Behind(c), SessionDictOK',
         NEW last, last = lastSession',
         \/ last = lastSession
         \/ last = lastSession + 1 /\ hasSession(last)',
         d.session \in 1..last
  PROVE  SessionsInv'
<1>0. /\ SessionDictOK /\ CommandsOK /\ FlpOK /\ RequestsMatch /\ ForgottenOver
      /\ AnswersMatch /\ SessionStoppable
  BY DEF SessionsInv
<1>1. /\ IsQueue(flpCommands) /\ IsQueue(sessionRequests) /\ lastSession \in Nat
      /\ 1..lastSession \subseteq 1..last /\ 0..lastSession \subseteq 0..last
  BY <1>0 DEF CommandsOK, SessionDictOK
<1>2. PICK e : e = flpCommands'
  OBVIOUS
<1>3. /\ IsQueue(e) /\ Len(c) \in Nat /\ Len(e) = Len(c) + 1
      /\ \A k \in 1..Len(c) : k \in 1..Len(e) /\ e[k] = c[k]
      /\ Len(e) \in 1..Len(e) /\ e[Len(e)] = d
      /\ \A k \in 1..Len(e) : k \in 1..Len(c) \/ k = Len(e)
  <2>1. e = Append(c, d) /\ IsQueue(c)
    BY <1>2 DEF AsksFor, Behind
  <2>2. IsOneMore(c, d, e)
    BY <2>1, QueueGrows
  <2> QED BY <2>2 DEF IsOneMore
<1>4. IsQueue(sessionRequests')
  BY <1>1, QueueAppend DEF AsksFor
<1>5. ASSUME NEW k \in 1..Len(e)
      PROVE  /\ e[k].session \in 1..last
             /\ e[k].requested \/ (e[k].op = "stop" /\ ~hasSession(e[k].session)')
             /\ e[k].op = "start" => /\ e[k].session \notin flpRunning
                                     /\ \A j \in 1 .. k - 1 : e[j].session # e[k].session
  <2>1. CASE k \in 1..Len(c)
    <3>1. \A j \in 1 .. k - 1 : e[j] = c[j]
      BY <1>3, <2>1
    <3> QED BY <1>1, <1>3, <2>1, <3>1 DEF Behind
  <2>2. CASE k = Len(e)
    <3>1. \A j \in 1 .. k - 1 : /\ j \in 1..Len(c) /\ e[j] = c[j] /\ c[j].session \in 1..lastSession
      BY <1>3, <2>2 DEF Behind
    <3>2. d.op = "start" => d.session \notin 1..lastSession
      BY <1>1 DEF AsksFor
    <3> QED BY <1>0, <1>3, <2>2, <3>1, <3>2 DEF AsksFor, FlpOK
  <2> QED BY <1>3, <2>1, <2>2
<1>6. CommandsOK'
  BY <1>2, <1>3, <1>4, <1>5 DEF CommandsOK, hasSession
<1>7. FlpOK'
  BY <1>0, <1>1, <1>2, <1>5 DEF FlpOK, AsksFor
<1>8. RequestsMatch'
  <2>1. ASSUME ~shifted PROVE Matched(Append(sessionRequests, r), Append(c, d))
    <3>1. Matched(sessionRequests, c) /\ IsQueue(c) /\ IsQueue(sessionRequests)
      BY <1>1, <2>1 DEF Behind
    <3>2. d.requested /\ d.session = r.session /\ Answers(r.kind, d.op)
      BY DEF AsksFor
    <3> QED BY <3>1, <3>2, MatchedBoth
  <2> QED BY <2>1 DEF RequestsMatch, AsksFor
<1>9. /\ \A s \in 0..lastSession : Waits(e, "start", s) => Waits(flpCommands, "start", s)
      /\ \A s \in 1..lastSession : Waits(c, "stop", s) => Waits(e, "stop", s)
  <2>1. d.op = "start" => d.session \notin 0..lastSession
    BY <1>1 DEF AsksFor
  <2>2. \A s \in 0..lastSession : Waits(e, "start", s) => Waits(c, "start", s)
    BY <1>3, <2>1 DEF Waits
  <2> QED BY <1>3, <2>2 DEF Waits, Behind
<1>10. /\ \A s \in 0..lastSession : Queued("start", s)' => Queued("start", s)
       /\ \A s \in 1..lastSession : /\ Queued("stop", s) => Queued("stop", s)'
                                    /\ Waits(c, "stop", s) => Queued("stop", s)'
  BY <1>1, <1>2, <1>3, <1>9, QueuedWaits DEF Behind
<1>11. ForgottenOver'
  <2>1. answering' = answering /\ shifted' = shifted /\ flpRunning' = flpRunning
    BY DEF AsksFor
  <2>2. answering.session \in 0..lastSession /\ answering.session \in 0..lastSession'
    BY <1>0, <1>1 DEF ForgottenOver
  <2> QED BY <1>0, <1>10, <2>1, <2>2 DEF ForgottenOver, Forgets, NoAnswer, Queued
<1>12. AnswersMatch'
  BY <1>0 DEF AnswersMatch, AsksFor, NoAnswer
<1>13. SessionStoppable'
  <2> SUFFICES ASSUME ~shifted, NEW s \in 1..last, s \in flpRunning \/ Queued("start", s)'
               PROVE  hasSession(s)' \/ Queued("stop", s)'
    BY DEF SessionStoppable, AsksFor, Queued, hasSession
  <2>1. CASE s \in 1..lastSession
    BY <1>0, <1>10, <2>1 DEF SessionStoppable, Behind
  <2>2. CASE s \notin 1..lastSession
    BY <1>1, <2>2
  <2> QED BY <2>1, <2>2
<1> QED BY <1>6, <1>7, <1>8, <1>11, <1>12, <1>13 DEF SessionsInv

LEMMA BehindTheFlps ==
  ASSUME SessionsInv, \A s \in 1..lastSession : hasSession(s)' <=> hasSession(s),
         NEW c, c = flpCommands
  PROVE  Behind(c)
<1>1. SessionDictOK /\ CommandsOK /\ FlpOK /\ RequestsMatch
  BY DEF SessionsInv
<1>2. ASSUME NEW k \in 1..Len(c)
      PROVE  /\ c[k].session \in 1..lastSession
             /\ c[k].requested \/ (c[k].op = "stop" /\ ~hasSession(c[k].session)')
             /\ c[k].op = "start" => /\ c[k].session \notin flpRunning
                                     /\ \A j \in 1 .. k - 1 : c[j].session # c[k].session
  BY <1>1, <1>2 DEF CommandsOK, FlpOK
<1>3. IsQueue(c) /\ (~shifted => Matched(sessionRequests, c))
  BY <1>1 DEF CommandsOK, RequestsMatch
<1> QED BY <1>2, <1>3 DEF Behind

LEMMA StartSession ==
  ASSUME SessionsInv, NEW i \in Ids, NEW m \in SessionModes, locAPIStartSession(i, m)
  PROVE  SessionsInv'
<1>1. SessionDictOK
  BY DEF SessionsInv
<1>2. PICK n : n = lastSession + 1
  OBVIOUS
<1>3. /\ n \in Nat \ {0} /\ lastSession' = n /\ shifted' = shifted
      /\ mSessionBiDict' = [mSessionBiDict EXCEPT ![i] = [session |-> n, mode |-> m]]
  BY <1>1, <1>2 DEF SessionDictOK, locAPIStartSession
<1>4. mSessionBiDict' \in [Ids -> [session : 0..n, mode : SessionModes]]
  <2>1. mSessionBiDict \in [Ids -> [session : 0..n, mode : SessionModes]]
    BY <1>1, <1>2 DEF SessionDictOK
  <2> QED BY <1>3, <2>1
<1>5. /\ mSessionBiDict'[i].session = n /\ mSessionBiDict[i].session = 0
      /\ \A j \in Ids \ {i} : mSessionBiDict'[j] = mSessionBiDict[j]
      /\ \A j \in Ids : mSessionBiDict[j].session \in 0..lastSession
  BY <1>1, <1>3 DEF SessionDictOK, locAPIStartSession, hasId
<1>6. SessionDictOK'
  <2>1. ASSUME NEW j \in Ids, NEW k \in Ids, mSessionBiDict'[j].session # 0,
               mSessionBiDict'[j].session = mSessionBiDict'[k].session
        PROVE  j = k
    BY <1>1, <1>2, <1>5, <2>1 DEF SessionDictOK, hasId
  <2> QED BY <1>1, <1>3, <1>4, <2>1 DEF SessionDictOK, hasId
<1>7. \A s \in 1..lastSession : hasSession(s)' <=> hasSession(s)
  BY <1>1, <1>2, <1>5 DEF hasSession, SessionDictOK
<1>8. hasSession(n)'
  BY <1>5 DEF hasSession
<1>9. PICK c : c = flpCommands /\ Behind(c)
  BY <1>7, BehindTheFlps
<1>10. PICK r, d : /\ r = [kind |-> "start", session |-> n] /\ d = Cmd("start", n, m, TRUE)
  OBVIOUS
<1>11. AsksFor(r, c, d) /\ d.session \in 1..n
  BY <1>2, <1>3, <1>9, <1>10 DEF AsksFor, Answers, Cmd, Request, locAPIStartSession
<1> QED BY <1>2, <1>3, <1>6, <1>8, <1>9, <1>11, AsksForStep

(* The calls that leave the sessions of the dictionary alone *)
LEMMA SameSessions ==
  ASSUME SessionsInv, NEW i \in Ids, hasId(i), NEW m \in SessionModes,
         mSessionBiDict' = [mSessionBiDict EXCEPT ![i] = [session |-> mSessionBiDict[i].session, mode |-> m]],
         UNCHANGED <<lastSession, shifted>>, NEW r, NEW d, AsksFor(r, flpCommands, d),
         d.session = mSessionBiDict[i].session
  PROVE  SessionsInv'
<1>1. SessionDictOK
  BY DEF SessionsInv
<1>2. PICK n, s : n = lastSession /\ s = mSessionBiDict[i].session
  OBVIOUS
<1>3. /\ n \in Nat /\ s \in 1..n
      /\ mSessionBiDict \in [Ids -> [session : 0..n, mode : SessionModes]]
  BY <1>1, <1>2 DEF SessionDictOK, hasId
<1>4. mSessionBiDict' \in [Ids -> [session : 0..n, mode : SessionModes]]
  BY <1>2, <1>3
<1>5. \A j \in Ids : mSessionBiDict'[j].session = mSessionBiDict[j].session
  BY <1>2, <1>3
<1>6. SessionDictOK'
  BY <1>1, <1>2, <1>4, <1>5 DEF SessionDictOK, hasId
<1>7. \A t \in 1..lastSession : hasSession(t)' <=> hasSession(t)
  BY <1>5 DEF hasSession
<1>8. PICK c : c = flpCommands /\ Behind(c)
  BY <1>7, BehindTheFlps
<1>9. AsksFor(r, c, d)
  BY <1>8 DEF AsksFor
<1> QED BY <1>2, <1>3, <1>6, <1>8, <1>9, AsksForStep


LEMMA StopSession ==
  ASSUME SessionsInv, NEW i \in Ids, locAPIStopSession(i)
  PROVE  SessionsInv'
<1>1. SessionDictOK
  BY DEF SessionsInv
<1>2. PICK m, s : m = mSessionBiDict[i].mode /\ s = mSessionBiDict[i].session
  OBVIOUS
<1>3. m \in SessionModes /\ mSessionBiDict' = [mSessionBiDict EXCEPT ![i] = [session |-> s, mode |-> m]]
  BY <1>1, <1>2 DEF SessionDictOK, locAPIStopSession
<1>4. PICK r, d : r = [kind |-> "stop", session |-> s] /\ d = Cmd("stop", s, m, TRUE)
  OBVIOUS
<1>5. /\ AsksFor(r, flpCommands, d) /\ d.session = s /\ hasId(i)
      /\ UNCHANGED <<lastSession, shifted>>
  BY <1>2, <1>4 DEF AsksFor, Answers, Cmd, Request, locAPIStopSession
<1> QED BY <1>2, <1>3, <1>5, SameSessions

LEMMA GetBatchedLocations ==
  ASSUME SessionsInv, NEW i \in Ids, locAPIGetBatchedLocations(i)
  PROVE  SessionsInv'
<1>1. SessionDictOK
  BY DEF SessionsInv
<1>2. PICK m, s : m = mSessionBiDict[i].mode /\ s = mSessionBiDict[i].session
  OBVIOUS
<1>3. m \in SessionModes /\ mSessionBiDict' = [mSessionBiDict EXCEPT ![i] = [session |-> s, mode |-> m]]
  BY <1>1, <1>2 DEF SessionDictOK, locAPIGetBatchedLocations
<1>4. PICK r, d : r = [kind |-> "get", session |-> s] /\ d = Cmd("get", s, m, TRUE)
  OBVIOUS
<1>5. /\ AsksFor(r, flpCommands, d) /\ d.session = s /\ hasId(i)
      /\ UNCHANGED <<lastSession, shifted>>
  BY <1>2, <1>4 DEF AsksFor, Answers, Cmd, Request, locAPIGetBatchedLocations
<1> QED BY <1>2, <1>3, <1>5, SameSessions

(* From tracking to batching or back: the session of the dictionary is the *)
(* new one, and the stop of the old one is queued without a request.       *)
LEMMA SwitchSession ==
  ASSUME SessionsInv, NEW i \in Ids, NEW m \in SessionModes, locAPIUpdateSessionOptions(i, m),
         Batching(m) # Batching(mSessionBiDict[i].mode)
  PROVE  SessionsInv'
<1>1. SessionDictOK /\ CommandsOK /\ FlpOK /\ RequestsMatch
  BY DEF SessionsInv
<1>2. PICK n, s, c0 : n = lastSession + 1 /\ s = mSessionBiDict[i].session /\ c0 = flpCommands
  OBVIOUS
<1>3. PICK c, r, d, d0 :
        /\ d0 = Cmd("stop", s, m, FALSE) /\ c = Append(c0, d0)
        /\ r = [kind |-> "update", session |-> n] /\ d = Cmd("start", n, m, TRUE)
  OBVIOUS
<1>4. /\ n \in Nat \ {0} /\ s \in 1..lastSession /\ lastSession' = n /\ IsQueue(c0)
      /\ mSessionBiDict' = [mSessionBiDict EXCEPT ![i] = [session |-> n, mode |-> m]]
      /\ flpCommands' = c0 \o <<d0, d>>
      /\ sessionRequests' = Append(sessionRequests, r)
      /\ UNCHANGED <<flpRunning, flpTrips, answering, shifted>>
  BY <1>1, <1>2, <1>3 DEF SessionDictOK, CommandsOK, locAPIUpdateSessionOptions, Request, hasId
<1>5. flpCommands' = Append(c, d)
  <2>1. IsOneMore(c0, d0, Append(c0, d0))
    BY <1>4, QueueGrows
  <2>2. IsQueue(c)
    BY <1>3, <2>1 DEF IsOneMore
  <2>3. c = c0 \o <<d0>> /\ Append(c, d) = c \o <<d>>
    BY <1>3, <1>4, <2>2, AppendConcat
  <2>4. (c0 \o <<d0>>) \o <<d>> = c0 \o <<d0, d>>
    BY <1>4, ConcatTwo
  <2> QED BY <1>4, <2>3, <2>4
<1>6. AsksFor(r, c, d) /\ d.session \in 1..n
  <2>1. /\ d.requested /\ d.session = n /\ d.op = "start"
        /\ r.kind = "update" /\ r.session = n
    BY <1>3 DEF Cmd
  <2>2. n \in 1..n
    BY <1>4
  <2>3. d.session \in 1..n
    BY <2>1, <2>2
  <2>4. Answers(r.kind, d.op) /\ d.session = r.session /\ d.session = lastSession + 1
    BY <1>2, <2>1 DEF Answers
  <2>5. UNCHANGED <<flpRunning, flpTrips, answering, shifted>>
    BY <1>4
  <2> QED BY <1>4, <1>5, <2>1, <2>3, <2>4, <2>5 DEF AsksFor
<1>7. mSessionBiDict' \in [Ids -> [session : 0..n, mode : SessionModes]]
  <2>1. mSessionBiDict \in [Ids -> [session : 0..n, mode : SessionModes]]
    BY <1>1, <1>2 DEF SessionDictOK
  <2> QED BY <1>4, <2>1
<1>8. /\ mSessionBiDict'[i].session = n
      /\ \A j \in Ids \ {i} : /\ mSessionBiDict'[j] = mSessionBiDict[j]
                              /\ mSessionBiDict[j].session # s
      /\ \A j \in Ids : mSessionBiDict[j].session \in 0..lastSession
  BY <1>1, <1>2, <1>4 DEF SessionDictOK, hasId
<1>9. SessionDictOK'
  <2>1. ASSUME NEW j \in Ids, NEW k \in Ids, mSessionBiDict'[j].session # 0,
               mSessionBiDict'[j].session = mSessionBiDict'[k].session
        PROVE  j = k
    BY <1>1, <1>2, <1>8, <2>1 DEF SessionDictOK, hasId
  <2> QED BY <1>1, <1>4, <1>7, <2>1 DEF SessionDictOK, hasId
<1>10. /\ hasSession(n)' /\ ~hasSession(s)'
       /\ \A t \in 1..lastSession : hasSession(t)' <=> hasSession(t) /\ t # s
  BY <1>1, <1>2, <1>4, <1>8 DEF hasSession, SessionDictOK
<1>11. IsOneMore(c0, d0, c)
  BY <1>3, <1>4, QueueGrows
<1>12. /\ IsQueue(c) /\ Len(c0) \in Nat /\ Len(c) = Len(c0) + 1
       /\ \A k \in 1..Len(c0) : k \in 1..Len(c) /\ c[k] = c0[k]
       /\ Len(c) \in 1..Len(c) /\ c[Len(c)] = d0
       /\ \A k \in 1..Len(c) : k \in 1..Len(c0) \/ k = Len(c)
  BY <1>11 DEF IsOneMore
<1>13. d0.op = "stop" /\ d0.session = s /\ ~d0.requested
  BY <1>3 DEF Cmd
<1>14. Behind(c)
  <2>1. ASSUME ~shifted PROVE Matched(sessionRequests, c)
    BY <1>1, <1>2, <1>3, <1>4, <1>13, <2>1, MatchedMore DEF RequestsMatch
  <2>2. ASSUME NEW k \in 1..Len(c0)
        PROVE  /\ c0[k].session \in 1..lastSession
               /\ c0[k].requested \/ (c0[k].op = "stop" /\ ~hasSession(c0[k].session)')
               /\ c0[k].op = "start" => /\ c0[k].session \notin flpRunning
                                        /\ \A j \in 1 .. k - 1 : c0[j].session # c0[k].session
    BY <1>1, <1>2, <1>10, <2>2 DEF CommandsOK, FlpOK
  <2>3. ASSUME NEW k \in 1..Len(c)
        PROVE  /\ c[k].session \in 1..lastSession
               /\ c[k].requested \/ (c[k].op = "stop" /\ ~hasSession(c[k].session)')
               /\ c[k].op = "start" => /\ c[k].session \notin flpRunning
                                       /\ \A j \in 1 .. k - 1 : c[j].session # c[k].session
    <3>1. CASE k = Len(c)
      BY <1>4, <1>10, <1>12, <1>13, <3>1
    <3>2. CASE k \in 1..Len(c0)
      <4>1. \A j \in 1 .. k - 1 : c[j] = c0[j]
        BY <1>12, <3>2
      <4> QED BY <1>12, <2>2, <3>2, <4>1
    <3> QED BY <1>12, <3>1, <3>2
  <2>4. \A t : Waits(c, "start", t) => Waits(c0, "start", t)
    BY <1>12, <1>13 DEF Waits
  <2>5. \A t : Waits(c0, "stop", t) => Waits(c, "stop", t)
    BY <1>12 DEF Waits
  <2>6. Waits(c, "stop", s)
    BY <1>12, <1>13 DEF Waits
  <2> QED BY <1>2, <1>10, <1>12, <2>1, <2>3, <2>4, <2>5, <2>6 DEF Behind
<1> QED BY <1>2, <1>4, <1>6, <1>9, <1>10, <1>14, AsksForStep

LEMMA UpdateSessionOptions ==
  ASSUME SessionsInv, NEW i \in Ids, NEW m \in SessionModes, locAPIUpdateSessionOptions(i, m)
  PROVE  SessionsInv'
<1>1. CASE Batching(m) # Batching(mSessionBiDict[i].mode)
  BY <1>1, SwitchSession
<1>2. CASE Batching(m) = Batching(mSessionBiDict[i].mode)
  <2>1. SessionDictOK /\ IsQueue(flpCommands)
    BY DEF SessionsInv, CommandsOK
  <2>2. PICK s, r, d : /\ s = mSessionBiDict[i].session /\ d = Cmd("update", s, m, TRUE)
                       /\ r = [kind |-> "update", session |-> s]
    OBVIOUS
  <2>3. /\ flpCommands' = flpCommands \o <<d>> /\ hasId(i) /\ lastSession' = lastSession
        /\ sessionRequests' = Append(sessionRequests, r)
        /\ mSessionBiDict' = [mSessionBiDict EXCEPT ![i] = [session |-> s, mode |-> m]]
        /\ UNCHANGED <<flpRunning, flpTrips, answering, shifted>>
    BY <1>2, <2>2 DEF locAPIUpdateSessionOptions, Request
  <2>4. flpCommands' = Append(flpCommands, d)
    BY <2>1, <2>3, AppendConcat
  <2>5. AsksFor(r, flpCommands, d) /\ d.session = s
    BY <2>2, <2>3, <2>4 DEF AsksFor, Answers, Cmd
  <2> QED BY <2>2, <2>3, <2>5, SameSessions
<1> QED BY <1>1, <1>2


(* The FLP does a command: it starts, stops, or changes nothing            *)
LEMMA FlpDoesOne ==
  ASSUME NEW c, NEW refuse \in BOOLEAN, FlpDoes(c, refuse)
  PROVE  /\ flpTrips' \subseteq flpRunning'
         /\ \/ c.op = "start" /\ ~refuse /\ flpRunning' = flpRunning \union {c.session}
            \/ c.op = "stop" /\ flpRunning' = flpRunning \ {c.session}
            \/ (c.op = "start" => refuse) /\ c.op # "stop" /\ flpRunning' = flpRunning
<1>1. flpTrips' \subseteq flpRunning'
  BY DEF FlpDoes
<1>2. CASE c.op = "start" /\ ~refuse
  BY <1>1, <1>2 DEF FlpDoes
<1>3. CASE c.op = "stop"
  BY <1>1, <1>3 DEF FlpDoes
<1>4. CASE ~(c.op = "start" /\ ~refuse) /\ c.op # "stop"
  BY <1>1, <1>4 DEF FlpDoes
<1> QED BY <1>2, <1>3, <1>4

LEMMA ResponseStep == SessionsInv /\ onResponseCb => SessionsInv'
<1> SUFFICES ASSUME SessionsInv, onResponseCb PROVE SessionsInv'
  OBVIOUS
<1>0. /\ SessionDictOK /\ CommandsOK /\ FlpOK /\ RequestsMatch /\ SessionStoppable
  BY DEF SessionsInv
<1>1. PICK c, e, q, h : /\ c = flpCommands /\ e = flpCommands' /\ q = sessionRequests /\ h = Head(c)
  OBVIOUS
<1>2. PICK refuse \in BOOLEAN : FlpDoes(h, refuse) /\ getRequestBySession(h.session, refuse)
  BY <1>1 DEF onResponseCb
<1>3. /\ IsQueue(c) /\ IsQueue(q) /\ c # <<>> /\ e = Tail(c)
      /\ UNCHANGED <<calls, mSessionBiDict, lastSession>>
      /\ shifted' = (shifted \/ (h.requested /\ ~hasSession(h.session)))
      /\ lastSession \in Nat
  BY <1>0, <1>1 DEF onResponseCb, CommandsOK, SessionDictOK
<1>4. IsOneLess(c, e)
  BY <1>3, QueueShrinks
<1>5. /\ IsQueue(e) /\ Len(c) \in Nat \ {0} /\ Len(e) = Len(c) - 1
      /\ h = c[1] /\ 1 \in 1..Len(c)
      /\ \A k \in 1..Len(e) : k + 1 \in 1..Len(c) /\ e[k] = c[k + 1]
      /\ \A k \in 1..Len(c) : k # 1 => k - 1 \in 1..Len(e) /\ e[k - 1] = c[k]
  BY <1>1, <1>4 DEF IsOneLess
<1>6. /\ h.session \in 1..lastSession
      /\ h.requested \/ (h.op = "stop" /\ ~hasSession(h.session))
      /\ h.op = "start" => h.session \notin flpRunning
  BY <1>0, <1>1, <1>5 DEF CommandsOK, FlpOK
<1>7. \A k \in 1..Len(e) : e[k].op = "start" => e[k].session # h.session
  <2> SUFFICES ASSUME NEW k \in 1..Len(e), e[k].op = "start" PROVE e[k].session # h.session
    OBVIOUS
  <2>1. k + 1 \in 1..Len(c) /\ e[k] = c[k + 1] /\ 1 \in 1 .. (k + 1) - 1
    BY <1>5
  <2> QED BY <1>0, <1>1, <1>5, <2>1 DEF CommandsOK
<1>8. \A s : hasSession(s)' <=> hasSession(s)
  BY <1>3 DEF hasSession
<1>9. SessionDictOK'
  <2>1. shifted' \in BOOLEAN
    <3>1. CASE h.requested /\ ~hasSession(h.session)
      BY <1>3, <3>1
    <3>2. CASE ~(h.requested /\ ~hasSession(h.session))
      BY <1>0, <1>3, <3>2 DEF SessionDictOK
    <3> QED BY <3>1, <3>2
  <2> QED BY <1>0, <1>3, <2>1 DEF SessionDictOK, hasId
<1>10. PICK q1 : q1 = sessionRequests'
  OBVIOUS
<1>11. \/ hasSession(h.session) /\ q # <<>> /\ q1 = Tail(q)
          /\ answering' = [kind |-> Head(q).kind, session |-> h.session,
                           own |-> Head(q).session, error |-> refuse]
       \/ ~(hasSession(h.session) /\ q # <<>>) /\ q1 = q /\ answering' = NoAnswer
  BY <1>1, <1>2, <1>10 DEF getRequestBySession
<1>12. IsQueue(q1)
  BY <1>3, <1>11, QueueTail
<1>13. CommandsOK'
  <2>1. ASSUME NEW k \in 1..Len(e)
        PROVE  /\ e[k].session \in 1..lastSession
               /\ e[k].requested \/ (e[k].op = "stop" /\ ~hasSession(e[k].session)')
               /\ e[k].op = "start" => \A j \in 1 .. k - 1 : e[j].session # e[k].session
    <3>1. k + 1 \in 1..Len(c) /\ e[k] = c[k + 1]
      BY <1>5
    <3>2. \A j \in 1 .. k - 1 : j + 1 \in 1 .. (k + 1) - 1 /\ e[j] = c[j + 1]
      BY <1>5
    <3> QED BY <1>0, <1>1, <1>8, <3>1, <3>2 DEF CommandsOK
  <2> QED BY <1>1, <1>3, <1>5, <1>10, <1>12, <2>1 DEF CommandsOK, hasSession
<1>14. /\ flpTrips' \subseteq flpRunning'
       /\ \/ h.op = "start" /\ ~refuse /\ flpRunning' = flpRunning \union {h.session}
          \/ h.op = "stop" /\ flpRunning' = flpRunning \ {h.session}
          \/ (h.op = "start" => refuse) /\ h.op # "stop" /\ flpRunning' = flpRunning
  BY <1>2, FlpDoesOne
<1>15. FlpOK'
  <2>1. \A k \in 1..Len(e) : e[k].op = "start" => e[k].session \notin flpRunning
    BY <1>0, <1>1, <1>5 DEF FlpOK
  <2>2. \A k \in 1..Len(e) : e[k].op = "start" => e[k].session \notin flpRunning'
    BY <1>7, <1>14, <2>1
  <2>3. flpRunning' \subseteq 1..lastSession
    BY <1>0, <1>6, <1>14 DEF FlpOK
  <2> QED BY <1>1, <1>3, <1>14, <2>2, <2>3 DEF FlpOK
<1>16. ASSUME ~shifted', h.requested
       PROVE  /\ ~shifted /\ hasSession(h.session) /\ q # <<>> /\ h.session = Head(q).session
              /\ Answers(Head(q).kind, h.op) /\ Matched(Tail(q), e)
  <2>1. ~shifted /\ hasSession(h.session)
    BY <1>3, <1>16
  <2>2. Matched(q, c) /\ Head(c).requested
    BY <1>0, <1>1, <1>16, <2>1 DEF RequestsMatch
  <2>3. /\ q # <<>> /\ Head(c).session = Head(q).session /\ Answers(Head(q).kind, Head(c).op)
        /\ Matched(Tail(q), Tail(c))
    BY <1>3, <2>2, MatchedHeads
  <2> QED BY <1>1, <1>3, <2>1, <2>3
<1>17. RequestsMatch'
  <2> SUFFICES ASSUME ~shifted' PROVE Matched(q1, e)
    BY <1>1, <1>10 DEF RequestsMatch, Matched, MatchedBy, Answers
  <2>1. CASE h.requested
    BY <1>11, <1>16, <2>1
  <2>2. CASE ~h.requested
    <3>1. ~shifted /\ ~hasSession(h.session)
      BY <1>3, <1>6, <2>2
    <3>2. Matched(q, c) /\ ~Head(c).requested
      BY <1>0, <1>1, <2>2, <3>1 DEF RequestsMatch
    <3>3. Matched(q, Tail(c))
      BY <1>3, <3>2, MatchedTail
    <3> QED BY <1>3, <1>11, <3>1, <3>3
  <2> QED BY <2>1, <2>2
<1>18. AnswersMatch'
  BY <1>6, <1>11, <1>16 DEF AnswersMatch, NoAnswer
<1>19. \A s : Queued("start", s)' => Queued("start", s) /\ s # h.session
  BY <1>1, <1>3, <1>5, <1>7, QueuedWaits DEF Waits
<1>20. ForgottenOver'
  <2>1. answering'.session \in 0..lastSession'
    BY <1>3, <1>6, <1>11 DEF NoAnswer
  <2>2. ASSUME ~shifted', answering' # NoAnswer, Forgets(answering')
        PROVE  answering'.session \notin flpRunning' /\ ~Queued("start", h.session)'
    <3>1. /\ answering'.session = h.session /\ answering'.kind = Head(q).kind
          /\ answering'.error = refuse /\ hasSession(h.session)
      BY <1>11, <2>2
    <3>2. Answers(Head(q).kind, h.op)
      BY <1>6, <1>16, <2>2, <3>1
    <3>3. \/ h.op = "start" /\ refuse
          \/ h.op = "stop"
      BY <2>2, <3>1, <3>2 DEF Answers, Forgets
    <3> QED BY <1>6, <1>14, <1>19, <3>1, <3>3
  <2>3. ASSUME ~shifted', answering' # NoAnswer, Forgets(answering')
        PROVE  answering'.session = h.session
    BY <1>11, <2>3
  <2>4. PICK a : a = answering'
    OBVIOUS
  <2>5. ~shifted' /\ a # NoAnswer /\ Forgets(a) => a.session \notin flpRunning' /\ ~Queued("start", a.session)'
    BY <2>2, <2>3, <2>4
  <2> QED BY <2>1, <2>4, <2>5 DEF ForgottenOver, Forgets, NoAnswer, Queued
<1>21. SessionStoppable'
  <2> SUFFICES ASSUME ~shifted', NEW s \in 1..lastSession, s \in flpRunning' \/ Queued("start", s)'
               PROVE  hasSession(s) \/ Queued("stop", s)'
    BY <1>3, <1>8 DEF SessionStoppable, Queued, hasSession
  <2>1. s \in flpRunning \/ Queued("start", s)
    <3>1. CASE Queued("start", s)'
      BY <1>19, <3>1
    <3>2. CASE s \in flpRunning'
      <4>1. h.op = "start" => Queued("start", h.session)
        BY <1>1, <1>3, <1>5, QueuedWaits DEF Waits
      <4> QED BY <1>14, <3>2, <4>1
    <3> QED BY <3>1, <3>2
  <2>2. hasSession(s) \/ Queued("stop", s)
    BY <1>0, <1>3, <2>1 DEF SessionStoppable
  <2>3. ASSUME Queued("stop", s) PROVE Queued("stop", s)' \/ (h.op = "stop" /\ h.session = s)
    BY <1>1, <1>3, <1>5, <2>3, QueuedWaits DEF Waits
  <2>4. ~(h.op = "stop" /\ h.session = s)
    BY <1>14, <1>19
  <2> QED BY <2>2, <2>3, <2>4
<1> QED BY <1>9, <1>13, <1>15, <1>17, <1>18, <1>20, <1>21 DEF SessionsInv


(* A session leaves the dictionary *)
LEMMA Forgotten ==
  ASSUME SessionDictOK, NEW s, ForgetSession(s), UNCHANGED <<lastSession, shifted>>
  PROVE  SessionDictOK' /\ \A t \in 1..lastSession : hasSession(t)' <=> (hasSession(t) /\ t # s)
<1>1. NoSession \in [session : 0..lastSession, mode : SessionModes] /\ NoSession.session = 0
  BY DEF SessionDictOK, NoSession, SessionModes
<1>2. PICK n : n = lastSession /\ lastSession' = n /\ n \in Nat
  BY DEF SessionDictOK
<1>3. /\ mSessionBiDict \in [Ids -> [session : 0..n, mode : SessionModes]]
      /\ mSessionBiDict' = [i \in Ids |-> IF mSessionBiDict[i].session = s THEN NoSession
                                                                         ELSE mSessionBiDict[i]]
  BY <1>2 DEF SessionDictOK, ForgetSession
<1>4. mSessionBiDict' \in [Ids -> [session : 0..n, mode : SessionModes]]
  BY <1>1, <1>2, <1>3
<1>5. \A i \in Ids : IF mSessionBiDict[i].session = s
                       THEN mSessionBiDict'[i].session = 0
                       ELSE mSessionBiDict'[i].session = mSessionBiDict[i].session
  BY <1>1, <1>3
<1>6. SessionDictOK'
  BY <1>2, <1>4, <1>5 DEF SessionDictOK, hasId
<1> QED BY <1>2, <1>5, <1>6 DEF hasSession

(* A callback at which sessions end, and leave the dictionary only if they *)
(* do not run and will not.                                                *)
LEMMA EndStep ==
  ASSUME SessionsInv, UNCHANGED <<sessionRequests, lastSession, flpCommands, shifted>>, SessionDictOK',
         flpRunning' \subseteq flpRunning, flpTrips' \subseteq flpRunning', answering' = NoAnswer,
         \A t \in 1..lastSession : hasSession(t)' => hasSession(t),
         \A t \in 1..lastSession :
           hasSession(t) /\ ~hasSession(t)' /\ ~shifted => t \notin flpRunning' /\ ~Queued("start", t)
  PROVE  SessionsInv'
<1>0. /\ SessionDictOK /\ CommandsOK /\ FlpOK /\ RequestsMatch /\ SessionStoppable
  BY DEF SessionsInv
<1>1. CommandsOK'
  <2>1. PICK c, n : c = flpCommands /\ c = flpCommands' /\ n = lastSession /\ n = lastSession'
    OBVIOUS
  <2>2. ASSUME NEW k \in 1..Len(c)
        PROVE  c[k].session \in 1..n /\ (c[k].requested \/ (c[k].op = "stop" /\ ~hasSession(c[k].session)'))
    BY <1>0, <2>1 DEF CommandsOK
  <2>3. IsQueue(c) /\ IsQueue(sessionRequests')
    BY <1>0, <2>1 DEF CommandsOK
  <2>4. \A k \in 1..Len(c) : c[k].op = "start" => \A j \in 1 .. k - 1 : c[j].session # c[k].session
    BY <1>0, <2>1 DEF CommandsOK
  <2> QED BY <2>1, <2>2, <2>3, <2>4 DEF CommandsOK, hasSession
<1>2. FlpOK'
  BY <1>0 DEF FlpOK
<1>3. RequestsMatch'
  BY <1>0 DEF RequestsMatch
<1>4. AnswersMatch'
  BY DEF AnswersMatch
<1>5. ForgottenOver'
  <2>1. NoAnswer.session \in 0..lastSession'
    BY <1>0 DEF NoAnswer, SessionDictOK
  <2> QED BY <2>1 DEF ForgottenOver
<1>6. SessionStoppable'
  <2>1. \A op, t : Queued(op, t)' <=> Queued(op, t)
    BY DEF Queued
  <2> SUFFICES ASSUME ~shifted, NEW s \in 1..lastSession, s \in flpRunning' \/ Queued("start", s)
               PROVE  hasSession(s)' \/ Queued("stop", s)
    BY <2>1 DEF SessionStoppable, Queued, hasSession
  <2> QED BY <1>0 DEF SessionStoppable
<1> QED BY <1>1, <1>2, <1>3, <1>4, <1>5, <1>6 DEF SessionsInv

LEMMA OnResponseStep == SessionsInv /\ onResponse => SessionsInv'
<1> SUFFICES ASSUME SessionsInv, onResponse PROVE SessionsInv'
  OBVIOUS
<1>0. SessionDictOK /\ FlpOK /\ ForgottenOver
  BY DEF SessionsInv
<1>1. /\ answering # NoAnswer /\ answering' = NoAnswer
      /\ UNCHANGED <<sessionRequests, lastSession, flpCommands, shifted, flpRunning, flpTrips>>
      /\ flpTrips' \subseteq flpRunning'
  BY <1>0 DEF onResponse, FlpOK
<1>2. CASE Forgets(answering)
  <2>1. PICK s : s = answering.session /\ ForgetSession(s)
    BY <1>2 DEF onResponse
  <2>2. SessionDictOK' /\ \A t \in 1..lastSession : hasSession(t)' <=> (hasSession(t) /\ t # s)
    BY <1>0, <1>1, <2>1, Forgotten
  <2>3. ~shifted => s \notin flpRunning /\ ~Queued("start", s)
    BY <1>0, <1>1, <1>2, <2>1 DEF ForgottenOver
  <2> QED BY <1>1, <2>2, <2>3, EndStep
<1>3. CASE ~Forgets(answering)
  <2>1. mSessionBiDict' = mSessionBiDict
    BY <1>3 DEF onResponse
  <2>2. SessionDictOK' /\ \A t \in 1..lastSession : hasSession(t)' <=> hasSession(t)
    BY <1>0, <1>1, <2>1 DEF SessionDictOK, hasSession, hasId
  <2> QED BY <1>1, <2>2, EndStep
<1> QED BY <1>2, <1>3

LEMMA TripEndStep ==
  ASSUME SessionsInv, NEW s \in flpTrips, beforeBatchingStatusCb(s)
  PROVE  SessionsInv'
<1>0. SessionDictOK /\ FlpOK /\ CommandsOK
  BY DEF SessionsInv
<1>1. /\ answering' = NoAnswer
      /\ UNCHANGED <<sessionRequests, lastSession, flpCommands, shifted>>
      /\ flpRunning' = flpRunning \ {s} /\ flpTrips' = flpTrips \ {s}
  BY DEF beforeBatchingStatusCb
<1>2. flpRunning' \subseteq flpRunning /\ flpTrips' \subseteq flpRunning' /\ s \notin flpRunning'
  BY <1>0, <1>1 DEF FlpOK
<1>3. ~Queued("start", s)
  BY <1>0, QueuedWaits DEF FlpOK, CommandsOK, Waits
<1>4. CASE ForgetSession(s)
  <2>1. SessionDictOK' /\ \A t \in 1..lastSession : hasSession(t)' <=> (hasSession(t) /\ t # s)
    BY <1>0, <1>1, <1>4, Forgotten
  <2> QED BY <1>1, <1>2, <1>3, <2>1, EndStep
<1>5. CASE mSessionBiDict' = mSessionBiDict
  <2>1. SessionDictOK' /\ \A t \in 1..lastSession : hasSession(t)' <=> hasSession(t)
    BY <1>0, <1>1, <1>5 DEF SessionDictOK, hasSession, hasId
  <2> QED BY <1>1, <1>2, <2>1, EndStep
<1> QED BY <1>4, <1>5 DEF beforeBatchingStatusCb

LEMMA SessionsStep == SessionsInv /\ SessionsNext => SessionsInv'
BY StartSession, UpdateSessionOptions, StopSession, GetBatchedLocations, ResponseStep, OnResponseStep,
   TripEndStep DEF SessionsNext

LEMMA SessionsInductive == Spec => []SessionsInv
<1>1. Init => SessionsInv
  <2> SUFFICES ASSUME Init PROVE SessionsInv
    OBVIOUS
  <2>1. SessionsInit
    BY DEF Init
  <2>2. SessionDictOK
    <3>1. NoSession \in [session : 0..0, mode : SessionModes] /\ NoSession.session = 0
      BY DEF NoSession, SessionModes
    <3>2. mSessionBiDict \in [Ids -> [session : 0..0, mode : SessionModes]]
      BY <2>1, <3>1 DEF SessionsInit
    <3>3. lastSession = 0 /\ shifted = FALSE /\ \A i \in Ids : ~hasId(i)
      BY <2>1, <3>1 DEF SessionsInit, hasId
    <3> QED BY <3>2, <3>3 DEF SessionDictOK
  <2>3. IsQueue(<<>>) /\ Len(<<>>) = 0 /\ 1..0 = {}
    BY ShortQueues
  <2>4. CommandsOK /\ FlpOK
    BY <2>1, <2>3 DEF SessionsInit, CommandsOK, FlpOK
  <2>5. Matched(<<>>, <<>>)
    <3>1. [i \in 1..Len(<<>>) |-> i] \in [1..Len(<<>>) -> 1..Len(<<>>)]
      OBVIOUS
    <3>2. MatchedBy([i \in 1..Len(<<>>) |-> i], <<>>, <<>>)
      BY <2>3, <3>1 DEF MatchedBy
    <3> QED BY <3>1, <3>2 DEF Matched
  <2>6. RequestsMatch
    BY <2>1, <2>5 DEF SessionsInit, RequestsMatch
  <2>7. ForgottenOver /\ AnswersMatch
    BY <2>1 DEF SessionsInit, ForgottenOver, AnswersMatch, NoAnswer
  <2>8. SessionStoppable
    BY <2>1 DEF SessionsInit, SessionStoppable
  <2> QED BY <2>2, <2>4, <2>6, <2>7, <2>8 DEF SessionsInv
<1>2. SessionsInv /\ [Next]_vars => SessionsInv'
  <2> SUFFICES ASSUME SessionsInv, [Next]_vars PROVE SessionsInv'
    OBVIOUS
  <2>1. CASE SessionsNext
    BY <2>1, SessionsStep
  <2>2. CASE UNCHANGED sessionVars
    <3>1. /\ SessionDictOK' = SessionDictOK /\ CommandsOK' = CommandsOK /\ FlpOK' = FlpOK
          /\ RequestsMatch' = RequestsMatch /\ ForgottenOver' = ForgottenOver
      BY <2>2 DEF sessionVars, SessionDictOK, CommandsOK, FlpOK, RequestsMatch, ForgottenOver, hasId,
           hasSession, Queued, Forgets, NoAnswer
    <3>2. AnswersMatch' = AnswersMatch /\ SessionStoppable' = SessionStoppable
      BY <2>2 DEF sessionVars, AnswersMatch, SessionStoppable, hasSession, Queued, NoAnswer
    <3> QED BY <3>1, <3>2 DEF SessionsInv
  <2> QED BY <2>1, <2>2 DEF Next, vars, servicesVars
<1> QED BY <1>1, <1>2, PTL DEF Spec

(* A response is handled by the request it answers: the blind pop of       *)
(* getRequestBySession takes the request of the command that was done, as  *)
(* long as no response finds its session gone.                             *)
THEOREM AnswersFind == Spec => []AnswersMatch
BY SessionsInductive, PTL DEF SessionsInv

(* No session goes on in the FLP that the client can no longer stop        *)
(* (locAPIUpdateSessionOptions, onResponseCb, beforeBatchingStatusCb).     *)
THEOREM Stoppable == Spec => []SessionStoppable
BY SessionsInductive, PTL DEF SessionsInv


-----------------------------------------------------------------------------
(* Geofences: the dictionary, the engine and its commands *)

FenceBudget ==
  /\ fenceCalls \in 0..MaxFenceCalls /\ lastFence \in Nat
  /\ lastFence <= Cardinality(FenceIds) * fenceCalls

(* The maps are inverses where the framework has a fence. A failed addition *)
(* leaves its entries, and the id may get another fence.                    *)
DictionaryOK ==
  /\ forward \in [FenceIds -> 0..lastFence]
  /\ backward \in [Fences -> FenceIds \union {0}]
  /\ ext \in [Fences -> BreachMasks]
  /\ wanted \in [FenceIds -> [fence : 0..lastFence, mask : BreachMasks]]
  /\ \A i \in FenceIds : forward[i] # 0 => backward[forward[i]] = i
  /\ \A i \in FenceIds : wanted[i].fence = 0 => wanted[i] = Unwanted
  /\ \A i \in FenceIds : wanted[i].fence # 0 =>
       forward[i] = wanted[i].fence /\ ext[forward[i]] = wanted[i].mask

Held(f) == \E i \in FenceIds : wanted[i].fence = f
ToRemoveAfter(k, f) ==
  \E j \in 1..Len(engineCommands) :
    j > k /\ engineCommands[j].op = "remove" /\ f \in engineCommands[j].fences

(* A fence is added once, and until then it is held, or forgotten and its   *)
(* removal follows.                                                         *)
EngineCommandsOK ==
  /\ IsQueue(engineCommands) /\ IsQueue(fenceRequests)
  /\ Len(fenceRequests) = Len(engineCommands)
  /\ \A k \in 1..Len(engineCommands) :
       /\ fenceRequests[k] = engineCommands[k].op
       /\ engineCommands[k].fences \subseteq 1..lastFence
       /\ engineCommands[k].op = "add" =>
            \A f \in engineCommands[k].fences :
              /\ Held(f) \/ (backward[f] = 0 /\ ToRemoveAfter(k, f))
              /\ f \notin engineFences
              /\ \A j \in 1..Len(engineCommands) :
                   engineCommands[j].op = "add" /\ f \in engineCommands[j].fences => j = k

Watched ==
  /\ engineFences \subseteq 1..lastFence
  /\ \A f \in engineFences : Held(f) \/ ToRemoveAfter(0, f)

FenceInv == FenceBudget /\ DictionaryOK /\ EngineCommandsOK /\ Watched

LEMMA Monotone == \A n, a, b \in Nat : a <= b => n * a <= n * b
<1> SUFFICES ASSUME NEW n \in Nat, NEW a \in Nat, NEW b \in Nat, a <= b PROVE n * a <= n * b
  OBVIOUS
<1>1. PICK d \in Nat : b = a + d
  <2>1. b - a \in Nat /\ b = a + (b - a)
    OBVIOUS
  <2> QED BY <2>1
<1>2. n * b = n * a + n * d /\ n * d \in Nat /\ n * a \in Nat
  BY <1>1
<1> QED BY <1>2

(* A call gives the engine no more new fences than there are ids. *)
LEMMA BudgetKept ==
  ASSUME FenceBudget, FenceCall, lastFence' \in Nat,
         lastFence <= lastFence', lastFence' <= lastFence + Cardinality(FenceIds)
  PROVE  FenceBudget' /\ 1..lastFence' \subseteq Fences
<1>1. PICK n \in Nat : n = Cardinality(FenceIds)
  BY FenceAssumption, FS_CardinalityType
<1>2. /\ fenceCalls \in Nat /\ fenceCalls + 1 <= MaxFenceCalls /\ MaxFenceCalls \in Nat
      /\ fenceCalls' = fenceCalls + 1 /\ lastFence \in Nat /\ lastFence <= n * fenceCalls
  BY <1>1, FenceAssumption DEF FenceBudget, FenceCall
<1>3. n * (fenceCalls + 1) = n * fenceCalls + n /\ n * fenceCalls \in Nat
  BY <1>1, <1>2
<1>4. lastFence' <= n * (fenceCalls + 1)
  BY <1>1, <1>2, <1>3
<1>5. n * (fenceCalls + 1) <= n * MaxFenceCalls
  BY <1>1, <1>2, Monotone
<1>6. n * (fenceCalls + 1) \in Nat /\ n * MaxFenceCalls \in Nat
  BY <1>1, <1>2
<1>7. FenceBudget'
  BY <1>1, <1>2, <1>4 DEF FenceBudget
<1>8. lastFence' <= n * MaxFenceCalls
  BY <1>4, <1>5, <1>6
<1> QED BY <1>1, <1>6, <1>7, <1>8 DEF Fences

(* The engine finds new numbers for any of the ids. *)
LEMMA Numbered ==
  ASSUME NEW is \in SUBSET FenceIds, NEW m \in Nat
  PROVE  /\ Cardinality(is) \in Nat /\ Cardinality(is) <= Cardinality(FenceIds)
         /\ \E n \in [is -> (m + 1)..(m + Cardinality(is))] :
              \A i, j \in is : i # j => n[i] # n[j]
<1>1. IsFiniteSet(is) /\ Cardinality(is) <= Cardinality(FenceIds)
  BY FenceAssumption, FS_Subset
<1>2. PICK c \in Nat : c = Cardinality(is)
  BY <1>1, FS_CardinalityType
<1>3. IsFiniteSet((m + 1)..(m + c)) /\ Cardinality((m + 1)..(m + c)) = c
  <2>1. m + 1 \in Int /\ m + c \in Int
    BY <1>2
  <2>2. /\ IsFiniteSet((m + 1)..(m + c))
        /\ Cardinality((m + 1)..(m + c)) = IF m + 1 > m + c THEN 0 ELSE (m + c) - (m + 1) + 1
    BY <2>1, FS_Interval
  <2> QED BY <1>2, <2>2
<1>4. PICK n : n \in Bijection(is, (m + 1)..(m + c))
  BY <1>1, <1>2, <1>3, FS_SameCardinalityBij DEF ExistsBijection
<1>5. n \in [is -> (m + 1)..(m + c)] /\ \A i, j \in is : i # j => n[i] # n[j]
  BY <1>4 DEF Bijection, Injection, IsInjective
<1> QED BY <1>1, <1>2, <1>5


(* A request goes to the engine behind the others. A fence of which nobody  *)
(* is to know any more is in a removal.                                     *)
LEMMA RequestedStep ==
  ASSUME EngineCommandsOK, Watched, NEW kind, NEW fs, FenceRequest(kind, fs), lastFence \in Nat,
         lastFence' \in Nat, lastFence <= lastFence', fs \subseteq 1..lastFence',
         UNCHANGED engineFences,
         \A f \in 1..lastFence : Held(f) =>
           Held(f)' \/ (kind = "remove" /\ f \in fs /\ backward'[f] = 0),
         \A f \in 1..lastFence : backward[f] = 0 => backward'[f] = 0,
         kind = "add" => \A f \in fs : f \notin 1..lastFence /\ Held(f)'
  PROVE  EngineCommandsOK' /\ Watched'
<1>1. PICK n, c, d, r :
        /\ n = Len(engineCommands) /\ c = engineCommands' /\ r = fenceRequests'
        /\ d = [op |-> kind, fences |-> fs]
  OBVIOUS
<1>2. c = Append(engineCommands, d) /\ r = Append(fenceRequests, kind)
  BY <1>1 DEF FenceRequest
<1>3. IsQueue(engineCommands) /\ IsQueue(fenceRequests) /\ Len(fenceRequests) = n
  BY <1>1 DEF EngineCommandsOK
<1>4. /\ n \in Nat /\ IsQueue(c) /\ Len(c) = n + 1 /\ c[n + 1] = d
      /\ \A k \in 1..n : c[k] = engineCommands[k]
  BY <1>1, <1>2, <1>3, QueueAppend
<1>5. /\ IsQueue(r) /\ Len(r) = n + 1 /\ r[n + 1] = kind
      /\ \A k \in 1..n : r[k] = fenceRequests[k]
  BY <1>2, <1>3, QueueAppend
<1>6. d.op = kind /\ d.fences = fs
  BY <1>1
<1>7. \A k \in 1..n :
        /\ fenceRequests[k] = engineCommands[k].op
        /\ engineCommands[k].fences \subseteq 1..lastFence
  BY <1>1 DEF EngineCommandsOK
<1>8. ASSUME NEW k \in 0..n, NEW f, ToRemoveAfter(k, f) PROVE ToRemoveAfter(k, f)'
  <2>1. PICK j \in 1..n :
          j > k /\ engineCommands[j].op = "remove" /\ f \in engineCommands[j].fences
    BY <1>1, <1>8 DEF ToRemoveAfter
  <2>2. j \in 1..Len(c) /\ c[j] = engineCommands[j]
    BY <1>4
  <2> QED BY <1>1, <2>1, <2>2 DEF ToRemoveAfter
<1>9. ASSUME NEW k \in 0..n, NEW f \in fs, kind = "remove" PROVE ToRemoveAfter(k, f)'
  <2>1. n + 1 \in 1..Len(c) /\ n + 1 > k /\ c[n + 1].op = "remove" /\ f \in c[n + 1].fences
    BY <1>4, <1>6, <1>9
  <2> QED BY <1>1, <2>1 DEF ToRemoveAfter
<1>10. ASSUME NEW k \in 1..n + 1
       PROVE  /\ r[k] = c[k].op
              /\ c[k].fences \subseteq 1..lastFence'
              /\ c[k].op = "add" =>
                   \A f \in c[k].fences :
                     /\ Held(f)' \/ (backward'[f] = 0 /\ ToRemoveAfter(k, f)')
                     /\ f \notin engineFences'
                     /\ \A j \in 1..n + 1 : c[j].op = "add" /\ f \in c[j].fences => j = k
  <2>1. CASE k = n + 1
    <3>1. r[k] = c[k].op /\ c[k].fences \subseteq 1..lastFence'
      BY <1>4, <1>5, <1>6, <2>1
    <3>2. ASSUME c[k].op = "add", NEW f \in c[k].fences
          PROVE  /\ Held(f)' /\ f \notin engineFences'
                 /\ \A j \in 1..n + 1 : c[j].op = "add" /\ f \in c[j].fences => j = k
      <4>1. f \notin 1..lastFence /\ Held(f)'
        BY <1>4, <1>6, <2>1, <3>2
      <4>2. f \notin engineFences'
        BY <4>1 DEF Watched
      <4>3. \A j \in 1..n : f \notin c[j].fences
        BY <1>4, <1>7, <4>1
      <4> QED BY <1>4, <2>1, <4>1, <4>2, <4>3
    <3> QED BY <3>1, <3>2
  <2>2. CASE k \in 1..n
    <3>1. c[k] = engineCommands[k]
      BY <1>4, <2>2
    <3>2. r[k] = c[k].op /\ c[k].fences \subseteq 1..lastFence'
      BY <1>5, <1>7, <2>2, <3>1
    <3>3. ASSUME c[k].op = "add", NEW f \in c[k].fences
          PROVE  /\ Held(f)' \/ (backward'[f] = 0 /\ ToRemoveAfter(k, f)')
                 /\ f \notin engineFences'
                 /\ \A j \in 1..n + 1 : c[j].op = "add" /\ f \in c[j].fences => j = k
      <4>1. /\ Held(f) \/ (backward[f] = 0 /\ ToRemoveAfter(k, f))
            /\ f \notin engineFences
            /\ \A j \in 1..n : engineCommands[j].op = "add" /\ f \in engineCommands[j].fences => j = k
        BY <1>1, <2>2, <3>1, <3>3 DEF EngineCommandsOK
      <4>2. f \in 1..lastFence
        BY <1>7, <2>2, <3>1, <3>3
      <4>3. Held(f)' \/ (backward'[f] = 0 /\ ToRemoveAfter(k, f)')
        <5>1. k \in 0..n
          BY <2>2
        <5>2. CASE Held(f)
          <6>1. CASE Held(f)'
            BY <6>1
          <6>2. CASE kind = "remove" /\ f \in fs /\ backward'[f] = 0
            BY <1>9, <5>1, <6>2
          <6> QED BY <4>2, <5>2, <6>1, <6>2
        <5>3. CASE backward[f] = 0 /\ ToRemoveAfter(k, f)
          BY <1>8, <4>2, <5>1, <5>3
        <5> QED BY <4>1, <5>2, <5>3
      <4>4. ASSUME NEW j \in 1..n + 1, c[j].op = "add", f \in c[j].fences PROVE j = k
        <5>1. CASE j \in 1..n
          BY <1>4, <4>1, <4>4, <5>1
        <5>2. CASE j = n + 1
          BY <1>4, <1>6, <4>2, <4>4, <5>2
        <5> QED BY <1>4, <5>1, <5>2
      <4> QED BY <4>1, <4>3, <4>4
    <3> QED BY <3>2, <3>3
  <2> QED BY <1>4, <2>1, <2>2
<1>11. EngineCommandsOK'
  <2>1. Len(c) = n + 1 /\ Len(r) = n + 1
    BY <1>4, <1>5
  <2> QED BY <1>1, <1>4, <1>5, <1>10, <2>1 DEF EngineCommandsOK
<1>12. Watched'
  <2>1. engineFences' = engineFences /\ engineFences \subseteq 1..lastFence
    BY DEF Watched
  <2>2. engineFences' \subseteq 1..lastFence'
    BY <2>1
  <2>3. ASSUME NEW f \in engineFences PROVE Held(f)' \/ ToRemoveAfter(0, f)'
    <3>1. f \in 1..lastFence /\ 0 \in 0..n
      BY <1>4, <2>1
    <3>2. CASE ToRemoveAfter(0, f)
      BY <1>8, <3>1, <3>2
    <3>3. CASE Held(f)
      BY <1>9, <3>1, <3>3
    <3> QED BY <2>3, <3>2, <3>3 DEF Watched
  <2> QED BY <2>1, <2>2, <2>3 DEF Watched
<1> QED BY <1>11, <1>12


LEMMA AddFences ==
  ASSUME FenceInv, NEW is \in (SUBSET FenceIds) \ {{}}, NEW mask \in BreachMasks,
         locAPIAddGeofences(is, mask)
  PROVE  FenceInv'
<1> DEFINE Numbers(n) == \A i, j \in is : i # j => n[i] # n[j]
           number == CHOOSE n \in [is -> (lastFence + 1)..(lastFence + Cardinality(is))] : Numbers(n)
<1>0. FenceBudget /\ DictionaryOK /\ EngineCommandsOK /\ Watched /\ lastFence \in Nat
  BY DEF FenceInv, FenceBudget
<1>1. /\ Cardinality(is) \in Nat /\ Cardinality(is) <= Cardinality(FenceIds)
      /\ \E n \in [is -> (lastFence + 1)..(lastFence + Cardinality(is))] : Numbers(n)
  BY <1>0, Numbered
<1>2. number \in [is -> (lastFence + 1)..(lastFence + Cardinality(is))] /\ Numbers(number)
  BY <1>1
<1> DEFINE new == {number[i] : i \in is}
<1>3. /\ FenceCall /\ \A i \in is : wanted[i] = Unwanted
      /\ lastFence' = lastFence + Cardinality(is)
      /\ forward' = [i \in FenceIds |-> IF i \in is THEN number[i] ELSE forward[i]]
      /\ backward' = [f \in Fences |-> IF f \in new THEN CHOOSE i \in is : number[i] = f
                                                    ELSE backward[f]]
      /\ ext' = [f \in Fences |-> IF f \in new THEN mask ELSE ext[f]]
      /\ wanted' = [i \in FenceIds |-> IF i \in is THEN [fence |-> number[i], mask |-> mask]
                                                   ELSE wanted[i]]
      /\ FenceRequest("add", new)
      /\ UNCHANGED engineFences
  BY DEF locAPIAddGeofences
<1>4. PICK num, news : num = number /\ news = new
  OBVIOUS
<1>5. \A i, j \in is : i # j => num[i] # num[j]
  BY <1>2, <1>4
<1>6. num \in [is -> (lastFence + 1)..lastFence'] /\ news = {num[i] : i \in is}
  BY <1>2, <1>3, <1>4
<1>7. /\ FenceCall /\ \A i \in is : wanted[i] = Unwanted
      /\ lastFence' = lastFence + Cardinality(is)
      /\ forward' = [i \in FenceIds |-> IF i \in is THEN num[i] ELSE forward[i]]
      /\ backward' = [f \in Fences |-> IF f \in news THEN CHOOSE i \in is : num[i] = f
                                                     ELSE backward[f]]
      /\ ext' = [f \in Fences |-> IF f \in news THEN mask ELSE ext[f]]
      /\ wanted' = [i \in FenceIds |-> IF i \in is THEN [fence |-> num[i], mask |-> mask]
                                                   ELSE wanted[i]]
      /\ FenceRequest("add", news)
      /\ UNCHANGED engineFences
  BY <1>3, <1>4
<1> HIDE DEF number, new, Numbers
<1>8. /\ lastFence' \in Nat /\ lastFence <= lastFence'
      /\ FenceBudget' /\ 1..lastFence' \subseteq Fences
  <2>1. PICK b : b = Cardinality(is) /\ b \in Nat /\ b <= Cardinality(FenceIds)
    BY <1>1
  <2>2. Cardinality(FenceIds) \in Nat
    BY FenceAssumption, FS_CardinalityType
  <2>3. /\ lastFence' \in Nat /\ lastFence <= lastFence'
        /\ lastFence' <= lastFence + Cardinality(FenceIds)
    BY <1>0, <1>7, <2>1, <2>2
  <2> QED BY <1>0, <1>7, <2>3, BudgetKept
<1>9. news \subseteq 1..lastFence' /\ \A f \in news : f \notin 0..lastFence /\ f \in Fences
  BY <1>0, <1>6, <1>8
<1>10. \A i \in is : (CHOOSE j \in is : num[j] = num[i]) = i
  BY <1>5
<1>11. DictionaryOK'
  <2>1. forward' \in [FenceIds -> 0..lastFence']
    BY <1>0, <1>6, <1>7, <1>8 DEF DictionaryOK
  <2>2. backward' \in [Fences -> FenceIds \union {0}]
    <3>1. ASSUME NEW f \in news PROVE (CHOOSE i \in is : num[i] = f) \in FenceIds
      BY <1>6
    <3> QED BY <1>0, <1>7, <3>1 DEF DictionaryOK
  <2>3. ext' \in [Fences -> BreachMasks]
    BY <1>0, <1>7 DEF DictionaryOK
  <2>4. wanted' \in [FenceIds -> [fence : 0..lastFence', mask : BreachMasks]]
    <3>1. ASSUME NEW i \in FenceIds PROVE wanted'[i] \in [fence : 0..lastFence', mask : BreachMasks]
      <4>1. CASE i \in is
        <5>1. num[i] \in 0..lastFence' /\ wanted'[i] = [fence |-> num[i], mask |-> mask]
          BY <1>0, <1>6, <1>7, <1>8, <4>1
        <5> QED BY <5>1
      <4>2. CASE i \notin is
        <5>1. wanted[i] \in [fence : 0..lastFence, mask : BreachMasks] /\ wanted'[i] = wanted[i]
          BY <1>0, <1>7, <4>2 DEF DictionaryOK
        <5>2. 0..lastFence \subseteq 0..lastFence'
          BY <1>0, <1>8
        <5> QED BY <5>1, <5>2
      <4> QED BY <4>1, <4>2
    <3> QED BY <1>7, <3>1
  <2>5. ASSUME NEW i \in FenceIds
        PROVE  /\ forward'[i] # 0 => backward'[forward'[i]] = i
               /\ wanted'[i].fence = 0 => wanted'[i] = Unwanted
               /\ wanted'[i].fence # 0 =>
                    forward'[i] = wanted'[i].fence /\ ext'[forward'[i]] = wanted'[i].mask
    <3>1. CASE i \in is
      <4>1. num[i] \in news /\ num[i] \in Fences /\ num[i] # 0
        BY <1>0, <1>6, <1>9, <3>1
      <4>2. forward'[i] = num[i] /\ wanted'[i] = [fence |-> num[i], mask |-> mask]
        BY <1>7, <3>1
      <4>3. backward'[num[i]] = CHOOSE j \in is : num[j] = num[i]
        BY <1>7, <4>1
      <4>4. backward'[num[i]] = i
        BY <1>10, <3>1, <4>3
      <4>5. ext'[num[i]] = mask
        BY <1>7, <4>1
      <4> QED BY <4>1, <4>2, <4>4, <4>5
    <3>2. CASE i \notin is
      <4>1. forward'[i] = forward[i] /\ wanted'[i] = wanted[i]
        BY <1>7, <3>2
      <4>2. forward[i] \in 0..lastFence
        BY <1>0 DEF DictionaryOK
      <4>3. forward[i] # 0 => forward[i] \in Fences /\ forward[i] \notin news
        BY <1>0, <1>8, <1>9, <4>2
      <4>4. forward[i] # 0 => backward'[forward[i]] = backward[forward[i]]
                              /\ ext'[forward[i]] = ext[forward[i]]
        BY <1>7, <4>3
      <4>5. /\ forward[i] # 0 => backward[forward[i]] = i
            /\ wanted[i].fence = 0 => wanted[i] = Unwanted
            /\ wanted[i].fence # 0 =>
                 forward[i] = wanted[i].fence /\ ext[forward[i]] = wanted[i].mask
        BY <1>0 DEF DictionaryOK
      <4> QED BY <4>1, <4>4, <4>5
    <3> QED BY <3>1, <3>2
  <2> QED BY <2>1, <2>2, <2>3, <2>4, <2>5 DEF DictionaryOK
<1>12. ASSUME NEW f \in 1..lastFence, Held(f) PROVE Held(f)'
  <2>1. PICK i \in FenceIds : wanted[i].fence = f
    BY <1>12 DEF Held
  <2>2. i \notin is
    BY <1>0, <1>7, <2>1 DEF Unwanted
  <2> QED BY <1>7, <2>1, <2>2 DEF Held
<1>13. ASSUME NEW f \in 1..lastFence, backward[f] = 0 PROVE backward'[f] = 0
  BY <1>0, <1>7, <1>8, <1>9, <1>13
<1>14. ASSUME NEW f \in news PROVE f \notin 1..lastFence /\ Held(f)'
  <2>1. PICK i \in is : num[i] = f
    BY <1>6
  <2>2. wanted'[i].fence = f
    BY <1>7, <2>1
  <2> QED BY <1>0, <1>9, <2>2 DEF Held
<1>15. EngineCommandsOK' /\ Watched'
  BY <1>0, <1>7, <1>8, <1>9, <1>12, <1>13, <1>14, RequestedStep
<1> QED BY <1>8, <1>11, <1>15 DEF FenceInv


(* A call that adds no fences has those of the ids it knows. *)
LEMMA SameFences ==
  ASSUME FenceInv, FenceCall, UNCHANGED lastFence, NEW is \in SUBSET FenceIds
  PROVE  /\ FenceBudget' /\ lastFence \in Nat /\ 1..lastFence \subseteq Fences
         /\ FencesOf(is) \subseteq 1..lastFence
         /\ \A i \in FenceIds : forward[i] # 0 =>
              forward[i] \in 1..lastFence /\ (forward[i] \in FencesOf(is) => i \in is)
         /\ \A i \in FenceIds : forward[i] # 0 /\ i \in is => forward[i] \in FencesOf(is)
<1>1. FenceBudget /\ DictionaryOK /\ lastFence \in Nat
  BY DEF FenceInv, FenceBudget
<1>2. FenceBudget' /\ 1..lastFence \subseteq Fences
  <2>1. lastFence' \in Nat /\ lastFence <= lastFence' /\ lastFence' <= lastFence + Cardinality(FenceIds)
    <3>1. PICK n \in Nat : n = Cardinality(FenceIds)
      BY FenceAssumption, FS_CardinalityType
    <3> QED BY <1>1, <3>1
  <2>2. FenceBudget' /\ 1..lastFence' \subseteq Fences
    BY <1>1, <2>1, BudgetKept
  <2> QED BY <2>2
<1>3. \A i \in FenceIds : forward[i] \in 0..lastFence /\ (forward[i] # 0 => backward[forward[i]] = i)
  BY <1>1 DEF DictionaryOK
<1>4. \A i \in FenceIds : forward[i] # 0 => forward[i] \in 1..lastFence
  BY <1>1, <1>3
<1>5. FencesOf(is) \subseteq 1..lastFence
  BY <1>4 DEF FencesOf, Known
<1>6. ASSUME NEW i \in FenceIds, forward[i] # 0, forward[i] \in FencesOf(is) PROVE i \in is
  <2>1. PICK j \in is : forward[j] # 0 /\ forward[i] = forward[j]
    BY <1>6 DEF FencesOf, Known
  <2>2. backward[forward[i]] = i /\ backward[forward[i]] = j
    BY <1>3, <1>6, <2>1
  <2> QED BY <2>2, <2>1
<1>7. \A i \in FenceIds : forward[i] # 0 /\ i \in is => forward[i] \in FencesOf(is)
  BY DEF FencesOf, Known
<1> QED BY <1>1, <1>2, <1>4, <1>5, <1>6, <1>7

LEMMA RemoveFences ==
  ASSUME FenceInv, NEW is \in (SUBSET FenceIds) \ {{}}, locAPIRemoveGeofences(is)
  PROVE  FenceInv'
<1>0. FenceBudget /\ DictionaryOK /\ EngineCommandsOK /\ Watched
  BY DEF FenceInv
<1>1. PICK fs : fs = FencesOf(is)
  OBVIOUS
<1>2. /\ FenceCall
      /\ forward' = [i \in FenceIds |-> IF \E f \in fs : backward[f] = i THEN 0 ELSE forward[i]]
      /\ backward' = [f \in Fences |-> IF f \in fs THEN 0 ELSE backward[f]]
      /\ ext' = [f \in Fences |-> IF f \in fs THEN {} ELSE ext[f]]
      /\ wanted' = [i \in FenceIds |-> IF i \in is THEN Unwanted ELSE wanted[i]]
      /\ FenceRequest("remove", fs)
      /\ UNCHANGED <<lastFence, engineFences>>
  BY <1>1 DEF locAPIRemoveGeofences, rmBySession
<1>3. /\ FenceBudget' /\ lastFence \in Nat /\ 1..lastFence \subseteq Fences /\ fs \subseteq 1..lastFence
      /\ \A i \in FenceIds : forward[i] # 0 =>
           forward[i] \in 1..lastFence /\ (forward[i] \in fs => i \in is)
      /\ \A i \in FenceIds : forward[i] # 0 /\ i \in is => forward[i] \in fs
  BY <1>1, <1>2, SameFences
<1>4. ASSUME NEW i \in FenceIds
      PROVE  /\ forward[i] \in 0..lastFence
             /\ forward[i] # 0 => backward[forward[i]] = i
             /\ wanted[i] \in [fence : 0..lastFence, mask : BreachMasks]
             /\ wanted[i].fence = 0 => wanted[i] = Unwanted
             /\ wanted[i].fence # 0 =>
                  forward[i] = wanted[i].fence /\ ext[forward[i]] = wanted[i].mask
  BY <1>0 DEF DictionaryOK
<1>5. ASSUME NEW i \in FenceIds, forward'[i] # 0
      PROVE  i \notin is /\ forward'[i] = forward[i] /\ forward[i] \in Fences \ fs
  <2>1. forward'[i] = forward[i] /\ ~\E f \in fs : backward[f] = i
    BY <1>2, <1>5
  <2>2. forward[i] \notin fs
    BY <1>4, <1>5, <2>1
  <2> QED BY <1>3, <1>5, <2>1, <2>2
<1>6. ASSUME NEW i \in FenceIds \ is, wanted[i].fence # 0 PROVE forward'[i] = forward[i]
  <2>1. ASSUME NEW f \in fs, backward[f] = i PROVE FALSE
    <3>1. PICK j \in is : forward[j] # 0 /\ forward[j] = f
      BY <1>1 DEF FencesOf, Known
    <3>2. backward[f] = j
      BY <1>4, <3>1
    <3> QED BY <2>1, <3>1, <3>2
  <2> QED BY <1>2, <2>1
<1>7. DictionaryOK'
  <2>1. forward' \in [FenceIds -> 0..lastFence'] /\ backward' \in [Fences -> FenceIds \union {0}]
    <3>1. 0 \in 0..lastFence
      BY <1>3
    <3> QED BY <1>0, <1>2, <3>1 DEF DictionaryOK
  <2>2. ext' \in [Fences -> BreachMasks]
    BY <1>0, <1>2 DEF DictionaryOK, BreachMasks
  <2>3. wanted' \in [FenceIds -> [fence : 0..lastFence', mask : BreachMasks]]
    <3>1. Unwanted \in [fence : 0..lastFence, mask : BreachMasks]
      BY <1>3 DEF Unwanted, BreachMasks
    <3> QED BY <1>2, <1>4, <3>1
  <2>4. ASSUME NEW i \in FenceIds
        PROVE  /\ forward'[i] # 0 => backward'[forward'[i]] = i
               /\ wanted'[i].fence = 0 => wanted'[i] = Unwanted
               /\ wanted'[i].fence # 0 =>
                    forward'[i] = wanted'[i].fence /\ ext'[forward'[i]] = wanted'[i].mask
    <3>1. forward'[i] # 0 => backward'[forward'[i]] = i
      BY <1>2, <1>4, <1>5
    <3>2. CASE i \in is
      BY <1>2, <3>1, <3>2 DEF Unwanted
    <3>3. CASE i \notin is
      <4>1. wanted'[i] = wanted[i]
        BY <1>2, <3>3
      <4>2. ASSUME wanted[i].fence # 0
            PROVE  forward'[i] = wanted[i].fence /\ ext'[forward'[i]] = wanted[i].mask
        <5>1. forward'[i] = forward[i] /\ forward[i] = wanted[i].fence /\ ext[forward[i]] = wanted[i].mask
          BY <1>4, <1>6, <3>3, <4>2
        <5>2. forward'[i] # 0
          BY <4>2, <5>1
        <5> QED BY <1>2, <1>5, <5>1, <5>2
      <4> QED BY <1>4, <3>1, <4>1, <4>2
    <3> QED BY <3>2, <3>3
  <2> QED BY <2>1, <2>2, <2>3, <2>4 DEF DictionaryOK
<1>8. ASSUME NEW f \in 1..lastFence, Held(f) PROVE Held(f)' \/ (f \in fs /\ backward'[f] = 0)
  <2>1. PICK i \in FenceIds : wanted[i].fence = f
    BY <1>8 DEF Held
  <2>2. CASE i \notin is
    BY <1>2, <2>1, <2>2 DEF Held
  <2>3. CASE i \in is
    <3>1. forward[i] = f /\ forward[i] # 0
      BY <1>4, <2>1
    <3>2. f \in fs /\ f \in Fences
      BY <1>3, <2>3, <3>1
    <3> QED BY <1>2, <3>2
  <2> QED BY <2>2, <2>3
<1>9. \A f \in 1..lastFence : backward[f] = 0 => backward'[f] = 0
  BY <1>2, <1>3
<1>10. PICK kind : kind = "remove"
  OBVIOUS
<1>11. /\ FenceRequest(kind, fs) /\ UNCHANGED engineFences
       /\ lastFence \in Nat /\ lastFence' \in Nat /\ lastFence <= lastFence' /\ fs \subseteq 1..lastFence'
       /\ kind = "add" => \A f \in fs : f \notin 1..lastFence /\ Held(f)'
  BY <1>2, <1>3, <1>10
<1>12. \A f \in 1..lastFence : Held(f) =>
         Held(f)' \/ (kind = "remove" /\ f \in fs /\ backward'[f] = 0)
  BY <1>8, <1>10
<1>13. EngineCommandsOK' /\ Watched'
  BY <1>0, <1>9, <1>11, <1>12, RequestedStep
<1> QED BY <1>3, <1>7, <1>13 DEF FenceInv

LEMMA RewatchFences ==
  ASSUME FenceInv, NEW kind \in {"modify", "resume"}, NEW is \in (SUBSET FenceIds) \ {{}},
         NEW mask \in BreachMasks, Rewatch(kind, is, mask)
  PROVE  FenceInv'
<1>0. FenceBudget /\ DictionaryOK /\ EngineCommandsOK /\ Watched
  BY DEF FenceInv
<1>1. PICK fs : fs = FencesOf(is)
  OBVIOUS
<1>2. /\ FenceCall
      /\ ext' = [f \in Fences |-> IF f \in fs THEN mask ELSE ext[f]]
      /\ wanted' = [i \in FenceIds |-> IF i \in is /\ wanted[i] # Unwanted
                                         THEN [wanted[i] EXCEPT !.mask = mask] ELSE wanted[i]]
      /\ FenceRequest(kind, fs)
      /\ UNCHANGED <<forward, backward, lastFence, engineFences>>
  BY <1>1 DEF Rewatch
<1>3. /\ FenceBudget' /\ lastFence \in Nat /\ 1..lastFence \subseteq Fences /\ fs \subseteq 1..lastFence
      /\ \A i \in FenceIds : forward[i] # 0 =>
           forward[i] \in 1..lastFence /\ (forward[i] \in fs => i \in is)
      /\ \A i \in FenceIds : forward[i] # 0 /\ i \in is => forward[i] \in fs
  BY <1>1, <1>2, SameFences
<1>4. ASSUME NEW i \in FenceIds
      PROVE  /\ forward[i] # 0 => backward[forward[i]] = i
             /\ wanted[i] \in [fence : 0..lastFence, mask : BreachMasks]
             /\ wanted[i].fence = 0 => wanted[i] = Unwanted
             /\ wanted[i].fence # 0 =>
                  forward[i] = wanted[i].fence /\ ext[forward[i]] = wanted[i].mask
  BY <1>0 DEF DictionaryOK
<1>5. ASSUME NEW i \in FenceIds
      PROVE  /\ wanted'[i] \in [fence : 0..lastFence, mask : BreachMasks]
             /\ wanted'[i].fence = wanted[i].fence
             /\ wanted[i].fence = 0 => wanted'[i] = Unwanted
             /\ wanted[i].fence # 0 => wanted'[i].mask = IF i \in is THEN mask ELSE wanted[i].mask
  <2>1. CASE i \in is /\ wanted[i] # Unwanted
    <3>1. wanted'[i] = [wanted[i] EXCEPT !.mask = mask]
      BY <1>2, <2>1
    <3>2. wanted[i].fence # 0
      BY <1>4, <2>1
    <3> QED BY <1>4, <2>1, <3>1, <3>2
  <2>2. CASE ~(i \in is /\ wanted[i] # Unwanted)
    <3>1. wanted'[i] = wanted[i] /\ (wanted[i].fence # 0 => i \notin is)
      BY <1>2, <2>2 DEF Unwanted
    <3> QED BY <1>4, <3>1
  <2> QED BY <2>1, <2>2
<1>6. DictionaryOK'
  <2>1. forward' \in [FenceIds -> 0..lastFence'] /\ backward' \in [Fences -> FenceIds \union {0}]
    BY <1>0, <1>2 DEF DictionaryOK
  <2>2. ext' \in [Fences -> BreachMasks]
    BY <1>0, <1>2 DEF DictionaryOK
  <2>3. wanted' \in [FenceIds -> [fence : 0..lastFence', mask : BreachMasks]]
    <3>1. wanted' = [i \in FenceIds |-> wanted'[i]]
      BY <1>2
    <3> QED BY <1>2, <1>5, <3>1
  <2>4. ASSUME NEW i \in FenceIds, wanted'[i].fence # 0
        PROVE  forward'[i] = wanted'[i].fence /\ ext'[forward'[i]] = wanted'[i].mask
    <3>1. wanted[i].fence # 0 /\ forward[i] = wanted[i].fence /\ ext[forward[i]] = wanted[i].mask
      BY <1>4, <1>5, <2>4
    <3>2. forward[i] \in Fences /\ (forward[i] \in fs <=> i \in is)
      BY <1>3, <3>1
    <3> QED BY <1>2, <1>5, <3>1, <3>2
  <2> QED BY <1>2, <1>4, <1>5, <2>1, <2>2, <2>3, <2>4 DEF DictionaryOK
<1>7. ASSUME NEW f \in 1..lastFence, Held(f) PROVE Held(f)'
  BY <1>5, <1>7 DEF Held
<1>8. EngineCommandsOK' /\ Watched'
  BY <1>0, <1>2, <1>3, <1>7, RequestedStep
<1> QED BY <1>3, <1>6, <1>8 DEF FenceInv

LEMMA PauseFences ==
  ASSUME FenceInv, NEW is \in (SUBSET FenceIds) \ {{}}, locAPIPauseGeofences(is)
  PROVE  FenceInv'
<1>0. FenceBudget /\ DictionaryOK /\ EngineCommandsOK /\ Watched
  BY DEF FenceInv
<1>1. /\ FenceCall /\ FenceRequest("pause", FencesOf(is))
      /\ UNCHANGED <<forward, backward, ext, lastFence, engineFences, wanted>>
  BY DEF locAPIPauseGeofences
<1>2. FenceBudget' /\ lastFence \in Nat /\ FencesOf(is) \subseteq 1..lastFence
  BY <1>1, SameFences
<1>3. DictionaryOK'
  BY <1>0, <1>1 DEF DictionaryOK
<1>4. \A f : Held(f) => Held(f)'
  BY <1>1 DEF Held
<1>5. EngineCommandsOK' /\ Watched'
  BY <1>0, <1>1, <1>2, <1>4, RequestedStep
<1> QED BY <1>2, <1>3, <1>5 DEF FenceInv


(* The answer to the oldest request. Only the fences that were refused are  *)
(* given up, since a fence that is to be added belongs to the id the        *)
(* dictionary has for it, or to none.                                       *)
LEMMA FenceResponse ==
  ASSUME FenceInv, onCollectiveResponseCb
  PROVE  FenceInv'
<1>0. FenceBudget /\ DictionaryOK /\ EngineCommandsOK /\ Watched /\ lastFence \in Nat
  BY DEF FenceInv, FenceBudget
<1>1. PICK n, c, r, d :
        /\ n = Len(engineCommands) /\ c = engineCommands' /\ r = fenceRequests'
        /\ d = engineCommands[1]
  OBVIOUS
<1>2. engineCommands # <<>> /\ c = Tail(engineCommands) /\ r = Tail(fenceRequests)
  BY <1>1 DEF onCollectiveResponseCb
<1>3. IsQueue(engineCommands) /\ IsQueue(fenceRequests) /\ Len(fenceRequests) = n
  BY <1>0, <1>1 DEF EngineCommandsOK
<1>4. /\ n \in Nat \ {0} /\ IsQueue(c) /\ Len(c) = n - 1 /\ Head(engineCommands) = d
      /\ \A k \in 1 .. n - 1 : c[k] = engineCommands[k + 1]
  BY <1>1, <1>2, <1>3, QueueTail
<1>5. /\ IsQueue(r) /\ Len(r) = n - 1 /\ Head(fenceRequests) = fenceRequests[1]
      /\ \A k \in 1 .. n - 1 : r[k] = fenceRequests[k + 1]
  <2>1. fenceRequests # <<>>
    BY <1>3, <1>4
  <2> QED BY <1>2, <1>3, <2>1, QueueTail
<1>6. ASSUME NEW k \in 1..n
      PROVE  /\ fenceRequests[k] = engineCommands[k].op
             /\ engineCommands[k].fences \subseteq 1..lastFence
             /\ engineCommands[k].op = "add" =>
                  \A f \in engineCommands[k].fences :
                    /\ Held(f) \/ (backward[f] = 0 /\ ToRemoveAfter(k, f))
                    /\ f \notin engineFences
                    /\ \A j \in 1..n :
                         engineCommands[j].op = "add" /\ f \in engineCommands[j].fences => j = k
  BY <1>0, <1>1 DEF EngineCommandsOK
<1>7. 1 \in 1..n /\ Head(fenceRequests) = d.op /\ d.fences \subseteq 1..lastFence
  BY <1>1, <1>4, <1>5, <1>6
<1>8. PICK refused \in SUBSET d.fences :
        /\ d.op # "add" => refused = {}
        /\ engineFences' = CASE d.op = "add" -> engineFences \union (d.fences \ refused)
                             [] d.op = "remove" -> engineFences \ d.fences
                             [] OTHER -> engineFences
        /\ wanted' = [i \in FenceIds |->
             IF i \in (IF d.op = "add" THEN {backward[f] : f \in refused} ELSE {})
               THEN Unwanted ELSE wanted[i]]
  BY <1>4, <1>7 DEF onCollectiveResponseCb
<1>9. /\ d.op = "add" => engineFences' = engineFences \union (d.fences \ refused)
      /\ d.op = "remove" => engineFences' = engineFences \ d.fences
      /\ d.op \notin {"add", "remove"} => engineFences' = engineFences
  BY <1>8
<1>10. UNCHANGED <<fenceCalls, forward, backward, ext, lastFence>>
  BY DEF onCollectiveResponseCb
<1>11. ASSUME NEW i \in FenceIds
       PROVE  /\ wanted'[i] \in {wanted[i], Unwanted}
              /\ wanted'[i] # wanted[i] => d.op = "add" /\ wanted[i].fence \in refused
  <2>1. CASE d.op = "add" /\ i \in {backward[f] : f \in refused}
    <3>1. PICK f \in refused : backward[f] = i
      BY <2>1
    <3>2. f \in d.fences /\ i # 0
      BY <3>1, FenceAssumption
    <3>3. Held(f)
      BY <1>1, <1>6, <1>7, <2>1, <3>1, <3>2
    <3>4. PICK j \in FenceIds : wanted[j].fence = f
      BY <3>3 DEF Held
    <3>5. f # 0
      BY <1>0, <1>7, <3>2
    <3>6. backward[f] = j
      BY <1>0, <3>4, <3>5 DEF DictionaryOK
    <3> QED BY <1>8, <2>1, <3>1, <3>4, <3>6
  <2>2. CASE ~(d.op = "add" /\ i \in {backward[f] : f \in refused})
    BY <1>8, <2>2
  <2> QED BY <2>1, <2>2
<1>12. ASSUME NEW f, Held(f), f \notin refused PROVE Held(f)'
  <2>1. PICK i \in FenceIds : wanted[i].fence = f
    BY <1>12 DEF Held
  <2>2. wanted'[i].fence = f
    BY <1>11, <1>12, <2>1
  <2> QED BY <2>2 DEF Held
<1>13. ASSUME NEW k \in 1..n, NEW f, ToRemoveAfter(k, f) PROVE ToRemoveAfter(k - 1, f)'
  <2>1. PICK j \in 1..n :
          j > k /\ engineCommands[j].op = "remove" /\ f \in engineCommands[j].fences
    BY <1>1, <1>13 DEF ToRemoveAfter
  <2>2. j - 1 \in 1 .. n - 1 /\ j - 1 > k - 1 /\ (j - 1) + 1 = j
    BY <1>4, <2>1
  <2>3. c[j - 1] = engineCommands[j]
    BY <1>4, <2>2
  <2> QED BY <1>1, <1>4, <2>1, <2>2, <2>3 DEF ToRemoveAfter
<1>14. ASSUME NEW f, f \in refused
       PROVE  d.op = "add" /\ f \in d.fences /\ f \notin engineFences
  BY <1>1, <1>6, <1>7, <1>8, <1>14
<1>15. DictionaryOK'
  <2>1. /\ forward' \in [FenceIds -> 0..lastFence'] /\ backward' \in [Fences -> FenceIds \union {0}]
        /\ ext' \in [Fences -> BreachMasks]
    BY <1>0, <1>10 DEF DictionaryOK
  <2>2. \A i \in FenceIds :
          /\ wanted[i] \in [fence : 0..lastFence, mask : BreachMasks]
          /\ wanted[i].fence = 0 => wanted[i] = Unwanted
          /\ wanted[i].fence # 0 =>
               forward[i] = wanted[i].fence /\ ext[forward[i]] = wanted[i].mask
    BY <1>0 DEF DictionaryOK
  <2>3. Unwanted \in [fence : 0..lastFence, mask : BreachMasks] /\ Unwanted.fence = 0
    BY <1>0 DEF Unwanted, BreachMasks
  <2>4. wanted' \in [FenceIds -> [fence : 0..lastFence', mask : BreachMasks]]
    <3>1. \A i \in FenceIds : wanted'[i] \in [fence : 0..lastFence, mask : BreachMasks]
      BY <1>11, <2>2, <2>3
    <3>2. wanted' = [i \in FenceIds |-> wanted'[i]]
      BY <1>8
    <3> QED BY <1>10, <3>1, <3>2
  <2>5. \A i \in FenceIds :
          /\ wanted'[i].fence = 0 => wanted'[i] = Unwanted
          /\ wanted'[i].fence # 0 =>
               forward[i] = wanted'[i].fence /\ ext[forward[i]] = wanted'[i].mask
    BY <1>11, <2>2, <2>3
  <2>6. \A i \in FenceIds : forward[i] # 0 => backward[forward[i]] = i
    BY <1>0 DEF DictionaryOK
  <2> QED BY <1>10, <2>1, <2>4, <2>5, <2>6 DEF DictionaryOK
<1>16. ASSUME NEW k \in 1 .. n - 1
       PROVE  /\ r[k] = c[k].op
              /\ c[k].fences \subseteq 1..lastFence'
              /\ c[k].op = "add" =>
                   \A f \in c[k].fences :
                     /\ Held(f)' \/ (backward'[f] = 0 /\ ToRemoveAfter(k, f)')
                     /\ f \notin engineFences'
                     /\ \A j \in 1 .. n - 1 : c[j].op = "add" /\ f \in c[j].fences => j = k
  <2>1. k + 1 \in 1..n /\ (k + 1) - 1 = k /\ k + 1 # 1 /\ c[k] = engineCommands[k + 1]
        /\ r[k] = fenceRequests[k + 1]
    BY <1>4, <1>5
  <2>2. r[k] = c[k].op /\ c[k].fences \subseteq 1..lastFence'
    BY <1>6, <1>10, <2>1
  <2>3. ASSUME c[k].op = "add", NEW f \in c[k].fences
        PROVE  /\ Held(f)' \/ (backward'[f] = 0 /\ ToRemoveAfter(k, f)')
               /\ f \notin engineFences'
               /\ \A j \in 1 .. n - 1 : c[j].op = "add" /\ f \in c[j].fences => j = k
    <3>1. /\ Held(f) \/ (backward[f] = 0 /\ ToRemoveAfter(k + 1, f))
          /\ f \notin engineFences
          /\ \A j \in 1..n :
               engineCommands[j].op = "add" /\ f \in engineCommands[j].fences => j = k + 1
      BY <1>6, <2>1, <2>3
    <3>2. ~(d.op = "add" /\ f \in d.fences)
      BY <1>1, <1>7, <2>1, <3>1
    <3>3. f \notin refused /\ f \notin engineFences'
      BY <1>9, <1>14, <3>1, <3>2
    <3>4. Held(f)' \/ (backward'[f] = 0 /\ ToRemoveAfter(k, f)')
      <4>1. CASE Held(f)
        BY <1>12, <3>3, <4>1
      <4>2. CASE backward[f] = 0 /\ ToRemoveAfter(k + 1, f)
        <5>1. ToRemoveAfter((k + 1) - 1, f)'
          BY <1>13, <2>1, <4>2
        <5> QED BY <1>10, <2>1, <4>2, <5>1
      <4> QED BY <3>1, <4>1, <4>2
    <3>5. ASSUME NEW j \in 1 .. n - 1, c[j].op = "add", f \in c[j].fences PROVE j = k
      <4>1. j + 1 \in 1..n /\ c[j] = engineCommands[j + 1]
        BY <1>4
      <4>2. j + 1 = k + 1
        BY <3>1, <3>5, <4>1
      <4> QED BY <4>2
    <3> QED BY <3>3, <3>4, <3>5
  <2> QED BY <2>2, <2>3
<1>17. EngineCommandsOK'
  BY <1>1, <1>4, <1>5, <1>16 DEF EngineCommandsOK
<1>18. Watched'
  <2>1. engineFences' \subseteq 1..lastFence'
    BY <1>0, <1>7, <1>9, <1>10 DEF Watched
  <2>2. ASSUME NEW f \in engineFences' PROVE Held(f)' \/ ToRemoveAfter(0, f)'
    <3>1. CASE f \in engineFences
      <4>1. CASE Held(f)
        BY <1>12, <1>14, <3>1, <4>1
      <4>2. CASE ToRemoveAfter(0, f)
        <5>1. PICK j \in 1..n :
                j > 0 /\ engineCommands[j].op = "remove" /\ f \in engineCommands[j].fences
          BY <1>1, <4>2 DEF ToRemoveAfter
        <5>2. j # 1
          BY <1>1, <1>9, <2>2, <5>1
        <5>3. ToRemoveAfter(1, f)
          BY <1>1, <5>1, <5>2 DEF ToRemoveAfter
        <5>4. ToRemoveAfter(1 - 1, f)'
          BY <1>7, <1>13, <5>3
        <5> QED BY <5>4
      <4> QED BY <1>0, <3>1, <4>1, <4>2 DEF Watched
    <3>2. CASE f \notin engineFences
      <4>1. d.op = "add" /\ f \in d.fences /\ f \notin refused
        BY <1>9, <2>2, <3>2
      <4>2. Held(f) \/ ToRemoveAfter(1, f)
        BY <1>1, <1>6, <1>7, <4>1
      <4>3. CASE Held(f)
        BY <1>12, <4>1, <4>3
      <4>4. CASE ToRemoveAfter(1, f)
        <5>1. ToRemoveAfter(1 - 1, f)'
          BY <1>7, <1>13, <4>4
        <5> QED BY <5>1
      <4> QED BY <4>2, <4>3, <4>4
    <3> QED BY <3>1, <3>2
  <2> QED BY <2>1, <2>2 DEF Watched
<1>19. FenceBudget'
  BY <1>0, <1>10 DEF FenceBudget
<1> QED BY <1>15, <1>17, <1>18, <1>19 DEF FenceInv

LEMMA GeofencesStep == FenceInv /\ GeofencesNext => FenceInv'
BY AddFences, RemoveFences, RewatchFences, PauseFences, FenceResponse
   DEF GeofencesNext, locAPIModifyGeofences, locAPIResumeGeofences

LEMMA GeofencesInductive == Spec => []FenceInv
<1>1. Init => FenceInv
  <2> SUFFICES ASSUME Init PROVE FenceInv
    OBVIOUS
  <2>1. GeofencesInit /\ fenceCalls = 0
    BY DEF Init
  <2>2. PICK n \in Nat : n = Cardinality(FenceIds)
    BY FenceAssumption, FS_CardinalityType
  <2>3. n * 0 = 0
    BY <2>2
  <2>4. FenceBudget
    BY <2>1, <2>2, <2>3, FenceAssumption DEF GeofencesInit, FenceBudget
  <2>5. DictionaryOK
    <3>1. Unwanted \in [fence : 0..0, mask : BreachMasks] /\ Unwanted.fence = 0 /\ {} \in BreachMasks
      BY DEF Unwanted, BreachMasks
    <3> QED BY <2>1, <3>1 DEF GeofencesInit, DictionaryOK
  <2>6. IsQueue(<<>>) /\ Len(<<>>) = 0 /\ 1..0 = {}
    BY ShortQueues
  <2>7. EngineCommandsOK /\ Watched
    BY <2>1, <2>6 DEF GeofencesInit, EngineCommandsOK, Watched
  <2> QED BY <2>4, <2>5, <2>7 DEF FenceInv
<1>2. FenceInv /\ [Next]_vars => FenceInv'
  <2> SUFFICES ASSUME FenceInv, [Next]_vars PROVE FenceInv'
    OBVIOUS
  <2>1. CASE GeofencesNext
    BY <2>1, GeofencesStep
  <2>2. CASE UNCHANGED <<fenceCalls, geofenceVars>>
    <3>1. FenceBudget' = FenceBudget /\ DictionaryOK' = DictionaryOK
      BY <2>2 DEF geofenceVars, FenceBudget, DictionaryOK
    <3>2. EngineCommandsOK' = EngineCommandsOK /\ Watched' = Watched
      BY <2>2 DEF geofenceVars, EngineCommandsOK, Watched, Held, ToRemoveAfter
    <3> QED BY <3>1, <3>2 DEF FenceInv
  <2> QED BY <2>1, <2>2 DEF Next, vars, servicesVars
<1> QED BY <1>1, <1>2, PTL DEF Spec

(* The engine's fences are those the framework has under the ids and       *)
(* transitions it asked for, or they are about to be removed               *)
(* (locAPIAddGeofences, locAPIRemoveGeofences, onCollectiveResponseCb).    *)
THEOREM BreachesFound == Spec => []BreachesReachTheirFence
<1>1. FenceInv => BreachesReachTheirFence
  <2> SUFFICES ASSUME FenceInv, NEW f \in engineFences, ~Commanded("remove", f)
               PROVE  \E i \in FenceIds :
                        /\ wanted[i].fence = f
                        /\ forward[i] = f
                        /\ \A t \in {"enter", "exit"} :
                             BreachReportedAs(f, t) = IF t \in wanted[i].mask THEN i ELSE 0
    BY DEF BreachesReachTheirFence
  <2>1. DictionaryOK /\ EngineCommandsOK /\ Watched /\ lastFence \in Nat
    BY DEF FenceInv, FenceBudget
  <2>2. f # 0 /\ (Held(f) \/ ToRemoveAfter(0, f))
    BY <2>1 DEF Watched
  <2>3. ~ToRemoveAfter(0, f)
    BY <2>1, QueueDomain DEF EngineCommandsOK, ToRemoveAfter, Commanded
  <2>4. PICK i \in FenceIds : wanted[i].fence = f
    BY <2>2, <2>3 DEF Held
  <2>5. forward[i] = f /\ ext[f] = wanted[i].mask /\ backward[f] = i
    BY <2>1, <2>2, <2>4 DEF DictionaryOK
  <2> QED BY <2>4, <2>5 DEF BreachReportedAs
<1> QED BY <1>1, GeofencesInductive, PTL

-----------------------------------------------------------------------------
(* The engine's reports: what a fix used, and satellites are told to       *)

(* The reports of satellites in the queue are the engine's.                *)
ReportsQueueOK ==
  /\ IsQueue(msgQ)
  /\ \A i \in 1..Len(msgQ) : msgQ[i].msg = "ReportSv" => msgQ[i].svs \in SvReports

(* The satellites of the fix that the next report is told are those of the *)
(* last fix that was told, if no report came since.                        *)
UsedToTell ==
  /\ mGnssSvIdUsedInPosAvail \in BOOLEAN
  /\ fixUsed = [c \in Constellations |->
                 IF mGnssSvIdUsedInPosAvail THEN mGnssSvIdUsedInPosition[c] ELSE {}]

UsedInv == UsedToTell /\ UsedInFixMatches

LEMMA ReportsQueueStep == ReportsQueueOK /\ ReportsNext => ReportsQueueOK'
<1> SUFFICES ASSUME ReportsQueueOK, ReportsNext PROVE ReportsQueueOK'
  OBVIOUS
<1>1. ASSUME NEW m, Input(m), m.msg = "ReportSv" => m.svs \in SvReports
      PROVE  ReportsQueueOK'
  <2>1. PICK q : q = Append(msgQ, m)
    OBVIOUS
  <2>2. /\ Len(msgQ) \in Nat /\ IsQueue(q) /\ Len(q) = Len(msgQ) + 1 /\ q[Len(msgQ) + 1] = m
        /\ \A i \in 1..Len(msgQ) : q[i] = msgQ[i]
    BY <2>1, QueueAppend DEF ReportsQueueOK
  <2>3. \A i \in 1..Len(q) : q[i].msg = "ReportSv" => q[i].svs \in SvReports
    BY <1>1, <2>2 DEF ReportsQueueOK
  <2>4. msgQ' = q
    BY <1>1, <2>1 DEF Input
  <2> QED BY <2>2, <2>3, <2>4 DEF ReportsQueueOK
<1>2. ASSUME NEW kind, Receive(kind) PROVE ReportsQueueOK'
  <2>1. PICK q : q = Tail(msgQ)
    OBVIOUS
  <2>2. msgQ # <<>> /\ msgQ' = q
    BY <1>2, <2>1 DEF Receive, Takes
  <2>3. /\ Len(msgQ) \in Nat \ {0} /\ IsQueue(q) /\ Len(q) = Len(msgQ) - 1
        /\ \A i \in 1..Len(q) : q[i] = msgQ[i + 1]
    BY <2>1, <2>2, QueueTail DEF ReportsQueueOK
  <2>4. \A i \in 1..Len(q) : q[i].msg = "ReportSv" => q[i].svs \in SvReports
    BY <2>3 DEF ReportsQueueOK
  <2> QED BY <2>2, <2>3, <2>4 DEF ReportsQueueOK
<1>3. ASSUME NEW f, reportPositionEvent(f) PROVE ReportsQueueOK'
  BY <1>1, <1>3 DEF reportPositionEvent
<1>4. ASSUME NEW svs \in SvReports, reportSvEvent(svs) PROVE ReportsQueueOK'
  BY <1>1, <1>4 DEF reportSvEvent
<1>5. ASSUME NEW s, reportNmeaEvent(s) PROVE ReportsQueueOK'
  BY <1>1, <1>5 DEF reportNmeaEvent
<1>6. ASSUME NEW m, reportGnssMeasurementDataEvent(m) PROVE ReportsQueueOK'
  BY <1>1, <1>6 DEF reportGnssMeasurementDataEvent
<1>7. ASSUME NEW all, gnssDeleteAidingDataCommand(all) PROVE ReportsQueueOK'
  BY <1>1, <1>7 DEF gnssDeleteAidingDataCommand
<1>8. (MsgReportPosition \/ MsgReportSv \/ MsgReportNmea \/ MsgDeleteAidingData
        \/ MsgReportGnssMeasurementData) => ReportsQueueOK'
  BY <1>2 DEF MsgReportPosition, MsgReportSv, MsgReportNmea, MsgDeleteAidingData,
              MsgReportGnssMeasurementData
<1> QED BY <1>3, <1>4, <1>5, <1>6, <1>7, <1>8 DEF ReportsNext

(* Whom a message tells nothing about satellites, it tells nothing wrong.  *)
LEMMA NoSatellitesTold ==
  ASSUME \A d \in delivered' : d.cb # "sv"
  PROVE  UsedInFixMatches'
BY DEF UsedInFixMatches

LEMMA PositionUsed ==
  ASSUME UsedInv, MsgReportPosition
  PROVE  UsedInv'
<1>1. PICK f : \E tracking \in BOOLEAN : reportPosition(f, tracking)
  BY DEF MsgReportPosition
<1>2. \A d \in delivered' : d.cb # "sv"
  BY <1>1 DEF reportPosition, Generated
<1>3. PICK used : used = [c \in Constellations |-> {id \in 1..64 : <<c, id>> \in f.used}]
  OBVIOUS
<1>4. \/ mGnssSvIdUsedInPosAvail' = TRUE /\ mGnssSvIdUsedInPosition' = used /\ fixUsed' = used
      \/ UNCHANGED <<mGnssSvIdUsedInPosAvail, mGnssSvIdUsedInPosition, fixUsed>>
  <2>1. PICK hasUsed \in BOOLEAN :
          /\ mGnssSvIdUsedInPosAvail' = (hasUsed \/ mGnssSvIdUsedInPosAvail)
          /\ mGnssSvIdUsedInPosition' = IF hasUsed THEN used ELSE mGnssSvIdUsedInPosition
          /\ fixUsed' = IF hasUsed THEN used ELSE fixUsed
    BY <1>1, <1>3 DEF reportPosition
  <2>2. CASE hasUsed
    BY <2>1, <2>2
  <2>3. CASE ~hasUsed
    BY <2>1, <2>3 DEF UsedInv, UsedToTell
  <2> QED BY <2>2, <2>3
<1>5. UsedToTell'
  <2>1. used = [c \in Constellations |-> used[c]]
    BY <1>3
  <2>2. CASE UNCHANGED <<mGnssSvIdUsedInPosAvail, mGnssSvIdUsedInPosition, fixUsed>>
    BY <2>2 DEF UsedInv, UsedToTell
  <2>3. CASE mGnssSvIdUsedInPosAvail' = TRUE /\ mGnssSvIdUsedInPosition' = used /\ fixUsed' = used
    <3>1. fixUsed' = [c \in Constellations |->
                        IF mGnssSvIdUsedInPosAvail' THEN mGnssSvIdUsedInPosition'[c] ELSE {}]
      BY ONLY <2>1, <2>3
    <3> QED BY <2>3, <3>1 DEF UsedToTell
  <2> QED BY <1>4, <2>2, <2>3
<1> QED BY <1>2, <1>5, NoSatellitesTold DEF UsedInv

(* A bit for each id up to 31: the mask has it just if the fix used it.    *)
LEMMA SatellitesUsed ==
  ASSUME UsedInv, ReportsQueueOK, MsgReportSv
  PROVE  UsedInv'
<1>1. PICK svs : svs = Head(msgQ).svs
  OBVIOUS
<1>2. \A sv \in svs : sv.id \in Nat
  <2>1. msgQ # <<>> /\ Head(msgQ).msg = "ReportSv"
    BY DEF MsgReportSv, Receive, Takes
  <2>2. Len(msgQ) \in Nat \ {0} /\ Head(msgQ) = msgQ[1]
    BY <2>1, QueueTail DEF ReportsQueueOK
  <2>3. svs \in SvReports
    BY <1>1, <2>1, <2>2 DEF ReportsQueueOK
  <2> QED BY <2>3, ReportsAssumption
<1> DEFINE mask(type) == IF mGnssSvIdUsedInPosAvail /\ type \in Constellations
                           THEN mGnssSvIdUsedInPosition[type] ELSE {}
           Used(sv, wraps) == sv.used \/ UsedBit(sv.id, wraps) \intersect mask(sv.type) # {}
           ToldOf(sv, wraps) ==
             [type |-> sv.type, svId |-> sv.id + QzssOffset(sv.type), used |-> Used(sv, wraps)]
<1>3. PICK wraps \in BOOLEAN, tracking \in BOOLEAN :
        delivered' = {[cb |-> "sv", svs |-> convertGnssSvStatus({ToldOf(sv, wraps) : sv \in svs})]}
                       \union Generated("sv", tracking)
  BY <1>1 DEF MsgReportSv
<1>4. /\ mGnssSvIdUsedInPosAvail' = FALSE /\ fixUsed' = NoSvs
      /\ flagsFor'.fix = fixUsed
      /\ flagsFor'.engine = {<<sv.type, sv.id>> : sv \in {v \in svs : v.used}}
  BY <1>1 DEF MsgReportSv, ForgetUsed
<1>5. UsedToTell'
  BY <1>4 DEF UsedToTell, NoSvs
<1>6. ASSUME NEW v \in convertGnssSvStatus({ToldOf(sv, wraps) : sv \in svs}),
             v.svid - QzssOffset(v.constellation) <= 31, v.constellation \in Constellations
      PROVE  LET id == v.svid - QzssOffset(v.constellation)
             IN  /\ id \in flagsFor'.fix[v.constellation] => "USED_IN_FIX" \in v.svFlag
                 /\ "USED_IN_FIX" \in v.svFlag =>
                      \/ id \in flagsFor'.fix[v.constellation]
                      \/ <<v.constellation, id>> \in flagsFor'.engine
  <2>1. PICK sv \in svs :
          v = [svid |-> ToldOf(sv, wraps).svId, constellation |-> ToldOf(sv, wraps).type,
               svFlag |-> IF ToldOf(sv, wraps).used THEN {"USED_IN_FIX"} ELSE {}]
    BY <1>6 DEF convertGnssSvStatus
  <2>2. v.constellation = sv.type /\ v.svid = sv.id + QzssOffset(sv.type)
    BY <2>1
  <2>3. "USED_IN_FIX" \in v.svFlag <=> Used(sv, wraps)
    BY <2>1
  <2>4. v.svid - QzssOffset(v.constellation) = sv.id
    <3>1. QzssOffset(sv.type) \in Nat /\ sv.id \in Nat
      BY <1>2 DEF QzssOffset
    <3> QED BY <2>2, <3>1
  <2>5. UsedBit(sv.id, wraps) = {sv.id}
    BY <1>2, <1>6, <2>4 DEF UsedBit
  <2>6. fixUsed[sv.type] = mask(sv.type)
    BY <1>6, <2>2 DEF UsedInv, UsedToTell
  <2>7. Used(sv, wraps) <=> sv.used \/ sv.id \in fixUsed[sv.type]
    BY <2>5, <2>6
  <2>8. sv.used => <<sv.type, sv.id>> \in flagsFor'.engine
    BY <1>4
  <2> QED BY <1>4, <2>2, <2>3, <2>4, <2>7, <2>8
<1>7. UsedInFixMatches'
  <2> SUFFICES ASSUME NEW d \in delivered', d.cb = "sv", NEW v \in d.svs,
                      v.svid - QzssOffset(v.constellation) <= 31,
                      v.constellation \in Constellations
               PROVE  LET id == v.svid - QzssOffset(v.constellation)
                      IN  /\ id \in flagsFor'.fix[v.constellation] => "USED_IN_FIX" \in v.svFlag
                          /\ "USED_IN_FIX" \in v.svFlag =>
                               \/ id \in flagsFor'.fix[v.constellation]
                               \/ <<v.constellation, id>> \in flagsFor'.engine
    BY DEF UsedInFixMatches
  <2>1. d.svs = convertGnssSvStatus({ToldOf(sv, wraps) : sv \in svs})
    BY <1>3 DEF Generated
  <2> HIDE DEF ToldOf
  <2> QED BY <1>6, <2>1
<1> QED BY <1>5, <1>7 DEF UsedInv

LEMMA UsedStep == UsedInv /\ ReportsQueueOK /\ ReportsNext => UsedInv'
<1> SUFFICES ASSUME UsedInv, ReportsQueueOK, ReportsNext PROVE UsedInv'
  OBVIOUS
<1>1. ASSUME UNCHANGED reportsVars PROVE UsedInv'
  BY <1>1 DEF UsedInv, UsedToTell, UsedInFixMatches, reportsVars
<1>2. ASSUME UNCHANGED usedVars, \A d \in delivered' : d.cb # "sv" PROVE UsedInv'
  BY <1>2, NoSatellitesTold DEF UsedInv, UsedToTell, usedVars
<1>3. CASE MsgReportNmea
  BY <1>2, <1>3 DEF MsgReportNmea
<1>4. CASE MsgDeleteAidingData
  BY <1>2, <1>4 DEF MsgDeleteAidingData
<1>5. CASE MsgReportGnssMeasurementData
  BY <1>2, <1>5 DEF MsgReportGnssMeasurementData
<1> QED
  BY <1>1, <1>3, <1>4, <1>5, PositionUsed, SatellitesUsed
  DEF ReportsNext, reportPositionEvent, reportSvEvent, reportNmeaEvent,
      reportGnssMeasurementDataEvent, gnssDeleteAidingDataCommand

-----------------------------------------------------------------------------
(* The cache of SystemStatus and what was reported last                    *)

IsReport(r) == r = [data |-> r.data, mValid |-> r.mValid, mUtcReported |-> r.mUtcReported]

(* The newest report that the cache has of an item is the last that the    *)
(* engine made, or says nothing; one that is not valid says nothing.       *)
ItemOK(i, q, last) ==
  /\ IsQueue(q)
  /\ q = <<>> => last = {}
  /\ q # <<>> =>
       /\ IsReport(q[Len(q)])
       /\ last = {} => ~q[Len(q)].mValid
       /\ ~q[Len(q)].mValid => \E g \in Positions : q[Len(q)].data = Defaults(g)[i]
       /\ \A r \in last : /\ last = {r} /\ q[Len(q)].mUtcReported = r.mUtcReported
                          /\ Equals(i, q[Len(q)], r)
CacheInv == \A i \in GnssItems : ItemOK(i, mCache[i], reported[i])

(* The oldest report makes room, and the new one is the newest.            *)
LEMMA NewestIsLast ==
  ASSUME NEW q, IsQueue(q), NEW s, NEW left, left = setDefaultIteminReport(q, s)
  PROVE  IsQueue(left) /\ left # <<>> /\ left[Len(left)] = s
<1>1. Len(q) \in Nat /\ maxItem \in Nat \ {0}
  BY StatusAssumption DEF IsQueue
<1>2. CASE Len(q) = maxItem
  <2>1. q # <<>>
    BY <1>1, <1>2
  <2>2. PICK t : t = Tail(q)
    OBVIOUS
  <2>3. IsQueue(t)
    BY <2>1, <2>2, QueueTail
  <2>4. left = Append(t, s)
    BY <1>2, <2>2 DEF setDefaultIteminReport
  <2>5. Len(t) \in Nat /\ IsQueue(left) /\ Len(left) = Len(t) + 1 /\ left[Len(t) + 1] = s
    BY <2>3, <2>4, QueueAppend
  <2> QED BY <2>5
<1>3. CASE Len(q) # maxItem
  <2>1. left = Append(q, s)
    BY <1>3 DEF setDefaultIteminReport
  <2>2. Len(q) \in Nat /\ IsQueue(left) /\ Len(left) = Len(q) + 1 /\ left[Len(q) + 1] = s
    BY <2>1, QueueAppend
  <2> QED BY <2>2
<1> QED BY <1>2, <1>3

(* A report is the newest afterwards, or the newest has its time.          *)
LEMMA Reported ==
  ASSUME NEW i, NEW q, NEW last, ItemOK(i, q, last), NEW data, NEW at,
         NEW s, s = [data |-> data, mValid |-> TRUE, mUtcReported |-> at],
         NEW left, left = setIteminReport(i, q, s)
  PROVE  ItemOK(i, left, {s})
<1>1. CASE q # <<>> /\ Equals(i, q[Len(q)], s)
  <2>1. PICK n : n = Len(q)
    OBVIOUS
  <2>2. IsQueue(q) /\ n \in Nat \ {0} /\ q \in [1..n -> {q[k] : k \in 1..n}]
    BY <1>1, <2>1 DEF ItemOK, IsQueue
  <2>3. PICK old : old = q[n]
    OBVIOUS
  <2>4. IsReport(old) /\ (~old.mValid => \E g \in Positions : old.data = Defaults(g)[i])
    BY <1>1, <2>1, <2>3 DEF ItemOK
  <2>5. PICK new : new = [old EXCEPT !.mUtcReported = at]
    OBVIOUS
  <2>6. new = [data |-> old.data, mValid |-> old.mValid, mUtcReported |-> at]
    BY <2>4, <2>5 DEF IsReport
  <2>7. left = [q EXCEPT ![n] = new]
    BY <1>1, <2>1, <2>3, <2>5 DEF setIteminReport
  <2>8. left \in [1..n -> {q[k] : k \in 1..n} \cup {new}] /\ left[n] = new
    <3>1. DOMAIN q = 1..n /\ n \in 1..n
      BY <2>2
    <3>2. left = [k \in 1..n |-> IF k = n THEN new ELSE q[k]]
      BY <2>7, <3>1
    <3> QED BY <3>1, <3>2
  <2>9. Len(left) = n /\ IsQueue(left) /\ left # <<>>
    <3>0. PICK S : S = {q[k] : k \in 1..n} \cup {new}
      OBVIOUS
    <3>1. left \in Seq(S) /\ Len(left) = n
      <4>1. left \in [1..n -> S]
        BY <2>8, <3>0
      <4>2. n \in Nat /\ DOMAIN left = 1..n
        BY <2>2, <4>1
      <4>3. left \in Seq(S)
        BY ONLY <4>1, <4>2
      <4>4. Len(left) = n
        BY ONLY <4>2, <4>3
      <4> QED BY <4>3, <4>4
    <3>2. IsQueue(left)
      BY <3>1, QueueOf
    <3> QED BY <2>2, <3>1, <3>2
  <2>10. Equals(i, new, s)
    BY <1>1, <2>1, <2>3, <2>6 DEF Equals
  <2>11. IsReport(new)
    BY <2>6 DEF IsReport
  <2>12. ~new.mValid => \E g \in Positions : new.data = Defaults(g)[i]
    BY <2>4, <2>6
  <2>13. new.mUtcReported = s.mUtcReported
    BY <2>6
  <2> QED BY <2>8, <2>9, <2>10, <2>11, <2>12, <2>13 DEF ItemOK
<1>2. CASE ~(q # <<>> /\ Equals(i, q[Len(q)], s))
  <2>1. left = setDefaultIteminReport(q, s)
    BY <1>2 DEF setIteminReport
  <2>2. IsQueue(left) /\ left # <<>> /\ left[Len(left)] = s
    BY <2>1, NewestIsLast DEF ItemOK
  <2>3. IsReport(s) /\ s.mValid /\ Equals(i, s, s)
    BY DEF IsReport, Equals
  <2> QED BY <2>2, <2>3 DEF ItemOK
<1> QED BY <1>1, <1>2

LEMMA RecordStep ==
  ASSUME CacheInv, NEW news, Record(news)
  PROVE  CacheInv'
<1> SUFFICES ASSUME NEW i \in GnssItems
             PROVE  ItemOK(i, mCache'[i], reported'[i])
  BY DEF CacheInv, ItemOK
<1>1. ItemOK(i, mCache[i], reported[i])
  BY DEF CacheInv
<1>2. CASE i \in DOMAIN news
  <2>1. PICK s : s = [data |-> news[i], mValid |-> TRUE, mUtcReported |-> now + 1]
    OBVIOUS
  <2>2. mCache'[i] = setIteminReport(i, mCache[i], s) /\ reported'[i] = {s}
    BY <1>2, <2>1 DEF Record
  <2>3. PICK left : left = mCache'[i]
    OBVIOUS
  <2>4. ItemOK(i, left, {s})
    BY <1>1, <2>1, <2>2, <2>3, Reported
  <2> QED BY <2>2, <2>3, <2>4
<1>3. CASE i \notin DOMAIN news
  <2>1. mCache'[i] = mCache[i] /\ reported'[i] = reported[i]
    BY <1>3 DEF Record
  <2> QED BY <1>1, <2>1
<1> QED BY <1>2, <1>3

LEMMA ForgetStep ==
  ASSUME CacheInv, setDefaultGnssEngineStates
  PROVE  CacheInv'
<1>1. PICK g \in Positions :
        /\ mCache' = [i \in GnssItems |->
             setDefaultIteminReport(mCache[i], [data |-> Defaults(g)[i],
                                               mValid |-> FALSE, mUtcReported |-> now + 1])]
        /\ reported' = [i \in GnssItems |-> {}]
  BY DEF setDefaultGnssEngineStates
<1> SUFFICES ASSUME NEW i \in GnssItems
             PROVE  ItemOK(i, mCache'[i], reported'[i])
  BY DEF CacheInv, ItemOK
<1>2. PICK s : s = [data |-> Defaults(g)[i], mValid |-> FALSE, mUtcReported |-> now + 1]
  OBVIOUS
<1>3. PICK left : left = mCache'[i]
  OBVIOUS
<1>4. left = setDefaultIteminReport(mCache[i], s) /\ reported'[i] = {}
  BY <1>1, <1>2, <1>3
<1>5. IsQueue(left) /\ left # <<>> /\ left[Len(left)] = s
  BY <1>4, NewestIsLast DEF CacheInv, ItemOK
<1>6. IsReport(s) /\ ~s.mValid /\ s.data = Defaults(g)[i]
  BY <1>2 DEF IsReport
<1> QED BY <1>3, <1>4, <1>5, <1>6 DEF ItemOK

LEMMA CacheStep == CacheInv /\ ReportsNext => CacheInv'
<1> SUFFICES ASSUME CacheInv, ReportsNext PROVE CacheInv'
  OBVIOUS
<1>1. ASSUME UNCHANGED statusVars PROVE CacheInv'
  BY <1>1 DEF CacheInv, statusVars
<1>2. CASE MsgReportPosition
  BY <1>1, <1>2, RecordStep DEF MsgReportPosition, eventPosition
<1>3. CASE MsgReportNmea
  BY <1>1, <1>3, RecordStep DEF MsgReportNmea, setNmeaString
<1>4. CASE MsgDeleteAidingData
  BY <1>1, <1>4, ForgetStep DEF MsgDeleteAidingData
<1>5. CASE MsgReportSv \/ MsgReportGnssMeasurementData
  BY <1>1, <1>5 DEF MsgReportSv, MsgReportGnssMeasurementData
<1> QED
  BY <1>1, <1>2, <1>3, <1>4, <1>5
  DEF ReportsNext, reportPositionEvent, reportSvEvent, reportNmeaEvent,
      reportGnssMeasurementDataEvent, gnssDeleteAidingDataCommand, reportsVars

(* What a reader of an item gets                                           *)
Reads(i, top) ==
  \/ top = <<>> /\ mCache[i] = <<>> /\ reported[i] = {}
  \/ /\ top # <<>> /\ mCache[i] # <<>> /\ top[1] = mCache[i][Len(mCache[i])]
     /\ ~top[1].mValid => \E g \in Positions : top[1].data = Defaults(g)[i]
     /\ \/ reported[i] = {} /\ ~top[1].mValid
        \/ \E r : /\ reported[i] = {r} /\ top[1].mUtcReported = r.mUtcReported
                  /\ Equals(i, top[1], r)

LEMMA ReadsReport ==
  ASSUME CacheInv, NEW i \in GnssItems
  PROVE  Reads(i, getReport[i])
<1>1. ItemOK(i, mCache[i], reported[i])
  BY DEF CacheInv
<1>2. CASE mCache[i] = <<>>
  BY <1>1, <1>2 DEF Reads, ItemOK, getReport, getIteminReport
<1>3. CASE mCache[i] # <<>>
  <2>1. PICK newest : newest = mCache[i][Len(mCache[i])]
    OBVIOUS
  <2>2. getReport[i] = <<newest>>
    BY <1>3, <2>1 DEF getReport, getIteminReport
  <2>3. <<newest>> # <<>> /\ <<newest>>[1] = newest
    OBVIOUS
  <2>4. /\ ~newest.mValid => \E g \in Positions : newest.data = Defaults(g)[i]
        /\ \/ reported[i] = {} /\ ~newest.mValid
           \/ \E r : /\ reported[i] = {r} /\ newest.mUtcReported = r.mUtcReported
                     /\ Equals(i, newest, r)
    <3>1. CASE reported[i] = {}
      BY <1>1, <1>3, <2>1, <3>1 DEF ItemOK
    <3>2. CASE reported[i] # {}
      BY <1>1, <1>3, <2>1, <3>2 DEF ItemOK
    <3> QED BY <3>1, <3>2
  <2> QED BY <1>3, <2>1, <2>2, <2>3, <2>4 DEF Reads
<1> QED BY <1>2, <1>3

(* A reader takes a fix, or else the best position, if it is valid.        *)
LEMMA PositionRead == CacheInv => PositionCurrent(getDebugData.position)
<1> SUFFICES ASSUME CacheInv PROVE PositionCurrent(getDebugData.position)
  OBVIOUS
<1>1. PICK fix : fix = getReport["Location"]
  OBVIOUS
<1>2. PICK best : best = getReport["BestPosition"]
  OBVIOUS
<1>3. Reads("Location", fix) /\ Reads("BestPosition", best)
  BY <1>1, <1>2, ReadsReport DEF GnssItems
<1>4. PICK place : place = getDebugData.position
  OBVIOUS
<1>5. place = LET location ==
                CASE fix # <<>> /\ fix[1].mValid ->
                       [valid |-> TRUE, pos |-> fix[1].data.pos, accuracy |-> fix[1].data.accuracy,
                        mUtcReported |-> fix[1].mUtcReported]
                  [] ~(fix # <<>> /\ fix[1].mValid) /\ best # <<>> /\ best[1].mValid ->
                       [valid |-> TRUE, pos |-> best[1].data, accuracy |-> 0,
                        mUtcReported |-> best[1].mUtcReported]
                  [] OTHER -> [valid |-> FALSE]
             IN IF location.valid
                  THEN [valid |-> TRUE, pos |-> location.pos,
                        ageSeconds |-> (BootTime + now) - location.mUtcReported]
                  ELSE [valid |-> FALSE]
  BY <1>1, <1>2, <1>4 DEF getDebugData, getDebugReport
<1>6. CASE fix # <<>> /\ fix[1].mValid
  <2>1. place = [valid |-> TRUE, pos |-> fix[1].data.pos,
                ageSeconds |-> (BootTime + now) - fix[1].mUtcReported]
    BY <1>5, <1>6
  <2>2. PICK r : /\ reported["Location"] = {r} /\ fix[1].mUtcReported = r.mUtcReported
                 /\ Equals("Location", fix[1], r)
    BY <1>3, <1>6 DEF Reads
  <2>3. place.valid /\ place.pos = r.data.pos /\ place.ageSeconds = (BootTime + now) - r.mUtcReported
    <3>1. fix[1].data.pos = r.data.pos
      BY <2>2 DEF Equals
    <3>2. place = [valid |-> TRUE, pos |-> r.data.pos,
                   ageSeconds |-> (BootTime + now) - r.mUtcReported]
      BY <2>1, <2>2, <3>1
    <3>3. place.valid = TRUE
      BY ONLY <3>2
    <3>4. place.ageSeconds = (BootTime + now) - r.mUtcReported
      BY ONLY <3>2
    <3>5. place.pos = r.data.pos
      BY ONLY <3>2
    <3> QED BY <3>3, <3>4, <3>5
  <2> QED BY <1>4, <2>2, <2>3 DEF PositionCurrent
<1>7. CASE ~(fix # <<>> /\ fix[1].mValid) /\ best # <<>> /\ best[1].mValid
  <2>1. place = [valid |-> TRUE, pos |-> best[1].data,
                ageSeconds |-> (BootTime + now) - best[1].mUtcReported]
    BY <1>5, <1>7
  <2>2. PICK r : /\ reported["BestPosition"] = {r} /\ best[1].mUtcReported = r.mUtcReported
                 /\ Equals("BestPosition", best[1], r)
    BY <1>3, <1>7 DEF Reads
  <2>3. place.valid /\ place.pos = r.data /\ place.ageSeconds = (BootTime + now) - r.mUtcReported
    <3>1. best[1].data = r.data
      BY <2>2 DEF Equals
    <3>2. place = [valid |-> TRUE, pos |-> r.data,
                   ageSeconds |-> (BootTime + now) - r.mUtcReported]
      BY <2>1, <2>2, <3>1
    <3>3. place.valid = TRUE
      BY ONLY <3>2
    <3>4. place.ageSeconds = (BootTime + now) - r.mUtcReported
      BY ONLY <3>2
    <3>5. place.pos = r.data
      BY ONLY <3>2
    <3> QED BY <3>3, <3>4, <3>5
  <2>4. reported["Location"] # {} =>
          mCache["Location"] # <<>> /\ ~mCache["Location"][Len(mCache["Location"])].mValid
    BY <1>3, <1>7 DEF Reads
  <2> QED BY <1>4, <2>2, <2>3, <2>4 DEF PositionCurrent
<1>8. CASE ~(fix # <<>> /\ fix[1].mValid) /\ ~(best # <<>> /\ best[1].mValid)
  <2>1. place = [valid |-> FALSE]
    BY <1>5, <1>8
  <2>2. ~place.valid
    BY <2>1
  <2>3. reported["Location"] # {} =>
          mCache["Location"] # <<>> /\ ~mCache["Location"][Len(mCache["Location"])].mValid
    BY <1>3, <1>8 DEF Reads
  <2>4. ASSUME NEW r \in reported["BestPosition"] PROVE r.data = 0
    <3>1. best # <<>> /\ reported["BestPosition"] = {r} /\ Equals("BestPosition", best[1], r)
      BY <1>3, <2>4 DEF Reads
    <3>2. PICK g \in Positions : best[1].data = Defaults(g)["BestPosition"]
      BY <1>3, <1>8, <3>1 DEF Reads
    <3>3. Defaults(g)["BestPosition"] = 0
      BY DEF Defaults
    <3> QED BY <3>1, <3>2, <3>3 DEF Equals
  <2> QED BY <1>4, <2>2, <2>3, <2>4 DEF PositionCurrent
<1> QED BY <1>6, <1>7, <1>8

LEMMA TimeRead == CacheInv => TimeCurrent(getDebugData.time)
<1> SUFFICES ASSUME CacheInv PROVE TimeCurrent(getDebugData.time)
  OBVIOUS
<1>1. PICK clock : clock = getReport["TimeAndClock"]
  OBVIOUS
<1>2. Reads("TimeAndClock", clock)
  BY <1>1, ReadsReport DEF GnssItems
<1>3. PICK time : time = getDebugData.time
  OBVIOUS
<1>4. time = IF clock # <<>> /\ clock[1].data.timeValid # 0
               THEN [valid |-> TRUE, estimate |-> clock[1].data] ELSE [valid |-> FALSE]
  BY <1>1, <1>3 DEF getDebugData, getDebugReport
<1>5. \A g : Defaults(g)["TimeAndClock"].timeValid = 0
  BY DEF Defaults
<1>6. CASE reported["TimeAndClock"] = {}
  <2>1. clock # <<>> => clock[1].data.timeValid = 0
    BY <1>2, <1>5, <1>6 DEF Reads
  <2>2. ~time.valid
    BY <1>4, <2>1
  <2> QED BY <1>3, <1>6, <2>2 DEF TimeCurrent
<1>7. CASE reported["TimeAndClock"] # {}
  <2>1. PICK r : reported["TimeAndClock"] = {r} /\ clock # <<>> /\ clock[1].data = r.data
    BY <1>2, <1>7 DEF Reads, Equals
  <2>2. CASE r.data.timeValid # 0
    <3>1. time = [valid |-> TRUE, estimate |-> r.data]
      BY <1>4, <2>1, <2>2
    <3> QED BY <1>3, <2>1, <2>2, <3>1 DEF TimeCurrent
  <2>3. CASE r.data.timeValid = 0
    <3>1. time = [valid |-> FALSE]
      BY <1>4, <2>1, <2>3
    <3> QED BY <1>3, <2>1, <2>3, <3>1 DEF TimeCurrent
  <2> QED BY <2>2, <2>3
<1> QED BY <1>6, <1>7

(* The navigation data is the constellations', one behind the other.       *)
Segment(f, a, n) == [k \in 1..n |-> f[a + k]]

IsSegment(q, f, a, n) == IsQueue(q) /\ Len(q) = n /\ \A k \in 1..n : q[k] = f[a + k]

LEMMA SegmentIsQueue ==
  ASSUME NEW f, NEW a \in Nat, NEW n \in Nat, NEW q, q = Segment(f, a, n)
  PROVE  IsSegment(q, f, a, n)
<1>1. PICK S : S = {f[a + k] : k \in 1..n}
  OBVIOUS
<1>2. q \in [1..n -> S] /\ DOMAIN q = 1..n /\ \A k \in 1..n : q[k] = f[a + k]
  BY <1>1 DEF Segment
<1>3. q \in Seq(S)
  BY ONLY <1>2, n \in Nat
<1>4. Len(q) = n
  BY ONLY <1>2, <1>3, n \in Nat
<1> QED BY <1>2, <1>3, <1>4, QueueOf DEF IsSegment

LEMMA SegmentsJoin ==
  ASSUME NEW f, NEW a \in Nat, NEW n \in Nat
  PROVE  Segment(f, 0, a) \o Segment(f, a, n) = Segment(f, 0, a + n)
<1>1. PICK p : p = Segment(f, 0, a)
  OBVIOUS
<1>2. PICK q : q = Segment(f, a, n)
  OBVIOUS
<1>3. PICK r : r = Segment(f, 0, a + n)
  OBVIOUS
<1>4. PICK j : j = p \o q
  OBVIOUS
<1>5. IsQueue(p) /\ Len(p) = a /\ \A k \in 1..a : p[k] = f[k]
  <2>1. IsSegment(p, f, 0, a)
    BY ONLY <1>1, SegmentIsQueue, a \in Nat, 0 \in Nat
  <2> QED BY <2>1 DEF IsSegment
<1>6. IsQueue(q) /\ Len(q) = n /\ \A k \in 1..n : q[k] = f[a + k]
  <2>1. IsSegment(q, f, a, n)
    BY ONLY <1>2, SegmentIsQueue, a \in Nat, n \in Nat
  <2> QED BY <2>1 DEF IsSegment
<1>7. IsQueue(r) /\ Len(r) = a + n /\ \A k \in 1..(a + n) : r[k] = f[k]
  <2>1. a + n \in Nat
    OBVIOUS
  <2>2. IsSegment(r, f, 0, a + n)
    BY ONLY <1>3, <2>1, SegmentIsQueue, 0 \in Nat
  <2> QED BY <2>2 DEF IsSegment
<1>8. IsQueue(j) /\ Len(j) = a + n
  <2>1. IsQueue(p) /\ IsQueue(q) /\ Len(p) = a /\ Len(q) = n
    BY <1>5, <1>6
  <2>2. IsQueue(p \o q) /\ Len(p \o q) = Len(p) + Len(q)
    BY ONLY <2>1, QueueConcat
  <2> QED BY <1>4, <2>1, <2>2
<1>9. \A k \in 1..(a + n) : j[k] = r[k]
  <2> SUFFICES ASSUME NEW k \in 1..(a + n) PROVE j[k] = r[k]
    OBVIOUS
  <2>1. \/ k \in 1..Len(p) /\ j[k] = p[k]
        \/ k - Len(p) \in 1..Len(q) /\ j[k] = q[k - Len(p)]
    <3>1. IsQueue(p) /\ IsQueue(q) /\ k \in 1..Len(p \o q)
      BY <1>4, <1>5, <1>6, <1>8
    <3>2. \/ k \in 1..Len(p) /\ (p \o q)[k] = p[k]
          \/ k - Len(p) \in 1..Len(q) /\ (p \o q)[k] = q[k - Len(p)]
      BY ONLY <3>1, EachOfConcat
    <3> QED BY <1>4, <3>2
  <2>2. CASE k \in 1..Len(p) /\ j[k] = p[k]
    BY <1>5, <1>7, <2>2
  <2>3. CASE k - Len(p) \in 1..Len(q) /\ j[k] = q[k - Len(p)]
    <3>1. PICK i : i = k - a
      OBVIOUS
    <3>2. i \in 1..n /\ a + i = k /\ j[k] = q[i]
      BY <1>5, <1>6, <2>3, <3>1
    <3> QED BY <1>6, <1>7, <3>2
  <2> QED BY <2>1, <2>2, <2>3
<1>10. j = r
  BY <1>7, <1>8, <1>9, SameQueue
<1> QED BY <1>1, <1>2, <1>3, <1>4, <1>10

FiveJoin(f, a, b, c, d, e) ==
  Segment(f, 0, a) \o Segment(f, a, b) \o Segment(f, a + b, c)
    \o Segment(f, a + b + c, d) \o Segment(f, a + b + c + d, e)
    = Segment(f, 0, a + b + c + d + e)

LEMMA FiveSegments ==
  ASSUME NEW f, NEW a \in Nat, NEW b \in Nat, NEW c \in Nat, NEW d \in Nat, NEW e \in Nat
  PROVE  FiveJoin(f, a, b, c, d, e)
<1>1. a + b \in Nat /\ a + b + c \in Nat /\ a + b + c + d \in Nat
  OBVIOUS
<1>2. Segment(f, 0, a) \o Segment(f, a, b) = Segment(f, 0, a + b)
  BY SegmentsJoin
<1>3. Segment(f, 0, a + b) \o Segment(f, a + b, c) = Segment(f, 0, a + b + c)
  BY <1>1, SegmentsJoin
<1>4. Segment(f, 0, a + b + c) \o Segment(f, a + b + c, d) = Segment(f, 0, a + b + c + d)
  BY <1>1, SegmentsJoin
<1>5. Segment(f, 0, a + b + c + d) \o Segment(f, a + b + c + d, e)
        = Segment(f, 0, a + b + c + d + e)
  BY <1>1, SegmentsJoin
<1> QED BY <1>2, <1>3, <1>4, <1>5 DEF FiveJoin

LEMMA SatellitesRead == CacheInv => SatellitesCurrent(getDebugData.satellites)
<1> SUFFICES ASSUME CacheInv PROVE SatellitesCurrent(getDebugData.satellites)
  OBVIOUS
<1>1. PICK nav : nav = getReport["NavData"]
  OBVIOUS
<1>2. PICK xtra : xtra = getReport["Xtra"]
  OBVIOUS
<1>3. PICK health : health = getReport["SvHealth"]
  OBVIOUS
<1>4. Reads("NavData", nav) /\ Reads("Xtra", xtra) /\ Reads("SvHealth", health)
  BY <1>1, <1>2, <1>3, ReadsReport DEF GnssItems
<1> DEFINE sats == getDebugData.satellites
<1>6. PICK f : f = [n \in 1..SV_ALL_NUM |-> IF nav # <<>> THEN nav[1].data[n] ELSE 0]
  OBVIOUS
<1>7. /\ SvNum["gps"] \in Nat /\ SvNum["glo"] \in Nat /\ SvNum["bds"] \in Nat
      /\ SvNum["gal"] \in Nat /\ SvNum["qzss"] \in Nat
  BY StatusAssumption DEF Constellations
<1>8. ASSUME NEW c \in Constellations
      PROVE  svid_idx(c) \in Nat /\ SvNum[c] \in Nat /\ svid_idx(c) + SvNum[c] <= SV_ALL_NUM
  BY <1>7 DEF Constellations, svid_idx, SV_ALL_NUM
<1>9. ASSUME NEW c \in Constellations, NEW k \in 1..SvNum[c]
      PROVE  /\ sats[c][k].ephemeris = IF nav # <<>> THEN nav[1].data[svid_idx(c) + (k - 1) + 1]
                                       ELSE 0
             /\ sats[c][k].health =
                  CASE health # <<>> /\ k - 1 \in health[1].data.good[c] -> "good"
                    [] health # <<>> /\ k - 1 \notin health[1].data.good[c]
                         /\ k - 1 \in health[1].data.bad[c] -> "bad"
                    [] OTHER -> "unknown"
             /\ sats[c][k].predicted = (xtra # <<>> /\ k - 1 \in xtra[1].data.valid[c])
  <2>1. getDebugReport.satellites = [d \in Constellations |-> convertSatelliteInfo(d)]
    BY DEF getDebugReport
  <2>2. sats = getDebugReport.satellites
    BY DEF getDebugData
  <2>3. sats[c] = convertSatelliteInfo(c)
    BY <2>1, <2>2
  <2> HIDE DEF sats
  <2>4. sats[c] = [j \in 1..SvNum[c] |->
          [svid |-> (j - 1) + svid_min(c),
           ephemeris |-> IF nav # <<>> THEN nav[1].data[svid_idx(c) + (j - 1) + 1] ELSE 0,
           health |-> CASE health # <<>> /\ (j - 1) \in health[1].data.good[c] -> "good"
                        [] health # <<>> /\ (j - 1) \notin health[1].data.good[c]
                             /\ (j - 1) \in health[1].data.bad[c] -> "bad"
                        [] OTHER -> "unknown",
           predicted |-> xtra # <<>> /\ (j - 1) \in xtra[1].data.valid[c]]]
    BY <1>1, <1>2, <1>3, <2>3 DEF convertSatelliteInfo
  <2>5. PICK sat : sat = sats[c][k]
    OBVIOUS
  <2>6. sat =
          [svid |-> (k - 1) + svid_min(c),
           ephemeris |-> IF nav # <<>> THEN nav[1].data[svid_idx(c) + (k - 1) + 1] ELSE 0,
           health |-> CASE health # <<>> /\ (k - 1) \in health[1].data.good[c] -> "good"
                        [] health # <<>> /\ (k - 1) \notin health[1].data.good[c]
                             /\ (k - 1) \in health[1].data.bad[c] -> "bad"
                        [] OTHER -> "unknown",
           predicted |-> xtra # <<>> /\ (k - 1) \in xtra[1].data.valid[c]]
    BY <2>4, <2>5
  <2>7. sat.ephemeris = IF nav # <<>> THEN nav[1].data[svid_idx(c) + (k - 1) + 1] ELSE 0
    BY ONLY <2>6
  <2>8. sat.health =
          CASE health # <<>> /\ k - 1 \in health[1].data.good[c] -> "good"
            [] health # <<>> /\ k - 1 \notin health[1].data.good[c]
                 /\ k - 1 \in health[1].data.bad[c] -> "bad"
            [] OTHER -> "unknown"
    BY ONLY <2>6
  <2>9. sat.predicted = (xtra # <<>> /\ k - 1 \in xtra[1].data.valid[c])
    BY ONLY <2>6
  <2> QED BY <2>5, <2>7, <2>8, <2>9
<1> DEFINE ephemerisOf(c) == [k \in 1..SvNum[c] |-> sats[c][k].ephemeris]
<1>10. ASSUME NEW c \in Constellations
       PROVE  ephemerisOf(c) = Segment(f, svid_idx(c), SvNum[c])
  <2>1. ASSUME NEW k \in 1..SvNum[c] PROVE sats[c][k].ephemeris = f[svid_idx(c) + k]
    <3>1. PICK n : n = svid_idx(c) + k
      OBVIOUS
    <3>2. n \in 1..SV_ALL_NUM /\ svid_idx(c) + (k - 1) + 1 = n
      <4>1. SV_ALL_NUM \in Nat
        BY <1>7 DEF SV_ALL_NUM
      <4>2. svid_idx(c) \in Nat /\ SvNum[c] \in Nat /\ svid_idx(c) + SvNum[c] <= SV_ALL_NUM
        BY <1>8
      <4> QED BY ONLY <3>1, <4>1, <4>2, k \in 1..SvNum[c]
    <3>3. sats[c][k].ephemeris = IF nav # <<>> THEN nav[1].data[n] ELSE 0
      BY <1>9, <3>2
    <3> QED BY <1>6, <3>1, <3>2, <3>3
  <2> QED BY <2>1 DEF Segment
<1>11. ephemerisOf("gps") \o ephemerisOf("glo") \o ephemerisOf("bds") \o ephemerisOf("gal")
         \o ephemerisOf("qzss") = Segment(f, 0, SV_ALL_NUM)
  <2> HIDE DEF ephemerisOf
  <2>1. PICK a \in Nat : a = SvNum["gps"]
    BY <1>7
  <2>2. PICK b \in Nat : b = SvNum["glo"]
    BY <1>7
  <2>3. PICK c \in Nat : c = SvNum["bds"]
    BY <1>7
  <2>4. PICK d \in Nat : d = SvNum["gal"]
    BY <1>7
  <2>5. PICK e \in Nat : e = SvNum["qzss"]
    BY <1>7
  <2>6. /\ ephemerisOf("gps") = Segment(f, 0, a)
        /\ ephemerisOf("glo") = Segment(f, a, b)
        /\ ephemerisOf("bds") = Segment(f, a + b, c)
        /\ ephemerisOf("gal") = Segment(f, a + b + c, d)
        /\ ephemerisOf("qzss") = Segment(f, a + b + c + d, e)
    BY <1>10, <2>1, <2>2, <2>3, <2>4, <2>5 DEF Constellations, svid_idx
  <2>7. SV_ALL_NUM = a + b + c + d + e
    BY <2>1, <2>2, <2>3, <2>4, <2>5 DEF SV_ALL_NUM
  <2>8. FiveJoin(f, a, b, c, d, e)
    BY FiveSegments
  <2> QED BY <2>6, <2>7, <2>8 DEF FiveJoin
<1>12. ASSUME NEW i \in 1..SV_ALL_NUM
       PROVE  Segment(f, 0, SV_ALL_NUM)[i] =
                IF reported["NavData"] = {} THEN 0
                ELSE (CHOOSE r \in reported["NavData"] : TRUE).data[i]
  <2>1. Segment(f, 0, SV_ALL_NUM)[i] = f[i]
    BY <1>7 DEF Segment, SV_ALL_NUM
  <2>2. f[i] = IF nav # <<>> THEN nav[1].data[i] ELSE 0
    BY <1>6
  <2>3. CASE reported["NavData"] = {}
    <3>1. ASSUME nav # <<>> PROVE nav[1].data[i] = 0
      <4>1. PICK g : nav[1].data = Defaults(g)["NavData"]
        BY <1>4, <2>3, <3>1 DEF Reads
      <4>2. Defaults(g)["NavData"] = [n \in 1..SV_ALL_NUM |-> 0]
        BY DEF Defaults
      <4> QED BY <4>1, <4>2
    <3> QED BY <2>1, <2>2, <2>3, <3>1
  <2>4. CASE reported["NavData"] # {}
    <3>1. PICK r : reported["NavData"] = {r} /\ nav # <<>> /\ nav[1].data = r.data
      BY <1>4, <2>4 DEF Reads, Equals
    <3>2. (CHOOSE x \in reported["NavData"] : TRUE) = r
      BY <3>1
    <3> QED BY <2>1, <2>2, <2>4, <3>1, <3>2
  <2> QED BY <2>3, <2>4
<1>13. ASSUME NEW c \in Constellations, NEW k \in 1..SvNum[c]
       PROVE  sats[c][k].predicted <=> \E r \in reported["Xtra"] : k - 1 \in r.data.valid[c]
  <2>1. sats[c][k].predicted <=> xtra # <<>> /\ k - 1 \in xtra[1].data.valid[c]
    BY <1>9
  <2>2. CASE reported["Xtra"] = {}
    <3>1. ASSUME xtra # <<>> PROVE k - 1 \notin xtra[1].data.valid[c]
      <4>1. PICK g : xtra[1].data = Defaults(g)["Xtra"]
        BY <1>4, <2>2, <3>1 DEF Reads
      <4>2. Defaults(g)["Xtra"].valid[c] = {}
        BY DEF Defaults, NoneOf
      <4> QED BY <4>1, <4>2
    <3> QED BY <2>1, <2>2, <3>1
  <2>3. CASE reported["Xtra"] # {}
    <3>1. PICK r : reported["Xtra"] = {r} /\ xtra # <<>> /\ xtra[1].data = r.data
      BY <1>4, <2>3 DEF Reads, Equals
    <3> QED BY <2>1, <3>1
  <2> QED BY <2>2, <2>3
<1>14. ASSUME NEW c \in Constellations, NEW k \in 1..SvNum[c]
       PROVE  /\ sats[c][k].health = "good" <=>
                   \E r \in reported["SvHealth"] : k - 1 \in r.data.good[c]
              /\ sats[c][k].health = "bad" <=>
                   \E r \in reported["SvHealth"] : k - 1 \in r.data.bad[c] \ r.data.good[c]
  <2>1. sats[c][k].health =
          CASE health # <<>> /\ k - 1 \in health[1].data.good[c] -> "good"
            [] health # <<>> /\ k - 1 \notin health[1].data.good[c]
                 /\ k - 1 \in health[1].data.bad[c] -> "bad"
            [] OTHER -> "unknown"
    BY <1>9
  <2>2. CASE reported["SvHealth"] = {}
    <3>1. ASSUME health # <<>>
          PROVE  k - 1 \notin health[1].data.good[c] /\ k - 1 \notin health[1].data.bad[c]
      <4>1. PICK g : health[1].data = Defaults(g)["SvHealth"]
        BY <1>4, <2>2, <3>1 DEF Reads
      <4>2. Defaults(g)["SvHealth"].good[c] = {} /\ Defaults(g)["SvHealth"].bad[c] = {}
        BY DEF Defaults, NoneOf
      <4> QED BY <4>1, <4>2
    <3>2. sats[c][k].health = "unknown"
      BY <2>1, <3>1
    <3> QED BY <2>2, <3>2
  <2>3. CASE reported["SvHealth"] # {}
    <3>1. PICK r : reported["SvHealth"] = {r} /\ health # <<>> /\ health[1].data = r.data
      BY <1>4, <2>3 DEF Reads, Equals
    <3>2. CASE k - 1 \in r.data.good[c]
      <4>1. sats[c][k].health = "good"
        BY <2>1, <3>1, <3>2
      <4> QED BY <3>1, <3>2, <4>1
    <3>3. CASE k - 1 \notin r.data.good[c] /\ k - 1 \in r.data.bad[c]
      <4>1. sats[c][k].health = "bad"
        BY <2>1, <3>1, <3>3
      <4> QED BY <3>1, <3>3, <4>1
    <3>4. CASE k - 1 \notin r.data.good[c] /\ k - 1 \notin r.data.bad[c]
      <4>1. sats[c][k].health = "unknown"
        BY <2>1, <3>1, <3>4
      <4> QED BY <3>1, <3>4, <4>1
    <3> QED BY <3>2, <3>3, <3>4
  <2> QED BY <2>2, <2>3
<1> QED BY <1>11, <1>12, <1>13, <1>14 DEF SatellitesCurrent

(* What the other parts do with the queue does not matter to the reports,  *)
(* as they are not in a behaviour of its part.                             *)
ReportsPart == (part = "reports" => ReportsQueueOK) /\ UsedInv /\ CacheInv

LEMMA ReportsInductive == Spec => []ReportsPart
<1>1. Init => ReportsPart
  <2> SUFFICES ASSUME Init PROVE ReportsPart
    OBVIOUS
  <2>1. part = "reports" => ReportsQueueOK
    BY ShortQueues DEF Init, ReportsQueueOK
  <2>2. UsedInv
    BY DEF Init, ReportsInit, UsedInv, UsedToTell, UsedInFixMatches, NoSvs
  <2>3. CacheInv
    BY ShortQueues DEF Init, ReportsInit, StatusInit, CacheInv, ItemOK
  <2> QED BY <2>1, <2>2, <2>3 DEF ReportsPart
<1>2. ReportsPart /\ [Next]_vars => ReportsPart'
  <2> SUFFICES ASSUME ReportsPart, [Next]_vars PROVE ReportsPart'
    OBVIOUS
  <2>1. CASE part = "reports" /\ part' = part /\ ReportsNext
    BY <2>1, ReportsQueueStep, UsedStep, CacheStep DEF ReportsPart
  <2>2. ASSUME UNCHANGED reportsVars PROVE UsedInv' /\ CacheInv'
    BY <2>2 DEF ReportsPart, UsedInv, UsedToTell, UsedInFixMatches, CacheInv, reportsVars,
                statusVars
  <2>3. CASE UNCHANGED <<part, msgQ, reportsVars>>
    BY <2>2, <2>3 DEF ReportsPart, ReportsQueueOK
  <2>4. CASE part # "reports" /\ UNCHANGED <<part, reportsVars>>
    BY <2>2, <2>4 DEF ReportsPart
  <2> QED BY <2>1, <2>3, <2>4 DEF Next, vars, taskVars
<1> QED BY <1>1, <1>2, PTL DEF Spec

(* A satellite is told as used in the fix just if the fix that the clients *)
(* were told last, since the report before, used it, or the engine says so *)
(* (GnssAdapter::reportSv, for the ids that fit in an int's shift).        *)
THEOREM UsedTold == Spec => []UsedInFixMatches
<1>1. ReportsPart => UsedInFixMatches
  BY DEF ReportsPart, UsedInv
<1> QED BY <1>1, ReportsInductive, PTL

(* The debug report has what was reported last since the aiding data was   *)
(* deleted, with its time, and nothing older (GnssAdapter::getDebugReport).*)
THEOREM DebugTold == Spec => []DebugReportCurrent
<1>1. ReportsPart => DebugReportCurrent
  BY PositionRead, TimeRead, SatellitesRead DEF ReportsPart, DebugReportCurrent
<1> QED BY <1>1, ReportsInductive, PTL
=============================================================================
