----------------------------- MODULE OsObserver -----------------------------
(***************************************************************************)
(* SystemStatusOsObserver, the SystemStatus cache behind it and the        *)
(* observer of the XTRA daemon. The framework (external) reports network   *)
(* connections and other data items; the observer remembers the last       *)
(* value of each, tells the clients that subscribed to it, and subscribes  *)
(* at the framework for what some client wants. Everything but turnOn and  *)
(* turnOff runs in the message task.                                       *)
(***************************************************************************)
EXTENDS AdapterTask

CONSTANTS
  Types,      \* network types that have a bit (TYPE_MOBILE, TYPE_WIFI, ...)
  Observers,  \* observers of libraries outside the repository
  ItemSets    \* the items that one call of theirs may name

XtraItems == {"network", "tac"}
Items == XtraItems \union {"airplane"}   \* what XTRA does not want, too
XTRA == "xtra"
ObserverClients == Observers \union {XTRA}
TypeUnknown == "unknown"    \* no bit: typeToAllTypes gives 0

VARIABLES
  mClientToDataItems,   \* client -> the items it subscribed to
  mDataItemToClients,   \* item -> its clients
  mDataItemCache,       \* item -> the value of the observer's cache, None if not there
  mSubscriptionObj,     \* the framework has given its subscription object
  fwSubscribed,         \* items the observer subscribed to at the framework
  fwRequested,          \* items whose data it requested there, neither yet dropped
  told,                 \* client -> the values it was told last
  mFrameworkActionReqObj, \* the framework has given its action object
  mActiveRequestCount,  \* references of turnOn
  fwOn,                 \* modules the framework was asked to turn on
  holders,              \* how often clients asked for a module to be on
  connected,            \* types that are connected, as the framework reported
  first,                \* what the first report of a network said
  mReqStatusReceived,   \* the XTRA daemon has asked for the status
  mValues,              \* mConnections and mTac of the XTRA observer
  xtraKnows             \* what the XTRA daemon was sent

\* History: clients that replaced their subscription; and of each item the
\* clients that only requested its data of a framework whose object was there,
\* since the item last had no client
VARIABLES updated, requesters

observerVars == <<mClientToDataItems, mDataItemToClients, mDataItemCache, mSubscriptionObj,
                  fwSubscribed, fwRequested, updated, requesters, told, mFrameworkActionReqObj,
                  mActiveRequestCount, fwOn, holders, connected, first, mReqStatusReceived,
                  mValues, xtraKnows>>
fwVars == <<fwSubscribed, fwRequested, requesters>>
mapVars == <<mClientToDataItems, mDataItemToClients, fwVars, updated>>
turnVars == <<mFrameworkActionReqObj, mActiveRequestCount, fwOn, holders>>
xtraVars == <<mReqStatusReceived, mValues, xtraKnows>>
worldVars == <<connected, first>>

None == {"none"}

(* The value of the network item is a set of types, and {} when there are  *)
(* none. The XTRA observer is an object of its own.                        *)
ASSUME TypesAssumption == "none" \notin Types /\ XTRA \notin Observers
ASSUME ItemSetsAssumption == ItemSets \subseteq (SUBSET Items) \ {{}}

NoValues == [d \in Items |-> None]
NoXtraValues == [d \in XtraItems |-> None]

SubscribeMsg(c, ds, toRequestData) ==
  [msg |-> "Subscribe", client |-> c, items |-> ds, toRequestData |-> toRequestData]

(* The constructor of the XTRA observer subscribes to the network, and     *)
(* requests the data of the other item                                     *)
ObserverMsgs == <<SubscribeMsg(XTRA, {"network"}, FALSE), SubscribeMsg(XTRA, {"tac"}, TRUE)>>

ObserverInit ==
  /\ mClientToDataItems = [c \in ObserverClients |-> {}]
  /\ mDataItemToClients = [d \in Items |-> {}]
  /\ mDataItemCache = NoValues
  /\ mSubscriptionObj = FALSE
  /\ fwSubscribed = {} /\ fwRequested = {}
  /\ updated = {} /\ requesters = [d \in Items |-> {}]
  /\ mFrameworkActionReqObj = FALSE /\ mActiveRequestCount = 0 /\ fwOn = FALSE /\ holders = 0
  /\ told = [c \in ObserverClients |-> NoValues]
  /\ connected = {} /\ first = "nothing"
  /\ mReqStatusReceived = FALSE
  /\ mValues = [NoXtraValues EXCEPT !["network"] = {}]
  /\ xtraKnows = NoXtraValues

-----------------------------------------------------------------------------
(* Calls from outside; each only sends a message                           *)

(* eventConnectionStatus: a type connects or disconnects                   *)
eventConnectionStatus(type, up) ==
  /\ Input([msg |-> "Notify", item |-> "network", type |-> type, up |-> up])
  /\ connected' = IF up THEN connected \union ({type} \ {TypeUnknown})
                  ELSE IF type = TypeUnknown THEN {} ELSE connected \ {type}
  /\ first' = IF first # "nothing" THEN first ELSE IF up THEN "connected" ELSE "disconnected"
  /\ UNCHANGED <<mapVars, mDataItemCache, mSubscriptionObj, told, turnVars, xtraVars>>

(* notify of another item by the framework's library                       *)
notify(d, v) ==
  /\ Input([msg |-> "Notify", item |-> d, value |-> v])
  /\ UNCHANGED observerVars

setSubscriptionObj ==
  /\ ~mSubscriptionObj
  /\ Input([msg |-> "SetSubsObj"])
  /\ UNCHANGED observerVars

(* subscribe, and requestData, which is the same call with toRequestData   *)
subscribe(c, ds, toRequestData) ==
  /\ Input(SubscribeMsg(c, ds, toRequestData))
  /\ UNCHANGED observerVars
unsubscribe(c, ds) ==
  /\ Input([msg |-> "Unsubscribe", client |-> c, items |-> ds])
  /\ UNCHANGED observerVars
(* unsubscribeAll is handled like it for what the client has, in its own   *)
(* message                                                                 *)
unsubscribeAll(c) == unsubscribe(c, Items)
updateSubscription(c, ds) ==
  /\ Input([msg |-> "UpdateSubscription", client |-> c, items |-> ds])
  /\ UNCHANGED observerVars

(* requestStatus of the XTRA daemon; current: it says it knows the status  *)
onReceive(current) ==
  /\ current => mReqStatusReceived
  /\ Input([msg |-> "StatusRequest", current |-> current])
  /\ UNCHANGED observerVars

InputNoMessage == inputs < MaxInputs /\ inputs' = inputs + 1 /\ UNCHANGED <<msgQ, handling>>

setFrameworkActionReqObj ==
  /\ ~mFrameworkActionReqObj
  /\ mFrameworkActionReqObj' = TRUE
  /\ InputNoMessage
  /\ UNCHANGED <<mapVars, mDataItemCache, mSubscriptionObj, told, mActiveRequestCount, fwOn,
                 holders, worldVars, xtraVars>>

(* turnOn and turnOff count the references of a module; without the        *)
(* framework's object they return at once. The message that is to turn it  *)
(* on carries the observer itself, not the framework.                      *)
turnOn ==
  /\ mFrameworkActionReqObj
  /\ holders' = holders + 1
  /\ mActiveRequestCount' = mActiveRequestCount + 1
  /\ IF mActiveRequestCount = 0
       THEN Input([msg |-> "TurnOn"])
       ELSE InputNoMessage
  /\ UNCHANGED <<mapVars, mDataItemCache, mSubscriptionObj, told, mFrameworkActionReqObj, fwOn,
                 worldVars, xtraVars>>
turnOff ==
  /\ mFrameworkActionReqObj /\ holders > 0
  /\ holders' = holders - 1
  /\ mActiveRequestCount' = mActiveRequestCount - 1
  /\ IF mActiveRequestCount = 1
       THEN Input([msg |-> "TurnOff"])
       ELSE InputNoMessage
  /\ UNCHANGED <<mapVars, mDataItemCache, mSubscriptionObj, told, mFrameworkActionReqObj, fwOn,
                 worldVars, xtraVars>>

-----------------------------------------------------------------------------
(* The handlers of the message task                                        *)

(* sendCachedDataItems: a client is told what the cache holds of some      *)
(* items. The XTRA observer copies it into a message of its own.           *)
Tell(cs, ds, cache) ==
  LET cached == {d \in ds : cache[d] # None}
      copy == [d \in cached |-> cache[d]]
  IN
  /\ told' = [c \in ObserverClients |->
                IF c \in cs THEN [d \in Items |->
                     IF d \in cached /\ d \in mClientToDataItems'[c] THEN cache[d] ELSE told[c][d]]
                ELSE told[c]]
  /\ msgQ' = IF XTRA \in cs /\ cached \intersect mClientToDataItems'[XTRA] # {}
             THEN Append(Tail(msgQ), [msg |-> "XtraUpdate", values |->
                    [d \in cached \intersect mClientToDataItems'[XTRA] |-> copy[d]]])
             ELSE Tail(msgQ)

Next1(kind) == msgQ # <<>> /\ Head(msgQ).msg = kind /\ UNCHANGED <<inputs, handling>>

(* The items enter both maps of a client                                   *)
Enter(c, ds) ==
  /\ mClientToDataItems' = [mClientToDataItems EXCEPT ![c] = @ \union ds]
  /\ mDataItemToClients' = [d \in Items |-> IF d \in ds THEN mDataItemToClients[d] \union {c}
                                            ELSE mDataItemToClients[d]]

(* The framework is told, once its object is there, what no client had and *)
(* what none has any more                                                  *)
TellFramework(subscribed, requested, dropped) ==
  IF mSubscriptionObj
  THEN /\ fwSubscribed' = (fwSubscribed \union subscribed) \ dropped
       /\ fwRequested' = (fwRequested \union requested) \ dropped
  ELSE UNCHANGED <<fwSubscribed, fwRequested>>

(* Mutant: only an item that no client had is told to the client           *)
AddSubscriptionNewOnly(c, ds, toRequestData) ==
  LET new == {d \in ds : mDataItemToClients[d] = {}} IN
  /\ Enter(c, ds)
  /\ Tell({c}, new, mDataItemCache)
  /\ IF toRequestData THEN TellFramework({}, new, {}) ELSE TellFramework(new, {}, {})

(* HandleSubscribeReq: the items enter both maps, the client is told what  *)
(* is known of them, and the framework is subscribed, or asked for the     *)
(* data if the client only requested them, for those that no client had    *)
AddSubscription(c, ds, toRequestData) ==
  LET new == {d \in ds : mDataItemToClients[d] = {}} IN
  /\ Enter(c, ds)
  /\ Tell({c}, ds, mDataItemCache)
  /\ IF toRequestData THEN TellFramework({}, new, {}) ELSE TellFramework(new, {}, {})
HandleSubscribeReq ==
  LET m == Head(msgQ) IN
  /\ Next1("Subscribe")
  /\ AddSubscription(m.client, m.items, m.toRequestData)
  /\ requesters' = [d \in Items |-> IF mSubscriptionObj /\ m.toRequestData /\ d \in m.items
                                    THEN requesters[d] \union {m.client} ELSE requesters[d]]
  /\ UNCHANGED <<updated, mDataItemCache, mSubscriptionObj, turnVars, worldVars, xtraVars>>

(* Mutant: the items leave the framework although other clients have them  *)
DropSubscriptionOfAll(c, ds) ==
  /\ mClientToDataItems' = [mClientToDataItems EXCEPT ![c] = @ \ ds]
  /\ mDataItemToClients' = [d \in Items |-> IF d \in ds THEN mDataItemToClients[d] \ {c}
                                            ELSE mDataItemToClients[d]]
  /\ TellFramework({}, {}, ds)

(* trimOrRemove in both maps; an item without clients leaves the framework *)
DropSubscription(c, ds) ==
  LET unused == mClientToDataItems[c] \intersect ds IN
  /\ mClientToDataItems' = [mClientToDataItems EXCEPT ![c] = @ \ unused]
  /\ mDataItemToClients' = [d \in Items |-> IF d \in unused THEN mDataItemToClients[d] \ {c}
                                            ELSE mDataItemToClients[d]]
  /\ TellFramework({}, {}, {d \in unused : mDataItemToClients[d] = {c}})

ForgetRequesters ==
  requesters' = [d \in Items |-> IF mDataItemToClients'[d] = {} THEN {} ELSE requesters[d]]

(* Also HandleUnsubscribeAllReq, for all Items                             *)
HandleUnsubscribeReq ==
  /\ Next1("Unsubscribe")
  /\ msgQ' = Tail(msgQ)
  /\ DropSubscription(Head(msgQ).client, Head(msgQ).items)
  /\ ForgetRequesters
  /\ UNCHANGED <<updated, mDataItemCache, mSubscriptionObj, told, turnVars, worldVars, xtraVars>>

(* LocUnorderedSetMap::update is to return what the client gives up, but   *)
(* returns what it keeps; and as it erases from the set it walks through,  *)
(* the walk may end after any of these.                                    *)
Returned(c, ds) ==
  LET common == mClientToDataItems[c] \intersect ds IN
  {g \in SUBSET common : g # {} \/ common = {}}

(* The client leaves the items returned and joins the others               *)
HandleUpdateSubscriptionReq ==
  LET c == Head(msgQ).client
      ds == Head(msgQ).items
  IN
  /\ Next1("UpdateSubscription")
  /\ \E gone \in Returned(c, ds) :
       /\ mClientToDataItems' = [mClientToDataItems EXCEPT ![c] = ds]
       /\ mDataItemToClients' = [d \in Items |->
            CASE d \in gone -> mDataItemToClients[d] \ {c}
              [] d \in ds \ gone -> mDataItemToClients[d] \union {c}
              [] OTHER -> mDataItemToClients[d]]
       /\ Tell({c}, ds \ gone, mDataItemCache)
       /\ TellFramework({d \in ds \ gone : mDataItemToClients[d] = {}}, {},
                        {d \in gone : mDataItemToClients[d] = {c}})
  /\ updated' = updated \union {c}
  /\ ForgetRequesters
  /\ UNCHANGED <<mDataItemCache, mSubscriptionObj, turnVars, worldVars, xtraVars>>

(* The framework is subscribed and asked for all that clients want so far  *)
SetSubsObj ==
  /\ Next1("SetSubsObj")
  /\ msgQ' = Tail(msgQ)
  /\ mSubscriptionObj' = TRUE
  /\ fwSubscribed' = {d \in Items : mDataItemToClients[d] # {}}
  /\ fwRequested' = fwSubscribed'
  /\ UNCHANGED <<mClientToDataItems, mDataItemToClients, updated, requesters, mDataItemCache, told,
                 turnVars, worldVars, xtraVars>>

(* SystemStatusNetworkInfo::collate with the last report of SystemStatus:  *)
(* the types that are connected; the very first report is taken as it is,  *)
(* its type as connected whatever it says                                  *)
collate(m) ==
  LET bits == {m.type} \ {TypeUnknown}
      last == mDataItemCache["network"]
  IN
  CASE last = None -> bits
    [] last # None /\ m.up -> last \union bits
    [] last # None /\ ~m.up /\ bits # {} -> last \ bits
    [] OTHER -> {}

(* A report like the last one of its item changes nothing                  *)
eventDataItemNotify(item, value) == value # mDataItemCache[item]

(* Both caches hold the last report of the item                            *)
updateCache(item, value) == mDataItemCache' = [mDataItemCache EXCEPT ![item] = value]

(* Every client of an item that changed is told                            *)
HandleNotify ==
  LET m == Head(msgQ)
      value == IF m.item = "network" THEN collate(m) ELSE m.value
  IN
  /\ Next1("Notify")
  /\ UNCHANGED <<mClientToDataItems, updated>>
  /\ updateCache(m.item, value)
  /\ IF eventDataItemNotify(m.item, value)
     THEN Tell(mDataItemToClients[m.item], {m.item}, mDataItemCache')
     ELSE msgQ' = Tail(msgQ) /\ UNCHANGED told
  /\ UNCHANGED <<mDataItemToClients, fwVars, mSubscriptionObj, turnVars, worldVars, xtraVars>>

(* HandleTurnOnMsg calls turnOn of the observer, which counts once more    *)
HandleTurnOnMsg ==
  /\ Next1("TurnOn")
  /\ mActiveRequestCount' = mActiveRequestCount + 1
  /\ msgQ' = IF mActiveRequestCount = 0 THEN Append(Tail(msgQ), [msg |-> "TurnOn"]) ELSE Tail(msgQ)
  /\ UNCHANGED <<mapVars, mDataItemCache, mSubscriptionObj, told, mFrameworkActionReqObj, fwOn,
                 holders, worldVars, xtraVars>>
HandleTurnOffMsg ==
  /\ Next1("TurnOff")
  /\ fwOn' = FALSE
  /\ msgQ' = Tail(msgQ)
  /\ UNCHANGED <<mapVars, mDataItemCache, mSubscriptionObj, told, mFrameworkActionReqObj,
                 mActiveRequestCount, holders, worldVars, xtraVars>>

(* updateConnections and updateTac: kept, and sent on once the daemon has  *)
(* asked                                                                   *)
HandleOsObserverUpdateMsg ==
  LET vs == Head(msgQ).values
      over(f) == [d \in XtraItems |-> IF d \in DOMAIN vs THEN vs[d] ELSE f[d]]
  IN
  /\ Next1("XtraUpdate")
  /\ msgQ' = Tail(msgQ)
  /\ mValues' = over(mValues)
  /\ xtraKnows' = IF mReqStatusReceived THEN over(xtraKnows) ELSE xtraKnows
  /\ UNCHANGED <<mapVars, mDataItemCache, mSubscriptionObj, told, turnVars, worldVars,
                 mReqStatusReceived>>

(* Mutant: what came before the daemon's first request is not sent         *)
onStatusRequestedLater(current) ==
  /\ mReqStatusReceived' = TRUE
  /\ xtraKnows' = IF current \/ ~mReqStatusReceived THEN xtraKnows ELSE mValues

(* onStatusRequested: everything is sent, unless the daemon is current     *)
onStatusRequested(current) ==
  /\ mReqStatusReceived' = TRUE
  /\ xtraKnows' = IF current THEN xtraKnows ELSE mValues
HandleStatusRequestMsg ==
  /\ Next1("StatusRequest")
  /\ msgQ' = Tail(msgQ)
  /\ onStatusRequested(Head(msgQ).current)
  /\ UNCHANGED <<mapVars, mDataItemCache, mSubscriptionObj, told, turnVars, worldVars, mValues>>

ObserverNext ==
  \/ \E t \in Types \union {TypeUnknown}, up \in BOOLEAN : eventConnectionStatus(t, up)
  \/ notify("tac", {"t1"}) \/ notify("airplane", {"a1"})
  \/ setSubscriptionObj \/ setFrameworkActionReqObj
  \/ \E c \in Observers, ds \in ItemSets :
       \/ \E toRequestData \in BOOLEAN : subscribe(c, ds, toRequestData)
       \/ unsubscribe(c, ds) \/ updateSubscription(c, ds)
  \/ \E c \in Observers : unsubscribeAll(c)
  \/ \E current \in BOOLEAN : onReceive(current)
  \/ turnOn \/ turnOff
  \/ HandleSubscribeReq \/ HandleUnsubscribeReq \/ HandleUpdateSubscriptionReq \/ SetSubsObj \/ HandleNotify
  \/ HandleTurnOnMsg \/ HandleTurnOffMsg
  \/ HandleOsObserverUpdateMsg \/ HandleStatusRequestMsg

-----------------------------------------------------------------------------
WantedItems == {d \in Items : mDataItemToClients[d] # {}}

(* The two maps mirror each other, and the framework has just the items    *)
(* that some client wants, also what was wanted before its object was      *)
(* there: one dropped too early leaves the other clients without news. It  *)
(* is subscribed to them all, but for those whose data a client only       *)
(* requested (SystemStatusOsObserver.cpp:114). A client that replaced its  *)
(* subscription has lost the items it kept.                                *)
SubscriptionsAgree ==
  /\ \A c \in ObserverClients \ updated, d \in Items :
       d \in mClientToDataItems[c] <=> c \in mDataItemToClients[d]
  /\ mSubscriptionObj =>
       /\ fwSubscribed \union fwRequested = WantedItems
       /\ {d \in WantedItems : requesters[d] = {}} \subseteq fwSubscribed

(* Whenever a client subscribed and whatever was reported before that, it  *)
(* was told the last value of the items that both maps know it wants.      *)
ClientsToldLast ==
  \A d \in Items : \A c \in mDataItemToClients[d] :
    d \in mClientToDataItems[c] => told[c][d] = mDataItemCache[d]

(* When the message task is idle the XTRA daemon knows the types that are  *)
(* connected, in whatever order reports, its subscription and its request  *)
(* came (a disconnection as the very first report is taken as connected).  *)
XtraKnowsConnections ==
  (msgQ = <<>> /\ first = "connected" /\ mReqStatusReceived) => xtraKnows["network"] = connected
=============================================================================
