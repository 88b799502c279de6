------------------------------- MODULE LocApi -------------------------------
(***************************************************************************)
(* LocApiBase, between the modem (external: LocApiV02) and the adapters it *)
(* reports to, with what GnssAdapter registers for. The adapters stand in  *)
(* an array that other threads change without a lock; the modem is opened  *)
(* with the union of the events they want, and forgets everything when it  *)
(* restarts. The foreground context, which excludes no event, is modelled: *)
(* nothing in the repository asks for the other.                           *)
(***************************************************************************)
EXTENDS AdapterTask, Overlay

CONSTANTS
  Others,        \* adapters of libraries outside the repository
  OthersMask,    \* adapter -> the events it is constructed with
  ApiClients,    \* clients of GnssAdapter
  CallbackSets,  \* the sets of callbacks a client may come with
  MAX_ADAPTERS

GNSS == "gnss"
NULL == "NULL"
Slots == 1 .. MAX_ADAPTERS

(* An adapter of a library is neither GnssAdapter nor the null pointer.     *)
ASSUME AdaptersAssumption ==
  /\ MAX_ADAPTERS \in Nat
  /\ Others \intersect {GNSS, NULL} = {}

VARIABLES
  mLocAdapters,   \* the array
  removing,       \* what removeAdapter has left to do: <<>> or <<slot of the hole>>
  missed,         \* the hole kept a report of the modem from an adapter
  mEvtMask,       \* adapter -> its events
  mClientData,    \* client -> its callbacks, {} for none
  cbInfo,         \* of "agps" and "odcpi": who has registered a callback
  provider,       \* NMEA_PROVIDER of gps.conf: "AP" or "MP"
  mNmeaMask,      \* the modem is to make NMEA sentences
  supported,      \* mFeaturesSupported has the debug sentences
  modem,          \* up, open: LocApiV02 holds a handle, mask: its events, fix
  sessions        \* GnssAdapter has tracking sessions

locApiVars == <<mLocAdapters, removing, missed, mEvtMask, mClientData, cbInfo, provider,
                mNmeaMask, supported, modem, sessions>>
arrayVars == <<mLocAdapters, removing, missed>>
wantVars == <<mClientData, cbInfo, provider, mNmeaMask>>

(* TO_ALL_LOCADAPTERS: the adapters up to the first hole; and              *)
(* TO_1ST_HANDLING_LOCADAPTERS: the first of them that handles a request   *)
Before(i) == \A j \in 1 .. i : mLocAdapters[j] # NULL
ToAll == {mLocAdapters[i] : i \in {i \in Slots : Before(i)}}
To1stHandling(handlers) ==
  {mLocAdapters[i] : i \in {i \in Slots : /\ Before(i) /\ mLocAdapters[i] \in handlers
                                          /\ \A j \in 1 .. i - 1 : mLocAdapters[j] \notin handlers}}

Added == {mLocAdapters[i] : i \in Slots} \ {NULL}

mFgExclMask == {}
getEvtMask == (UNION {mEvtMask[a] : a \in ToAll}) \ mFgExclMask

(* open and close of LocApiV02: a modem that is down is not reached; the   *)
(* first answer names the features it supports                             *)
Opened(m, mask) == IF m.up THEN [m EXCEPT !.open = TRUE, !.mask = mask] ELSE m
Closed(m) == [m EXCEPT !.open = FALSE, !.mask = {}, !.fix = FALSE]

(* The constructor of LocApiBase                                           *)
LocApiInit ==
  /\ mLocAdapters = [i \in Slots |-> NULL]
  /\ removing = <<>> /\ missed = FALSE
  /\ mEvtMask = Over([a \in Others |-> OthersMask[a]], Only(GNSS, {}))
  /\ mClientData = [c \in ApiClients |-> {}]
  /\ cbInfo = {}
  /\ provider \in {"AP", "MP"}
  /\ mNmeaMask = FALSE /\ supported = FALSE
  /\ \E up \in BOOLEAN : modem = [up |-> up, open |-> FALSE, mask |-> {}, fix |-> FALSE]
  /\ sessions = FALSE

-----------------------------------------------------------------------------
(* Threads of the libraries, which come and go one at a time               *)

(* The constructor of an adapter; GnssAdapter's also sends its settings     *)
addAdapter(a) ==
  /\ removing = <<>>
  /\ a \notin Added
  /\ \E i \in Slots :
       /\ mLocAdapters[i] = NULL
       /\ \A j \in 1 .. i - 1 : mLocAdapters[j] # NULL
       /\ mLocAdapters' = [mLocAdapters EXCEPT ![i] = a]
  /\ inputs < MaxInputs
  /\ inputs' = inputs + 1
  /\ msgQ' = msgQ \o <<[msg |-> "Open"]>> \o (IF a = GNSS THEN <<[msg |-> "SetConfig"]>> ELSE <<>>)
  /\ UNCHANGED <<handling, removing, missed, mEvtMask, wantVars, supported, modem, sessions>>

removeAdapter(a) ==
  /\ removing = <<>>
  /\ \E i \in Slots :
       /\ mLocAdapters[i] = a
       /\ mLocAdapters' = [mLocAdapters EXCEPT ![i] = NULL]
       /\ removing' = <<i>>
  /\ UNCHANGED <<taskVars, missed, mEvtMask, wantVars, supported, modem, sessions>>

(* Mutant: the hole stays where it is                                      *)
ShiftedNot(j, last) == [mLocAdapters EXCEPT ![last] = NULL]

(* The last adapter moves into the hole                                    *)
Shifted(j, last) == [[mLocAdapters EXCEPT ![j] = mLocAdapters[last]] EXCEPT ![last] = NULL]

(* ... after which the modem is closed, or opened with the events left     *)
fillHole ==
  /\ removing # <<>>
  /\ LET j == Head(removing)
         last == CHOOSE k \in j .. MAX_ADAPTERS :
                   /\ \A n \in j + 1 .. k : mLocAdapters[n] # NULL
                   /\ k = MAX_ADAPTERS \/ mLocAdapters[k + 1] = NULL
     IN
     /\ mLocAdapters' = Shifted(j, last)
     /\ IF last = 1
          THEN modem' = Closed(modem) /\ UNCHANGED taskVars
          ELSE Post([msg |-> "Open"]) /\ UNCHANGED modem
  /\ removing' = <<>>
  /\ UNCHANGED <<missed, mEvtMask, wantVars, supported, sessions>>

-----------------------------------------------------------------------------
(* The modem                                                               *)

goDown ==
  /\ modem.up
  /\ modem' = [Closed(modem) EXCEPT !.up = FALSE]
  /\ UNCHANGED <<taskVars, arrayVars, mEvtMask, wantVars, supported, sessions>>

(* GnssAdapter configures the modem and restarts the sessions              *)
AdapterMsgs == IF GNSS \in ToAll THEN <<[msg |-> "SetConfig"], [msg |-> "RestartSessions"]>> ELSE <<>>

(* Mutant: the adapters are told before the modem is to be opened anew     *)
EngineUpMsgsOpenLast == AdapterMsgs \o <<[msg |-> "Ssr"]>>

(* handleEngineUpEvent, in the modem's thread                              *)
EngineUpMsgs == <<[msg |-> "Ssr"]>> \o AdapterMsgs
handleEngineUpEvent ==
  /\ ~modem.up /\ inputs < MaxInputs
  /\ inputs' = inputs + 1
  /\ modem' = [modem EXCEPT !.up = TRUE]
  /\ msgQ' = msgQ \o EngineUpMsgs
  /\ missed' = (missed \/ (GNSS \in Added /\ GNSS \notin ToAll))
  /\ UNCHANGED <<handling, mLocAdapters, removing, mEvtMask, wantVars, supported, sessions>>

-----------------------------------------------------------------------------
(* The message task                                                        *)

Handles(kind) == Receive(kind) /\ UNCHANGED arrayVars

LocOpenMsg ==
  /\ Handles("Open")
  /\ modem' = Opened(modem, getEvtMask)
  /\ supported' = (supported \/ modem.up)
  /\ UNCHANGED <<mEvtMask, wantVars, sessions>>
LocSsrMsg ==
  /\ Handles("Ssr")
  /\ modem' = Opened(Closed(modem), getEvtMask)
  /\ supported' = (supported \/ modem.up)
  /\ UNCHANGED <<mEvtMask, wantVars, sessions>>

(* updateEvtMask of GnssAdapter, which opens the modem with the new events *)
Reopen(mask) ==
  /\ mEvtMask' = [mEvtMask EXCEPT ![GNSS] = mask]
  /\ modem' = Opened(modem, (UNION {mEvtMask'[a] : a \in ToAll}) \ mFgExclMask)
  /\ supported' = (supported \/ modem.up)

(* What the callbacks of the clients need                                  *)
ClientEvents(data, nmea) == (UNION {data[c] : c \in ApiClients}) \ (IF nmea THEN {} ELSE {"nmea"})

(* Mutant: the events of all clients and no others                         *)
WantedOfClients(data) == ClientEvents(data, mNmeaMask)

(* updateClientsEventMask replaces the mask: what AGPS and ODCPI need is   *)
(* in it as well                                                           *)
Wanted(data) == ClientEvents(data, mNmeaMask) \union cbInfo
saveClient ==
  /\ Handles("SaveClient")
  /\ mClientData' = [mClientData EXCEPT ![Head(msgQ).client] = Head(msgQ).callbacks]
  /\ Reopen(Wanted(mClientData'))
  /\ UNCHANGED <<cbInfo, provider, mNmeaMask, sessions>>
eraseClient ==
  /\ Handles("EraseClient")
  /\ mClientData' = [mClientData EXCEPT ![Head(msgQ).client] = {}]
  /\ Reopen(Wanted(mClientData'))
  /\ UNCHANGED <<cbInfo, provider, mNmeaMask, sessions>>

(* initAgps and initOdcpi add a bit                                        *)
initCallback ==
  /\ Handles("InitCallback")
  /\ cbInfo' = cbInfo \union {Head(msgQ).event}
  /\ Reopen(mEvtMask[GNSS] \union {Head(msgQ).event})
  /\ UNCHANGED <<mClientData, provider, mNmeaMask, sessions>>

(* MsgSetConfig decides about NMEA, and does not update the events         *)
setConfig ==
  /\ Handles("SetConfig")
  /\ mNmeaMask' = (provider = "MP" \/ supported)
  /\ UNCHANGED <<mEvtMask, mClientData, cbInfo, provider, supported, modem, sessions>>

restartSessions ==
  /\ Handles("RestartSessions")
  /\ modem' = IF sessions /\ modem.up /\ modem.open THEN [modem EXCEPT !.fix = TRUE] ELSE modem
  /\ UNCHANGED <<mEvtMask, wantVars, supported, sessions>>

(* A session is kept only if the modem accepts it (Tracking has the rest)  *)
startSession ==
  /\ Handles("StartSession")
  /\ LET ok == modem.up /\ modem.open IN
     /\ sessions' = (sessions \/ ok)
     /\ modem' = [modem EXCEPT !.fix = @ \/ ok]
  /\ UNCHANGED <<mEvtMask, wantVars, supported>>

(* Calls of clients and of the HIDL services, each a message               *)
AdapterCall ==
  /\ GNSS \in Added
  /\ \/ \E c \in ApiClients, cbs \in CallbackSets :
          Input([msg |-> "SaveClient", client |-> c, callbacks |-> cbs])
     \/ \E c \in ApiClients : Input([msg |-> "EraseClient", client |-> c])
     \/ \E ev \in {"agps", "odcpi"} : Input([msg |-> "InitCallback", event |-> ev])
     \/ Input([msg |-> "StartSession"])
  /\ UNCHANGED locApiVars

LocApiNext ==
  \/ \E a \in Others \union {GNSS} : addAdapter(a)
  \/ \E a \in Others : removeAdapter(a)
  \/ fillHole \/ goDown \/ handleEngineUpEvent
  \/ LocOpenMsg \/ LocSsrMsg \/ saveClient \/ eraseClient \/ initCallback
  \/ setConfig \/ restartSessions \/ startSession
  \/ AdapterCall

-----------------------------------------------------------------------------
ApiIdle == msgQ = <<>> /\ removing = <<>>

(* Whatever adapters were removed, reports of the modem reach all that are *)
(* added, and its requests GnssAdapter, unless a removal is under way.     *)
ReportsReachAdded ==
  removing = <<>> => ToAll = Added /\ To1stHandling({GNSS}) = Added \intersect {GNSS}

(* When all messages are handled, a modem that is up is open and delivers  *)
(* what the adapters, the clients' callbacks, AGPS and ODCPI need, in      *)
(* whatever order they came and however often it restarted. (NMEA follows  *)
(* later if only the modem's answer tells that it can make it.)            *)
ModemDeliversWanted ==
  (ApiIdle /\ modem.up /\ Added # {}) =>
    /\ modem.open
    /\ cbInfo \union (UNION {OthersMask[a] : a \in Added \ {GNSS}})
         \union ((UNION {mClientData[c] : c \in ApiClients})
                  \ (IF provider = "MP" THEN {} ELSE {"nmea"})) \subseteq modem.mask

(* A modem that restarted serves the sessions again once it was opened and *)
(* configured, unless the adapter missed the news of it.                   *)
SessionsRestarted == (ApiIdle /\ modem.up /\ sessions /\ ~missed) => modem.fix
=============================================================================
