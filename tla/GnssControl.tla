---------------------------- MODULE GnssControl -----------------------------
(***************************************************************************)
(* Switching the GNSS engine on and off and configuring it: the HIDL       *)
(* service (gps/android/Gnss.cpp and GnssConfiguration.cpp), its           *)
(* LocationAPIControlClient and the commands of GnssAdapter they end in.   *)
(* The configuration is kept in three places: what the framework wants,    *)
(* ContextBase::mGps_conf, and the modem, which forgets it when it         *)
(* restarts, except for the engine lock, which nothing ever sends again.   *)
(*                                                                         *)
(* A configuration is a function from the items whose flag is set. The     *)
(* service has one client, whose calls come one after the other. The       *)
(* modem may refuse what it is told, and its answer is only passed on.     *)
(***************************************************************************)
EXTENDS AdapterTask, Overlay

CONSTANTS
  Settings,   \* the pairs of item and value the framework tries
  Refusable   \* the items the modem may refuse; one at a time

VARIABLES
  mApi,           \* has the service a GnssAPIClient?
  mPendingConfig, \* the configuration kept until it has one
  wanted,         \* the last value the framework gave each item
  mEnabled, mConfig, mRequestQueues,   \* of LocationAPIControlClient
  mCapabilities,  \* the SUPL modes the client was last told of, <<>> if it was not
  mSessionId,     \* the last session id
  powerVoteId, mGpsConf, mServerUrl,   \* of the adapter and its context
  modem,          \* what the modem was told last, of the items it was told
  refused         \* the items it refused last time

hidlVars == <<mApi, mPendingConfig, wanted>>
clientVars == <<mEnabled, mConfig, mRequestQueues, mCapabilities>>
confVars == <<powerVoteId, mGpsConf, mServerUrl, modem, refused>>
controlVars == <<hidlVars, clientVars, mSessionId, confVars>>

-----------------------------------------------------------------------------
(* The items, and their values as clients write them and as mGps_conf does *)

Injected == {"SUPL_VER", "LPP_PROFILE", "A_GLONASS"}  \* with AGPS_CONFIG_INJECT
Lppe == {"LPPE_CP", "LPPE_UP"}
KeptOnly == {"EP4ES", "SUPL_ES", "SUPL_MODE"}
Item == Injected \cup Lppe \cup KeptOnly \cup {"GPS_LOCK", "SUPL_HOST"}
Resent == Injected \cup Lppe

(* The enumerations of LocationAPI.h, which the setters keep to; the other *)
(* values are sets of bits, or a host.                                     *)
ItemValues ==
  [GPS_LOCK |-> {"NONE", "MO", "NI", "MO_AND_NI"},
   SUPL_VER |-> {"1_0_0", "2_0_0", "2_0_2"},
   LPP_PROFILE |-> {"RRLP_ON_LTE", "USER", "CONTROL", "BOTH"}]

ASSUME SettingsAssumption ==
  \A s \in Settings :
    /\ s[1] \in Item
    /\ s[1] \in DOMAIN ItemValues => s[2] \in ItemValues[s[1]]

NoHost == "none"
FileHost == "file"   \* SUPL_HOST of gps.conf

convert(i, v) ==
  CASE i = "GPS_LOCK" -> (CASE v = "MO" -> 1 [] v = "NI" -> 2 [] v = "MO_AND_NI" -> 3 [] OTHER -> 0)
    [] i = "SUPL_VER" -> (CASE v = "2_0_0" -> 131072 [] v = "2_0_2" -> 131074 [] OTHER -> 65536)
    [] i = "LPP_PROFILE" -> (CASE v = "USER" -> 1 [] v = "CONTROL" -> 2 [] v = "BOTH" -> 3 [] OTHER -> 0)
    [] i \in {"EP4ES", "SUPL_ES"} -> IF v = "YES" THEN 1 ELSE 0
    [] OTHER -> v   \* sets of bits that have the same numbers on both sides

convertBack(i, n) ==
  CASE i = "GPS_LOCK" -> (CASE n = 1 -> "MO" [] n = 2 -> "NI" [] n = 3 -> "MO_AND_NI" [] OTHER -> "NONE")
    [] i = "SUPL_VER" -> (CASE n = 131072 -> "2_0_0" [] n = 131074 -> "2_0_2" [] OTHER -> "1_0_0")
    [] i = "LPP_PROFILE" -> (CASE n = 1 -> "USER" [] n = 2 -> "CONTROL" [] n = 3 -> "BOTH" [] OTHER -> "RRLP_ON_LTE")
    [] OTHER -> n

(* readConfig: the defaults, and what a gps.conf may say instead *)
readConfig(inject) ==
  [i \in (Item \ {"SUPL_HOST"}) \cup {"INJECT"} |->
     CASE i = "INJECT" -> inject
       [] i = "SUPL_VER" -> 65536
       [] i \in {"A_GLONASS", "LPPE_CP", "LPPE_UP"} -> {}
       [] i = "SUPL_MODE" -> {"MSB"}
       [] i = "EP4ES" -> 1
       [] OTHER -> 0]

(* The constructor of GnssAdapter has posted readConfig and setConfig. *)
NoRequests == [session |-> 0, requests |-> <<>>]
ControlInit ==
  /\ mApi = FALSE /\ mPendingConfig = <<>> /\ wanted = <<>>
  /\ mEnabled = FALSE /\ mConfig = <<>>
  /\ mRequestQueues = [q \in {"CONTROL", "DELETE", "CONFIG"} |-> NoRequests]
  /\ mCapabilities = <<>>
  /\ mSessionId = 0 /\ powerVoteId = 0
  /\ mGpsConf \in {readConfig(inject) : inject \in BOOLEAN}
  /\ mServerUrl = NoHost
  /\ modem = <<>>
  /\ refused = {}

-----------------------------------------------------------------------------
(* LocationAPIControlClient. Its mutex is held while a command is posted   *)
(* and its request is queued, and while a response looks for its request.  *)

push(q, request) ==
  [mRequestQueues EXCEPT ![q].requests = Append(@, request)]
resetAndPush(q, session, request) ==
  [mRequestQueues EXCEPT ![q] = [session |-> session, requests |-> <<request>>]]

(* getRequestBySession: the first queue of the session loses its head. *)
popBySession(session) ==
  LET q == IF mRequestQueues["CONTROL"].session = session THEN "CONTROL" ELSE "DELETE"
  IN  IF mRequestQueues[q].session = session /\ mRequestQueues[q].requests # <<>>
        THEN [mRequestQueues EXCEPT ![q].requests = Tail(@)]
        ELSE mRequestQueues

Says(msgs) == msgQ' = msgQ \o msgs /\ UNCHANGED handling
Counted == inputs < MaxInputs /\ inputs' = inputs + 1

(* locAPIEnable, with what it puts in the queue *)
EnableMsgs == IF mEnabled THEN <<>> ELSE <<[msg |-> "Enable", id |-> mSessionId + 1]>>
EnableClient ==
  /\ mEnabled' = TRUE
  /\ mSessionId' = IF mEnabled THEN mSessionId ELSE mSessionId + 1

(* locAPIGnssUpdateConfig: a repetition of the last call goes no further; *)
(* a host is no repetition, as its name is a new copy, compared by address. *)
UpdateMsgs(config) ==
  IF (config = mConfig /\ "SUPL_HOST" \notin DOMAIN config) \/ config = <<>> THEN <<>>
  ELSE <<[msg |-> "UpdateConfig", config |-> config]>>
UpdateRequests(config, queues) ==
  IF UpdateMsgs(config) = <<>> THEN queues
  ELSE [queues EXCEPT !["CONFIG"].requests = Append(@, "UpdateConfig")]

(* The pending configuration takes over the new items; the name of a host  *)
(* is only copied over another one, and there never is one.                *)
updatePending(config) ==
  Over([i \in DOMAIN config |-> IF i = "SUPL_HOST" THEN NoHost ELSE config[i]], mPendingConfig)

(* Gnss::setCallback. The first one creates the client: its registration,  *)
(* the request of the capabilities, the pending configuration; the client  *)
(* is then enabled.                                                        *)
setCallback ==
  /\ Counted
  /\ EnableClient
  /\ LET first == ~mApi
         register == IF first THEN <<[msg |-> "RequestCapabilities"]>> ELSE <<>>
         update == IF first THEN UpdateMsgs(mPendingConfig) ELSE <<>>
         config == IF first THEN UpdateRequests(mPendingConfig, mRequestQueues) ELSE mRequestQueues
     IN  /\ Says(register \o update \o EnableMsgs)
         /\ mRequestQueues' =
              IF mEnabled THEN config
              ELSE [config EXCEPT !["CONTROL"] = [session |-> mSessionId',
                                                  requests |-> <<"Enable">>]]
         /\ mConfig' = IF first /\ mPendingConfig # <<>> THEN mPendingConfig ELSE mConfig
  /\ mApi' = TRUE
  /\ UNCHANGED <<mPendingConfig, wanted, mCapabilities, confVars>>

(* Gnss::cleanup, or the death of the framework, whose stop() is Tracking's *)
cleanup ==
  /\ Counted
  /\ IF mApi /\ mEnabled
       THEN /\ Says(<<[msg |-> "Disable", id |-> mRequestQueues["CONTROL"].session]>>)
            /\ mRequestQueues' = push("CONTROL", "Disable")
            /\ mEnabled' = FALSE
       ELSE UNCHANGED <<msgQ, handling, mRequestQueues, mEnabled>>
  /\ UNCHANGED <<hidlVars, mConfig, mCapabilities, mSessionId, confVars>>

(* A setter of GnssConfiguration, or AGnss::setServer *)
updateConfiguration(i, v) ==
  /\ Counted
  /\ LET config == Only(i, v)
     IN  /\ wanted' = Over(config, wanted)
         /\ IF mApi
              THEN /\ Says(UpdateMsgs(config))
                   /\ mRequestQueues' = UpdateRequests(config, mRequestQueues)
                   /\ mConfig' = config
                   /\ UNCHANGED mPendingConfig
              ELSE /\ mPendingConfig' = updatePending(config)
                   /\ UNCHANGED <<msgQ, handling, mRequestQueues, mConfig>>
  /\ UNCHANGED <<mApi, mEnabled, mCapabilities, mSessionId, confVars>>

gnssDeleteAidingData ==
  /\ Counted
  /\ mApi
  /\ mSessionId' = mSessionId + 1
  /\ Says(<<[msg |-> "DeleteAidingData", id |-> mSessionId']>>)
  /\ mRequestQueues' = resetAndPush("DELETE", mSessionId', "DeleteAidingData")
  /\ UNCHANGED <<hidlVars, mEnabled, mConfig, mCapabilities, confVars>>

(* The modem has restarted: handleEngineUpEvent *)
handleEngineUpEvent ==
  /\ Counted
  /\ Says(<<[msg |-> "SetConfig"], [msg |-> "RestartSessions"]>>)
  /\ modem' = [i \in DOMAIN modem \cap {"GPS_LOCK"} |-> modem[i]]
  /\ UNCHANGED <<hidlVars, clientVars, mSessionId, powerVoteId, mGpsConf, mServerUrl, refused>>

-----------------------------------------------------------------------------
(* The handlers *)

(* The modem is told the values of some items and may refuse one of them. *)
Tell(values) ==
  \E no \in {{}} \cup {{i} : i \in DOMAIN values \cap Refusable} :
    /\ modem' = Over([i \in DOMAIN values \ no |-> values[i]], modem)
    /\ refused' = (refused \ DOMAIN values) \cup no

(* setSuplHostServer: the host the modem is told, if it is a new one *)
NewServer(host) == mGpsConf["INJECT"] /\ host # mServerUrl

setConfig ==
  /\ Receive("SetConfig")
  /\ mServerUrl' = IF NewServer(FileHost) THEN FileHost ELSE mServerUrl
  /\ LET told == Lppe \cup (IF mGpsConf["INJECT"] THEN Injected ELSE {})
                 \cup (IF NewServer(FileHost) THEN {"SUPL_HOST"} ELSE {})
     IN  Tell([i \in told |-> IF i = "SUPL_HOST" THEN FileHost
                              ELSE convertBack(i, mGpsConf[i])])
  /\ UNCHANGED <<hidlVars, clientVars, mSessionId, powerVoteId, mGpsConf>>

(* Which items of a configuration go to mGps_conf, and which to the modem *)
Kept(config) ==
  {i \in DOMAIN config : /\ i # "SUPL_HOST"
                         /\ i \in Injected => mGpsConf["INJECT"]}

Told(config) ==
  {i \in DOMAIN config :
     CASE i = "GPS_LOCK" -> powerVoteId = 0
       [] i = "SUPL_HOST" -> NewServer(config[i])
       [] i \in Resent -> i \in Kept(config) /\ mGpsConf[i] # convert(i, config[i])
       [] OTHER -> FALSE}

(* broadcastCapabilities, to the client that is registered *)
broadcastCapabilities(mode) ==
  mCapabilities' = IF mCapabilities # <<>> THEN <<mode>> ELSE <<>>

(* Mutant: what the modem is told is not kept for its restart. *)
KeepTold(config) ==
  mGpsConf' = Over([i \in Kept(config) \ Lppe |-> convert(i, config[i])], mGpsConf)

KeepConfig(config) ==
  mGpsConf' = Over([i \in Kept(config) |-> convert(i, config[i])], mGpsConf)

gnssUpdateConfig ==
  /\ Receive("UpdateConfig")
  /\ LET config == Head(msgQ).config
     IN  /\ Tell([i \in Told(config) |-> config[i]])
         /\ KeepConfig(config)
         /\ mServerUrl' = IF "SUPL_HOST" \in Told(config) THEN config["SUPL_HOST"] ELSE mServerUrl
         /\ IF "SUPL_MODE" \in DOMAIN config /\ config["SUPL_MODE"] # mGpsConf["SUPL_MODE"]
              THEN broadcastCapabilities(config["SUPL_MODE"])
              ELSE UNCHANGED mCapabilities
  /\ mRequestQueues' = [mRequestQueues EXCEPT !["CONFIG"].requests = Tail(@)]
  /\ UNCHANGED <<hidlVars, mEnabled, mConfig, mSessionId, powerVoteId>>

requestCapabilities ==
  /\ Receive("RequestCapabilities")
  /\ mCapabilities' = <<mGpsConf["SUPL_MODE"]>>
  /\ UNCHANGED <<hidlVars, mEnabled, mConfig, mRequestQueues, mSessionId, confVars>>

enable ==
  /\ Receive("Enable")
  /\ IF powerVoteId > 0
       THEN UNCHANGED <<powerVoteId, modem, refused>>
       ELSE powerVoteId' = Head(msgQ).id /\ Tell(Only("GPS_LOCK", "NONE"))
  /\ mRequestQueues' = popBySession(Head(msgQ).id)
  /\ UNCHANGED <<hidlVars, mEnabled, mConfig, mCapabilities, mSessionId, mGpsConf, mServerUrl>>

(* Mutant: the vote is given up, and the engine not locked again. *)
DropVoteOnly == powerVoteId' = 0 /\ UNCHANGED <<modem, refused>>

DropVote ==
  powerVoteId' = 0 /\ Tell(Only("GPS_LOCK", convertBack("GPS_LOCK", mGpsConf["GPS_LOCK"])))

(* Mutant: whoever disables drops the vote, and it is then asked for it. *)
disableOnce ==
  /\ Receive("Disable")
  /\ IF powerVoteId # Head(msgQ).id THEN UNCHANGED <<powerVoteId, modem, refused>> ELSE DropVote
  /\ UNCHANGED <<hidlVars, clientVars, mSessionId, mGpsConf, mServerUrl>>

disable ==
  /\ Receive("Disable")
  /\ IF powerVoteId # Head(msgQ).id THEN UNCHANGED <<powerVoteId, modem, refused>> ELSE DropVote
  /\ mRequestQueues' = popBySession(Head(msgQ).id)
  /\ UNCHANGED <<hidlVars, mEnabled, mConfig, mCapabilities, mSessionId, mGpsConf, mServerUrl>>

deleteAidingData ==
  /\ Receive("DeleteAidingData")
  /\ mRequestQueues' = popBySession(Head(msgQ).id)
  /\ UNCHANGED <<hidlVars, mEnabled, mConfig, mCapabilities, mSessionId, confVars>>

ControlInput ==
  \/ setCallback \/ cleanup \/ gnssDeleteAidingData \/ handleEngineUpEvent
  \/ \E s \in Settings : updateConfiguration(s[1], s[2])
ControlHandler ==
  setConfig \/ gnssUpdateConfig \/ requestCapabilities \/ enable \/ disable \/ deleteAidingData

-----------------------------------------------------------------------------
(* Properties *)

Queued(kinds) == {i \in DOMAIN msgQ : msgQ[i].msg \in kinds}

(* The engine is unlocked while a client votes for power, and has the lock *)
(* of the configuration otherwise, whatever the order of enable, disable   *)
(* and setGpsLock, unless the modem refused or was never told.             *)
LockFollowsVote ==
  "GPS_LOCK" \in DOMAIN modem /\ "GPS_LOCK" \notin refused =>
    modem["GPS_LOCK"] = IF powerVoteId > 0 THEN "NONE"
                        ELSE convertBack("GPS_LOCK", mGpsConf["GPS_LOCK"])

(* A modem that has been configured, be it after a restart, has the values *)
(* of mGps_conf for the items that are sent again: what a client changes   *)
(* while the modem is restarting is not lost, nor undone by the file.      *)
ConfigSurvivesRestart ==
  Queued({"SetConfig"}) = {} =>
    \A i \in Resent \ refused :
      mGpsConf["INJECT"] \/ i \in Lppe =>
        i \in DOMAIN modem /\ modem[i] = convertBack(i, mGpsConf[i])

(* What the framework wants is what mGps_conf says once the updates have   *)
(* been handled, also for what it set before there was a client.           *)
ConfigIsWanted ==
  mApi /\ Queued({"UpdateConfig"}) = {} =>
    \A i \in DOMAIN wanted \ {"SUPL_HOST"} :
      mGpsConf["INJECT"] \/ i \notin Injected => mGpsConf[i] = convert(i, wanted[i])

(* What is wanted reaches mGps_conf and, after every restart, the modem.   *)
ConfigKept == ConfigSurvivesRestart /\ ConfigIsWanted

(* The client's requests are those whose messages are still queued, in     *)
(* their order, so that every response finds its own; and once they are    *)
(* handled the adapter's vote is that of the client.                       *)
ControlInStep ==
  /\ \A q \in {"CONTROL", "DELETE"} :
       LET own == {i \in Queued({"Enable", "Disable", "DeleteAidingData"}) :
                     msgQ[i].id = mRequestQueues[q].session}
       IN  /\ Len(mRequestQueues[q].requests) = Cardinality(own)
           /\ EndsWith(mRequestQueues[q].requests, msgQ, own)
  /\ Len(mRequestQueues["CONFIG"].requests) = Cardinality(Queued({"UpdateConfig"}))
  /\ Queued({"Enable", "Disable"}) = {} => (powerVoteId > 0) = mEnabled

(* A client that has its capabilities knows the SUPL modes of the moment.  *)
CapabilitiesCurrent ==
  mCapabilities \in {<<>>, <<mGpsConf["SUPL_MODE"]>>}

(* Client and adapter agree about requests, vote and capabilities.         *)
ClientInStep == ControlInStep /\ CapabilitiesCurrent
=============================================================================
