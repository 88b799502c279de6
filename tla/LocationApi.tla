---------------------------- MODULE LocationApi -----------------------------
(***************************************************************************)
(* LocationAPI: which of the interfaces (GNSS, FLP, geofence) serves which *)
(* client. An interface is a library that is loaded when the first client  *)
(* needs it, once; a client is registered at every loaded interface that   *)
(* its callbacks need, may add callbacks later, and is taken out of the    *)
(* interfaces its last callbacks name when it is destroyed. Every          *)
(* operation holds gDataMutex.                                             *)
(***************************************************************************)
EXTENDS Integers, FiniteSets

CONSTANTS
  Clients,        \* the API clients of the HIDL service
  Offers,         \* client -> the sets of callbacks it may set; it only adds to them
  MaxApiCalls     \* bound on the calls

Interfaces == {"gnss", "flp", "geofence"}

ASSUME OffersAssumption ==
  /\ Offers \in [Clients -> SUBSET SUBSET {"tracking", "sv", "ni", "measurements",
                                           "batching", "geofence"}]
  /\ MaxApiCalls \in Nat

VARIABLES
  apiCalls,     \* calls so far
  interface,    \* "unloaded", "loaded" or "failed"
  clientData,   \* the callbacks of a client; {"none"}: the client does not exist
  registered,   \* interface -> the clients it serves
  apiSessions   \* sessions that were started: [client, kind, at]

apiVars == <<interface, clientData, registered, apiSessions>>

NoClient == {"none"}
Alive(c) == clientData[c] # NoClient

ApiInit ==
  /\ interface = [i \in Interfaces |-> "unloaded"]
  /\ clientData = [c \in Clients |-> NoClient]
  /\ registered = [i \in Interfaces |-> {}]
  /\ apiSessions = {}

ApiStep == apiCalls < MaxApiCalls /\ apiCalls' = apiCalls + 1

(* isGnssClient, isFlpClient, isGeofenceClient, needsGnssTrackingInfo      *)
needs(i, cbs) ==
  cbs \intersect (CASE i = "gnss" -> {"ni", "tracking", "measurements"}
                    [] i = "flp" -> {"tracking", "batching"}
                    [] i = "geofence" -> {"geofence"}) # {}
needsGnssTrackingInfo(cbs) == cbs \intersect {"sv", "measurements"} # {}

(* loadLocationInterface for the interfaces of a client: a library that is *)
(* missing is not looked for again                                         *)
load(cbs) ==
  interface' \in {ld \in [Interfaces -> {"unloaded", "loaded", "failed"}] :
                   \A i \in Interfaces :
                     IF needs(i, cbs) /\ interface[i] = "unloaded"
                     THEN ld[i] # "unloaded" ELSE ld[i] = interface[i]}

(* addClient at the interfaces that are loaded                             *)
addClient(c, cbs) ==
  registered' = [i \in Interfaces |->
                   IF needs(i, cbs) /\ interface'[i] = "loaded"
                   THEN registered[i] \union {c} ELSE registered[i]]

(* createInstance, or updateCallbacks of a client that exists              *)
setCallbacks(c, cbs) ==
  /\ ApiStep
  /\ Alive(c) => clientData[c] \subseteq cbs
  /\ load(cbs)
  /\ addClient(c, cbs)
  /\ clientData' = [clientData EXCEPT ![c] = cbs]
  /\ UNCHANGED apiSessions

(* Mutant: the client is taken out of one interface only                   *)
destroyFirst(c) ==
  LET at == {i \in Interfaces : needs(i, clientData[c]) /\ interface[i] = "loaded"}
      one == IF "flp" \in at THEN {"flp"} ELSE at
  IN
  /\ ApiStep
  /\ Alive(c)
  /\ registered' = [i \in Interfaces |-> IF i \in one THEN registered[i] \ {c} ELSE registered[i]]
  /\ apiSessions' = {s \in apiSessions : s.client # c \/ s.at \notin one}
  /\ clientData' = [clientData EXCEPT ![c] = NoClient]
  /\ UNCHANGED interface

(* The destructor: removeClient at the interfaces, which end the client's  *)
(* sessions there                                                          *)
destroy(c) ==
  LET at == {i \in Interfaces : needs(i, clientData[c]) /\ interface[i] = "loaded"} IN
  /\ ApiStep
  /\ Alive(c)
  /\ registered' = [i \in Interfaces |-> IF i \in at THEN registered[i] \ {c} ELSE registered[i]]
  /\ apiSessions' = {s \in apiSessions : s.client # c \/ s.at \notin at}
  /\ clientData' = [clientData EXCEPT ![c] = NoClient]
  /\ UNCHANGED interface

(* Which interface tracks for a client: the FLP for a distance, or for a   *)
(* client that wants positions only; else the GNSS. "none": neither is     *)
(* there, and the session number is 0.                                     *)
tracksAt(c, distance) ==
  LET gnss == interface["gnss"] = "loaded" IN
  IF interface["flp"] = "loaded" /\ (distance \/ ~(gnss /\ needsGnssTrackingInfo(clientData[c])))
    THEN "flp"
    ELSE IF gnss THEN "gnss" ELSE "none"

Session(c, kind, at) == [client |-> c, kind |-> kind, at |-> at]

(* The HIDL services ask for no distance; a client has one tracking        *)
(* session (mTracking)                                                     *)
startTracking(c) ==
  /\ ApiStep
  /\ clientData[c] \intersect {"tracking", "measurements"} # {}
  /\ \A s \in apiSessions : s.client = c => s.kind # "tracking"
  /\ tracksAt(c, FALSE) # "none"
  /\ apiSessions' = apiSessions \union {Session(c, "tracking", tracksAt(c, FALSE))}
  /\ UNCHANGED <<interface, clientData, registered>>

(* stopTracking asks both interfaces: the wrong one does not know the      *)
(* session and stays silent                                                *)
stopTracking(c) ==
  /\ ApiStep
  /\ \E s \in apiSessions : s.client = c /\ s.kind = "tracking"
  /\ apiSessions' = {s \in apiSessions : ~(/\ s.client = c /\ s.kind = "tracking"
                                          /\ s.at \in {"gnss", "flp"}
                                          /\ interface[s.at] = "loaded")}
  /\ UNCHANGED <<interface, clientData, registered>>

startBatching(c) ==
  /\ ApiStep
  /\ "batching" \in clientData[c]
  /\ interface["flp"] = "loaded"
  /\ apiSessions' = apiSessions \union {Session(c, "batching", "flp")}
  /\ UNCHANGED <<interface, clientData, registered>>

stopBatching(c) ==
  /\ ApiStep
  /\ Session(c, "batching", "flp") \in apiSessions
  /\ apiSessions' = apiSessions \ {Session(c, "batching", "flp")}
  /\ UNCHANGED <<interface, clientData, registered>>

addGeofences(c) ==
  /\ ApiStep
  /\ "geofence" \in clientData[c]
  /\ interface["geofence"] = "loaded"
  /\ apiSessions' = apiSessions \union {Session(c, "fence", "geofence")}
  /\ UNCHANGED <<interface, clientData, registered>>

ApiNext ==
  \E c \in Clients :
    \/ \E cbs \in Offers[c] : setCallbacks(c, cbs)
    \/ destroy(c)
    \/ startTracking(c) \/ stopTracking(c)
    \/ startBatching(c) \/ stopBatching(c)
    \/ addGeofences(c)

-----------------------------------------------------------------------------
(* A client is known to exactly the loaded interfaces its callbacks need,  *)
(* in whatever order clients come, grow and go and whichever libraries are *)
(* missing: it hears of everything it asked for, and no interface keeps    *)
(* the callbacks of a client that was destroyed.                           *)
RegisteredWhereNeeded ==
  \A i \in Interfaces : interface[i] = "loaded" =>
    registered[i] = {c \in Clients : Alive(c) /\ needs(i, clientData[c])}

(* A session runs for a client that exists, at an interface that knows the *)
(* client and so ends the session with it. When the GNSS library is        *)
(* missing the measurement client tracks at the FLP, where it is not known *)
(* (startTracking does not ask whether it is).                             *)
SessionsBelong ==
  interface["gnss"] # "failed" =>
    \A s \in apiSessions : Alive(s.client) /\ s.client \in registered[s.at]

(* Clients and sessions are where the interface that serves them is.       *)
InterfacesServe == RegisteredWhereNeeded /\ SessionsBelong
=============================================================================
