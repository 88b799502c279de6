-------------------------- MODULE LocationServices --------------------------
(***************************************************************************)
(* The services around the sessions and the AGPS of GnssAdapter: the       *)
(* batching and the geofence client, the API that finds clients their      *)
(* interfaces, the array of adapters, the observer of the framework's data *)
(* items and what the engine reports. Each has its own state and lock; the *)
(* last three also have the message task, and no message of one of them    *)
(* reads the state of another. So a behaviour is that of one: `part`.      *)
(***************************************************************************)
EXTENDS LocationSessions, Geofences, LocationApi, OsObserver, LocApi, GnssReports

CONSTANT Parts   \* the parts whose behaviours an instance has

ASSUME PartsAssumption ==
  Parts \subseteq {"batching", "geofences", "api", "adapters", "observer", "reports"}

VARIABLE part

servicesVars == <<calls, sessionVars, fenceCalls, geofenceVars, apiCalls, apiVars>>

vars == <<part, taskVars, servicesVars, locApiVars, observerVars, reportsVars>>

Init ==
  /\ part \in Parts
  /\ msgQ = IF part = "observer" THEN ObserverMsgs ELSE <<>>
  /\ inputs = 0 /\ handling = <<>>
  /\ calls = 0 /\ fenceCalls = 0 /\ apiCalls = 0
  /\ SessionsInit /\ GeofencesInit /\ ApiInit
  /\ LocApiInit /\ (part # "adapters" => provider = "AP" /\ modem.up)
  /\ ObserverInit /\ ReportsInit

Next ==
  \/ /\ part = "batching" /\ SessionsNext
     /\ UNCHANGED <<part, taskVars, fenceCalls, geofenceVars, apiCalls, apiVars, locApiVars,
                    observerVars, reportsVars>>
  \/ /\ part = "geofences" /\ GeofencesNext
     /\ UNCHANGED <<part, taskVars, calls, sessionVars, apiCalls, apiVars, locApiVars,
                    observerVars, reportsVars>>
  \/ /\ part = "api" /\ ApiNext
     /\ UNCHANGED <<part, taskVars, calls, sessionVars, fenceCalls, geofenceVars, locApiVars,
                    observerVars, reportsVars>>
  \/ part = "adapters" /\ LocApiNext /\ UNCHANGED <<part, servicesVars, observerVars, reportsVars>>
  \/ part = "observer" /\ ObserverNext /\ UNCHANGED <<part, servicesVars, locApiVars, reportsVars>>
  \/ part = "reports" /\ ReportsNext /\ UNCHANGED <<part, servicesVars, locApiVars, observerVars>>

Spec == Init /\ [][Next]_vars
=============================================================================
