--------------------------- MODULE ModemRequests ----------------------------
(***************************************************************************)
(* The adapter's message task with what the modem, the framework and the   *)
(* user ask of it beside tracking: network initiated requests (GnssNi), on *)
(* demand positions (Odcpi), power and configuration (GnssControl). They   *)
(* share the queue. A restart of the modem configures it anew and ends     *)
(* the ODCPI request.                                                      *)
(***************************************************************************)
EXTENDS GnssNi, Odcpi, GnssControl

VARIABLE source   \* whose inputs come: "ni", or "control" (with ODCPI)

vars == <<taskVars, niVars, odcpiVars, controlVars, source>>

Init ==
  /\ source \in {"ni", "control"}
  /\ inputs = 0 /\ handling = <<>>
  /\ msgQ = <<[msg |-> "SetConfig"]>>
  /\ NiInit /\ OdcpiInit /\ ControlInit

(* restartSessions; Tracking models what becomes of the tracking sessions  *)
restartSessions ==
  /\ Receive("RestartSessions")
  /\ mOdcpiRequestActive' = FALSE
  /\ UNCHANGED <<niVars, mOdcpiRequestCb, mOdcpiRequest, mActive, timerRuns, expired, controlVars>>

Handler ==
  \/ NiHandler /\ UNCHANGED <<odcpiVars, controlVars>>
  \/ OdcpiHandler /\ UNCHANGED <<niVars, controlVars>>
  \/ ControlHandler /\ UNCHANGED <<niVars, odcpiVars>>
  \/ restartSessions

NiThread_(r) == NiThreadStep(r) /\ UNCHANGED <<odcpiVars, controlVars>>

Next ==
  /\ \/ source = "ni" /\ NiInput /\ UNCHANGED <<odcpiVars, controlVars>>
     \/ source = "control" /\ OdcpiInput /\ UNCHANGED <<niVars, controlVars>>
     \/ source = "control" /\ ControlInput /\ UNCHANGED <<niVars, odcpiVars>>
     \/ odcpiTimerExpireEvent /\ UNCHANGED <<niVars, controlVars>>
     \/ Handler
     \/ \E r \in ReqID : NiThread_(r)
  /\ UNCHANGED source

(* The message task and the NI threads are threads of a running process.   *)
Fairness ==
  /\ WF_vars(Handler /\ UNCHANGED source)
  /\ \A r \in ReqID : WF_vars(NiThread_(r) /\ UNCHANGED source)

Spec == Init /\ [][Next]_vars /\ Fairness
=============================================================================
