------------------------------- MODULE Odcpi --------------------------------
(***************************************************************************)
(* On demand coarse position injection in gps/gnss/GnssAdapter.cpp: the    *)
(* modem asks for a position of the framework, which the adapter asks at   *)
(* most once in the ten seconds of a timer while the request is active.    *)
(* The timer's thread posts its expiry as a message, which may be handled  *)
(* when the timer has been restarted meanwhile.                            *)
(***************************************************************************)
EXTENDS AdapterTask

CONSTANT MaxExpire   \* bound on the expiries of the timer

ASSUME ExpireAssumption == MaxExpire \in Nat

VARIABLES
  mOdcpiRequestCb,       \* is there a callback to the framework?
  mOdcpiRequestActive,
  mOdcpiRequest,         \* the last request: is it an emergency?
  mActive,               \* of OdcpiTimer
  timerRuns,             \* is its LocTimer running?
  expired                \* times it expired

odcpiVars == <<mOdcpiRequestCb, mOdcpiRequestActive, mOdcpiRequest, mActive, timerRuns, expired>>

OdcpiInit ==
  /\ mOdcpiRequestCb = FALSE /\ mOdcpiRequestActive = FALSE /\ mOdcpiRequest = FALSE
  /\ mActive = FALSE /\ timerRuns = FALSE
  /\ expired = 0

(* OdcpiTimer: start() does nothing to a LocTimer that runs; restart() is  *)
(* a stop() and a start().                                                 *)
timerStart == mActive' = TRUE /\ timerRuns' = TRUE
timerStop == mActive' = FALSE /\ timerRuns' = FALSE
timerUnchanged == UNCHANGED <<mActive, timerRuns>>

(* The inputs: the framework's callback, the modem's requests *)
initOdcpiCommand == Input([msg |-> "InitOdcpi"]) /\ UNCHANGED odcpiVars
reportOdcpiRequestEvent(start, emergency) ==
  Input([msg |-> "OdcpiRequest", start |-> start, emergency |-> emergency]) /\ UNCHANGED odcpiVars

(* timeOutCallback, on the timer's thread *)
odcpiTimerExpireEvent ==
  /\ timerRuns /\ expired < MaxExpire
  /\ timerRuns' = FALSE
  /\ expired' = expired + 1
  /\ Post([msg |-> "OdcpiTimerExpire"])
  /\ UNCHANGED <<mOdcpiRequestCb, mOdcpiRequestActive, mOdcpiRequest, mActive>>

initOdcpi ==
  /\ Receive("InitOdcpi")
  /\ mOdcpiRequestCb' = TRUE
  /\ UNCHANGED <<mOdcpiRequestActive, mOdcpiRequest, mActive, timerRuns, expired>>

(* A START the framework hears of now, or only when the timer expires *)
StartNow(emergency) ==
  \/ ~mOdcpiRequestActive /\ ~mActive
  \/ ~mOdcpiRequest /\ emergency

(* Mutant: the framework is asked, and the timer left as it is. *)
OdcpiStartNoTimer(emergency) ==
  /\ mOdcpiRequestActive' = TRUE
  /\ timerUnchanged
  /\ mOdcpiRequest' = emergency

OdcpiStart(emergency) ==
  /\ mOdcpiRequestActive' = TRUE
  /\ IF StartNow(emergency) THEN timerStart ELSE timerUnchanged
  /\ mOdcpiRequest' = emergency

OdcpiStop ==
  /\ mOdcpiRequestActive' = FALSE
  /\ timerUnchanged /\ UNCHANGED mOdcpiRequest

reportOdcpiRequest ==
  /\ Receive("OdcpiRequest")
  /\ IF mOdcpiRequestCb
       THEN IF Head(msgQ).start THEN OdcpiStart(Head(msgQ).emergency) ELSE OdcpiStop
       ELSE UNCHANGED <<mOdcpiRequestActive, mOdcpiRequest, mActive, timerRuns>>
  /\ UNCHANGED <<mOdcpiRequestCb, expired>>

odcpiTimerExpire ==
  /\ Receive("OdcpiTimerExpire")
  /\ IF mOdcpiRequestActive THEN timerStart ELSE timerStop
  /\ UNCHANGED <<mOdcpiRequestCb, mOdcpiRequestActive, mOdcpiRequest, expired>>

OdcpiInput ==
  \/ initOdcpiCommand
  \/ \E start, emergency \in BOOLEAN : reportOdcpiRequestEvent(start, emergency)
OdcpiHandler == initOdcpi \/ reportOdcpiRequest \/ odcpiTimerExpire

(* "if ODCPI request is still active after timer expires, request again":  *)
(* an active request is never left without what makes the framework be     *)
(* asked again, the timer running or its expiry under way; and as long as  *)
(* the timer counts as active, which holds back new requests, it will stop *)
(* doing so. This holds whatever stale expiry is handled after a restart.  *)
OdcpiServed ==
  /\ mOdcpiRequestActive => mActive
  /\ mActive => timerRuns \/ IsIn([msg |-> "OdcpiTimerExpire"], msgQ)
=============================================================================
