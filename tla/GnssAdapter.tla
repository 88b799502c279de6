----------------------------- MODULE GnssAdapter ----------------------------
(***************************************************************************)
(* The tracking sessions of gps/gnss/GnssAdapter.cpp. The modem runs one   *)
(* session of fixes at one interval; the adapter multiplexes the sessions  *)
(* of all its clients onto it. Every command of a client is a message to   *)
(* the adapter's task, which handles one after the other; the modem may    *)
(* refuse what it is asked for, and may restart at any time.               *)
(*                                                                         *)
(* No ULP library is present: UlpProxyBase declines every call. Options    *)
(* are reduced to minInterval, by which alone sessions are compared. The   *)
(* configuration sent to a restarted modem, and the end of the ODCPI       *)
(* session there, touch nothing of this.                                   *)
(***************************************************************************)
EXTENDS Integers, Sequences, Queue

CONSTANTS
  Client,        \* the LocationAPI objects
  Interval,      \* the intervals clients ask for
  MaxSession,    \* bound on the session ids, the first of which is 2
  MaxInFlight,   \* bound on the messages queued, for new input
  MaxDown        \* bound on the restarts of the modem

ASSUME AdapterAssumption ==
  /\ Interval \subseteq Nat \ {0}
  /\ MaxSession \in Nat \ {0} /\ MaxInFlight \in Nat /\ MaxDown \in Nat

VARIABLES
  mSessionIdCounter,   \* the last session id given out
  msgQ,                \* the queue of the message task
  mClientData,         \* the clients with their callbacks
  mTrackingSessions,
  removing,            \* the client that is being removed, as a set of at most one
  toStop,              \* those of its sessions the loop has yet to visit
  engine,              \* the interval the modem runs at, 0 if it does not
  up,                  \* is the modem up?
  downs,               \* times it went down
  restartFailed        \* was the last restart of the sessions refused?

Id == 2..MaxSession
Session == [client : Client, id : Id, minInterval : Interval]

sessionVars == <<mTrackingSessions, engine, restartFailed>>
modemVars == <<up, downs>>
loopVars == <<removing, toStop>>
adapterVars == <<mSessionIdCounter, msgQ, mClientData, sessionVars, loopVars, modemVars>>

Msg == [msg : {"AddClient", "RemoveClient"}, client : Client]
         \cup [msg : {"StartTracking", "UpdateTracking"}, client : Client, id : Id,
               minInterval : Interval]
         \cup [msg : {"StopTracking"}, client : Client, id : Id]
         \cup [msg : {"RestartSessions"}]

AdapterTypeOK ==
  /\ mSessionIdCounter \in 1..MaxSession
  /\ msgQ \in Seq(Msg)
  /\ mClientData \subseteq Client
  /\ mTrackingSessions \subseteq Session
  /\ removing \subseteq Client
  /\ toStop \subseteq mTrackingSessions
  /\ removing = {} => toStop = {}
  /\ engine \in Interval \cup {0}
  /\ up \in BOOLEAN
  /\ downs \in 0..MaxDown
  /\ restartFailed \in BOOLEAN

AdapterInit ==
  /\ mSessionIdCounter = 1
  /\ msgQ = <<>>
  /\ mClientData = {}
  /\ mTrackingSessions = {}
  /\ removing = {}
  /\ toStop = {}
  /\ engine = 0
  /\ up = TRUE
  /\ downs = 0
  /\ restartFailed = FALSE

-----------------------------------------------------------------------------
(* The modem *)

(* startFix and stopFix: a modem that is down refuses, one that is up may. *)
Answers == IF up THEN {TRUE, FALSE} ELSE {FALSE}

startTracking(interval, ok) ==
  IF ok THEN engine' = interval /\ restartFailed' = FALSE
        ELSE UNCHANGED <<engine, restartFailed>>

stopTracking(ok) ==
  IF ok THEN engine' = 0 /\ restartFailed' = FALSE
        ELSE UNCHANGED <<engine, restartFailed>>

NoCall == UNCHANGED <<engine, restartFailed>>

-----------------------------------------------------------------------------
(* The multiplexing *)

(* "smallestIntervalOptions" of a set of sessions *)
IsSmallest(S, i) == (\E s \in S : s.minInterval = i) /\ \A s \in S : i <= s.minInterval

(* Is interval i smaller than that of every session in S? *)
Below(i, S) == \A s \in S : i < s.minInterval

Others(s) == mTrackingSessions \ {s}

startTrackingMultiplex(i, ok) ==
  IF Below(i, mTrackingSessions) THEN startTracking(i, ok) ELSE NoCall

startSmallest(S, ok) == \E i \in Interval : IsSmallest(S, i) /\ startTracking(i, ok)

(* Mutant: the next smallest interval is not started. *)
stopTrackingMultiplexLazy(s, ok) == IF Others(s) = {} THEN stopTracking(ok) ELSE NoCall

stopTrackingMultiplex(s, ok) ==
  IF Others(s) = {} THEN stopTracking(ok)
  ELSE IF Below(s.minInterval, Others(s)) THEN startSmallest(Others(s), ok)
  ELSE NoCall

updateTrackingMultiplex(s, i, ok) ==
  IF Below(i, Others(s)) THEN startTracking(i, ok)
  ELSE IF Below(s.minInterval, Others(s)) THEN startSmallest(Others(s), ok)
  ELSE NoCall

(* Is the modem asked for something when session s is stopped, or updated? *)
StopCalls(s) == Below(s.minInterval, Others(s))
UpdateCalls(s, i) == Below(i, Others(s)) \/ Below(s.minInterval, Others(s))

-----------------------------------------------------------------------------
(* The handlers of the messages *)

Receive(kind) ==
  /\ removing = {}
  /\ msgQ # <<>>
  /\ Head(msgQ).msg = kind
  /\ msgQ' = Tail(msgQ)
  /\ UNCHANGED <<mSessionIdCounter, modemVars>>

(* The sessions of a client with an id: one or none *)
Sessions(c, id) == {s \in mTrackingSessions : s.client = c /\ s.id = id}

MsgAddClient(c) ==
  /\ Receive("AddClient")
  /\ Head(msgQ).client = c
  /\ mClientData' = mClientData \cup {c}
  /\ UNCHANGED <<sessionVars, loopVars>>

(* The options of a start or an update may be invalid, or the client have   *)
(* no callback for positions: refused before the modem is asked.           *)
MsgStartTracking(c, id, err) ==
  /\ Receive("StartTracking")
  /\ Head(msgQ).client = c /\ Head(msgQ).id = id
  /\ \/ err /\ UNCHANGED sessionVars
     \/ /\ c \in mClientData
        /\ \E ok \in Answers :
              LET i == Head(msgQ).minInterval
              IN  /\ startTrackingMultiplex(i, ok)
                  /\ err = (Below(i, mTrackingSessions) /\ ~ok)
                  /\ mTrackingSessions' =
                       IF err THEN mTrackingSessions
                       ELSE mTrackingSessions \cup {[client |-> c, id |-> id, minInterval |-> i]}
  /\ UNCHANGED <<mClientData, loopVars>>

MsgUpdateTracking(c, id, err) ==
  /\ Receive("UpdateTracking")
  /\ Head(msgQ).client = c /\ Head(msgQ).id = id
  /\ \E s \in Sessions(c, id), ok \in Answers :
       \/ err /\ UNCHANGED sessionVars
       \/ LET i == Head(msgQ).minInterval
          IN  /\ updateTrackingMultiplex(s, i, ok)
              /\ err = (UpdateCalls(s, i) /\ ~ok)
              /\ mTrackingSessions' =
                   IF err THEN mTrackingSessions
                   ELSE (mTrackingSessions \ {s}) \cup
                          {[client |-> c, id |-> id, minInterval |-> i]}
  /\ UNCHANGED <<mClientData, loopVars>>

MsgStopTracking(c, id, err) ==
  /\ Receive("StopTracking")
  /\ Head(msgQ).client = c /\ Head(msgQ).id = id
  /\ \E s \in Sessions(c, id), ok \in Answers :
       /\ stopTrackingMultiplex(s, ok)
       /\ err = (StopCalls(s) /\ ~ok)
       /\ mTrackingSessions' = IF err THEN mTrackingSessions ELSE mTrackingSessions \ {s}
  /\ UNCHANGED <<mClientData, loopVars>>

(* An update or a stop of a session there is not gets no response. *)
MsgUnknownSession ==
  /\ Receive("UpdateTracking") \/ Receive("StopTracking")
  /\ Sessions(Head(msgQ).client, Head(msgQ).id) = {}
  /\ UNCHANGED <<mClientData, sessionVars, loopVars>>

(* stopClientSessions: the loop over the client's sessions, in the order   *)
(* of their ids, and eraseClient after it.                                 *)
MsgRemoveClient(c) ==
  /\ Receive("RemoveClient")
  /\ Head(msgQ).client = c
  /\ removing' = {c}
  /\ toStop' = {s \in mTrackingSessions : s.client = c}
  /\ UNCHANGED <<mClientData, sessionVars>>

(* Mutant: the loop goes on from the session it has erased. *)
stopClientSessionAgain(s, err) ==
  /\ s \in toStop
  /\ \E ok \in Answers :
       /\ stopTrackingMultiplex(s, ok)
       /\ err = (StopCalls(s) /\ ~ok)
       /\ mTrackingSessions' = IF err THEN mTrackingSessions ELSE mTrackingSessions \ {s}
  /\ UNCHANGED <<mSessionIdCounter, msgQ, mClientData, loopVars, modemVars>>

stopClientSession(s, err) ==
  /\ s \in toStop
  /\ \A t \in toStop : s.id <= t.id
  /\ toStop' = toStop \ {s}
  /\ \E ok \in Answers :
       /\ stopTrackingMultiplex(s, ok)
       /\ err = (StopCalls(s) /\ ~ok)
       /\ mTrackingSessions' = IF err THEN mTrackingSessions ELSE mTrackingSessions \ {s}
  /\ UNCHANGED <<mSessionIdCounter, msgQ, mClientData, removing, modemVars>>

(* Mutant: a client stays as long as it has a session. *)
eraseClientKeeps(c) ==
  /\ c \in removing
  /\ toStop = {}
  /\ mClientData' = mClientData \ {d \in {c} : \A s \in mTrackingSessions : s.client # d}
  /\ removing' = {}
  /\ UNCHANGED <<mSessionIdCounter, msgQ, sessionVars, toStop, modemVars>>

eraseClient(c) ==
  /\ c \in removing
  /\ toStop = {}
  /\ mClientData' = mClientData \ {c}
  /\ removing' = {}
  /\ UNCHANGED <<mSessionIdCounter, msgQ, sessionVars, toStop, modemVars>>

MsgRestartSessions ==
  /\ Receive("RestartSessions")
  /\ IF mTrackingSessions = {}
       THEN NoCall
       ELSE \E ok \in Answers :
              /\ \E i \in Interval :
                   IsSmallest(mTrackingSessions, i) /\ engine' = IF ok THEN i ELSE engine
              /\ restartFailed' = ~ok
  /\ UNCHANGED <<mTrackingSessions, mClientData, loopVars>>

-----------------------------------------------------------------------------
(* The modem restarts: its session is gone, and when it is back the        *)
(* adapter is told, by handleEngineUpEvent.                                *)
EngineDown ==
  /\ up /\ downs < MaxDown
  /\ up' = FALSE
  /\ downs' = downs + 1
  /\ engine' = 0
  /\ UNCHANGED <<mSessionIdCounter, msgQ, mClientData, mTrackingSessions, restartFailed, loopVars>>

handleEngineUpEvent ==
  /\ ~up
  /\ up' = TRUE
  /\ msgQ' = Append(msgQ, [msg |-> "RestartSessions"])
  /\ UNCHANGED <<mSessionIdCounter, mClientData, sessionVars, loopVars, downs>>

-----------------------------------------------------------------------------
(* Properties *)

Has(m) == IsIn(m, msgQ)

(* "get the LocationOptions that has the smallest interval, which should   *)
(* be the active one" (startTrackingMultiplex): whatever sessions come,    *)
(* change and go, and whatever the modem refuses, it runs at the smallest  *)
(* interval of the sessions there are; it stands still only if there are   *)
(* none, or after it went down, until the restart, which it may refuse.    *)
EngineAtSmallest ==
  /\ engine # 0 => IsSmallest(mTrackingSessions, engine)
  /\ engine = 0 => \/ mTrackingSessions = {}
                   \/ ~up \/ restartFailed
                   \/ Has([msg |-> "RestartSessions"])
=============================================================================
