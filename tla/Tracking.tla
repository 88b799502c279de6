------------------------------ MODULE Tracking ------------------------------
(***************************************************************************)
(* The clients of the tracking sessions: LocationAPIClientBase of          *)
(* gps/location, with the LocationAPI object each owns. A client has at    *)
(* most one session it calls its own and a queue of the requests that wait *)
(* for a response; commands run on the client's threads under its mMutex,  *)
(* the responses on the adapter's task, which takes the same mutex.        *)
(***************************************************************************)
EXTENDS GnssAdapter

CONSTANT MaxRequests   \* bound on the requests a client has waiting: those of a
                       \* session there is not are never answered

VARIABLES
  alive,      \* of a client: "new", "live" or "dead" (destroyed)
  mTracking,
  mSession,   \* the session of mRequestQueues[REQUEST_TRACKING], 0 if none
  mQueue,     \* its requests that wait for a response
  starting,   \* the session a client is about to note, its mMutex held, or 0
  refused,    \* the sessions whose stop the modem refused
  crashed     \* has a callback on a destroyed client ended the process?

clientVars == <<alive, mTracking, mSession, mQueue, starting>>
vars == <<adapterVars, clientVars, refused, crashed>>

Request == {"StartTracking", "UpdateTracking", "StopTracking"}

TypeOK ==
  /\ AdapterTypeOK
  /\ alive \in [Client -> {"new", "live", "dead"}]
  /\ mTracking \in [Client -> BOOLEAN]
  /\ mSession \in [Client -> Id \cup {0}]
  /\ mQueue \in [Client -> Seq(Request)]
  /\ starting \in [Client -> Id \cup {0}]
  /\ refused \subseteq Id
  /\ crashed \in BOOLEAN

Init ==
  /\ AdapterInit
  /\ alive = [c \in Client |-> "new"]
  /\ mTracking = [c \in Client |-> FALSE]
  /\ mSession = [c \in Client |-> 0]
  /\ mQueue = [c \in Client |-> <<>>]
  /\ starting = [c \in Client |-> 0]
  /\ refused = {}
  /\ crashed = FALSE

-----------------------------------------------------------------------------
(* The commands of a client *)

sendMsg(m) ==
  /\ Len(msgQ) < MaxInFlight
  /\ msgQ' = Append(msgQ, m)
  /\ UNCHANGED <<mClientData, sessionVars, loopVars, modemVars, refused, crashed>>

(* LocationAPI under its global mutex: what it tells the adapter *)
createInstance(c) == sendMsg([msg |-> "AddClient", client |-> c])
removeClient(c) == sendMsg([msg |-> "RemoveClient", client |-> c])
startTrackingOf(c, i) ==
  /\ mSessionIdCounter < MaxSession
  /\ mSessionIdCounter' = mSessionIdCounter + 1
  /\ sendMsg([msg |-> "StartTracking", client |-> c, id |-> mSessionIdCounter',
              minInterval |-> i])
stopTrackingOf(c, id) == sendMsg([msg |-> "StopTracking", client |-> c, id |-> id])
updateTrackingOptions(c, id, i) ==
  sendMsg([msg |-> "UpdateTracking", client |-> c, id |-> id, minInterval |-> i])

(* A live client whose mMutex is free *)
Locks(c) == alive[c] = "live" /\ starting[c] = 0

(* The first call creates the LocationAPI object, later ones replace the   *)
(* callbacks.                                                              *)
locAPISetCallbacks(c) ==
  /\ alive[c] # "dead" /\ starting[c] = 0
  /\ createInstance(c)
  /\ alive' = [alive EXCEPT ![c] = "live"]
  /\ UNCHANGED <<mSessionIdCounter, mTracking, mSession, mQueue, starting>>

(* The message is on its way before the request is in the queue, with the  *)
(* mutex held in between.                                                  *)
locAPIStartTracking(c, i) ==
  /\ Locks(c)
  /\ ~mTracking[c]
  /\ startTrackingOf(c, i)
  /\ starting' = [starting EXCEPT ![c] = mSessionIdCounter']
  /\ UNCHANGED <<alive, mTracking, mSession, mQueue>>

(* Mutant: the queue is not reset. *)
noteSessionPush(c) ==
  /\ starting[c] # 0
  /\ mSession' = [mSession EXCEPT ![c] = starting[c]]
  /\ mQueue' = [mQueue EXCEPT ![c] = Append(@, "StartTracking")]
  /\ mTracking' = [mTracking EXCEPT ![c] = TRUE]
  /\ starting' = [starting EXCEPT ![c] = 0]
  /\ UNCHANGED <<adapterVars, alive, refused, crashed>>

noteSession(c) ==
  /\ starting[c] # 0
  /\ mSession' = [mSession EXCEPT ![c] = starting[c]]
  /\ mQueue' = [mQueue EXCEPT ![c] = <<"StartTracking">>]
  /\ mTracking' = [mTracking EXCEPT ![c] = TRUE]
  /\ starting' = [starting EXCEPT ![c] = 0]
  /\ UNCHANGED <<adapterVars, alive, refused, crashed>>

locAPIUpdateTrackingOptions(c, i) ==
  /\ Locks(c)
  /\ mSession[c] > 0
  /\ Len(mQueue[c]) < MaxRequests
  /\ mQueue' = [mQueue EXCEPT ![c] = Append(@, "UpdateTracking")]
  /\ updateTrackingOptions(c, mSession[c], i)
  /\ UNCHANGED <<mSessionIdCounter, alive, mTracking, mSession, starting>>

locAPIStopTracking(c) ==
  /\ Locks(c)
  /\ mSession[c] > 0
  /\ Len(mQueue[c]) < MaxRequests
  /\ mQueue' = [mQueue EXCEPT ![c] = Append(@, "StopTracking")]
  /\ stopTrackingOf(c, mSession[c])
  /\ mTracking' = [mTracking EXCEPT ![c] = FALSE]
  /\ UNCHANGED <<mSessionIdCounter, alive, mSession, starting>>

(* The destructor *)
destroy(c) ==
  /\ Locks(c)
  /\ removeClient(c)
  /\ mSession' = [mSession EXCEPT ![c] = 0]
  /\ mQueue' = [mQueue EXCEPT ![c] = <<>>]
  /\ alive' = [alive EXCEPT ![c] = "dead"]
  /\ UNCHANGED <<mSessionIdCounter, mTracking, starting>>

-----------------------------------------------------------------------------
(* The responses *)

(* getRequestBySession: the oldest request, if it is the client's session  *)
getRequestBySession(c, id) ==
  mQueue' = IF mSession[c] = id /\ mQueue[c] # <<>>
              THEN [mQueue EXCEPT ![c] = Tail(@)]
              ELSE mQueue

(* The callback captured the client: on a destroyed one it is undefined    *)
(* what happens, and the adapter knows nothing of it until MsgRemoveClient.*)
reportResponse(c, id) ==
  /\ starting[c] = 0
  /\ IF alive[c] = "live"
       THEN getRequestBySession(c, id) /\ UNCHANGED crashed
       ELSE crashed' \in BOOLEAN /\ UNCHANGED mQueue
  /\ UNCHANGED <<alive, mTracking, mSession, starting>>

Respond(c, id) ==
  \/ \E err \in BOOLEAN : MsgStartTracking(c, id, err) /\ UNCHANGED refused
  \/ \E err \in BOOLEAN : MsgUpdateTracking(c, id, err) /\ UNCHANGED refused
  \/ \E err \in BOOLEAN :
       /\ MsgStopTracking(c, id, err)
       /\ refused' = IF err THEN refused \cup {id} ELSE refused

Silent ==
  \/ \E c \in Client : MsgAddClient(c) \/ MsgRemoveClient(c) \/ eraseClient(c)
  \/ MsgUnknownSession
  \/ MsgRestartSessions

(* A step of the adapter's task *)
TaskStep ==
  \/ \E c \in Client, id \in Id : Respond(c, id) /\ reportResponse(c, id)
  \/ \E s \in toStop, err \in BOOLEAN :
       /\ stopClientSession(s, err)
       /\ refused' = IF err THEN refused \cup {s.id} ELSE refused
       /\ UNCHANGED <<clientVars, crashed>>
  \/ Silent /\ UNCHANGED <<clientVars, refused, crashed>>

ClientStep ==
  \E c \in Client :
    \/ locAPISetCallbacks(c)
    \/ noteSession(c)
    \/ locAPIStopTracking(c)
    \/ destroy(c)
    \/ \E i \in Interval : locAPIStartTracking(c, i) \/ locAPIUpdateTrackingOptions(c, i)

ModemStep ==
  (EngineDown \/ handleEngineUpEvent) /\ UNCHANGED <<clientVars, refused, crashed>>

Next == ~crashed /\ (TaskStep \/ ClientStep \/ ModemStep)

(* The task's thread runs, and a thread that holds a mutex goes on.        *)
Fairness ==
  /\ WF_vars(~crashed /\ TaskStep)
  /\ \A c \in Client : WF_vars(~crashed /\ noteSession(c))

Spec == Init /\ [][Next]_vars /\ Fairness

-----------------------------------------------------------------------------
(* Properties *)

(* Where the requests of client c's session are that the adapter has yet   *)
(* to handle                                                               *)
IsPending(c, m) == m.msg \in Request /\ m.client = c /\ m.id = mSession[c]
Pending(c) == {i \in 1..Len(msgQ) : IsPending(c, msgQ[i])}

(* The adapter can still respond on client c's session.                    *)
Answerable(c) ==
  \/ Sessions(c, mSession[c]) # {}
  \/ \E i \in Pending(c) : msgQ[i].msg = "StartTracking"

(* A response names only the session, and the client takes the oldest      *)
(* request for the one it answers. As long as a response may come, the     *)
(* requests that wait are those the adapter has yet to handle, in the same *)
(* order; requests that were never answered can only be in front of them   *)
(* once no response will come any more.                                    *)
RequestsInStep ==
  \A c \in Client :
    alive[c] = "live" /\ starting[c] = 0 /\ mSession[c] # 0 =>
      /\ EndsWith(mQueue[c], msgQ, Pending(c))
      /\ Answerable(c) => Len(mQueue[c]) = Cardinality(Pending(c))

(* No session runs that nobody will stop: a session of the adapter is the  *)
(* one its client is tracking with, or on its way out, or the modem has    *)
(* refused to stop it.                                                     *)
SessionsWanted ==
  \A s \in mTrackingSessions :
    \/ s.id = starting[s.client]
    \/ alive[s.client] = "live" /\ mTracking[s.client] /\ mSession[s.client] = s.id
    \/ Has([msg |-> "StopTracking", client |-> s.client, id |-> s.id])
    \/ Has([msg |-> "RemoveClient", client |-> s.client])
    \/ s \in toStop
    \/ s.id \in refused

(* Clients and adapter agree about requests and sessions.                  *)
SessionsInStep == RequestsInStep /\ SessionsWanted

(* A client that was destroyed is forgotten, with its sessions, but for    *)
(* those the modem refuses to stop, unless a callback to it comes first    *)
(* and ends the process.                                                   *)
DestroyedForgotten ==
  \A c \in Client :
    alive[c] = "dead" ~> \/ crashed
                        \/ /\ c \notin mClientData
                           /\ \A s \in mTrackingSessions : s.client = c => s.id \in refused
=============================================================================
