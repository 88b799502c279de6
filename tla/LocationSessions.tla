-------------------------- MODULE LocationSessions --------------------------
(***************************************************************************)
(* The batching sessions of LocationAPIClientBase. A client names its      *)
(* sessions by ids of its own; mSessionBiDict maps them to the session     *)
(* numbers of the FLP interface. One queue holds the requests of all       *)
(* sessions: a response pops the oldest one if its session is in the       *)
(* dictionary, and the kind of the popped request decides whether the      *)
(* session is forgotten. The callback thread is the FLP's: it changes the  *)
(* dictionary after it has released mMutex.                                *)
(***************************************************************************)
EXTENDS Integers, Sequences, FiniteSets

CONSTANTS
  Ids,        \* ids the client gives its sessions
  MaxCalls    \* bound on the calls of the framework

ASSUME CallAssumption == MaxCalls \in Nat

SessionModes == {"onFix", "onFull", "onTrip"}
Batching(m) == m # "onFix"

VARIABLES
  calls,            \* calls of the framework so far
  mSessionBiDict,   \* id -> [session, mode]; session 0: no such id
  sessionRequests,  \* mRequestQueues[REQUEST_SESSION]: [kind, session asked about]
  lastSession,      \* session numbers given out
  flpCommands,      \* what the FLP has still to do: [op, session, mode, requested]
  flpRunning,       \* sessions that run in the FLP
  flpTrips,         \* those of them that end with a trip
  answering,        \* popped request whose onResponse is still to run
  shifted           \* a response did not find the request that waits for it

sessionVars == <<mSessionBiDict, sessionRequests, lastSession, flpCommands,
                 flpRunning, flpTrips, answering, shifted>>

NoSession == [session |-> 0, mode |-> "onFix"]
NoAnswer == [kind |-> "none", session |-> 0, own |-> 0, error |-> FALSE]

SessionsInit ==
  /\ mSessionBiDict = [i \in Ids |-> NoSession]
  /\ sessionRequests = <<>> /\ flpCommands = <<>> /\ flpRunning = {} /\ flpTrips = {}
  /\ lastSession = 0 /\ answering = NoAnswer /\ shifted = FALSE

Call == calls < MaxCalls /\ calls' = calls + 1

hasId(i) == mSessionBiDict[i].session # 0
hasSession(s) == \E i \in Ids : mSessionBiDict[i].session = s
ForgetSession(s) ==
  mSessionBiDict' = [i \in Ids |-> IF mSessionBiDict[i].session = s THEN NoSession
                                                                    ELSE mSessionBiDict[i]]

Request(kind, s) == sessionRequests' = Append(sessionRequests, [kind |-> kind, session |-> s])
Cmd(op, s, m, requested) == [op |-> op, session |-> s, mode |-> m, requested |-> requested]

(* locAPIStartSession, under mMutex; an id that is in use is refused       *)
locAPIStartSession(i, m) ==
  /\ Call
  /\ ~hasId(i)
  /\ lastSession' = lastSession + 1
  /\ flpCommands' = Append(flpCommands, Cmd("start", lastSession', m, TRUE))
  /\ Request("start", lastSession')
  /\ mSessionBiDict' = [mSessionBiDict EXCEPT ![i] = [session |-> lastSession', mode |-> m]]
  /\ UNCHANGED <<flpRunning, flpTrips, answering, shifted>>

(* locAPIStopSession: the dictionary keeps the session until the FLP has   *)
(* confirmed that it stopped                                               *)
locAPIStopSession(i) ==
  LET s == mSessionBiDict[i].session IN
  /\ Call
  /\ hasId(i)
  /\ Request("stop", s)
  /\ flpCommands' = Append(flpCommands, Cmd("stop", s, mSessionBiDict[i].mode, TRUE))
  /\ UNCHANGED <<mSessionBiDict, lastSession, flpRunning, flpTrips, answering, shifted>>

(* locAPIUpdateSessionOptions. From tracking to batching or back the old   *)
(* session is stopped and a new one started, with one request for the two. *)
locAPIUpdateSessionOptions(i, m) ==
  LET s == mSessionBiDict[i].session
      switch == Batching(m) # Batching(mSessionBiDict[i].mode)
      session == IF switch THEN lastSession + 1 ELSE s
  IN
  /\ Call
  /\ hasId(i)
  /\ Request("update", session)
  /\ flpCommands' = flpCommands \o
       IF switch THEN <<Cmd("stop", s, m, FALSE), Cmd("start", session, m, TRUE)>>
                 ELSE <<Cmd("update", s, m, TRUE)>>
  /\ lastSession' = IF switch THEN session ELSE lastSession
  /\ mSessionBiDict' = [mSessionBiDict EXCEPT ![i] = [session |-> session, mode |-> m]]
  /\ UNCHANGED <<flpRunning, flpTrips, answering, shifted>>

(* locAPIGetBatchedLocations, also the flush of the HIDL service           *)
locAPIGetBatchedLocations(i) ==
  LET s == mSessionBiDict[i].session IN
  /\ Call
  /\ hasId(i) /\ Batching(mSessionBiDict[i].mode)
  /\ Request("get", s)
  /\ flpCommands' = Append(flpCommands, Cmd("get", s, mSessionBiDict[i].mode, TRUE))
  /\ UNCHANGED <<mSessionBiDict, lastSession, flpRunning, flpTrips, answering, shifted>>

(* The FLP (external) does the oldest command: it may refuse to start, and *)
(* answers an error for a session it does not have                         *)
FlpDoes(c, refuse) ==
  /\ c.op # "start" => refuse = (c.session \notin flpRunning)
  /\ flpRunning' = CASE c.op = "start" /\ ~refuse -> flpRunning \union {c.session}
                     [] c.op = "stop" -> flpRunning \ {c.session}
                     [] OTHER -> flpRunning
  /\ flpTrips' = flpRunning' \intersect
       CASE c.op \in {"start", "update"} /\ c.mode = "onTrip" -> flpTrips \union {c.session}
         [] c.op = "update" /\ c.mode # "onTrip" -> flpTrips \ {c.session}
         [] OTHER -> flpTrips

(* Mutant: the request is taken without asking whose response this is      *)
getRequestOldest(s, error) ==
  LET pops == sessionRequests # <<>> IN
  /\ answering' = IF pops THEN [kind |-> Head(sessionRequests).kind, session |-> s,
                                own |-> Head(sessionRequests).session, error |-> error]
                  ELSE NoAnswer
  /\ sessionRequests' = IF pops THEN Tail(sessionRequests) ELSE sessionRequests

(* getRequestBySession: under mMutex, the oldest request, whatever its     *)
(* session, if the session of the response is in the dictionary            *)
getRequestBySession(s, error) ==
  LET pops == hasSession(s) /\ sessionRequests # <<>> IN
  /\ answering' = IF pops THEN [kind |-> Head(sessionRequests).kind, session |-> s,
                                own |-> Head(sessionRequests).session, error |-> error]
                  ELSE NoAnswer
  /\ sessionRequests' = IF pops THEN Tail(sessionRequests) ELSE sessionRequests

(* The FLP's thread does a command and enters onResponseCb. A response     *)
(* whose session the client has given up meanwhile leaves its request in   *)
(* the queue: from then on every response pops an older one (shifted).     *)
onResponseCb ==
  /\ answering = NoAnswer
  /\ flpCommands # <<>>
  /\ flpCommands' = Tail(flpCommands)
  /\ \E refuse \in BOOLEAN :
       /\ FlpDoes(Head(flpCommands), refuse)
       /\ getRequestBySession(Head(flpCommands).session, refuse)
  /\ shifted' = (shifted \/ (Head(flpCommands).requested /\ ~hasSession(Head(flpCommands).session)))
  /\ UNCHANGED <<calls, mSessionBiDict, lastSession>>

(* Mutant: the answer to an update forgets the session, as that of a stop  *)
ForgetsUpdated(a) ==
  \/ a.kind = "start" /\ a.error
  \/ a.kind \in {"stop", "update"} /\ ~a.error

(* Whether the request's onResponse forgets the session: a start that      *)
(* failed, a stop that succeeded                                           *)
Forgets(a) ==
  \/ a.kind = "start" /\ a.error
  \/ a.kind = "stop" /\ ~a.error

(* onResponse of the popped request, after mMutex was released             *)
onResponse ==
  /\ answering # NoAnswer
  /\ answering' = NoAnswer
  /\ IF Forgets(answering) THEN ForgetSession(answering.session)
                           ELSE UNCHANGED mSessionBiDict
  /\ UNCHANGED <<calls, sessionRequests, lastSession, flpCommands, flpRunning, flpTrips, shifted>>

(* beforeBatchingStatusCb: the FLP ends a trip, and the client forgets the *)
(* session if it is still one for trips; mMutex is not taken               *)
beforeBatchingStatusCb(s) ==
  /\ answering = NoAnswer
  /\ s \in flpTrips
  /\ flpRunning' = flpRunning \ {s} /\ flpTrips' = flpTrips \ {s}
  /\ IF \E i \in Ids : mSessionBiDict[i] = [session |-> s, mode |-> "onTrip"]
       THEN ForgetSession(s) ELSE UNCHANGED mSessionBiDict
  /\ UNCHANGED <<calls, sessionRequests, lastSession, flpCommands, answering, shifted>>

SessionsNext ==
  \/ \E i \in Ids, m \in SessionModes :
       locAPIStartSession(i, m) \/ locAPIUpdateSessionOptions(i, m)
  \/ \E i \in Ids : locAPIStopSession(i) \/ locAPIGetBatchedLocations(i)
  \/ onResponseCb
  \/ onResponse
  \/ \E s \in flpTrips : beforeBatchingStatusCb(s)

-----------------------------------------------------------------------------
Queued(op, s) == \E k \in DOMAIN flpCommands :
                   flpCommands[k].op = op /\ flpCommands[k].session = s

(* Every session that runs in the FLP, or that it will start, can be       *)
(* stopped: it is in the dictionary or its stop is on its way. So a client *)
(* never leaves the FLP batching for nobody (locAPIUpdateSessionOptions    *)
(* relies on it when it drops the old session number). It holds until a    *)
(* response finds its session gone while its request is queued.            *)
SessionStoppable ==
  ~shifted => \A s \in 1..lastSession :
     (s \in flpRunning \/ Queued("start", s)) => hasSession(s) \/ Queued("stop", s)

(* Each response is handled by the request it answers, although the queue  *)
(* is shared by all sessions and popped blindly (getRequestBySession).     *)
AnswersMatch == (~shifted /\ answering # NoAnswer) => answering.own = answering.session
=============================================================================
