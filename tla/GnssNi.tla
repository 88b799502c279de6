------------------------------- MODULE GnssNi -------------------------------
(***************************************************************************)
(* Network initiated positioning (NI) in gps/gnss/GnssAdapter.cpp. The     *)
(* modem asks for the user's consent with a request whose payload the      *)
(* adapter must hand back with the answer. There is one session for SUPL   *)
(* and one for emergency SUPL, and a thread per request that waits for the *)
(* user's response or times out. The thread takes the session's lock; the  *)
(* message task tests rawRequest and reqID without it.                     *)
(*                                                                         *)
(* A payload is named by the number of its request in the order of the     *)
(* notifications. Time is not modelled: a thread that waits may time out   *)
(* whenever it likes, and respTimeLeft is not read for anything else.      *)
(***************************************************************************)
EXTENDS AdapterTask

CONSTANT MaxNotify   \* bound on the notifications

ASSUME NotifyAssumption == MaxNotify \in Nat

VARIABLES
  niCb,        \* is there a client with a callback for NI?
  niSession,   \* mNiData: the session of each kind
  reqIDCounter,
  niThread,    \* the thread of each request, by its reqID
  notified,    \* notifications so far
  asked,       \* the requests the user was asked about, by reqID: the payload
  said,        \* what the user said, by reqID: the set of responses
  told,        \* the answers the modem got: pairs of payload and response
  freed,       \* payloads freed
  leaked,      \* payloads nobody has a pointer to any more
  late         \* has a response been noted in a session after its thread had left?

Kind == {"SUPL", "ES"}
UserResponse == {"ACCEPT", "DENY", "NO_RESPONSE"}
Response == UserResponse \cup {"IGNORE"}
Payload == 1..MaxNotify
ReqID == 1..MaxNotify
None == 0

niData == <<niSession, reqIDCounter, niThread>>
niEnv == <<notified, said, told>>
niVars == <<niCb, niData, niEnv, asked, freed, leaked, late>>

NoSession == [rawRequest |-> None, reqID |-> None, respRecvd |-> FALSE, resp |-> "NO_RESPONSE"]
NoThread == [kind |-> "SUPL", at |-> "done", resp |-> "NO_RESPONSE", rawRequest |-> None]

NiInit ==
  /\ niCb = FALSE
  /\ niSession = [k \in Kind |-> NoSession]
  /\ reqIDCounter = 0
  /\ niThread = [r \in ReqID |-> NoThread]
  /\ notified = 0
  /\ asked = [r \in ReqID |-> None]
  /\ said = [r \in ReqID |-> {}]
  /\ told = {} /\ freed = {} /\ leaked = {}
  /\ late = FALSE

-----------------------------------------------------------------------------
(* The inputs: the modem's notification, a client that comes or goes, and  *)
(* the user's response to a request he was asked about                     *)

requestNiNotifyEvent(k) ==
  /\ notified < MaxNotify
  /\ notified' = notified + 1
  /\ Input([msg |-> "NiNotify", kind |-> k, data |-> notified'])
  /\ UNCHANGED <<niCb, niData, said, told, asked, freed, leaked, late>>

NiClientInput(has) ==
  /\ has # niCb
  /\ Input([msg |-> "NiClient", has |-> has])
  /\ UNCHANGED niVars

gnssNiResponseCommand(r, resp) ==
  /\ asked[r] # None
  /\ Input([msg |-> "NiResponse", id |-> r, resp |-> resp])
  /\ said' = [said EXCEPT ![r] = @ \cup {resp}]
  /\ UNCHANGED <<niCb, niData, notified, told, asked, freed, leaked, late>>

-----------------------------------------------------------------------------
(* The handlers *)

MsgNiClient ==
  /\ Receive("NiClient")
  /\ niCb' = Head(msgQ).has
  /\ UNCHANGED <<niData, niEnv, asked, freed, leaked, late>>

HasRequest(k) == niSession[k].rawRequest # None

(* Mutant: a request is not held up by another of its own kind. *)
BusyEmergency(k) == HasRequest("ES") /\ k = "SUPL"

(* An emergency request is held up by another emergency one, a SUPL        *)
(* request by either.                                                      *)
Busy(k) == HasRequest("ES") \/ (k = "SUPL" /\ HasRequest("SUPL"))

NoCallback(p) ==
  /\ ~niCb
  /\ leaked' = leaked \cup {p}
  /\ UNCHANGED <<niData, asked, freed>>

IgnoreRequest(k, p) ==
  /\ niCb /\ Busy(k)
  /\ freed' = freed \cup {p}
  /\ UNCHANGED <<niData, asked, leaked>>

(* A thread that cannot be created is only logged: the request stays.      *)
SaveRequest(k, p, created) ==
  /\ niCb /\ ~Busy(k)
  /\ reqIDCounter' = reqIDCounter + 1
  /\ niSession' = [niSession EXCEPT ![k].rawRequest = p, ![k].reqID = reqIDCounter']
  /\ niThread' = IF created
                   THEN [niThread EXCEPT ![reqIDCounter'] =
                           [kind |-> k, at |-> "new", resp |-> "NO_RESPONSE",
                            rawRequest |-> None]]
                   ELSE niThread
  /\ asked' = [asked EXCEPT ![reqIDCounter'] = p]
  /\ UNCHANGED <<freed, leaked>>

requestNiNotify ==
  /\ Receive("NiNotify")
  /\ LET k == Head(msgQ).kind
         p == Head(msgQ).data
     IN  NoCallback(p) \/ IgnoreRequest(k, p) \/ \E created \in BOOLEAN : SaveRequest(k, p, created)
  /\ UNCHANGED <<niCb, niEnv, late>>

(* The user's response: the session is looked for without its lock, and    *)
(* its lock is taken after that.                                           *)
Active(id) == {k \in Kind : niSession[k].reqID = id /\ HasRequest(k)}

MsgGnssNiResponse ==
  /\ Takes("NiResponse")
  /\ LET id == Head(msgQ).id
         resp == Head(msgQ).resp
     IN  handling' =
           IF ~niCb \/ Active(id) = {} THEN <<>>
           ELSE IF "ES" \in Active(id)
             THEN IF resp = "ACCEPT" /\ HasRequest("SUPL")
                    THEN <<[kind |-> "SUPL", resp |-> "IGNORE"], [kind |-> "ES", resp |-> resp]>>
                    ELSE <<[kind |-> "ES", resp |-> resp]>>
             ELSE <<[kind |-> "SUPL", resp |-> resp]>>
  /\ UNCHANGED niVars

setResponse ==
  /\ handling # <<>>
  /\ LET s == Head(handling)
     IN  /\ niSession' = [niSession EXCEPT ![s.kind].resp = s.resp, ![s.kind].respRecvd = TRUE]
         /\ late' = (late \/ ~HasRequest(s.kind))
  /\ handling' = Tail(handling)
  /\ UNCHANGED <<msgQ, inputs, niCb, reqIDCounter, niThread, niEnv, asked, freed, leaked>>

(* The message of the NI thread hands the answer to the modem, and its     *)
(* destructor frees the payload.                                           *)
informNiResponse ==
  /\ Receive("InformNi")
  /\ told' = told \cup {<<Head(msgQ).data, Head(msgQ).resp>>}
  /\ freed' = freed \cup {Head(msgQ).data}
  /\ UNCHANGED <<niCb, niData, notified, said, asked, leaked, late>>

-----------------------------------------------------------------------------
(* niThreadProc, the thread of request r *)

At(r, place) == niThread[r].at = place
niUnchanged == <<taskVars, niCb, reqIDCounter, niEnv, asked, leaked, late>>

(* Mutant: the response flag is not reset for the next session. *)
TakeRequestKeepsFlag(r, resp) ==
  LET k == niThread[r].kind
      p == niSession[k].rawRequest
      send == p # None /\ resp # "IGNORE"
  IN  /\ niSession' = [niSession EXCEPT ![k].resp = resp, ![k].rawRequest = None]
      /\ niThread' = [niThread EXCEPT ![r].at = "unlocked", ![r].resp = resp,
                                      ![r].rawRequest = IF send THEN p ELSE None]
      /\ freed' = IF p # None /\ ~send THEN freed \cup {p} ELSE freed

(* Leave the wait, with the lock held: take the payload, or free it if the *)
(* session is to be ignored.                                               *)
TakeRequest(r, resp) ==
  LET k == niThread[r].kind
      p == niSession[k].rawRequest
      send == p # None /\ resp # "IGNORE"
  IN  /\ niSession' = [niSession EXCEPT ![k].respRecvd = FALSE, ![k].resp = resp,
                                        ![k].rawRequest = None]
      /\ niThread' = [niThread EXCEPT ![r].at = "unlocked", ![r].resp = resp,
                                      ![r].rawRequest = IF send THEN p ELSE None]
      /\ freed' = IF p # None /\ ~send THEN freed \cup {p} ELSE freed

niThreadStart(r) ==
  /\ At(r, "new")
  /\ LET s == niSession[niThread[r].kind]
     IN  IF s.respRecvd
           THEN TakeRequest(r, s.resp)
           ELSE niThread' = [niThread EXCEPT ![r].at = "waiting"] /\ UNCHANGED <<niSession, freed>>
  /\ UNCHANGED niUnchanged

niThreadSignalled(r) ==
  /\ At(r, "waiting")
  /\ niSession[niThread[r].kind].respRecvd
  /\ TakeRequest(r, niSession[niThread[r].kind].resp)
  /\ UNCHANGED niUnchanged

(* A time out counts even if the response came while the thread waited for *)
(* the lock.                                                               *)
niThreadTimedOut(r) ==
  /\ At(r, "waiting")
  /\ TakeRequest(r, "NO_RESPONSE")
  /\ UNCHANGED niUnchanged

niThreadClear(r) ==
  /\ At(r, "unlocked")
  /\ niSession' = [niSession EXCEPT ![niThread[r].kind].reqID = None]
  /\ niThread' = [niThread EXCEPT ![r].at = IF niThread[r].rawRequest = None
                                              THEN "done" ELSE "sending"]
  /\ UNCHANGED <<niUnchanged, freed>>

(* Mutant: the thread is done before its message is sent. *)
niThreadSendNot(r) ==
  /\ At(r, "sending")
  /\ niThread' = [niThread EXCEPT ![r].at = "done", ![r].rawRequest = None]
  /\ UNCHANGED <<niUnchanged, niSession, freed>>

niThreadSend(r) ==
  /\ At(r, "sending")
  /\ Post([msg |-> "InformNi", data |-> niThread[r].rawRequest, resp |-> niThread[r].resp])
  /\ niThread' = [niThread EXCEPT ![r].at = "done", ![r].rawRequest = None]
  /\ UNCHANGED <<niCb, reqIDCounter, niEnv, asked, leaked, late, niSession, freed>>

-----------------------------------------------------------------------------

NiInput ==
  \/ \E k \in Kind : requestNiNotifyEvent(k)
  \/ \E has \in BOOLEAN : NiClientInput(has)
  \/ \E r \in ReqID, resp \in UserResponse : gnssNiResponseCommand(r, resp)
NiHandler ==
  MsgNiClient \/ requestNiNotify \/ MsgGnssNiResponse \/ setResponse \/ informNiResponse
NiThreadStep(r) ==
  \/ niThreadStart(r) \/ niThreadSignalled(r) \/ niThreadTimedOut(r)
  \/ niThreadClear(r) \/ niThreadSend(r)

-----------------------------------------------------------------------------
(* Properties *)

(* Where the payload of a notification is: one entry per pointer to it     *)
Holders(p) ==
  {<<"msg", i>> : i \in {j \in DOMAIN msgQ : /\ msgQ[j].msg \in {"NiNotify", "InformNi"}
                                             /\ msgQ[j].data = p}}
    \cup {<<"session", k>> : k \in {l \in Kind : niSession[l].rawRequest = p}}
    \cup {<<"thread", r>> : r \in {q \in ReqID : niThread[q].rawRequest = p}}

(* The payload of a notification travels from its message to a session, to *)
(* the session's thread and to the message that hands it back, between two *)
(* threads and without a common lock: there is one pointer to it until it  *)
(* is freed, none after that, and it is not freed twice or lost unless     *)
(* there was no client to ask (requestNiNotify returns without freeing).   *)
PayloadOwned ==
  \A p \in Payload :
    Cardinality(Holders(p)) = IF p <= notified /\ p \notin freed \cup leaked THEN 1 ELSE 0

AnswersOwn ==
  \A t \in told :
    t[2] # "NO_RESPONSE" => \E r \in ReqID : asked[r] = t[1] /\ t[2] \in said[r]

(* The modem is told what the user said to this very request, or that      *)
(* there was no response. The exception is the response that the handler   *)
(* noted after the thread had timed out, see known deviations.             *)
AnswerIsItsOwn == ~late => AnswersOwn

(* A request a thread was created for ends: the modem gets an answer, or   *)
(* the request was ignored for an emergency.                               *)
NiAnswered ==
  \A p \in Payload :
    (\E r \in ReqID : asked[r] = p /\ niThread[r].at # "done") ~> p \in freed
=============================================================================
