-------------------------- MODULE AgpsStateMachine --------------------------
(***************************************************************************)
(* One AgpsStateMachine (gps/gnss/Agps.cpp): the machine that shares a     *)
(* single data connection of the framework among the modem's ATL requests. *)
(*                                                                         *)
(* Here mSubscriberList is the set of subscribers: the base class only     *)
(* ever asks whether somebody is in the list, and notifies all of a kind.  *)
(* Module Agps models the list as a list, adds the other two machines, and *)
(* is checked to implement this module.                                    *)
(*                                                                         *)
(* Around the machine stand the two parties it talks to, both outside the  *)
(* repository: the modem, whose view of each connection handle is atl, and *)
(* the framework, which executes the machine's commands in order and       *)
(* reports back later.                                                     *)
(***************************************************************************)
EXTENDS Naturals, Sequences, Queue

CONSTANTS
  Handle,       \* the connection handles of the modem
  MaxInFlight,  \* bound on commands and reports under way, for new input
  ReleaseMayFail \* may the framework fail to close an open connection?

ASSUME InFlightAssumption == MaxInFlight \in Nat
ASSUME ReleaseAssumption == ReleaseMayFail \in BOOLEAN

VARIABLES
  mState,            \* AgpsState
  mSubscriberList,   \* the subscribers, each with its two flags
  atl,               \* what the modem was told about each handle
  request,           \* data connection commands the framework has not executed
  report,            \* reports of the framework the machine has not processed
  dataConn           \* is the data connection up at the framework?

vars == <<mState, mSubscriberList, atl, request, report, dataConn>>

AgpsState == {"RELEASED", "PENDING", "ACQUIRED", "RELEASING"}

Subscriber == [mConnHandle : Handle, mWaitForCloseComplete : BOOLEAN,
               mIsInactive : BOOLEAN]

(* A handle is requested until its open status arrives, and closing from   *)
(* its release until its close status.                                     *)
AtlView == {"idle", "requested", "open", "closing"}

TypeOK ==
  /\ mState \in AgpsState
  /\ mSubscriberList \in SUBSET Subscriber
  /\ atl \in [Handle -> AtlView]
  /\ request \in Seq({"REQUEST", "RELEASE"})
  /\ report \in Seq({"OPEN", "CLOSED", "FAILED"})
  /\ dataConn \in BOOLEAN

Init ==
  /\ mState = "RELEASED"
  /\ mSubscriberList = {}
  /\ atl = [h \in Handle |-> "idle"]
  /\ request = <<>>
  /\ report = <<>>
  /\ dataConn = FALSE

-----------------------------------------------------------------------------
(* Helpers *)

Of(S, h) == {s \in S : s.mConnHandle = h}

Active(S) == {s \in S : ~s.mIsInactive}

Inactive(S) == {s \in S : s.mIsInactive}

anyActiveSubscribers(S) == Active(S) # {}

addSubscriber(s) ==
  IF Of(mSubscriberList, s.mConnHandle) # {}
    THEN mSubscriberList
    ELSE mSubscriberList \cup {s}

(* Every subscriber in S is notified, and its handle is then seen as view. *)
Notify(S, view) ==
  atl' = [h \in Handle |-> IF Of(S, h) # {} THEN view ELSE atl[h]]

(* requestOrReleaseDataConn(true / false) *)
Send(cmd) == request' = Append(request, cmd)

Quiet == UNCHANGED request

Room == Len(request) + Len(report) < MaxInFlight

-----------------------------------------------------------------------------
(* Events from the modem *)

(* Mutant: the arguments of the AgpsSubscriber constructor are swapped. *)
SubscribeSwapped(h, wait) ==
  /\ Room
  /\ atl[h] = "idle"
  /\ mSubscriberList' = addSubscriber([mConnHandle |-> wait,
                           mWaitForCloseComplete |-> h, mIsInactive |-> FALSE])
  /\ UNCHANGED <<mState, atl, request, report, dataConn>>

(* Mutant: a subscriber that joins an open connection is not told of it. *)
SubscribeUntold(h, wait) ==
  /\ Room
  /\ atl[h] = "idle"
  /\ mSubscriberList' = addSubscriber([mConnHandle |-> h,
                           mWaitForCloseComplete |-> wait, mIsInactive |-> FALSE])
  /\ atl' = [atl EXCEPT ![h] = "requested"]
  /\ IF mState = "RELEASED"
       THEN mState' = "PENDING" /\ Send("REQUEST")
       ELSE UNCHANGED mState /\ Quiet
  /\ UNCHANGED <<report, dataConn>>

(* AgpsManager::requestATL and the SUBSCRIBE event. The modem reuses a     *)
(* handle only once it was told that the handle's connection is over.      *)
Subscribe(h, wait) ==
  LET s == [mConnHandle |-> h, mWaitForCloseComplete |-> wait,
            mIsInactive |-> FALSE]
  IN  /\ Room
      /\ atl[h] = "idle"
      /\ mSubscriberList' = addSubscriber(s)
      /\ atl' = [atl EXCEPT ![h] =
                   IF mState = "ACQUIRED" THEN "open" ELSE "requested"]
      /\ IF mState = "RELEASED"
           THEN mState' = "PENDING" /\ Send("REQUEST")
           ELSE UNCHANGED mState /\ Quiet
      /\ UNCHANGED <<report, dataConn>>

(* The list after the UNSUBSCRIBE event of s: inactive until the close is  *)
(* complete, or deleted at once.                                           *)
AfterUnsubscribe(s) ==
  (mSubscriberList \ Of(mSubscriberList, s.mConnHandle))
    \cup (IF s.mWaitForCloseComplete
            THEN {[s EXCEPT !.mIsInactive = TRUE]} ELSE {})

(* Mutant: anyActiveSubscribers is not asked, only whether the list is empty. *)
UnsubscribeKeepsOpen(s) ==
  LET left == AfterUnsubscribe(s)
  IN  /\ Room
      /\ mState # "RELEASED"
      /\ mSubscriberList' = left
      /\ atl' = [atl EXCEPT ![s.mConnHandle] =
                   IF s.mWaitForCloseComplete THEN "closing" ELSE "idle"]
      /\ IF left = {}
           THEN mState' = "RELEASED" /\ Send("RELEASE")
           ELSE UNCHANGED mState /\ Quiet
      /\ UNCHANGED <<report, dataConn>>

(* AgpsManager::releaseATL and the UNSUBSCRIBE event *)
Unsubscribe(s) ==
  LET left == AfterUnsubscribe(s)
  IN  /\ Room
      /\ mState # "RELEASED"
      /\ mSubscriberList' = left
      /\ atl' = [atl EXCEPT ![s.mConnHandle] =
                   IF s.mWaitForCloseComplete THEN "closing" ELSE "idle"]
      /\ IF left = {}
           THEN /\ mState' = "RELEASED"
                /\ IF mState = "RELEASING" THEN Quiet ELSE Send("RELEASE")
           ELSE IF mState # "RELEASING" /\ ~anyActiveSubscribers(left)
             THEN mState' = "RELEASING" /\ Send("RELEASE")
             ELSE UNCHANGED mState /\ Quiet
      /\ UNCHANGED <<report, dataConn>>

-----------------------------------------------------------------------------
(* Events from the framework *)

Take(event) ==
  /\ report # <<>>
  /\ Head(report) = event
  /\ report' = Tail(report)
  /\ UNCHANGED dataConn

Ignore == UNCHANGED <<mState, mSubscriberList, atl, request>>

processAgpsEventGranted ==
  /\ Take("OPEN")
  /\ IF mState = "PENDING"
       THEN /\ mState' = "ACQUIRED"
            /\ Notify(Active(mSubscriberList), "open")
            /\ UNCHANGED <<mSubscriberList, request>>
       ELSE Ignore

(* Mutant: the close is notified to the active subscribers. *)
ReleaseCompleteToActive ==
  /\ mSubscriberList' = Active(mSubscriberList)
  /\ Notify(Active(mSubscriberList), "idle")
  /\ IF anyActiveSubscribers(mSubscriberList)
       THEN mState' = "PENDING" /\ Send("REQUEST")
       ELSE mState' = "RELEASED" /\ Quiet

(* Mutant: the new connection is waited for and not requested. *)
ReleaseCompleteNoRequest ==
  /\ mSubscriberList' = Active(mSubscriberList)
  /\ Notify(Inactive(mSubscriberList), "idle")
  /\ mState' = IF anyActiveSubscribers(mSubscriberList) THEN "PENDING" ELSE "RELEASED"
  /\ Quiet

(* The end of a release: the waiting subscribers learn of it and leave; a  *)
(* subscriber that came meanwhile gets a connection of its own.            *)
ReleaseComplete ==
  /\ mSubscriberList' = Active(mSubscriberList)
  /\ Notify(Inactive(mSubscriberList), "idle")
  /\ IF anyActiveSubscribers(mSubscriberList)
       THEN mState' = "PENDING" /\ Send("REQUEST")
       ELSE mState' = "RELEASED" /\ Quiet

(* The connection is gone: everybody learns of it and leaves. *)
DropEverybody ==
  /\ mState' = "RELEASED"
  /\ mSubscriberList' = {}
  /\ Notify(mSubscriberList, "idle")
  /\ UNCHANGED request

processAgpsEventReleased ==
  /\ Take("CLOSED")
  /\ CASE mState = "ACQUIRED"  -> DropEverybody
       [] mState = "RELEASING" -> ReleaseComplete
       [] OTHER                -> Ignore

processAgpsEventDenied ==
  /\ Take("FAILED")
  /\ CASE mState = "PENDING"   -> DropEverybody
       [] mState = "RELEASING" -> ReleaseComplete
       [] OTHER                -> Ignore

-----------------------------------------------------------------------------
(* The framework, external: it executes commands in order. A request opens *)
(* the connection or fails; a release closes it, or fails to and leaves it *)
(* up; a release of a connection that is down may stay unanswered. An open *)
(* connection may be lost at any time.                                     *)

FrameworkRequest ==
  /\ request # <<>>
  /\ Head(request) = "REQUEST"
  /\ request' = Tail(request)
  /\ \/ report' = Append(report, "OPEN") /\ dataConn' = TRUE
     \/ report' = Append(report, "FAILED") /\ UNCHANGED dataConn
  /\ UNCHANGED <<mState, mSubscriberList, atl>>

FrameworkRelease ==
  /\ request # <<>>
  /\ Head(request) = "RELEASE"
  /\ request' = Tail(request)
  /\ \/ report' = Append(report, "CLOSED") /\ dataConn' = FALSE
     \/ /\ ReleaseMayFail /\ dataConn
        /\ report' = Append(report, "FAILED") /\ UNCHANGED dataConn
     \/ ~dataConn /\ UNCHANGED <<report, dataConn>>
  /\ UNCHANGED <<mState, mSubscriberList, atl>>

FrameworkLoss ==
  /\ Room
  /\ dataConn
  /\ dataConn' = FALSE
  /\ report' = Append(report, "CLOSED")
  /\ UNCHANGED <<mState, mSubscriberList, atl, request>>

-----------------------------------------------------------------------------
Next ==
  \/ \E h \in Handle, wait \in BOOLEAN : Subscribe(h, wait)
  \/ \E s \in mSubscriberList : Unsubscribe(s)
  \/ processAgpsEventGranted
  \/ processAgpsEventReleased
  \/ processAgpsEventDenied
  \/ FrameworkRequest
  \/ FrameworkRelease
  \/ FrameworkLoss

Spec == Init /\ [][Next]_vars

(* The message task keeps processing reports, and the framework keeps      *)
(* executing commands; nothing obliges the modem, or a connection to fail. *)
Fairness ==
  /\ WF_vars(processAgpsEventGranted)
  /\ WF_vars(processAgpsEventReleased)
  /\ WF_vars(processAgpsEventDenied)
  /\ WF_vars(FrameworkRequest)
  /\ WF_vars(FrameworkRelease)

FairSpec == Spec /\ Fairness

-----------------------------------------------------------------------------
(* Properties *)

(* processAgpsEventReleased says of its list that it "should be empty if   *)
(* we are in released state"; the other handlers rely on as much: a        *)
(* machine that asked for or holds a connection does so for an active      *)
(* subscriber, and one that waits for a close has somebody to tell.        *)
StateMatchesSubscribers ==
  /\ mState = "RELEASED" => mSubscriberList = {}
  /\ mState = "RELEASING" => Inactive(mSubscriberList) # {}
  /\ mState \in {"PENDING", "ACQUIRED"} => anyActiveSubscribers(mSubscriberList)

(* What the modem believes of each handle is what the machine has on its   *)
(* books, whatever order requests, releases and reports come in: it thinks *)
(* a connection open only while the machine holds one, and waits for an    *)
(* answer only while it is in the list that the answer will be sent to.    *)
ModemAgrees ==
  \A h \in Handle :
    LET mine == Of(mSubscriberList, h)
    IN  /\ atl[h] = "idle" => mine = {}
        /\ atl[h] = "requested" => /\ Active(mine) # {}
                                   /\ mState \in {"PENDING", "RELEASING"}
        /\ atl[h] = "open" => Active(mine) # {} /\ mState = "ACQUIRED"
        /\ atl[h] = "closing" => Inactive(mine) # {} /\ mState # "RELEASED"

(* addSubscriber lets no handle in twice, and only a subscriber that waits *)
(* for the close is kept as inactive.                                      *)
OneSubscriberPerHandle ==
  /\ \A s, t \in mSubscriberList : s.mConnHandle = t.mConnHandle => s = t
  /\ \A s \in mSubscriberList : s.mIsInactive => s.mWaitForCloseComplete

(* A machine that waits for the framework does not wait in vain: the       *)
(* report that moves it on is under way, or the command it answers is.     *)
(* Late reports of earlier commands arrive in the same states and must not *)
(* use it up.                                                              *)
ReportOnItsWay ==
  mState = "PENDING" =>
    IsIn("REQUEST", request) \/ IsIn("OPEN", report) \/ IsIn("FAILED", report)

(* Every ATL request is answered: with an open status, or by a release.    *)
RequestsAnswered ==
  \A h \in Handle : atl[h] = "requested" ~> atl[h] # "requested"

(* Every subscriber that waits for the close complete is told of it, unless*)
(* others keep the connection in use; and no release hangs.                *)
ReleasesAnswered ==
  /\ \A h \in Handle : atl[h] = "closing" ~>
                          atl[h] = "idle" \/ anyActiveSubscribers(mSubscriberList)
  /\ mState = "RELEASING" ~> mState # "RELEASING"

(* Whatever the modem waits for ends, opening and closing alike.           *)
Answered == RequestsAnswered /\ ReleasesAnswered
=============================================================================
