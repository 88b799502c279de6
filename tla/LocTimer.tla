------------------------------ MODULE LocTimer ------------------------------
(***************************************************************************)
(* The timer service of gps/utils/LocTimer.cpp: the LocTimer objects of    *)
(* the clients, the container that holds their running delegates, ordered  *)
(* by deadline, the message task that manages the container, and the poll  *)
(* thread that waits for the one timerfd armed with the soonest deadline.  *)
(*                                                                         *)
(* Client threads hold a timer's lock for the whole of start and stop: one *)
(* action each. The message task and the poll thread share the timerfd and *)
(* the epoll set with no lock, so they take one step per system call; the  *)
(* expiry of a delegate reads its client without the lock, so the read,    *)
(* the stop and the callback are a step each.                              *)
(***************************************************************************)
EXTENDS Naturals, Sequences

CONSTANTS
  Client,       \* the LocTimer objects
  MayDestroy,   \* those that may be destroyed
  Delay,        \* time outs that clients ask for
  MaxTime,      \* bound on the clock
  MaxStarts     \* bound on the number of delegates ever created

ASSUME TimerAssumption ==
  /\ MayDestroy \subseteq Client
  /\ Delay \subseteq Nat \ {0}
  /\ MaxTime \in Nat /\ MaxStarts \in Nat

(* A delegate: its address, its deadline, and the client it was made for *)
LocTimerDelegate ==
  [id : 1..MaxStarts, mFutureTime : 1..MaxTime, client : Client]

None == [id |-> 0]

(* LocTimerDelegate::ranks: sooner ranks higher. *)
outRanks(x, y) == x.mFutureTime < y.mFutureTime

VARIABLES
  now,          \* CLOCK_BOOTTIME
  starts,       \* delegates created so far
  exists,       \* the LocTimer objects that are not destroyed
  mTimer,       \* of each LocTimer: its running delegate, or None
  detached,     \* delegates whose mClient is NULL
  deleted,      \* delegates deleted so far
  msgQ,         \* queue of the message task
  heap, top,    \* the container's delegates, and the soonest of them
  armed,        \* deadline set in the timerfd, 0 if it is disarmed
  polled,       \* is the timerfd in the epoll set?
  task,         \* where the message task is
  poll          \* where the poll thread is

clients == <<starts, exists, mTimer, detached>>
container == <<heap, top>>
fd == <<armed, polled>>
vars == <<now, clients, deleted, msgQ, container, fd, task, poll>>

Heap == INSTANCE RankedSet WITH Elem <- LocTimerDelegate, Outranks <- outRanks

Push(d) == [msg |-> "MsgTimerPush", timer |-> d]
Remove(d) == [msg |-> "MsgTimerRemove", timer |-> d]
Expire == [msg |-> "MsgTimerExpire", timer |-> None]

(* The message task is idle, in updateSoonestTime (addPoll, setTime), or   *)
(* expiring a delegate, at the time read when it began with the first.     *)
Idle == [at |-> "idle"]
Crashed == [at |-> "crashed"]
AddPoll == [at |-> "addPoll"]
SetTime == [at |-> "setTime"]
At(place, d, t) == [at |-> place, timer |-> d, time |-> t]

TypeOK ==
  /\ now \in 0..MaxTime
  /\ starts \in 0..MaxStarts
  /\ exists \subseteq Client
  /\ mTimer \in [Client -> LocTimerDelegate \cup {None}]
  /\ detached \subseteq LocTimerDelegate
  /\ deleted \subseteq LocTimerDelegate
  /\ \A i \in DOMAIN msgQ :
       \/ msgQ[i] = Expire
       \/ \E d \in LocTimerDelegate : msgQ[i] \in {Push(d), Remove(d)}
  /\ heap \subseteq LocTimerDelegate
  /\ top \in heap \cup {None}
  /\ armed \in 0..MaxTime
  /\ polled \in BOOLEAN
  /\ \/ task \in {Idle, Crashed, AddPoll, SetTime}
     \/ \E d \in LocTimerDelegate, t \in 0..MaxTime :
          task \in {At(p, d, t) : p \in {"expire", "stop", "callback"}}
  /\ poll \in {"wait", "disarm", "removePoll", "post"}

Init ==
  /\ now = 0
  /\ starts = 0
  /\ exists = Client
  /\ mTimer = [c \in Client |-> None]
  /\ detached = {}
  /\ deleted = {}
  /\ msgQ = <<>>
  /\ Heap!Init
  /\ armed = 0
  /\ polled = FALSE
  /\ task = Idle
  /\ poll = "wait"

Tick ==
  /\ now < MaxTime
  /\ now' = now + 1
  /\ UNCHANGED <<clients, deleted, msgQ, container, fd, task, poll>>

-----------------------------------------------------------------------------
(* Client threads *)

(* Not modelled: without a timerfd start returns false and changes nothing *)
start(c, delay) ==
  LET d == [id |-> starts + 1, mFutureTime |-> now + delay, client |-> c]
  IN  /\ c \in exists
      /\ mTimer[c] = None
      /\ starts < MaxStarts /\ now + delay <= MaxTime
      /\ starts' = starts + 1
      /\ mTimer' = [mTimer EXCEPT ![c] = d]
      /\ msgQ' = Append(msgQ, Push(d))
      /\ UNCHANGED <<now, exists, detached, deleted, container, fd, task, poll>>

(* LocTimer::stop of a running timer, and destroyLocked *)
StopRunning(c) ==
  /\ mTimer' = [mTimer EXCEPT ![c] = None]
  /\ detached' = detached \cup {mTimer[c]}
  /\ msgQ' = Append(msgQ, Remove(mTimer[c]))

stop(c) ==
  /\ c \in exists
  /\ mTimer[c] # None
  /\ StopRunning(c)
  /\ UNCHANGED <<now, starts, exists, deleted, container, fd, task, poll>>

(* LocTimer::~LocTimer *)
destroy(c) ==
  /\ c \in exists \cap MayDestroy
  /\ exists' = exists \ {c}
  /\ IF mTimer[c] # None THEN StopRunning(c) ELSE UNCHANGED <<mTimer, detached, msgQ>>
  /\ UNCHANGED <<now, starts, deleted, container, fd, task, poll>>

-----------------------------------------------------------------------------
(* The message task *)

(* updateSoonestTime(priorTop), up to its system calls *)
updateSoonestTime(priorTop) ==
  task' = IF /\ top' # priorTop
             /\ top' = None \/ priorTop = None \/ outRanks(top', priorTop)
            THEN AddPoll ELSE Idle

(* Mutant: the fd is armed and not put into the epoll set. *)
updatePollNot ==
  /\ task = AddPoll
  /\ task' = SetTime
  /\ UNCHANGED <<now, clients, deleted, msgQ, container, fd, poll>>

(* addPoll, or removePoll when the tree is empty *)
updatePoll ==
  /\ task = AddPoll
  /\ polled' = (top # None)
  /\ task' = SetTime
  /\ UNCHANGED <<now, clients, deleted, msgQ, container, armed, poll>>

updateTime ==
  /\ task = SetTime
  /\ armed' = IF top = None THEN 0 ELSE top.mFutureTime
  /\ task' = Idle
  /\ UNCHANGED <<now, clients, deleted, msgQ, container, polled, poll>>

Receive(kind) ==
  /\ task = Idle
  /\ msgQ # <<>>
  /\ Head(msgQ).msg = kind
  /\ msgQ' = Tail(msgQ)
  /\ UNCHANGED <<now, clients, fd, poll>>

MsgTimerPush ==
  /\ Receive("MsgTimerPush")
  /\ Heap!push(Head(msgQ).timer)
  /\ updateSoonestTime(top)
  /\ UNCHANGED deleted

(* Mutant: the delegate is deleted and left in the heap. *)
MsgTimerRemoveNotFromHeap ==
  /\ Receive("MsgTimerRemove")
  /\ deleted' = deleted \cup {Head(msgQ).timer}
  /\ UNCHANGED <<container, task>>

(* LocHeap::remove returns the delegate, or NULL if it is not in the heap. *)
MsgTimerRemove ==
  LET d == Head(msgQ).timer
      removed == IF d \in heap THEN d ELSE None
  IN  /\ Receive("MsgTimerRemove")
      /\ Heap!remove(d)
      /\ IF top = removed THEN updateSoonestTime(None) ELSE task' = Idle
      /\ deleted' = deleted \cup {d}

(* The first delegate is popped whatever its deadline. *)
MsgTimerExpire ==
  /\ Receive("MsgTimerExpire")
  /\ IF heap = {}
       THEN UNCHANGED <<container, task>>
       ELSE Heap!pop /\ task' = At("expire", top, now)
  /\ UNCHANGED deleted

(* Mutant: the timer is not set again after the loop. *)
popIfOutRanksNoUpdate ==
  IF top # None /\ ~(task.time < top.mFutureTime)
    THEN Heap!pop /\ task' = At("expire", top, task.time)
    ELSE UNCHANGED container /\ task' = Idle

(* The next round of its loop, or the end of it *)
popIfOutRanks ==
  IF top # None /\ ~(task.time < top.mFutureTime)
    THEN Heap!pop /\ task' = At("expire", top, task.time)
    ELSE UNCHANGED container /\ updateSoonestTime(None)

(* LocTimerDelegate::expire reads mClient, *)
expire ==
  /\ task.at = "expire"
  /\ IF task.timer \in detached
       THEN popIfOutRanks
       ELSE UNCHANGED container /\ task' = [task EXCEPT !.at = "stop"]
  /\ UNCHANGED <<now, clients, deleted, msgQ, fd, poll>>

(* then stops that client, whichever delegate it is running by now. If it  *)
(* was destroyed this is undefined: the freed object has no timer, or no   *)
(* lock to take.                                                           *)
expireStop ==
  /\ task.at = "stop"
  /\ LET c == task.timer.client
     IN  IF c \in exists /\ mTimer[c] # None
           THEN /\ StopRunning(c)
                /\ task' = At("callback", mTimer[c], task.time)
                /\ UNCHANGED container
           ELSE /\ \/ popIfOutRanks
                   \/ c \notin exists /\ task' = Crashed /\ UNCHANGED container
                /\ UNCHANGED <<mTimer, detached, msgQ>>
  /\ UNCHANGED <<now, starts, exists, deleted, fd, poll>>

(* and calls it back. *)
timeOutCallback ==
  /\ task.at = "callback"
  /\ popIfOutRanks
  /\ UNCHANGED <<now, clients, deleted, msgQ, fd, poll>>

-----------------------------------------------------------------------------
(* The poll thread: epoll_wait returns, and LocTimerContainer::expire *)

run ==
  /\ poll = "wait"
  /\ polled /\ armed # 0 /\ armed <= now
  /\ poll' = "disarm"
  /\ UNCHANGED <<now, clients, deleted, msgQ, container, fd, task>>

disarm ==
  /\ poll = "disarm"
  /\ armed' = 0
  /\ poll' = "removePoll"
  /\ UNCHANGED <<now, clients, deleted, msgQ, container, polled, task>>

removePoll ==
  /\ poll = "removePoll"
  /\ polled' = FALSE
  /\ poll' = "post"
  /\ UNCHANGED <<now, clients, deleted, msgQ, container, armed, task>>

sendExpire ==
  /\ poll = "post"
  /\ msgQ' = Append(msgQ, Expire)
  /\ poll' = "wait"
  /\ UNCHANGED <<now, clients, deleted, container, fd, task>>

-----------------------------------------------------------------------------
ClientStep ==
  \E c \in Client : \/ \E delay \in Delay : start(c, delay)
                    \/ stop(c)
                    \/ destroy(c)

TaskStep ==
  \/ MsgTimerPush \/ MsgTimerRemove \/ MsgTimerExpire
  \/ updatePoll \/ updateTime
  \/ expire \/ expireStop \/ timeOutCallback

PollStep == run \/ disarm \/ removePoll \/ sendExpire

Next == Tick \/ ClientStep \/ TaskStep \/ PollStep

Spec == Init /\ [][Next]_vars

(* Time passes and both threads run; no client has to do anything. *)
FairSpec == Spec /\ WF_vars(Tick) /\ WF_vars(TaskStep) /\ WF_vars(PollStep)

-----------------------------------------------------------------------------
(* Properties *)

(* No wake up is lost: while delegates are running, the timerfd is armed   *)
(* for the soonest of them and polled, or an expiry is under way, after    *)
(* which updateSoonestTime will see to it. The poll thread disarms and     *)
(* unpolls the fd with no lock, at any point of what the message task does *)
(* to it.                                                                  *)
NoLostWakeup ==
  top # None =>
    \/ polled /\ armed = top.mFutureTime
    \/ poll # "wait"
    \/ task # Idle
    \/ \E i \in DOMAIN msgQ : msgQ[i] = Expire

(* "all timers are deleted here, and only here" (MsgTimerRemove): nobody   *)
(* is left with a delegate that is deleted, in the heap, in a message, in  *)
(* the middle of expiring it, or as a client's running timer.              *)
DeletedUnused ==
  \A d \in deleted :
    /\ d \notin heap
    /\ \A i \in DOMAIN msgQ : msgQ[i].timer # d
    /\ \A c \in Client : mTimer[c] # d
    /\ task.at = "expire" => task.timer # d

(* A delegate that no client refers to any more will be deleted: its       *)
(* MsgTimerRemove is queued, exactly once.                                 *)
DetachedDeleted ==
  \A d \in detached \ deleted :
    \E i \in DOMAIN msgQ : /\ msgQ[i] = Remove(d)
                           /\ \A j \in DOMAIN msgQ : msgQ[j] = Remove(d) => j = i

(* A delegate is deleted once, when nobody is left with it, and not kept.  *)
DelegatesDeleted == TypeOK /\ DeletedUnused /\ DetachedDeleted

(* Every running timer expires or is stopped, as long as the message task  *)
(* has not met a destroyed client.                                         *)
TimersEnd ==
  \A c \in Client, k \in 1..MaxStarts : mTimer[c].id = k ~> mTimer[c].id # k \/ task = Crashed

(* "pop everything in the heap that outRanks now, i.e. has time older than *)
(* now" (LocTimer.cpp:368): no delegate is expired before its deadline.    *)
PopsOnlyDue == task.at = "expire" => task.timer.mFutureTime <= task.time
=============================================================================
