--------------------------- MODULE LocTimerProofs ---------------------------
(***************************************************************************)
(* Proofs about the timer service, for any number of clients, delegates    *)
(* and deadlines: no wake up is lost between the two threads that share    *)
(* the timerfd, and a delegate is deleted once, when nobody is left with   *)
(* it. And about the binary tree its heap is, of any size: it stays        *)
(* searchable, and it is the ranked set that the timer service counts on.  *)
(***************************************************************************)
EXTENDS LocTimer, LocHeap, Integers, QueueTheorems

ExpireQueued == \E i \in DOMAIN msgQ : msgQ[i] = Expire

(* Between its two system calls the message task counts on the fd being    *)
(* polled, unless the poll thread has an expiry under way that will make   *)
(* it look again.                                                          *)
PolledBetween ==
  task = SetTime /\ top # None => polled \/ poll # "wait" \/ ExpireQueued

TopOfHeap == heap # {} => top # None

(* A running timer's delegate is its own, and is not detached.             *)
RunningAttached ==
  \A c \in Client : mTimer[c] # None =>
    mTimer[c].client = c /\ mTimer[c].id <= starts /\ mTimer[c] \notin detached

(* Only detached delegates are deleted, and delegates still to be created  *)
(* are not detached.                                                       *)
DeletedDetached ==
  /\ deleted \subseteq detached
  /\ \A d \in detached : d.id <= starts

(* The heap and the task hold no deleted delegate. *)
HeldLive ==
  /\ heap \cap deleted = {}
  /\ task.at = "expire" => task.timer \notin deleted

(* A delegate in a message is not deleted, it is detached before its       *)
(* removal is sent, and its removal is the last message about it.          *)
MessagesLive ==
  \A i \in DOMAIN msgQ :
    /\ msgQ[i].timer \notin deleted
    /\ msgQ[i].msg = "MsgTimerRemove" => msgQ[i].timer \in detached
RemoveLast ==
  \A i, j \in DOMAIN msgQ :
    i < j /\ msgQ[i].msg = "MsgTimerRemove" => msgQ[j].timer # msgQ[i].timer
RemoveSent ==
  \A d \in detached \ deleted : \E i \in DOMAIN msgQ : msgQ[i] = Remove(d)

QueueOK == IsQueue(msgQ)

Delegates ==
  /\ QueueOK /\ TypeOK /\ TopOfHeap
  /\ RunningAttached /\ DeletedDetached /\ HeldLive
  /\ MessagesLive /\ RemoveLast /\ RemoveSent

IInv == Delegates /\ PolledBetween /\ NoLostWakeup

-----------------------------------------------------------------------------
(* What delegates and messages are made of *)

LEMMA DelegateParts ==
  /\ None \notin LocTimerDelegate
  /\ \A d \in LocTimerDelegate :
       d.id \in 1..MaxStarts /\ d.mFutureTime \in 1..MaxTime /\ d.client \in Client
<1>1. None.id = 0
  BY DEF None
<1>2. \A d \in LocTimerDelegate :
        d.id \in 1..MaxStarts /\ d.mFutureTime \in 1..MaxTime /\ d.client \in Client
  BY DEF LocTimerDelegate
<1>3. \A d \in LocTimerDelegate : d.id # 0
  BY <1>2, TimerAssumption
<1> QED BY <1>1, <1>2, <1>3

IsMessage(m) == m = Expire \/ \E d \in LocTimerDelegate : m \in {Push(d), Remove(d)}

LEMMA MessageParts ==
  /\ \A d : /\ Push(d).msg = "MsgTimerPush" /\ Push(d).timer = d
            /\ Remove(d).msg = "MsgTimerRemove" /\ Remove(d).timer = d
  /\ Expire.msg = "MsgTimerExpire" /\ Expire.timer = None
  /\ \A m : IsMessage(m) => /\ m.timer \in LocTimerDelegate \cup {None}
                            /\ m.msg # "MsgTimerExpire" => m.timer \in LocTimerDelegate
                            /\ m.msg = "MsgTimerExpire" <=> m = Expire
                            /\ m.msg = "MsgTimerRemove" => m = Remove(m.timer)
BY DEF Push, Remove, Expire, IsMessage

TaskPlaces ==
  \/ task \in {Idle, Crashed, AddPoll, SetTime}
  \/ \E d \in LocTimerDelegate, t \in 0..MaxTime :
       task \in {At(p, d, t) : p \in {"expire", "stop", "callback"}}

LEMMA PlaceParts ==
  /\ Idle.at = "idle" /\ Crashed.at = "crashed" /\ AddPoll.at = "addPoll" /\ SetTime.at = "setTime"
  /\ \A p, d, t : At(p, d, t).at = p /\ At(p, d, t).timer = d /\ At(p, d, t).time = t
  /\ \A p, d, t, q : [At(p, d, t) EXCEPT !.at = q] = At(q, d, t)
BY DEF Idle, Crashed, AddPoll, SetTime, At

LEMMA Expiring ==
  ASSUME TaskPlaces, task.at \in {"expire", "stop", "callback"}
  PROVE  /\ task.timer \in LocTimerDelegate /\ task.time \in 0..MaxTime
         /\ \A q : [task EXCEPT !.at = q] = At(q, task.timer, task.time)
BY PlaceParts DEF TaskPlaces

-----------------------------------------------------------------------------
(* The type of the state in parts *)
Numbers == now \in 0..MaxTime /\ starts \in 0..MaxStarts /\ armed \in 0..MaxTime
Sets ==
  /\ exists \subseteq Client
  /\ mTimer \in [Client -> LocTimerDelegate \cup {None}]
  /\ detached \subseteq LocTimerDelegate
  /\ deleted \subseteq LocTimerDelegate
Heaped ==
  /\ heap \subseteq LocTimerDelegate
  /\ top \in heap \cup {None}
  /\ TopOfHeap
Messages == \A i \in 1..Len(msgQ) : IsMessage(msgQ[i])
Places == TaskPlaces /\ poll \in {"wait", "disarm", "removePoll", "post"}

Types == QueueOK /\ Numbers /\ Sets /\ Heaped /\ Messages /\ Places /\ polled \in BOOLEAN

LEMMA TypeParts == QueueOK => (TypeOK /\ TopOfHeap <=> Numbers /\ Sets /\ Heaped /\ Messages
                                                       /\ Places /\ polled \in BOOLEAN)
<1> SUFFICES ASSUME QueueOK
             PROVE  TypeOK /\ TopOfHeap <=> Numbers /\ Sets /\ Heaped /\ Messages
                                            /\ Places /\ polled \in BOOLEAN
  OBVIOUS
<1>1. DOMAIN msgQ = 1..Len(msgQ)
  BY DEF QueueOK, IsQueue
<1> QED BY <1>1 DEF TypeOK, Numbers, Sets, Heaped, Messages, Places, TaskPlaces, IsMessage

(* The steps by what they do to the clients' delegates and the queue. *)
Started(c, d) ==
  /\ c \in exists /\ mTimer[c] = None
  /\ d \in LocTimerDelegate /\ d.id = starts + 1 /\ d.client = c
  /\ starts' = starts + 1 /\ mTimer' = [mTimer EXCEPT ![c] = d]
  /\ msgQ' = Append(msgQ, Push(d))
  /\ UNCHANGED <<now, exists, detached, deleted, container, fd, task, poll>>

Stopped(c) ==
  /\ c \in exists /\ mTimer[c] # None
  /\ StopRunning(c)
  /\ exists' \subseteq exists
  /\ UNCHANGED <<now, starts, deleted, fd, poll>>

LEMMA ClientSteps ==
  ASSUME Types, ClientStep
  PROVE  \/ \E c \in Client, d \in LocTimerDelegate : Started(c, d)
         \/ \E c \in Client : Stopped(c) /\ UNCHANGED <<container, task>>
         \/ /\ exists' \subseteq exists
            /\ UNCHANGED <<now, starts, mTimer, detached, deleted, msgQ, container, fd, task, poll>>
<1>1. ASSUME NEW c \in Client, NEW delay \in Delay, start(c, delay)
      PROVE  \E d \in LocTimerDelegate : Started(c, d)
  <2> DEFINE d == [id |-> starts + 1, mFutureTime |-> now + delay, client |-> c]
  <2>1. starts + 1 \in 1..MaxStarts /\ now + delay \in 1..MaxTime
    BY <1>1, TimerAssumption DEF start, Types, Numbers
  <2>2. d \in LocTimerDelegate
    BY <2>1 DEF LocTimerDelegate
  <2> QED BY <1>1, <2>2 DEF start, Started
<1>2. ASSUME NEW c \in Client, stop(c) PROVE Stopped(c) /\ UNCHANGED <<container, task>>
  BY <1>2 DEF stop, Stopped
<1>3. ASSUME NEW c \in Client, destroy(c)
      PROVE  \/ Stopped(c) /\ UNCHANGED <<container, task>>
             \/ /\ exists' \subseteq exists
                /\ UNCHANGED <<now, starts, mTimer, detached, deleted, msgQ, container, fd, task, poll>>
  BY <1>3 DEF destroy, Stopped
<1> QED BY <1>1, <1>2, <1>3 DEF ClientStep

-----------------------------------------------------------------------------
(* What the message task does to the heap *)
LEMMA HeapSteps ==
  ASSUME Heaped
  PROVE  /\ Heap!pop => top \in heap /\ top # None /\ heap' = heap \ {top} /\ Heaped'
         /\ \A d \in LocTimerDelegate :
              /\ Heap!push(d) => /\ heap' = heap \cup {d} /\ Heaped'
                                 /\ top' = top \/ (top' = d /\ (top = None \/ outRanks(d, top)))
              /\ Heap!remove(d) => /\ heap' = heap \ {d} /\ Heaped'
                                   /\ d # top => top' = top
<1> USE DelegateParts DEF Heaped, TopOfHeap
<1>0. \A S : S # {} => Heap!TopOf(S) \subseteq S
  BY DEF Heap!TopOf, Heap!Highest
<1>1. Heap!TopOf({}) = {None}
  BY DEF Heap!TopOf
<1>2. ASSUME Heap!pop PROVE top \in heap /\ top # None /\ heap' = heap \ {top} /\ Heaped'
  <2>1. top \in heap /\ top # None /\ heap' = heap \ {top} /\ top' \in Heap!TopOf(heap')
    BY <1>2 DEF Heap!pop
  <2>2. heap' \subseteq LocTimerDelegate
    BY <2>1
  <2>3. CASE heap' = {}
    BY <1>1, <2>1, <2>2, <2>3
  <2>4. CASE heap' # {}
    BY <1>0, <2>1, <2>2, <2>4
  <2> QED BY <2>3, <2>4, <2>1
<1>3. ASSUME NEW d \in LocTimerDelegate, Heap!push(d)
      PROVE  /\ heap' = heap \cup {d} /\ Heaped'
             /\ top' = top \/ (top' = d /\ (top = None \/ outRanks(d, top)))
  BY <1>3 DEF Heap!push
<1>4. ASSUME NEW d \in LocTimerDelegate, Heap!remove(d)
      PROVE  /\ heap' = heap \ {d} /\ Heaped'
             /\ d # top => top' = top
  <2>1. heap' = heap \ {d} /\ heap' \subseteq LocTimerDelegate
    BY <1>4 DEF Heap!remove
  <2>2. CASE d # top
    BY <1>4, <2>1, <2>2 DEF Heap!remove
  <2>3. CASE d = top
    <3>1. top' \in Heap!TopOf(heap')
      BY <1>4, <2>3 DEF Heap!remove
    <3>2. CASE heap' = {}
      BY <1>1, <3>1, <3>2, <2>1, <2>3
    <3>3. CASE heap' # {}
      BY <1>0, <3>1, <3>3, <2>1, <2>3
    <3> QED BY <3>2, <3>3
  <2> QED BY <2>2, <2>3
<1> QED BY <1>2, <1>3, <1>4

(* Looking for the next to expire, the task takes it from the heap, or     *)
(* sees to the fd if there is one left in the heap.                        *)
Looks ==
  \/ /\ top \in heap /\ top # None /\ heap' = heap \ {top} /\ Heaped'
     /\ \E t \in 0..MaxTime : task' = At("expire", top, t)
  \/ /\ UNCHANGED container
     /\ task' \in {Idle, AddPoll}
     /\ top # None => task' = AddPoll

LEMMA PopSteps ==
  ASSUME Heaped, popIfOutRanks, task.time \in 0..MaxTime
  PROVE  Looks
<1>1. CASE Heap!pop /\ task' = At("expire", top, task.time)
  BY <1>1, HeapSteps DEF Looks
<1>2. CASE UNCHANGED container /\ updateSoonestTime(None)
  BY <1>2 DEF Looks, updateSoonestTime, container
<1> QED BY <1>1, <1>2 DEF popIfOutRanks

(* The steps of the message task, each by what it does *)
Received == task = Idle /\ msgQ # <<>> /\ msgQ' = Tail(msgQ)

ReceivedPush(d) ==
  /\ Received /\ Head(msgQ) = Push(d)
  /\ heap' = heap \cup {d} /\ Heaped'
  /\ \/ top' = top /\ task' = Idle
     \/ task' = AddPoll
  /\ UNCHANGED <<now, clients, deleted, fd, poll>>

ReceivedRemove(d) ==
  /\ Received /\ Head(msgQ) = Remove(d)
  /\ heap' = heap \ {d} /\ Heaped'
  /\ \/ (top' = top \/ top' = None) /\ task' = Idle
     \/ task' = AddPoll
  /\ deleted' = deleted \cup {d}
  /\ UNCHANGED <<now, clients, fd, poll>>

ReceivedExpire ==
  /\ Received /\ Head(msgQ) = Expire
  /\ \/ top = None /\ task' = Idle /\ UNCHANGED container
     \/ Looks /\ \E t \in 0..MaxTime : task' = At("expire", top, t)
  /\ UNCHANGED <<now, clients, deleted, fd, poll>>

Goes ==
  \/ Looks
  \/ /\ UNCHANGED container
     /\ \E t \in 0..MaxTime : task' = At("stop", task.timer, t)
  \/ task' = Crashed /\ UNCHANGED container

LEMMA TaskSteps ==
  ASSUME Types, TaskStep
  PROVE  \/ \E d \in LocTimerDelegate : ReceivedPush(d) \/ ReceivedRemove(d)
         \/ ReceivedExpire
         \/ updatePoll \/ updateTime
         \/ /\ task.at \in {"expire", "stop", "callback"}
            /\ Goes
            /\ UNCHANGED <<now, clients, deleted, msgQ, fd, poll>>
         \/ \E c \in Client, t \in 0..MaxTime :
              /\ task.at = "stop" /\ Stopped(c) /\ UNCHANGED container
              /\ task' = At("callback", mTimer[c], t)
<1>0. Heaped /\ Places /\ Messages /\ QueueOK /\ Numbers
  BY DEF Types
<1>1. ASSUME msgQ # <<>> PROVE IsMessage(Head(msgQ))
  BY <1>0, <1>1, QueueTail DEF Messages, QueueOK
<1>2. ASSUME MsgTimerPush PROVE \E d \in LocTimerDelegate : ReceivedPush(d)
  <2>1. PICK d \in LocTimerDelegate : Head(msgQ) = Push(d)
    BY <1>1, <1>2, MessageParts DEF MsgTimerPush, Receive, IsMessage
  <2>2. Heap!push(d)
    BY <1>2, <2>1, MessageParts DEF MsgTimerPush
  <2>3. /\ heap' = heap \cup {d} /\ Heaped'
        /\ top' = top \/ (top' = d /\ (top = None \/ outRanks(d, top)))
    BY <2>2, <1>0, HeapSteps
  <2>4. (top' = top /\ task' = Idle) \/ task' = AddPoll
    BY <2>3, <1>2 DEF MsgTimerPush, updateSoonestTime
  <2> QED BY <1>2, <2>1, <2>3, <2>4 DEF ReceivedPush, Received, MsgTimerPush, Receive, clients
<1>3. ASSUME MsgTimerRemove PROVE \E d \in LocTimerDelegate : ReceivedRemove(d)
  <2>1. PICK d \in LocTimerDelegate : Head(msgQ) = Remove(d)
    BY <1>1, <1>3, MessageParts DEF MsgTimerRemove, Receive, IsMessage
  <2>2. Heap!remove(d) /\ deleted' = deleted \cup {d}
    BY <1>3, <2>1, MessageParts DEF MsgTimerRemove
  <2>3. heap' = heap \ {d} /\ Heaped' /\ (d # top => top' = top)
    BY <2>2, <1>0, HeapSteps
  <2>4. ((top' = top \/ top' = None) /\ task' = Idle) \/ task' = AddPoll
    <3>1. IF top = (IF d \in heap THEN d ELSE None)
            THEN updateSoonestTime(None) ELSE task' = Idle
      BY <1>3, <2>1, MessageParts DEF MsgTimerRemove
    <3>2. CASE top # (IF d \in heap THEN d ELSE None)
      <4>1. d # top
        BY <3>2, <1>0, DelegateParts DEF Heaped
      <4> QED BY <3>1, <3>2, <4>1, <2>3
    <3>3. CASE top = (IF d \in heap THEN d ELSE None)
      BY <3>1, <3>3 DEF updateSoonestTime
    <3> QED BY <3>2, <3>3
  <2> QED BY <1>3, <2>1, <2>2, <2>3, <2>4
          DEF ReceivedRemove, Received, MsgTimerRemove, Receive, clients
<1>4. ASSUME MsgTimerExpire PROVE ReceivedExpire
  <2>1. Head(msgQ) = Expire
    BY <1>1, <1>4, MessageParts DEF MsgTimerExpire, Receive
  <2>2. CASE heap = {}
    BY <1>4, <2>1, <2>2, <1>0
       DEF MsgTimerExpire, Receive, ReceivedExpire, Received, Heaped, container, clients
  <2>3. CASE heap # {}
    <3>1. Heap!pop /\ task' = At("expire", top, now)
      BY <1>4, <2>3 DEF MsgTimerExpire
    <3>2. Looks /\ \E t \in 0..MaxTime : task' = At("expire", top, t)
      BY <3>1, <1>0, HeapSteps DEF Looks, Numbers
    <3> QED BY <1>4, <2>1, <3>2 DEF MsgTimerExpire, Receive, ReceivedExpire, Received, clients
  <2> QED BY <2>2, <2>3
<1>5. ASSUME expire
      PROVE  Goes /\ task.at = "expire" /\ UNCHANGED <<now, clients, deleted, msgQ, fd, poll>>
  <2>1. /\ task.timer \in LocTimerDelegate /\ task.time \in 0..MaxTime
        /\ \A q : [task EXCEPT !.at = q] = At(q, task.timer, task.time)
    BY <1>0, <1>5, Expiring DEF expire, Places
  <2>2. CASE popIfOutRanks
    BY <2>1, <2>2, <1>0, <1>5, PopSteps DEF expire, Goes
  <2>3. CASE UNCHANGED container /\ task' = [task EXCEPT !.at = "stop"]
    <3>1. task' = At("stop", task.timer, task.time)
      BY <2>1, <2>3
    <3> QED BY <2>1, <2>3, <3>1, <1>5 DEF expire, Goes
  <2> QED BY <2>2, <2>3, <1>5 DEF expire
<1>6. ASSUME timeOutCallback
      PROVE  Goes /\ task.at = "callback" /\ UNCHANGED <<now, clients, deleted, msgQ, fd, poll>>
  <2>1. task.time \in 0..MaxTime
    BY <1>0, <1>6, Expiring DEF timeOutCallback, Places
  <2> QED BY <2>1, <1>0, <1>6, PopSteps DEF timeOutCallback, Goes
<1>7. ASSUME expireStop
      PROVE  \/ Goes /\ task.at = "stop" /\ UNCHANGED <<now, clients, deleted, msgQ, fd, poll>>
             \/ \E c \in Client, t \in 0..MaxTime :
                  /\ task.at = "stop" /\ Stopped(c) /\ UNCHANGED container
                  /\ task' = At("callback", mTimer[c], t)
  <2>1. task.timer \in LocTimerDelegate /\ task.time \in 0..MaxTime
    BY <1>0, <1>7, Expiring DEF expireStop, Places
  <2> DEFINE c == task.timer.client
  <2>2. c \in Client
    BY <2>1, DelegateParts
  <2>3. CASE c \in exists /\ mTimer[c] # None
    <3>1. StopRunning(c) /\ task' = At("callback", mTimer[c], task.time) /\ UNCHANGED container
      BY <1>7, <2>3 DEF expireStop
    <3>2. Stopped(c)
      BY <1>7, <2>3, <3>1 DEF expireStop, Stopped
    <3> QED BY <1>7, <2>1, <2>2, <3>1, <3>2 DEF expireStop
  <2>4. CASE ~(c \in exists /\ mTimer[c] # None)
    <3>1. UNCHANGED <<now, clients, deleted, msgQ, fd, poll>> /\ task.at = "stop"
      BY <1>7, <2>4 DEF expireStop, clients
    <3>2. popIfOutRanks \/ (task' = Crashed /\ UNCHANGED container)
      BY <1>7, <2>4 DEF expireStop
    <3>3. Goes
      BY <2>1, <3>2, <1>0, PopSteps DEF Goes
    <3> QED BY <3>1, <3>3
  <2> QED BY <2>3, <2>4
<1> QED BY <1>2, <1>3, <1>4, <1>5, <1>6, <1>7 DEF TaskStep

-----------------------------------------------------------------------------
(* The type invariant *)
Quiet ==
  /\ exists' \subseteq exists
  /\ task' \in {task, SetTime, Idle} /\ (task'.at = "expire" => task' = task)
  /\ UNCHANGED <<starts, mTimer, detached, deleted, msgQ, container>>

(* The steps again, those of the message task that expires something apart *)
Going ==
  /\ task.at \in {"expire", "stop", "callback"}
  /\ Goes
  /\ UNCHANGED <<now, clients, deleted, msgQ, fd, poll>>
StoppedToExpire ==
  \E c \in Client, t \in 0..MaxTime :
    /\ task.at = "stop" /\ Stopped(c) /\ UNCHANGED container
    /\ task' = At("callback", mTimer[c], t)

LEMMA Steps ==
  ASSUME Types, [Next]_vars
  PROVE  \/ Quiet
         \/ \E c \in Client, d \in LocTimerDelegate : Started(c, d)
         \/ \E c \in Client : Stopped(c) /\ UNCHANGED <<container, task>>
         \/ \E d \in LocTimerDelegate : ReceivedPush(d) \/ ReceivedRemove(d)
         \/ ReceivedExpire
         \/ Going \/ StoppedToExpire
         \/ sendExpire
<1> USE PlaceParts
<1>0. exists \subseteq exists
  OBVIOUS
<1>1. CASE Tick \/ UNCHANGED vars \/ run \/ disarm \/ removePoll
  BY <1>0, <1>1 DEF Tick, vars, run, disarm, removePoll, Quiet, clients, container
<1>2. CASE updatePoll \/ updateTime
  BY <1>0, <1>2 DEF updatePoll, updateTime, Quiet, clients, container
<1>3. CASE ClientStep
  BY <1>3, ClientSteps DEF Quiet
<1>4. CASE TaskStep
  BY <1>2, <1>4, TaskSteps DEF Going, StoppedToExpire
<1> QED BY <1>1, <1>3, <1>4 DEF Next, PollStep

LEMMA HeapedStep == Types /\ [Next]_vars => Heaped'
<1> SUFFICES ASSUME Types, [Next]_vars PROVE Heaped'
  OBVIOUS
<1>0. Heaped
  BY DEF Types
<1>1. CASE UNCHANGED container
  BY <1>0, <1>1 DEF container, Heaped, TopOfHeap
<1>2. CASE ReceivedExpire \/ Going
  BY <1>1, <1>2 DEF ReceivedExpire, Going, Goes, Looks
<1>3. CASE \E d \in LocTimerDelegate : ReceivedPush(d) \/ ReceivedRemove(d)
  BY <1>3 DEF ReceivedPush, ReceivedRemove
<1> QED BY <1>1, <1>2, <1>3, Steps DEF Quiet, Started, Stopped, StoppedToExpire, sendExpire

LEMMA SetsStep == Types /\ [Next]_vars => Sets'
<1> SUFFICES ASSUME Types, [Next]_vars PROVE Sets'
  OBVIOUS
<1>0. Sets
  BY DEF Types
<1>1. CASE Quiet \/ sendExpire \/ Going \/ ReceivedExpire
  BY <1>0, <1>1 DEF Quiet, sendExpire, Going, ReceivedExpire, Sets, clients
<1>2. ASSUME NEW c \in Client, NEW d \in LocTimerDelegate, Started(c, d) PROVE Sets'
  BY <1>0, <1>2 DEF Sets, Started
<1>3. ASSUME NEW c \in Client, Stopped(c) PROVE Sets'
  <2>1. mTimer[c] \in LocTimerDelegate
    BY <1>0, <1>3 DEF Sets, Stopped
  <2> QED BY <1>0, <1>3, <2>1 DEF Sets, Stopped, StopRunning
<1>4. ASSUME NEW d \in LocTimerDelegate, ReceivedPush(d) \/ ReceivedRemove(d) PROVE Sets'
  BY <1>0, <1>4 DEF Sets, ReceivedPush, ReceivedRemove, clients
<1> QED BY <1>1, <1>2, <1>3, <1>4, Steps DEF StoppedToExpire

(* What becomes of the queue *)
Grows == \E m : IsMessage(m) /\ msgQ' = Append(msgQ, m)

LEMMA QueueSteps ==
  ASSUME Types, [Next]_vars
  PROVE  UNCHANGED msgQ \/ Grows \/ Received
<1>1. \A c \in Client, d \in LocTimerDelegate : Started(c, d) => Grows
  BY DEF Started, Grows, IsMessage
<1>2. ASSUME NEW c \in Client, Stopped(c) PROVE Grows
  <2>1. mTimer[c] \in LocTimerDelegate
    BY <1>2 DEF Types, Sets, Stopped
  <2> QED BY <1>2, <2>1 DEF Stopped, StopRunning, Grows, IsMessage
<1>3. sendExpire => Grows
  BY DEF sendExpire, Grows, IsMessage
<1>4. Quiet \/ Going => UNCHANGED msgQ
  BY DEF Quiet, Going
<1>5. ReceivedExpire \/ (\E d \in LocTimerDelegate : ReceivedPush(d) \/ ReceivedRemove(d)) => Received
  BY DEF ReceivedExpire, ReceivedPush, ReceivedRemove
<1> QED BY <1>1, <1>2, <1>3, <1>4, <1>5, Steps DEF StoppedToExpire

LEMMA MessagesStep == Types /\ [Next]_vars => QueueOK' /\ Messages'
<1> SUFFICES ASSUME Types, [Next]_vars PROVE QueueOK' /\ Messages'
  OBVIOUS
<1>0. QueueOK /\ Messages
  BY DEF Types
<1>1. CASE UNCHANGED msgQ
  BY <1>0, <1>1 DEF QueueOK, Messages, IsQueue
<1>2. CASE Grows
  <2>1. PICK m : IsMessage(m) /\ msgQ' = Append(msgQ, m)
    BY <1>2 DEF Grows
  <2>2. \A i \in 1..Len(msgQ') : i \in 1..Len(msgQ) \/ i = Len(msgQ) + 1
    BY <1>0, <2>1, QueueAppend DEF QueueOK
  <2>3. \A i \in 1..Len(msgQ') : IsMessage(msgQ'[i])
    BY <1>0, <2>1, <2>2, QueueAppend DEF QueueOK, Messages
  <2> QED BY <1>0, <2>1, <2>3, QueueAppend DEF QueueOK, Messages
<1>3. CASE Received
  <2>1. \A i \in 1..Len(msgQ') : IsMessage(msgQ'[i])
    BY <1>0, <1>3, EachOfTail DEF QueueOK, Messages, Received
  <2> QED BY <1>0, <1>3, <2>1, QueueTail DEF QueueOK, Messages, Received
<1> QED BY <1>1, <1>2, <1>3, QueueSteps

LEMMA NumbersStep == Types /\ [Next]_vars => Numbers'
<1> SUFFICES ASSUME Types, [Next]_vars PROVE Numbers'
  OBVIOUS
<1>0. Numbers
  BY DEF Types
<1>1. CASE UNCHANGED vars \/ PollStep
  BY <1>0, <1>1, TimerAssumption
     DEF vars, PollStep, run, disarm, removePoll, sendExpire, clients, fd, Numbers
<1>2. CASE Tick
  BY <1>0, <1>2, TimerAssumption DEF Tick, clients, fd, Numbers
<1>3. CASE updateTime
  <2>1. top = None \/ top.mFutureTime \in 1..MaxTime
    BY DelegateParts DEF Types, Heaped
  <2> QED BY <1>0, <1>3, <2>1, TimerAssumption DEF updateTime, clients, Numbers
<1>4. CASE updatePoll
  BY <1>0, <1>4 DEF updatePoll, clients, Numbers
<1>5. ASSUME NEW c \in Client, NEW d \in LocTimerDelegate, Started(c, d) PROVE Numbers'
  BY <1>0, <1>5, DelegateParts DEF Started, fd, Numbers
<1>6. ASSUME NEW c \in Client, Stopped(c) PROVE Numbers'
  BY <1>0, <1>6 DEF Stopped, fd, Numbers
<1>7. CASE ClientStep
  BY <1>0, <1>5, <1>6, <1>7, ClientSteps DEF fd, Numbers
<1>8. CASE TaskStep
  BY <1>0, <1>3, <1>4, <1>6, <1>8, TaskSteps
     DEF ReceivedPush, ReceivedRemove, ReceivedExpire, clients, fd, Numbers
<1> QED BY <1>1, <1>2, <1>7, <1>8 DEF Next

LEMMA PolledStep == Types /\ [Next]_vars => (polled \in BOOLEAN)'
<1> SUFFICES ASSUME Types, [Next]_vars, ~UNCHANGED polled PROVE (polled \in BOOLEAN)'
  BY DEF Types
<1>1. removePoll \/ updatePoll
  <2>1. ~ClientStep
    BY ClientSteps DEF Started, Stopped, fd
  <2>2. TaskStep => updatePoll
    BY TaskSteps
       DEF updateTime, ReceivedPush, ReceivedRemove, ReceivedExpire, Stopped, fd
  <2> QED BY <2>1, <2>2 DEF Next, PollStep, Tick, vars, run, disarm, sendExpire, fd
<1> QED BY <1>1 DEF removePoll, updatePoll

LEMMA TaskPlacesStep == Types /\ [Next]_vars => TaskPlaces'
<1> SUFFICES ASSUME Types, [Next]_vars PROVE TaskPlaces'
  OBVIOUS
<1>0. TaskPlaces /\ Heaped /\ Sets /\ poll \in {"wait", "disarm", "removePoll", "post"}
  BY DEF Types, Places
<1>1. CASE Quiet \/ sendExpire
  BY <1>0, <1>1 DEF Quiet, sendExpire, TaskPlaces
<1>2. CASE UNCHANGED task
  BY <1>0, <1>2 DEF TaskPlaces
<1>3. ASSUME Looks PROVE TaskPlaces'
  BY <1>0, <1>3 DEF Looks, TaskPlaces, Heaped
<1>4. CASE Going
  <2>1. task.timer \in LocTimerDelegate
    BY <1>0, <1>4, Expiring DEF Going
  <2>2. CASE Looks
    BY <1>3, <2>2
  <2>3. CASE \E t \in 0..MaxTime : task' = At("stop", task.timer, t)
    BY <2>1, <2>3 DEF TaskPlaces
  <2>4. CASE task' = Crashed
    BY <2>4 DEF TaskPlaces
  <2> QED BY <1>4, <2>2, <2>3, <2>4 DEF Going, Goes
<1>5. CASE StoppedToExpire
  <2>1. PICK c \in Client, t \in 0..MaxTime : mTimer[c] # None /\ task' = At("callback", mTimer[c], t)
    BY <1>5 DEF StoppedToExpire, Stopped
  <2>2. mTimer[c] \in LocTimerDelegate
    BY <1>0, <2>1 DEF Sets
  <2> QED BY <2>1, <2>2 DEF TaskPlaces
<1>6. CASE \E d \in LocTimerDelegate : ReceivedPush(d) \/ ReceivedRemove(d)
  BY <1>6 DEF ReceivedPush, ReceivedRemove, TaskPlaces
<1>7. CASE ReceivedExpire
  BY <1>3, <1>7 DEF ReceivedExpire, TaskPlaces
<1> QED BY <1>1, <1>2, <1>4, <1>5, <1>6, <1>7, Steps DEF Started

LEMMA PlacesStep == Types /\ [Next]_vars => Places'
<1> SUFFICES ASSUME Types, [Next]_vars
             PROVE  (poll \in {"wait", "disarm", "removePoll", "post"})'
  BY TaskPlacesStep DEF Places
<1>0. poll \in {"wait", "disarm", "removePoll", "post"}
  BY DEF Types, Places
<1>1. CASE UNCHANGED poll
  BY <1>0, <1>1
<1>2. CASE PollStep
  BY <1>0, <1>2 DEF PollStep, run, disarm, removePoll, sendExpire
<1>3. CASE Tick \/ UNCHANGED vars \/ ClientStep
  BY <1>1, <1>3, ClientSteps DEF Tick, vars, Started, Stopped
<1>4. CASE TaskStep
  BY <1>1, <1>4, TaskSteps
     DEF ReceivedPush, ReceivedRemove, ReceivedExpire, updatePoll, updateTime, Stopped
<1> QED BY <1>2, <1>3, <1>4 DEF Next

LEMMA TypesStep == Types /\ [Next]_vars => Types'
BY HeapedStep, SetsStep, MessagesStep, NumbersStep, PlacesStep, PolledStep DEF Types

LEMMA TypesInit == Init => Types
<1> SUFFICES ASSUME Init PROVE Types
  OBVIOUS
<1>1. QueueOK /\ Messages
  BY ShortQueues DEF Init, QueueOK, Messages
<1>2. Heaped
  BY DEF Init, Heap!Init, Heaped, TopOfHeap
<1>3. Numbers
  BY TimerAssumption DEF Init, Numbers
<1>4. Sets
  BY DEF Init, Sets
<1>5. Places
  BY DEF Init, Places, TaskPlaces
<1>6. polled \in BOOLEAN
  BY DEF Init
<1> QED BY <1>1, <1>2, <1>3, <1>4, <1>5, <1>6 DEF Types

-----------------------------------------------------------------------------
(* No wake up is lost *)

LEMMA ExpireStays ==
  ASSUME Types, [Next]_vars, ExpireQueued
  PROVE  ExpireQueued' \/ ReceivedExpire
<1>0. QueueOK /\ QueueOK' /\ DOMAIN msgQ = 1..Len(msgQ) /\ DOMAIN msgQ' = 1..Len(msgQ')
  BY TypesStep DEF Types, QueueOK, IsQueue
<1>1. PICK i \in 1..Len(msgQ) : msgQ[i] = Expire
  BY <1>0 DEF ExpireQueued
<1>2. CASE UNCHANGED msgQ
  BY <1>2 DEF ExpireQueued
<1>3. CASE Grows
  <2>1. i \in 1..Len(msgQ') /\ msgQ'[i] = Expire
    BY <1>0, <1>1, <1>3, QueueAppend DEF Grows, QueueOK
  <2> QED BY <1>0, <2>1 DEF ExpireQueued
<1>4. CASE Received /\ Head(msgQ) # Expire
  <2>1. i - 1 \in 1..Len(msgQ') /\ (i - 1) + 1 = i
    BY <1>0, <1>1, <1>4, QueueTail DEF Received, QueueOK
  <2>2. msgQ'[i - 1] = Expire
    BY <1>0, <1>1, <1>4, <2>1, QueueTail DEF Received, QueueOK
  <2> QED BY <1>0, <2>1, <2>2 DEF ExpireQueued
<1>5. CASE Received /\ Head(msgQ) = Expire
  <2>0. /\ Len(msgQ) \in Nat \ {0} /\ Len(msgQ') = Len(msgQ) - 1
        /\ \A m : Len(Append(msgQ, m)) = Len(msgQ) + 1
    <3>1. IsQueue(msgQ) /\ msgQ # <<>> /\ msgQ' = Tail(msgQ)
      BY <1>0, <1>5 DEF Received, QueueOK
    <3>2. Len(msgQ) \in Nat \ {0} /\ Len(Tail(msgQ)) = Len(msgQ) - 1
      BY <3>1, QueueTail
    <3>3. \A m : Len(Append(msgQ, m)) = Len(msgQ) + 1
      BY <3>1, QueueAppend
    <3> QED BY <3>1, <3>2, <3>3
  <2>1. task = Idle /\ msgQ' # msgQ
    <3>1. Len(msgQ') # Len(msgQ)
      BY <2>0
    <3>2. msgQ' # msgQ
      BY <3>1
    <3> QED BY <1>5, <3>2 DEF Received
  <2>2. ~Grows
    BY <2>0 DEF Grows
  <2>3. \A c \in Client, d \in LocTimerDelegate : ~Started(c, d)
    BY <2>2 DEF Started, Grows, IsMessage
  <2>4. \A c \in Client : ~Stopped(c)
    BY <2>2 DEF Stopped, StopRunning, Grows, IsMessage, Types, Sets
  <2>5. \A d : Expire # Push(d) /\ Expire # Remove(d)
    BY DEF Expire, Push, Remove
  <2> QED BY <1>5, <2>1, <2>2, <2>3, <2>4, <2>5, Steps
          DEF Quiet, ReceivedPush, ReceivedRemove, Going, StoppedToExpire, sendExpire, Grows, IsMessage
<1> QED BY <1>2, <1>3, <1>4, <1>5, QueueSteps

LEMMA WakeupStep == IInv /\ [Next]_vars => (PolledBetween /\ NoLostWakeup)'
<1> SUFFICES ASSUME IInv, [Next]_vars PROVE (PolledBetween /\ NoLostWakeup)'
  OBVIOUS
<1> USE PlaceParts
<1>0. Types /\ PolledBetween /\ NoLostWakeup /\ (ExpireQueued => ExpireQueued' \/ ReceivedExpire)
  <2>1. Types
    BY TypeParts DEF IInv, Delegates, Types
  <2> QED BY <2>1, ExpireStays DEF IInv
<1>1. CASE ReceivedExpire
  BY <1>1 DEF ReceivedExpire, Received, Looks, PolledBetween, NoLostWakeup, container
<1> SUFFICES ASSUME ~ReceivedExpire, ExpireQueued => ExpireQueued'
             PROVE  (PolledBetween /\ NoLostWakeup)'
  BY <1>0, <1>1
<1>2. CASE Tick \/ UNCHANGED vars
  BY <1>0, <1>2 DEF Tick, vars, container, fd, PolledBetween, NoLostWakeup, ExpireQueued
<1>3. CASE ClientStep
  BY <1>0, <1>3, ClientSteps
     DEF Started, Stopped, container, fd, PolledBetween, NoLostWakeup, ExpireQueued
<1>4. CASE run \/ disarm \/ removePoll
  BY <1>0, <1>4
     DEF run, disarm, removePoll, container, fd, PolledBetween, NoLostWakeup, ExpireQueued
<1>5. CASE sendExpire
  <2>1. ExpireQueued'
    <3>1. QueueOK /\ QueueOK' /\ DOMAIN msgQ' = 1..Len(msgQ')
      BY <1>0, TypesStep DEF Types, QueueOK, IsQueue
    <3>2. Len(msgQ) + 1 \in 1..Len(msgQ') /\ msgQ'[Len(msgQ) + 1] = Expire
      BY <1>5, <3>1, QueueAppend DEF sendExpire, QueueOK
    <3> QED BY <3>1, <3>2 DEF ExpireQueued
  <2> QED BY <2>1 DEF PolledBetween, NoLostWakeup, ExpireQueued
<1>6. CASE updatePoll
  BY <1>0, <1>6 DEF updatePoll, container, PolledBetween, NoLostWakeup, ExpireQueued
<1>7. CASE updateTime
  BY <1>0, <1>7 DEF updateTime, container, PolledBetween, NoLostWakeup, ExpireQueued
<1>8. CASE \E d \in LocTimerDelegate : ReceivedPush(d) \/ ReceivedRemove(d)
  BY <1>0, <1>8
     DEF ReceivedPush, ReceivedRemove, Received, fd, PolledBetween, NoLostWakeup, ExpireQueued
<1>9. CASE Going
  BY <1>0, <1>9
     DEF Going, Goes, Looks, container, PolledBetween, NoLostWakeup
<1>10. CASE StoppedToExpire
  BY <1>10 DEF StoppedToExpire, PolledBetween, NoLostWakeup
<1>11. CASE TaskStep
  BY <1>0, <1>6, <1>7, <1>8, <1>9, <1>10, <1>11, TaskSteps DEF Going, StoppedToExpire
<1> QED BY <1>2, <1>3, <1>4, <1>5, <1>11 DEF Next, PollStep

-----------------------------------------------------------------------------
(* Delegates are deleted when nobody is left with them *)

LEMMA RunningStep ==
  IInv /\ [Next]_vars => (RunningAttached /\ DeletedDetached /\ HeldLive)'
<1> SUFFICES ASSUME IInv, [Next]_vars PROVE (RunningAttached /\ DeletedDetached /\ HeldLive)'
  OBVIOUS
<1> USE PlaceParts
<1>0. /\ Types /\ Sets /\ Heaped /\ Numbers /\ QueueOK
      /\ RunningAttached /\ DeletedDetached /\ HeldLive
  BY TypeParts DEF IInv, Delegates, Types
<1>1. CASE Quiet
  BY <1>0, <1>1 DEF Quiet, container, RunningAttached, DeletedDetached, HeldLive
<1>2. ASSUME NEW c \in Client, NEW d \in LocTimerDelegate, Started(c, d)
      PROVE  (RunningAttached /\ DeletedDetached /\ HeldLive)'
  <2>1. d \notin detached
    BY <1>0, <1>2 DEF Started, DeletedDetached, Numbers
  <2>2. \A e \in detached : e.id \in Nat /\ e.id <= starts
    BY <1>0, DelegateParts DEF DeletedDetached, Sets
  <2>3. \A b \in Client : mTimer[b] # None => mTimer[b].id \in Nat
    BY <1>0, DelegateParts DEF Sets
  <2>4. RunningAttached'
    BY <1>0, <1>2, <2>1, <2>3, DelegateParts DEF Started, RunningAttached, Sets, Numbers
  <2>5. DeletedDetached'
    BY <1>0, <1>2, <2>2 DEF Started, DeletedDetached, Numbers
  <2>6. HeldLive'
    BY <1>0, <1>2 DEF Started, HeldLive, container
  <2> QED BY <2>4, <2>5, <2>6
<1>3. ASSUME NEW c \in Client, Stopped(c) PROVE (RunningAttached /\ DeletedDetached)'
  <2>1. /\ mTimer[c] \in LocTimerDelegate /\ mTimer[c].id <= starts
        /\ \A b \in Client \ {c} : mTimer[b] # None => mTimer[b] # mTimer[c]
    BY <1>0, <1>3 DEF Stopped, RunningAttached, Sets
  <2>2. RunningAttached'
    BY <1>0, <1>3, <2>1 DEF Stopped, StopRunning, RunningAttached, Sets
  <2>3. DeletedDetached'
    BY <1>0, <1>3, <2>1 DEF Stopped, StopRunning, DeletedDetached
  <2> QED BY <2>2, <2>3
<1>4. CASE \E c \in Client : Stopped(c) /\ UNCHANGED <<container, task>>
  <2>1. HeldLive'
    BY <1>0, <1>4 DEF Stopped, container, HeldLive
  <2> QED BY <1>3, <1>4, <2>1
<1>5. ASSUME NEW d \in LocTimerDelegate, ReceivedPush(d)
      PROVE  (RunningAttached /\ DeletedDetached /\ HeldLive)'
  <2>1. d \notin deleted
    <3>1. Head(msgQ) = msgQ[1] /\ 1 \in DOMAIN msgQ
      BY <1>0, <1>5, QueueTail DEF ReceivedPush, Received, QueueOK, IsQueue
    <3> QED BY <1>5, <3>1, MessageParts DEF ReceivedPush, IInv, Delegates, MessagesLive
  <2>2. HeldLive'
    BY <1>0, <1>5, <2>1 DEF ReceivedPush, HeldLive, Received
  <2> QED BY <1>0, <1>5, <2>2 DEF ReceivedPush, clients, RunningAttached, DeletedDetached
<1>6. ASSUME NEW d \in LocTimerDelegate, ReceivedRemove(d)
      PROVE  (RunningAttached /\ DeletedDetached /\ HeldLive)'
  <2>1. d \in detached
    <3>1. Head(msgQ) = msgQ[1] /\ 1 \in DOMAIN msgQ
      BY <1>0, <1>6, QueueTail DEF ReceivedRemove, Received, QueueOK, IsQueue
    <3> QED BY <1>6, <3>1, MessageParts DEF ReceivedRemove, IInv, Delegates, MessagesLive
  <2>2. HeldLive'
    BY <1>0, <1>6 DEF ReceivedRemove, HeldLive, Received
  <2> QED BY <1>0, <1>6, <2>1, <2>2 DEF ReceivedRemove, clients, RunningAttached, DeletedDetached
<1>7. CASE ReceivedExpire \/ Going
  <2>1. Looks \/ (UNCHANGED container /\ task'.at # "expire")
    BY <1>7 DEF ReceivedExpire, Going, Goes
  <2>2. HeldLive'
    BY <1>0, <1>7, <2>1 DEF Looks, ReceivedExpire, Going, container, HeldLive
  <2> QED BY <1>0, <1>7, <2>2 DEF ReceivedExpire, Going, clients, RunningAttached, DeletedDetached
<1>8. CASE StoppedToExpire
  <2>1. HeldLive'
    BY <1>0, <1>8 DEF StoppedToExpire, Stopped, container, HeldLive
  <2> QED BY <1>3, <1>8, <2>1 DEF StoppedToExpire
<1>9. CASE sendExpire
  BY <1>0, <1>9
     DEF sendExpire, clients, container, RunningAttached, DeletedDetached, HeldLive
<1> QED BY <1>1, <1>2, <1>4, <1>5, <1>6, <1>7, <1>8, <1>9, Steps, <1>0

MessagesAgree == MessagesLive /\ RemoveLast /\ RemoveSent

(* A message is added, about a delegate that is not deleted and has no     *)
(* removal in the queue.                                                   *)
LEMMA AgreeAppend ==
  ASSUME QueueOK, QueueOK', MessagesAgree, NEW m, msgQ' = Append(msgQ, m),
         deleted' = deleted, detached \subseteq detached',
         m.timer \notin deleted',
         m.msg = "MsgTimerRemove" => m.timer \in detached',
         \A i \in 1..Len(msgQ) : msgQ[i].msg = "MsgTimerRemove" => m.timer # msgQ[i].timer,
         \A d \in detached' \ detached : m = Remove(d)
  PROVE  MessagesAgree'
<1>0. /\ Len(msgQ) \in Nat
      /\ DOMAIN msgQ = 1..Len(msgQ) /\ DOMAIN msgQ' = 1..(Len(msgQ) + 1)
      /\ msgQ'[Len(msgQ) + 1] = m /\ \A i \in 1..Len(msgQ) : msgQ'[i] = msgQ[i]
  <2>1. IsQueue(msgQ) /\ IsQueue(msgQ')
    BY DEF QueueOK
  <2>2. DOMAIN msgQ = 1..Len(msgQ) /\ DOMAIN msgQ' = 1..Len(msgQ')
    BY <2>1 DEF IsQueue
  <2> QED BY <2>1, <2>2, QueueAppend
<1>1. MessagesLive'
  BY <1>0 DEF MessagesAgree, MessagesLive
<1>2. RemoveLast'
  <2> SUFFICES ASSUME NEW i \in 1..(Len(msgQ) + 1), NEW j \in 1..(Len(msgQ) + 1), i < j,
                      msgQ'[i].msg = "MsgTimerRemove"
               PROVE  msgQ'[j].timer # msgQ'[i].timer
    BY <1>0 DEF RemoveLast
  <2>1. i \in 1..Len(msgQ) /\ (j \in 1..Len(msgQ) \/ j = Len(msgQ) + 1)
    BY <1>0
  <2> QED BY <1>0, <2>1 DEF MessagesAgree, RemoveLast
<1>3. RemoveSent'
  <2> SUFFICES ASSUME NEW d \in detached' \ deleted PROVE \E i \in 1..(Len(msgQ) + 1) : msgQ'[i] = Remove(d)
    BY <1>0 DEF RemoveSent
  <2>1. CASE d \in detached
    <3>1. PICK i \in 1..Len(msgQ) : msgQ[i] = Remove(d)
      BY <1>0, <2>1 DEF MessagesAgree, RemoveSent
    <3>2. i \in 1..(Len(msgQ) + 1) /\ msgQ'[i] = Remove(d)
      BY <1>0, <3>1
    <3> QED BY <3>2
  <2>2. CASE d \notin detached
    <3>1. Len(msgQ) + 1 \in 1..(Len(msgQ) + 1)
      BY <1>0
    <3> QED BY <1>0, <2>2, <3>1
  <2> QED BY <2>1, <2>2
<1> QED BY <1>1, <1>2, <1>3 DEF MessagesAgree

(* The first message is taken; a delegate is deleted if it was its removal. *)
LEMMA AgreeTail ==
  ASSUME QueueOK, QueueOK', MessagesAgree, msgQ # <<>>, msgQ' = Tail(msgQ),
         UNCHANGED detached,
         \A d \in deleted' \ deleted : Head(msgQ) = Remove(d),
         deleted \subseteq deleted',
         \A d : Head(msgQ) = Remove(d) => d \in deleted'
  PROVE  MessagesAgree'
<1>0. /\ Len(msgQ) \in Nat \ {0}
      /\ DOMAIN msgQ = 1..Len(msgQ) /\ DOMAIN msgQ' = 1..(Len(msgQ) - 1)
      /\ Head(msgQ) = msgQ[1] /\ \A i \in 1..(Len(msgQ) - 1) : msgQ'[i] = msgQ[i + 1]
  <2>1. IsQueue(msgQ) /\ IsQueue(msgQ')
    BY DEF QueueOK
  <2>2. DOMAIN msgQ = 1..Len(msgQ) /\ DOMAIN msgQ' = 1..Len(msgQ')
    BY <2>1 DEF IsQueue
  <2> QED BY <2>1, <2>2, QueueTail
<1>1. \A i \in 1..(Len(msgQ) - 1) : i + 1 \in 1..Len(msgQ) /\ 1 < i + 1
  BY <1>0
<1>2. MessagesLive'
  <2> SUFFICES ASSUME NEW i \in 1..(Len(msgQ) - 1)
               PROVE  /\ msgQ[i + 1].timer \notin deleted'
                      /\ msgQ[i + 1].msg = "MsgTimerRemove" => msgQ[i + 1].timer \in detached
    BY <1>0 DEF MessagesLive
  <2>1. /\ msgQ[i + 1].timer \notin deleted
        /\ msgQ[i + 1].msg = "MsgTimerRemove" => msgQ[i + 1].timer \in detached
        /\ msgQ[1].msg = "MsgTimerRemove" => msgQ[i + 1].timer # msgQ[1].timer
    BY <1>0, <1>1 DEF MessagesAgree, MessagesLive, RemoveLast
  <2>2. \A d \in deleted' \ deleted : msgQ[i + 1].timer # d
    BY <1>0, <2>1, MessageParts
  <2> QED BY <2>1, <2>2
<1>3. RemoveLast'
  <2> SUFFICES ASSUME NEW i \in 1..(Len(msgQ) - 1), NEW j \in 1..(Len(msgQ) - 1), i < j,
                      msgQ[i + 1].msg = "MsgTimerRemove"
               PROVE  msgQ[j + 1].timer # msgQ[i + 1].timer
    BY <1>0 DEF RemoveLast
  <2>1. i + 1 < j + 1
    BY <1>0
  <2> QED BY <1>0, <1>1, <2>1 DEF MessagesAgree, RemoveLast
<1>4. RemoveSent'
  <2> SUFFICES ASSUME NEW d \in detached \ deleted'
               PROVE  \E i \in 1..(Len(msgQ) - 1) : msgQ'[i] = Remove(d)
    BY <1>0 DEF RemoveSent
  <2>1. PICK i \in 1..Len(msgQ) : msgQ[i] = Remove(d)
    BY <1>0 DEF MessagesAgree, RemoveSent
  <2>2. i # 1
    BY <1>0, <2>1
  <2>3. i - 1 \in 1..(Len(msgQ) - 1) /\ (i - 1) + 1 = i
    BY <1>0, <2>1, <2>2
  <2> QED BY <1>0, <2>1, <2>3
<1> QED BY <1>2, <1>3, <1>4 DEF MessagesAgree

LEMMA AgreeStep == IInv /\ [Next]_vars => MessagesAgree'
<1> SUFFICES ASSUME IInv, [Next]_vars PROVE MessagesAgree'
  OBVIOUS
<1> USE MessageParts
<1>0. /\ Types /\ QueueOK /\ QueueOK' /\ Sets /\ Messages /\ DOMAIN msgQ = 1..Len(msgQ)
      /\ RunningAttached /\ DeletedDetached /\ MessagesAgree /\ MessagesLive
  <2>1. Types /\ QueueOK /\ Sets /\ Messages
    BY TypeParts DEF IInv, Delegates, Types
  <2>2. QueueOK' /\ DOMAIN msgQ = 1..Len(msgQ)
    BY <2>1, TypesStep DEF Types, QueueOK, IsQueue
  <2> QED BY <2>1, <2>2 DEF IInv, Delegates, MessagesAgree
<1>1. \A i \in 1..Len(msgQ) :
        msgQ[i].msg = "MsgTimerRemove" => msgQ[i].timer \in detached /\ msgQ[i].timer \in LocTimerDelegate
  BY <1>0 DEF MessagesLive, Messages
<1>2. CASE UNCHANGED <<msgQ, detached, deleted>>
  BY <1>0, <1>2 DEF MessagesAgree, MessagesLive, RemoveLast, RemoveSent
<1>3. CASE Quiet \/ Going
  BY <1>2, <1>3 DEF Quiet, Going, clients
<1>4. ASSUME NEW c \in Client, NEW d \in LocTimerDelegate, Started(c, d) PROVE MessagesAgree'
  <2>1. /\ msgQ' = Append(msgQ, Push(d)) /\ UNCHANGED <<detached, deleted>>
        /\ d.id = starts + 1
    BY <1>4 DEF Started
  <2>2. d \notin detached /\ d \notin deleted
    BY <1>0, <2>1 DEF DeletedDetached, Types, Numbers
  <2>3. \A i \in 1..Len(msgQ) : msgQ[i].msg = "MsgTimerRemove" => Push(d).timer # msgQ[i].timer
    BY <1>1, <2>2
  <2> QED BY <1>0, <2>1, <2>2, <2>3, AgreeAppend
<1>5. ASSUME NEW c \in Client, Stopped(c) PROVE MessagesAgree'
  <2> DEFINE d == mTimer[c]
  <2>1. /\ msgQ' = Append(msgQ, Remove(d)) /\ detached' = detached \cup {d}
        /\ deleted' = deleted
    BY <1>5 DEF Stopped, StopRunning
  <2>2. d \notin detached /\ d \notin deleted
    BY <1>0, <1>5 DEF Stopped, RunningAttached, DeletedDetached
  <2>3. \A i \in 1..Len(msgQ) : msgQ[i].msg = "MsgTimerRemove" => Remove(d).timer # msgQ[i].timer
    BY <1>1, <2>2
  <2> HIDE DEF d
  <2>4. /\ detached \subseteq detached' /\ Remove(d).timer \notin deleted'
        /\ Remove(d).timer \in detached'
        /\ \A e \in detached' \ detached : Remove(d) = Remove(e)
    BY <2>1, <2>2
  <2> QED BY <1>0, <2>1, <2>3, <2>4, AgreeAppend
<1>6. CASE sendExpire
  <2>1. msgQ' = Append(msgQ, Expire) /\ UNCHANGED <<detached, deleted>>
    BY <1>6 DEF sendExpire, clients
  <2>2. \A i \in 1..Len(msgQ) : msgQ[i].msg = "MsgTimerRemove" => Expire.timer # msgQ[i].timer
    BY <1>1, DelegateParts
  <2>3. Expire.timer \notin deleted
    BY <1>0, DelegateParts DEF Sets
  <2> QED BY <1>0, <2>1, <2>2, <2>3, AgreeAppend
<1>7. ASSUME NEW d \in LocTimerDelegate, ReceivedPush(d) PROVE MessagesAgree'
  <2>1. /\ msgQ # <<>> /\ msgQ' = Tail(msgQ) /\ UNCHANGED <<detached, deleted>>
        /\ \A e : Head(msgQ) # Remove(e)
    BY <1>7 DEF ReceivedPush, Received, clients, Push, Remove
  <2> QED BY <1>0, <2>1, AgreeTail
<1>8. CASE ReceivedExpire
  <2>1. /\ msgQ # <<>> /\ msgQ' = Tail(msgQ) /\ UNCHANGED <<detached, deleted>>
        /\ \A e : Head(msgQ) # Remove(e)
    BY <1>8 DEF ReceivedExpire, Received, clients, Expire, Remove
  <2> QED BY <1>0, <2>1, AgreeTail
<1>9. ASSUME NEW d \in LocTimerDelegate, ReceivedRemove(d) PROVE MessagesAgree'
  <2>1. /\ msgQ # <<>> /\ msgQ' = Tail(msgQ) /\ UNCHANGED detached
        /\ deleted' = deleted \cup {d} /\ Head(msgQ) = Remove(d)
    BY <1>9 DEF ReceivedRemove, Received, clients
  <2>2. \A e : Head(msgQ) = Remove(e) => e = d
    BY <2>1
  <2> QED BY <1>0, <2>1, <2>2, AgreeTail
<1> QED BY <1>0, <1>3, <1>4, <1>5, <1>6, <1>7, <1>8, <1>9, Steps DEF StoppedToExpire

LEMMA Inductive == Spec => []IInv
<1>1. Init => IInv
  <2> SUFFICES ASSUME Init PROVE IInv
    OBVIOUS
  <2>1. TypeOK /\ TopOfHeap /\ QueueOK
    BY TypesInit, TypeParts DEF Types
  <2>2. DOMAIN msgQ = {}
    BY DEF Init
  <2>3. RunningAttached /\ DeletedDetached /\ HeldLive
    BY PlaceParts DEF Init, Heap!Init, RunningAttached, DeletedDetached, HeldLive
  <2>4. MessagesLive /\ RemoveLast /\ RemoveSent
    BY <2>2 DEF Init, MessagesLive, RemoveLast, RemoveSent
  <2>5. PolledBetween /\ NoLostWakeup
    BY DEF Init, Heap!Init, PolledBetween, NoLostWakeup
  <2> QED BY <2>1, <2>3, <2>4, <2>5 DEF IInv, Delegates
<1>2. IInv /\ [Next]_vars => IInv'
  <2> SUFFICES ASSUME IInv, [Next]_vars PROVE IInv'
    OBVIOUS
  <2>1. Types
    BY TypeParts DEF IInv, Delegates, Types
  <2>2. Types'
    BY <2>1, TypesStep
  <2>3. (TypeOK /\ TopOfHeap /\ QueueOK)'
    <3>1. DOMAIN msgQ' = 1..Len(msgQ')
      BY <2>2 DEF Types, QueueOK, IsQueue
    <3> QED BY <2>2, <3>1
            DEF Types, TypeOK, Numbers, Sets, Heaped, Messages, Places, TaskPlaces, IsMessage
  <2> QED BY <2>3, RunningStep, AgreeStep, WakeupStep DEF IInv, Delegates, MessagesAgree
<1> QED BY <1>1, <1>2, PTL DEF Spec

(* The poll thread's unlocked system calls never lose a wake up of the     *)
(* message task's (updateSoonestTime and LocTimerPollTask::run).           *)
THEOREM WakeupKept == Spec => []NoLostWakeup
<1>1. IInv => NoLostWakeup
  BY DEF IInv
<1> QED BY <1>1, Inductive, PTL

(* "all timers are deleted here, and only here" (MsgTimerRemove): once     *)
(* each, and never while someone is left with one.                         *)
THEOREM DeletedOnce == Spec => []DelegatesDeleted
<1>1. IInv => DelegatesDeleted
  <2> SUFFICES ASSUME IInv PROVE DelegatesDeleted
    OBVIOUS
  <2> USE MessageParts
  <2>1. /\ TypeOK /\ RunningAttached /\ DeletedDetached /\ HeldLive
        /\ MessagesLive /\ RemoveLast /\ RemoveSent
    BY DEF IInv, Delegates
  <2>2. DOMAIN msgQ = 1..Len(msgQ) /\ Len(msgQ) \in Nat
    BY QueueAppend DEF IInv, Delegates, QueueOK, IsQueue
  <2>3. DeletedUnused
    <3>1. \A d \in deleted, c \in Client : mTimer[c] # d
      <4>1. deleted \subseteq LocTimerDelegate
        BY <2>1 DEF TypeOK
      <4>2. /\ deleted \subseteq detached
            /\ \A c \in Client : mTimer[c] # None => mTimer[c] \notin detached
        BY <2>1 DEF RunningAttached, DeletedDetached
      <4>3. \A d \in deleted : d # None
        BY <4>1, DelegateParts
      <4> QED BY <4>2, <4>3
    <3> QED BY <2>1, <3>1 DEF DeletedUnused, HeldLive, MessagesLive
  <2>4. DetachedDeleted
    <3> SUFFICES ASSUME NEW d \in detached \ deleted
                 PROVE  \E i \in DOMAIN msgQ :
                          /\ msgQ[i] = Remove(d)
                          /\ \A j \in DOMAIN msgQ : msgQ[j] = Remove(d) => j = i
      BY DEF DetachedDeleted
    <3>1. PICK i \in DOMAIN msgQ : msgQ[i] = Remove(d)
      BY <2>1 DEF RemoveSent
    <3>2. ASSUME NEW j \in DOMAIN msgQ, msgQ[j] = Remove(d) PROVE ~(i < j) /\ ~(j < i)
      BY <2>1, <3>1, <3>2 DEF RemoveLast
    <3>3. \A j \in DOMAIN msgQ : msgQ[j] = Remove(d) => j = i
      BY <2>2, <3>2
    <3> QED BY <3>1, <3>3
  <2> QED BY <2>1, <2>3, <2>4 DEF DelegatesDeleted
<1> QED BY <1>1, Inductive, PTL

-----------------------------------------------------------------------------
(* The heap: its tree between two calls, and while data is on its way down *)

Sides == {"left", "right"}
Paths == Seq(Sides)
Children(p) == {mLeft(p), mRight(p)}

(* What is so at any time: nodes are paths from the top over nodes, with   *)
(* data of different addresses.                                            *)
TreeOK ==
  /\ Nodes \subseteq Paths /\ IsFiniteSet(Nodes)
  /\ mData \in [Nodes -> Elem] /\ mSize \in [Nodes -> Nat]
  /\ \A p \in Nodes : \A q \in Paths : Within(q, p) => q \in Nodes
  /\ \A p, q \in Nodes : mData[p].addr = mData[q].addr => p = q

(* Nothing outranks what is above it, but perhaps the data of `odd`.       *)
OrderedBut(odd) ==
  \A p, q \in Nodes : Within(p, q) /\ q \notin odd => ~OutRanks(mData[q], mData[p])

(* The sizes s of the nodes N count the two subtrees and `due` nodes more  *)
(* above `at`, which come or go there still.                               *)
SizeIn(N, s, p) == IF p \in N THEN s[p] ELSE 0
Sized(N, s, at, due) ==
  /\ \A p \in N :
       s[p] = 1 + SizeIn(N, s, mLeft(p)) + SizeIn(N, s, mRight(p))
                + (IF at \in Children(p) THEN due ELSE 0)
  /\ SizeIn(N, s, mTree) = Cardinality(N) + (IF at = mTree THEN 0 ELSE due)

Hangs(p) == p = mTree \/ \E q \in Nodes : p \in Children(q)

(* x may be pushed down to p; the data of p may be taken away.             *)
Coming(p, x) ==
  /\ p \in Paths /\ Hangs(p) /\ x \in Elem
  /\ \A q \in Nodes : mData[q].addr # x.addr
  /\ \A q \in Nodes : Within(q, p) /\ q # p => ~OutRanks(x, mData[q])
  /\ OrderedBut({}) /\ Sized(Nodes, mSize, p, 1)
Leaving(p, s) ==
  /\ p \in Nodes /\ s \in [Nodes -> Nat]
  /\ OrderedBut({p}) /\ Sized(Nodes, s, p, -1)

HeapInv ==
  /\ TreeOK
  /\ \/ call = NoCall /\ OrderedBut({}) /\ Sized(Nodes, mSize, mTree, 0)
     \/ /\ call.fn = "push" /\ call = [fn |-> "push", node |-> call.node, data |-> call.data]
        /\ call.node # mTree /\ Coming(call.node, call.data)
     \/ /\ call.fn = "pop" /\ call = [fn |-> "pop", node |-> call.node]
        /\ call.node # mTree /\ Leaving(call.node, mSize)

(* Paths, and what is within what                                          *)
LEMMA PathChildren ==
  ASSUME NEW p \in Paths, NEW c \in Children(p)
  PROVE  /\ c \in Paths /\ c # mTree /\ c # p /\ Len(c) = Len(p) + 1
         /\ Within(p, c) /\ ~Within(c, p)
         /\ \A i \in 1..Len(p) : c[i] = p[i]
         /\ mLeft(p) # mRight(p)
<1>1. PICK d \in Sides : c = Append(p, d)
  BY DEF Children, mLeft, mRight, Sides
<1>2. Len(p) \in Nat /\ c \in Paths /\ Len(c) = Len(p) + 1 /\ \A i \in 1..Len(p) : c[i] = p[i]
  BY <1>1 DEF Paths
<1>3. mLeft(p) # mRight(p)
  <2>1. mLeft(p)[Len(p) + 1] = "left" /\ mRight(p)[Len(p) + 1] = "right"
    BY DEF mLeft, mRight, Paths, Sides
  <2> QED BY <2>1
<1>4. c # mTree /\ c # p
  BY <1>2 DEF mTree
<1>5. Within(p, c) /\ ~Within(c, p)
  BY <1>2 DEF Within
<1> QED BY <1>2, <1>3, <1>4, <1>5

LEMMA WithinOrder ==
  /\ mTree \in Paths
  /\ \A p \in Paths : Within(p, p) /\ Within(mTree, p) /\ (Within(p, mTree) => p = mTree)
  /\ \A p, q, r \in Paths : Within(p, q) /\ Within(q, r) => Within(p, r)
  /\ \A p, q \in Paths : Within(p, q) /\ Within(q, p) => p = q
<1>1. mTree \in Paths /\ Len(mTree) = 0
  BY DEF mTree, Paths
<1>2. ASSUME NEW p \in Paths
      PROVE  Within(p, p) /\ Within(mTree, p) /\ (Within(p, mTree) => p = mTree)
  <2>1. Len(p) \in Nat
    BY DEF Paths
  <2>2. Within(p, p) /\ Within(mTree, p)
    BY <1>1, <2>1 DEF Within
  <2>3. Len(p) <= 0 => p = <<>>
    BY <2>1 DEF Paths
  <2> QED BY <1>1, <2>2, <2>3 DEF Within, mTree
<1>3. ASSUME NEW p \in Paths, NEW q \in Paths, NEW r \in Paths, Within(p, q), Within(q, r)
      PROVE  Within(p, r)
  <2>1. Len(p) \in Nat /\ Len(q) \in Nat /\ Len(r) \in Nat
    BY DEF Paths
  <2> QED BY <1>3, <2>1 DEF Within
<1>4. ASSUME NEW p \in Paths, NEW q \in Paths, Within(p, q), Within(q, p)
      PROVE  p = q
  <2>1. Len(p) \in Nat /\ Len(q) \in Nat
    BY DEF Paths
  <2>2. Len(p) = Len(q) /\ \A i \in 1..Len(p) : p[i] = q[i]
    BY <1>4, <2>1 DEF Within
  <2>3. IsQueue(p) /\ IsQueue(q)
    BY QueueOf DEF Paths
  <2> QED BY <2>2, <2>3, SameQueue
<1> QED BY <1>1, <1>2, <1>3, <1>4

(* What has a child in its subtree is the child or above it.               *)
LEMMA AboveChild ==
  ASSUME NEW p \in Paths, NEW q \in Paths, NEW c \in Children(p)
  PROVE  Within(q, c) <=> q = c \/ Within(q, p)
<1>1. /\ c \in Paths /\ Len(c) = Len(p) + 1 /\ \A i \in 1..Len(p) : c[i] = p[i]
      /\ Len(p) \in Nat /\ Len(q) \in Nat
  BY PathChildren DEF Paths
<1>2. ASSUME Within(q, p) PROVE Within(q, c)
  BY <1>1, <1>2 DEF Within
<1>3. ASSUME Within(q, c), q # c PROVE Within(q, p)
  <2>1. CASE Len(q) <= Len(p)
    BY <1>1, <1>3, <2>1 DEF Within
  <2>2. CASE Len(q) = Len(c)
    <3>1. Within(c, q)
      BY <1>1, <1>3, <2>2 DEF Within
    <3> QED BY <1>1, <1>3, <3>1, WithinOrder
  <2> QED BY <1>1, <1>3, <2>1, <2>2 DEF Within
<1> QED BY <1>1, <1>2, <1>3, WithinOrder

(* Below a node is all that is within one of its children, and only one.   *)
LEMMA BelowChild ==
  ASSUME NEW p \in Paths, NEW q \in Paths, Within(p, q), p # q
  PROVE  /\ Within(mLeft(p), q) \/ Within(mRight(p), q)
         /\ ~(Within(mLeft(p), q) /\ Within(mRight(p), q))
<1>1. Len(p) \in Nat /\ Len(q) \in Nat
  BY DEF Paths
<1>2. Len(p) < Len(q)
  <2>1. CASE Len(p) = Len(q)
    <3>1. Within(q, p)
      BY <1>1, <2>1 DEF Within
    <3> QED BY <3>1, WithinOrder
  <2> QED BY <1>1, <2>1 DEF Within
<1>3. PICK n : n = Len(p) + 1
  OBVIOUS
<1>4. n \in 1..Len(q) /\ q[n] \in Sides
  BY <1>1, <1>2, <1>3 DEF Paths
<1>5. ASSUME NEW d \in Sides, NEW c, c = Append(p, d)
      PROVE  Within(c, q) <=> q[n] = d
  <2>1. Len(c) = n /\ c[n] = d /\ \A i \in 1..Len(p) : c[i] = p[i]
    BY <1>1, <1>3, <1>5 DEF Paths
  <2>2. \A i \in 1..n : i = n \/ i \in 1..Len(p)
    BY <1>1, <1>3
  <2>3. \A i \in 1..Len(p) : p[i] = q[i]
    BY DEF Within
  <2> QED BY <1>1, <1>2, <1>3, <1>4, <2>1, <2>2, <2>3 DEF Within
<1>6. /\ Within(mLeft(p), q) <=> q[n] = "left"
      /\ Within(mRight(p), q) <=> q[n] = "right"
  BY <1>5 DEF mLeft, mRight, Sides
<1> QED BY <1>4, <1>6 DEF Sides

(* A node has one parent.                                                  *)
LEMMA OneParent ==
  ASSUME NEW p \in Paths, NEW q \in Paths, NEW c \in Children(p), c \in Children(q)
  PROVE  p = q
<1>1. Within(p, c) /\ p # c /\ Within(q, c) /\ q # c
  BY PathChildren
<1>2. Within(p, q) /\ Within(q, p)
  BY <1>1, AboveChild
<1> QED BY <1>2, WithinOrder

LEMMA RanksCompare ==
  ASSUME NEW x \in Elem, NEW y \in Elem
  PROVE  x.rank \in Nat /\ y.rank \in Nat /\ (OutRanks(x, y) <=> x.rank < y.rank)
BY HeapAssumption DEF Elem, OutRanks

(* Where a node is to come nothing hangs yet, and what is above is there.  *)
LEMMA NothingBelow ==
  ASSUME TreeOK, NEW p \in Paths, p \notin Nodes
  PROVE  /\ \A q \in Nodes : ~Within(p, q)
         /\ mLeft(p) \notin Nodes /\ mRight(p) \notin Nodes
<1>1. \A q \in Nodes : ~Within(p, q)
  BY DEF TreeOK
<1>2. Within(p, mLeft(p)) /\ Within(p, mRight(p))
  BY PathChildren DEF Children
<1> QED BY <1>1, <1>2

LEMMA AboveIsThere ==
  ASSUME TreeOK, NEW p \in Paths, Hangs(p), NEW q \in Paths, Within(q, p), q # p
  PROVE  q \in Nodes
<1>1. CASE p = mTree
  BY <1>1, WithinOrder
<1>2. ASSUME NEW r \in Nodes, p \in Children(r) PROVE q \in Nodes
  <2>1. r \in Paths
    BY DEF TreeOK
  <2>2. Within(q, r)
    BY <1>2, <2>1, AboveChild
  <2> QED BY <2>2 DEF TreeOK
<1> QED BY <1>1, <1>2 DEF Hangs

LEMMA NewNodeStep ==
  ASSUME TreeOK, NEW p, NEW x, Coming(p, x), p \notin Nodes, NewNode(p, x)
  PROVE  HeapInv'
<1>1. /\ p \in Paths /\ x \in Elem /\ Nodes' = Nodes \cup {p}
      /\ mData'[p] = x /\ mSize'[p] = 1
      /\ \A q \in Nodes : q # p /\ q \in Paths /\ mData'[q] = mData[q] /\ mSize'[q] = mSize[q]
  BY DEF Coming, NewNode, Nodes, TreeOK
<1>2. TreeOK'
  <2>1. Nodes' \subseteq Paths /\ IsFiniteSet(Nodes')
    <3>1. IsFiniteSet(Nodes \cup {p})
      BY FS_AddElement DEF TreeOK
    <3> QED BY <1>1, <3>1
  <2>2. mData' \in [Nodes' -> Elem] /\ mSize' \in [Nodes' -> Nat]
    <3>1. \A q \in Nodes : mData[q] \in Elem /\ mSize[q] \in Nat
      BY DEF TreeOK
    <3>2. /\ mData' = [q \in Nodes \cup {p} |-> IF q = p THEN x ELSE mData[q]]
          /\ mSize' = [q \in Nodes \cup {p} |-> IF q = p THEN 1 ELSE mSize[q]]
      BY DEF NewNode
    <3> QED BY <1>1, <3>1, <3>2
  <2>3. ASSUME NEW r \in Nodes', NEW q \in Paths, Within(q, r) PROVE q \in Nodes'
    <3>1. CASE r = p
      BY <1>1, <2>3, <3>1, AboveIsThere DEF Coming
    <3>2. CASE r # p
      BY <1>1, <2>3, <3>2 DEF TreeOK
    <3> QED BY <3>1, <3>2
  <2>4. ASSUME NEW q \in Nodes', NEW r \in Nodes', mData'[q].addr = mData'[r].addr
        PROVE  q = r
    BY <1>1, <2>4 DEF TreeOK, Coming
  <2> QED BY <2>1, <2>2, <2>3, <2>4 DEF TreeOK
<1>3. OrderedBut({})'
  <2> SUFFICES ASSUME NEW a \in Nodes', NEW b \in Nodes', Within(a, b)
               PROVE  ~OutRanks(mData'[b], mData'[a])
    BY DEF OrderedBut
  <2>1. CASE a = p /\ b = p
    BY <1>1, <2>1, RanksCompare
  <2>2. CASE a # p /\ b = p
    BY <1>1, <2>2 DEF Coming
  <2>3. CASE a = p /\ b # p
    BY <1>1, <2>3, NothingBelow
  <2>4. CASE a # p /\ b # p
    BY <1>1, <2>4 DEF Coming, OrderedBut
  <2> QED BY <2>1, <2>2, <2>3, <2>4
<1>4. Sized(Nodes, mSize, mTree, 0)'
  <2> DEFINE In(q) == IF q \in Nodes' THEN mSize'[q] ELSE 0
  <2>1. \A q : In(q) = SizeIn(Nodes, mSize, q) + (IF q = p THEN 1 ELSE 0)
    <3>1. \A q \in Nodes : mSize[q] \in Nat
      BY DEF TreeOK
    <3> QED BY <1>1, <3>1 DEF SizeIn
  <2>2. ASSUME NEW q \in Nodes' PROVE mSize'[q] = 1 + In(mLeft(q)) + In(mRight(q))
    <3>1. \A r : SizeIn(Nodes, mSize, r) \in Nat
      BY DEF SizeIn, TreeOK
    <3>2. mLeft(q) # mRight(q) /\ mLeft(q) # q /\ mRight(q) # q
      BY <1>1, PathChildren DEF Children
    <3>3. CASE q = p
      <4>1. SizeIn(Nodes, mSize, mLeft(p)) = 0 /\ SizeIn(Nodes, mSize, mRight(p)) = 0
        BY <1>1, NothingBelow DEF SizeIn
      <4> HIDE DEF In
      <4> QED BY <1>1, <2>1, <3>2, <3>3, <4>1
    <3>4. CASE q # p
      <4>1. mSize[q] = 1 + SizeIn(Nodes, mSize, mLeft(q)) + SizeIn(Nodes, mSize, mRight(q))
                         + (IF p \in Children(q) THEN 1 ELSE 0)
        BY <1>1, <3>4 DEF Coming, Sized
      <4>2. p \in Children(q) <=> p = mLeft(q) \/ p = mRight(q)
        BY DEF Children
      <4>3. mSize'[q] = mSize[q]
        BY <1>1, <3>4
      <4> HIDE DEF In
      <4> QED BY <2>1, <3>1, <3>2, <4>1, <4>2, <4>3
    <3> QED BY <3>3, <3>4
  <2>3. In(mTree) = Cardinality(Nodes')
    <3>1. Cardinality(Nodes \cup {p}) = Cardinality(Nodes) + 1 /\ Cardinality(Nodes) \in Nat
      BY FS_AddElement, FS_CardinalityType DEF TreeOK
    <3>2. SizeIn(Nodes, mSize, mTree) = Cardinality(Nodes) + (IF p = mTree THEN 0 ELSE 1)
      BY DEF Coming, Sized
    <3>3. SizeIn(Nodes, mSize, mTree) \in Nat
      BY DEF SizeIn, TreeOK
    <3> HIDE DEF In
    <3> QED BY <1>1, <2>1, <3>1, <3>2, <3>3
  <2>4. (\A r : In(r) \in Nat) /\ Cardinality(Nodes') \in Nat
    BY <1>2, FS_CardinalityType DEF TreeOK
  <2>5. \A q : SizeIn(Nodes, mSize, q)' = In(q)
    BY DEF SizeIn
  <2> HIDE DEF In
  <2>6. ASSUME NEW q \in Nodes'
        PROVE  mSize'[q] = 1 + In(mLeft(q)) + In(mRight(q)) + (IF mTree \in Children(q) THEN 0 ELSE 0)
    BY <2>2, <2>4
  <2>7. In(mTree) = Cardinality(Nodes') + (IF mTree = mTree THEN 0 ELSE 0)
    BY <2>3, <2>4
  <2> QED BY <2>5, <2>6, <2>7 DEF Sized
<1>5. call' = NoCall
  BY DEF NewNode
<1> QED BY <1>2, <1>3, <1>4, <1>5 DEF HeapInv

(* A step down a path leaves what counts more or less to the child.        *)
LEMMA CountBelow ==
  ASSUME TreeOK, NEW p \in Nodes, NEW c \in Children(p), NEW due \in {1, -1},
         NEW s \in [Nodes -> Nat], Sized(Nodes, s, p, due),
         NEW N, N = Nodes, NEW t, \A q \in N : t[q] = s[q] + (IF q = p THEN due ELSE 0)
  PROVE  Sized(N, t, c, due)
<1>1. \A q \in N : q \in Paths /\ s[q] \in Nat /\ t[q] \in Int
  BY DEF TreeOK
<1> DEFINE Old(q) == SizeIn(N, s, q)  New(q) == SizeIn(N, t, q)
<1>2. \A q : New(q) = Old(q) + (IF q = p THEN due ELSE 0) /\ Old(q) \in Nat
  BY <1>1 DEF SizeIn
<1>3. c # mTree /\ Cardinality(N) \in Nat
  BY <1>1, PathChildren, FS_CardinalityType DEF TreeOK
<1>4. Sized(N, s, p, due)
  OBVIOUS
<1>5. ASSUME NEW q \in N
      PROVE  t[q] = 1 + New(mLeft(q)) + New(mRight(q)) + (IF c \in Children(q) THEN due ELSE 0)
  <2>1. s[q] = 1 + Old(mLeft(q)) + Old(mRight(q)) + (IF p \in Children(q) THEN due ELSE 0)
    BY <1>4 DEF Sized
  <2>2. mLeft(q) # mRight(q) /\ mLeft(q) # q /\ mRight(q) # q
    BY <1>1, PathChildren DEF Children
  <2>3. p \in Children(q) <=> p = mLeft(q) \/ p = mRight(q)
    BY DEF Children
  <2>4. c \in Children(q) <=> q = p
    BY <1>1, OneParent
  <2>5. t[q] = s[q] + (IF q = p THEN due ELSE 0) /\ s[q] \in Nat
    BY <1>1
  <2> HIDE DEF Old, New
  <2> QED BY <1>2, <2>1, <2>2, <2>3, <2>4, <2>5
<1>6. New(mTree) = Cardinality(N) + (IF c = mTree THEN 0 ELSE due)
  <2>1. Old(mTree) = Cardinality(N) + (IF p = mTree THEN 0 ELSE due)
    BY <1>4 DEF Sized
  <2> HIDE DEF Old, New
  <2> QED BY <1>2, <1>3, <2>1
<1> QED BY <1>5, <1>6 DEF Sized

LEMMA DropStep ==
  ASSUME TreeOK, OrderedBut({}), NEW p \in Nodes, Sized(Nodes, mSize, p, 1),
         NEW kept \in Elem, NEW dropped \in Elem, Drop(p, kept, dropped),
         ~OutRanks(dropped, kept), ~OutRanks(mData[p], kept),
         \A q \in Nodes : Within(q, p) /\ q # p => ~OutRanks(kept, mData[q]),
         kept.addr # dropped.addr,
         \A q \in Nodes : q # p => mData[q].addr \notin {kept.addr, dropped.addr}
  PROVE  HeapInv'
<1>1. PICK c : c = SmallerSubtree(p)
  OBVIOUS
<1>2. c \in Children(p) /\ call' = [fn |-> "push", node |-> c, data |-> dropped]
  BY <1>1 DEF SmallerSubtree, Children, Drop
<1>3. /\ Nodes' = Nodes /\ mData' \in [Nodes -> Elem] /\ mData'[p] = kept
      /\ \A q \in Nodes : q # p => mData'[q] = mData[q]
  BY DEF TreeOK, Drop, Nodes
<1>4. /\ mSize' \in [Nodes -> Nat]
      /\ \A q \in Nodes : mSize'[q] = mSize[q] + (IF q = p THEN 1 ELSE 0)
  BY DEF TreeOK, Drop
<1>5. p \in Paths /\ c \in Paths /\ c # mTree /\ (\A q \in Nodes : q \in Paths /\ mData[q] \in Elem)
  BY <1>2, PathChildren DEF TreeOK
<1>6. TreeOK'
  <2>1. ASSUME NEW q \in Nodes, NEW r \in Nodes, mData'[q].addr = mData'[r].addr PROVE q = r
    BY <1>3, <2>1 DEF TreeOK
  <2> QED BY <1>3, <1>4, <2>1 DEF TreeOK
<1>7. OrderedBut({})'
  <2> SUFFICES ASSUME NEW a \in Nodes, NEW b \in Nodes, Within(a, b)
               PROVE  ~OutRanks(mData'[b], mData'[a])
    BY <1>3 DEF OrderedBut
  <2>1. ~OutRanks(mData[b], mData[a])
    BY DEF OrderedBut
  <2>2. CASE a = b
    BY <1>3, <2>2, RanksCompare
  <2>3. CASE a = p /\ b # p
    <3>1. mData'[a] = kept /\ mData'[b] = mData[b] /\ ~OutRanks(mData[b], mData[p])
      BY <1>3, <2>1, <2>3
    <3>2. mData[p] \in Elem /\ mData[b] \in Elem
      BY <1>5
    <3> QED BY <3>1, <3>2, RanksCompare
  <2>4. CASE a # p /\ b = p
    BY <1>3, <2>4
  <2>5. CASE a # p /\ b # p
    BY <1>3, <2>1, <2>5
  <2> QED BY <2>2, <2>3, <2>4, <2>5
<1>8. Sized(Nodes, mSize, c, 1)'
  <2>1. PICK N : N = Nodes
    OBVIOUS
  <2>2. PICK s : s = mSize
    OBVIOUS
  <2>3. PICK t : t = mSize'
    OBVIOUS
  <2>4. s \in [Nodes -> Nat] /\ Sized(Nodes, s, p, 1)
    BY <2>2 DEF TreeOK
  <2>5. \A q \in N : t[q] = s[q] + (IF q = p THEN 1 ELSE 0)
    BY <1>4, <2>1, <2>2, <2>3
  <2>6. Sized(N, t, c, 1)
    BY <1>2, <2>1, <2>4, <2>5, CountBelow
  <2> QED BY <1>3, <2>1, <2>3, <2>6
<1>9. Coming(c, dropped)'
  <2>1. Hangs(c)'
    BY <1>2, <1>3 DEF Hangs
  <2>2. ASSUME NEW q \in Nodes PROVE mData'[q].addr # dropped.addr
    BY <1>3, <2>2
  <2>3. ASSUME NEW q \in Nodes, Within(q, c), q # c PROVE ~OutRanks(dropped, mData'[q])
    <3>1. Within(q, p)
      BY <1>2, <1>5, <2>3, AboveChild
    <3>2. CASE q = p
      BY <1>3, <3>2
    <3>3. CASE q # p
      <4>1. ~OutRanks(kept, mData[q]) /\ mData'[q] = mData[q] /\ mData[q] \in Elem
        BY <1>3, <1>5, <3>1, <3>3
      <4> QED BY <4>1, RanksCompare
    <3> QED BY <3>2, <3>3
  <2> QED BY <1>3, <1>5, <1>7, <1>8, <2>1, <2>2, <2>3 DEF Coming
<1> QED BY <1>2, <1>5, <1>6, <1>9 DEF HeapInv

LEMMA PushNodeStep ==
  ASSUME TreeOK, NEW p, NEW x, Coming(p, x), PushNode(p, x)
  PROVE  HeapInv'
<1>1. CASE p \notin Nodes
  BY <1>1, NewNodeStep DEF PushNode
<1>2. CASE p \in Nodes
  <2>1. PICK d : d = mData[p]
    OBVIOUS
  <2>2. d \in Elem /\ x \in Elem /\ x.addr # d.addr
    BY <1>2, <2>1 DEF TreeOK, Coming
  <2>3. \A q \in Nodes : q # p => mData[q].addr \notin {d.addr, x.addr}
    BY <1>2, <2>1 DEF TreeOK, Coming
  <2>4. OrderedBut({}) /\ Sized(Nodes, mSize, p, 1)
    BY DEF Coming
  <2>5. \A q \in Nodes : Within(q, p) /\ q # p => ~OutRanks(x, mData[q]) /\ ~OutRanks(d, mData[q])
    BY <1>2, <2>1 DEF Coming, OrderedBut
  <2>6. CASE OutRanks(x, d)
    <3>1. Drop(p, x, d)
      BY <1>2, <2>1, <2>6 DEF PushNode
    <3>2. ~OutRanks(d, x)
      BY <2>2, <2>6, RanksCompare
    <3> QED BY <1>2, <2>1, <2>2, <2>3, <2>4, <2>5, <3>1, <3>2, DropStep
  <2>7. CASE ~OutRanks(x, d)
    <3>1. Drop(p, d, x)
      BY <1>2, <2>1, <2>7 DEF PushNode
    <3>2. ~OutRanks(d, d)
      BY <2>2, RanksCompare
    <3> QED BY <1>2, <2>1, <2>2, <2>3, <2>4, <2>5, <2>7, <3>1, <3>2, DropStep
  <2> QED BY <2>6, <2>7
<1> QED BY <1>1, <1>2

(* The data to pop sinks to the child that outranks its sibling.           *)
LEMMA SubTopRanks ==
  ASSUME TreeOK, NEW p \in Nodes
  PROVE  /\ subTop(p) \in Children(p)
         /\ subTop(p) \in Nodes =>
              \A c \in Children(p) \cap Nodes : ~OutRanks(mData[c], mData[subTop(p)])
         /\ subTop(p) \notin Nodes => Children(p) \cap Nodes = {}
<1>1. subTop(p) \in Children(p)
  BY DEF subTop, Children
<1>2. subTop(p) \notin Nodes => Children(p) \cap Nodes = {}
  BY DEF subTop, Children
<1>3. ASSUME subTop(p) \in Nodes, NEW c \in Children(p) \cap Nodes
      PROVE  ~OutRanks(mData[c], mData[subTop(p)])
  <2>1. \A q \in Nodes : mData[q] \in Elem
    BY DEF TreeOK
  <2>2. CASE c = subTop(p)
    BY <2>1, <2>2, RanksCompare
  <2>3. CASE c # subTop(p) /\ subTop(p) = mLeft(p)
    <3>1. c = mRight(p) /\ mLeft(p) # mRight(p) /\ mLeft(p) \in Nodes /\ mRight(p) \in Nodes
      BY <1>3, <2>3 DEF Children
    <3>2. OutRanks(mData[mLeft(p)], mData[mRight(p)])
      BY <2>3, <3>1 DEF subTop
    <3> QED BY <2>1, <2>3, <3>1, <3>2, RanksCompare
  <2>4. CASE c # subTop(p) /\ subTop(p) = mRight(p)
    <3>1. c = mLeft(p) /\ mLeft(p) # mRight(p) /\ mLeft(p) \in Nodes /\ mRight(p) \in Nodes
      BY <1>3, <2>4 DEF Children
    <3>2. ~OutRanks(mData[mLeft(p)], mData[mRight(p)])
      BY <2>4, <3>1 DEF subTop
    <3> QED BY <2>4, <3>1, <3>2
  <2> QED BY <1>1, <2>2, <2>3, <2>4 DEF Children
<1> QED BY <1>1, <1>2, <1>3

LEMMA OwnSize ==
  ASSUME TreeOK, NEW p \in Nodes, NEW at \in Paths, at \in Children(p) => FALSE,
         NEW due \in {0, 1, -1}, NEW s \in [Nodes -> Nat], Sized(Nodes, s, at, due)
  PROVE  s[p] = 1 + SizeIn(Nodes, s, mLeft(p)) + SizeIn(Nodes, s, mRight(p)) /\ s[p] \in Nat \ {0}
<1>1. \A q : SizeIn(Nodes, s, q) \in Nat
  BY DEF SizeIn
<1>2. s[p] = 1 + SizeIn(Nodes, s, mLeft(p)) + SizeIn(Nodes, s, mRight(p)) + 0
  BY DEF Sized
<1> QED BY <1>1, <1>2

LEMMA SinkStep ==
  ASSUME TreeOK, NEW p, NEW s, Leaving(p, s), subTop(p) \in Nodes, PopNode(p, s)
  PROVE  HeapInv'
<1>1. PICK c : c = subTop(p)
  OBVIOUS
<1>2. /\ p \in Nodes /\ c \in Nodes /\ c \in Children(p) /\ call' = [fn |-> "pop", node |-> c]
      /\ s \in [Nodes -> Nat] /\ mData' = [mData EXCEPT ![p] = mData[c], ![c] = mData[p]]
      /\ mSize' = [s EXCEPT ![p] = @ - 1]
  BY <1>1, SubTopRanks DEF Leaving, PopNode
<1>3. /\ \A q \in Nodes : q \in Paths /\ mData[q] \in Elem
      /\ p \in Paths /\ c \in Paths /\ c # p /\ c # mTree /\ Within(p, c) /\ ~Within(c, p)
  BY <1>2, PathChildren DEF TreeOK
<1>4. /\ Nodes' = Nodes /\ mData' \in [Nodes -> Elem] /\ mData'[p] = mData[c] /\ mData'[c] = mData[p]
      /\ \A q \in Nodes : q \notin {p, c} => mData'[q] = mData[q]
  BY <1>2, <1>3 DEF TreeOK, Nodes
<1>5. s[p] \in Nat \ {0}
  <2>1. p \notin Children(p) /\ Sized(Nodes, s, p, -1)
    BY <1>3, PathChildren DEF Leaving
  <2> QED BY <1>2, <1>3, <2>1, OwnSize
<1>6. /\ mSize' \in [Nodes -> Nat]
      /\ \A q \in Nodes : mSize'[q] = s[q] + (IF q = p THEN -1 ELSE 0)
  <2>1. s[p] - 1 \in Nat
    BY <1>5
  <2>2. \A q \in Nodes : s[q] \in Nat /\ mSize'[q] = IF q = p THEN s[p] - 1 ELSE s[q]
    BY <1>2
  <2>3. mSize' \in [Nodes -> Nat]
    BY <1>2, <2>1
  <2>4. ASSUME NEW q \in Nodes PROVE mSize'[q] = s[q] + (IF q = p THEN -1 ELSE 0)
    BY <1>2, <2>2
  <2> QED BY <2>3, <2>4
<1>7. TreeOK'
  <2>1. ASSUME NEW q \in Nodes, NEW r \in Nodes, mData'[q].addr = mData'[r].addr PROVE q = r
    BY <1>2, <1>3, <1>4, <2>1 DEF TreeOK
  <2> QED BY <1>4, <1>6, <2>1 DEF TreeOK
<1>8. OrderedBut({c})'
  <2> SUFFICES ASSUME NEW a \in Nodes, NEW b \in Nodes, Within(a, b), b # c
               PROVE  ~OutRanks(mData'[b], mData'[a])
    BY <1>4 DEF OrderedBut
  <2>1. \A q, r \in Nodes : Within(q, r) /\ r # p => ~OutRanks(mData[r], mData[q])
    BY DEF Leaving, OrderedBut
  <2>2. CASE a = b
    BY <1>4, <2>2, RanksCompare
  <2>3. CASE a # b /\ b = p
    <3>1. a # c /\ Within(a, c)
      BY <1>2, <1>3, <2>3, AboveChild
    <3> QED BY <1>2, <1>3, <1>4, <2>1, <2>3, <3>1
  <2>4. CASE a = p /\ b # p
    <3>1. PICK e \in Children(p) : Within(e, b)
      BY <1>3, <2>4, BelowChild DEF Children
    <3>2. e \in Paths
      BY <1>3, PathChildren
    <3>3. e \in Nodes
      BY <3>1, <3>2 DEF TreeOK
    <3>4. ~OutRanks(mData[b], mData[e]) /\ ~OutRanks(mData[e], mData[c])
      BY <1>1, <1>2, <2>1, <2>4, <3>1, <3>3, SubTopRanks
    <3>5. mData'[a] = mData[c] /\ mData'[b] = mData[b]
      BY <1>4, <2>4
    <3>6. mData[b] \in Elem /\ mData[c] \in Elem /\ mData[e] \in Elem
      BY <1>2, <1>3, <3>3
    <3> QED BY ONLY <3>4, <3>5, <3>6, RanksCompare
  <2>5. CASE a = c /\ b # p
    <3>1. Within(p, b)
      BY <1>3, <2>5, WithinOrder
    <3> QED BY <1>2, <1>4, <2>1, <2>5, <3>1
  <2>6. CASE a # p /\ a # c /\ b # p
    BY <1>4, <2>1, <2>6
  <2> QED BY <2>2, <2>3, <2>4, <2>5, <2>6
<1>9. Sized(Nodes, mSize, c, -1)'
  <2>1. PICK N : N = Nodes
    OBVIOUS
  <2>2. PICK t : t = mSize'
    OBVIOUS
  <2>3. Sized(Nodes, s, p, -1)
    BY DEF Leaving
  <2>4. \A q \in N : t[q] = s[q] + (IF q = p THEN -1 ELSE 0)
    BY <1>6, <2>1, <2>2
  <2>5. Sized(N, t, c, -1)
    BY <1>2, <2>1, <2>3, <2>4, CountBelow
  <2> QED BY <1>4, <2>1, <2>2, <2>5
<1>10. Leaving(c, mSize)'
  BY <1>2, <1>4, <1>6, <1>8, <1>9 DEF Leaving
<1> QED BY <1>2, <1>3, <1>7, <1>10 DEF HeapInv

LEMMA CutStep ==
  ASSUME TreeOK, NEW p, NEW s, Leaving(p, s), subTop(p) \notin Nodes, PopNode(p, s)
  PROVE  HeapInv'
<1>1. /\ p \in Nodes /\ s \in [Nodes -> Nat] /\ Children(p) \cap Nodes = {} /\ call' = NoCall
      /\ mData' = [q \in Nodes \ {p} |-> mData[q]]
      /\ mSize' = [q \in Nodes \ {p} |-> [s EXCEPT ![p] = @ - 1][q]]
  BY SubTopRanks DEF Leaving, PopNode
<1>2. /\ \A q \in Nodes : q \in Paths /\ mData[q] \in Elem /\ s[q] \in Nat
      /\ p \in Paths
  BY <1>1 DEF TreeOK
<1>3. /\ Nodes' = Nodes \ {p} /\ mData' \in [Nodes \ {p} -> Elem]
      /\ \A q \in Nodes \ {p} : mData'[q] = mData[q]
  BY <1>1, <1>2 DEF Nodes
<1>4. mSize' \in [Nodes \ {p} -> Nat] /\ \A q \in Nodes \ {p} : mSize'[q] = s[q]
  <2>1. \A q \in Nodes \ {p} : [s EXCEPT ![p] = @ - 1][q] = s[q]
    BY <1>1
  <2>2. mSize' = [q \in Nodes \ {p} |-> s[q]]
    BY <1>1, <2>1
  <2> QED BY <1>2, <2>2
<1>5. \A q \in Nodes \ {p} : ~Within(p, q)
  <2> SUFFICES ASSUME NEW q \in Nodes \ {p}, Within(p, q) PROVE FALSE
    OBVIOUS
  <2>1. PICK e \in Children(p) : Within(e, q)
    BY <1>2, BelowChild DEF Children
  <2>2. e \in Paths
    BY <1>2, PathChildren
  <2>3. e \in Nodes
    BY <2>1, <2>2 DEF TreeOK
  <2> QED BY <1>1, <2>3
<1>6. TreeOK'
  <2>1. IsFiniteSet(Nodes \ {p})
    BY FS_RemoveElement DEF TreeOK
  <2>2. ASSUME NEW r \in Nodes \ {p}, NEW q \in Paths, Within(q, r) PROVE q \in Nodes \ {p}
    BY <1>5, <2>2 DEF TreeOK
  <2>3. ASSUME NEW q \in Nodes', NEW r \in Nodes', mData'[q].addr = mData'[r].addr PROVE q = r
    BY <1>3, <2>3 DEF TreeOK
  <2>4. Nodes' \subseteq Paths
    BY <1>2, <1>3
  <2> QED BY <1>3, <1>4, <2>1, <2>2, <2>3, <2>4 DEF TreeOK
<1>7. OrderedBut({})'
  BY <1>3 DEF OrderedBut, Leaving
<1>8. Sized(Nodes, mSize, mTree, 0)'
  <2>1. PICK N : N = Nodes \ {p}
    OBVIOUS
  <2>2. PICK t : t = mSize'
    OBVIOUS
  <2> DEFINE Old(q) == SizeIn(Nodes, s, q)  New(q) == SizeIn(N, t, q)
  <2>3. Sized(Nodes, s, p, -1)
    BY DEF Leaving
  <2>4. s[p] = 1
    <3>1. p \notin Children(p)
      BY <1>2, PathChildren
    <3>2. s[p] = 1 + Old(mLeft(p)) + Old(mRight(p))
      BY <1>1, <1>2, <2>3, <3>1, OwnSize
    <3>3. Old(mLeft(p)) = 0 /\ Old(mRight(p)) = 0
      BY <1>1 DEF SizeIn, Children
    <3> QED BY <3>2, <3>3
  <2>5. \A q : New(q) = Old(q) + (IF q = p THEN -1 ELSE 0) /\ Old(q) \in Nat
    BY <1>1, <1>2, <1>4, <2>1, <2>2, <2>4 DEF SizeIn
  <2>6. ASSUME NEW q \in N
        PROVE  t[q] = 1 + New(mLeft(q)) + New(mRight(q)) + (IF mTree \in Children(q) THEN 0 ELSE 0)
    <3>1. q \in Nodes /\ q # p /\ q \in Paths /\ t[q] = s[q]
      BY <1>2, <1>4, <2>1, <2>2
    <3>2. s[q] = 1 + Old(mLeft(q)) + Old(mRight(q)) + (IF p \in Children(q) THEN -1 ELSE 0)
      BY <2>3, <3>1 DEF Sized
    <3>3. mLeft(q) # mRight(q)
      BY <3>1, PathChildren DEF Children
    <3>4. p \in Children(q) <=> p = mLeft(q) \/ p = mRight(q)
      BY DEF Children
    <3> HIDE DEF Old, New
    <3> QED BY <2>5, <3>1, <3>2, <3>3, <3>4
  <2>7. New(mTree) = Cardinality(N) + (IF mTree = mTree THEN 0 ELSE 0)
    <3>1. Cardinality(N) = Cardinality(Nodes) - 1 /\ Cardinality(Nodes) \in Nat
      BY <1>1, <2>1, FS_RemoveElement, FS_CardinalityType DEF TreeOK
    <3>2. Old(mTree) = Cardinality(Nodes) + (IF p = mTree THEN 0 ELSE -1)
      BY <2>3 DEF Sized
    <3> HIDE DEF Old, New
    <3> QED BY <2>5, <3>1, <3>2
  <2>8. Sized(N, t, mTree, 0)
    BY <2>6, <2>7 DEF Sized
  <2> QED BY <1>3, <2>1, <2>2, <2>8
<1> QED BY <1>1, <1>6, <1>7, <1>8 DEF HeapInv

LEMMA PopNodeStep ==
  ASSUME TreeOK, NEW p, NEW s, Leaving(p, s), PopNode(p, s)
  PROVE  HeapInv'
BY SinkStep, CutStep

(* Where data is found, the nodes above it have one less.                  *)
LEMMA FoundLeaves ==
  ASSUME TreeOK, OrderedBut({}), Sized(Nodes, mSize, mTree, 0), NEW p \in Nodes,
         NEW s, s = OneLess(Above(p))
  PROVE  Leaving(p, s)
<1>1. /\ p \in Paths /\ mTree \in Paths
      /\ \A q \in Nodes : q \in Paths /\ mTree \notin Children(q) /\ mSize[q] \in Nat \ {0}
  <2>1. \A q \in Nodes : q \in Paths /\ mTree \notin Children(q)
    BY PathChildren DEF TreeOK
  <2>2. mTree \in Paths /\ mSize \in [Nodes -> Nat]
    BY WithinOrder DEF TreeOK
  <2>3. ASSUME NEW q \in Nodes PROVE mSize[q] \in Nat \ {0}
    BY <2>1, <2>2, OwnSize
  <2> QED BY <2>1, <2>2, <2>3
<1> DEFINE B(q) == q \in Nodes /\ q # p /\ Within(q, p)
           Old(q) == SizeIn(Nodes, mSize, q)
           New(q) == SizeIn(Nodes, s, q)
<1>2. \A q \in Nodes : s[q] = mSize[q] + (IF B(q) THEN -1 ELSE 0) /\ s[q] \in Nat
  <2>1. ASSUME NEW q \in Nodes
        PROVE  s[q] = mSize[q] + (IF B(q) THEN -1 ELSE 0) /\ s[q] \in Nat
    <3>1. s[q] = IF B(q) THEN mSize[q] - 1 ELSE mSize[q]
      BY DEF OneLess, Above
    <3>2. mSize[q] \in Nat \ {0}
      BY <1>1
    <3> HIDE DEF B
    <3> QED BY <3>1, <3>2
  <2> QED BY <2>1
<1>3. s \in [Nodes -> Nat]
  BY <1>2 DEF OneLess
<1>4. \A q : New(q) = Old(q) + (IF B(q) THEN -1 ELSE 0) /\ Old(q) \in Nat
  <2>1. ASSUME NEW q PROVE New(q) = Old(q) + (IF B(q) THEN -1 ELSE 0) /\ Old(q) \in Nat
    <3>1. CASE q \in Nodes
      <4>1. New(q) = s[q] /\ Old(q) = mSize[q]
        BY <3>1 DEF SizeIn
      <4> QED BY <1>1, <1>2, <3>1, <4>1
    <3>2. CASE q \notin Nodes
      BY <3>2 DEF SizeIn
    <3> QED BY <3>1, <3>2
  <2> QED BY <2>1
<1>5. ASSUME NEW q \in Nodes
      PROVE  s[q] = 1 + New(mLeft(q)) + New(mRight(q)) + (IF p \in Children(q) THEN -1 ELSE 0)
  <2>1. mSize[q] = 1 + Old(mLeft(q)) + Old(mRight(q)) + 0
    BY <1>1 DEF Sized
  <2>2. /\ q \in Paths /\ mLeft(q) \in Paths /\ mRight(q) \in Paths /\ mLeft(q) # mRight(q)
        /\ Within(q, mLeft(q)) /\ Within(q, mRight(q)) /\ q # mLeft(q) /\ q # mRight(q)
        /\ ~Within(mLeft(q), q) /\ ~Within(mRight(q), q)
    BY <1>1, PathChildren DEF Children
  <2>3. CASE B(q)
    <3>1. /\ Within(mLeft(q), p) \/ Within(mRight(q), p)
          /\ ~(Within(mLeft(q), p) /\ Within(mRight(q), p))
      BY <1>1, <2>2, <2>3, BelowChild
    <3>2. Within(p, p)
      BY <1>1, WithinOrder
    <3>3. \A c \in {mLeft(q), mRight(q)} : Within(c, p) => c \in Nodes
      BY <2>2 DEF TreeOK
    <3>4. \A c \in {mLeft(q), mRight(q)} :
             (IF B(c) THEN -1 ELSE 0) + (IF p = c THEN -1 ELSE 0) = IF Within(c, p) THEN -1 ELSE 0
      BY <3>2, <3>3
    <3>5. s[q] = mSize[q] + -1
      BY <1>2, <2>3
    <3>6. p \in Children(q) <=> p = mLeft(q) \/ p = mRight(q)
      BY DEF Children
    <3> HIDE DEF B, Old, New
    <3>7. CASE Within(mLeft(q), p)
      <4>1. (IF B(mRight(q)) THEN -1 ELSE 0) + (IF p = mRight(q) THEN -1 ELSE 0) = 0
        BY <3>1, <3>4, <3>7
      <4>2. (IF B(mLeft(q)) THEN -1 ELSE 0) + (IF p = mLeft(q) THEN -1 ELSE 0) = -1
        BY <3>1, <3>4, <3>7
      <4> QED BY <1>4, <2>1, <2>2, <3>5, <3>6, <4>1, <4>2
    <3>8. CASE Within(mRight(q), p)
      <4>1. (IF B(mLeft(q)) THEN -1 ELSE 0) + (IF p = mLeft(q) THEN -1 ELSE 0) = 0
        BY <3>1, <3>4, <3>8
      <4>2. (IF B(mRight(q)) THEN -1 ELSE 0) + (IF p = mRight(q) THEN -1 ELSE 0) = -1
        BY <3>1, <3>4, <3>8
      <4> QED BY <1>4, <2>1, <2>2, <3>5, <3>6, <4>1, <4>2
    <3> QED BY <3>1, <3>7, <3>8
  <2>4. CASE ~B(q)
    <3>1. \A c \in {mLeft(q), mRight(q)} : ~Within(c, p)
      BY <1>1, <2>2, <2>4, WithinOrder
    <3>2. ~B(mLeft(q)) /\ ~B(mRight(q)) /\ p \notin Children(q)
      BY <1>1, <3>1, WithinOrder DEF Children
    <3>3. s[q] = mSize[q]
      BY <1>1, <1>2, <2>4
    <3> HIDE DEF B, Old, New
    <3> QED BY <1>4, <2>1, <3>2, <3>3
  <2> QED BY <2>3, <2>4
<1>6. New(mTree) = Cardinality(Nodes) + (IF p = mTree THEN 0 ELSE -1)
  <2>1. mTree \in Nodes /\ Within(mTree, p)
    <3>1. Within(mTree, p)
      BY <1>1, WithinOrder
    <3> QED BY <1>1, <3>1 DEF TreeOK
  <2>2. Old(mTree) = Cardinality(Nodes) + 0 /\ Cardinality(Nodes) \in Nat
    BY FS_CardinalityType DEF Sized, TreeOK
  <2>3. B(mTree) <=> p # mTree
    BY <2>1
  <2> HIDE DEF B, Old, New
  <2> QED BY <1>4, <2>2, <2>3
<1>7. Sized(Nodes, s, p, -1)
  BY <1>5, <1>6 DEF Sized
<1>8. OrderedBut({p})
  BY DEF OrderedBut
<1> QED BY <1>3, <1>7, <1>8 DEF Leaving

Between == OrderedBut({}) /\ Sized(Nodes, mSize, mTree, 0)

LEMMA StartsAtTop ==
  ASSUME TreeOK, Between
  PROVE  /\ mTree \in Nodes => Leaving(mTree, mSize)
         /\ \A x \in Elem : (\A q \in Nodes : mData[q].addr # x.addr) => Coming(mTree, x)
<1>1. mTree \in Paths /\ \A q \in Nodes : mTree \notin Children(q) /\ (Within(q, mTree) => q = mTree)
  <2>1. \A q \in Nodes : q \in Paths
    BY DEF TreeOK
  <2> QED BY <2>1, PathChildren, WithinOrder
<1>2. \A due : Sized(Nodes, mSize, mTree, due)
  BY <1>1 DEF Between, Sized
<1>3. mSize \in [Nodes -> Nat]
  BY DEF TreeOK
<1>4. mTree \in Nodes => Leaving(mTree, mSize)
  BY <1>2, <1>3 DEF Between, Leaving, OrderedBut
<1>5. ASSUME NEW x \in Elem, \A q \in Nodes : mData[q].addr # x.addr PROVE Coming(mTree, x)
  BY <1>1, <1>2, <1>5 DEF Coming, Hangs, Between
<1> QED BY <1>4, <1>5

LEMMA CallCases ==
  ASSUME HeapInv
  PROVE  /\ call = NoCall <=> call.fn \notin {"push", "pop"}
         /\ call = NoCall => Between
         /\ call.fn = "push" => call.node # mTree /\ Coming(call.node, call.data)
         /\ call.fn = "pop" => call.node # mTree /\ Leaving(call.node, mSize)
<1>1. NoCall.fn = "none"
  BY DEF NoCall
<1> QED BY <1>1 DEF HeapInv, Between

LEMMA HeapInitOK == HeapInit => HeapInv
<1> SUFFICES ASSUME HeapInit PROVE HeapInv
  OBVIOUS
<1>1. Nodes = {} /\ mData \in [{} -> Elem] /\ mSize \in [{} -> Nat] /\ call = NoCall
  BY DEF HeapInit, Nodes
<1>2. Sized(Nodes, mSize, mTree, 0)
  BY <1>1, FS_EmptySet DEF Sized, SizeIn
<1> QED BY <1>1, <1>2, FS_EmptySet DEF HeapInv, TreeOK, OrderedBut

LEMMA IdleData ==
  ASSUME call = NoCall
  PROVE  Data = {mData[p] : p \in Nodes}
BY DEF Data, NoCall

LEMMA HeapStep == HeapInv /\ [HeapNext]_heapVars => HeapInv'
<1> SUFFICES ASSUME HeapInv, [HeapNext]_heapVars PROVE HeapInv'
  OBVIOUS
<1>1. TreeOK
  BY DEF HeapInv
<1>2. ASSUME NEW x \in Elem, push(x) PROVE HeapInv'
  <2>1. call = NoCall /\ (\A y \in Data : y.addr # x.addr) /\ PushNode(mTree, x)
    BY <1>2 DEF push
  <2>2. \A q \in Nodes : mData[q].addr # x.addr
    BY <2>1, IdleData
  <2>3. Coming(mTree, x)
    BY <1>1, <2>1, <2>2, CallCases, StartsAtTop
  <2> QED BY <1>1, <2>1, <2>3, PushNodeStep
<1>3. ASSUME pushDown PROVE HeapInv'
  <2>1. PICK p : p = call.node
    OBVIOUS
  <2>2. PICK x : x = call.data
    OBVIOUS
  <2>3. Coming(p, x) /\ PushNode(p, x)
    BY <1>3, <2>1, <2>2, CallCases DEF pushDown
  <2> QED BY <1>1, <2>3, PushNodeStep
<1>4. ASSUME pop PROVE HeapInv'
  <2>1. PICK s : s = mSize
    OBVIOUS
  <2>2. Leaving(mTree, s) /\ PopNode(mTree, s)
    BY <1>1, <1>4, <2>1, CallCases, StartsAtTop DEF pop
  <2> QED BY <1>1, <2>2, PopNodeStep
<1>5. ASSUME popDown PROVE HeapInv'
  <2>1. PICK p : p = call.node
    OBVIOUS
  <2>2. PICK s : s = mSize
    OBVIOUS
  <2>3. Leaving(p, s) /\ PopNode(p, s)
    BY <1>5, <2>1, <2>2, CallCases DEF popDown
  <2> QED BY <1>1, <2>3, PopNodeStep
<1>6. ASSUME NEW x \in Elem, remove(x) PROVE HeapInv'
  <2>1. CASE UNCHANGED heapVars
    BY <2>1 DEF heapVars, HeapInv, TreeOK, OrderedBut, Coming, Leaving, Hangs, Nodes
  <2>2. ASSUME NEW p \in Found(x), PopNode(p, OneLess(Above(p))) PROVE HeapInv'
    <3>1. PICK s : s = OneLess(Above(p))
      OBVIOUS
    <3>2. p \in Nodes /\ call = NoCall /\ PopNode(p, s)
      BY <1>6, <2>2, <3>1 DEF Found, remove
    <3>3. Leaving(p, s)
      BY <1>1, <3>1, <3>2, CallCases, FoundLeaves DEF Between
    <3> QED BY <1>1, <3>2, <3>3, PopNodeStep
  <2> QED BY <1>6, <2>1, <2>2 DEF remove
<1>7. CASE UNCHANGED heapVars
  BY <1>7 DEF heapVars, HeapInv, TreeOK, OrderedBut, Coming, Leaving, Hangs, Nodes
<1> QED BY <1>2, <1>3, <1>4, <1>5, <1>6, <1>7 DEF HeapNext

LEMMA HeapInductive == HeapSpec => []HeapInv
BY HeapInitOK, HeapStep, PTL DEF HeapSpec

LEMMA SearchEnds ==
  ASSUME HeapInv, call = NoCall
  PROVE  TreeConsistent /\ RemoveFinds
<1>1. TreeOK /\ Between
  BY CallCases DEF HeapInv
<1>2. /\ mData \in [Nodes -> Elem] /\ mSize \in [Nodes -> Nat] /\ IsFiniteSet(Nodes)
      /\ \A p \in Nodes : p \in Paths /\ mTree \notin Children(p)
      /\ \A p, q \in Nodes : mData[p] = mData[q] => p = q
  BY <1>1, PathChildren DEF TreeOK
<1>3. checkNodes
  <2>1. \A q : Size(q) = SizeIn(Nodes, mSize, q) /\ Size(q) \in Nat
    BY <1>2 DEF Size, SizeIn
  <2>2. ASSUME NEW p \in Nodes PROVE mSize[p] = 1 + Size(mLeft(p)) + Size(mRight(p))
    <3>1. mSize[p] = 1 + SizeIn(Nodes, mSize, mLeft(p)) + SizeIn(Nodes, mSize, mRight(p)) + 0
      BY <1>1, <1>2 DEF Between, Sized
    <3> QED BY <2>1, <3>1
  <2>3. ASSUME NEW p \in Nodes, NEW c \in Children(p) \cap Nodes
        PROVE  ~OutRanks(mData[c], mData[p])
    <3>1. Within(p, c)
      BY <1>2, PathChildren
    <3> QED BY <1>1, <3>1 DEF Between, OrderedBut
  <2> QED BY <2>2, <2>3 DEF checkNodes, Children
<1>4. Size(mTree) = Cardinality(Data)
  <2>1. PICK f : f = mData
    OBVIOUS
  <2>2. PICK T : T = {f[p] : p \in Nodes}
    OBVIOUS
  <2>3. f \in Surjection(Nodes, T) /\ f \in Injection(Nodes, T)
    <3>1. f \in [Nodes -> T]
      BY <1>2, <2>1, <2>2
    <3>2. IsInjective(f)
      BY <1>2, <2>1 DEF IsInjective
    <3>3. \A y \in T : \E p \in Nodes : f[p] = y
      BY <2>2
    <3> QED BY <3>1, <3>2, <3>3 DEF Surjection, Injection
  <2>4. Cardinality(T) = Cardinality(Nodes)
    BY <1>2, <2>3, FS_Surjection
  <2>5. Data = T
    BY <2>1, <2>2, IdleData
  <2>6. Cardinality(Nodes) \in Nat
    BY <1>2, FS_CardinalityType
  <2>7. Size(mTree) = Cardinality(Nodes) + 0
    BY <1>1 DEF Between, Sized, Size, SizeIn
  <2> QED BY <2>4, <2>5, <2>6, <2>7
<1>5. ASSUME NEW p \in Nodes PROVE Found(mData[p]) = {p}
  <2>1. \A q \in Found(mData[p]) : q = p
    BY <1>2 DEF Found
  <2>2. ASSUME NEW q \in Above(p)
        PROVE  mData[q] # mData[p] /\ ~OutRanks(mData[p], mData[q])
    <3>1. q \in Nodes /\ q # p /\ Within(q, p)
      BY DEF Above
    <3> QED BY <1>1, <1>2, <3>1 DEF Between, OrderedBut
  <2>3. p \in Found(mData[p])
    BY <2>2 DEF Found
  <2> QED BY <2>1, <2>3
<1> QED BY <1>3, <1>4, <1>5 DEF TreeConsistent, RemoveFinds

(* The tree is in order and has as many elements as it says, and where the *)
(* search for one ends is where it is: the branches that remove leaves out *)
(* do not have it (LocHeapNode::remove, checkNodes), in trees of any size. *)
THEOREM HeapSearchable == HeapSpec => []TreeSearchable
<1>1. HeapInv => TreeSearchable
  BY SearchEnds DEF TreeSearchable
<1> QED BY <1>1, HeapInductive, PTL

-----------------------------------------------------------------------------
(* What a call does to the data in the heap, and to the data at the root   *)

AllData == {mData[q] : q \in Nodes}

LEMMA PushData ==
  ASSUME TreeOK, NEW p, NEW x, PushNode(p, x)
  PROVE  /\ Data' = AllData \cup {x}
         /\ p # mTree => peek' = peek
         /\ p = mTree => peek' = IF mTree \notin Nodes \/ OutRanks(x, mData[mTree])
                                 THEN x ELSE peek
<1>1. CASE p \notin Nodes
  <2>1. /\ Nodes' = Nodes \cup {p} /\ mData'[p] = x /\ call' = NoCall
        /\ \A q \in Nodes : mData'[q] = mData[q]
    BY <1>1 DEF PushNode, NewNode, Nodes
  <2>2. Data' = {mData'[q] : q \in Nodes'}
    BY <2>1 DEF Data, NoCall
  <2>3. {mData'[q] : q \in Nodes'} = AllData \cup {x}
    BY <1>1, <2>1 DEF AllData
  <2> QED BY <1>1, <2>1, <2>2, <2>3 DEF peek
<1>2. ASSUME NEW kept, NEW dropped, p \in Nodes, Drop(p, kept, dropped),
             {kept, dropped} = {x, mData[p]}
      PROVE  /\ Data' = AllData \cup {x} /\ Nodes' = Nodes /\ mData'[p] = kept
             /\ \A q \in Nodes : q # p => mData'[q] = mData[q]
  <2>1. /\ Nodes' = Nodes /\ mData'[p] = kept /\ call'.fn = "push" /\ call'.data = dropped
        /\ \A q \in Nodes : q # p => mData'[q] = mData[q]
    BY <1>2 DEF Drop, Nodes, TreeOK
  <2>2. Data' = {mData'[q] : q \in Nodes'} \cup {dropped}
    BY <2>1 DEF Data
  <2>3. {mData'[q] : q \in Nodes'} \cup {dropped} = {mData[q] : q \in Nodes \ {p}} \cup {kept, dropped}
    BY <1>2, <2>1
  <2>4. AllData \cup {x} = {mData[q] : q \in Nodes \ {p}} \cup {x, mData[p]}
    BY <1>2 DEF AllData
  <2> QED BY <1>2, <2>1, <2>2, <2>3, <2>4
<1>3. CASE p \in Nodes /\ OutRanks(x, mData[p])
  <2>1. Drop(p, x, mData[p])
    BY <1>3 DEF PushNode
  <2> QED BY <1>2, <1>3, <2>1 DEF peek
<1>4. CASE p \in Nodes /\ ~OutRanks(x, mData[p])
  <2>1. Drop(p, mData[p], x)
    BY <1>4 DEF PushNode
  <2> QED BY <1>2, <1>4, <2>1 DEF peek
<1> QED BY <1>1, <1>3, <1>4

LEMMA PopData ==
  ASSUME TreeOK, NEW p, NEW s, Leaving(p, s), PopNode(p, s)
  PROVE  /\ Data' = {mData[q] : q \in Nodes \ {p}}
         /\ p # mTree => peek' = peek
         /\ call'.fn # "push"
<1>1. p \in Nodes /\ p \in Paths /\ mTree \in Paths
  BY WithinOrder DEF Leaving, TreeOK
<1>2. CASE subTop(p) \in Nodes
  <2>1. PICK c : c = subTop(p)
    OBVIOUS
  <2>2. /\ c \in Nodes /\ c # p /\ c # mTree /\ call'.fn = "pop" /\ call'.node = c
        /\ mData' = [mData EXCEPT ![p] = mData[c], ![c] = mData[p]]
    BY <1>1, <1>2, <2>1, SubTopRanks, PathChildren DEF PopNode
  <2>3. /\ Nodes' = Nodes /\ mData'[p] = mData[c]
        /\ \A q \in Nodes : q \notin {p, c} => mData'[q] = mData[q]
    BY <1>1, <2>2 DEF Nodes, TreeOK
  <2>4. Data' = {mData'[q] : q \in Nodes \ {c}}
    BY <2>2, <2>3 DEF Data
  <2>5. {mData'[q] : q \in Nodes \ {c}} = {mData[q] : q \in Nodes \ {p}}
    <3>1. ASSUME NEW q \in Nodes \ {c} PROVE \E r \in Nodes \ {p} : mData'[q] = mData[r]
      BY <1>1, <2>2, <2>3
    <3>2. ASSUME NEW r \in Nodes \ {p} PROVE \E q \in Nodes \ {c} : mData'[q] = mData[r]
      <4>1. CASE r = c
        BY <1>1, <2>2, <2>3, <4>1
      <4>2. CASE r # c
        BY <2>3, <4>2
      <4> QED BY <4>1, <4>2
    <3>3. ASSUME NEW q \in Nodes \ {c} PROVE mData'[q] \in {mData[r] : r \in Nodes \ {p}}
      BY <3>1
    <3>4. ASSUME NEW r \in Nodes \ {p} PROVE mData[r] \in {mData'[q] : q \in Nodes \ {c}}
      BY <3>2
    <3> QED BY <3>3, <3>4
  <2> QED BY <2>2, <2>3, <2>4, <2>5 DEF peek
<1>3. CASE subTop(p) \notin Nodes
  <2>1. mData' = [q \in Nodes \ {p} |-> mData[q]] /\ call' = NoCall
    BY <1>3 DEF PopNode
  <2>2. Nodes' = Nodes \ {p} /\ \A q \in Nodes \ {p} : mData'[q] = mData[q]
    BY <2>1 DEF Nodes
  <2>3. Data' = {mData'[q] : q \in Nodes'}
    BY <2>1 DEF Data, NoCall
  <2> QED BY <2>1, <2>2, <2>3 DEF peek, NoCall
<1> QED BY <1>2, <1>3

(* Unless data is on its way down from the top, nothing outranks the top.  *)
TopRanks == call.fn # "push" => peek \in Abstract!TopOf(Data)

LEMMA TopHighest == HeapInv => TopRanks
<1> SUFFICES ASSUME HeapInv, call.fn # "push" PROVE peek \in Abstract!TopOf(Data)
  BY DEF TopRanks
<1>1. /\ TreeOK /\ (\A q \in Nodes : q \in Paths /\ Within(mTree, q))
      /\ \A q \in Nodes : mTree \in Nodes
  BY WithinOrder DEF HeapInv, TreeOK
<1>2. PICK M : M = {q \in Nodes : call.fn = "pop" => q # call.node}
  OBVIOUS
<1>3. Data = {mData[q] : q \in M}
  BY <1>2 DEF Data
<1>4. mTree \in Nodes => mTree \in M
  BY <1>2, CallCases
<1>5. ASSUME NEW q \in M PROVE ~OutRanks(mData[q], mData[mTree])
  <2>1. q \in Nodes /\ mTree \in Nodes /\ Within(mTree, q)
    BY <1>1, <1>2
  <2>2. CASE call.fn = "pop"
    BY <1>2, <2>1, <2>2, CallCases DEF Leaving, OrderedBut
  <2>3. CASE call.fn # "pop"
    BY <2>1, <2>3, CallCases DEF Between, OrderedBut
  <2> QED BY <2>2, <2>3
<1>6. CASE mTree \in Nodes
  <2>1. mData[mTree] \in Data
    BY <1>3, <1>4, <1>6
  <2>2. \A y \in Data : ~OutRanks(y, mData[mTree])
    BY <1>3, <1>5
  <2> QED BY <1>6, <2>1, <2>2 DEF peek, Abstract!TopOf, Abstract!Highest
<1>7. CASE mTree \notin Nodes
  <2>1. Data = {}
    BY <1>1, <1>2, <1>3, <1>7
  <2> QED BY <1>7, <2>1 DEF peek, Abstract!TopOf
<1> QED BY <1>6, <1>7

(* Data that is on its way down has come, or is gone, already.             *)
LEMMA DownStutters ==
  ASSUME HeapInv, pushDown \/ popDown
  PROVE  UNCHANGED <<Data, peek>>
<1>1. TreeOK
  BY DEF HeapInv
<1>2. CASE pushDown
  <2>1. PICK p : p = call.node
    OBVIOUS
  <2>2. PICK x : x = call.data
    OBVIOUS
  <2>3. call.fn = "push" /\ p # mTree /\ PushNode(p, x)
    BY <1>2, <2>1, <2>2, CallCases DEF pushDown
  <2>4. Data' = AllData \cup {x} /\ peek' = peek
    BY <1>1, <2>3, PushData
  <2>5. Data = AllData \cup {x}
    BY <2>2, <2>3 DEF Data, AllData
  <2> QED BY <2>4, <2>5
<1>3. CASE popDown
  <2>1. PICK p : p = call.node
    OBVIOUS
  <2>2. PICK s : s = mSize
    OBVIOUS
  <2>3. call.fn = "pop" /\ p # mTree /\ Leaving(p, s) /\ PopNode(p, s)
    BY <1>3, <2>1, <2>2, CallCases DEF popDown
  <2>4. Data' = {mData[q] : q \in Nodes \ {p}} /\ peek' = peek
    BY <1>1, <2>3, PopData
  <2>5. Data = {mData[q] : q \in Nodes \ {p}}
    BY <2>1, <2>3 DEF Data
  <2> QED BY <2>4, <2>5
<1> QED BY <1>2, <1>3

(* Without its node, its data is gone: no other node has the same.         *)
LEMMA DataWithout ==
  ASSUME TreeOK, NEW p \in Nodes
  PROVE  {mData[q] : q \in Nodes \ {p}} = AllData \ {mData[p]}
BY DEF AllData, TreeOK

LEMMA PushImplements ==
  ASSUME HeapInv, NEW x \in Elem, push(x)
  PROVE  Abstract!push(x)
<1>1. TreeOK /\ call = NoCall /\ PushNode(mTree, x)
  BY DEF HeapInv, push
<1>2. Data' = Data \cup {x}
  BY <1>1, PushData, IdleData DEF AllData
<1>3. peek' = IF mTree \notin Nodes \/ OutRanks(x, mData[mTree]) THEN x ELSE peek
  BY <1>1, PushData
<1>4. mTree \in Nodes <=> peek # Null
  BY <1>1, HeapAssumption DEF peek, TreeOK
<1> QED BY <1>2, <1>3, <1>4 DEF Abstract!push, peek

LEMMA PopImplements ==
  ASSUME HeapInv, TopRanks', pop
  PROVE  Abstract!pop
<1>1. PICK s : s = mSize
  OBVIOUS
<1>2. TreeOK /\ call = NoCall /\ mTree \in Nodes /\ Leaving(mTree, s) /\ PopNode(mTree, s)
  BY <1>1, CallCases, StartsAtTop DEF HeapInv, pop
<1>3. Data' = {mData[q] : q \in Nodes \ {mTree}} /\ call'.fn # "push"
  BY <1>2, PopData
<1>4. Data = AllData /\ Data # {} /\ peek = mData[mTree]
  BY <1>2, IdleData DEF AllData, peek
<1>5. Data' = Data \ {peek}
  BY <1>2, <1>3, <1>4, DataWithout
<1>6. (peek \in Abstract!TopOf(Data))'
  BY <1>3 DEF TopRanks
<1> QED BY <1>4, <1>5, <1>6 DEF Abstract!pop, Abstract!TopOf, Abstract!Highest

LEMMA RemoveImplements ==
  ASSUME HeapInv, TopRanks', NEW x \in Elem, remove(x)
  PROVE  Abstract!remove(x)
<1>1. TreeOK /\ call = NoCall
  BY DEF HeapInv, remove
<1>2. CASE Found(x) = {}
  <2>1. UNCHANGED <<Data, peek>>
    BY <1>2 DEF remove, heapVars, Data, peek, Nodes
  <2>2. x \notin Data
    BY <1>1, <1>2, SearchEnds, IdleData DEF RemoveFinds
  <2>3. x # peek
    BY <1>1, <2>2, IdleData, HeapAssumption DEF peek
  <2> QED BY <2>1, <2>2, <2>3 DEF Abstract!remove
<1>3. ASSUME NEW p \in Found(x), PopNode(p, OneLess(Above(p))) PROVE Abstract!remove(x)
  <2>1. PICK s : s = OneLess(Above(p))
    OBVIOUS
  <2>2. p \in Nodes /\ mData[p] = x /\ PopNode(p, s)
    BY <1>3, <2>1 DEF Found
  <2>3. Leaving(p, s)
    BY <1>1, <2>1, <2>2, CallCases, FoundLeaves DEF Between
  <2>4. /\ Data' = {mData[q] : q \in Nodes \ {p}} /\ call'.fn # "push"
        /\ p # mTree => peek' = peek
    BY <1>1, <2>2, <2>3, PopData
  <2>5. Data' = Data \ {x}
    BY <1>1, <2>2, <2>4, DataWithout, IdleData DEF AllData
  <2>6. (peek \in Abstract!TopOf(Data))'
    BY <2>4 DEF TopRanks
  <2>7. x # peek => peek' = peek
    BY <2>2, <2>4 DEF peek
  <2> QED BY <2>5, <2>6, <2>7 DEF Abstract!remove, Abstract!TopOf, Abstract!Highest
<1> QED BY <1>2, <1>3 DEF remove

(* The tree is the set of ranked elements that the timer service counts    *)
(* on: push, pop and remove of LocHeap, down to the swaps of data, change  *)
(* the set of its data, and the data at the root, as RankedSet says.       *)
THEOREM HeapImplements == HeapSpec => ImplementsRankedSet
<1>1. HeapInit => Abstract!Init
  BY DEF HeapInit, Abstract!Init, Data, peek, Nodes, NoCall
<1>2. HeapInv /\ TopRanks' /\ [HeapNext]_heapVars => [Abstract!Next]_<<Data, peek>>
  <2> SUFFICES ASSUME HeapInv, TopRanks', [HeapNext]_heapVars
               PROVE  Abstract!Next \/ UNCHANGED <<Data, peek>>
    OBVIOUS
  <2>1. ASSUME NEW x \in Elem, push(x) PROVE Abstract!Next
    BY <2>1, PushImplements DEF Abstract!Next
  <2>2. ASSUME NEW x \in Elem, remove(x) PROVE Abstract!Next
    BY <2>2, RemoveImplements DEF Abstract!Next
  <2>3. CASE pop
    BY <2>3, PopImplements DEF Abstract!Next
  <2>4. CASE pushDown \/ popDown
    BY <2>4, DownStutters
  <2>5. CASE UNCHANGED heapVars
    BY <2>5 DEF heapVars, Data, peek, Nodes
  <2> QED BY <2>1, <2>2, <2>3, <2>4, <2>5 DEF HeapNext
<1> QED BY <1>1, <1>2, HeapInductive, TopHighest, PTL DEF HeapSpec, ImplementsRankedSet, Abstract!Spec

=============================================================================
