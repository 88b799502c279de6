---------------------------- MODULE MsgTaskProofs ---------------------------
(***************************************************************************)
(* Proofs about the message task, for any number of messages and whether   *)
(* its thread is joinable or not: nothing is lost or handled out of order, *)
(* the thread does not sleep on a queue that has something for it, and the *)
(* delegate and the task outlive those who use them.                       *)
(***************************************************************************)
EXTENDS MsgTask, SequenceTheorems, TLAPS

Working == {"main", "loop", "run", "wait", "proc", "finish", "leave"}

(* How far client and thread can be together: what start() returned is     *)
(* what became of the thread, and a joinable thread is joined before the   *)
(* client goes on.                                                         *)
ClientAndThread ==
  /\ client \in {"create", "check"} =>
       started = "unknown" /\ ~unblocked /\ destroying = "no" /\ runnable = "live"
  /\ client = "create" => thread = "none" /\ mRunnable
  /\ client = "check" => /\ (mRunnable <=> thread # "none")
                         /\ thread \notin {"finish", "leave", "exited"}
  /\ client \notin {"create", "check"} => started = IF thread = "none" THEN "false" ELSE "true"
  /\ client \in {"using", "join"} => thread # "none"
  /\ client \in {"create", "check", "using"} =>
       (mJoinable <=> joinable /\ (client = "create" \/ thread # "none"))
  /\ client \in {"destroy", "done"} /\ joinable => thread \in {"none", "exited"}
  /\ destroying = "deleted" \/ (destroying # "no" /\ thread = "none") => client = "done"

(* The reference count counts who still holds the delegate.                *)
CountsHolders ==
  /\ mRefCount = (IF client = "done" THEN 0 ELSE 1)
                 + (IF client = "create" \/ thread \in Working THEN 1 ELSE 0)
  /\ delegate = IF mRefCount = 0 THEN "deleted" ELSE "live"

(* The thread that handles messages has a task to do it with.              *)
TaskInUse ==
  /\ runnable = "deleted" => thread \in {"none", "leave", "exited"}
  /\ msg # <<>> <=> thread = "proc"

IInv == TypeOK /\ ClientAndThread /\ CountsHolders /\ TaskInUse

-----------------------------------------------------------------------------
(* The type of the state in parts: what is a number, a name or a sequence, *)
(* and what is true or false.                                              *)
Places ==
  /\ joinable \in Joinable
  /\ mRefCount \in 0..2
  /\ delegate \in {"live", "deleted"}
  /\ runnable \in {"live", "deleted"}
  /\ started \in {"unknown", "true", "false"}
  /\ client \in {"create", "check", "using", "join", "destroy", "done"}
  /\ thread \in {"none", "exited"} \cup Working
  /\ destroying \in {"no", "unblocked", "cleared", "deleted"}
Messages ==
  /\ msg_list \in Seq(1..MaxMsgs)
  /\ msg \in Seq(1..MaxMsgs) /\ Len(msg) <= 1
  /\ sent \in 0..MaxMsgs
  /\ accepted \in Seq(1..MaxMsgs)
  /\ handled \in Seq(1..MaxMsgs)
Flags ==
  /\ mRunnable \in BOOLEAN
  /\ mJoinable \in BOOLEAN
  /\ unblocked \in BOOLEAN
  /\ signalled \in BOOLEAN

LEMMA TypeParts == TypeOK <=> Places /\ Messages /\ Flags
BY DEF TypeOK, ThreadTypeOK, Places, Messages, Flags, Working

LEMMA PlacesStep == Places /\ [Next]_vars => Places'
<1> SUFFICES ASSUME Places, [Next]_vars PROVE Places'
  OBVIOUS
<1> USE DEF Places, Working
<1>1. CASE sendMsg \/ destroyUnblock \/ destroyClear \/ UNCHANGED vars
  BY <1>1 DEF sendMsg, destroyUnblock, destroyClear, vars, threadVars, msgVars
<1>2. CASE construct
  BY <1>2 DEF construct, pthreadCreate, create, clientDestroy, destroy, msgVars
<1>3. CASE destroyThread
  BY <1>3 DEF destroyThread, bye, stop, join, clientDestroy, destroy
<1>4. CASE destroyThis
  BY <1>4 DEF destroyThis
<1>5. CASE receive \/ wakeUp
  BY <1>5 DEF receive, wakeUp, Remove, Move
<1>6. CASE proc \/ deleteTask \/ threadLoop
  BY <1>6 DEF proc, deleteTask, deleteRunnable, threadLoop, threadMain, isRunning,
              threadDestroy, destroy, Move, msgVars
<1> QED BY <1>1, <1>2, <1>3, <1>4, <1>5, <1>6 DEF Next, Client, Thread

LEMMA FlagsStep == Flags /\ [Next]_vars => Flags'
<1> SUFFICES ASSUME Flags, [Next]_vars PROVE Flags'
  OBVIOUS
<1> USE DEF Flags
<1>1. CASE sendMsg \/ destroyClear \/ UNCHANGED vars
  BY <1>1 DEF sendMsg, msg_q_snd, destroyClear, vars, threadVars, msgVars, queueVars
<1>2. CASE destroyUnblock
  BY <1>2 DEF destroyUnblock, msg_q_unblock, threadVars
<1>3. CASE construct \/ destroyThread
  BY <1>3 DEF construct, pthreadCreate, create, destroyThread, bye, stop, join, clientDestroy,
              msgVars, queueVars
<1>4. CASE destroyThis
  BY <1>4 DEF destroyThis, Flush
<1>5. CASE receive \/ wakeUp
  BY <1>5 DEF receive, wakeUp, Remove, Move, queueVars
<1>6. CASE proc \/ deleteTask \/ threadLoop
  BY <1>6 DEF proc, deleteTask, Flush, deleteRunnable, threadLoop, threadMain, isRunning,
              threadDestroy, Move, msgVars, queueVars
<1> QED BY <1>1, <1>2, <1>3, <1>4, <1>5, <1>6 DEF Next, Client, Thread

LEMMA MessagesStep == Messages /\ [Next]_vars => Messages'
<1> SUFFICES ASSUME Messages, [Next]_vars PROVE Messages'
  OBVIOUS
<1> USE DEF Messages
<1>1. CASE sendMsg
  <2>1. sent + 1 \in 1..MaxMsgs /\ sent' = sent + 1
    BY <1>1, MsgAssumption DEF sendMsg
  <2>2. /\ Append(msg_list, sent + 1) \in Seq(1..MaxMsgs)
        /\ Append(accepted, sent + 1) \in Seq(1..MaxMsgs)
    BY <2>1
  <2>3. msg_list' \in Seq(1..MaxMsgs) /\ accepted' \in Seq(1..MaxMsgs)
    BY <1>1, <2>2 DEF sendMsg, msg_q_snd, queueVars
  <2> QED BY <1>1, <2>1, <2>3 DEF sendMsg
<1>2. CASE UNCHANGED msgVars
  BY <1>2 DEF msgVars, queueVars, ghostVars
<1>3. CASE destroyUnblock \/ destroyClear \/ destroyThread
  BY <1>3 DEF destroyUnblock, msg_q_unblock, destroyClear, destroyThread, queueVars, ghostVars
<1>4. CASE destroyThis \/ deleteTask
  <2>1. /\ msg_list' = <<>>
        /\ UNCHANGED <<msg, sent, accepted, handled>>
    BY <1>4 DEF destroyThis, deleteTask, Flush, ghostVars
  <2>2. <<>> \in Seq(1..MaxMsgs)
    OBVIOUS
  <2> QED BY <2>1, <2>2
<1>5. CASE receive \/ wakeUp
  <2>1. UNCHANGED <<sent, accepted, handled>>
    BY <1>5 DEF receive, wakeUp, ghostVars
  <2>2. \/ UNCHANGED <<msg_list, msg>>
        \/ /\ msg_list # <<>>
           /\ msg_list' = Tail(msg_list)
           /\ msg' = <<Head(msg_list)>>
    BY <1>5 DEF receive, wakeUp, Remove, queueVars
  <2>3. CASE UNCHANGED <<msg_list, msg>>
    BY <2>1, <2>3
  <2>4. CASE /\ msg_list # <<>>
             /\ msg_list' = Tail(msg_list)
             /\ msg' = <<Head(msg_list)>>
    <3>1. /\ Tail(msg_list) \in Seq(1..MaxMsgs)
          /\ Head(msg_list) \in 1..MaxMsgs
      BY <2>4, HeadTailProperties
    <3>2. <<Head(msg_list)>> \in Seq(1..MaxMsgs) /\ Len(<<Head(msg_list)>>) = 1
      BY <3>1
    <3> QED BY <2>1, <2>4, <3>1, <3>2
  <2> QED BY <2>2, <2>3, <2>4
<1>6. CASE proc
  BY <1>6 DEF proc, queueVars
<1> QED BY <1>1, <1>2, <1>3, <1>4, <1>5, <1>6
        DEF Next, Client, Thread, construct, threadLoop, vars

LEMMA TypeStart == Init => TypeOK
<1>1. Init => Places
  BY DEF Init, ThreadInit, Places, Working
<1>2. Init => Messages
  BY MsgAssumption DEF Init, Messages
<1>3. Init => Flags
  BY ThreadAssumption DEF Init, ThreadInit, Flags
<1> QED BY <1>1, <1>2, <1>3, TypeParts

LEMMA TypeStep == TypeOK /\ [Next]_vars => TypeOK'
<1>1. TypeOK' <=> Places' /\ Messages' /\ Flags'
  BY TypeParts, PTL
<1> QED BY <1>1, TypeParts, PlacesStep, MessagesStep, FlagsStep

(* Type correctness of the task, its queue and its thread.                 *)
THEOREM TypeCorrect == Spec => []TypeOK
BY TypeStart, TypeStep, PTL DEF Spec

-----------------------------------------------------------------------------
(* The invariant, part by part *)

LEMMA TaskInUseStep == Places /\ ClientAndThread /\ TaskInUse /\ [Next]_vars => TaskInUse'
<1> SUFFICES ASSUME Places, ClientAndThread, TaskInUse, [Next]_vars PROVE TaskInUse'
  OBVIOUS
<1> USE DEF Places, TaskInUse, Working
<1>1. CASE sendMsg \/ destroyUnblock \/ destroyClear \/ destroyThread \/ UNCHANGED vars
  BY <1>1 DEF sendMsg, destroyUnblock, destroyClear, destroyThread, bye, stop, join, clientDestroy,
              vars, threadVars, msgVars
<1>2. CASE construct
  BY <1>2 DEF construct, pthreadCreate, create, clientDestroy, msgVars, ClientAndThread
<1>3. CASE destroyThis
  BY <1>3 DEF destroyThis, Flush, ClientAndThread
<1>4. CASE receive \/ wakeUp
  BY <1>4 DEF receive, wakeUp, Remove, Move, queueVars
<1>5. CASE proc \/ deleteTask \/ threadLoop
  BY <1>5 DEF proc, deleteTask, Flush, deleteRunnable, threadLoop, threadMain, isRunning,
              threadDestroy, Move, msgVars
<1> QED BY <1>1, <1>2, <1>3, <1>4, <1>5 DEF Next, Client, Thread

LEMMA CountsHoldersStep == Places /\ ClientAndThread /\ CountsHolders /\ [Next]_vars => CountsHolders'
<1> SUFFICES ASSUME Places, ClientAndThread, CountsHolders, [Next]_vars PROVE CountsHolders'
  OBVIOUS
<1> USE DEF Places, CountsHolders, Working
<1>1. CASE sendMsg \/ destroyUnblock \/ destroyClear \/ destroyThis \/ UNCHANGED vars
  BY <1>1 DEF sendMsg, destroyUnblock, destroyClear, destroyThis, vars, threadVars
<1>2. CASE construct
  BY <1>2 DEF construct, pthreadCreate, create, clientDestroy, destroy, ClientAndThread
<1>3. CASE destroyThread
  BY <1>3 DEF destroyThread, bye, stop, join, clientDestroy, destroy
<1>4. CASE receive \/ wakeUp
  BY <1>4 DEF receive, wakeUp, Remove, Move
<1>5. CASE proc
  BY <1>5 DEF proc, Move
<1>6. CASE deleteTask
  BY <1>6 DEF deleteTask, deleteRunnable, Move
<1>7. CASE threadMain \/ isRunning
  BY <1>7 DEF threadMain, isRunning, Move
<1>8. CASE threadDestroy
  BY <1>8 DEF threadDestroy, destroy, Move, ClientAndThread
<1> QED BY <1>1, <1>2, <1>3, <1>4, <1>5, <1>6, <1>7, <1>8 DEF Next, Client, Thread, threadLoop

LEMMA ClientAndThreadStep ==
  Places /\ Flags /\ ClientAndThread /\ TaskInUse /\ [Next]_vars => ClientAndThread'
<1> SUFFICES ASSUME Places, Flags, ClientAndThread, TaskInUse, [Next]_vars PROVE ClientAndThread'
  OBVIOUS
<1> joinable \in BOOLEAN
  BY ThreadAssumption DEF Places
<1> USE DEF Places, Flags, ClientAndThread, Working
<1>1. CASE sendMsg \/ UNCHANGED vars
  BY <1>1 DEF sendMsg, msg_q_snd, vars, threadVars, msgVars, queueVars
<1>2. CASE destroyUnblock
  BY <1>2 DEF destroyUnblock, msg_q_unblock, threadVars
<1>3. CASE destroyClear
  BY <1>3 DEF destroyClear, queueVars, threadVars
<1>4. CASE destroyThread
  BY <1>4 DEF destroyThread, bye, stop, join, clientDestroy, queueVars
<1>5. CASE destroyThis
  BY <1>5 DEF destroyThis, Flush
<1>6. CASE construct
  <2>1. UNCHANGED <<unblocked, destroying, runnable, joinable>>
    BY <1>6 DEF construct, pthreadCreate, create, clientDestroy, msgVars, queueVars
  <2>2. CASE pthreadCreate
    <3>1. /\ client = "create" /\ client' = "check"
          /\ thread = "none" /\ mRunnable /\ (mJoinable <=> joinable)
          /\ started = "unknown" /\ started' = "unknown"
          /\ ~unblocked /\ destroying = "no" /\ runnable = "live"
      BY <2>2 DEF pthreadCreate
    <3>2. CASE thread' = "main" /\ UNCHANGED <<mRunnable, mJoinable, mRefCount>>
      <4>1. mRunnable' /\ (mJoinable' <=> joinable')
        BY <2>1, <3>1, <3>2
      <4> QED BY <2>1, <3>1, <3>2, <4>1
    <3>3. CASE mRunnable' = FALSE /\ mJoinable' = FALSE /\ UNCHANGED thread
      BY <2>1, <3>1, <3>3
    <3> QED BY <2>2, <3>2, <3>3 DEF pthreadCreate
  <2>3. CASE create
    BY <2>1, <2>3 DEF create
  <2>4. CASE started = "false" /\ clientDestroy
    BY <2>1, <2>4 DEF clientDestroy
  <2> QED BY <1>6, <2>2, <2>3, <2>4 DEF construct
<1>7. CASE receive \/ wakeUp
  BY <1>7 DEF receive, wakeUp, Remove, Move, queueVars
<1>8. CASE proc
  BY <1>8 DEF proc, Move, queueVars
<1>9. CASE deleteTask
  BY <1>9 DEF deleteTask, Flush, deleteRunnable, Move, queueVars
<1>10. CASE threadLoop
  BY <1>10 DEF threadLoop, threadMain, isRunning, threadDestroy, Move, msgVars, queueVars
<1> QED BY <1>1, <1>2, <1>3, <1>4, <1>5, <1>6, <1>7, <1>8, <1>9, <1>10 DEF Next, Client, Thread

LEMMA Inductive == Spec => []IInv
<1>1. Init => IInv
  <2>1. Init => TypeOK
    BY TypeStart
  <2>2. Init => ClientAndThread
    BY DEF Init, ThreadInit, ClientAndThread
  <2>3. Init => CountsHolders /\ TaskInUse
    BY DEF Init, ThreadInit, CountsHolders, TaskInUse
  <2> QED BY <2>1, <2>2, <2>3 DEF IInv
<1>2. IInv /\ [Next]_vars => IInv'
  BY TypeParts, TypeStep, ClientAndThreadStep, CountsHoldersStep, TaskInUseStep DEF IInv
<1> QED BY <1>1, <1>2, PTL DEF Spec

-----------------------------------------------------------------------------
(* Whichever of client and thread lets go last deletes the delegate, no    *)
(* one uses it afterwards, and a joinable thread is joined before          *)
(* destroy() returns: the count is that of the holders.                    *)
THEOREM DelegateKept == Spec => []DelegateOutlives
<1>1. IInv => DelegateOutlives
  <2> SUFFICES ASSUME IInv PROVE DelegateOutlives
    OBVIOUS
  <2>1. Places
    BY TypeParts DEF IInv
  <2>2. DelegateShared
    BY <2>1 DEF IInv, ClientAndThread, CountsHolders, DelegateShared, Places, Working
  <2>3. JoinedFirst
    BY DEF IInv, ClientAndThread, JoinedFirst
  <2> QED BY <2>2, <2>3 DEF IInv, DelegateOutlives
<1> QED BY <1>1, Inductive, PTL

(* The thread never sleeps on a queue that has a message for it, or that   *)
(* is unblocked: looking and waiting are one step under the queue's mutex. *)
THEOREM NoSignalLost == Spec => []NoLostSignal
<1>1. Init => NoLostSignal
  BY DEF Init, ThreadInit, NoLostSignal
<1>2. NoLostSignal /\ [Next]_vars => NoLostSignal'
  <2> SUFFICES ASSUME NoLostSignal, [Next]_vars PROVE NoLostSignal'
    OBVIOUS
  <2> USE DEF NoLostSignal
  <2>1. CASE sendMsg
    BY <2>1 DEF sendMsg, msg_q_snd, threadVars, queueVars
  <2>2. CASE destroyUnblock
    BY <2>2 DEF destroyUnblock, msg_q_unblock, threadVars
  <2>3. CASE destroyClear \/ destroyThread
    BY <2>3 DEF destroyClear, destroyThread, bye, stop, join, clientDestroy, threadVars, queueVars
  <2>4. CASE destroyThis
    BY <2>4 DEF destroyThis, Flush
  <2>5. CASE construct
    BY <2>5 DEF construct, pthreadCreate, create, clientDestroy, msgVars, queueVars
  <2>6. CASE receive \/ wakeUp
    BY <2>6 DEF receive, wakeUp, Remove, Move, queueVars
  <2>7. CASE proc \/ deleteTask
    BY <2>7 DEF proc, deleteTask, Flush, deleteRunnable, Move, queueVars
  <2>8. CASE threadLoop
    BY <2>8 DEF threadLoop, threadMain, isRunning, threadDestroy, Move, msgVars, queueVars
  <2>9. CASE UNCHANGED vars
    BY <2>9 DEF vars, threadVars, msgVars, queueVars
  <2> QED BY <2>1, <2>2, <2>3, <2>4, <2>5, <2>6, <2>7, <2>8, <2>9 DEF Next, Client, Thread
<1> QED BY <1>1, <1>2, PTL DEF Spec

-----------------------------------------------------------------------------
(* The order of the messages *)

(* A message stays where it is in the order when it moves from the queue   *)
(* to the thread's hand, and from there to the handled ones.               *)
LEMMA OldestTaken ==
  ASSUME NEW S, NEW done \in Seq(S), NEW list \in Seq(S), list # <<>>
  PROVE  (done \o <<>>) \o list = (done \o <<Head(list)>>) \o Tail(list)
<1>1. Head(list) \in S /\ Tail(list) \in Seq(S) /\ <<Head(list)>> \in Seq(S)
  BY HeadTailProperties
<1>2. <<Head(list)>> \o Tail(list) = list
  BY HeadTailProperties, <1>1
<1>3. done \o <<>> = done
  BY ConcatEmptySeq
<1> QED BY <1>1, <1>2, <1>3, ConcatAssociative

LEMMA HandledMoves ==
  ASSUME NEW S, NEW done \in Seq(S), NEW hand \in Seq(S), NEW list \in Seq(S)
  PROVE  (done \o hand) \o list = ((done \o hand) \o <<>>) \o list
BY ConcatProperties, ConcatEmptySeq

LEMMA NewestLast ==
  ASSUME NEW S, NEW done \in Seq(S), NEW hand \in Seq(S), NEW list \in Seq(S), NEW m \in S
  PROVE  (done \o hand) \o Append(list, m) = Append((done \o hand) \o list, m)
<1>1. done \o hand \in Seq(S) /\ <<m>> \in Seq(S) /\ (done \o hand) \o list \in Seq(S)
  BY ConcatProperties
<1>2. /\ Append(list, m) = list \o <<m>>
      /\ Append((done \o hand) \o list, m) = ((done \o hand) \o list) \o <<m>>
  BY <1>1, AppendIsConcat
<1> QED BY <1>1, <1>2, ConcatAssociative

(* The handled messages are the first of the accepted ones.                *)
LEMMA FlushCuts ==
  ASSUME NEW S, NEW done \in Seq(S), NEW list \in Seq(S)
  PROVE  \E n \in 0..Len((done \o <<>>) \o list) : done = SubSeq((done \o <<>>) \o list, 1, n)
<1>1. (done \o <<>>) \o list = done \o list
  BY ConcatEmptySeq
<1>2. Len(done) \in 0..Len(done \o list)
  BY ConcatProperties, LenProperties
<1>3. done = SubSeq(done \o list, 1, Len(done))
  <2>1. CASE done = <<>>
    BY <2>1, SubSeqEmpty
  <2>2. CASE done # <<>>
    <3>1. 1 \in 1..Len(done) /\ Len(done) \in 1..Len(done)
      BY <2>2, EmptySeq, LenProperties
    <3> QED BY <3>1, SubSeqOfConcat1, SubSeqFull
  <2> QED BY <2>1, <2>2
<1> QED BY <1>1, <1>2, <1>3

(* A step that neither sends nor receives nor deletes the task.            *)
LEMMA OrderUntouched ==
  ASSUME HandledInOrder, UNCHANGED <<runnable, accepted, handled, msg, msg_list>>
  PROVE  HandledInOrder'
BY DEF HandledInOrder

(* Every message the queue took is handled once and in the order it was    *)
(* taken, up to those the deletion of the task flushes.                    *)
THEOREM OldestFirst == Spec => []HandledInOrder
<1>1. Init => HandledInOrder
  <2>1. <<>> \in Seq(1..MaxMsgs)
    BY EmptySeq
  <2>2. <<>> \o <<>> = <<>>
    BY <2>1, ConcatEmptySeq
  <2> QED BY <2>2 DEF Init, ThreadInit, HandledInOrder
<1>2. IInv /\ HandledInOrder /\ [Next]_vars => HandledInOrder'
  <2> SUFFICES ASSUME IInv, HandledInOrder, [Next]_vars PROVE HandledInOrder'
    OBVIOUS
  <2>0. Places /\ Messages
    BY TypeParts DEF IInv
  <2>a. /\ msg_list \in Seq(1..MaxMsgs) /\ msg \in Seq(1..MaxMsgs)
        /\ accepted \in Seq(1..MaxMsgs) /\ handled \in Seq(1..MaxMsgs)
    BY <2>0 DEF Messages
  <2>1. CASE sendMsg
    <3>1. sent + 1 \in 1..MaxMsgs
      BY <2>0, <2>1, MsgAssumption DEF sendMsg, Messages
    <3>2. runnable = "live" /\ runnable' = "live" /\ UNCHANGED <<msg, handled>>
      BY <2>1 DEF sendMsg, threadVars
    <3>3. CASE unblocked
      BY <2>1, <3>2, <3>3, OrderUntouched DEF sendMsg, msg_q_snd, queueVars
    <3>4. CASE ~unblocked
      <4>1. /\ msg_list' = Append(msg_list, sent + 1)
            /\ accepted' = Append(accepted, sent + 1)
        BY <2>1, <3>4 DEF sendMsg, msg_q_snd
      <4>2. accepted = handled \o msg \o msg_list
        BY <3>2 DEF HandledInOrder
      <4>3. (handled \o msg) \o Append(msg_list, sent + 1)
              = Append((handled \o msg) \o msg_list, sent + 1)
        BY <2>a, <3>1, NewestLast
      <4>4. accepted' = handled' \o msg' \o msg_list'
        BY <3>2, <4>1, <4>2, <4>3
      <4> QED BY <3>2, <4>4 DEF HandledInOrder
    <3> QED BY <3>3, <3>4
  <2>2. CASE destroyUnblock \/ destroyClear \/ destroyThread
    BY <2>2, OrderUntouched DEF destroyUnblock, msg_q_unblock, destroyClear, destroyThread, bye, stop,
                join, clientDestroy, threadVars, queueVars, ghostVars
  <2>3. CASE construct \/ threadLoop
    BY <2>3, OrderUntouched DEF construct, pthreadCreate, create, clientDestroy, threadLoop,
                threadMain, isRunning, threadDestroy, msgVars, queueVars, ghostVars
  <2>4. CASE UNCHANGED vars
    BY <2>4, OrderUntouched DEF vars, threadVars, msgVars, queueVars, ghostVars
  <2>5. CASE destroyThis \/ deleteTask
    <3>1. thread # "proc"
      BY <2>5 DEF destroyThis, deleteTask, deleteRunnable, Move, IInv, ClientAndThread
    <3>2. msg = <<>>
      BY <3>1 DEF IInv, TaskInUse
    <3>3. runnable' = "deleted" /\ UNCHANGED <<accepted, handled>>
      BY <2>5 DEF destroyThis, deleteTask, deleteRunnable, Flush, ghostVars
    <3>4. \E n \in 0..Len(accepted) : handled = SubSeq(accepted, 1, n)
      <4>1. CASE runnable = "live"
        <5>1. accepted = (handled \o <<>>) \o msg_list
          BY <3>2, <4>1 DEF HandledInOrder
        <5> QED BY <5>1, <2>a, FlushCuts
      <4>2. CASE runnable # "live"
        BY <4>2 DEF HandledInOrder
      <4> QED BY <4>1, <4>2
    <3> QED BY <3>3, <3>4 DEF HandledInOrder
  <2>6. CASE receive \/ wakeUp
    <3>1. UNCHANGED <<runnable, accepted, handled>>
      BY <2>6 DEF receive, wakeUp, ghostVars
    <3>2. \/ UNCHANGED <<msg_list, msg>>
          \/ /\ thread \in {"run", "wait"} /\ msg_list # <<>>
             /\ msg_list' = Tail(msg_list)
             /\ msg' = <<Head(msg_list)>>
      BY <2>6 DEF receive, wakeUp, Remove, Move, queueVars
    <3>3. CASE UNCHANGED <<msg_list, msg>>
      BY <3>1, <3>3, OrderUntouched
    <3>4. CASE /\ thread \in {"run", "wait"} /\ msg_list # <<>>
               /\ msg_list' = Tail(msg_list)
               /\ msg' = <<Head(msg_list)>>
      <4>1. msg = <<>> /\ runnable = "live"
        BY <2>0, <3>4 DEF IInv, TaskInUse, Places
      <4>2. accepted = (handled \o <<>>) \o msg_list
        BY <4>1 DEF HandledInOrder
      <4>3. accepted = (handled \o <<Head(msg_list)>>) \o Tail(msg_list)
        BY <2>a, <3>4, <4>2, OldestTaken
      <4> QED BY <3>1, <3>4, <4>1, <4>3 DEF HandledInOrder
    <3> QED BY <3>2, <3>3, <3>4
  <2>7. CASE proc
    <3>1. /\ thread = "proc" /\ handled' = handled \o msg /\ msg' = <<>>
          /\ UNCHANGED <<runnable, accepted, msg_list>>
      BY <2>7 DEF proc, Move, queueVars
    <3>2. runnable = "live" /\ runnable' = "live"
      BY <2>0, <3>1 DEF IInv, TaskInUse, Places
    <3>3. accepted = (handled \o msg) \o msg_list
      BY <3>2 DEF HandledInOrder
    <3> QED BY <2>a, <3>1, <3>2, <3>3, HandledMoves DEF HandledInOrder
  <2> QED BY <2>1, <2>2, <2>3, <2>4, <2>5, <2>6, <2>7 DEF Next, Client, Thread
<1> QED BY <1>1, <1>2, Inductive, PTL DEF Spec
=============================================================================
