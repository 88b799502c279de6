------------------------------ MODULE LocThread -----------------------------
(***************************************************************************)
(* LocThread and its LocThreadDelegate (gps/utils/LocThread.cpp): the      *)
(* client creates a delegate and with it a thread that runs a LocRunnable  *)
(* until told to stop. The two sides share the delegate with no lock but   *)
(* around its reference count, and each lets go of it in its own time.     *)
(***************************************************************************)
EXTENDS Naturals

CONSTANTS
  Joinable      \* the values of joinable that clients ask for

ASSUME ThreadAssumption == Joinable \subseteq BOOLEAN

VARIABLES
  joinable,     \* what the client asked for: a joinable or a detached thread
  mRunnable,    \* is mRunnable set? the thread runs as long as it is
  mJoinable,
  mRefCount,
  delegate,     \* the LocThreadDelegate object: "live" or "deleted"
  runnable,     \* the LocRunnable object: "live" or "deleted"
  started,      \* what start() returned: "unknown", "true" or "false"
  client,       \* where the client's thread is
  thread        \* where the created thread is

threadVars ==
  <<joinable, mRunnable, mJoinable, mRefCount, delegate, runnable, started, client, thread>>

ThreadTypeOK ==
  /\ joinable \in Joinable
  /\ mRunnable \in BOOLEAN
  /\ mJoinable \in BOOLEAN
  /\ mRefCount \in 0..2
  /\ delegate \in {"live", "deleted"}
  /\ runnable \in {"live", "deleted"}
  /\ started \in {"unknown", "true", "false"}
  /\ client \in {"create", "check", "using", "join", "destroy", "done"}
  /\ thread \in {"none", "main", "loop", "run", "wait", "proc", "finish", "leave", "exited"}

ThreadInit ==
  /\ joinable \in Joinable
  /\ mRunnable = TRUE
  /\ mJoinable = joinable
  /\ mRefCount = 2
  /\ delegate = "live"
  /\ runnable = "live"
  /\ started = "unknown"
  /\ client = "create"
  /\ thread = "none"

(* Mutant: the count is compared after it is decremented. *)
destroyEarly ==
  /\ mRefCount' = IF mRefCount > 0 THEN mRefCount - 1 ELSE mRefCount
  /\ delegate' = IF mRefCount = 2 THEN "deleted" ELSE delegate

(* LocThreadDelegate::destroy *)
destroy ==
  /\ mRefCount' = IF mRefCount > 0 THEN mRefCount - 1 ELSE mRefCount
  /\ delegate' = IF mRefCount = 1 THEN "deleted" ELSE delegate

-----------------------------------------------------------------------------
(* The client *)

(* The constructor of LocThreadDelegate, up to pthread_create, which may   *)
(* fail; if not, the thread is running from here on.                       *)
pthreadCreate ==
  /\ client = "create"
  /\ client' = "check"
  /\ \/ thread' = "main" /\ UNCHANGED <<mRunnable, mJoinable, mRefCount>>
     \/ /\ mRunnable' = FALSE /\ mJoinable' = FALSE /\ mRefCount' = 1
        /\ UNCHANGED thread
  /\ UNCHANGED <<joinable, delegate, runnable, started>>

(* LocThreadDelegate::create looks at the result. *)
create ==
  /\ client = "check"
  /\ started' = IF mRunnable THEN "true" ELSE "false"
  /\ client' = IF mRunnable THEN "using" ELSE "destroy"
  /\ UNCHANGED <<joinable, mRunnable, mJoinable, mRefCount, delegate, runnable, thread>>

(* LocThread::stop *)
stop ==
  /\ client = "using"
  /\ mRunnable' = FALSE
  /\ mJoinable' = FALSE
  /\ client' = IF mJoinable THEN "join" ELSE "destroy"
  /\ UNCHANGED <<joinable, mRefCount, delegate, runnable, started, thread>>

(* LocThread::~LocThread, bye() *)
bye ==
  IF mJoinable THEN stop
  ELSE /\ client = "using"
       /\ client' = "destroy"
       /\ UNCHANGED <<joinable, mRunnable, mJoinable, mRefCount, delegate, runnable, started, thread>>

join ==
  /\ client = "join"
  /\ thread = "exited"
  /\ client' = "destroy"
  /\ UNCHANGED <<joinable, mRunnable, mJoinable, mRefCount, delegate, runnable, started, thread>>

clientDestroy ==
  /\ client = "destroy"
  /\ destroy
  /\ client' = "done"
  /\ UNCHANGED <<joinable, mRunnable, mJoinable, runnable, started, thread>>

-----------------------------------------------------------------------------
(* The thread: threadMain *)

Move(from, to) ==
  /\ thread = from
  /\ thread' = to
  /\ UNCHANGED <<joinable, mJoinable, started, client>>

(* The runnable is known to the thread from here on, or never. *)
threadMain ==
  /\ Move("main", IF mRunnable THEN "loop" ELSE "leave")
  /\ UNCHANGED <<mRunnable, mRefCount, delegate, runnable>>

isRunning ==
  /\ Move("loop", IF mRunnable THEN "run" ELSE "finish")
  /\ UNCHANGED <<mRunnable, mRefCount, delegate, runnable>>

deleteRunnable ==
  /\ Move("finish", "leave")
  /\ mRunnable' = FALSE
  /\ runnable' = "deleted"
  /\ UNCHANGED <<mRefCount, delegate>>

threadDestroy ==
  /\ Move("leave", "exited")
  /\ destroy
  /\ UNCHANGED <<mRunnable, runnable>>

-----------------------------------------------------------------------------
(* Properties *)

(* Neither side uses the delegate after it is deleted, though either may   *)
(* be the one to delete it, and neither leaves without letting go of it.   *)
DelegateShared ==
  /\ client # "done" \/ thread \notin {"none", "exited"} => delegate = "live"
  /\ client = "done" /\ thread \in {"none", "exited"} => delegate = "deleted"
=============================================================================
