# Models and proofs for the OnePlus 3 device tree

The repository is the Android device tree of the OnePlus 3. Most of it is
configuration; the code with state of its own is the GNSS stack under `src/gps`
(33,000 lines of C++ and C), with a few small HALs and two Java packages beside
it. This directory holds TLA+ models of that code, the TLC configurations that
check them on small instances, and TLAPS proofs of the properties that hold for
every instance. `PROJECT.json` maps definitions to source lines, and lists the
runs, the mutants, the findings, the hazards and the theorems.

## The system

```
 Android framework            modem (QMI)                other daemons
   | HIDL (gps/android)         | LocApi (vendor library)    | LocIpc sockets
   v                            v                            v
 LocationAPI clients  --->  GnssAdapter (gps/gnss)  <---  XtraSystemStatusObserver
 (gps/android/location_api,   |   AgpsManager             SystemStatusOsObserver
  gps/location)               |   (Agps.cpp)              (gps/core)
                              v
      MsgTask  <--- every message of the adapters is handled in one thread
      LocTimer <--- timers call back in threads of their own
      LocThread, msg_q, linked_list, LocHeap  (gps/utils)
```

| Component | State | Operations | What is hard |
|---|---|---|---|
| `AgpsStateMachine` | `mState`, `mSubscriberList` | subscribe, unsubscribe, granted, released, denied | reports of the framework arrive late, for a request that is over |
| `AgpsManager`, `DSStateMachine` | three machines, `mRetries` | requestATL, releaseATL, data call reports, retry, modem restart | requests the manager posts to itself, retry timers, freed subscribers |
| `LocTimer` | delegates, container, timerfd, epoll set | start, stop, destroy, push, remove, expire | two threads and any number of clients, one fd, no common lock |
| `LocHeap` | a binary tree | push, pop, remove, peek | any order of operations, equal ranks |
| `LocThread` | delegate, reference count | start, stop, bye, threadMain | who deletes what, and when |
| `MsgTask`, `msg_q` | a queue, `unblocked` | sendMsg, run, destroy | lost signals, destruction while in use |
| `LocationAPI` | clients, interfaces, sessions | create, change and destroy clients, start and stop | libraries that are loaded once or missing |
| `LocationAPIClientBase` | dictionaries and request queues | tracking, batching, geofences | responses paired with requests by their order |
| `GnssAdapter`: sessions | client data, tracking sessions | commands, engine up | multiplexing of sessions, engine restart |
| `GnssAdapter`: NI and ODCPI | two NI sessions, a timer | notify, respond, request, expire | a thread per request, locks taken too late, stale expiries |
| `GnssAdapter`, `ContextBase`: control | power vote, `mGps_conf`, server | enable, disable, configure, restart | three copies of the configuration |
| `GnssAdapter`: reports | satellites of the last fix | position, satellites, NMEA, measurements | what belongs to which fix |
| `LocApiBase`, `LocAdapterBase` | array of adapters, event mask | add/remove adapter, open, close, SSR | the array changes under the modem's thread |
| `SystemStatus` | the last reports of each item | debug sentences, positions, deletion | equal reports, missing fields |
| `SystemStatusOsObserver` | clients and data items | subscribe, update, unsubscribe, notify | two maps that must be inverses |
| `XtraSystemStatusObserver`, `LocIpc` | connection state | messages from sockets and timers | a daemon that asks when it likes |
| HIDL services | callback objects, pending configuration | setCallback, cleanup, setters | what is set before there is a client |
| `Light`, Doze, device settings | three light states; sensor registrations; sysfs nodes | setLight; screen on/off | nothing runs concurrently there |

Clients call through HIDL services into `LocationAPI`, which passes each call to
the interface that serves it. For GNSS that is `GnssAdapter`, whose commands
append a message to the task's queue and return an id; the response comes back
from the task. The modem calls `LocApiBase`, which walks its array of adapters;
each adapter turns the call into a message as well. Data items of the framework
(networks, cells) go through `SystemStatus` to `SystemStatusOsObserver`, and from
there to the XTRA observer and its daemon.

What makes each of these correct is stated as the properties of its module.

## Modules

| Module | Models | Checked by |
|---|---|---|
| `AgpsStateMachine` | one state machine, the modem and the framework | its own run, proofs in `AgpsStateMachineProofs` |
| `Agps` | the manager, three machines, DS retries and fallback; refines `AgpsStateMachine` twice | its own runs, and `MCAgps`, which adds symmetry; proofs in `AgpsProofs` |
| `RankedSet` | what a heap promises | through `LocHeap` and `LocTimer` |
| `LocHeap` | the tree; refines `RankedSet` | `MCLocHeap`, which adds symmetry; proofs in `LocTimerProofs` |
| `LocTimer` | clients, message task, poll thread; uses `RankedSet` as its container | its own runs, proofs in `LocTimerProofs` |
| `LocThread` | delegate, client and thread | `MsgTask`, which extends it |
| `MsgTask` | the queue and the task, on `LocThread` | its own runs, proofs in `MsgTaskProofs` |
| `GnssAdapter` | the adapter's side of tracking sessions, and the modem | `Tracking`, which extends it |
| `Tracking` | the clients of those sessions, composed with the adapter | its own run, proofs in `TrackingProofs` |
| `AdapterTask` | the message task as the modules of its requests share it | through the two compositions below |
| `GnssNi` | network initiated requests, their threads and the user | `ModemRequests` |
| `Odcpi` | on demand position injection and its timer | `ModemRequests` |
| `GnssControl` | power vote and configuration, from the HIDL service to the modem | `ModemRequests` |
| `ModemRequests` | composes these three on one queue, with the restart of the modem | `MCModemRequests`, which gives the settings; proofs in `ModemRequestsProofs` |
| `LocationSessions` | batching sessions of a client | `LocationServices` |
| `Geofences` | geofences of a client and the engine's | `LocationServices` |
| `LocationApi` | which interface serves which client | `LocationServices` |
| `LocApi` | the adapters, their event mask, the modem's restart | `LocationServices` |
| `OsObserver` | data items, their subscribers, the XTRA observer | `LocationServices` |
| `SystemStatus` | the cache of the engine's reports and the debug report | `GnssReports`, which extends it |
| `GnssReports` | reports on their way to clients and to that cache | `LocationServices` |
| `LocationServices` | composes these seven; a behaviour is that of one part | `MCLocationServices`, which gives the reports and adds symmetry; proofs in `LocationServicesProofs` |
| `Queue`, `QueueTheorems` | membership and positions in a queue, requests that end with those of its messages, and what sending and receiving do to them | the modules that use them, proofs included |
| `Overlay` | a function written over another | the modules that use it |

Operators named as mutants are variants of the definition after them with one
plausible mistake. No specification uses them; each shows that a property
notices the mistake.

### AgpsStateMachine

`mState` and `mSubscriberList` are the fields of the class; the list is a set,
because the base class only asks whether somebody is in it and notifies all of
a kind. `atl` is what the modem was told of each handle, which the code keeps
nowhere: it is what the notifications amount to. `request` and `report` are the
two directions of the channel to the framework (`mFrameworkStatusV4Cb`, and the
`dataConn...Command`s), in order and reliable, with any delay. Each handler of
`processAgpsEvent` is an action. The framework is external: a request opens the
connection or fails, a release closes it or fails, an open connection may be
lost. `MaxInFlight` bounds what is under way when new input arrives.

### Agps

Lists are sequences here, in list order, since `DSStateMachine` serves the first
active subscriber. Deleting from a list keeps the other positions (`KeepAt`).
`nif` is which machines there are: without AGPS capability only that of INTERNET, and
the DS machine, from the start or from its first request, only with the emergency
PDN.
`msgQ` holds the requests the manager posts to itself, and
`timers` counts the running retry timers. The result of
`mDSClientOpenAndStartDataCallFn` is a free choice from `DsResult`. The read of
freed memory in `deleteSubscriber` is a free choice from `FreedReads`: empty, it
never equals a subscriber, as with an allocator that clobbers freed blocks.
`ModemRequest` and `releaseATL` take the modem's message and process it in one
step. `handleModemSSR` has no caller in this repository; the vendor library has.

### LocHeap and RankedSet

`RankedSet` keeps a set and one of its highest elements. `LocHeap` is the tree. The
nodes of `LocHeapNode` stay where they are and swap their data, so a node is the
path to it from the top. What one call of the recursive `push` and `pop` does to
its node is a step: `PushNode` keeps the higher ranked data and drops the other into
the smaller subtree, `PopNode` swaps the data that leaves with that of the higher
child until it is at a leaf, and `call` is the call made next. `push`, `pop` and
`remove` start only when none is left: the heap has one thread at a time. `remove`
is not recursive in the model: `Found` is where its search ends, which does not
enter a subtree whose top the data outranks, and the sizes above are one less
(`OneLess`). Elements are told apart by address. (`LocHeap.h:84` speaks of "the
node that ranks the same as the input data"; the code compares addresses.) Because
the tree implements the set, `LocTimer` can use the set.

### LocTimer

`start` and `stop` hold the client's lock throughout and are one action each.
The message task and the poll thread take one step per system call on the
timerfd and the epoll set. `expire` is three steps: it reads `mClient` without
the lock, stops that client, and calls it back. The delegate is a record with an
identity; `deleted` collects those deleted. What a call on a destroyed client
does is a free choice between a crash and nothing.

### LocThread and MsgTask

`LocThread` has the two sides' program counters and the delegate they share;
whether the thread is joinable is chosen at the start. `MsgTask` supplies what
runs in the thread, the receive, wait and handling of a message, and on the
client's side the steps of `destroy()`: unblocking the queue, clearing
`mThread`, deleting the thread. A wait may end without a signal.

### GnssAdapter and Tracking

The adapter handles one message of `msgQ` after the other; each handler is an
action, with the call of the modem in it, which a modem that is down refuses
and one that is up may refuse. The removal of a client is a loop, with one
action per session. The modem keeps its old interval when it refuses a new one.
It may go down at any time, loses its session, and comes back with
`handleEngineUpEvent`. `engine` is the interval the modem runs at.

A client is a `LocationAPIClientBase` with its `LocationAPI`. Its commands hold
its mutex and are one action each, except the start of a session, where the
message can be handled before the client has noted the session: `starting` is
the session a client with its mutex held is about to note, and a response waits
for it. `reportResponse` is part of the handler's action. A callback to a client
that was destroyed does nothing or ends the process. Two
variables only record what happened: `refused`, the sessions whose stop the
modem refused, which no client can stop any more once it has moved on, and
`restartFailed`, whether it refused to restart the sessions. `EngineAtSmallest`
and `SessionsInStep` excuse those cases.

### AdapterTask and ModemRequests

`AdapterTask` has the queue of the adapter's task, the number of inputs so far
and, in `handling`, what is left of a message that is handled in more than one
step. `MsgTask` shows that the queue loses and reorders nothing.

`GnssNi`: `niSession` is `mNiData`, one session for SUPL and one for emergency
SUPL, `niThread` the thread of each request. A payload is the number of its
request, so that `freed`, `leaked` and `told` can say what became of each. The
handler of a response looks for its session without the lock (`MsgGnssNiResponse`)
and writes under it (`setResponse`): the thread may leave in between, which
`late` records. Time is a free choice of the thread: it may time out whenever it
waits.

`Odcpi`: `mActive` and `timerRuns` differ between the expiry of the timer and the
handling of its message.

`GnssControl`: a configuration is a function from the items that are set.
`wanted` is what the framework set last, `mGpsConf` what the context keeps,
`modem` what the modem was told. `convert` and `convertBack` go between the two
encodings. The modem may refuse an item and then keeps what it had. When it
restarts it forgets everything except the engine lock, and the adapter posts
`SetConfig` and `RestartSessions`. At the start the constructor's `SetConfig` is
in the queue.

NI shares nothing but the queue with the other two, so a behaviour takes its
inputs from `source`: NI alone, or control with ODCPI.

### LocationServices

Seven modules, each with its own lock and state. No message of one reads the
state of another, so `part` chooses at the start which one a behaviour is about,
among the `Parts` of an instance; interleaving them would multiply the states and
add no behaviour of any of them.
(`GnssReports` extends `SystemStatus`, and is one part with it.)

`LocationSessions`: `mSessionBiDict` maps ids to sessions and their mode,
`sessionRequests` is the one queue of requests, and `answering` a popped request
whose response runs after the mutex was released. The FLP is external: it
answers its commands in order, and a trip ends by itself. `shifted` records that
a response did not find the request that waits for it.

`Geofences`: `forward`, `backward` and `ext` are the three maps of
`mGeofenceBiDict`; the engine answers requests in order with the fences it
accepted, and reports breaches.

`LocationApi`: `interface` says which libraries are loaded or missing,
`registered` which clients each of them serves.

`LocApi`: `mLocAdapters` is the array; `removing` the slot of the hole while
`removeAdapter` has not filled it. `missed` records that a report of the modem
came then. `modem` has what `LocApiV02` opened it with. `GnssAdapter`'s part of
the event mask is computed from its clients and callbacks.

`OsObserver`: the two maps, the cache, `told` what each client was told,
`xtraKnows` what the daemon was sent. The XTRA observer wants `network`, to which
it subscribes, and `tac`, whose data it requests, from the start; `airplane` has
clients only while a library wants it, so first clients join and last ones leave
whether or not the framework has given its object. `fwSubscribed` and
`fwRequested` are what the observer subscribed to and what it requested at the
framework and has not dropped. A request is taken to be served once, as its name
says. Two variables only record what happened: `updated`, the clients that called
`updateSubscription`, and `requesters`, the clients of an item that only requested
its data, with the object there, since it last had no client.

`SystemStatus` and `GnssReports`: an item is a sequence of its last reports. A
sentence is its kind, its number of fields and what they say; a parser that
wants more fields returns uninitialised memory, a free choice from `Payloads`.
`reported` has the last report of each item since the deletion of aiding data,
`delivered` what the clients were told. `fixUsed` and `flagsFor` follow the
satellites of the last fix independently of `mGnssSvIdUsedInPosition`.

## Runs

Every passing run ends within three minutes on two cores.

| Run | Instance | Shows |
|---|---|---|
| `agps_machine` | 3 handles, 3 under way | state, list and the modem's view agree; an answer is on its way; requests and releases are answered |
| `agps_refinement` | 2 handles, 3 types | both regular machines implement `AgpsStateMachine`; no handle in two lists (`MachinesImplement`) |
| `agps_emergency` | 2 handles, all replies of the DS client, 1 modem restart | nobody is forgotten or removed behind the modem's back |
| `loc_heap` | 7 elements, 3 ranks | the tree is consistent, finds what it removes and implements `RankedSet` |
| `loc_timer` | 2 clients, one of which may be destroyed, 3 starts, 2 ticks | no lost wake up, no use of a deleted delegate, no leak; every timer ends |
| `msg_task` | 3 messages, joinable and detached | order, no lost signal, shared delegate, destruction ends |
| `tracking` | 2 clients, 2 intervals, 2 sessions, 1 modem restart | the modem at the smallest interval, responses paired with their requests, no session without an owner, destroyed clients forgotten |
| `modem_requests` | 4 inputs, 3 notifications, 2 expiries, 6 settings, two items the modem may refuse | one owner per payload, the user's own answer, every NI request with a thread answered; ODCPI asked again; lock follows the vote; configuration survives restarts |
| `location_services` | per part: 4 calls with 2 session ids; 3 calls with 2 fence ids; 9 calls of 4 clients; 4 inputs, 3 adapters; 4 inputs, 2 libraries beside XTRA, 2 network types, 3 items of which XTRA does not want one; 4 reports | sessions can be stopped and answers match; breaches reach their fence; interfaces serve their clients; the observer's maps agree with each other and with what the framework was asked for, its clients and the daemon know the last values; reports reach all adapters and the modem delivers what is wanted, after restarts too; debug report and satellites in use are current |

Two handles suffice for the interplay of one that waits for a close with one
that joins meanwhile; the third lets a subscriber join, one leave and one wait.
Three starts let one client restart while another's timer is running. Seven
elements fill a tree of three levels, and removals leave unbalanced ones; with three
ranks, equal ones meet on every level. Two sessions are enough for one to be the
smallest and the other the next smallest, or both equal, and for one client to start the second while
its first is being stopped or could not be; that more sessions and intervals
change nothing for the modem is proved.

Three NI notifications are one for each kind of session and one that finds them
busy or comes after. Four inputs allow a callback, a configuration, a restart and
another change behind it. `MCSettings` has one item of each way an item is
treated: the lock, one injected only with `AGPS_CONFIG_INJECT`, one always sent,
one only kept, the mode that changes the capabilities, and the server. Three
adapters make a hole in front, in the middle and at the end; four calls of a
session client a start, a change, a stop and the reuse of the id before any is
answered. Two satellites of GPS make a bit and an index other than 0, and the ids
32 and 33 of BDS are those at which the shift of an `int` ends. Four inputs of the
observer are the framework's object and, before and behind it, a library that joins
an item, another that joins or requests it, and one of them that leaves; an item of
XTRA and another in one call make a call that tells the framework of one of the two.

Three runs are expected violations: each checks one sentence of a comment
against the code, and is described under `findings`.

- `agps_retry_lost`: a retry that arrives in PENDING does nothing.
- `loc_timer_early`: the first pop of an expiry message is unconditional.
- `msg_task_use_after_free`: the thread may delete the task that `destroy()` is
  still using.

### Known deviations

Where the code does something else than its comments or its reader expect, the
model does what the code does, and the properties are stated so that they hold
of it. Apart from the findings these are:

- The connection of a grant that arrives in RELEASED is not released
  (`Agps.cpp:187`), although elsewhere "If no subscribers in list, release data
  connection" (`Agps.cpp:140`).
- A DS machine that waits to retry is in RELEASED with a subscriber
  (`Agps.cpp:208`, `Agps.h:135`), and a release does not remove it
  (`Agps.cpp:121`).
- The fallback to SUPL subscribes handles that were released and wait for the
  close (`Agps.cpp:668`, `Agps.h:108`).
- `deleteSubscriber` compares with the object it has deleted (`Agps.cpp:430`).
  The runs take `FreedReads = {}`: the comparison with what is left of it fails.
- `expire()` copies `mClient` without the lock (`LocTimer.cpp:530`, `:493`) and
  may stop and call back (`:534`) a client that has restarted its timer, or was
  destroyed.
- The timerfd stays armed when the heap becomes empty (`LocTimer.cpp:287`,
  `:291`).
- `create()` takes a thread that has already ended for one that was not started
  (`LocThread.cpp:118`, `LocThread.h:76`).
- `stop()` before the thread has read its runnable leaks the runnable
  (`LocThread.cpp:181`, `LocThread.h:75`).
- Until `MsgRemoveClient` is processed the adapter responds to a client that is
  destroyed (`GnssAdapter.cpp:1406`).
- After a refused stop the session goes on in the adapter, and the client that
  starts another has no way to stop the first (`LocationAPIClientBase.cpp:336`).
- After a refused start the client believes it is tracking, and a further start
  is accepted and does nothing (`LocationAPIClientBase.cpp:307`).
- `restartSessions` ignores the answer of the modem (`GnssAdapter.cpp:1244`).

Network initiated requests:

- A response that is handled while its thread times out is noted in a session
  that has ended, and answers the next request (`GnssAdapter.cpp:1882`), although
  the thread resets the flag "for the next session" (`:2379`). `AnswerIsItsOwn`
  holds until then.
- The thread clears the id of a session after it has unlocked it; a new session's
  id may be lost, and the user's response to it ignored (`GnssAdapter.cpp:2402`).
- When the thread cannot be created the session stays busy (`:2467`), and without
  a callback the payload is not freed (`:2424`).

Control and configuration:

- The SUPL host of a pending configuration is copied only over another one, and
  there is none (`Gnss.cpp:165`).
- `mGps_conf` is changed before the modem answers. If it refuses, a repetition is
  answered with success and not sent (`GnssControl!Told`); likewise the client
  takes itself for enabled.
- The name of a SUPL host is a new copy at each call (`AGnss.cpp:194`), and compared
  by its address: a repeated host is sent again.
- After a restart the file's SUPL host replaces the client's, and an unchanged one
  is not sent again; the engine lock is not sent at all.

Sessions, geofences and the API:

- A start that is refused while its stop is queued, a second stop of the same
  session, or a trip that completes while it is stopped, leaves a request in the
  queue that answers the next response (`LocationAPIClientBase.cpp:450`).
  `SessionStoppable` and `AnswersMatch` hold until then.
- A start that is refused after a change of mode leaves the id in use.
- When `libflp` is missing a start returns session 0, which is treated as one.
- A fence is added without asking whether its id is in use; a failed addition
  stays in the dictionary. `modifyGeofences` skips unknown ids but not their
  options. `locAPIRemoveAllGeofences`, which nobody calls, passes session numbers
  for ids.
- When the GNSS library is missing the measurement client tracks at the FLP,
  where it was not added (`LocationAPI.cpp:303`).

Adapters and data items:

- While `removeAdapter` fills the hole it made, the adapters behind it miss what
  the modem reports, an engine-up included (`LocApiBase.cpp:175`). An adapter
  beyond `MAX_ADAPTERS` is ignored.
- `mNmeaMask` is set without computing the event mask anew, so NMEA follows with
  the next change of a client.
- A queued open that is handled after the last adapter was removed opens the
  modem again, with no events.
- `updateSubscription` removes the items a client keeps and keeps those it gives
  up, and erases from the set it walks (`LocUnorderedSetMap.h:61`), where line 173
  says it "returns the VALs that are in effect removed". Nothing in the repository
  calls it; `SubscriptionsAgree` leaves out a client that did when it compares the
  maps.
- `trimOrRemove` reads the key of an entry it has erased (`LocUnorderedSetMap.h:136`).
  The model takes the key as it was.
- A disconnection that is the very first report of a network is recorded as a
  connection (`SystemStatus.h:493`).
- Only the first client of an item decides what the framework is asked once its
  object is there: if that client called `requestData`, the data is requested once,
  and a client that subscribes later is not subscribed at the framework
  (`SystemStatusOsObserver.cpp:114`), although it would "receive data when it becomes
  available" (`SystemStatusOsObserver.h:75`). `SubscriptionsAgree` excuses these items
  and no others (`requesters`); what was wanted before the object came is subscribed.
- The message of `turnOn` calls `turnOn` of the observer, not of the framework
  (`SystemStatusOsObserver.cpp:395`).

Reports:

- The age of the debug report's position is the difference of a monotonic clock
  (`SystemStatus.h:69` calls it a "UTC timestamp") and the time of day
  (`GnssDebug.cpp:88`).
- The position of a default report is uninitialised: a fix that equals it is taken
  for a repetition and stays invalid. A best position of zeros after the deletion
  of aiding data stays invalid as well.
- A sentence with too few fields leaves the result of its parser uninitialised,
  except for M1.
- `1 << (gnssSvId - 1)` shifts an `int` (`GnssAdapter.cpp:2230`): id 32 is extended
  with its sign, larger ones are undefined. The comment above says "else clear the
  USED_IN_FIX flag"; nothing clears it.
- Deleting aiding data resets the cache although the modem may refuse to delete.

### Fairness

Liveness assumes that the message task processes what is in its queue and its
handlers return, that timers fire, that the other threads run, and that the
framework and the DS client execute each command once and report. It assumes
nothing of the modem, of clients, or of when a connection fails. In `MsgTask`
the thread has to move only when it is not waiting, or was signalled. In
`Tracking` only the adapter's task, and a client that holds its mutex, have to
move; the modem need not come back. `ModemRequests` assumes that the message task
and the NI threads run; it assumes nothing of the user. `LocationServices` states
safety only.

### Deadlock

`LocTimer`, `MsgTask`, `Tracking`, `ModemRequests` and `LocationServices` may stop:
clocks, messages, sessions and inputs are bounded, tasks end, clients are
destroyed. Deadlock is checked in the others.

## Proofs

Eight modules of proofs show for every value of the constants what the runs show
of an instance. Each rests on an inductive invariant that was checked with TLC
before it was proved. A lemma says for each action, or for each way actions change
the state, that it is kept; the theorem then follows in a line.

### AgpsStateMachineProofs

For any set of handles, any bound on what is under way, and whether or not a
release may fail:

- `TypeCorrect`: the type invariant.
- `BooksAgree` and `StateFollowsSubscribers`: `OneSubscriberPerHandle`,
  `StateMatchesSubscribers` and `ModemAgrees`. None is inductive alone. That an
  idle handle is not in the list keeps the list unique; uniqueness makes the end
  of a release remove exactly the subscribers it told; the state tells which views
  are possible. Their conjunction `Books` is inductive.
- `AnswerOnItsWay`: `ReportOnItsWay` is inductive given the types: the reports
  that take a machine out of PENDING are those the property speaks of, and a
  queue keeps its other elements when its head is taken.

### AgpsProofs

For any handles and any bounds on retries and restarts, with or without the
emergency PDN (`ManagerTypes` is the type invariant):

- `NobodyIsForgotten` and `RemovedWhenTold`: `HandlesKept` and `RemovedOnlyWhenTold`.
  Both follow from what one step can do to a handle in a list (`Stays`): it remains,
  the modem is told that it is over, or a message to subscribe it again is posted.
  The rest is what becomes of a message: its handle then is in a list, or was told.
- `MachinesRefine`: `MachinesImplement`, without the emergency PDN and modem restarts,
  which `AgpsStateMachine` does not have. `ManagerInv` says that the books of each
  machine are those of `AgpsStateMachine`, that its list has no handle twice, and
  that nothing ever goes to the DS machine or through the queue. Then a handle in a
  machine's list was last requested from that machine (`WhoIsInTheList`): taking a
  position from the list takes its subscriber from the set, and a step of one machine
  is a stutter of the other (`StepWithin`), whatever handles they share. That the
  books are kept is `BooksKept` of `AgpsStateMachineProofs`, instantiated for each
  machine.

All three assume `FreedReads = {}`: what `deleteSubscriber` reads from the subscriber
it has freed (`Agps.cpp:430`) is no handle of another one. If it is, that other one is
deleted untold, and neither property holds.

### TrackingProofs

For any clients, intervals and bounds:

- `TypeCorrect`: the type invariant. That the loop of a removal has no session
  to visit when no client is being removed is part of it.
- `EngineRunsAtSmallest`: `EngineAtSmallest`, which is inductive given the types.
  Lemmas about sets of sessions say when adding or removing one leaves the
  smallest interval alone; on them rests one lemma for each of start, stop and
  update, which covers the modem's refusal as well: either the modem and the
  sessions both change, or neither does.
- `KeptInStep`: `SessionsInStep`, from `InStep`. Client and adapter agree because
  the client's requests end with those of its messages that are queued: a message
  sent adds one at the end of both, the head of the queue is answered from the head
  of the requests. Which sessions somebody wants depends on order: a session's
  start is before its other messages (`StartsFirst`), one message at most starts or
  keeps a session of an id (`OneSession`), nothing follows a client's removal
  (`RemovedLast`).

### MsgTaskProofs

For any number of messages, joinable or detached:

- `TypeCorrect` and `DelegateKept`, from `IInv`. `ClientAndThread` says how far
  the client and the thread can be together, `CountsHolders` that `mRefCount`
  counts those that have not let go: without these two nothing tells whether the
  one that decrements is the last.
- `NoSignalLost`: inductive as it stands, since looking at the queue and waiting
  are one step.
- `OldestFirst`: until the task is deleted, what was handled, what the thread has
  in its hand and what is queued are together what was accepted, in that order; a
  message only moves from one to the next.

### LocTimerProofs

For any clients, delays and starts, and however the system calls of the message
task and of the poll thread interleave:

- `WakeupKept`: `NoLostWakeup`, with `PolledBetween`: between its two system calls
  the message task may rely on the timerfd being polled only because an expiry
  that the poll thread still has to post, or has posted, makes it look again.
- `DeletedOnce`: `DelegatesDeleted`. A removal is sent for each detached delegate
  (`RemoveSent`), it is the last message about it (`RemoveLast`), and messages,
  heap and expiry have no deleted delegate (`MessagesLive`, `HeldLive`); a running
  timer's delegate is not detached (`RunningAttached`), so it is sent once.

And about the heap, for any number of elements, ranks and operations:

- `HeapSearchable`: `TreeSearchable`, from `HeapInv`. The tree is in order except
  for the data on its way down (`OrderedBut`), and sizes count the subtrees and one
  more or less above the call under way (`Sized`); pushed data has an address no
  node has and outranks nothing above where it is (`Coming`), data to pop may be
  anywhere below what it had been above (`Leaving`). Paths replace the induction
  over trees: a node above another is a prefix of it (`WithinOrder`, `AboveChild`,
  `BelowChild`, `OneParent`), so the data above an element never ranks lower, and
  the pruned search goes on down to it.
- `HeapImplements`: `ImplementsRankedSet`. What is pushed counts as in the set from
  its call on, and what is popped or removed as out of it; the steps further down
  stutter (`DownStutters`). `remove` is the one of the set also when it finds
  nothing, as then the element is not there (`SearchEnds`); the data at the root is
  a highest one when no push is on its way (`TopHighest`).

### ModemRequestsProofs

For any number of inputs, notifications and expiries and for any settings. The
parts share the queue only, so it is shown first that the steps of each take its
own messages off the queue and add its own (`QueueStep`).

- `RequestServed`: `OdcpiServed`; an expiry stays queued whatever others send.
- `LockIsVotes` and `ConfigurationKept`, from `ControlInv`. What the framework
  wants is pending, or given by the last queued update of that item, or in
  `mGps_conf` (`WantedOnItsWay`), and what `setConfig` compares with is what it
  wants. That the enumerations convert back to what they came from is a lemma.
- `ClientKeptInStep`: `ClientInStep`, from `ClientInv`. The requests of a session
  are those of its queued messages, and a session is new when it is given out
  (`RequestsMatch`, `SessionsOK`). Each queued change of the vote starts from the
  vote the one before it leaves, the first from the adapter's and the last ends in
  the client's (`VotesMatch`): `enable` and `disable` never find a vote they have
  to refuse, and with none queued the two votes are equal.
- `PayloadsOwned`: `PayloadOwned`, from `NiOwned`. A payload is in one message and
  nowhere else, or in one session, or in one thread, or gone (`Placed`). A new
  notification's thread is new because the notifications in the queue are in
  order and ahead of the ids given out (`NotesIn`), and a thread has a payload
  only between its wait and its message.
- `AnswersAreTheirOwn`: `AnswerIsItsOwn`, from `AnswersInv`. A session's id is
  that of the request the user was asked about, or cleared; what a response, a
  session, a thread and a message have to say is what he said to that request.
  With `late` the last three may be lost, which is why the property stops there.

### LocationServicesProofs

For any clients, ids, fences, adapters, data items and number of calls; each part
has its invariant, and the steps of the others leave its variables alone.

- `ServedWhereNeeded`: `InterfacesServe`; an interface is loaded before the first
  client that needs it is known, and only a loaded one has sessions (`ApiInv`).
- `MapsAgree` and `ToldLast`: `SubscriptionsAgree` and `ClientsToldLast`
  (`ObserverPart`), for any libraries and any sets of items they name in a call. The
  two are inductive together with the types and `ToldNothingYet`: the items that get
  their first client, or lose their last one, are those the framework is told of,
  subscribed or requested as that client asked.
- `DaemonKnows`: `XtraKnowsConnections`, from `XtraInv`. The types connected are
  those the cache will have when the queue is handled; the first report is queued
  until the cache has it, the update of the daemon until the observer notes it, and
  a daemon that never asked was never told.
- `ReportsReach`, `DeliversWanted` and `Restarted`, from `AdaptersInv`. The array
  is filled from the front but for the hole of a removal. The properties speak
  of an empty queue; the invariant says which queued message will make each good:
  the open behind the last change of the event mask, the news of a restart for
  each adapter, and the restart of the sessions behind them.
- `AnswersFind` and `Stoppable`: `AnswersMatch` and `SessionStoppable`, from
  `SessionsInv`. The requests in the one queue correspond to the FLP's commands
  that were requested by an increasing function (`Matched`), and the commands
  without a request are stops of sessions nobody has. So the head of the one
  answers the head of the other. A session an answer forgets is over
  (`ForgottenOver`).
- `BreachesFound`: `BreachesReachTheirFence`, from `FenceInv`. A fence is numbered
  once; while its addition is queued it is held by the framework, or forgotten
  with its removal behind the addition. Hence a refusal is reported under the id
  of the fence itself, never under that of another.
- `UsedTold`: `UsedInFixMatches`, from `UsedInv`. The mask and its flag hold just
  the satellites of the last fix not yet told (`UsedToTell`), and an id up to 31 has
  a bit of its own in it.
- `DebugTold`: `DebugReportCurrent`, from `CacheInv`. Of each item the newest entry
  of the cache is what was reported last, with its time, or has nothing but
  defaults; only an entry that is not valid is a default, and without a report
  since the deletion the newest is one (`ItemOK`). The navigation data of the five
  constellations, put together, is the whole of it (`SegmentsJoin`): the first
  entries that `svid_idx` gives neither overlap nor leave a gap.

### Assumptions

They are those named in the modules, which TLC evaluates for each instance:
bounds are natural numbers and intervals positive; 0 or "none" stand for no id,
fence, adapter or network type and are none (`FenceAssumption`,
`AdaptersAssumption`, `TypesAssumption`); ids of fences are `uint32_t`, so there
are finitely many; ranks are natural numbers, and the null pointer is no element
(`HeapAssumption`); a client offers sets of the callbacks there are
(`OffersAssumption`); a setting is of an item that exists, with a value of its
enumeration (`SettingsAssumption`), as HIDL's types have it; a library names some items in
a call (`ItemSetsAssumption`), the parts are the six there are
(`PartsAssumption`); ids of satellites are unsigned (`ReportsAssumption`); the cache
keeps at least one report of an item, and
the number of satellites of a constellation is a natural number
(`StatusAssumption`).

### Model-checked only

- Liveness: `Answered`, `NiAnswered` and the other properties with fairness are out
  of the prover's reach.

## Not modelled

- Text: configuration files, the wording of NMEA sentences, logs. What `gps.conf`
  says is a constant or a choice at the start.
- Conversions between HIDL and internal types, and failed allocations. Conversions
  that something depends on (the values of a configuration, masks of satellites,
  the fields of debug sentences) are modelled.
- `AGnss` and `AGnssRil`, which pass on what they are given; the ULP proxy and the
  vendor's `LocApiV02`, which are not in the repository; the background context.
- A `timerfd_create` that fails: `LocTimer::start` then returns false and has changed
  nothing. The AGNSS server of C2K, which differs from that of SUPL in the item it
  sets. The bounds that the debug report puts on its time (`GnssDebug.cpp:142`).
- `locAPIUpdateSessionOptions` is one action. It holds the mutex, but the FLP's thread
  may call `removeSession` without it (`LocationAPIClientBase.cpp:842`, `:887`) between
  its look at the dictionary and its new entry (`:544`).
- `LocIpc`: a datagram socket whose messages arrive or do not.
- The injection of time and positions, `getZpp`, blacklists.
- `LocTimerWrapper`; the second timer container, which differs from the first in
  its clock.
- The GNSS PPS, lights, Doze, the device's settings and the remaining HALs. They
  write sysfs nodes, or run in one thread with hardly any state of their own.

`PROJECT.json` lists every component with its status. Of what can be modelled,
P1, P4, P6 and S1 of the debug sentences are, but are not among the sentences of
`MCLocationServices`: they treat the cache as P2 does.

## Plan

Of what is left, `LocTimerWrapper` could be added to `LocTimer`, and P1, P4, P6 and
S1 to the sentences that `MCLocationServices` runs.
