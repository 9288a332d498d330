---------------------------- MODULE ServerThreads ----------------------------
(***************************************************************************)
(* The threads of a server (src/src/sw_server.c): the control thread, which *)
(* calls the API (start, run, stop, wait, destroy); the accept loop, on a   *)
(* thread of its own after sw_server_start and on the control thread inside *)
(* sw_server_run; and one thread per worker.  They share the stop flags,    *)
(* the atomic counter of open connections and, for each worker, the array   *)
(* of pending connections under its mutex.                                  *)
(*                                                                          *)
(* What a connection does while a worker serves it is module Connection;    *)
(* here a worker opens a connection, serves it and, for any reason, closes  *)
(* it.                                                                      *)
(***************************************************************************)
EXTENDS Integers, FiniteSets

CONSTANTS
  Conn,            \* the connections clients make (an identity, not a descriptor number)
  NoConn,          \* "no connection"
  WorkerCount,     \* config.worker_count
  MaxConnections,  \* config.max_connections
  MaxStarts,       \* bound: calls of sw_server_start and sw_server_run
  MaxArrivals      \* bound: connections clients make, reconnections included

ASSUME ConnAssumption == NoConn \notin Conn
ASSUME WorkerAssumption == WorkerCount \in Nat \ {0}
ASSUME LimitAssumption == MaxConnections \in Nat \ {0}
ASSUME BoundAssumption == MaxStarts \in Nat /\ MaxArrivals \in Nat

Worker == 0 .. WorkerCount - 1
Control == WorkerCount          \* the control thread, where a thread is named by a number
Thread == Worker \union {Control}

VARIABLES
  stopRequested,   \* server->stop_requested
  workerStop,      \* workers[w].mgr->stop_requested
  ctl,             \* where the control thread is
  call,            \* the API call it executes
  starts,          \* start and run calls made so far
  workerCount,     \* server->worker_count: the workers whose mutex exists
  worker,          \* where each worker thread is; "none": thread_started is 0
  pass,            \* which of the two drains of sw_mgr_poll the worker is in
  accept,          \* where the accept loop is; "none": there is none
  nextWorker,      \* server->next_worker
  lock,            \* who holds pending_lock
  arrivals,        \* connections made so far
  backlog,         \* connections the kernel holds for accept()
  inHand,          \* the connection accepted and counted, not yet queued
  pending,         \* workers[w].pending
  batch,           \* the worker's copy of it, what it has not created yet
  open,            \* workers[w].mgr->connections
  leaving,         \* the connection each thread is closing, not yet released
  releasing,       \* the thread has seen a positive count and will subtract
  active,          \* server->active_connection_count
  accepted         \* workers[w].accepted_count

flagVars == <<stopRequested, workerStop>>
controlVars == <<ctl, call, starts, workerCount>>
acceptVars == <<accept, nextWorker, inHand>>
arrivalVars == <<arrivals, backlog>>
queueVars == <<lock, pending, accepted>>
serveVars == <<batch, open>>
releaseVars == <<leaving, releasing, active>>
vars == <<flagVars, controlVars, worker, pass, acceptVars, arrivalVars,
          queueVars, serveVars, releaseVars>>

places == <<backlog, inHand, pending, batch, open, leaving>>

Queued == {c \in Conn : \E w \in Worker : c \in pending[w]}
Batched == {c \in Conn : \E w \in Worker : c \in batch[w]}
Opened == {c \in Conn : \E w \in Worker : c \in open[w]}
Leaving == {c \in Conn : \E t \in Thread : leaving[t] = c}
InHand == {c \in Conn : inHand = c}

\* The connections that occupy one of the MaxConnections slots.
Held == InHand \union Queued \union Batched \union Opened \union Leaving

Init ==
  /\ stopRequested = FALSE
  /\ workerStop = [w \in Worker |-> FALSE]
  /\ ctl = "idle"
  /\ call = "none"
  /\ starts = 0
  /\ workerCount = 0
  /\ worker = [w \in Worker |-> "none"]
  /\ pass = [w \in Worker |-> 1]
  /\ accept = "none"
  /\ nextWorker = 0
  /\ lock = [w \in Worker |-> "free"]
  /\ arrivals = 0
  /\ backlog = {}
  /\ inHand = NoConn
  /\ pending = [w \in Worker |-> {}]
  /\ batch = [w \in Worker |-> {}]
  /\ open = [w \in Worker |-> {}]
  /\ leaving = [t \in Thread |-> NoConn]
  /\ releasing = [t \in Thread |-> FALSE]
  /\ active = 0
  /\ accepted = [w \in Worker |-> 0]

(***************************************************************************)
(* Clients.  The listener exists from sw_server_add_http to destroy.        *)
(***************************************************************************)

Connect(c) ==
  /\ ctl # "destroyed"
  /\ arrivals < MaxArrivals
  /\ c \notin backlog \union Held
  /\ arrivals' = arrivals + 1
  /\ backlog' = backlog \union {c}
  /\ UNCHANGED <<flagVars, controlVars, worker, pass, acceptVars, queueVars,
                 serveVars, releaseVars>>

(***************************************************************************)
(* The control thread: API calls, each a sequence of steps.                 *)
(***************************************************************************)

\* Mutant: a stop request that reaches the workers' managers but not the server.
RequestStopLost == UNCHANGED stopRequested

RequestStop == stopRequested' = TRUE

\* Mutant: the workers' threads are not waited for.
AllJoinedEarly == TRUE

AllJoined == \A w \in Worker : worker[w] = "none"

\* Mutant: the connection is taken out of its array and its slot never released.
HandOverForgotten(t, c) == UNCHANGED leaving

\* The thread takes the connection out of its array to close it.
HandOver(t, c) == leaving' = [leaving EXCEPT ![t] = c]

\* Mutant: the mutex is not waited for.
LockableAlways(w) == TRUE

Lockable(w) == lock[w] = "free"

AcceptThreadStarted == accept # "none" /\ ctl # "running"

\* sw_server_start and sw_server_run clear the root's flag, and only that one.
BeginStart(c) ==
  /\ ctl = "idle"
  /\ c \in {"start", "run"}
  /\ ~AcceptThreadStarted
  /\ starts < MaxStarts
  /\ starts' = starts + 1
  /\ call' = c
  /\ stopRequested' = FALSE
  /\ ctl' = IF workerCount > 0 THEN "loop" ELSE "workers"
  /\ UNCHANGED <<workerStop, workerCount, worker, pass, acceptVars, arrivalVars,
                 queueVars, serveVars, releaseVars>>

\* One iteration of sw_server_start_workers: mutex, manager, thread.
StartWorker(w) ==
  /\ ctl = "workers"
  /\ w = workerCount
  /\ workerCount' = workerCount + 1
  /\ workerStop' = [workerStop EXCEPT ![w] = FALSE]
  /\ worker' = [worker EXCEPT ![w] = "check"]
  /\ pass' = [pass EXCEPT ![w] = 1]
  /\ ctl' = IF w + 1 = WorkerCount THEN "loop" ELSE "workers"
  /\ UNCHANGED <<stopRequested, call, starts, acceptVars, arrivalVars, queueVars,
                 serveVars, releaseVars>>

\* The worker's array, mutex (not counted), manager or thread (counted) fails:
\* start and run alike stop, and return -1 without joining the threads created.
StartWorkerFails(w) ==
  /\ ctl = "workers"
  /\ w = workerCount
  /\ workerCount' \in {workerCount, workerCount + 1}
  /\ call' = "start"
  /\ ctl' = "stop"
  /\ UNCHANGED <<flagVars, starts, worker, pass, acceptVars, arrivalVars,
                 queueVars, serveVars, releaseVars>>

\* The accept thread is created, or sw_server_run enters its loop.
StartLoop ==
  /\ ctl = "loop"
  /\ accept' = "check"
  /\ IF call = "run"
     THEN ctl' = "running" /\ UNCHANGED call
     ELSE ctl' = "idle" /\ call' = "none"
  /\ UNCHANGED <<flagVars, starts, workerCount, worker, pass, nextWorker, inHand,
                 arrivalVars, queueVars, serveVars, releaseVars>>

\* The accept thread cannot be created: stop, and join the workers.
StartLoopFails ==
  /\ ctl = "loop"
  /\ call = "start"
  /\ call' = "unstart"
  /\ ctl' = "stop"
  /\ UNCHANGED <<flagVars, starts, workerCount, worker, pass, acceptVars,
                 arrivalVars, queueVars, serveVars, releaseVars>>

\* sw_server_stop, sw_server_wait and sw_server_destroy are called.
BeginCall(c) ==
  /\ ctl = "idle"
  /\ c \in {"stop", "wait", "destroy"}
  /\ call' = c
  /\ ctl' = IF c = "wait" THEN "joinAccept" ELSE "stop"
  /\ UNCHANGED <<flagVars, starts, workerCount, worker, pass, acceptVars,
                 arrivalVars, queueVars, serveVars, releaseVars>>

\* SIGINT or SIGTERM while sw_server_run loops: only the root's flag.
Signal ==
  /\ ctl = "running"
  /\ RequestStop
  /\ UNCHANGED <<workerStop, controlVars, worker, pass, acceptVars, arrivalVars,
                 queueVars, serveVars, releaseVars>>

JoinAccept ==
  /\ ctl = "joinAccept"
  /\ accept \in {"none", "exited"}
  /\ accept' = "none"
  /\ ctl' = "stop"
  /\ UNCHANGED <<flagVars, call, starts, workerCount, worker, pass, nextWorker,
                 inHand, arrivalVars, queueVars, serveVars, releaseVars>>

\* The two halves of sw_server_stop: the root's flag, then each worker's.
StopRoot ==
  /\ ctl = "stop"
  /\ RequestStop
  /\ ctl' = "stopWorkers"
  /\ UNCHANGED <<workerStop, call, starts, workerCount, worker, pass, acceptVars,
                 arrivalVars, queueVars, serveVars, releaseVars>>

StoppedFlags == [w \in Worker |-> workerStop[w] \/ w < workerCount]

StopWorkers ==
  /\ ctl = "stopWorkers"
  /\ workerStop' = StoppedFlags
  /\ \/ /\ call \in {"stop", "start"}
        /\ ctl' = "idle"
        /\ call' = "none"
     \/ /\ call \in {"unstart", "run", "wait", "destroyWait"}
        /\ ctl' = "joinWorkers"
        /\ UNCHANGED call
     \/ /\ call = "destroy"
        /\ ctl' = "joinAccept"
        /\ call' = "destroyWait"
  /\ UNCHANGED <<stopRequested, starts, workerCount, worker, pass, acceptVars,
                 arrivalVars, queueVars, serveVars, releaseVars>>

JoinWorker(w) ==
  /\ ctl = "joinWorkers"
  /\ worker[w] = "exited"
  /\ worker' = [worker EXCEPT ![w] = "none"]
  /\ UNCHANGED <<flagVars, controlVars, pass, acceptVars, arrivalVars, queueVars,
                 serveVars, releaseVars>>

JoinedWorkers ==
  /\ ctl = "joinWorkers"
  /\ AllJoined
  /\ IF call = "unstart"
     THEN ctl' = "idle" /\ call' = "none"
     ELSE ctl' = "close" /\ UNCHANGED call
  /\ UNCHANGED <<flagVars, starts, workerCount, worker, pass, acceptVars,
                 arrivalVars, queueVars, serveVars, releaseVars>>

\* sw_worker_clear_pending: close what the worker never took.
ClearPending(w, c) ==
  /\ ctl = "close"
  /\ leaving[Control] = NoConn
  /\ Lockable(w)
  /\ c \in pending[w]
  /\ pending' = [pending EXCEPT ![w] = @ \ {c}]
  /\ HandOver(Control, c)
  /\ UNCHANGED <<flagVars, controlVars, worker, pass, acceptVars, arrivalVars,
                 lock, accepted, serveVars, releasing, active>>

\* sw_mgr_close_all_connections on the worker's manager.
CloseWorkerConnection(w, c) ==
  /\ ctl = "close"
  /\ leaving[Control] = NoConn
  /\ c \in open[w]
  /\ open' = [open EXCEPT ![w] = @ \ {c}]
  /\ HandOver(Control, c)
  /\ UNCHANGED <<flagVars, controlVars, worker, pass, acceptVars, arrivalVars,
                 queueVars, batch, releasing, active>>

\* Everything is closed: wait and run return, destroy closes the listener too.
Closed ==
  /\ ctl = "close"
  /\ leaving[Control] = NoConn
  /\ Queued = {}
  /\ Opened = {}
  /\ call' = "none"
  /\ IF call = "destroyWait"
     THEN ctl' = "destroyed" /\ backlog' = {}
     ELSE ctl' = "idle" /\ UNCHANGED backlog
  /\ UNCHANGED <<flagVars, starts, workerCount, worker, pass, acceptVars, arrivals,
                 queueVars, serveVars, releaseVars>>

(***************************************************************************)
(* The accept loop: sw_accept_thread_main, or sw_server_run_loop.           *)
(***************************************************************************)

\* The loop ends: run goes on to stop, the thread calls sw_server_stop itself.
LeaveLoop ==
  IF ctl = "running"
  THEN accept' = "none" /\ ctl' = "stop"
  ELSE accept' = "stop" /\ UNCHANGED ctl

AcceptCheck ==
  /\ accept = "check"
  /\ IF stopRequested THEN LeaveLoop ELSE accept' = "poll" /\ UNCHANGED ctl
  /\ UNCHANGED <<flagVars, call, starts, workerCount, worker, pass, nextWorker,
                 inHand, arrivalVars, queueVars, serveVars, releaseVars>>

\* sw_mgr_poll ends: it found the flag set, or accept() would block.
AcceptIdle ==
  /\ accept = "poll"
  /\ stopRequested \/ backlog = {}
  /\ accept' = "check"
  /\ UNCHANGED <<flagVars, controlVars, worker, pass, nextWorker, inHand,
                 arrivalVars, queueVars, serveVars, releaseVars>>

\* epoll_wait or accept() fails: the whole server stops.
AcceptFails ==
  /\ accept = "poll"
  /\ RequestStop
  /\ LeaveLoop
  /\ UNCHANGED <<workerStop, call, starts, workerCount, worker, pass, nextWorker,
                 inHand, arrivalVars, queueVars, serveVars, releaseVars>>

\* No slot is free, or the socket cannot be made non-blocking.
AcceptRefuse(c) ==
  /\ accept = "poll"
  /\ c \in backlog
  /\ backlog' = backlog \ {c}
  /\ UNCHANGED <<flagVars, controlVars, worker, pass, acceptVars, arrivals,
                 queueVars, serveVars, releaseVars>>

\* Mutant: the limit compared with the wrong strictness.
FreeSlotLoose == active <= MaxConnections

FreeSlot == active < MaxConnections

\* sw_atomic_try_increment_size: the compare-and-swap that succeeds.
AcceptReserve(c) ==
  /\ accept = "poll"
  /\ c \in backlog
  /\ FreeSlot
  /\ active' = active + 1
  /\ backlog' = backlog \ {c}
  /\ inHand' = c
  /\ accept' = "dispatch"
  /\ UNCHANGED <<flagVars, controlVars, worker, pass, nextWorker, arrivals,
                 queueVars, serveVars, leaving, releasing>>

\* Mutants: the index is never advanced, or never wrapped around.
NextIndexStuck == nextWorker
NextIndexUnbounded == nextWorker + 1

NextIndex == (nextWorker + 1) % workerCount

\* sw_mgr_dispatch_connection, with the mutex held ...
DispatchAdd(w) ==
  /\ accept = "dispatch"
  /\ w = nextWorker % workerCount
  /\ Lockable(w)
  /\ lock' = [lock EXCEPT ![w] = "accept"]
  /\ nextWorker' = NextIndex
  /\ pending' = [pending EXCEPT ![w] = @ \union {inHand}]
  /\ inHand' = NoConn
  /\ accept' = "unlock"
  /\ UNCHANGED <<flagVars, controlVars, worker, pass, arrivalVars, accepted,
                 serveVars, releaseVars>>

\* ... and its release.
DispatchUnlock(w) ==
  /\ accept = "unlock"
  /\ lock[w] = "accept"
  /\ lock' = [lock EXCEPT ![w] = "free"]
  /\ accepted' = [accepted EXCEPT ![w] = @ + 1]
  /\ accept' = "poll"
  /\ UNCHANGED <<flagVars, controlVars, worker, pass, nextWorker, inHand,
                 arrivalVars, pending, serveVars, releaseVars>>

\* sw_server_stop at the end of the accept thread.
AcceptStopRoot ==
  /\ accept = "stop"
  /\ RequestStop
  /\ accept' = "stopWorkers"
  /\ UNCHANGED <<workerStop, controlVars, worker, pass, nextWorker, inHand,
                 arrivalVars, queueVars, serveVars, releaseVars>>

AcceptStopWorkers ==
  /\ accept = "stopWorkers"
  /\ workerStop' = StoppedFlags
  /\ accept' = "exited"
  /\ UNCHANGED <<stopRequested, controlVars, worker, pass, nextWorker, inHand,
                 arrivalVars, queueVars, serveVars, releaseVars>>

(***************************************************************************)
(* A worker thread: sw_worker_thread_main and the sw_mgr_poll it calls.     *)
(***************************************************************************)

\* The worker stands at pc and is not in the middle of closing a connection.
WorkerAt(w, pc) == worker[w] = pc /\ leaving[w] = NoConn

\* The loop condition reads the root's flag, sw_mgr_poll the worker's own.
WorkerCheck(w) ==
  /\ WorkerAt(w, "check")
  /\ \/ /\ stopRequested
        /\ worker' = [worker EXCEPT ![w] = "exited"]
     \/ /\ ~stopRequested
        /\ ~workerStop[w]
        /\ worker' = [worker EXCEPT ![w] = "drain"]
  /\ UNCHANGED <<flagVars, controlVars, pass, acceptVars, arrivalVars, queueVars,
                 serveVars, releaseVars>>

\* sw_mgr_drain_pending_connections: copy and clear under the mutex ...
DrainCopy(w) ==
  /\ WorkerAt(w, "drain")
  /\ Lockable(w)
  /\ lock' = [lock EXCEPT ![w] = "worker"]
  /\ batch' = [batch EXCEPT ![w] = pending[w]]
  /\ worker' = [worker EXCEPT ![w] = "clear"]
  /\ UNCHANGED <<flagVars, controlVars, pass, acceptVars, arrivalVars, pending,
                 accepted, open, releaseVars>>

DrainClear(w) ==
  /\ WorkerAt(w, "clear")
  /\ pending' = [pending EXCEPT ![w] = {}]
  /\ lock' = [lock EXCEPT ![w] = "free"]
  /\ worker' = [worker EXCEPT ![w] = "create"]
  /\ UNCHANGED <<flagVars, controlVars, pass, acceptVars, arrivalVars, accepted,
                 serveVars, releaseVars>>

\* ... and then sw_connection_create for each, which may fail.
CreateConnection(w, c) ==
  /\ WorkerAt(w, "create")
  /\ c \in batch[w]
  /\ batch' = [batch EXCEPT ![w] = @ \ {c}]
  /\ open' = [open EXCEPT ![w] = @ \union {c}]
  /\ UNCHANGED <<flagVars, controlVars, worker, pass, acceptVars, arrivalVars,
                 queueVars, releaseVars>>

CreateFails(w, c) ==
  /\ WorkerAt(w, "create")
  /\ c \in batch[w]
  /\ batch' = [batch EXCEPT ![w] = @ \ {c}]
  /\ HandOver(w, c)
  /\ UNCHANGED <<flagVars, controlVars, worker, pass, acceptVars, arrivalVars,
                 queueVars, open, releasing, active>>

DrainDone(w) ==
  /\ WorkerAt(w, "create")
  /\ batch[w] = {}
  /\ worker' = [worker EXCEPT ![w] = "serve"]
  /\ UNCHANGED <<flagVars, controlVars, pass, acceptVars, arrivalVars, queueVars,
                 serveVars, releaseVars>>

\* An event or a timeout closes a connection: sw_mgr_close_connection takes it
\* out of the array, then releases its slot.
CloseConnection(w, c) ==
  /\ WorkerAt(w, "serve")
  /\ c \in open[w]
  /\ open' = [open EXCEPT ![w] = @ \ {c}]
  /\ HandOver(w, c)
  /\ UNCHANGED <<flagVars, controlVars, worker, pass, acceptVars, arrivalVars,
                 queueVars, batch, releasing, active>>

\* A handler the worker runs calls sw_server_stop.  Each worker reads only its
\* own flag, so the workers' flags are set in one step.
HandlerStop(w) ==
  /\ WorkerAt(w, "serve")
  /\ open[w] # {}
  /\ RequestStop
  /\ workerStop' = StoppedFlags
  /\ UNCHANGED <<controlVars, worker, pass, acceptVars, arrivalVars, queueVars,
                 serveVars, releaseVars>>

\* The events and timeouts of this pass are done.
ServeDone(w) ==
  /\ WorkerAt(w, "serve")
  /\ IF pass[w] = 1
     THEN /\ pass' = [pass EXCEPT ![w] = 2]
          /\ worker' = [worker EXCEPT ![w] = "drain"]
     ELSE /\ pass' = [pass EXCEPT ![w] = 1]
          /\ worker' = [worker EXCEPT ![w] = "check"]
  /\ UNCHANGED <<flagVars, controlVars, acceptVars, arrivalVars, queueVars,
                 serveVars, releaseVars>>

\* epoll_wait fails, between the two drains: the worker stops the server.
WorkerFails(w) ==
  /\ WorkerAt(w, "serve")
  /\ pass[w] = 1
  /\ RequestStop
  /\ worker' = [worker EXCEPT ![w] = "exited"]
  /\ UNCHANGED <<workerStop, controlVars, pass, acceptVars, arrivalVars, queueVars,
                 serveVars, releaseVars>>

(***************************************************************************)
(* sw_mgr_release_connection, by the thread that closes: an atomic load and *)
(* an atomic subtraction, with other threads in between.                    *)
(***************************************************************************)

ReleaseLoad(t) ==
  /\ leaving[t] # NoConn
  /\ ~releasing[t]
  /\ IF active > 0
     THEN releasing' = [releasing EXCEPT ![t] = TRUE] /\ UNCHANGED leaving
     ELSE leaving' = [leaving EXCEPT ![t] = NoConn] /\ UNCHANGED releasing
  /\ UNCHANGED <<flagVars, controlVars, worker, pass, acceptVars, arrivalVars,
                 queueVars, serveVars, active>>

ReleaseSubtract(t) ==
  /\ releasing[t]
  /\ active' = active - 1
  /\ releasing' = [releasing EXCEPT ![t] = FALSE]
  /\ leaving' = [leaving EXCEPT ![t] = NoConn]
  /\ UNCHANGED <<flagVars, controlVars, worker, pass, acceptVars, arrivalVars,
                 queueVars, serveVars>>

-----------------------------------------------------------------------------

Release(t) == ReleaseLoad(t) \/ ReleaseSubtract(t)

\* What the control thread does inside a call, as against making one.
ControlStep ==
  \/ \E w \in Worker : \/ StartWorker(w)
                       \/ StartWorkerFails(w)
                       \/ JoinWorker(w)
                       \/ \E c \in Conn : ClearPending(w, c) \/ CloseWorkerConnection(w, c)
  \/ StartLoop \/ StartLoopFails
  \/ JoinAccept \/ StopRoot \/ StopWorkers \/ JoinedWorkers \/ Closed
  \/ Release(Control)

AcceptStep ==
  \/ AcceptCheck \/ AcceptIdle \/ AcceptFails
  \/ AcceptStopRoot \/ AcceptStopWorkers
  \/ \E c \in Conn : AcceptRefuse(c) \/ AcceptReserve(c)
  \/ \E w \in Worker : DispatchAdd(w) \/ DispatchUnlock(w)

WorkerStep(w) ==
  \/ WorkerCheck(w) \/ DrainCopy(w) \/ DrainClear(w) \/ DrainDone(w)
  \/ ServeDone(w) \/ WorkerFails(w)
  \/ \E c \in Conn : CreateConnection(w, c) \/ CreateFails(w, c) \/ CloseConnection(w, c)
  \/ Release(w)

\* After sw_server_destroy nothing is left to do.
Destroyed == ctl = "destroyed" /\ UNCHANGED vars

Next ==
  \/ \E c \in Conn : Connect(c)
  \/ \E c \in {"start", "run"} : BeginStart(c)
  \/ \E c \in {"stop", "wait", "destroy"} : BeginCall(c)
  \/ Signal
  \/ \E w \in Worker : HandlerStop(w)
  \/ ControlStep
  \/ AcceptStep
  \/ \E w \in Worker : WorkerStep(w)
  \/ Destroyed

Spec == Init /\ [][Next]_vars

\* The scheduler runs every thread that can go on; nobody has to make a call,
\* to connect or to send a signal.
Fairness ==
  /\ WF_vars(ControlStep)
  /\ WF_vars(AcceptStep)
  /\ \A w \in Worker : WF_vars(WorkerStep(w))

FairSpec == Spec /\ Fairness
-----------------------------------------------------------------------------

TypeOK ==
  /\ stopRequested \in BOOLEAN
  /\ workerStop \in [Worker -> BOOLEAN]
  /\ ctl \in {"idle", "workers", "loop", "running", "joinAccept", "stop",
             "stopWorkers", "joinWorkers", "close", "destroyed"}
  /\ call \in {"none", "start", "unstart", "run", "stop", "wait", "destroy",
              "destroyWait"}
  /\ starts \in 0 .. MaxStarts
  /\ workerCount \in 0 .. WorkerCount
  /\ worker \in [Worker -> {"none", "check", "drain", "clear", "create", "serve",
                           "exited"}]
  /\ pass \in [Worker -> {1, 2}]
  /\ accept \in {"none", "check", "poll", "dispatch", "unlock", "stop",
                "stopWorkers", "exited"}
  /\ nextWorker \in Worker
  /\ lock \in [Worker -> {"free", "accept", "worker"}]
  /\ arrivals \in 0 .. MaxArrivals
  /\ backlog \in SUBSET Conn
  /\ inHand \in Conn \union {NoConn}
  /\ pending \in [Worker -> SUBSET Conn]
  /\ batch \in [Worker -> SUBSET Conn]
  /\ open \in [Worker -> SUBSET Conn]
  /\ leaving \in [Thread -> Conn \union {NoConn}]
  /\ releasing \in [Thread -> BOOLEAN]
  /\ active \in Nat
  /\ accepted \in [Worker -> Nat]

\* The shared counter is exactly the number of connections somewhere between
\* accept() and release, whatever the threads' interleaving: no path leaks a slot
\* or gives one back twice, and the limit holds.
SlotsExact ==
  /\ active = Cardinality(Held)
  /\ active <= MaxConnections

\* A connection is in one place only, so that it is created, served and closed
\* once: a queue under its mutex, a worker's copy, a worker's array, the accept
\* loop's hand or the hand of the thread that closes it.
Clearing(w) == worker[w] = "clear"

SinglePlace ==
  /\ \A w \in Worker : Clearing(w) => pending[w] = batch[w]
  /\ \A v, w \in Worker :
       /\ v # w => /\ pending[v] \intersect pending[w] = {}
                  /\ batch[v] \intersect batch[w] = {}
                  /\ open[v] \intersect open[w] = {}
       /\ v # w \/ ~Clearing(w) => pending[v] \intersect batch[w] = {}
       /\ open[v] \intersect (pending[w] \union batch[w]) = {}
  /\ \A w \in Worker, t \in Thread : leaving[t] \notin pending[w] \union batch[w] \union open[w]
  /\ \A w \in Worker : inHand \notin pending[w] \union batch[w] \union open[w]
  /\ \A s, t \in Thread : s # t /\ leaving[s] # NoConn => leaving[s] # leaving[t]
  /\ \A t \in Thread : inHand # NoConn => inHand # leaving[t]
  /\ \A w \in Worker : backlog \intersect (pending[w] \union batch[w] \union open[w]) = {}
  /\ \A t \in Thread : leaving[t] \notin backlog
  /\ inHand \notin backlog

\* The control thread closes what the workers own only when no thread is left
\* that could use it, and no mutex is held by a dead one.
TeardownExclusive ==
  ctl \in {"close", "destroyed"} =>
    /\ accept = "none"
    /\ \A w \in Worker : worker[w] = "none" /\ lock[w] = "free"

\* When the control thread is in no call and the accept thread is not started
\* (before the first start, after wait and run, after a failed start), no
\* connection is held and the counter is back to 0.
NothingLeft ==
  (ctl = "idle" /\ ~AcceptThreadStarted) \/ ctl = "destroyed" =>
    Held = {} /\ active = 0

\* The accept loop deals connections out in turn: the workers' accepted_count
\* differ by one at most, over restarts too.
FairShare ==
  \A v, w \in Worker :
    v < workerCount /\ w < workerCount => accepted[v] <= accepted[w] + 1

Slots == INSTANCE ConnectionSlots WITH
  waiting <- backlog,
  admitted <- InHand \union Queued \union Batched,
  serving <- Opened,
  closing <- Leaving,
  ended <- (ctl = "destroyed")

\* The threads, queues and counter implement the pool of slots: a step of any
\* thread moves at most one connection, one stage further, and a connection is
\* admitted only while fewer than MaxConnections are inside.
ImplementsSlots == Slots!Spec

\* A connection queued for a worker is taken up by it, unless the server stops.
TakenUp ==
  \A c \in Conn, w \in Worker :
    c \in pending[w] ~> (c \notin pending[w] \/ stopRequested)

\* A wait or run returns once the server is told to stop, and destroy ends.
StopCompletes ==
  /\ (call \in {"wait", "run"} /\ stopRequested) ~> (ctl = "idle")
  /\ (call = "destroy") ~> (ctl = "destroyed")
=============================================================================
