------------------------- MODULE ServerThreadsProofs -------------------------
(***************************************************************************)
(* Proofs about ServerThreads, for any number of workers, connections and  *)
(* starts: type correctness, the exact count of connections, a single      *)
(* place for each, exclusive teardown, and that the threads implement      *)
(* ConnectionSlots.  IInv is the inductive invariant: the properties and   *)
(* what the threads' program counters say of the data.                     *)
(***************************************************************************)
EXTENDS ServerThreads, FiniteSetTheorems, TLAPS

\* pending_lock is held by the thread whose program counter is between lock and unlock.
Mutexes ==
  /\ \A w \in Worker : worker[w] = "clear" <=> lock[w] = "worker"
  /\ \A w \in Worker : lock[w] = "accept" => accept = "unlock"
  /\ \A v, w \in Worker : lock[v] = "accept" /\ lock[w] = "accept" => v = w

\* A connection in a thread's hands, and a subtraction begun, belong to where it stands.
Hands ==
  /\ accept = "dispatch" <=> inHand # NoConn
  /\ \A w \in Worker : worker[w] \notin {"clear", "create"} => batch[w] = {}
  /\ \A w \in Worker : leaving[w] # NoConn => worker[w] \in {"create", "serve"}
  /\ leaving[Control] # NoConn => ctl = "close"
  /\ \A t \in Thread : releasing[t] => leaving[t] # NoConn

\* Cardinality says something of finite sets only: Conn may be infinite.
Counts ==
  /\ IsFiniteSet(Held)
  /\ SlotsExact

\* Which program counters each API call goes through, and which threads it finds.
Calls ==
  /\ ctl \in {"idle", "destroyed"} <=> call = "none"
  /\ ctl \in {"workers", "loop"} => call \in {"start", "run"} /\ accept = "none"
  /\ ctl = "workers" => workerCount < WorkerCount
  /\ ctl = "running" => call = "run" /\ accept \in {"check", "poll", "dispatch", "unlock"}
  /\ ctl = "joinAccept" => call \in {"wait", "destroyWait"}
  /\ ctl = "joinWorkers" => call \in {"unstart", "run", "wait", "destroyWait"}
  /\ ctl = "close" => call \in {"run", "wait", "destroyWait"}
  /\ ctl \in {"stop", "stopWorkers", "joinWorkers", "close"}
       /\ call \in {"unstart", "run", "wait", "destroyWait"} => accept = "none"
  /\ ctl = "loop" \/ accept # "none" => workerCount > 0
  /\ \A w \in Worker : w >= workerCount => worker[w] = "none"

\* The control thread is on its way to closing what a stopped server left.
Closing ==
  /\ ctl \in {"stop", "stopWorkers", "joinWorkers", "close"}
  /\ call \in {"wait", "run", "destroyWait"}

\* Whoever closes is alone, and where no accept loop runs nothing is left to close.
Ending ==
  /\ ctl \in {"close", "destroyed"} =>
       accept = "none" /\ \A w \in Worker : worker[w] = "none"
  /\ accept = "none" /\ ~Closing => Held = {}

IInv == TypeOK /\ SinglePlace /\ Mutexes /\ Hands /\ Counts /\ Calls /\ Ending

\* One turn of the accept loop over c workers: those before k have had one more
\* connection than the others, whose count is n.
Turn(a, c, n, k) ==
  \A w \in Worker : w < c => a[w] = IF w < k THEN n + 1 ELSE n

\* Where the turn stands.  Between the two halves of a dispatch the index is already
\* that of the next worker, and the count of the worker whose mutex is held is not
\* yet advanced.
Dealt ==
  /\ workerCount = 0 \/ ctl = "workers" =>
       nextWorker = 0 /\ \A w \in Worker : accepted[w] = 0
  /\ workerCount > 0 => nextWorker < workerCount
  /\ accept # "unlock" => \E n \in Nat : Turn(accepted, workerCount, n, nextWorker)
  /\ accept = "unlock" =>
       \E w \in Worker : /\ lock[w] = "accept"
                         /\ w < workerCount
                         /\ nextWorker = (w + 1) % workerCount
                         /\ \E n \in Nat : Turn(accepted, workerCount, n, w)

USE ConnAssumption, WorkerAssumption, LimitAssumption, BoundAssumption

\* Every step keeps the variables in their ranges: the index of the next worker
\* because a worker exists when the loop runs, the counter because its owner holds a slot.
LEMMA TypeStep == IInv /\ [Next]_vars => TypeOK'
  <1> SUFFICES ASSUME TypeOK, Hands, Counts, Calls, [Next]_vars PROVE TypeOK'
    BY DEF IInv
  <1> USE DEF TypeOK, Worker, Control, Thread, RequestStop, HandOver, StoppedFlags, LeaveLoop, Lockable, WorkerAt, AcceptThreadStarted, AllJoined, vars, flagVars, controlVars, acceptVars, arrivalVars, queueVars, serveVars, releaseVars
  <1>1. ASSUME NEW c \in Conn, Connect(c) PROVE TypeOK'
    BY <1>1 DEF Connect
  <1>2. ASSUME NEW c \in {"start", "run"}, BeginStart(c) PROVE TypeOK'
    <2>1. /\ ctl' \in {"loop", "workers"}
          /\ call' \in {"start", "run"}
          /\ stopRequested' \in BOOLEAN
      BY <1>2 DEF BeginStart
    <2>2. starts' \in 0 .. MaxStarts
      BY <1>2 DEF BeginStart
    <2> QED
      BY <1>2, <2>1, <2>2 DEF BeginStart
  <1>3. ASSUME NEW c \in {"stop", "wait", "destroy"}, BeginCall(c) PROVE TypeOK'
    BY <1>3 DEF BeginCall
  <1>4. CASE Signal
    BY <1>4 DEF Signal
  <1>5. ASSUME NEW w \in Worker, HandlerStop(w) PROVE TypeOK'
    BY <1>5 DEF HandlerStop
  <1>6. ASSUME NEW w \in Worker, StartWorker(w) PROVE TypeOK'
    BY <1>6 DEF StartWorker
  <1>7. ASSUME NEW w \in Worker, StartWorkerFails(w) PROVE TypeOK'
    BY <1>7 DEF StartWorkerFails
  <1>8. ASSUME NEW w \in Worker, JoinWorker(w) PROVE TypeOK'
    BY <1>8 DEF JoinWorker
  <1>9. ASSUME NEW w \in Worker, NEW c \in Conn, ClearPending(w, c) PROVE TypeOK'
    BY <1>9 DEF ClearPending
  <1>10. ASSUME NEW w \in Worker, NEW c \in Conn, CloseWorkerConnection(w, c) PROVE TypeOK'
    BY <1>10 DEF CloseWorkerConnection
  <1>11. CASE StartLoop
    BY <1>11 DEF StartLoop
  <1>12. CASE StartLoopFails
    BY <1>12 DEF StartLoopFails
  <1>13. CASE JoinAccept
    BY <1>13 DEF JoinAccept
  <1>14. CASE StopRoot
    BY <1>14 DEF StopRoot
  <1>15. CASE StopWorkers
    BY <1>15 DEF StopWorkers
  <1>16. CASE JoinedWorkers
    BY <1>16 DEF JoinedWorkers
  <1>17. CASE Closed
    BY <1>17 DEF Closed
  <1>18. CASE AcceptCheck
    BY <1>18 DEF AcceptCheck
  <1>19. CASE AcceptIdle
    BY <1>19 DEF AcceptIdle
  <1>20. CASE AcceptFails
    BY <1>20 DEF AcceptFails
  <1>21. CASE AcceptStopRoot
    BY <1>21 DEF AcceptStopRoot
  <1>22. CASE AcceptStopWorkers
    BY <1>22 DEF AcceptStopWorkers
  <1>23. ASSUME NEW c \in Conn, AcceptRefuse(c) PROVE TypeOK'
    BY <1>23 DEF AcceptRefuse
  <1>24. ASSUME NEW c \in Conn, AcceptReserve(c) PROVE TypeOK'
    BY <1>24 DEF AcceptReserve
  <1>25. ASSUME NEW w \in Worker, DispatchAdd(w) PROVE TypeOK'
    <2>1. workerCount \in 1 .. WorkerCount
      BY <1>25 DEF DispatchAdd, Calls
    <2>2. NextIndex \in Worker
      BY <2>1, SMT DEF NextIndex
    <2> QED
      BY <1>25, <2>2 DEF DispatchAdd, Hands
  <1>26. ASSUME NEW w \in Worker, DispatchUnlock(w) PROVE TypeOK'
    BY <1>26 DEF DispatchUnlock
  <1>27. ASSUME NEW w \in Worker, WorkerCheck(w) PROVE TypeOK'
    BY <1>27 DEF WorkerCheck
  <1>28. ASSUME NEW w \in Worker, DrainCopy(w) PROVE TypeOK'
    BY <1>28 DEF DrainCopy
  <1>29. ASSUME NEW w \in Worker, DrainClear(w) PROVE TypeOK'
    BY <1>29 DEF DrainClear
  <1>30. ASSUME NEW w \in Worker, DrainDone(w) PROVE TypeOK'
    BY <1>30 DEF DrainDone
  <1>31. ASSUME NEW w \in Worker, ServeDone(w) PROVE TypeOK'
    BY <1>31 DEF ServeDone
  <1>32. ASSUME NEW w \in Worker, WorkerFails(w) PROVE TypeOK'
    BY <1>32 DEF WorkerFails
  <1>33. ASSUME NEW w \in Worker, NEW c \in Conn, CreateConnection(w, c) PROVE TypeOK'
    BY <1>33 DEF CreateConnection
  <1>34. ASSUME NEW w \in Worker, NEW c \in Conn, CreateFails(w, c) PROVE TypeOK'
    BY <1>34 DEF CreateFails
  <1>35. ASSUME NEW w \in Worker, NEW c \in Conn, CloseConnection(w, c) PROVE TypeOK'
    BY <1>35 DEF CloseConnection
  <1>36. ASSUME NEW t \in Thread, ReleaseLoad(t) PROVE TypeOK'
    <2>1. CASE active > 0
      <3>1. releasing' \in [Thread -> BOOLEAN]
        BY <1>36, <2>1 DEF ReleaseLoad
      <3> QED
        BY <1>36, <2>1, <3>1 DEF ReleaseLoad
    <2>2. CASE ~(active > 0)
      <3>1. leaving' \in [Thread -> Conn \union {NoConn}]
        BY <1>36, <2>2 DEF ReleaseLoad
      <3> QED
        BY <1>36, <2>2, <3>1 DEF ReleaseLoad
    <2> QED
      BY <2>1, <2>2
  <1>37. ASSUME NEW t \in Thread, ReleaseSubtract(t) PROVE TypeOK'
    <2>1. leaving[t] \in Held
      BY <1>37 DEF ReleaseSubtract, Hands, Held, Leaving
    <2>2. active # 0
      BY <2>1, FS_EmptySet DEF Counts, SlotsExact
    <2> QED
      BY <1>37, <2>2 DEF ReleaseSubtract
  <1>38. CASE UNCHANGED vars
    BY <1>38
  <1> QED
    BY <1>1, <1>2, <1>3, <1>4, <1>5, <1>6, <1>7, <1>8, <1>9, <1>10, <1>11, <1>12, <1>13, <1>14, <1>15, <1>16, <1>17, <1>18, <1>19, <1>20, <1>21, <1>22, <1>23, <1>24, <1>25, <1>26, <1>27, <1>28, <1>29, <1>30, <1>31, <1>32, <1>33, <1>34, <1>35, <1>36, <1>37, <1>38
       DEF Next, ControlStep, AcceptStep, WorkerStep, Release, Destroyed

\* A mutex is held by the accept loop or the worker, where its program counter says.
LEMMA MutexStep == IInv /\ [Next]_vars => Mutexes'
  <1> SUFFICES ASSUME TypeOK, Mutexes, Hands, Calls, [Next]_vars PROVE Mutexes'
    BY DEF IInv
  <1> USE DEF TypeOK, Mutexes, Calls, Worker, Control, Thread, RequestStop, HandOver, StoppedFlags, LeaveLoop, Lockable, WorkerAt, AcceptThreadStarted, AllJoined, vars, flagVars, controlVars, acceptVars, arrivalVars, queueVars, serveVars, releaseVars
  <1>1. ASSUME NEW c \in Conn, Connect(c) PROVE Mutexes'
    BY <1>1 DEF Connect
  <1>2. ASSUME NEW c \in {"start", "run"}, BeginStart(c) PROVE Mutexes'
    BY <1>2 DEF BeginStart
  <1>3. ASSUME NEW c \in {"stop", "wait", "destroy"}, BeginCall(c) PROVE Mutexes'
    BY <1>3 DEF BeginCall
  <1>4. CASE Signal
    BY <1>4 DEF Signal
  <1>5. ASSUME NEW w \in Worker, HandlerStop(w) PROVE Mutexes'
    BY <1>5 DEF HandlerStop
  <1>6. ASSUME NEW w \in Worker, StartWorker(w) PROVE Mutexes'
    BY <1>6 DEF StartWorker
  <1>7. ASSUME NEW w \in Worker, StartWorkerFails(w) PROVE Mutexes'
    BY <1>7 DEF StartWorkerFails
  <1>8. ASSUME NEW w \in Worker, JoinWorker(w) PROVE Mutexes'
    BY <1>8 DEF JoinWorker
  <1>9. ASSUME NEW w \in Worker, NEW c \in Conn, ClearPending(w, c) PROVE Mutexes'
    BY <1>9 DEF ClearPending
  <1>10. ASSUME NEW w \in Worker, NEW c \in Conn, CloseWorkerConnection(w, c) PROVE Mutexes'
    BY <1>10 DEF CloseWorkerConnection
  <1>11. CASE StartLoop
    BY <1>11 DEF StartLoop
  <1>12. CASE StartLoopFails
    BY <1>12 DEF StartLoopFails
  <1>13. CASE JoinAccept
    BY <1>13 DEF JoinAccept
  <1>14. CASE StopRoot
    BY <1>14 DEF StopRoot
  <1>15. CASE StopWorkers
    BY <1>15 DEF StopWorkers
  <1>16. CASE JoinedWorkers
    BY <1>16 DEF JoinedWorkers
  <1>17. CASE Closed
    BY <1>17 DEF Closed
  <1>18. CASE AcceptCheck
    BY <1>18 DEF AcceptCheck
  <1>19. CASE AcceptIdle
    BY <1>19 DEF AcceptIdle
  <1>20. CASE AcceptFails
    BY <1>20 DEF AcceptFails
  <1>21. CASE AcceptStopRoot
    BY <1>21 DEF AcceptStopRoot
  <1>22. CASE AcceptStopWorkers
    BY <1>22 DEF AcceptStopWorkers
  <1>23. ASSUME NEW c \in Conn, AcceptRefuse(c) PROVE Mutexes'
    BY <1>23 DEF AcceptRefuse
  <1>24. ASSUME NEW c \in Conn, AcceptReserve(c) PROVE Mutexes'
    BY <1>24 DEF AcceptReserve
  <1>25. ASSUME NEW w \in Worker, DispatchAdd(w) PROVE Mutexes'
    BY <1>25 DEF DispatchAdd
  <1>26. ASSUME NEW w \in Worker, DispatchUnlock(w) PROVE Mutexes'
    BY <1>26 DEF DispatchUnlock
  <1>27. ASSUME NEW w \in Worker, WorkerCheck(w) PROVE Mutexes'
    BY <1>27 DEF WorkerCheck
  <1>28. ASSUME NEW w \in Worker, DrainCopy(w) PROVE Mutexes'
    BY <1>28 DEF DrainCopy
  <1>29. ASSUME NEW w \in Worker, DrainClear(w) PROVE Mutexes'
    BY <1>29 DEF DrainClear
  <1>30. ASSUME NEW w \in Worker, DrainDone(w) PROVE Mutexes'
    BY <1>30 DEF DrainDone
  <1>31. ASSUME NEW w \in Worker, ServeDone(w) PROVE Mutexes'
    BY <1>31 DEF ServeDone
  <1>32. ASSUME NEW w \in Worker, WorkerFails(w) PROVE Mutexes'
    BY <1>32 DEF WorkerFails
  <1>33. ASSUME NEW w \in Worker, NEW c \in Conn, CreateConnection(w, c) PROVE Mutexes'
    BY <1>33 DEF CreateConnection
  <1>34. ASSUME NEW w \in Worker, NEW c \in Conn, CreateFails(w, c) PROVE Mutexes'
    BY <1>34 DEF CreateFails
  <1>35. ASSUME NEW w \in Worker, NEW c \in Conn, CloseConnection(w, c) PROVE Mutexes'
    BY <1>35 DEF CloseConnection
  <1>36. ASSUME NEW t \in Thread, ReleaseLoad(t) PROVE Mutexes'
    BY <1>36 DEF ReleaseLoad
  <1>37. ASSUME NEW t \in Thread, ReleaseSubtract(t) PROVE Mutexes'
    BY <1>37 DEF ReleaseSubtract
  <1>38. CASE UNCHANGED vars
    BY <1>38
  <1> QED
    BY <1>1, <1>2, <1>3, <1>4, <1>5, <1>6, <1>7, <1>8, <1>9, <1>10, <1>11, <1>12, <1>13, <1>14, <1>15, <1>16, <1>17, <1>18, <1>19, <1>20, <1>21, <1>22, <1>23, <1>24, <1>25, <1>26, <1>27, <1>28, <1>29, <1>30, <1>31, <1>32, <1>33, <1>34, <1>35, <1>36, <1>37, <1>38
       DEF Next, ControlStep, AcceptStep, WorkerStep, Release, Destroyed

\* What a thread has in its hands follows from where it stands.
LEMMA HandStep == IInv /\ [Next]_vars => Hands'
  <1> SUFFICES ASSUME TypeOK, Mutexes, Hands, Calls, Ending, [Next]_vars PROVE Hands'
    BY DEF IInv
  <1> USE DEF TypeOK, Hands, Calls, Worker, Control, Thread, RequestStop, HandOver, StoppedFlags, LeaveLoop, Lockable, WorkerAt, AcceptThreadStarted, AllJoined, vars, flagVars, controlVars, acceptVars, arrivalVars, queueVars, serveVars, releaseVars
  <1>1. ASSUME NEW c \in Conn, Connect(c) PROVE Hands'
    BY <1>1 DEF Connect
  <1>2. ASSUME NEW c \in {"start", "run"}, BeginStart(c) PROVE Hands'
    BY <1>2 DEF BeginStart
  <1>3. ASSUME NEW c \in {"stop", "wait", "destroy"}, BeginCall(c) PROVE Hands'
    BY <1>3 DEF BeginCall
  <1>4. CASE Signal
    BY <1>4 DEF Signal
  <1>5. ASSUME NEW w \in Worker, HandlerStop(w) PROVE Hands'
    BY <1>5 DEF HandlerStop
  <1>6. ASSUME NEW w \in Worker, StartWorker(w) PROVE Hands'
    BY <1>6 DEF StartWorker
  <1>7. ASSUME NEW w \in Worker, StartWorkerFails(w) PROVE Hands'
    BY <1>7 DEF StartWorkerFails
  <1>8. ASSUME NEW w \in Worker, JoinWorker(w) PROVE Hands'
    BY <1>8 DEF JoinWorker
  <1>9. ASSUME NEW w \in Worker, NEW c \in Conn, ClearPending(w, c) PROVE Hands'
    BY <1>9 DEF ClearPending
  <1>10. ASSUME NEW w \in Worker, NEW c \in Conn, CloseWorkerConnection(w, c) PROVE Hands'
    BY <1>10 DEF CloseWorkerConnection
  <1>11. CASE StartLoop
    BY <1>11 DEF StartLoop
  <1>12. CASE StartLoopFails
    BY <1>12 DEF StartLoopFails
  <1>13. CASE JoinAccept
    BY <1>13 DEF JoinAccept
  <1>14. CASE StopRoot
    BY <1>14 DEF StopRoot
  <1>15. CASE StopWorkers
    BY <1>15 DEF StopWorkers
  <1>16. CASE JoinedWorkers
    BY <1>16 DEF JoinedWorkers
  <1>17. CASE Closed
    BY <1>17 DEF Closed
  <1>18. CASE AcceptCheck
    BY <1>18 DEF AcceptCheck
  <1>19. CASE AcceptIdle
    BY <1>19 DEF AcceptIdle
  <1>20. CASE AcceptFails
    BY <1>20 DEF AcceptFails
  <1>21. CASE AcceptStopRoot
    BY <1>21 DEF AcceptStopRoot
  <1>22. CASE AcceptStopWorkers
    BY <1>22 DEF AcceptStopWorkers
  <1>23. ASSUME NEW c \in Conn, AcceptRefuse(c) PROVE Hands'
    BY <1>23 DEF AcceptRefuse
  <1>24. ASSUME NEW c \in Conn, AcceptReserve(c) PROVE Hands'
    BY <1>24 DEF AcceptReserve
  <1>25. ASSUME NEW w \in Worker, DispatchAdd(w) PROVE Hands'
    BY <1>25 DEF DispatchAdd
  <1>26. ASSUME NEW w \in Worker, DispatchUnlock(w) PROVE Hands'
    BY <1>26 DEF DispatchUnlock
  <1>27. ASSUME NEW w \in Worker, WorkerCheck(w) PROVE Hands'
    BY <1>27 DEF WorkerCheck
  <1>28. ASSUME NEW w \in Worker, DrainCopy(w) PROVE Hands'
    BY <1>28 DEF DrainCopy
  <1>29. ASSUME NEW w \in Worker, DrainClear(w) PROVE Hands'
    BY <1>29 DEF DrainClear
  <1>30. ASSUME NEW w \in Worker, DrainDone(w) PROVE Hands'
    BY <1>30 DEF DrainDone
  <1>31. ASSUME NEW w \in Worker, ServeDone(w) PROVE Hands'
    BY <1>31 DEF ServeDone
  <1>32. ASSUME NEW w \in Worker, WorkerFails(w) PROVE Hands'
    BY <1>32 DEF WorkerFails
  <1>33. ASSUME NEW w \in Worker, NEW c \in Conn, CreateConnection(w, c) PROVE Hands'
    BY <1>33 DEF CreateConnection
  <1>34. ASSUME NEW w \in Worker, NEW c \in Conn, CreateFails(w, c) PROVE Hands'
    BY <1>34 DEF CreateFails
  <1>35. ASSUME NEW w \in Worker, NEW c \in Conn, CloseConnection(w, c) PROVE Hands'
    BY <1>35 DEF CloseConnection
  <1>36. ASSUME NEW t \in Thread, ReleaseLoad(t) PROVE Hands'
    BY <1>36, ZenonT(40) DEF ReleaseLoad
  <1>37. ASSUME NEW t \in Thread, ReleaseSubtract(t) PROVE Hands'
    BY <1>37 DEF ReleaseSubtract
  <1>38. CASE UNCHANGED vars
    BY <1>38
  <1> QED
    BY <1>1, <1>2, <1>3, <1>4, <1>5, <1>6, <1>7, <1>8, <1>9, <1>10, <1>11, <1>12, <1>13, <1>14, <1>15, <1>16, <1>17, <1>18, <1>19, <1>20, <1>21, <1>22, <1>23, <1>24, <1>25, <1>26, <1>27, <1>28, <1>29, <1>30, <1>31, <1>32, <1>33, <1>34, <1>35, <1>36, <1>37, <1>38
       DEF Next, ControlStep, AcceptStep, WorkerStep, Release, Destroyed

\* Each API call goes through its own program counters.
LEMMA CallStep == IInv /\ [Next]_vars => Calls'
  <1> SUFFICES ASSUME TypeOK, Mutexes, Hands, Calls, [Next]_vars PROVE Calls'
    BY DEF IInv
  <1> USE DEF TypeOK, Calls, Worker, Control, Thread, RequestStop, HandOver, StoppedFlags, LeaveLoop, Lockable, WorkerAt, AcceptThreadStarted, AllJoined, vars, flagVars, controlVars, acceptVars, arrivalVars, queueVars, serveVars, releaseVars
  <1>1. ASSUME NEW c \in Conn, Connect(c) PROVE Calls'
    BY <1>1 DEF Connect
  <1>2. ASSUME NEW c \in {"start", "run"}, BeginStart(c) PROVE Calls'
    BY <1>2 DEF BeginStart
  <1>3. ASSUME NEW c \in {"stop", "wait", "destroy"}, BeginCall(c) PROVE Calls'
    BY <1>3 DEF BeginCall
  <1>4. CASE Signal
    BY <1>4 DEF Signal
  <1>5. ASSUME NEW w \in Worker, HandlerStop(w) PROVE Calls'
    BY <1>5 DEF HandlerStop
  <1>6. ASSUME NEW w \in Worker, StartWorker(w) PROVE Calls'
    BY <1>6 DEF StartWorker
  <1>7. ASSUME NEW w \in Worker, StartWorkerFails(w) PROVE Calls'
    BY <1>7 DEF StartWorkerFails
  <1>8. ASSUME NEW w \in Worker, JoinWorker(w) PROVE Calls'
    BY <1>8 DEF JoinWorker
  <1>9. ASSUME NEW w \in Worker, NEW c \in Conn, ClearPending(w, c) PROVE Calls'
    BY <1>9 DEF ClearPending
  <1>10. ASSUME NEW w \in Worker, NEW c \in Conn, CloseWorkerConnection(w, c) PROVE Calls'
    BY <1>10 DEF CloseWorkerConnection
  <1>11. CASE StartLoop
    BY <1>11 DEF StartLoop
  <1>12. CASE StartLoopFails
    BY <1>12 DEF StartLoopFails
  <1>13. CASE JoinAccept
    BY <1>13 DEF JoinAccept
  <1>14. CASE StopRoot
    BY <1>14 DEF StopRoot
  <1>15. CASE StopWorkers
    BY <1>15 DEF StopWorkers
  <1>16. CASE JoinedWorkers
    BY <1>16 DEF JoinedWorkers
  <1>17. CASE Closed
    BY <1>17 DEF Closed
  <1>18. CASE AcceptCheck
    BY <1>18 DEF AcceptCheck
  <1>19. CASE AcceptIdle
    BY <1>19 DEF AcceptIdle
  <1>20. CASE AcceptFails
    BY <1>20 DEF AcceptFails
  <1>21. CASE AcceptStopRoot
    BY <1>21 DEF AcceptStopRoot
  <1>22. CASE AcceptStopWorkers
    BY <1>22 DEF AcceptStopWorkers
  <1>23. ASSUME NEW c \in Conn, AcceptRefuse(c) PROVE Calls'
    BY <1>23 DEF AcceptRefuse
  <1>24. ASSUME NEW c \in Conn, AcceptReserve(c) PROVE Calls'
    BY <1>24 DEF AcceptReserve
  <1>25. ASSUME NEW w \in Worker, DispatchAdd(w) PROVE Calls'
    BY <1>25 DEF DispatchAdd
  <1>26. ASSUME NEW w \in Worker, DispatchUnlock(w) PROVE Calls'
    BY <1>26 DEF DispatchUnlock
  <1>27. ASSUME NEW w \in Worker, WorkerCheck(w) PROVE Calls'
    BY <1>27 DEF WorkerCheck
  <1>28. ASSUME NEW w \in Worker, DrainCopy(w) PROVE Calls'
    BY <1>28 DEF DrainCopy
  <1>29. ASSUME NEW w \in Worker, DrainClear(w) PROVE Calls'
    BY <1>29 DEF DrainClear
  <1>30. ASSUME NEW w \in Worker, DrainDone(w) PROVE Calls'
    BY <1>30 DEF DrainDone
  <1>31. ASSUME NEW w \in Worker, ServeDone(w) PROVE Calls'
    BY <1>31 DEF ServeDone
  <1>32. ASSUME NEW w \in Worker, WorkerFails(w) PROVE Calls'
    BY <1>32 DEF WorkerFails
  <1>33. ASSUME NEW w \in Worker, NEW c \in Conn, CreateConnection(w, c) PROVE Calls'
    BY <1>33 DEF CreateConnection
  <1>34. ASSUME NEW w \in Worker, NEW c \in Conn, CreateFails(w, c) PROVE Calls'
    BY <1>34 DEF CreateFails
  <1>35. ASSUME NEW w \in Worker, NEW c \in Conn, CloseConnection(w, c) PROVE Calls'
    BY <1>35 DEF CloseConnection
  <1>36. ASSUME NEW t \in Thread, ReleaseLoad(t) PROVE Calls'
    BY <1>36 DEF ReleaseLoad
  <1>37. ASSUME NEW t \in Thread, ReleaseSubtract(t) PROVE Calls'
    BY <1>37 DEF ReleaseSubtract
  <1>38. CASE UNCHANGED vars
    BY <1>38
  <1> QED
    BY <1>1, <1>2, <1>3, <1>4, <1>5, <1>6, <1>7, <1>8, <1>9, <1>10, <1>11, <1>12, <1>13, <1>14, <1>15, <1>16, <1>17, <1>18, <1>19, <1>20, <1>21, <1>22, <1>23, <1>24, <1>25, <1>26, <1>27, <1>28, <1>29, <1>30, <1>31, <1>32, <1>33, <1>34, <1>35, <1>36, <1>37, <1>38
       DEF Next, ControlStep, AcceptStep, WorkerStep, Release, Destroyed

(***************************************************************************)
(* The steps that move no connection.                                      *)
(***************************************************************************)

Still ==
  \/ \E c \in {"start", "run"} : BeginStart(c)
  \/ \E c \in {"stop", "wait", "destroy"} : BeginCall(c)
  \/ Signal
  \/ \E w \in Worker : HandlerStop(w)
  \/ \E w \in Worker : StartWorker(w)
  \/ \E w \in Worker : StartWorkerFails(w)
  \/ \E w \in Worker : JoinWorker(w)
  \/ StartLoop
  \/ StartLoopFails
  \/ JoinAccept
  \/ StopRoot
  \/ StopWorkers
  \/ JoinedWorkers
  \/ AcceptCheck
  \/ AcceptIdle
  \/ AcceptFails
  \/ AcceptStopRoot
  \/ AcceptStopWorkers
  \/ \E w \in Worker : DispatchUnlock(w)
  \/ \E w \in Worker : WorkerCheck(w)
  \/ \E w \in Worker : DrainDone(w)
  \/ \E w \in Worker : ServeDone(w)
  \/ \E w \in Worker : WorkerFails(w)

Settled ==
  /\ UNCHANGED <<places, active>>
  /\ \A v \in Worker : Clearing(v)' <=> Clearing(v)
  /\ (ctl = "destroyed")' <=> ctl = "destroyed"

\* A step of Still leaves the connections and the counter alone.
LEMMA StillSettled == IInv /\ Still => Settled
  <1> SUFFICES ASSUME TypeOK, Calls, Still PROVE Settled
    BY DEF IInv
  <1> USE DEF TypeOK, Calls, Settled, places, Clearing, Worker, RequestStop, HandOver, StoppedFlags, LeaveLoop, Lockable, WorkerAt, AcceptThreadStarted, AllJoined, vars, flagVars, controlVars, acceptVars, arrivalVars, queueVars, serveVars, releaseVars
  <1>1. ASSUME NEW c \in {"start", "run"}, BeginStart(c) PROVE Settled
    BY <1>1 DEF BeginStart
  <1>2. ASSUME NEW c \in {"stop", "wait", "destroy"}, BeginCall(c) PROVE Settled
    BY <1>2 DEF BeginCall
  <1>3. CASE Signal
    BY <1>3 DEF Signal
  <1>4. ASSUME NEW w \in Worker, HandlerStop(w) PROVE Settled
    BY <1>4 DEF HandlerStop
  <1>5. ASSUME NEW w \in Worker, StartWorker(w) PROVE Settled
    BY <1>5 DEF StartWorker
  <1>6. ASSUME NEW w \in Worker, StartWorkerFails(w) PROVE Settled
    BY <1>6 DEF StartWorkerFails
  <1>7. ASSUME NEW w \in Worker, JoinWorker(w) PROVE Settled
    BY <1>7 DEF JoinWorker
  <1>8. CASE StartLoop
    BY <1>8 DEF StartLoop
  <1>9. CASE StartLoopFails
    BY <1>9 DEF StartLoopFails
  <1>10. CASE JoinAccept
    BY <1>10 DEF JoinAccept
  <1>11. CASE StopRoot
    BY <1>11 DEF StopRoot
  <1>12. CASE StopWorkers
    BY <1>12 DEF StopWorkers
  <1>13. CASE JoinedWorkers
    BY <1>13 DEF JoinedWorkers
  <1>14. CASE AcceptCheck
    BY <1>14 DEF AcceptCheck
  <1>15. CASE AcceptIdle
    BY <1>15 DEF AcceptIdle
  <1>16. CASE AcceptFails
    BY <1>16 DEF AcceptFails
  <1>17. CASE AcceptStopRoot
    BY <1>17 DEF AcceptStopRoot
  <1>18. CASE AcceptStopWorkers
    BY <1>18 DEF AcceptStopWorkers
  <1>19. ASSUME NEW w \in Worker, DispatchUnlock(w) PROVE Settled
    BY <1>19 DEF DispatchUnlock
  <1>20. ASSUME NEW w \in Worker, WorkerCheck(w) PROVE Settled
    BY <1>20 DEF WorkerCheck
  <1>21. ASSUME NEW w \in Worker, DrainDone(w) PROVE Settled
    BY <1>21 DEF DrainDone
  <1>22. ASSUME NEW w \in Worker, ServeDone(w) PROVE Settled
    BY <1>22 DEF ServeDone
  <1>23. ASSUME NEW w \in Worker, WorkerFails(w) PROVE Settled
    BY <1>23 DEF WorkerFails
  <1> QED
    BY <1>1, <1>2, <1>3, <1>4, <1>5, <1>6, <1>7, <1>8, <1>9, <1>10, <1>11, <1>12, <1>13, <1>14, <1>15, <1>16, <1>17, <1>18, <1>19, <1>20, <1>21, <1>22, <1>23 DEF Still

\* No step puts a connection in a second place.
LEMMA PlaceStep == IInv /\ [Next]_vars => SinglePlace'
  <1> SUFFICES ASSUME IInv, TypeOK, SinglePlace, Mutexes, Hands, Calls, [Next]_vars PROVE SinglePlace'
    BY DEF IInv
  <1> USE DEF TypeOK, Worker, Control, Thread, RequestStop, HandOver, StoppedFlags, LeaveLoop, Lockable, WorkerAt, AcceptThreadStarted, AllJoined, vars, flagVars, controlVars, acceptVars, arrivalVars, queueVars, serveVars, releaseVars
  <1>1. ASSUME NEW c \in Conn, Connect(c) PROVE SinglePlace'
    BY <1>1 DEF Connect, SinglePlace, Clearing, Held, InHand, Queued, Batched, Opened, Leaving
  <1>2. ASSUME NEW w \in Worker, NEW c \in Conn, ClearPending(w, c) PROVE SinglePlace'
    BY <1>2 DEF ClearPending, SinglePlace, Clearing, Hands, Mutexes, Calls
  <1>3. ASSUME NEW w \in Worker, NEW c \in Conn, CloseWorkerConnection(w, c) PROVE SinglePlace'
    BY <1>3 DEF CloseWorkerConnection, SinglePlace, Clearing, Hands, Mutexes, Calls
  <1>4. CASE Closed
    BY <1>4 DEF Closed, SinglePlace, Clearing, Hands, Mutexes, Calls
  <1>5. ASSUME NEW c \in Conn, AcceptRefuse(c) PROVE SinglePlace'
    BY <1>5 DEF AcceptRefuse, SinglePlace, Clearing, Hands, Mutexes, Calls
  <1>6. ASSUME NEW c \in Conn, AcceptReserve(c) PROVE SinglePlace'
    BY <1>6 DEF AcceptReserve, SinglePlace, Clearing, Hands, Mutexes, Calls
  <1>7. ASSUME NEW w \in Worker, DispatchAdd(w) PROVE SinglePlace'
    <2>1. /\ ~Clearing(w) /\ inHand \in Conn /\ inHand' = NoConn
          /\ UNCHANGED <<backlog, batch, open, leaving, worker>>
      BY <1>7 DEF DispatchAdd, Clearing, Hands, Mutexes
    <2>2. \A v \in Worker : pending'[v] = IF v = w THEN pending[v] \union {inHand} ELSE pending[v]
      BY <1>7 DEF DispatchAdd
    <2>3. \A v \in Worker : Clearing(v)' <=> Clearing(v)
      BY <2>1 DEF Clearing
    <2>4. \A v \in Worker : NoConn \notin pending'[v] \union batch[v] \union open[v] \union backlog
      BY <2>1, <2>2, ZenonT(40)
    <2> HIDE DEF TypeOK, vars
    <2>5. /\ \A v \in Worker : inHand \notin pending[v] \union batch[v] \union open[v]
          /\ \A t \in Thread : inHand # leaving[t]
          /\ inHand \notin backlog
      BY <2>1 DEF SinglePlace
    <2>6. \A v \in Worker : Clearing(v)' => pending'[v] = batch'[v]
      BY <2>1, <2>2, <2>3 DEF SinglePlace
    <2>7. ASSUME NEW u \in Worker, NEW v \in Worker
          PROVE  /\ u # v => /\ pending'[u] \intersect pending'[v] = {}
                            /\ batch'[u] \intersect batch'[v] = {}
                            /\ open'[u] \intersect open'[v] = {}
                 /\ u # v \/ ~Clearing(v)' => pending'[u] \intersect batch'[v] = {}
                 /\ open'[u] \intersect (pending'[v] \union batch'[v]) = {}
      <3>1. /\ u # v => pending[u] \intersect pending[v] = {}
            /\ u # v => batch[u] \intersect batch[v] = {} /\ open[u] \intersect open[v] = {}
            /\ u # v \/ ~Clearing(v) => pending[u] \intersect batch[v] = {}
            /\ open[u] \intersect (pending[v] \union batch[v]) = {}
        BY DEF SinglePlace
      <3>2. u # v => pending'[u] \intersect pending'[v] = {}
        BY <2>2, <2>5, <3>1
      <3>3. u # v \/ ~Clearing(v)' => pending'[u] \intersect batch'[v] = {}
        BY <2>1, <2>2, <2>3, <2>5, <3>1
      <3>4. open'[u] \intersect (pending'[v] \union batch'[v]) = {}
        BY <2>1, <2>2, <2>5, <3>1
      <3> QED
        BY <2>1, <3>1, <3>2, <3>3, <3>4
    <2>8. ASSUME NEW v \in Worker, NEW t \in Thread
          PROVE  leaving'[t] \notin pending'[v] \union batch'[v] \union open'[v]
      <3>1. leaving[t] \notin pending[v] \union batch[v] \union open[v]
        BY DEF SinglePlace
      <3> QED
        BY <2>1, <2>2, <2>5, <3>1
    <2>9. ASSUME NEW v \in Worker
          PROVE  backlog' \intersect (pending'[v] \union batch'[v] \union open'[v]) = {}
      <3>1. backlog \intersect (pending[v] \union batch[v] \union open[v]) = {}
        BY DEF SinglePlace
      <3> QED
        BY <2>1, <2>2, <2>5, <3>1
    <2> QED
      BY <2>1, <2>4, <2>6, <2>7, <2>8, <2>9 DEF SinglePlace
  <1>8. ASSUME NEW w \in Worker, DrainCopy(w) PROVE SinglePlace'
    BY <1>8 DEF DrainCopy, SinglePlace, Clearing, Hands, Mutexes, Calls
  <1>9. ASSUME NEW w \in Worker, DrainClear(w) PROVE SinglePlace'
    BY <1>9 DEF DrainClear, SinglePlace, Clearing, Hands, Mutexes, Calls
  <1>10. ASSUME NEW w \in Worker, NEW c \in Conn, CreateConnection(w, c) PROVE SinglePlace'
    BY <1>10 DEF CreateConnection, SinglePlace, Clearing, Hands, Mutexes, Calls
  <1>11. ASSUME NEW w \in Worker, NEW c \in Conn, CreateFails(w, c) PROVE SinglePlace'
    BY <1>11 DEF CreateFails, SinglePlace, Clearing, Hands, Mutexes, Calls
  <1>12. ASSUME NEW w \in Worker, NEW c \in Conn, CloseConnection(w, c) PROVE SinglePlace'
    BY <1>12 DEF CloseConnection, SinglePlace, Clearing, Hands, Mutexes, Calls
  <1>13. ASSUME NEW t \in Thread, ReleaseLoad(t) PROVE SinglePlace'
    <2>1. UNCHANGED <<backlog, inHand, pending, batch, open, worker>>
      BY <1>13 DEF ReleaseLoad
    <2>2. \A s \in Thread : leaving'[s] = leaving[s] \/ leaving'[s] = NoConn
      BY <1>13 DEF ReleaseLoad
    <2>3. \A w \in Worker : NoConn \notin pending[w] \union batch[w] \union open[w] \union backlog
      OBVIOUS
    <2> HIDE DEF TypeOK, vars
    <2>4. \A v \in Worker : Clearing(v)' <=> Clearing(v)
      BY <2>1 DEF Clearing
    <2> QED
      BY <2>1, <2>2, <2>3, <2>4 DEF SinglePlace
  <1>14. ASSUME NEW t \in Thread, ReleaseSubtract(t) PROVE SinglePlace'
    BY <1>14 DEF ReleaseSubtract, SinglePlace, Clearing, Hands, Mutexes, Calls
  <1>15. CASE Still
    <2>1. UNCHANGED places /\ \A v \in Worker : Clearing(v)' <=> Clearing(v)
      BY <1>15, StillSettled DEF Settled
    <2> QED
      BY <2>1 DEF SinglePlace, places
  <1>16. CASE UNCHANGED vars
    BY <1>16 DEF SinglePlace, Clearing
  <1> QED
    BY <1>1, <1>2, <1>3, <1>4, <1>5, <1>6, <1>7, <1>8, <1>9, <1>10, <1>11, <1>12, <1>13, <1>14, <1>15, <1>16
       DEF Next, ControlStep, AcceptStep, WorkerStep, Release, Destroyed, Still

(***************************************************************************)
(* The steps that move a connection, as changes of the sets it can be in.  *)
(***************************************************************************)

Admitted == InHand \union Queued \union Batched

\* From admission to closing or to serving, or from serving to closing.
Dropped(c) ==
  /\ c \in Admitted \union Opened
  /\ Admitted' = Admitted \ {c}
  /\ Opened' = Opened \ {c}
  /\ Leaving' = Leaving \union {c}
  /\ UNCHANGED <<backlog, active, ctl>>

Served(c) ==
  /\ c \in Admitted
  /\ Admitted' = Admitted \ {c}
  /\ Opened' = Opened \union {c}
  /\ UNCHANGED <<Leaving, backlog, active, ctl>>

\* The steps by which a connection goes on are changes of these sets only: it drops
\* out of admission or serving, or is taken from admission to serving.
LEMMA Moves ==
  ASSUME IInv, NEW w \in Worker, NEW c \in Conn
  PROVE  /\ ClearPending(w, c) \/ CreateFails(w, c) => Dropped(c)
         /\ CloseWorkerConnection(w, c) \/ CloseConnection(w, c) => Dropped(c)
         /\ CreateConnection(w, c) => Served(c)
  <1> USE DEF IInv, TypeOK, Worker, Control, Thread, HandOver, Lockable, WorkerAt
  <1> USE DEF Admitted, InHand, Queued, Batched, Opened, Leaving
  <1> USE DEF queueVars, serveVars, releaseVars, acceptVars, arrivalVars, controlVars
  <1>1. ASSUME ClearPending(w, c) PROVE Dropped(c)
    BY <1>1 DEF ClearPending, Dropped, SinglePlace, Clearing, Mutexes
  <1>2. ASSUME CreateFails(w, c) PROVE Dropped(c)
    BY <1>2 DEF CreateFails, Dropped, SinglePlace, Clearing
  <1>3. ASSUME CloseWorkerConnection(w, c) PROVE Dropped(c)
    BY <1>3 DEF CloseWorkerConnection, Dropped, SinglePlace, Clearing
  <1>4. ASSUME CloseConnection(w, c) PROVE Dropped(c)
    BY <1>4 DEF CloseConnection, Dropped, SinglePlace, Clearing
  <1>5. ASSUME CreateConnection(w, c) PROVE Served(c)
    BY <1>5 DEF CreateConnection, Served, SinglePlace, Clearing
  <1> QED
    BY <1>1, <1>2, <1>3, <1>4, <1>5


(***************************************************************************)
(* The count of the connections held.                                      *)
(***************************************************************************)

\* Held is determined by the places other than the backlog.
LEMMA HeldFrame ==
  ASSUME UNCHANGED <<inHand, pending, batch, open, leaving>>
  PROVE  Held' = Held
  BY DEF Held, InHand, Queued, Batched, Opened, Leaving

\* A step that changes neither the connections held nor the counter keeps the count.
LEMMA CountFrame ==
  ASSUME Counts, Held' = Held, active' = active
  PROVE  Counts'
  BY DEF Counts, SlotsExact

\* Only a reservation and a release change the connections held, by one, with the counter.
LEMMA CountStep == IInv /\ [Next]_vars => Counts'
  <1> SUFFICES ASSUME IInv, TypeOK, SinglePlace, Mutexes, Hands, Counts, [Next]_vars PROVE Counts'
    BY DEF IInv
  <1> USE DEF TypeOK, Worker, Control, Thread, RequestStop, HandOver, StoppedFlags, LeaveLoop, Lockable, WorkerAt, AcceptThreadStarted, AllJoined, vars, flagVars, controlVars, acceptVars, arrivalVars, queueVars, serveVars, releaseVars
  <1>1. ASSUME NEW c \in Conn, Connect(c) PROVE Counts'
    <2>1. UNCHANGED <<inHand, pending, batch, open, leaving, active>>
      BY <1>1 DEF Connect
    <2> QED
      BY <2>1, HeldFrame, CountFrame
  <1>2. ASSUME NEW w \in Worker, NEW c \in Conn, ClearPending(w, c) PROVE Counts'
    <2>1. Held' = Held /\ active' = active
      BY <1>2 DEF ClearPending, Held, InHand, Queued, Batched, Opened, Leaving, SinglePlace, Clearing, Hands, Mutexes
    <2> QED
      BY <2>1, CountFrame
  <1>3. ASSUME NEW w \in Worker, NEW c \in Conn, CloseWorkerConnection(w, c) PROVE Counts'
    <2>1. Held' = Held /\ active' = active
      BY <1>3 DEF CloseWorkerConnection, Held, InHand, Queued, Batched, Opened, Leaving, SinglePlace, Clearing, Hands, Mutexes
    <2> QED
      BY <2>1, CountFrame
  <1>4. CASE Closed
    <2>1. UNCHANGED <<inHand, pending, batch, open, leaving, active>>
      BY <1>4 DEF Closed
    <2> QED
      BY <2>1, HeldFrame, CountFrame
  <1>5. ASSUME NEW c \in Conn, AcceptRefuse(c) PROVE Counts'
    <2>1. UNCHANGED <<inHand, pending, batch, open, leaving, active>>
      BY <1>5 DEF AcceptRefuse
    <2> QED
      BY <2>1, HeldFrame, CountFrame
  <1>6. ASSUME NEW c \in Conn, AcceptReserve(c) PROVE Counts'
    <2>1. /\ c \in Conn /\ c \in backlog /\ inHand = NoConn /\ inHand' = c
          /\ UNCHANGED <<pending, batch, open, leaving>>
      BY <1>6 DEF AcceptReserve, Hands
    <2>2. c \notin Held
      BY <2>1 DEF SinglePlace, Held, InHand, Queued, Batched, Opened, Leaving
    <2>3. Held' = Held \union {c}
      BY <2>1 DEF Held, InHand, Queued, Batched, Opened, Leaving
    <2>4. IsFiniteSet(Held') /\ Cardinality(Held') = Cardinality(Held) + 1
      BY <2>2, <2>3, FS_AddElement DEF Counts
    <2>5. active' = active + 1 /\ active < MaxConnections
      BY <1>6 DEF AcceptReserve, FreeSlot
    <2> QED
      BY <2>4, <2>5 DEF Counts, SlotsExact
  <1>7. ASSUME NEW w \in Worker, DispatchAdd(w) PROVE Counts'
    <2>1. /\ inHand \in Conn /\ inHand' = NoConn
          /\ \A v \in Worker : pending'[v] = IF v = w THEN pending[v] \union {inHand} ELSE pending[v]
          /\ UNCHANGED <<batch, open, leaving, active>>
      BY <1>7 DEF DispatchAdd, Hands
    <2> HIDE DEF TypeOK, Worker, vars
    <2>2. Queued' = Queued \union InHand /\ InHand' = {}
      BY <2>1 DEF Queued, InHand
    <2>3. UNCHANGED <<Batched, Opened, Leaving>>
      BY <2>1 DEF Batched, Opened, Leaving
    <2>4. Held' = Held
      BY <2>2, <2>3 DEF Held
    <2> QED
      BY <2>1, <2>4, CountFrame
  <1>8. ASSUME NEW w \in Worker, DrainCopy(w) PROVE Counts'
    <2>1. /\ batch[w] = {}
          /\ \A v \in Worker : batch'[v] = IF v = w THEN pending[w] ELSE batch[v]
          /\ UNCHANGED <<inHand, pending, open, leaving, active>>
      BY <1>8 DEF DrainCopy, Hands
    <2>2. Batched \subseteq Batched' /\ Batched' \subseteq Batched \union Queued
      BY <2>1 DEF Batched, Queued
    <2>3. Held' = Held
      BY <2>1, <2>2 DEF Held, InHand, Queued, Opened, Leaving
    <2> QED
      BY <2>1, <2>3, CountFrame
  <1>9. ASSUME NEW w \in Worker, DrainClear(w) PROVE Counts'
    <2>1. Held' = Held /\ active' = active
      BY <1>9 DEF DrainClear, Held, InHand, Queued, Batched, Opened, Leaving, SinglePlace, Clearing, Hands, Mutexes
    <2> QED
      BY <2>1, CountFrame
  <1>10. ASSUME NEW w \in Worker, NEW c \in Conn, CreateConnection(w, c) PROVE Counts'
    <2>1. Held' = Held /\ active' = active
      BY <1>10 DEF CreateConnection, Held, InHand, Queued, Batched, Opened, Leaving, SinglePlace, Clearing, Hands, Mutexes
    <2> QED
      BY <2>1, CountFrame
  <1>11. ASSUME NEW w \in Worker, NEW c \in Conn, CreateFails(w, c) PROVE Counts'
    <2>1. Held' = Held /\ active' = active
      BY <1>11 DEF CreateFails, Held, InHand, Queued, Batched, Opened, Leaving, SinglePlace, Clearing, Hands, Mutexes
    <2> QED
      BY <2>1, CountFrame
  <1>12. ASSUME NEW w \in Worker, NEW c \in Conn, CloseConnection(w, c) PROVE Counts'
    <2>1. Held' = Held /\ active' = active
      BY <1>12 DEF CloseConnection, Held, InHand, Queued, Batched, Opened, Leaving, SinglePlace, Clearing, Hands, Mutexes
    <2> QED
      BY <2>1, CountFrame
  <1>13. ASSUME NEW t \in Thread, ReleaseLoad(t) PROVE Counts'
    <2>1. /\ leaving[t] # NoConn
          /\ IF active > 0 THEN UNCHANGED leaving
                           ELSE leaving' = [leaving EXCEPT ![t] = NoConn]
          /\ UNCHANGED <<inHand, pending, batch, open, active>>
      BY <1>13 DEF ReleaseLoad
    <2>2. leaving[t] \in Held
      BY <2>1 DEF Held, Leaving
    <2>3. active # 0
      BY <2>2, FS_EmptySet DEF Counts, SlotsExact
    <2>4. UNCHANGED leaving
      BY <2>1, <2>3
    <2> QED
      BY <2>1, <2>4, HeldFrame, CountFrame
  <1>14. ASSUME NEW t \in Thread, ReleaseSubtract(t) PROVE Counts'
    <2>1. /\ leaving[t] # NoConn
          /\ leaving' = [leaving EXCEPT ![t] = NoConn]
          /\ UNCHANGED <<inHand, pending, batch, open>>
          /\ active' = active - 1
      BY <1>14 DEF ReleaseSubtract, Hands
    <2>2. leaving[t] \in Held
      BY <2>1 DEF Held, Leaving
    <2>3. Held' = Held \ {leaving[t]}
      BY <2>1 DEF Held, InHand, Queued, Batched, Opened, Leaving, SinglePlace
    <2>4. IsFiniteSet(Held') /\ Cardinality(Held') = Cardinality(Held) - 1
      BY <2>2, <2>3, FS_RemoveElement DEF Counts
    <2> QED
      BY <2>1, <2>4 DEF Counts, SlotsExact
  <1>15. CASE Still
    <2>1. UNCHANGED places /\ UNCHANGED active
      BY <1>15, StillSettled DEF Settled
    <2> QED
      BY <2>1, HeldFrame, CountFrame DEF places
  <1>16. CASE UNCHANGED vars
    BY <1>16, HeldFrame, CountFrame
  <1> QED
    BY <1>1, <1>2, <1>3, <1>4, <1>5, <1>6, <1>7, <1>8, <1>9, <1>10, <1>11, <1>12, <1>13, <1>14, <1>15, <1>16
       DEF Next, ControlStep, AcceptStep, WorkerStep, Release, Destroyed, Still

\* The control thread goes on to close only when every thread has ended, and leaves nothing.
LEMMA EndStep == IInv /\ [Next]_vars => Ending'
  <1> SUFFICES ASSUME TypeOK, SinglePlace, Mutexes, Hands, Calls, Ending, [Next]_vars PROVE Ending'
    BY DEF IInv
  <1> USE DEF TypeOK, Hands, Mutexes, Calls, Ending, Closing, Held, InHand, Queued, Batched, Opened, Leaving, Worker, Control, Thread, RequestStop, HandOver, StoppedFlags, LeaveLoop, Lockable, WorkerAt, AcceptThreadStarted, AllJoined, vars, flagVars, controlVars, acceptVars, arrivalVars, queueVars, serveVars, releaseVars
  <1>1. ASSUME NEW c \in Conn, Connect(c) PROVE Ending'
    BY <1>1 DEF Connect
  <1>2. ASSUME NEW c \in {"start", "run"}, BeginStart(c) PROVE Ending'
    BY <1>2 DEF BeginStart
  <1>3. ASSUME NEW c \in {"stop", "wait", "destroy"}, BeginCall(c) PROVE Ending'
    BY <1>3 DEF BeginCall
  <1>4. CASE Signal
    BY <1>4 DEF Signal
  <1>5. ASSUME NEW w \in Worker, HandlerStop(w) PROVE Ending'
    BY <1>5 DEF HandlerStop
  <1>6. ASSUME NEW w \in Worker, StartWorker(w) PROVE Ending'
    BY <1>6 DEF StartWorker
  <1>7. ASSUME NEW w \in Worker, StartWorkerFails(w) PROVE Ending'
    BY <1>7 DEF StartWorkerFails
  <1>8. ASSUME NEW w \in Worker, JoinWorker(w) PROVE Ending'
    BY <1>8 DEF JoinWorker
  <1>9. ASSUME NEW w \in Worker, NEW c \in Conn, ClearPending(w, c) PROVE Ending'
    BY <1>9 DEF ClearPending
  <1>10. ASSUME NEW w \in Worker, NEW c \in Conn, CloseWorkerConnection(w, c) PROVE Ending'
    BY <1>10 DEF CloseWorkerConnection
  <1>11. CASE StartLoop
    BY <1>11 DEF StartLoop
  <1>12. CASE StartLoopFails
    BY <1>12 DEF StartLoopFails
  <1>13. CASE JoinAccept
    BY <1>13 DEF JoinAccept
  <1>14. CASE StopRoot
    BY <1>14 DEF StopRoot
  <1>15. CASE StopWorkers
    BY <1>15 DEF StopWorkers
  <1>16. CASE JoinedWorkers
    BY <1>16 DEF JoinedWorkers
  <1>17. CASE Closed
    <2>1. /\ ctl = "close" /\ leaving[Control] = NoConn /\ Queued = {} /\ Opened = {}
          /\ ctl' \in {"destroyed", "idle"}
          /\ UNCHANGED <<accept, worker, inHand, pending, batch, open, leaving>>
      BY <1>17 DEF Closed
    <2>2. accept = "none" /\ \A w \in Worker : worker[w] = "none"
      BY <2>1
    <2>3. InHand = {} /\ Batched = {} /\ Leaving = {}
      <3>1. inHand = NoConn /\ \A w \in Worker : batch[w] = {}
        BY <2>1, <2>2
      <3>2. \A t \in Thread : leaving[t] = NoConn
        BY <2>1, <2>2
      <3> QED
        BY <3>1, <3>2 DEF InHand, Batched, Leaving
    <2>4. Held = {}
      BY <2>1, <2>3 DEF Held
    <2> HIDE DEF Held, Queued, Opened, Batched, Leaving, InHand
    <2>5. Held' = {}
      BY <2>1, <2>4, HeldFrame
    <2> QED
      BY <2>1, <2>2, <2>5
  <1>18. CASE AcceptCheck
    BY <1>18 DEF AcceptCheck
  <1>19. CASE AcceptIdle
    BY <1>19 DEF AcceptIdle
  <1>20. CASE AcceptFails
    BY <1>20 DEF AcceptFails
  <1>21. CASE AcceptStopRoot
    BY <1>21 DEF AcceptStopRoot
  <1>22. CASE AcceptStopWorkers
    BY <1>22 DEF AcceptStopWorkers
  <1>23. ASSUME NEW c \in Conn, AcceptRefuse(c) PROVE Ending'
    BY <1>23 DEF AcceptRefuse
  <1>24. ASSUME NEW c \in Conn, AcceptReserve(c) PROVE Ending'
    BY <1>24 DEF AcceptReserve
  <1>25. ASSUME NEW w \in Worker, DispatchAdd(w) PROVE Ending'
    BY <1>25 DEF DispatchAdd
  <1>26. ASSUME NEW w \in Worker, DispatchUnlock(w) PROVE Ending'
    BY <1>26 DEF DispatchUnlock
  <1>27. ASSUME NEW w \in Worker, WorkerCheck(w) PROVE Ending'
    BY <1>27 DEF WorkerCheck
  <1>28. ASSUME NEW w \in Worker, DrainCopy(w) PROVE Ending'
    BY <1>28 DEF DrainCopy
  <1>29. ASSUME NEW w \in Worker, DrainClear(w) PROVE Ending'
    BY <1>29 DEF DrainClear
  <1>30. ASSUME NEW w \in Worker, DrainDone(w) PROVE Ending'
    BY <1>30 DEF DrainDone
  <1>31. ASSUME NEW w \in Worker, ServeDone(w) PROVE Ending'
    BY <1>31 DEF ServeDone
  <1>32. ASSUME NEW w \in Worker, WorkerFails(w) PROVE Ending'
    BY <1>32 DEF WorkerFails
  <1>33. ASSUME NEW w \in Worker, NEW c \in Conn, CreateConnection(w, c) PROVE Ending'
    BY <1>33 DEF CreateConnection
  <1>34. ASSUME NEW w \in Worker, NEW c \in Conn, CreateFails(w, c) PROVE Ending'
    BY <1>34 DEF CreateFails
  <1>35. ASSUME NEW w \in Worker, NEW c \in Conn, CloseConnection(w, c) PROVE Ending'
    BY <1>35 DEF CloseConnection
  <1>36. ASSUME NEW t \in Thread, ReleaseLoad(t) PROVE Ending'
    BY <1>36 DEF ReleaseLoad
  <1>37. ASSUME NEW t \in Thread, ReleaseSubtract(t) PROVE Ending'
    BY <1>37 DEF ReleaseSubtract
  <1>38. CASE UNCHANGED vars
    BY <1>38
  <1> QED
    BY <1>1, <1>2, <1>3, <1>4, <1>5, <1>6, <1>7, <1>8, <1>9, <1>10, <1>11, <1>12, <1>13, <1>14, <1>15, <1>16, <1>17, <1>18, <1>19, <1>20, <1>21, <1>22, <1>23, <1>24, <1>25, <1>26, <1>27, <1>28, <1>29, <1>30, <1>31, <1>32, <1>33, <1>34, <1>35, <1>36, <1>37, <1>38
       DEF Next, ControlStep, AcceptStep, WorkerStep, Release, Destroyed

(***************************************************************************)
(* The theorems.                                                           *)
(***************************************************************************)

\* Before the first call nothing runs and no connection is held.
LEMMA Initial == Init => IInv
  <1> SUFFICES ASSUME Init PROVE IInv
    OBVIOUS
  <1> USE DEF Init, Worker, Control, Thread
  <1>1. Held = {}
    BY DEF Held, InHand, Queued, Batched, Opened, Leaving
  <1>2. TypeOK
    <2>1. nextWorker \in Worker /\ workerCount \in 0 .. WorkerCount
      BY WorkerAssumption
    <2>2. starts \in 0 .. MaxStarts /\ arrivals \in 0 .. MaxArrivals
      BY BoundAssumption
    <2> QED
      BY <2>1, <2>2 DEF TypeOK
  <1>3. SinglePlace
    BY DEF SinglePlace, Clearing
  <1>4. Counts
    BY <1>1, FS_EmptySet DEF Counts, SlotsExact
  <1>5. Mutexes /\ Hands /\ Calls /\ Ending
    BY <1>1 DEF Mutexes, Hands, Calls, Ending
  <1> QED
    BY <1>2, <1>3, <1>4, <1>5 DEF IInv

\* The invariant is inductive: it holds of every behaviour of the threads.
THEOREM Inductive == Spec => []IInv
  <1>1. IInv /\ [Next]_vars => IInv'
    BY TypeStep, PlaceStep, MutexStep, HandStep, CountStep, CallStep, EndStep DEF IInv
  <1> QED
    BY Initial, <1>1, PTL DEF Spec

\* Whatever the number of workers and connections, no variable leaves its range:
\* the counter never wraps below 0 and the next worker is always one that exists.
THEOREM TypeCorrect == Spec => []TypeOK
  <1>1. IInv => TypeOK
    BY DEF IInv
  <1> QED
    BY Inductive, <1>1, PTL

\* The counter of open connections is exact, and within the limit, always.
THEOREM CountIsExact == Spec => []SlotsExact
  <1>1. IInv => SlotsExact
    BY DEF IInv, Counts
  <1> QED
    BY Inductive, <1>1, PTL

\* No connection is ever in two places, so none is served or closed twice.
THEOREM OnePlace == Spec => []SinglePlace
  <1>1. IInv => SinglePlace
    BY DEF IInv
  <1> QED
    BY Inductive, <1>1, PTL

\* The control thread closes the workers' connections only when it is alone.
THEOREM TeardownIsExclusive == Spec => []TeardownExclusive
  <1>1. IInv => TeardownExclusive
    <2> SUFFICES ASSUME IInv, ctl \in {"close", "destroyed"}
                 PROVE  /\ accept = "none"
                        /\ \A w \in Worker : worker[w] = "none" /\ lock[w] = "free"
      BY DEF TeardownExclusive
    <2>1. accept = "none" /\ \A w \in Worker : worker[w] = "none"
      BY DEF IInv, Ending
    <2>2. \A w \in Worker : lock[w] = "free"
      BY <2>1 DEF IInv, Mutexes, TypeOK
    <2> QED
      BY <2>1, <2>2
  <1> QED
    BY Inductive, <1>1, PTL

\* Steps that leave the counts, the index, the workers and the state of a dispatch
\* alone leave the turn alone.
LEMMA TurnKept ==
  ASSUME Dealt,
         UNCHANGED <<accepted, nextWorker, workerCount>>,
         accept' = "unlock" <=> accept = "unlock",
         \A w \in Worker : lock'[w] = "accept" <=> lock[w] = "accept",
         ctl' = "workers" => ctl = "workers" \/ workerCount = 0
  PROVE  Dealt'
  <1>1. /\ workerCount' = 0 \/ ctl' = "workers" =>
             nextWorker' = 0 /\ \A w \in Worker : accepted'[w] = 0
        /\ workerCount' > 0 => nextWorker' < workerCount'
    BY DEF Dealt
  <1>2. accept' # "unlock" => \E n \in Nat : Turn(accepted', workerCount', n, nextWorker')
    BY DEF Dealt
  <1>3. accept' = "unlock" =>
          \E w \in Worker : /\ lock'[w] = "accept"
                            /\ w < workerCount'
                            /\ nextWorker' = (w + 1) % workerCount'
                            /\ \E n \in Nat : Turn(accepted', workerCount', n, w)
    BY DEF Dealt
  <1> QED
    BY <1>1, <1>2, <1>3 DEF Dealt

\* A dispatch begins: the worker whose turn it is is the one the index named.
LEMMA TurnTaken ==
  ASSUME TypeOK, Calls, Dealt, NEW w \in Worker, DispatchAdd(w)
  PROVE  Dealt'
  <1>1. workerCount \in 1 .. WorkerCount /\ ctl # "workers"
    BY DEF DispatchAdd, Calls, TypeOK
  <1>2. nextWorker \in Nat /\ nextWorker < workerCount
    BY <1>1 DEF Dealt, TypeOK, Worker
  <1>3. nextWorker % workerCount = nextWorker
    BY <1>1, <1>2
  <1>4. w = nextWorker
    BY <1>3 DEF DispatchAdd
  <1>5. PICK n \in Nat : Turn(accepted, workerCount, n, w)
    BY <1>4 DEF DispatchAdd, Dealt
  <1>6. /\ lock'[w] = "accept"
        /\ nextWorker' = (w + 1) % workerCount
        /\ accept' = "unlock"
        /\ workerCount' = workerCount /\ accepted' = accepted /\ ctl' = ctl
    BY <1>4 DEF DispatchAdd, NextIndex, TypeOK, controlVars
  <1>7. nextWorker' < workerCount
    BY <1>1, <1>2, <1>4, <1>6
  <1> QED
    BY <1>1, <1>2, <1>4, <1>5, <1>6, <1>7 DEF Dealt

\* ... and ends: its count is advanced, and the turn is the next worker's.
LEMMA TurnPassed ==
  ASSUME TypeOK, Mutexes, Calls, Dealt, NEW w \in Worker, DispatchUnlock(w)
  PROVE  Dealt'
  <1>1. workerCount \in 1 .. WorkerCount /\ ctl # "workers"
    BY DEF DispatchUnlock, Calls, TypeOK
  <1>2. PICK v \in Worker : /\ lock[v] = "accept"
                            /\ v < workerCount
                            /\ nextWorker = (v + 1) % workerCount
                            /\ \E n \in Nat : Turn(accepted, workerCount, n, v)
    BY DEF DispatchUnlock, Dealt
  <1>3. v = w
    BY <1>2 DEF DispatchUnlock, Mutexes
  <1>4. PICK n \in Nat : Turn(accepted, workerCount, n, w)
    BY <1>2, <1>3
  <1>5. /\ accepted' = [accepted EXCEPT ![w] = @ + 1]
        /\ nextWorker' = nextWorker /\ workerCount' = workerCount
        /\ accept' = "poll" /\ ctl' = ctl
    BY DEF DispatchUnlock, controlVars
  <1>6. w \in Nat /\ w < workerCount
    BY <1>2, <1>3 DEF Worker
  <1>7. \A u \in Worker : u < workerCount => accepted'[u] = IF u < w + 1 THEN n + 1 ELSE n
    <2> TAKE u \in Worker
    <2> HAVE u < workerCount
    <2>1. accepted[u] = IF u < w THEN n + 1 ELSE n
      BY <1>4 DEF Turn
    <2>2. accepted'[u] = IF u = w THEN accepted[u] + 1 ELSE accepted[u]
      BY <1>5 DEF TypeOK
    <2>3. u \in Nat /\ n \in Nat
      BY <1>4 DEF Worker
    <2> QED
      BY <2>1, <2>2, <2>3, <1>6
  <1>8. \E m \in Nat : Turn(accepted', workerCount, m, nextWorker)
    <2>1. CASE w + 1 = workerCount
      <3>1. nextWorker = 0
        BY <2>1, <1>1, <1>2, <1>3
      <3>2. n + 1 \in Nat
        BY <1>4
      <3>3. Turn(accepted', workerCount, n + 1, 0)
        <4> SUFFICES ASSUME NEW u \in Worker, u < workerCount
                     PROVE  accepted'[u] = IF u < 0 THEN (n + 1) + 1 ELSE n + 1
          BY DEF Turn
        <4>1. u \in Nat /\ u < w + 1
          BY <2>1 DEF Worker
        <4> QED
          BY <4>1, <1>7
      <3> QED
        BY <3>1, <3>2, <3>3
    <2>2. CASE w + 1 # workerCount
      <3>1. nextWorker = w + 1
        BY <2>2, <1>1, <1>2, <1>3, <1>6
      <3>2. Turn(accepted', workerCount, n, w + 1)
        BY <1>7 DEF Turn
      <3> QED
        BY <3>1, <3>2, <1>4
    <2> QED
      BY <2>1, <2>2
  <1>9. nextWorker < workerCount
    BY <1>1 DEF Dealt
  <1> QED
    BY <1>1, <1>5, <1>8, <1>9 DEF Dealt

\* The accept loop deals out connections in turn: only a dispatch moves the turn,
\* and workers are only added before the first one.
LEMMA TurnStep == IInv /\ Dealt /\ [Next]_vars => Dealt'
  <1> SUFFICES ASSUME TypeOK, Mutexes, Calls, Dealt, [Next]_vars PROVE Dealt'
    BY DEF IInv
  <1> USE DEF TypeOK, Calls, Worker, Control, Thread, RequestStop, HandOver, StoppedFlags, LeaveLoop, Lockable, WorkerAt, AcceptThreadStarted, AllJoined, vars, flagVars, controlVars, acceptVars, arrivalVars, queueVars, serveVars, releaseVars
  <1>1. ASSUME NEW c \in Conn, Connect(c) PROVE Dealt'
    BY <1>1, TurnKept DEF Connect
  <1>2. ASSUME NEW c \in {"start", "run"}, BeginStart(c) PROVE Dealt'
    BY <1>2, TurnKept DEF BeginStart, Dealt
  <1>3. ASSUME NEW c \in {"stop", "wait", "destroy"}, BeginCall(c) PROVE Dealt'
    BY <1>3, TurnKept DEF BeginCall
  <1>4. CASE Signal
    BY <1>4, TurnKept DEF Signal
  <1>5. ASSUME NEW w \in Worker, HandlerStop(w) PROVE Dealt'
    BY <1>5, TurnKept DEF HandlerStop
  <1>6. ASSUME NEW w \in Worker, StartWorker(w) PROVE Dealt'
    <2>1. workerCount \in Nat /\ nextWorker = 0 /\ \A v \in Worker : accepted[v] = 0
      BY <1>6 DEF StartWorker, Dealt
    <2>2. workerCount' = workerCount + 1 /\ nextWorker' = 0 /\ accepted' = accepted
      BY <1>6, <2>1 DEF StartWorker
    <2>3. accept' = "none"
      BY <1>6 DEF StartWorker
    <2>4. Turn(accepted', workerCount', 0, 0)
      BY <2>1, <2>2 DEF Turn
    <2> QED
      BY <2>1, <2>2, <2>3, <2>4 DEF Dealt
  <1>7. ASSUME NEW w \in Worker, StartWorkerFails(w) PROVE Dealt'
    <2>1. workerCount \in Nat /\ nextWorker = 0 /\ \A v \in Worker : accepted[v] = 0
      BY <1>7 DEF StartWorkerFails, Dealt
    <2>2. workerCount' \in Nat /\ nextWorker' = 0 /\ accepted' = accepted
      BY <1>7, <2>1 DEF StartWorkerFails
    <2>3. accept' = "none"
      BY <1>7 DEF StartWorkerFails
    <2>4. Turn(accepted', workerCount', 0, 0)
      BY <2>1, <2>2 DEF Turn
    <2> QED
      BY <2>1, <2>2, <2>3, <2>4 DEF Dealt
  <1>8. ASSUME NEW w \in Worker, JoinWorker(w) PROVE Dealt'
    BY <1>8, TurnKept DEF JoinWorker
  <1>9. ASSUME NEW w \in Worker, NEW c \in Conn, ClearPending(w, c) PROVE Dealt'
    BY <1>9, TurnKept DEF ClearPending
  <1>10. ASSUME NEW w \in Worker, NEW c \in Conn, CloseWorkerConnection(w, c) PROVE Dealt'
    BY <1>10, TurnKept DEF CloseWorkerConnection
  <1>11. CASE StartLoop
    BY <1>11, TurnKept DEF StartLoop
  <1>12. CASE StartLoopFails
    BY <1>12, TurnKept DEF StartLoopFails
  <1>13. CASE JoinAccept
    BY <1>13, TurnKept DEF JoinAccept
  <1>14. CASE StopRoot
    BY <1>14, TurnKept DEF StopRoot
  <1>15. CASE StopWorkers
    BY <1>15, TurnKept DEF StopWorkers
  <1>16. CASE JoinedWorkers
    BY <1>16, TurnKept DEF JoinedWorkers
  <1>17. CASE Closed
    BY <1>17, TurnKept DEF Closed
  <1>18. CASE AcceptCheck
    BY <1>18, TurnKept DEF AcceptCheck
  <1>19. CASE AcceptIdle
    BY <1>19, TurnKept DEF AcceptIdle
  <1>20. CASE AcceptFails
    BY <1>20, TurnKept DEF AcceptFails
  <1>21. CASE AcceptStopRoot
    BY <1>21, TurnKept DEF AcceptStopRoot
  <1>22. CASE AcceptStopWorkers
    BY <1>22, TurnKept DEF AcceptStopWorkers
  <1>23. ASSUME NEW c \in Conn, AcceptRefuse(c) PROVE Dealt'
    BY <1>23, TurnKept DEF AcceptRefuse
  <1>24. ASSUME NEW c \in Conn, AcceptReserve(c) PROVE Dealt'
    BY <1>24, TurnKept DEF AcceptReserve
  <1>25. ASSUME NEW w \in Worker, DispatchAdd(w) PROVE Dealt'
    BY <1>25, TurnTaken
  <1>26. ASSUME NEW w \in Worker, DispatchUnlock(w) PROVE Dealt'
    BY <1>26, TurnPassed
  <1>27. ASSUME NEW w \in Worker, WorkerCheck(w) PROVE Dealt'
    BY <1>27, TurnKept DEF WorkerCheck
  <1>28. ASSUME NEW w \in Worker, DrainCopy(w) PROVE Dealt'
    BY <1>28, TurnKept DEF DrainCopy
  <1>29. ASSUME NEW w \in Worker, DrainClear(w) PROVE Dealt'
    BY <1>29, TurnKept DEF DrainClear, Mutexes
  <1>30. ASSUME NEW w \in Worker, DrainDone(w) PROVE Dealt'
    BY <1>30, TurnKept DEF DrainDone
  <1>31. ASSUME NEW w \in Worker, ServeDone(w) PROVE Dealt'
    BY <1>31, TurnKept DEF ServeDone
  <1>32. ASSUME NEW w \in Worker, WorkerFails(w) PROVE Dealt'
    BY <1>32, TurnKept DEF WorkerFails
  <1>33. ASSUME NEW w \in Worker, NEW c \in Conn, CreateConnection(w, c) PROVE Dealt'
    BY <1>33, TurnKept DEF CreateConnection
  <1>34. ASSUME NEW w \in Worker, NEW c \in Conn, CreateFails(w, c) PROVE Dealt'
    BY <1>34, TurnKept DEF CreateFails
  <1>35. ASSUME NEW w \in Worker, NEW c \in Conn, CloseConnection(w, c) PROVE Dealt'
    BY <1>35, TurnKept DEF CloseConnection
  <1>36. ASSUME NEW t \in Thread, ReleaseLoad(t) PROVE Dealt'
    BY <1>36, TurnKept DEF ReleaseLoad
  <1>37. ASSUME NEW t \in Thread, ReleaseSubtract(t) PROVE Dealt'
    BY <1>37, TurnKept DEF ReleaseSubtract
  <1>38. CASE UNCHANGED vars
    BY <1>38, TurnKept
  <1> QED
    BY <1>1, <1>2, <1>3, <1>4, <1>5, <1>6, <1>7, <1>8, <1>9, <1>10, <1>11, <1>12, <1>13, <1>14, <1>15, <1>16, <1>17, <1>18, <1>19, <1>20, <1>21, <1>22, <1>23, <1>24, <1>25, <1>26, <1>27, <1>28, <1>29, <1>30, <1>31, <1>32, <1>33, <1>34, <1>35, <1>36, <1>37, <1>38
       DEF Next, ControlStep, AcceptStep, WorkerStep, Release, Destroyed

\* The workers' shares never differ by more than one connection, over restarts and
\* failed starts too, whatever the number of workers and of connections.
THEOREM DealtInTurn == Spec => []FairShare
  <1>1. Init => Dealt
    <2> SUFFICES ASSUME Init PROVE Dealt
      OBVIOUS
    <2>1. Turn(accepted, workerCount, 0, nextWorker)
      BY DEF Init, Turn, Worker
    <2> QED
      BY <2>1 DEF Init, Dealt
  <1>2. IInv /\ Dealt /\ [Next]_vars => Dealt'
    BY TurnStep
  <1>3. IInv /\ Dealt => FairShare
    <2> SUFFICES ASSUME IInv, Dealt, NEW v \in Worker, NEW w \in Worker,
                        v < workerCount, w < workerCount
                 PROVE  accepted[v] <= accepted[w] + 1
      BY DEF FairShare
    <2>1. PICK n \in Nat, k \in Int : Turn(accepted, workerCount, n, k)
      <3>1. nextWorker \in Int /\ Worker \subseteq Int
        BY DEF IInv, TypeOK, Worker
      <3> QED
        BY <3>1 DEF Dealt
    <2>2. accepted[v] \in {n, n + 1} /\ accepted[w] \in {n, n + 1}
      BY <2>1 DEF Turn
    <2> QED
      BY <2>1, <2>2
  <1> QED
    BY Inductive, <1>1, <1>2, <1>3, PTL DEF Spec

\* Between calls of a server that is not started, every slot has been given back.
THEOREM EverythingReleased == Spec => []NothingLeft
  <1>1. IInv => NothingLeft
    <2> SUFFICES ASSUME IInv,
                        (ctl = "idle" /\ ~AcceptThreadStarted) \/ ctl = "destroyed"
                 PROVE  Held = {} /\ active = 0
      BY DEF NothingLeft
    <2>1. accept = "none" /\ ~Closing
      BY DEF IInv, Ending, Closing, AcceptThreadStarted
    <2>2. Held = {}
      BY <2>1 DEF IInv, Ending
    <2> QED
      BY <2>2, FS_EmptySet DEF IInv, Counts, SlotsExact
  <1> QED
    BY Inductive, <1>1, PTL

(***************************************************************************)
(* The threads implement the pool of slots.                                *)
(***************************************************************************)

\* What a connection's stage is in ConnectionSlots.
LEMMA Inside == Slots!Inside = Held
  BY DEF Slots!Inside, Held

\* The abstract module counts with the same operator.
LEMMA SameCardinality == ASSUME NEW S PROVE Slots!Cardinality(S) = Cardinality(S)
  BY DEF Slots!Cardinality, Cardinality

\* A connection accepted and counted is admitted, while a slot is free.
LEMMA AdmitStep ==
  ASSUME IInv, NEW c \in Conn, AcceptReserve(c)
  PROVE  Slots!Admit(c)
  <1>1. /\ c \in backlog
        /\ backlog' = backlog \ {c}
        /\ inHand = NoConn /\ inHand' = c
        /\ active < MaxConnections
        /\ UNCHANGED <<pending, batch, open, leaving, ctl>>
    BY DEF AcceptReserve, FreeSlot, IInv, Hands, controlVars, queueVars, serveVars
  <1>2. Cardinality(Slots!Inside) < MaxConnections
    BY <1>1, Inside DEF IInv, Counts, SlotsExact
  <1>3. InHand = {} /\ InHand' = {c}
    BY <1>1, ConnAssumption DEF InHand
  <1>4. UNCHANGED <<Queued, Batched, Opened, Leaving>>
    BY <1>1 DEF Queued, Batched, Opened, Leaving
  <1>5. (InHand \union Queued \union Batched)' = (InHand \union Queued \union Batched) \union {c}
    BY <1>3, <1>4
  <1> QED
    BY <1>1, <1>2, <1>4, <1>5, SameCardinality DEF Slots!Admit

\* A subtraction from the counter lets one connection out, the thread's own.
LEMMA ReleaseStep ==
  ASSUME IInv, NEW t \in Thread, ReleaseSubtract(t)
  PROVE  Slots!Release(leaving[t])
  <1>1. /\ leaving[t] \in Conn
        /\ leaving' = [leaving EXCEPT ![t] = NoConn]
        /\ UNCHANGED <<backlog, inHand, pending, batch, open, ctl>>
    BY DEF ReleaseSubtract, IInv, Hands, TypeOK, controlVars, arrivalVars, acceptVars,
           queueVars, serveVars
  <1>2. leaving[t] \in Leaving /\ Leaving' = Leaving \ {leaving[t]}
    BY <1>1, ConnAssumption DEF IInv, TypeOK, SinglePlace, Leaving
  <1>3. UNCHANGED <<InHand, Queued, Batched, Opened>>
    BY <1>1 DEF InHand, Queued, Batched, Opened
  <1> QED
    BY <1>1, <1>2, <1>3 DEF Slots!Release

\* Steps inside the pool that the pool does not see.
LEMMA HiddenSteps ==
  ASSUME IInv, NEW w \in Worker, NEW t \in Thread
  PROVE  /\ DispatchAdd(w) => UNCHANGED Slots!vars
         /\ DrainCopy(w) => UNCHANGED Slots!vars
         /\ DrainClear(w) => UNCHANGED Slots!vars
         /\ ReleaseLoad(t) => UNCHANGED Slots!vars
  <1> USE DEF controlVars, arrivalVars, acceptVars, queueVars, serveVars, releaseVars
  <1>1. ASSUME DispatchAdd(w) PROVE UNCHANGED Slots!vars
    <2>1. /\ inHand \in Conn /\ inHand' = NoConn
          /\ \A v \in Worker : pending'[v] = IF v = w THEN pending[v] \union {inHand} ELSE pending[v]
          /\ UNCHANGED <<backlog, batch, open, leaving, ctl>>
      BY <1>1 DEF DispatchAdd, IInv, TypeOK, Hands
    <2>2. Queued' = Queued \union InHand /\ InHand' = {}
      BY <2>1, ConnAssumption DEF Queued, InHand
    <2>3. UNCHANGED <<Batched, Opened, Leaving>>
      BY <2>1 DEF Batched, Opened, Leaving
    <2> QED
      BY <2>1, <2>2, <2>3 DEF Slots!vars
  <1>2. ASSUME DrainCopy(w) PROVE UNCHANGED Slots!vars
    <2>1. /\ batch[w] = {}
          /\ \A v \in Worker : batch'[v] = IF v = w THEN pending[w] ELSE batch[v]
          /\ UNCHANGED <<backlog, inHand, pending, open, leaving, ctl>>
      BY <1>2 DEF DrainCopy, WorkerAt, IInv, TypeOK, Hands
    <2>2. UNCHANGED <<InHand, Queued, Opened, Leaving>>
      BY <2>1 DEF InHand, Queued, Opened, Leaving
    <2>3. Batched \subseteq Batched' /\ Batched' \subseteq Batched \union Queued
      BY <2>1 DEF Batched, Queued
    <2> QED
      BY <2>1, <2>2, <2>3 DEF Slots!vars
  <1>3. ASSUME DrainClear(w) PROVE UNCHANGED Slots!vars
    <2>1. /\ pending[w] = batch[w]
          /\ \A v \in Worker : pending'[v] = IF v = w THEN {} ELSE pending[v]
          /\ UNCHANGED <<backlog, inHand, batch, open, leaving, ctl>>
      BY <1>3 DEF DrainClear, WorkerAt, IInv, TypeOK, SinglePlace, Clearing
    <2>2. UNCHANGED <<InHand, Batched, Opened, Leaving>>
      BY <2>1 DEF InHand, Batched, Opened, Leaving
    <2>3. Queued' \subseteq Queued /\ Queued \subseteq Queued' \union Batched
      BY <2>1 DEF Batched, Queued
    <2> QED
      BY <2>1, <2>2, <2>3 DEF Slots!vars
  <1>4. ASSUME ReleaseLoad(t) PROVE UNCHANGED Slots!vars
    <2>1. /\ leaving[t] \in Conn
          /\ IF active > 0 THEN UNCHANGED leaving
                           ELSE leaving' = [leaving EXCEPT ![t] = NoConn]
          /\ UNCHANGED <<backlog, inHand, pending, batch, open, ctl>>
      BY <1>4 DEF ReleaseLoad, IInv, TypeOK
    <2>2. leaving[t] \in Held
      BY <2>1 DEF Held, Leaving
    <2>3. active > 0
      BY <2>2, FS_EmptySet DEF IInv, TypeOK, Counts, SlotsExact
    <2> QED
      BY <2>1, <2>3 DEF Slots!vars, InHand, Queued, Batched, Opened, Leaving
  <1> QED
    BY <1>1, <1>2, <1>3, <1>4

\* Every step of a thread is a step of the pool of slots, or none.
LEMMA StepSimulation == IInv /\ [Next]_vars => [Slots!Next]_(Slots!vars)
  <1> SUFFICES ASSUME IInv, [Next]_vars PROVE [Slots!Next]_(Slots!vars)
    OBVIOUS
  <1>1. ASSUME NEW c \in Conn, Connect(c) PROVE Slots!Arrive(c)
    BY <1>1, Inside, HeldFrame
       DEF Connect, Slots!Arrive, controlVars, acceptVars, queueVars, serveVars, releaseVars,
           InHand, Queued, Batched, Opened, Leaving
  <1>2. ASSUME NEW w \in Worker, NEW c \in Conn,
               \/ ClearPending(w, c) \/ CreateFails(w, c)
               \/ CloseWorkerConnection(w, c) \/ CloseConnection(w, c)
        PROVE  Slots!Drop(c)
    BY <1>2, Moves DEF Dropped, Admitted, Slots!Drop
  <1>3. ASSUME NEW w \in Worker, NEW c \in Conn, CreateConnection(w, c)
        PROVE  Slots!Serve(c)
    BY <1>3, Moves DEF Served, Admitted, Slots!Serve
  <1>4. ASSUME NEW c \in Conn, AcceptRefuse(c) PROVE Slots!Refuse(c)
    BY <1>4 DEF AcceptRefuse, Slots!Refuse, controlVars, acceptVars, queueVars, serveVars,
                releaseVars, InHand, Queued, Batched, Opened, Leaving
  <1>5. CASE Closed
    <2>1. /\ ctl = "close" /\ Queued = {} /\ Opened = {}
          /\ leaving[Control] = NoConn
          /\ \/ ctl' = "destroyed" /\ backlog' = {}
             \/ ctl' = "idle" /\ backlog' = backlog
          /\ UNCHANGED <<inHand, pending, batch, open, leaving>>
      BY <1>5 DEF Closed, acceptVars, queueVars, serveVars, releaseVars
    <2>2. UNCHANGED <<InHand, Queued, Batched, Opened, Leaving>>
      BY <2>1 DEF InHand, Queued, Batched, Opened, Leaving
    <2>3. accept = "none" /\ \A w \in Worker : worker[w] = "none"
      BY <2>1 DEF IInv, Ending
    <2>4. InHand = {} /\ Batched = {} /\ Leaving = {}
      <3>1. inHand = NoConn /\ \A w \in Worker : batch[w] = {}
        BY <2>3 DEF IInv, Hands, TypeOK
      <3>2. \A t \in Thread : leaving[t] = NoConn
        BY <2>1, <2>3 DEF IInv, Hands, TypeOK, Thread
      <3> QED
        BY <3>1, <3>2, ConnAssumption DEF InHand, Batched, Leaving
    <2> QED
      BY <2>1, <2>2, <2>4 DEF Slots!Next, Slots!End, Slots!Inside, Slots!vars
  <1>6. CASE Still
    BY <1>6, StillSettled
       DEF Settled, places, Slots!vars, InHand, Queued, Batched, Opened, Leaving
  <1>7. CASE UNCHANGED vars
    BY <1>7 DEF vars, controlVars, arrivalVars, acceptVars, queueVars, serveVars, releaseVars,
                Slots!vars, InHand, Queued, Batched, Opened, Leaving
  <1>8. ASSUME NEW t \in Thread, ReleaseSubtract(t) PROVE Slots!Next
    <2>1. leaving[t] \in Conn
      BY <1>8 DEF ReleaseSubtract, IInv, Hands, TypeOK
    <2> QED
      BY <1>8, <2>1, ReleaseStep DEF Slots!Next
  <1>9. Control \in Thread /\ Worker \subseteq Thread
    BY DEF Thread
  <1>10. CASE \E w \in Worker : DispatchAdd(w) \/ DrainCopy(w) \/ DrainClear(w)
    BY <1>9, <1>10, HiddenSteps
  <1>11. CASE \E t \in Thread : ReleaseLoad(t)
    BY <1>11, WorkerAssumption, HiddenSteps DEF Worker
  <1> QED
    BY <1>1, <1>2, <1>3, <1>4, <1>5, <1>6, <1>7, <1>8, <1>9, <1>10, <1>11, AdmitStep
       DEF Next, ControlStep, AcceptStep, WorkerStep, Release, Destroyed, Still, Slots!Next

\* The server, for any number of threads and connections, is a pool of
\* MaxConnections slots each connection passes through once.
THEOREM ServerImplementsSlots == Spec => ImplementsSlots
  <1>1. Init => Slots!Init
    BY ConnAssumption
       DEF Init, Slots!Init, InHand, Queued, Batched, Opened, Leaving, Worker, Thread, Control
  <1> QED
    BY Inductive, <1>1, StepSimulation, PTL DEF Spec, ImplementsSlots, Slots!Spec

=============================================================================
