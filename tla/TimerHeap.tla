----------------------------- MODULE TimerHeap ------------------------------
(***************************************************************************)
(* The timers of a manager's connections (src/src/sw_server.c): a binary   *)
(* heap to which every change of a deadline adds an entry, and from which  *)
(* entries that no longer count are taken only when they reach its root.   *)
(***************************************************************************)
EXTENDS Loops, Sequences, SequencesExt, FiniteSets, FiniteSetsExt

CONSTANTS
  Conn,            \* connections; a handle is never given again
  Timeouts,        \* how far ahead a deadline may be
  PollTimeout,     \* what the worker's loop passes to sw_mgr_poll
  MaxTime,         \* bound: ticks of the clock
  MaxDeadlines     \* bound: deadlines that connections are given

ASSUME TimersAssumption == Timeouts \subseteq Nat /\ PollTimeout \in Nat

VARIABLES
  now,             \* the clock
  heap,            \* mgr->timers: a sequence of Entry
  conns,           \* for each connection: [open, due, generation]
  wake             \* when the backend's poll ends, or Running

timerVars == <<now, heap, conns, wake>>

Running == -1
NoDue == -1        \* sw_connection_timeout_due_ms returned 0

-----------------------------------------------------------------------------
(* The heap.  Positions count from 1.                                       *)

Entry == [due : Nat, conn : Conn, generation : Nat]
Place == [heap : Seq(Entry), at : Nat \ {0}]

Swap(h, i, j) == [h EXCEPT ![i] = h[j], ![j] = h[i]]
Parent(i) == i \div 2

\* A turn of sw_timer_heap_push's loop, which a position i leaves in i turns at most.
Rise ==
  [p \in Place |->
     IF p.at = 1 \/ p.heap[Parent(p.at)].due <= p.heap[p.at].due THEN p
     ELSE [heap |-> Swap(p.heap, Parent(p.at), p.at), at |-> Parent(p.at)]]
SiftUp(h, i) == Turns(Rise, [heap |-> h, at |-> i], i).heap

Push(h, entry) == SiftUp(Append(h, entry), Len(h) + 1)

\* The smallest of an entry and its children, which must exist.
\* Mutant: the right child is compared with the entry, not with the left one.
SmallestLeft(h, i) ==
  LET at == {j \in {2 * i, 2 * i + 1} : j <= Len(h) /\ h[j].due < h[i].due}
  IN  IF at = {} THEN i ELSE Max(at)
Smallest(h, i) ==
  LET left == IF 2 * i <= Len(h) /\ h[2 * i].due < h[i].due THEN 2 * i ELSE i
  IN  IF 2 * i + 1 <= Len(h) /\ h[2 * i + 1].due < h[left].due THEN 2 * i + 1 ELSE left

\* A turn of sw_timer_heap_pop's loop, and all of them.
Sink ==
  [p \in Place |->
     [heap |-> Swap(p.heap, p.at, Smallest(p.heap, p.at)), at |-> Smallest(p.heap, p.at)]]
SiftDown(h, i) == Turns(Sink, [heap |-> h, at |-> i], Len(h)).heap

Pop(h) == IF Len(h) = 1 THEN <<>> ELSE SiftDown(Front([h EXCEPT ![1] = Last(h)]), 1)

\* An entry counts if it is of the connection's latest deadline.
Counts(entry) ==
  /\ conns[entry.conn].open
  /\ conns[entry.conn].generation = entry.generation
  /\ conns[entry.conn].due = entry.due

\* sw_mgr_peek_timer: the heap without the stale entries at its root.
Peek == [h \in Seq(Entry) |-> IF h = <<>> \/ Counts(h[1]) THEN h ELSE Pop(h)]
Peeked(h) == Turns(Peek, h, Len(h))

-----------------------------------------------------------------------------
(* Deadlines.                                                               *)

Deadlines == {now + t : t \in Timeouts} \cup {NoDue}

\* sw_mgr_schedule_connection_timeout, for a deadline that may have moved.
Schedule(h, c, due) ==
  LET next == conns[c].generation + (IF due = NoDue THEN 0 ELSE 1)
  IN  /\ conns' = [conns EXCEPT ![c] = [open |-> TRUE, due |-> due, generation |-> next]]
      /\ heap' = IF due = NoDue THEN h ELSE Push(h, [due |-> due, conn |-> c, generation |-> next])

\* sw_mgr_close_connection leaves the heap alone.
Close(c) == conns' = [conns EXCEPT ![c].open = FALSE]

TimersInit ==
  /\ now = 0
  /\ heap = <<>>
  /\ conns = [c \in Conn |-> [open |-> FALSE, due |-> NoDue, generation |-> 0]]
  /\ wake = Running

\* Room for one more deadline, within the bound.
MayMove == MapThenSumSet(LAMBDA c : conns[c].generation, Conn) < MaxDeadlines

\* sw_connection_create, from the pending array; and any event of a connection.
Accept(c) ==
  /\ wake = Running
  /\ ~conns[c].open /\ conns[c].generation = 0
  /\ MayMove
  /\ \E due \in Deadlines \ {NoDue} : Schedule(heap, c, due)
  /\ UNCHANGED <<now, wake>>

Activity(c) ==
  /\ wake = Running
  /\ conns[c].open
  /\ MayMove
  /\ \E due \in Deadlines : Schedule(heap, c, due)
  /\ UNCHANGED <<now, wake>>

Leave(c) ==
  /\ wake = Running
  /\ conns[c].open
  /\ Close(c)
  /\ UNCHANGED <<now, heap, wake>>

\* The loop of sw_mgr_expire_timeouts: the connection is closed, or is sent a
\* 408, which gives it a new deadline.
Overdue == Peeked(heap) # <<>> /\ Peeked(heap)[1].due <= now

Expire ==
  /\ wake = Running
  /\ Overdue
  /\ LET c == Peeked(heap)[1].conn
         rest == Pop(Peeked(heap))
     IN  \/ Close(c) /\ heap' = rest
         \/ MayMove /\ \E due \in Deadlines \ {NoDue} : Schedule(rest, c, due)
  /\ UNCHANGED <<now, wake>>

\* sw_mgr_effective_poll_timeout: the backend's poll ends when the first timer
\* is due, if that is before the caller's timeout.
Wait ==
  /\ wake = Running
  /\ ~Overdue
  /\ heap' = Peeked(heap)
  /\ wake' = IF heap' = <<>> THEN now + PollTimeout ELSE Min({now + PollTimeout, heap'[1].due})
  /\ UNCHANGED <<now, conns>>

Wake ==
  /\ wake # Running
  /\ wake' = Running
  /\ UNCHANGED <<now, heap, conns>>

\* Only waiting takes time.
Tick ==
  /\ wake # Running
  /\ now < wake /\ now < MaxTime
  /\ now' = now + 1
  /\ UNCHANGED <<heap, conns, wake>>

TimersNext ==
  \/ \E c \in Conn : Accept(c) \/ Activity(c) \/ Leave(c)
  \/ Expire \/ Wait \/ Wake \/ Tick

TimersSpec == TimersInit /\ [][TimersNext]_timerVars

-----------------------------------------------------------------------------
\* Every deadline of an open connection has its entry, no deadline passes
\* unserved while the worker waits for events, and the timer found first is one
\* of the earliest, however many stale entries lie between.
TimersOrdered ==
  LET live == {c \in Conn : conns[c].open /\ conns[c].due # NoDue}
  IN  /\ \A c \in live : /\ \E i \in DOMAIN heap : heap[i].conn = c /\ Counts(heap[i])
                         /\ conns[c].due >= now
      /\ live # {} => /\ Peeked(heap) # <<>>
                      /\ Peeked(heap)[1].due = Min({conns[c].due : c \in live})
=============================================================================
