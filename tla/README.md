# A verification development of Natalie's runtime

Natalie compiles Ruby to C++ and runs it on a C++ runtime with native threads,
a stop-the-world mark-and-sweep collector and a Ruby-written core library on
top. Most of the runtime is sequential library code with a large suite of
specs. This development is about the part that specs reach worst: what several
threads, the collector and the signal handlers do to each other.

Paths below are relative to the repository.

## Inventory

| Component | Source | State it keeps | Operations | Talks to | Status |
|---|---|---|---|---|---|
| Threads and interrupts | `src/thread_object.cpp`, `src/thread.rb`, of `src/env.cpp` the raising of exceptions | status, terminal exception, causes, value, joined, OS thread; pending exceptions, mask stack; wakeup and sleeping flags, `m_sleep_lock`/`m_sleep_cond`; the list of threads | new, body of the OS thread, raise, kill, wakeup, pass, sleep, join, handle_interrupt | each other through those fields; mutexes on death; collector through the list | `ThreadObject` |
| Mutex | `src/thread/mutex_object.cpp` | `std::mutex`, owner thread and fiber, list of mutexes per thread | lock, try_lock, synchronize, unlock, locked?, owned?, sleep | sleep of threads, death of threads, `g_gc_recursive_mutex` | `MutexObject` |
| Stopping the world | `src/thread_object.cpp`, `src/natalie.cpp` | thread list, `m_suspend_status`, saved context, end of stack, two signals | add/remove thread, stop, resume, signal handler | the collector; every thread | `StopTheWorld` |
| Heap | `src/gc.cpp`, `include/natalie/gc/` | allocators, blocks, used map, free lists, marks, counters | allocate, mark, sweep, GC.start | thread stacks; stopping the world | `Heap` |
| Condition variable | `src/thread/conditionvariable.rb` | waiting list, mutex | wait, signal, broadcast | Mutex#sleep, Thread#wakeup | `Monitor` |
| Queue, SizedQueue | `src/thread/queue.rb`, `sizedqueue.rb` | items, waiting consumers and producers, closed, max | push, pop (timeouts), close, clear, max= | Mutex#sleep, Thread#wakeup | `ThreadQueue` |
| Wake pipe | `src/io_object.cpp`, `src/thread_object.cpp` | a pipe shared by all selecting threads | wake_all, select, drain | raise, kill, close | planned |
| Fibers | `src/fiber_object.cpp` | status, previous fiber, arguments, error, stack bounds, current fiber of the thread | new, resume, yield, end | collector (which stack is scanned) | `FiberObject` |
| Hash and its loops | `src/hash_object.cpp`, `include/natalie/hash_object.hpp`, `src/hash.rb` | table, ring of keys in order, iterating flag, iterators on the stack | put, delete, shift, clear, rehash, replace; each, to_h, delete_if, keep_if | user blocks run during iteration | `HashObject` |
| Monitor | `lib/monitor.rb` | mutex, owner, count | enter, try_enter, exit, wait | Mutex, condition variable | `Monitor` |
| Timeout | `lib/timeout.rb` | requests with deadlines, a queue, the watcher thread | timeout, watch, interrupt, finished | Thread#raise, Queue, Mutex, condition variable | `Timeout` |
| ThreadPool | `lib/thread_pool.rb` | workers and a queue | job, finish | Queue, join | planned |
| Thread groups | `src/thread_group_object.cpp` | member list | add, list | the collector | planned |
| Object model, core classes, compiler, library bindings | `src/*.cpp`, `lib/` | sequential | | | not modelled |

Behaviours that are hard here: operations that check a field and act later
(`kill`, the mutex probes); the order of two stores a second thread reads
(`m_thread` after `m_mutex`, `Suspended` before the end of the stack); a
condition variable whose predicate lives under another lock; signals that
arrive before the wait for them; waits of the collector for threads that may be
waiting for the collector; memory reclaimed while threads run; lists of waiting
threads that are changed at other moments than the threads sleep and wake;
an exception raised in a thread that is just leaving the call it is for; a
loop over a list that its own block takes apart. `PROJECT.json` lists them with
their lines under `hazards`.

What makes each component correct: no posted interrupt is lost, a kill ends its
thread, and `join` tells how the thread ended (threads); mutual exclusion,
and a mutex never left without an owner (mutex); the world stands still during
marking and moves again afterwards (stopping); nothing in reach is freed, and
garbage is (heap); control and values go from caller to callee and back, no
stack is executed twice at a time, and every stack is walked (fibers); a bounded
channel, in which nobody sleeps beside what it waits for (queues); exclusion at
every depth, and signals that reach waiters (monitor); an expiry that interrupts
its call, once, and nothing else (timeout); a table and a list that agree, and
loops that visit what stays once and what is gone never (hash).

## Modules

**ThreadObject** — a thread is an actor with a program counter. At `"user"` it
runs Ruby code and may make the calls that `Calls` allows; every other value is
a point inside the runtime where another thread may come in between. Sections
under `m_interrupt_lock` are one step, as they take no other lock; the section
of `sleep` under `m_sleep_lock` spans several steps and names its holder.
Actions follow the methods: `Initialize`, `Launch`, `Return`, ... for
`nat_create_thread`; `Kill`, `KillMark`, `KillDrain`, `KillPark`; `Raise`,
`RaisePush`, `Notify`; `Wakeup...`; `Sleep`, `LockSleep`, `StartWait`,
`EndWait`; `Join`, `OsJoin`, `JoinReturns`; `EnterCheckpoint`, `TakeKill`,
`TakePending` for `deliver_pending`; `PushMask`, `PopMask`. `handlers` are the rescue
and ensure bodies a thread is in, each with the exception it caught and the number of
masks it began with: `Rescue` and `EnterEnsure` take an exception in flight,
`EndEnsure` lets it go on, `LeaveBody` replaces it by one raised in the body, `Jump` drops
it. A kill keeps its causes, as `raise_exception` chains them from `$!` (`Caused`) and
`kill` from the queue (`KillOf`), because the top of a thread hands the cause to `join`;
of other exceptions they matter to nothing here. `late` remembers whom a kill reached
when it was out of its block. The sleep of the
Ruby level is the untimed or timed wait without a distinction: a wait may end
without a notification only where `EndWaitUnnotified` allows it.

**InterruptMailbox** — the abstract specification of raise and kill: one
mailbox per thread, in order within a class, taken only by a thread that is
awake. `ThreadObject!ImplementsMailbox` substitutes `m_pending_exceptions` for
the mailbox and checks the whole state machine against it.

**MutexObject** — one mutex and any number of threads. The `std::mutex` and the
recorded owner are two variables because the code writes them at two moments,
and the probes (`locked?`, `owned?`, `unlock` take the `std::mutex` to look at
it) are steps of their own. `ForeignCalls` says which methods Ruby code calls
on a mutex it does not own. Ownership is that of threads, which is all that `lock`
and `unlock` compare; `owned?` compares the fiber too, of which no record is kept, so
that at the end of `synchronize` it may also answer no.

**StopTheWorld** — the list of threads, the two signals, their handler, and the
collector. `handler[t]` says where in the handler a thread is; while it is not
`"none"` the thread itself does nothing. Sending a signal and handling it are
separate steps. Linux on x86-64.

**Heap** — cells in blocks, references in cells and on stacks, allocation, mark
and sweep one cell at a time. `Load`, `Store`, `Drop`, `Give` are what compiled
code does with references; they are possible while the collector sweeps and not
while it marks. The module takes from `StopTheWorld` that marking happens in a
stopped world. It scans every stack completely, which the code does except in
the cases described under Schedules.

**FiberObject** — the fibers of every thread. Three records of the running
fiber have to agree: `m_current_fiber` with `m_start_of_stack` of the thread,
the chain of `m_previous_fiber`, and the coroutine minicoro executes (`nest`,
the nested coroutines of a thread). `Resume` and `Yield` end with the section
under the lock; `SwitchIn` and `SwitchBack` are minicoro's; `Arrive` is what
`resume` and `yield` do once they have control again. The block ends in `End`
and `SwapAtEnd`, one on each side of the lock. Stacks are abstracted to two
facts: the fiber at whose stack `m_start_of_stack` points, and whether
`m_end_of_stack` of a fiber lies below the frames of its Ruby code (`parked`).
Fibers are taken to be initialized once.

**Coroutines** — the abstract specification: a call with a value, a pause with a
value, an end with a value or an error. What was given is kept until the fiber that
has got control is handed it, that very value or error, and goes on with it.
`FiberObject!ImplementsCoroutines` substitutes `nest`, with the switch that is
underway, for the active coroutines, and what `resume` or `yield` is about to return or
raise, read off `m_args` and `m_error`, for what is handed over; what was given is a
history in `FiberObject`, taken from the argument when the switch begins.

**ThreadQueue** — `Thread::Queue` (`max = NoLimit`) and `Thread::SizedQueue`.
The Ruby code runs under `@mutex` from one sleep to the next, so that what a
thread does there is one step; the exceptions have steps of their own: `push`
spins in `wake_waiter` with `@mutex` held (`holder`), `close` empties
`@waiting` without it, `pop` of a SizedQueue looks at `@push_waiters` without it.
`"doze"` is the point between the unlock and the wait of `Mutex#sleep`, where
`wakeup` sets `m_wakeup` only. `Interrupt` is a raise or kill at any
checkpoint. `events` remembers whether waits ended by themselves or calls by an
error, because some properties are about programs without these. An operation
of an Array counts as one step, which the runtime does not promise.

**Channel** — the abstract specification of both: a first-in first-out buffer,
with a bound or none; every call takes effect at one moment between its start and its
return, is refused for a reason that holds at such a moment, or is struck by an
interrupt before it takes effect. It ends in no other way.
`ThreadQueue!ImplementsChannel` substitutes `queue`, `max` and, for what a thread
has asked for, its call and where it is in it.

**Monitor** — `MonitorMixin` and one condition variable. `holder` is the owner
of `@mon_mutex` and `owner` what `@mon_owner` says; the two are written at
different moments. The mutex of the condition variable is held between steps by
a broadcast only. Entries stay on `@waiting` when a wait ends by itself, and
those of dead threads too: the model does not tidy up what the code does not.

**Timeout** — calls nest in `frames`; a request goes through `queue` into
`requests` of the watcher, whose position is `wpc`. Time is the action `Expire`.
What the watcher raises lies in `pending` until the thread comes to a
checkpoint: in its block (`Checkpoint`), in the section that hands the request
over (`AddInterrupted`), or in the `synchronize` of `finished`
(`FinishedInterrupted`). `Finished` is possible only when the mutex of the
request is free, which is how a call waits for a raise that is on its way.
`missed` remembers that a call was left without `finished`.

**HashObject** — the table, the ring of `HashKey` nodes with both links, the
flag, and a stack of loops, each an iterator and whether its block runs. Blocks
call every operation, other loops included. `Increment` is one step of
`operator++`, which goes on by itself while it meets removed nodes. A node is
reclaimed, and used again for another key, when the hash and the iterators on
the stack do not lead to it; `prev` of a removed node is never read and
left out. `Following` is the least set that holds its start and is closed under the
links; `rehash` takes the keys in the order of the list (`InOrder`). Histories in a loop
say what it has visited in this round (`seen`), what it still owes (`owed`), and
whether another round is about to begin (`cut`).

Modules named `MC...` give the constants values for TLC; modules named
`..._proofs` hold the theorems. `Heap` and `HashObject` share one,
`HeapAndHash_proofs`, which is why their definitions have different names.

## Runs

Bounds are constants named in the modules; a `.cfg` gives each its value.

| Run | Instance | Question | Result |
|---|---|---|---|
| `thread_interrupt` | 3 threads, 3 exceptions, masks nested once | no interleaving of raise, wakeup, mask and sleep loses an interrupt; the mailbox is implemented | holds |
| `thread_pair` | 2 threads, a class and its subclass, masks nested twice, one rescue or ensure body, kills from within and outside, one joiner | `:never` of the innermost block holds; join returns after death, with what ended the thread, what was behind its kill, or a late kill; a kill gives way to another exception or a jump only | holds |
| `thread_kill` | 3 threads, two killers | a killed sleeper dies | holds |
| `mutex` | 2 threads, owners only | mutual exclusion; a dying owner hands over | holds |
| `mutex_foreign` | 3 threads, foreign unlock and sleep | never abandoned, recursion found, sleep takes back | holds |
| `world` | 3 threads and the main one, 2 collections | the world stands still, signals reach the living, recorded stacks are scanned to the end; unless a resume is lost, a collection ends | holds |
| `heap` | 2 threads, 2 blocks of 2 cells, 1 cell not collectible, 2 references on the main stack and 1 on the other | nothing in reach is freed; marks are exact; counter and lists of free cells agree | holds |
| `fibers` | 2 threads, 3 fibers, 2 values, 1 error | no stack runs twice; sleeping stacks are walked, and current ones except during a switch; coroutines are implemented | holds |
| `queue` | 3 threads, 2 items, no limit or a max of 1 or 2, at most 2 items in a Queue | a channel is implemented; items and places are offered to those who wait; close reaches everyone listed; a push that spins does not wait for one that waits for it | holds |
| `monitor` | 3 threads, depth 2, 3 entries on the list | exclusion with counts over waits; waiters stay within reach; signal wakes one, broadcast all | holds |
| `timeout` | 2 threads, calls nested twice, 2 requests in use | an expiry is raised once, within its call; one watcher; no expiry is missed by a watcher that keeps up | holds |
| `hash` | 3 keys, 4 nodes, loops nested twice | table and list agree; loops visit every pair that stays, once in a round, and none that is gone; the flag means an each is on | holds |

Why the bounds are enough. Three threads are the smallest number at which a
third party interferes with a pair (two raisers at one sleeper, a foreign
unlocker between a locker and a prober, a thread that ends while a second is
created). Two exceptions of one class show an order, a class with a subclass
shows the choice of a mask, and masks nested twice the choice of a block. One
body (`MaxHandlers`) and masks around it and in it are enough for a kill to be raised
while another waits, with the first as its cause; unwinding a kill that has a cause already
enters no further ensure body (`MaxCauses = 0`), or causes would pile up without end. Both bounds
are open in the theorems. The
mutex is fair to nobody, so that progress is checked with two threads;
exclusion is proved for any number. A stale end of stack needs two collections;
that the world stops and that signals reach the living is proved for any number
of collections. Four cells in two
blocks make cycles, chains out of another thread's stack, full and empty blocks
and a new block. Three fibers nest two deep beside one that sleeps, the second
thread shows that the records are kept apart, and two values show that each
receiver gets what was given and not an older value; that no stack runs twice is proved for any number of
fibers. In a queue,
three threads let a fresh call overtake a woken one while a third pops, closes or
resizes; which calls each makes is fixed per thread (`Calling` in
`MCThreadQueue`), so that every pair of operations meets in one of the two
kinds of queue; two items show their order. Three entries on the
list of a condition variable make a stale one, a live one and a third behind
it. Two requests are one inside the other, or one in each thread; request
objects are used again once they are garbage. Three keys make a list
with a first, a middle and a last pair, and four nodes a removed one beside
it; a rehash of three pairs does not fit and is tried with two. What holds of a hash
is proved for any number of keys, nodes and loops.
Queues of interrupts are bounded because an exception object is posted by
one thread at a time; the model has no bound on them. In `Heap` the percentage
is compared at every allocation with a threshold of 1, so that an allocation
collects when the heap is full, and `GC.start` collects at any other moment;
the values of the code (5 % and 1000) are instances of the same constants, and
the theorems hold for all of them.

Deadlock checking is off where the system may stop: every thread may be dead,
or asleep for ever because the program says so.

## Fairness

Only liveness properties use it. In `ThreadObject` and `MutexObject` weak fairness is
assumed of each thread's runtime steps and unwinding: the operating system
schedules every thread that can run. It is not assumed of the calls of Ruby
code, which may stop. In `StopTheWorld` weak fairness of each thread's steps, of
delivering pending signals and of the collector: `pthread_kill` of a live thread
is delivered, `sched_yield` loops make progress. No fairness is assumed among
threads that spin for one mutex: `lock` is a `try_lock` loop and nothing orders
the contenders. With two threads a dead owner's mutex reaches the other
(`mutex`); with a third that locks and unlocks for ever it need not, and
the property does not hold of the code. In `Timeout` weak fairness of the
watcher, a thread of its own, and of the sections of the runtime in which a
caller holds a mutex or waits for one; none of blocks, deadlines or checkpoints.
It does not follow that the watcher ever sees an empty queue, as
others may fill it all the time: `ExpiryIsRaised` assumes that much
(`WatcherKeepsUp`) and says so. `ThreadQueue`, `Monitor` and `HashObject` state no
fairness: what must not be forgotten there is stated as an invariant (somebody
has a wakeup on the way to it), because the spin locks under it are fair to nobody.

## What is proved

All theorems hold for every value of the constants that meets the named
assumptions at the head of each module.

- `ThreadObject_proofs`: `TypeCorrect` and `NoLostInterruptTheorem`. The
  invariant adds that a poster still carries its exception, that the dead run
  no Ruby code, and `WaitProtected`: from the drain under `m_sleep_lock` to the
  wait, whatever is posted has a notifier on the way. It is the last that makes
  the argument go through: a poster that has not notified yet cannot do so
  before the sleeper waits, because it needs `m_sleep_lock`.
  `NeverHolds` follows from where `Timing` looks: the innermost mask that names
  the class itself decides. `Refines` (the mailboxes) needs `FlowInv` beside
  it, which says where a thread with an exception in flight can be, that only a thread
  in its wait is asleep, and that who has left its block has left an outcome;
  and that exceptions of one class have one list of ancestors
  (`AncestorsAssumption`), so that what masks skip keeps its order within a class.
  Every step is then one action of the mailbox or touches nothing of it.
  `OutcomesAreLeft` is the last part of `FlowInv`, in every program.
  `JoinRaisesIt` needs `KillsInBlock`, that nothing but a kill is parked in a thread that
  has not left its block, and that a kill parked in a thread is of that thread
  (`CarriesException`); which exception propagates may be anything. `KillEnds` looks
  at each step that ends a propagation: a body that keeps it, the top of the thread,
  or a jump. Both are about every program.
  `Joined` is about the programs in which no two threads join the same one
  (`OneJoiner`), and names them by a condition on the calls Ruby code makes; then who reaches
  `pthread_join` is the first (`JoinIsFirst`). What other programs run into is under
  Schedules.
- `MutexObject_proofs`: `TypeCorrect`, and in every program, with calls of
  `unlock` and `sleep` by threads that do not own the mutex: `NeverAbandoned`,
  `RecursionIsFound`, `SleepGivesBack`, and `ExclusionOrAbort`. The last says as much
  of exclusion as is true: an unlock by another thread may come between `try_lock`
  and `record_owner`, releases a mutex without an owner, and is then `Doomed` to fail
  the assertion, with `g_gc_recursive_mutex` held until the process is gone.
  The invariant is therefore in two parts, one that always holds (who owns the mutex
  lists it, who spins or sleeps does not own it, the assertion is about the caller's
  mutex or nobody's) and `Exclusive`, which holds unless somebody is doomed.
  `Exclusion` is the theorem without the exception, for programs where only
  owners unlock and sleep (`ForeignCalls = {}`).
- `StopTheWorld_proofs`: `TypeCorrect`, `SignalsAreSafe`, `WorldStops`,
  `StacksCovered`. The invariant says in which phase of a collection each suspend
  status, handler position and pending signal can occur, and that the list keeps a
  thread until the lock lets it go; `RecordedInv` that a thread calls nothing on
  its stack between the recording of its end and the end of its handler.
- `HeapAndHash_proofs`, of the heap: `TypeCorrect`, `NoDangling`, `MarksAreExact`,
  `FreeListsAreTrue`. `Reachable` is
  the least closed set with the stacks, so that no recursion is needed. While
  marking, what is marked has its children marked or on the work list, and both
  are in reach; while sweeping, what is in reach and not yet looked at is
  marked; a free cell refers to nothing. Running code never brings into reach
  what was not, except by allocating. That the counter is the number of free
  cells and the list of blocks the set of blocks with one needs nothing more: the
  proof is about the size of a set and a list that change by one element.
- `HeapAndHash_proofs`, of the hash: `TableAndRing`, `FlagIsTrue`, `OnlyThePresent`,
  `AllOfThemOnce`, all from one invariant, `HashInv`. It speaks neither of order nor
  of distance, so that it needs no induction over the list. The list is a ring
  (`IsRing`): links lead from node to node and back, and a set of its nodes that has
  the first one and is closed under `next` is all of them. A loop whose list was not
  dropped (`IsWalk`) stands in a closed set of nodes of the list and removed ones. A
  bound on what is before it (`Ahead`) is a set that the links do not leave on the way
  to the end, seen from the node the loop is at: what the loop owes lies within every such
  bound, which is why `operator++` cannot end too early, and some such bound has
  none of the nodes the block was called for, which is why none is visited again in
  this round. A deletion of the last pair takes out of that bound the nodes that led to
  this pair only; where the iterator is at one of them the round is over (`cut`), and
  `AllOfThemOnce` makes no promise across it, nor across a dropped list.
  `NotBefore` links the two: a node of the ring is not among what is before it.
  Each operation is shown to keep this for the nodes as it leaves them, and
  `Collected` that the collection at the end of the step takes nothing of it. Only
  the list that `rehash` and `replace` build has an order to reason about (`ComesToAll`),
  by its least position that breaks the claim.
- `FiberObject_proofs`: `TypeCorrect`, `StacksRunOnce`, `SleepersAreWalked`,
  `UserIsWalked`, and `Refines`, that fibers implement coroutines.
  `Chained` says that the coroutines of a thread are linked by
  `m_previous_fiber` from the running one down to the main fiber, `Focused`
  where the three records of the running fiber may disagree and how,
  `Unlinked` that a fiber has a previous one only while it is active: it is why
  `resume` may look at nothing else. `Sleeping` says that what does not run has
  recorded its end. The refinement adds
  `HandOver`: each coroutine of a thread waits in `resume` for the one above it, and
  (`Carrying`) through every step of a switch `m_args` of who gets control, or
  `m_error` of the fiber that has ended, is what was given when the switch began.
- `ThreadQueue_proofs`: `Lists`, `Refines`, that the queue implements the
  channel, and `Taken`, `Offered`, `CloseReaches` and `Meet`, that wakeups reach those who
  wait. The invariant adds `CallsAreTrue`: what a thread has in its hands
  goes with the call it is in and the place in it. `Delete` takes the one entry
  of a thread, because no list ever has two. Each action is then one action
  of the channel or changes nothing of it; where one section does several things
  (a pop that returns nil, an interrupt in `wake_waiter`) the moment at which
  the call takes effect is the step that ends the section; an interrupt that comes before
  is a strike, and only a call that is answered or struck leaves. The wakeups need `WInv`:
  who wakes others has a list of them in its hands only between taking it and
  waking the last; unless a wait ends by itself, nobody is on two such lists, nor on one
  and among the waiting (`OneWakerEach`); and, unless an interrupt hits the queue,
  consumers off the list are awake or woken (`TakersAreUp`). The counts of
  `EveryItemHasATaker` and `RoomIsOffered` move by one on both sides; this is where the
  proof uses that there are finitely many threads.
- `Monitor_proofs`: `Sound`, `Reached`, `Wakes`. `HolderInv`, `OwnerInv` and
  `DepthInv` say who has the mutex, who is recorded and what a thread in wait
  remembers; `ListedInv` that a listed thread stays listed until it sleeps, which a
  signal from outside breaks; `ListIsTrue` that the list has exactly the waiters,
  once each, as long as every wait was ended by a signal.
- `Timeout_proofs`: `Hits`, `AtMostOne`. `RaisedIsDone` says that an exception is
  raised in the thread of its request, which is done or becomes so next, so that
  it is not raised again; `WatchedIsOn` that what the watcher may still
  interrupt is of a call that is on. The second depends on `finished`, which is
  why both hold only until a call is left without it.

The type invariants with a theorem are not run again, except where a property
names them (`ListsAreTrue`, `MonitorIsSound`, `ExpiriesHitTheirCall`); that of
`HashObject` is part of `TableIsTheRing`.

Only model-checked: the five properties under fairness (`InterruptEndsSleep`,
`KilledSleeperDies`, `DeathReleases`, `CollectionEnds`, `ExpiryIsRaised`), which
the prover cannot treat. Every invariant, every action property and each of the three
refinements that a run checks is stated by a theorem.

## Schedules

While modelling, the code was found to do things that its comments, assertions
and specs do not expect. The models contain them all; a property that one of
them would break says under which condition it holds. No run is expected to
fail, as every run above asks about what does hold.

Threads, mutexes and the collector:

- A resume signal (SIGUSR2) that is handled after the handler of SIGUSR1 has
  announced `Suspended` and before its `pause()` (`natalie.cpp:1013-1023`) is
  lost: the thread pauses for ever, although its status says `Running`, and
  `wake_up_the_world` returns saying "all threads indicated they have resumed"
  (`thread_object.cpp:1048`). `ResumeIsLost` names that state.
- `m_end_of_stack` is set after `Suspended` is announced (1016): the collector,
  which waits for `Suspended` only, may scan with the end of the collection
  before. `StacksAreCovered` excludes that one point.
- A thread stopped between the section of `resume` or `yield` that changes
  `m_current_fiber` and minicoro's switch (`fiber_object.cpp:173, 269`) is scanned
  with one fiber's stack pointer and the start of another's stack, and the fiber it
  calls current does not scan itself, against the comment at 315.
  `CurrentStackIsWalked` excludes that one point.
- An unlock by another thread between `try_lock` and `record_owner`
  (`mutex_object.cpp:6-29, 81-94`) passes both ownership checks of `unlock` and
  fails its `assert(m_thread)` (109): `AssertFails`, in `mutex_foreign`.
- `join` may raise a `ThreadKillError`, although a comment (`thread_object.cpp:104-106`) says
  that it shouldn't be what join sees. A kill that lands while its target finishes is
  parked where only `join` looks (400). A kill that unwinds an ensure body in which
  the thread kills itself again becomes the cause of the second one
  (`env.cpp:111-115`), and 96-100 parks it:
  `begin; Thread.current.kill; ensure; Thread.current.kill; end`. So does a kill delivered in
  the ensure clause of `handle_interrupt` while another goes through it. In the
  joiner it goes on as if that thread had been killed.
  `JoinRaisesWhatEnded` says that there is no further way, and that a kill no
  checkpoint delivered is not one.
- The second of two joiners goes on while the thread runs (354):
  `std::thread::join` refuses it, which the code takes for "already joined".
  `thread_pair`, with one joiner, shows `JoinSeesOutcome`.
- `kill` reads the status at `thread_object.cpp:375` and stores `Aborting` at
  380: a target that dies in between is no longer `Dead`.
- An exception raised after `kill` has cleared the queue is delivered by the
  ensure clause of `handle_interrupt` (582), replaces the `ThreadKillError` and
  can be rescued, as can one raised in an ensure body on the way. `thread.rb:16-19` means the
  first; a `return` out of an ensure body stops a kill as well. `KillIsNotRescued` leaves
  these ways and no others.
- Two `locked?` of a free mutex at once: one takes the probe of the other for a
  lock (`mutex_object.cpp:117`).
- When a fiber unlocks inside `synchronize` and another fiber of the thread locks,
  the end of `synchronize` does not unlock (`mutex_object.cpp:71, 134`): `IsOwned`.
- A `Mutex#sleep` refused with a `ThreadError` has already installed the `Defer`
  that locks the mutex (43): the caller leaves with a mutex it never had.

Queues:

- A pusher of a full SizedQueue is listed once, before its loop
  (`sizedqueue.rb:41-51`). Woken for a free place and overtaken by a fresh
  pusher, it sleeps again without an entry: no pop and no close wakes it. It is
  the same when `max` shrinks in between. `spec/shared/sizedqueue/enque.rb:35` says
  that closing interrupts enqueuing threads.
- An interrupt in the `wake_push_waiter` of `pop` throws away the item that
  was popped (69-71).
- A consumer that is interrupted after it was woken for an item leaves, and the
  others sleep beside the item (`queue.rb:96`, 83).
- A thread that dies between `alive?` and `wakeup` of `wake_waiter`
  (`queue.rb:110-111`) makes `max=`, `clear` or `close` of a SizedQueue raise a
  `ThreadError`, and the pushers behind it on the list are never woken.

Monitor and condition variable:

- The entry of a wait that ended by itself stays on `@waiting` and swallows a
  later signal (`conditionvariable.rb:24-28`).
- `status` of a dead thread is `false` or `nil`, never `'dead'` (12, 26), so that its
  `wakeup` raises: `signal` fails without waking anybody, and `broadcast` ends with
  the others asleep.
- A signal given without holding the monitor, after a waiter has listed
  itself and before it sleeps, takes its entry and leaves it asleep.
- A thread that dies inside a monitor gives up the mutex but stays `@mon_owner`;
  the next to enter overwrites it.

Timeout:

- Nested calls that are due together: the exception of the outer one may be
  delivered in the `finished` of the inner one, whose `@done` is then not set. Its
  own expiry comes later, in the block of the outer call or after it, and an
  `ExitException` leaves both calls as it is, against `timeout.rb:226`. So
  does a deadline that passes while an interrupt throws out of `add_request`.
- The watcher looks at deadlines only when the queue is empty (90): calls that
  come all the time keep every expiry back.

Hash:

- The last pair is deleted while a loop stands on it: `operator++` recognizes the
  end by a pair that is not removed (`hash_object.hpp:128`), and begins another
  round over what is left; so it does from a removed pair that led to the deleted one.
  `{1=>1, 2=>2, 3=>3}.delete_if { |k| k == 3 }` calls its block five times.
- `clear`, `rehash`, `replace` or `compare_by_identity` in a block leave the loop on the
  old ring, which does not contain the new first node: it goes round for ever.
- A nested `each`, and `shift` and `first`, which are made of one, clear
  `m_is_iterating` at their end (`hash_object.cpp:526`), and the block of the outer loop may
  insert keys; `test/natalie/hash_test.rb:234` expects an error. `delete_if` and
  `keep_if` never set it.

## Not modelled, and why

- Construction of exception objects by `Thread#raise` (it may run Ruby code,
  partly under `m_sleep_lock`), thread locals, names, reports on stderr.
- Failure to create an OS thread, `fork`, and the end of the process beyond the
  death of the main thread.
- Conservative scanning: an integer that looks like a pointer keeps a cell; the
  model scans exactly, so that `MarksWhatIsReachable` says nothing of such
  integers. Destructors, GC.disable, several allocators, the collection at exit.
- Locks inside the C library held by a stopped thread.
- Fiber storage, `blocking?`, the scheduler, the destruction of fibers, the
  registers minicoro saves outside the stack.
- Of queues: arguments and their conversion, and interleavings inside an operation
  of an Array. Of `Timeout`: a class given instead of the `ExitException`, fiber
  schedulers, calls from a trap. Of hashes: values, frozen hashes, keys that change,
  default procs, comparison, `compact!`.
- macOS, where threads are stopped without signals.
- The sequential parts of the runtime (object model, core classes, encodings,
  numbers, the compiler) and the bindings to external libraries.

## Plan

Next, in this order:

1. `WakePipe`: bounded pipe, selecting threads, drain; failure to write to a
   full pipe.
2. `ThreadPool` and `ThreadGroup`: the pool as a composition of `ThreadQueue`
   with join; the lists of groups under a collector that stops threads anywhere.
3. A composition of `ThreadObject` with `MutexObject` for the death of a thread in
   `Mutex#sleep`.
4. Sequential algorithms with hard boundaries, checked against reference
   definitions: integer division and shifts, the table of a hash, ranges.
