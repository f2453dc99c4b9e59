--------------------------------- MODULE Heap --------------------------------
(***************************************************************************)
(* The garbage-collected heap of src/gc.cpp and include/natalie/gc: one    *)
(* Allocator with its blocks of cells, allocation, and the mark and sweep  *)
(* collector.  Threads reach cells from their stacks, through references   *)
(* in cells; a collection runs inside an allocation of the main thread,    *)
(* with g_gc_recursive_mutex held.  The other threads stand still while it *)
(* marks (module StopTheWorld) and run, without allocating, while it       *)
(* sweeps.                                                                 *)
(*                                                                         *)
(* A stack is scanned exactly here, in the code conservatively: what an    *)
(* integer that looks like a pointer keeps alive is left out.  The other   *)
(* allocators (cell sizes) share only the two counters.                    *)
(***************************************************************************)
EXTENDS Integers, Sequences, FiniteSets, SequencesExt

CONSTANTS Threads, Main, Nobody,
          Blocks,          \* bound: the HeapBlocks memory has room for
          Slots,           \* bound: the places of a cell in a block
          InitialBlocks,   \* initial_blocks_per_allocator
          CheckEvery,      \* check_free_percentage_every
          MinPercentFree,  \* min_percent_free_triggers_collection
          MaxRoots,        \* bound: references on the stack of each thread
          MaxPinned        \* bound: pinned cells

ASSUME HeapAssumption ==
  /\ Main \in Threads /\ Nobody \notin Threads
  /\ IsFiniteSet(Blocks) /\ IsFiniteSet(Slots) /\ Cardinality(Slots) > 1
  /\ InitialBlocks \in 1..Cardinality(Blocks)
  /\ CheckEvery \in Nat /\ MinPercentFree \in Nat
  /\ MaxRoots \in [Threads -> Nat] /\ MaxPinned \in Nat

CellsPerBlock == Cardinality(Slots)
Cells == Blocks \X Slots
BlockOf(c) == c[1]
CellsOf(b) == {b} \X Slots

VARIABLES
  blocks,      \* m_blocks
  freeBlocks,  \* m_free_blocks, a stack
  used,        \* m_used_map of the blocks
  pinned,      \* cells whose is_collectible() is false
  edges,       \* what visit_children of a cell visits
  roots,       \* the cells a thread's stack and registers refer to
  marked,      \* m_marked
  worklist,    \* m_stack of the MarkingVisitor
  todo,        \* cells sweep has yet to look at
  heapFree,    \* m_free_cells of the Heap
  sinceCheck,  \* m_allocations_without_collection_count
  lock,        \* holder of g_gc_recursive_mutex
  stage,       \* of the allocation or GC.start that holds it
  allocating   \* is it an allocation?

objectVars == <<edges, roots>>
blockVars == <<blocks, freeBlocks, used, heapFree>>
gcVars == <<marked, worklist, todo>>
ownerVars == <<sinceCheck, lock, stage, allocating>>
vars == <<blockVars, pinned, objectVars, gcVars, ownerVars>>

Init ==
  /\ blocks = {} /\ freeBlocks = <<>> /\ used = {} /\ heapFree = 0
  /\ pinned = {}
  /\ edges = [c \in Cells |-> {}]
  /\ roots = [a \in Threads |-> {}]
  /\ marked = {} /\ worklist = {} /\ todo = {}
  /\ sinceCheck = 0
  /\ lock = Nobody /\ stage = "idle" /\ allocating = FALSE

-------------------------------------------------------------------------------
(* Heap::allocate. *)

TotalCells == Cardinality(blocks) * CellsPerBlock

TooFewFree(free, total) == (free * 100) \div total < MinPercentFree

\* m_free_cells and m_total_cells after the first allocation's add_multiple_blocks.
FirstFree == IF blocks = {} THEN InitialBlocks * CellsPerBlock ELSE heapFree
FirstTotal == IF blocks = {} THEN InitialBlocks * CellsPerBlock ELSE TotalCells

\* The first allocation adds the initial blocks.
HaveBlocks ==
  \/ blocks # {} /\ UNCHANGED <<blocks, freeBlocks, heapFree>>
  \/ /\ blocks = {}
     /\ \E S \in SUBSET Blocks :
          /\ Cardinality(S) = InitialBlocks
          /\ blocks' = S
          /\ freeBlocks' \in SetToSeqs(S)
     /\ heapFree' = InitialBlocks * CellsPerBlock

Room(a) == Cardinality(roots[a]) < MaxRoots[a]

\* GC.enable and GC.disable are left out: the collector is enabled.
BeginAllocate(a) ==
  /\ lock = Nobody /\ Room(a)
  /\ HaveBlocks
  /\ lock' = a
  /\ sinceCheck' = IF sinceCheck >= CheckEvery THEN 0 ELSE sinceCheck + 1
  /\ stage' = IF sinceCheck >= CheckEvery /\ TooFewFree(FirstFree, FirstTotal) /\ a = Main
                THEN "collect" ELSE "allocate"
  /\ allocating' = TRUE
  /\ UNCHANGED <<used, pinned, objectVars, gcVars>>

\* find_next_free_cell: the cell is used, refers to nothing yet, and is referred to
\* by the stack of the allocating thread.
TakeCell(c, stack) ==
  /\ used' = used \cup {c}
  /\ freeBlocks' = IF CellsOf(BlockOf(c)) \subseteq used \cup {c} THEN Front(stack) ELSE stack
  /\ roots' = [roots EXCEPT ![lock] = @ \cup {c}]
  /\ pinned' \in {pinned, pinned \cup {c}} /\ Cardinality(pinned') <= MaxPinned
  /\ lock' = Nobody /\ stage' = "idle" /\ allocating' = FALSE
  /\ UNCHANGED <<edges, gcVars, sinceCheck>>

Allocate ==
  /\ stage = "allocate" /\ freeBlocks # <<>>
  /\ \E c \in CellsOf(Last(freeBlocks)) \ used : TakeCell(c, freeBlocks)
  /\ heapFree' = heapFree - 1
  /\ UNCHANGED blocks

AllocateInNewBlock ==
  /\ stage = "allocate" /\ freeBlocks = <<>>
  /\ \E b \in Blocks \ blocks :
       /\ blocks' = blocks \cup {b}
       /\ \E c \in CellsOf(b) : TakeCell(c, <<b>>)
  /\ heapFree' = heapFree + CellsPerBlock - 1

-------------------------------------------------------------------------------
(* Heap::collect. *)

Stacks == UNION {roots[a] : a \in Threads}
OnlyTheCurrentStack == roots[Main]    \* mutant of RootCells: skips thread objects
RootCells == Stacks

\* GC.start on the main thread, elsewhere it does nothing.
Start ==
  /\ lock = Nobody
  /\ lock' = Main /\ stage' = "collect"
  /\ UNCHANGED <<blockVars, pinned, objectVars, gcVars, sinceCheck, allocating>>

\* The world is stopped; the stacks of all threads are scanned.
StartMark ==
  /\ stage = "collect"
  /\ worklist' = RootCells
  /\ stage' = "mark"
  /\ UNCHANGED <<blockVars, pinned, objectVars, marked, todo, sinceCheck, lock, allocating>>

Children(c) == edges[c]

\* visit_all: pop, mark, visit the children, which are pushed unless marked.
Mark(c) ==
  /\ stage = "mark" /\ c \in worklist
  /\ marked' = marked \cup {c}
  /\ worklist' = (worklist \ {c}) \cup (Children(c) \ marked')
  /\ UNCHANGED <<blockVars, pinned, objectVars, todo, ownerVars>>

\* The world runs again.
StartSweep ==
  /\ stage = "mark" /\ worklist = {}
  /\ todo' = used
  /\ stage' = "sweep"
  /\ UNCHANGED <<blockVars, pinned, objectVars, marked, worklist, sinceCheck, lock, allocating>>

AlwaysAdd(b) == Append(freeBlocks, b)    \* mutant of WithFree: had_free ignored
WithFree(b) == IF CellsOf(b) \subseteq used THEN Append(freeBlocks, b) ELSE freeBlocks

NotPinned(c) == c \notin pinned    \* mutant of Dead: is_marked not asked
Dead(c) == c \notin marked /\ c \notin pinned

SweepDead(c) ==
  /\ stage = "sweep" /\ c \in todo /\ Dead(c)
  /\ todo' = todo \ {c}
  /\ used' = used \ {c}
  /\ edges' = [edges EXCEPT ![c] = {}]
  /\ freeBlocks' = WithFree(BlockOf(c))
  /\ heapFree' = heapFree + 1
  /\ UNCHANGED <<blocks, pinned, roots, marked, worklist, ownerVars>>

Unmarked(c) == marked \ {c}

SweepLive(c) ==
  /\ stage = "sweep" /\ c \in todo /\ ~ Dead(c)
  /\ todo' = todo \ {c}
  /\ marked' = Unmarked(c)
  /\ UNCHANGED <<blockVars, pinned, objectVars, worklist, ownerVars>>

EndSweep ==
  /\ stage = "sweep" /\ todo = {}
  /\ \/ allocating /\ stage' = "allocate" /\ lock' = lock
     \/ ~ allocating /\ stage' = "idle" /\ lock' = Nobody
  /\ UNCHANGED <<blockVars, pinned, objectVars, gcVars, sinceCheck, allocating>>

-------------------------------------------------------------------------------
(* What running code does with objects, allocations of others or not; the    *)
(* world is stopped from before the stacks are scanned until after marking.  *)

Running(a) == stage \notin {"collect", "mark"} /\ lock # a

Load(a, c, d) ==
  /\ Running(a) /\ Room(a) /\ c \in roots[a] /\ d \in edges[c]
  /\ roots' = [roots EXCEPT ![a] = @ \cup {d}]
  /\ UNCHANGED <<blockVars, pinned, edges, gcVars, ownerVars>>

\* An instance variable, an element, a captured variable ... is set; objects of one
\* reference are enough to build every chain and cycle.
Store(a, c, value) ==
  /\ Running(a) /\ c \in roots[a] /\ value \subseteq roots[a] /\ Cardinality(value) <= 1
  /\ edges' = [edges EXCEPT ![c] = value]
  /\ UNCHANGED <<blockVars, pinned, roots, gcVars, ownerVars>>

Drop(a, c) ==
  /\ Running(a) /\ c \in roots[a]
  /\ roots' = [roots EXCEPT ![a] = @ \ {c}]
  /\ UNCHANGED <<blockVars, pinned, edges, gcVars, ownerVars>>

\* An argument of Thread.new, a queue, a global variable.
Give(a, b, c) ==
  /\ Running(a) /\ Running(b) /\ Room(b) /\ c \in roots[a]
  /\ roots' = [roots EXCEPT ![b] = @ \cup {c}]
  /\ UNCHANGED <<blockVars, pinned, edges, gcVars, ownerVars>>

\* A thread object becomes collectible: the thread is dead and joined.
Unpin(c) ==
  /\ stage \notin {"collect", "mark"} /\ c \in pinned
  /\ pinned' = pinned \ {c}
  /\ UNCHANGED <<blockVars, objectVars, gcVars, ownerVars>>

Code ==
  \/ \E a \in Threads : \E c \in roots[a] :
       \/ Drop(a, c)
       \/ \E d \in edges[c] : Load(a, c, d)
       \/ \E value \in SUBSET roots[a] : Store(a, c, value)
       \/ \E b \in Threads : Give(a, b, c)
  \/ \E c \in pinned : Unpin(c)

Collector ==
  \/ StartMark \/ StartSweep \/ EndSweep
  \/ \E c \in Cells : Mark(c) \/ SweepDead(c) \/ SweepLive(c)

Next ==
  \/ \E a \in Threads : BeginAllocate(a)
  \/ Start
  \/ Allocate \/ AllocateInNewBlock \/ Collector \/ Code

Spec == Init /\ [][Next]_vars

-------------------------------------------------------------------------------
\* Every variable holds a value the code can give it, and the marks and lists of the
\* collector are there only while it runs.
TypeOK ==
  /\ blocks \subseteq Blocks /\ freeBlocks \in Seq(Blocks)
  /\ used \subseteq Cells /\ pinned \subseteq Cells
  /\ edges \in [Cells -> SUBSET Cells]
  /\ roots \in [Threads -> SUBSET Cells]
  /\ marked \subseteq Cells /\ worklist \subseteq Cells /\ todo \subseteq Cells
  /\ heapFree \in Int /\ sinceCheck \in 0..CheckEvery
  /\ lock \in Threads \cup {Nobody}
  /\ stage \in {"idle", "allocate", "collect", "mark", "sweep"}
  /\ allocating \in BOOLEAN
  /\ lock = Nobody <=> stage = "idle"
  /\ worklist # {} => stage = "mark"
  /\ todo # {} => stage = "sweep"
  /\ stage = "sweep" => marked \subseteq todo
  /\ marked # {} => stage \in {"mark", "sweep"}

ClosedUnder(refs, S) == \A c \in S : refs[c] \subseteq S

\* What can be got at from R: the least set of cells with all of R and closed under refs.
ReachableFrom(R, refs) ==
  {c \in Cells : \A S \in SUBSET Cells : R \subseteq S /\ ClosedUnder(refs, S) => c \in S}
Reachable == ReachableFrom(Stacks, edges)

\* No cell that a thread can still get at is freed, although the threads keep moving
\* references about while the collector sweeps.
NoDanglingReference == Reachable \subseteq used

\* The collector finds exactly the cells in reach: none is forgotten, and garbage,
\* cycles included, is not kept for another round.
MarksWhatIsReachable ==
  [][stage = "mark" /\ stage' = "sweep" => marked = Reachable]_vars

\* The counter that decides about collections is the number of free cells, and the
\* stack of blocks to allocate from has every block with a free cell once.
FreeListsAgree ==
  /\ heapFree = TotalCells - Cardinality(used)
  /\ IsInjective(freeBlocks)
  /\ Range(freeBlocks) = {b \in blocks : ~ CellsOf(b) \subseteq used}

===============================================================================
