-------------------------- MODULE HeapAndHash_proofs --------------------------
(***************************************************************************)
(* The heap: for any number of threads, blocks and cells, what a thread    *)
(* can get at is never freed, and the collector marks exactly what is in   *)
(* reach.                                                                  *)
(*                                                                         *)
(* A hash: for any number of keys, nodes and loops, its table and its list *)
(* hold the same pairs, and a loop whose blocks change it visits those     *)
(* that stay, each once in a round.                                        *)
(***************************************************************************)
EXTENDS Heap, HashObject, SequenceTheorems, FiniteSetTheorems, WellFoundedInduction, TLAPS

-------------------------------------------------------------------------------
(* The cells in reach are the least closed set.                              *)

\* Objects that refer to cells only: the references ReachableFrom follows.
IsGraph(R, refs) == R \subseteq Cells /\ refs \in [Cells -> SUBSET Cells]

\* What is in reach is closed, so that marking has to follow references to the end.
LEMMA ReachIsClosed ==
  ASSUME NEW R, NEW refs, IsGraph(R, refs)
  PROVE /\ R \subseteq ReachableFrom(R, refs)
        /\ ReachableFrom(R, refs) \subseteq Cells
        /\ ClosedUnder(refs, ReachableFrom(R, refs))
<1>1. R \subseteq ReachableFrom(R, refs)
  BY DEF ReachableFrom, IsGraph
<1>2. ReachableFrom(R, refs) \subseteq Cells
  BY DEF ReachableFrom
<1>3. ASSUME NEW c \in ReachableFrom(R, refs), NEW d \in refs[c]
      PROVE d \in ReachableFrom(R, refs)
  <2>1. c \in Cells /\ d \in Cells
    BY <1>2, <1>3 DEF IsGraph
  <2>2. ASSUME NEW S \in SUBSET Cells, R \subseteq S, ClosedUnder(refs, S) PROVE d \in S
    <3>1. c \in S
      BY <1>3, <2>2 DEF ReachableFrom
    <3> QED BY <3>1, <2>2, <1>3 DEF ClosedUnder
  <2> QED BY <2>1, <2>2 DEF ReachableFrom
<1> QED BY <1>1, <1>2, <1>3 DEF ClosedUnder

\* Nothing else is in reach: a closed set with the roots has it all.
LEMMA ReachIsLeast ==
  ASSUME NEW R, NEW refs, NEW S \in SUBSET Cells, R \subseteq S, ClosedUnder(refs, S)
  PROVE ReachableFrom(R, refs) \subseteq S
BY DEF ReachableFrom

-------------------------------------------------------------------------------
(* The inductive invariant: free cells refer to nothing; while the collector  *)
(* marks, everything marked has its children marked or on the work list; and  *)
(* while it sweeps, what is in reach and not yet looked at is marked.         *)

MarkInv ==
  stage = "mark" =>
    /\ Stacks \subseteq marked \cup worklist
    /\ \A c \in marked : edges[c] \subseteq marked \cup worklist
    /\ marked \cup worklist \subseteq Reachable

SweepInv == stage = "sweep" => Reachable \cap todo \subseteq marked

FreeCellsAreEmpty == \A c \in Cells \ used : edges[c] = {}

\* Used cells and listed blocks are in blocks that have been added.
BlockInv ==
  /\ freeBlocks \in Seq(blocks)
  /\ \A c \in used : BlockOf(c) \in blocks
  /\ todo \subseteq used

IInv == TypeOK /\ BlockInv /\ FreeCellsAreEmpty /\ NoDanglingReference /\ MarkInv /\ SweepInv

\* Running code, the collector's bookkeeping and the allocator see a graph of cells.
LEMMA StacksType ==
  ASSUME TypeOK
  PROVE IsGraph(Stacks, edges)
BY DEF TypeOK, Stacks, IsGraph

\* The same of the state after a step.
LEMMA StacksTypeNext ==
  ASSUME TypeOK'
  PROVE IsGraph(Stacks', edges')
BY DEF TypeOK, Stacks, IsGraph

\* What is in reach contains the stacks and is closed, in a state of the heap.
LEMMA ReachableClosed ==
  ASSUME TypeOK
  PROVE /\ Stacks \subseteq Reachable /\ Reachable \subseteq Cells
        /\ \A c \in Reachable : edges[c] \subseteq Reachable
<1>1. /\ Stacks \subseteq ReachableFrom(Stacks, edges)
      /\ ReachableFrom(Stacks, edges) \subseteq Cells
      /\ ClosedUnder(edges, ReachableFrom(Stacks, edges))
  BY StacksType, ReachIsClosed
<1> QED BY <1>1 DEF Reachable, ClosedUnder

\* A step after which a closed set of cells holds the stacks leaves no more in reach.
LEMMA ReachableWithin ==
  ASSUME NEW S \in SUBSET Cells, Stacks' \subseteq S, \A c \in S : edges'[c] \subseteq S
  PROVE Reachable' \subseteq S
<1>1. ClosedUnder(edges', S)
  BY DEF ClosedUnder
<1>2. ReachableFrom(Stacks', edges') \subseteq S
  BY <1>1, ReachIsLeast
<1> QED BY <1>2 DEF Reachable

\* Bookkeeping changes nothing about what is in reach.
LEMMA ReachableSame ==
  ASSUME UNCHANGED objectVars
  PROVE Reachable' = Reachable /\ Stacks' = Stacks
BY DEF objectVars, Reachable, Stacks

-------------------------------------------------------------------------------
(* Types.                                                                    *)

\* Allocating one cell, from a listed block or from a new one, keeps the types.
LEMMA TakeCellType ==
  ASSUME TypeOK, stage = "allocate",
         NEW c \in Cells, NEW stack \in Seq(Blocks), stack # <<>>, TakeCell(c, stack),
         blocks' \subseteq Blocks, heapFree' \in Int
  PROVE TypeOK'
<1>1. Front(stack) \in Seq(Blocks)
  BY DEF Front
<1>2. lock \in Threads
  BY DEF TypeOK
<1>3. roots' \in [Threads -> SUBSET Cells]
  BY <1>2 DEF TypeOK, TakeCell
<1>4. freeBlocks' \in Seq(Blocks)
  BY <1>1 DEF TakeCell
<1> QED BY <1>3, <1>4 DEF TypeOK, TakeCell, gcVars

\* Every step keeps the types; marked cells are used because they are in reach.
LEMMA TypeStep == ASSUME IInv, Next PROVE TypeOK'
<1> USE HeapAssumption DEF IInv, blockVars, objectVars, gcVars, ownerVars
<1>c. CellsPerBlock \in Nat
  BY FS_CardinalityType DEF CellsPerBlock
<1>1. ASSUME NEW a \in Threads, BeginAllocate(a) PROVE TypeOK'
  <2>1. blocks' \subseteq Blocks /\ freeBlocks' \in Seq(Blocks) /\ heapFree' \in Int
    <3>1. CASE blocks = {}
      <4>1. PICK S \in SUBSET Blocks : /\ Cardinality(S) = InitialBlocks
                                       /\ blocks' = S /\ freeBlocks' \in SetToSeqs(S)
        BY <1>1, <3>1 DEF BeginAllocate, HaveBlocks
      <4>2. freeBlocks' \in [1..Cardinality(S) -> S] /\ Cardinality(S) \in Nat
        BY <4>1, FS_CardinalityType DEF SetToSeqs
      <4>3. freeBlocks' \in Seq(S)
        BY <4>2
      <4> QED BY <4>1, <4>3, <1>1, <3>1, <1>c DEF BeginAllocate, HaveBlocks
    <3>2. CASE blocks # {}
      BY <1>1, <3>2 DEF BeginAllocate, HaveBlocks, TypeOK
    <3> QED BY <3>1, <3>2
  <2>2. sinceCheck' \in 0..CheckEvery
    BY <1>1 DEF BeginAllocate, TypeOK
  <2> QED BY <1>1, <2>1, <2>2 DEF BeginAllocate, TypeOK
<1>2. CASE Allocate
  <2>1. freeBlocks \in Seq(Blocks) /\ freeBlocks # <<>>
    BY <1>2 DEF Allocate, TypeOK
  <2>2. Last(freeBlocks) \in Blocks
    BY <2>1 DEF Last
  <2>3. PICK c \in CellsOf(Last(freeBlocks)) : TakeCell(c, freeBlocks)
    BY <1>2 DEF Allocate
  <2>4. c \in Cells
    BY <2>2, <2>3 DEF CellsOf, Cells
  <2> QED BY <1>2, <2>1, <2>3, <2>4, TakeCellType DEF Allocate, TypeOK
<1>3. CASE AllocateInNewBlock
  <2>1. PICK b \in Blocks : /\ blocks' = blocks \cup {b}
                            /\ \E c \in CellsOf(b) : TakeCell(c, <<b>>)
    BY <1>3 DEF AllocateInNewBlock
  <2>2. PICK c \in CellsOf(b) : TakeCell(c, <<b>>)
    BY <2>1
  <2>3. c \in Cells /\ <<b>> \in Seq(Blocks) /\ <<b>> # <<>>
    BY <2>2 DEF CellsOf, Cells
  <2>4. blocks' \subseteq Blocks /\ stage = "allocate"
    BY <1>3, <2>1 DEF AllocateInNewBlock, TypeOK
  <2>5. heapFree' \in Int
    <3>1. heapFree' = heapFree + CellsPerBlock - 1
      BY <1>3 DEF AllocateInNewBlock
    <3>2. heapFree \in Int
      BY DEF TypeOK
    <3> QED BY <3>1, <3>2, <1>c
  <2> QED BY <2>2, <2>3, <2>4, <2>5, TakeCellType
<1>4. CASE Start
  BY <1>4 DEF Start, TypeOK
<1>5. CASE StartMark
  BY <1>5, StacksType DEF StartMark, RootCells, TypeOK, IsGraph
<1>6. CASE StartSweep
  BY <1>6 DEF StartSweep, TypeOK, MarkInv, NoDanglingReference
<1>7. CASE EndSweep
  BY <1>7 DEF EndSweep, TypeOK
<1>8. ASSUME NEW c \in Cells, Mark(c) PROVE TypeOK'
  <2>1. edges[c] \subseteq Cells
    BY DEF TypeOK
  <2> QED BY <1>8, <2>1 DEF Mark, Children, TypeOK
<1>9. ASSUME NEW c \in Cells, SweepDead(c) PROVE TypeOK'
  <2>1. BlockOf(c) \in Blocks
    BY DEF BlockOf, Cells
  <2>2. freeBlocks' \in Seq(Blocks)
    BY <1>9, <2>1 DEF SweepDead, WithFree, TypeOK
  <2> QED BY <1>9, <2>2 DEF SweepDead, Dead, TypeOK
<1>10. ASSUME NEW c \in Cells, SweepLive(c) PROVE TypeOK'
  BY <1>10 DEF SweepLive, Unmarked, TypeOK
<1>11. ASSUME NEW a \in Threads, NEW c \in roots[a], NEW d \in edges[c], Load(a, c, d) PROVE TypeOK'
  <2>1. d \in Cells
    BY DEF TypeOK
  <2> QED BY <1>11, <2>1 DEF Load, TypeOK
<1>12. ASSUME NEW a \in Threads, NEW c \in roots[a], NEW value \in SUBSET roots[a], Store(a, c, value)
       PROVE TypeOK'
  BY <1>12 DEF Store, TypeOK
<1>13. ASSUME NEW a \in Threads, NEW c \in roots[a], Drop(a, c) PROVE TypeOK'
  BY <1>13 DEF Drop, TypeOK
<1>14. ASSUME NEW a \in Threads, NEW c \in roots[a], NEW b \in Threads, Give(a, b, c) PROVE TypeOK'
  BY <1>14 DEF Give, TypeOK
<1>15. ASSUME NEW c \in pinned, Unpin(c) PROVE TypeOK'
  BY <1>15 DEF Unpin, TypeOK
<1> QED BY <1>1, <1>2, <1>3, <1>4, <1>5, <1>6, <1>7, <1>8, <1>9, <1>10, <1>11, <1>12, <1>13,
           <1>14, <1>15 DEF Next, Collector, Code

-------------------------------------------------------------------------------
(* What is in reach stays used, marked where it has to be.                   *)

GraphInv == FreeCellsAreEmpty /\ NoDanglingReference /\ MarkInv /\ SweepInv

\* A new cell refers to nothing, so that only itself comes into reach.
LEMMA TakeCellGraph ==
  ASSUME IInv, TypeOK', stage = "allocate",
         NEW c \in Cells \ used, NEW stack, TakeCell(c, stack)
  PROVE GraphInv'
<1>1. lock \in Threads
  BY DEF IInv, TypeOK
<1>2. Stacks' \subseteq Stacks \cup {c}
  BY <1>1 DEF IInv, TypeOK, TakeCell, Stacks
<1>3. edges[c] = {} /\ edges' = edges
  BY DEF IInv, FreeCellsAreEmpty, TakeCell
<1>4. Reachable' \subseteq Reachable \cup {c}
  <2>1. Reachable \cup {c} \in SUBSET Cells /\ Stacks' \subseteq Reachable \cup {c}
    BY <1>2, ReachableClosed DEF IInv
  <2>2. \A d \in Reachable \cup {c} : edges'[d] \subseteq Reachable \cup {c}
    BY <1>3, ReachableClosed DEF IInv
  <2> QED BY <2>1, <2>2, ReachableWithin
<1> QED BY <1>3, <1>4 DEF GraphInv, IInv, TakeCell, FreeCellsAreEmpty, NoDanglingReference, MarkInv, SweepInv

\* Code that runs moves references about, and brings nothing into reach that was not.
LEMMA CodeGraph ==
  ASSUME IInv, TypeOK', Stacks' \subseteq Reachable,
         \A d \in Reachable : edges'[d] \subseteq Reachable,
         FreeCellsAreEmpty', used' = used, UNCHANGED <<todo, marked, stage>>, stage # "mark"
  PROVE GraphInv'
<1>1. Reachable' \subseteq Reachable
  BY ReachableClosed, ReachableWithin DEF IInv
<1> QED BY <1>1 DEF GraphInv, IInv, NoDanglingReference, MarkInv, SweepInv

\* Every step keeps what is in reach used, and the marks complete.
LEMMA GraphStep == ASSUME IInv, TypeOK', Next PROVE GraphInv'
<1> USE DEF IInv, blockVars, objectVars, gcVars, ownerVars
<1> DEFINE G == GraphInv'
<1>r. /\ Stacks \subseteq Reachable /\ Reachable \subseteq Cells
      /\ \A c \in Reachable : edges[c] \subseteq Reachable
  BY ReachableClosed
<1>s. ASSUME NEW a \in Threads, NEW c \in roots[a] PROVE c \in Stacks
  BY <1>s DEF Stacks
<1>1. ASSUME NEW a \in Threads, BeginAllocate(a) PROVE G
  BY <1>1, ReachableSame DEF BeginAllocate, GraphInv, FreeCellsAreEmpty, NoDanglingReference, MarkInv, SweepInv
<1>2. CASE Allocate
  <2>1. freeBlocks \in Seq(Blocks) /\ freeBlocks # <<>>
    BY <1>2 DEF Allocate, TypeOK
  <2>2. Last(freeBlocks) \in Blocks
    BY <2>1 DEF Last
  <2>3. PICK c \in CellsOf(Last(freeBlocks)) \ used : TakeCell(c, freeBlocks)
    BY <1>2 DEF Allocate
  <2>4. c \in Cells \ used
    BY <2>2, <2>3 DEF CellsOf, Cells
  <2> QED BY <1>2, <2>3, <2>4, TakeCellGraph DEF Allocate
<1>3. CASE AllocateInNewBlock
  <2>1. PICK b \in Blocks \ blocks : \E c \in CellsOf(b) : TakeCell(c, <<b>>)
    BY <1>3 DEF AllocateInNewBlock
  <2>2. PICK c \in CellsOf(b) : TakeCell(c, <<b>>)
    BY <2>1
  <2>3. c \in Cells \ used
    <3>1. c \in Cells /\ BlockOf(c) = b
      BY <2>1, <2>2 DEF CellsOf, Cells, BlockOf
    <3> QED BY <2>1, <3>1 DEF BlockInv
  <2> QED BY <1>3, <2>2, <2>3, TakeCellGraph DEF AllocateInNewBlock
<1>4. CASE Start
  BY <1>4, ReachableSame DEF Start, GraphInv, FreeCellsAreEmpty, NoDanglingReference, MarkInv, SweepInv
<1>5. CASE StartMark
  <2>1. marked = {} /\ worklist' = Stacks /\ used' = used
    BY <1>5 DEF StartMark, RootCells, TypeOK
  <2> QED BY <1>5, <1>r, <2>1, ReachableSame
          DEF StartMark, GraphInv, FreeCellsAreEmpty, NoDanglingReference, MarkInv, SweepInv
<1>6. CASE StartSweep
  <2>1. marked \in SUBSET Cells /\ Stacks \subseteq marked /\ \A c \in marked : edges[c] \subseteq marked
    BY <1>6 DEF StartSweep, MarkInv, TypeOK
  <2>2. Reachable' \subseteq marked
    BY <1>6, <2>1, ReachableSame, ReachableWithin DEF StartSweep
  <2> QED BY <1>6, <2>2, ReachableSame
          DEF StartSweep, GraphInv, FreeCellsAreEmpty, NoDanglingReference, MarkInv, SweepInv
<1>7. CASE EndSweep
  BY <1>7, ReachableSame DEF EndSweep, GraphInv, FreeCellsAreEmpty, NoDanglingReference, MarkInv, SweepInv
<1>8. ASSUME NEW c \in Cells, Mark(c) PROVE G
  <2>1. Reachable' = Reachable /\ Stacks' = Stacks /\ edges' = edges /\ used' = used /\ stage = "mark" /\ stage' = "mark"
    BY <1>8, ReachableSame DEF Mark
  <2>2. /\ marked' = marked \cup {c}
        /\ worklist' = (worklist \ {c}) \cup (edges[c] \ marked')
        /\ c \in worklist
    BY <1>8 DEF Mark, Children
  <2>3. marked' \cup worklist' = marked \cup worklist \cup edges[c]
    BY <2>2
  <2>4. MarkInv'
    BY <1>r, <2>1, <2>2, <2>3 DEF MarkInv
  <2> QED BY <2>1, <2>4 DEF GraphInv, FreeCellsAreEmpty, NoDanglingReference, SweepInv
<1>9. ASSUME NEW c \in Cells, SweepDead(c) PROVE G
  <2>1. c \notin Reachable /\ stage = "sweep" /\ stage' = "sweep"
    BY <1>9 DEF SweepDead, Dead, SweepInv
  <2>2. \A d \in Cells : edges'[d] = IF d = c THEN {} ELSE edges[d]
    BY <1>9 DEF SweepDead, TypeOK
  <2>3. Reachable' \subseteq Reachable
    <3>1. Stacks' = Stacks
      BY <1>9 DEF SweepDead, Stacks
    <3> QED BY <3>1, <2>2, <1>r, ReachableWithin
  <2> QED BY <1>9, <2>1, <2>2, <2>3
          DEF SweepDead, GraphInv, FreeCellsAreEmpty, NoDanglingReference, MarkInv, SweepInv
<1>10. ASSUME NEW c \in Cells, SweepLive(c) PROVE G
  BY <1>10, ReachableSame
     DEF SweepLive, Unmarked, GraphInv, FreeCellsAreEmpty, NoDanglingReference, MarkInv, SweepInv
<1>11. ASSUME NEW a \in Threads, NEW c \in roots[a], NEW d \in edges[c], Load(a, c, d) PROVE G
  <2>1. d \in Reachable
    BY <1>s, <1>r
  <2>2. Stacks' \subseteq Stacks \cup {d}
    BY <1>11 DEF Load, Stacks, TypeOK
  <2> QED BY <1>11, <1>r, <2>1, <2>2, CodeGraph DEF Load, Running, FreeCellsAreEmpty
<1>12. ASSUME NEW a \in Threads, NEW c \in roots[a], NEW value \in SUBSET roots[a], Store(a, c, value)
       PROVE G
  <2>1. c \in Reachable /\ value \subseteq Reachable /\ c \in used
    BY <1>s, <1>r DEF NoDanglingReference
  <2>2. Stacks' = Stacks
    BY <1>12 DEF Store, Stacks
  <2>3. \A d \in Cells : edges'[d] = IF d = c THEN value ELSE edges[d]
    BY <1>12 DEF Store, TypeOK
  <2>4. \A d \in Reachable : edges'[d] \subseteq Reachable
    BY <2>1, <2>3, <1>r
  <2>5. FreeCellsAreEmpty' /\ used' = used
    BY <1>12, <2>1, <2>3 DEF Store, FreeCellsAreEmpty
  <2> QED BY <1>12, <1>r, <2>2, <2>4, <2>5, CodeGraph DEF Store, Running
<1>13. ASSUME NEW a \in Threads, NEW c \in roots[a], Drop(a, c) PROVE G
  <2>1. Stacks' \subseteq Stacks
    BY <1>13 DEF Drop, Stacks, TypeOK
  <2> QED BY <1>13, <1>r, <2>1, CodeGraph DEF Drop, Running, FreeCellsAreEmpty
<1>14. ASSUME NEW a \in Threads, NEW c \in roots[a], NEW b \in Threads, Give(a, b, c) PROVE G
  <2>1. Stacks' \subseteq Stacks
    BY <1>14 DEF Give, Stacks, TypeOK
  <2> QED BY <1>14, <1>r, <2>1, CodeGraph DEF Give, Running, FreeCellsAreEmpty
<1>15. ASSUME NEW c \in pinned, Unpin(c) PROVE G
  BY <1>15, ReachableSame DEF Unpin, GraphInv, FreeCellsAreEmpty, NoDanglingReference, MarkInv, SweepInv
<1> QED BY <1>1, <1>2, <1>3, <1>4, <1>5, <1>6, <1>7, <1>8, <1>9, <1>10, <1>11, <1>12, <1>13,
           <1>14, <1>15 DEF Next, Collector, Code

-------------------------------------------------------------------------------
(* Blocks.                                                                   *)

\* Allocating one cell of an added block keeps the lists within the added blocks.
LEMMA TakeCellBlocks ==
  ASSUME IInv, stage = "allocate",
         NEW b \in blocks', NEW c \in CellsOf(b), NEW stack \in Seq(blocks'), stack # <<>>,
         TakeCell(c, stack), blocks \subseteq blocks'
  PROVE BlockInv'
<1>1. Front(stack) \in Seq(blocks')
  BY DEF Front
<1>2. freeBlocks' \in Seq(blocks')
  BY <1>1 DEF TakeCell
<1>3. BlockOf(c) = b
  BY DEF CellsOf, BlockOf
<1>4. todo' = {}
  BY DEF TakeCell, gcVars, IInv, TypeOK
<1> QED BY <1>2, <1>3, <1>4 DEF IInv, BlockInv, TakeCell

\* Every step keeps the lists within the added blocks.
LEMMA BlockStep == ASSUME IInv, Next PROVE BlockInv'
<1> USE DEF IInv, blockVars, objectVars, gcVars, ownerVars
<1>1. ASSUME NEW a \in Threads, BeginAllocate(a) PROVE BlockInv'
  <2>1. CASE blocks = {}
    <3>1. PICK S \in SUBSET Blocks : /\ Cardinality(S) = InitialBlocks
                                     /\ blocks' = S /\ freeBlocks' \in SetToSeqs(S)
      BY <1>1, <2>1 DEF BeginAllocate, HaveBlocks
    <3>2. freeBlocks' \in [1..Cardinality(S) -> S] /\ Cardinality(S) \in Nat
      BY <3>1, HeapAssumption DEF SetToSeqs
    <3>3. freeBlocks' \in Seq(S)
      BY <3>2
    <3>4. used' = {} /\ todo' = todo
      BY <1>1, <2>1 DEF BeginAllocate, BlockInv
    <3>5. todo = {}
      BY <2>1 DEF BlockInv
    <3> QED BY <3>1, <3>3, <3>4, <3>5 DEF BlockInv
  <2>2. CASE blocks # {}
    BY <1>1, <2>2 DEF BeginAllocate, HaveBlocks, BlockInv
  <2> QED BY <2>1, <2>2
<1>2. CASE Allocate
  <2>1. freeBlocks \in Seq(blocks) /\ freeBlocks # <<>> /\ blocks' = blocks
    BY <1>2 DEF Allocate, BlockInv
  <2>2. Last(freeBlocks) \in blocks
    BY <2>1 DEF Last
  <2>3. PICK c \in CellsOf(Last(freeBlocks)) : TakeCell(c, freeBlocks)
    BY <1>2 DEF Allocate
  <2> QED BY <1>2, <2>1, <2>2, <2>3, TakeCellBlocks DEF Allocate
<1>3. CASE AllocateInNewBlock
  <2>1. PICK b \in Blocks : /\ blocks' = blocks \cup {b}
                            /\ \E c \in CellsOf(b) : TakeCell(c, <<b>>)
    BY <1>3 DEF AllocateInNewBlock
  <2>2. PICK c \in CellsOf(b) : TakeCell(c, <<b>>)
    BY <2>1
  <2>3. <<b>> \in Seq(blocks') /\ <<b>> # <<>> /\ b \in blocks'
    BY <2>1
  <2> QED BY <1>3, <2>1, <2>2, <2>3, TakeCellBlocks DEF AllocateInNewBlock
<1>4. CASE Start
  BY <1>4 DEF Start, BlockInv
<1>5. CASE StartMark
  BY <1>5 DEF StartMark, BlockInv
<1>6. CASE StartSweep
  BY <1>6 DEF StartSweep, BlockInv
<1>7. CASE EndSweep
  BY <1>7 DEF EndSweep, BlockInv
<1>8. ASSUME NEW c \in Cells, Mark(c) PROVE BlockInv'
  BY <1>8 DEF Mark, BlockInv
<1>9. ASSUME NEW c \in Cells, SweepDead(c) PROVE BlockInv'
  <2>1. BlockOf(c) \in blocks /\ blocks' = blocks
    BY <1>9 DEF SweepDead, BlockInv
  <2>2. freeBlocks' \in Seq(blocks)
    BY <1>9, <2>1 DEF SweepDead, WithFree, BlockInv
  <2> QED BY <1>9, <2>1, <2>2 DEF SweepDead, BlockInv
<1>10. ASSUME NEW c \in Cells, SweepLive(c) PROVE BlockInv'
  BY <1>10 DEF SweepLive, BlockInv
<1>11. CASE Code
  BY <1>11 DEF Code, Load, Store, Drop, Give, Unpin, BlockInv
<1> QED BY <1>1, <1>2, <1>3, <1>4, <1>5, <1>6, <1>7, <1>8, <1>9, <1>10, <1>11 DEF Next, Collector

-------------------------------------------------------------------------------
(* The theorems.                                                             *)

\* The heap starts empty.
LEMMA InitStep == ASSUME Init PROVE IInv
<1>1. TypeOK /\ BlockInv
  <2>1. <<>> \in Seq(Blocks) /\ <<>> \in Seq({})
    OBVIOUS
  <2>2. 0 \in 0..CheckEvery
    BY HeapAssumption
  <2>3. edges \in [Cells -> SUBSET Cells] /\ roots \in [Threads -> SUBSET Cells]
    BY DEF Init
  <2>4. TypeOK
    <3>1. allocating \in BOOLEAN /\ stage = "idle" /\ lock = Nobody
      BY DEF Init
    <3>2. freeBlocks \in Seq(Blocks) /\ sinceCheck \in 0..CheckEvery /\ heapFree \in Int
      BY <2>1, <2>2 DEF Init
    <3>3. /\ blocks = {} /\ used = {} /\ pinned = {}
          /\ marked = {} /\ worklist = {} /\ todo = {}
      BY DEF Init
    <3> QED BY <2>3, <3>1, <3>2, <3>3 DEF TypeOK
  <2>5. BlockInv
    BY <2>1 DEF Init, BlockInv
  <2> QED BY <2>4, <2>5
<1>2. Stacks = {} /\ ClosedUnder(edges, {})
  BY DEF Init, Stacks, ClosedUnder
<1>3. Reachable = {}
  BY <1>2, ReachIsLeast DEF Reachable
<1> QED BY <1>1, <1>3 DEF Init, IInv, FreeCellsAreEmpty, NoDanglingReference, MarkInv, SweepInv

\* A step that changes nothing keeps everything.
LEMMA StutterStep == ASSUME IInv, UNCHANGED vars PROVE IInv'
<1>1. Reachable' = Reachable /\ Stacks' = Stacks
  BY ReachableSame DEF vars
<1> QED BY <1>1 DEF IInv, TypeOK, BlockInv, FreeCellsAreEmpty, NoDanglingReference, MarkInv, SweepInv,
                    vars, blockVars, objectVars, gcVars, ownerVars

\* The inductive invariant holds of the heap in every reachable state.
THEOREM Invariance == Spec => []IInv
<1>1. IInv /\ [Next]_vars => IInv'
  <2>1. ASSUME IInv, Next PROVE IInv'
    BY <2>1, TypeStep, BlockStep, GraphStep DEF IInv, GraphInv
  <2> QED BY <2>1, StutterStep
<1> QED BY <1>1, InitStep, PTL DEF Spec

\* The variables of the allocator and of the collector stay well-formed.
THEOREM TypeCorrect == Spec => []TypeOK
<1>1. IInv => TypeOK
  BY DEF IInv
<1> QED BY <1>1, Invariance, PTL

\* No cell is freed that a thread can still get at, through any chain of references.
THEOREM NoDangling == Spec => []NoDanglingReference
<1>1. IInv => NoDanglingReference
  BY DEF IInv
<1> QED BY <1>1, Invariance, PTL

\* The collector marks the cells in reach, no fewer and no more.
THEOREM MarksAreExact == Spec => MarksWhatIsReachable
<1>1. IInv /\ [Next]_vars => [stage = "mark" /\ stage' = "sweep" => marked = Reachable]_vars
  <2> SUFFICES ASSUME IInv, Next, stage = "mark", stage' = "sweep" PROVE marked = Reachable
    OBVIOUS
  <2>1. StartSweep
    BY DEF Next, BeginAllocate, Allocate, AllocateInNewBlock, TakeCell, Start, Collector, StartMark,
           EndSweep, Mark, SweepDead, SweepLive, Code, Load, Store, Drop, Give, Unpin, ownerVars
  <2>2. /\ Stacks \subseteq marked /\ marked \subseteq Reachable
        /\ \A c \in marked : edges[c] \subseteq marked
        /\ marked \in SUBSET Cells
    BY <2>1 DEF StartSweep, IInv, MarkInv, TypeOK
  <2>3. ClosedUnder(edges, marked)
    BY <2>2 DEF ClosedUnder
  <2>4. Reachable \subseteq marked
    BY <2>2, <2>3, ReachIsLeast DEF Reachable
  <2> QED BY <2>2, <2>4
<1> QED BY <1>1, Invariance, PTL DEF Spec, MarksWhatIsReachable

-------------------------------------------------------------------------------
(* The free lists: a stack of blocks without repetitions whose range is the   *)
(* set of blocks with free cells, and a counter of the free cells.            *)

Partial(bs, us) == {b \in bs : ~ CellsOf(b) \subseteq us}

\* Pushing a block that is not on the stack.
LEMMA PushBlock ==
  ASSUME NEW s \in Seq(Blocks), NEW b \in Blocks, IsInjective(s), b \notin Range(s)
  PROVE  IsInjective(Append(s, b)) /\ Range(Append(s, b)) = Range(s) \cup {b}
<1> DEFINE p == Append(s, b)
<1>1. Len(p) = Len(s) + 1 /\ p[Len(s) + 1] = b /\ \A i \in 1..Len(s) : p[i] = s[i]
  OBVIOUS
<1>2. DOMAIN s = 1..Len(s) /\ DOMAIN p = 1..(Len(s) + 1) /\ Len(s) \in Nat
  OBVIOUS
<1>3. IsInjective(p)
  <2> SUFFICES ASSUME NEW i \in 1..(Len(s) + 1), NEW j \in 1..(Len(s) + 1), p[i] = p[j]
               PROVE  i = j
    BY <1>2, Zenon DEF IsInjective
  <2>1. CASE i \in 1..Len(s) /\ j \in 1..Len(s)
    BY <2>1, <1>1, <1>2 DEF IsInjective
  <2>2. CASE i = Len(s) + 1 /\ j \in 1..Len(s)
    BY <2>2, <1>1, <1>2 DEF Range
  <2>3. CASE j = Len(s) + 1 /\ i \in 1..Len(s)
    BY <2>3, <1>1, <1>2 DEF Range
  <2> QED BY <1>2, <2>1, <2>2, <2>3
<1>4. Range(p) = Range(s) \cup {b}
  <2>1. ASSUME NEW x \in Range(p) PROVE x \in Range(s) \cup {b}
    <3>1. PICK i \in 1..(Len(s) + 1) : x = p[i]
      BY <1>2, <2>1 DEF Range
    <3> QED BY <3>1, <1>1, <1>2 DEF Range
  <2>2. ASSUME NEW x \in Range(s) PROVE x \in Range(p)
    <3>1. PICK i \in 1..Len(s) : x = s[i]
      BY <1>2, <2>2 DEF Range
    <3>2. x = p[i] /\ i \in 1..(Len(s) + 1)
      BY <3>1, <1>1, <1>2
    <3> QED BY <3>2, <1>2 DEF Range
  <2>3. b \in Range(p)
    BY <1>1, <1>2 DEF Range
  <2> QED BY <2>1, <2>2, <2>3
<1> QED BY <1>3, <1>4

\* Popping the last block.
LEMMA PopBlock ==
  ASSUME NEW s \in Seq(Blocks), s # <<>>, IsInjective(s)
  PROVE  IsInjective(Front(s)) /\ Range(Front(s)) = Range(s) \ {Last(s)}
<1> DEFINE q == Front(s)
<1>1. DOMAIN s = 1..Len(s) /\ Len(s) \in Nat \ {0}
  OBVIOUS
<1>2. /\ DOMAIN q = 1..(Len(s) - 1)
      /\ \A i \in 1..(Len(s) - 1) : q[i] = s[i]
  BY <1>1 DEF Front
<1>3. IsInjective(q)
  BY <1>1, <1>2 DEF IsInjective
<1>n. /\ \A n \in Nat \ {0} : n \in 1..n /\ \A i \in 1..(n - 1) : i \in 1..n /\ i # n
      /\ \A n \in Nat \ {0} : \A i \in 1..n : i # n => i \in 1..(n - 1)
  OBVIOUS
<1>4. ASSUME NEW x \in Range(q) PROVE x \in Range(s) \ {Last(s)}
  <2>1. PICK i \in 1..(Len(s) - 1) : x = q[i]
    BY <1>2, <1>4 DEF Range
  <2>2. i \in 1..Len(s) /\ Len(s) \in 1..Len(s) /\ i # Len(s)
    BY <2>1, <1>1, <1>n
  <2>3. x = s[i]
    BY <2>1, <1>2
  <2> QED BY <1>1, <2>2, <2>3 DEF Range, Last, IsInjective
<1>5. ASSUME NEW x \in Range(s) \ {Last(s)} PROVE x \in Range(q)
  <2>1. PICK i \in 1..Len(s) : x = s[i]
    BY <1>1, <1>5 DEF Range
  <2>2. i # Len(s)
    BY <2>1, <1>5 DEF Last
  <2>3. i \in 1..(Len(s) - 1)
    BY <2>1, <2>2, <1>1, <1>n
  <2>4. x = q[i]
    BY <2>1, <2>3, <1>2
  <2> QED BY <2>3, <2>4, <1>2 DEF Range
<1> QED BY <1>3, <1>4, <1>5

\* An order of the initial blocks is a stack of all of them.
LEMMA OrderOfBlocks ==
  ASSUME NEW S \in SUBSET Blocks, NEW s \in SetToSeqs(S)
  PROVE  IsInjective(s) /\ Range(s) = S
<1> DEFINE D == 1..Cardinality(S)
<1>1. IsFiniteSet(S) /\ Cardinality(S) \in Nat
  BY HeapAssumption, FS_Subset, FS_CardinalityType
<1>2. s \in [D -> S] /\ \A i, j \in D : i # j => s[i] # s[j]
  BY DEF SetToSeqs
<1>3. IsInjective(s)
  BY <1>2 DEF IsInjective
<1>4. s \in Injection(D, S)
  BY <1>2, <1>3 DEF Injection, IsInjective
<1>5. Cardinality(D) = Cardinality(S)
  BY <1>1, FS_Interval
<1>6. s \in Surjection(D, S)
  BY <1>1, <1>4, <1>5, FS_Injection
<1>7. Range(s) = S
  BY <1>2, <1>6 DEF Surjection, Range
<1> QED BY <1>3, <1>7

\* Using or freeing a cell changes whether its own block is full, and no other's.
LEMMA OtherBlocks ==
  ASSUME NEW b, NEW c \in CellsOf(b), NEW d, d # b, NEW us
  PROVE  /\ CellsOf(d) \subseteq us \cup {c} <=> CellsOf(d) \subseteq us
         /\ CellsOf(d) \subseteq us \ {c} <=> CellsOf(d) \subseteq us
<1>1. c \notin CellsOf(d)
  BY DEF CellsOf
<1> QED BY <1>1

\* The sets the counter counts are finite.
LEMMA Finite ==
  ASSUME TypeOK
  PROVE  /\ IsFiniteSet(used) /\ Cardinality(used) \in Nat
         /\ IsFiniteSet(blocks) /\ Cardinality(blocks) \in Nat
         /\ CellsPerBlock \in Nat
<1>1. IsFiniteSet(Cells)
  BY HeapAssumption, FS_Product DEF Cells
<1>2. used \in SUBSET Cells /\ blocks \in SUBSET Blocks
  BY DEF TypeOK
<1> QED BY <1>1, <1>2, HeapAssumption, FS_Subset, FS_CardinalityType DEF CellsPerBlock

\* A cell is taken from a block of the stack: the block leaves it when it is full.
LEMMA TakeCellLists ==
  ASSUME TypeOK, NEW b \in Blocks, NEW c \in CellsOf(b), NEW bs, b \in bs,
         NEW stack \in Seq(Blocks), stack # <<>>, Last(stack) = b,
         IsInjective(stack), Range(stack) = Partial(bs, used), TakeCell(c, stack)
  PROVE  IsInjective(freeBlocks') /\ Range(freeBlocks') = Partial(bs, used')
<1>1. used' = used \cup {c} /\ BlockOf(c) = b
  BY DEF TakeCell, BlockOf, CellsOf
<1>2. ASSUME NEW d \in bs \ {b}
      PROVE  CellsOf(d) \subseteq used' <=> CellsOf(d) \subseteq used
  <2>1. CellsOf(d) \subseteq used \cup {c} <=> CellsOf(d) \subseteq used
    BY OtherBlocks
  <2> QED BY <1>1, <2>1
<1>3. b \in Range(stack)
  <2>1. Len(stack) \in DOMAIN stack
    OBVIOUS
  <2> QED BY <2>1 DEF Range, Last
<1>4. ~ CellsOf(b) \subseteq used
  BY <1>3 DEF Partial
<1>5. CASE CellsOf(b) \subseteq used'
  <2>1. freeBlocks' = Front(stack)
    BY <1>1, <1>5 DEF TakeCell
  <2>2. Partial(bs, used') = Partial(bs, used) \ {b}
    BY <1>2, <1>5 DEF Partial
  <2> QED BY <2>1, <2>2, PopBlock
<1>6. CASE ~ CellsOf(b) \subseteq used'
  <2>1. freeBlocks' = stack
    BY <1>1, <1>6 DEF TakeCell
  <2>2. Partial(bs, used') = Partial(bs, used)
    BY <1>2, <1>4, <1>6 DEF Partial
  <2> QED BY <2>1, <2>2
<1> QED BY <1>5, <1>6

\* Allocation, the new block it may add, and the sweep keep list and counter true.
LEMMA ListsStep == ASSUME IInv, TypeOK', FreeListsAgree, Next PROVE FreeListsAgree'
<1> USE DEF blockVars, objectVars, gcVars, ownerVars
<1>t. TypeOK /\ BlockInv
  BY DEF IInv
<1>f. /\ IsFiniteSet(used) /\ Cardinality(used) \in Nat
      /\ IsFiniteSet(blocks) /\ Cardinality(blocks) \in Nat
      /\ CellsPerBlock \in Nat /\ heapFree \in Int
  BY <1>t, Finite DEF TypeOK
<1>l. /\ heapFree = TotalCells - Cardinality(used)
      /\ IsInjective(freeBlocks) /\ Range(freeBlocks) = Partial(blocks, used)
  BY DEF FreeListsAgree, Partial
<1>q. ASSUME UNCHANGED <<blocks, freeBlocks, used, heapFree>> PROVE FreeListsAgree'
  BY <1>q DEF FreeListsAgree, TotalCells
<1>1. ASSUME NEW a \in Threads, BeginAllocate(a) PROVE FreeListsAgree'
  <2>1. CASE blocks # {}
    BY <1>1, <2>1, <1>q DEF BeginAllocate, HaveBlocks
  <2>2. CASE blocks = {}
    <3>1. PICK S \in SUBSET Blocks : /\ Cardinality(S) = InitialBlocks
                                     /\ blocks' = S /\ freeBlocks' \in SetToSeqs(S)
      BY <1>1, <2>2 DEF BeginAllocate, HaveBlocks
    <3>2. used = {} /\ used' = {} /\ heapFree' = InitialBlocks * CellsPerBlock
      BY <1>1, <1>t, <2>2 DEF BeginAllocate, HaveBlocks, BlockInv
    <3>3. \A b \in S : ~ CellsOf(b) \subseteq {}
      <4>1. PICK slot : slot \in Slots
        BY HeapAssumption, FS_EmptySet
      <4>2. \A b \in S : <<b, slot>> \in CellsOf(b)
        BY <4>1 DEF CellsOf
      <4> QED BY <4>2
    <3>4. Cardinality(used') = 0
      BY <3>2, FS_EmptySet
    <3>5. IsInjective(freeBlocks') /\ Range(freeBlocks') = S
      BY <3>1, OrderOfBlocks
    <3>6. heapFree' = TotalCells' - Cardinality(used')
      BY <3>1, <3>2, <3>4, <1>f, HeapAssumption DEF TotalCells, CellsPerBlock
    <3>7. S = {b \in blocks' : ~ CellsOf(b) \subseteq used'}
      BY <3>1, <3>2, <3>3
    <3> QED BY <3>5, <3>6, <3>7 DEF FreeListsAgree
  <2> QED BY <2>1, <2>2
<1>2. CASE Allocate
  <2>1. freeBlocks \in Seq(Blocks) /\ freeBlocks # <<>> /\ blocks' = blocks
    BY <1>2, <1>t DEF Allocate, TypeOK
  <2>2. Last(freeBlocks) \in Blocks /\ Last(freeBlocks) \in blocks
    BY <2>1, <1>t DEF Last, BlockInv
  <2>3. PICK c \in CellsOf(Last(freeBlocks)) : c \notin used /\ TakeCell(c, freeBlocks)
    BY <1>2 DEF Allocate
  <2>4. IsInjective(freeBlocks') /\ Range(freeBlocks') = Partial(blocks, used')
    BY <2>1, <2>2, <2>3, <1>l, <1>t, TakeCellLists
  <2>5. Cardinality(used') = Cardinality(used) + 1
    BY <2>3, <1>f, FS_AddElement DEF TakeCell
  <2>6. heapFree' = TotalCells' - Cardinality(used')
    <3>1. heapFree' = heapFree - 1 /\ TotalCells' = TotalCells /\ TotalCells \in Nat
      BY <1>2, <2>1, <1>f DEF Allocate, TotalCells, CellsPerBlock
    <3> QED BY <3>1, <2>5, <1>f, <1>l
  <2> QED BY <2>1, <2>4, <2>6 DEF FreeListsAgree, Partial
<1>3. CASE AllocateInNewBlock
  <2>1. PICK b \in Blocks \ blocks : /\ blocks' = blocks \cup {b}
                                     /\ \E c \in CellsOf(b) : TakeCell(c, <<b>>)
    BY <1>3 DEF AllocateInNewBlock
  <2>2. PICK c \in CellsOf(b) : TakeCell(c, <<b>>)
    BY <2>1
  <2>3. c \notin used /\ BlockOf(c) = b
    BY <2>1, <2>2, <1>t DEF BlockInv, BlockOf, CellsOf
  <2>4. freeBlocks = <<>> /\ Range(freeBlocks) = {}
    BY <1>3 DEF AllocateInNewBlock, Range
  <2>5. ~ CellsOf(b) \subseteq used
    BY <2>2, <2>3
  <2>6. Partial(blocks \cup {b}, used) = {b}
    BY <2>4, <2>5, <1>l DEF Partial
  <2>7. IsInjective(<<b>>) /\ Range(<<b>>) = {b} /\ <<b>> \in Seq(Blocks) /\ <<b>> # <<>>
        /\ Last(<<b>>) = b
    BY DEF IsInjective, Range, Last
  <2>8. IsInjective(freeBlocks') /\ Range(freeBlocks') = Partial(blocks', used')
    BY <2>1, <2>2, <2>6, <2>7, <1>t, TakeCellLists
  <2>9. Cardinality(used') = Cardinality(used) + 1 /\ Cardinality(blocks') = Cardinality(blocks) + 1
    BY <2>1, <2>2, <2>3, <1>f, FS_AddElement DEF TakeCell
  <2>10. heapFree' = TotalCells' - Cardinality(used')
    <3>1. heapFree' = heapFree + CellsPerBlock - 1
      BY <1>3 DEF AllocateInNewBlock
    <3>2. TotalCells' = TotalCells + CellsPerBlock /\ TotalCells \in Nat
      BY <2>9, <1>f DEF TotalCells, CellsPerBlock
    <3> QED BY <3>1, <3>2, <2>9, <1>f, <1>l
  <2> QED BY <2>8, <2>10 DEF FreeListsAgree, Partial
<1>4. ASSUME NEW c \in Cells, SweepDead(c) PROVE FreeListsAgree'
  <2>1. /\ c \in used /\ used' = used \ {c} /\ heapFree' = heapFree + 1 /\ blocks' = blocks
        /\ freeBlocks' = WithFree(BlockOf(c))
    BY <1>4, <1>t DEF SweepDead, BlockInv
  <2> DEFINE b == BlockOf(c)
  <2>2. b \in blocks /\ b \in Blocks /\ c \in CellsOf(b)
    BY <2>1, <1>t DEF BlockInv, BlockOf, CellsOf, Cells
  <2>3. \A d \in blocks \ {b} : CellsOf(d) \subseteq used' <=> CellsOf(d) \subseteq used
    BY <2>1, <2>2, OtherBlocks
  <2>4. ~ CellsOf(b) \subseteq used'
    BY <2>1, <2>2
  <2>5. Partial(blocks, used') = Partial(blocks, used) \cup {b}
    BY <2>2, <2>3, <2>4 DEF Partial
  <2>6. IsInjective(freeBlocks') /\ Range(freeBlocks') = Partial(blocks, used')
    <3>1. CASE CellsOf(b) \subseteq used
      <4>1. freeBlocks' = Append(freeBlocks, b) /\ b \notin Range(freeBlocks)
        BY <3>1, <2>1, <1>l DEF WithFree, Partial
      <4> QED BY <4>1, <2>2, <2>5, <1>l, <1>t, PushBlock DEF TypeOK
    <3>2. CASE ~ CellsOf(b) \subseteq used
      <4>1. freeBlocks' = freeBlocks /\ b \in Partial(blocks, used)
        BY <3>2, <2>1, <2>2 DEF WithFree, Partial
      <4> QED BY <4>1, <2>5, <1>l
    <3> QED BY <3>1, <3>2
  <2>7. Cardinality(used') = Cardinality(used) - 1
    BY <2>1, <1>f, FS_RemoveElement
  <2>8. heapFree' = TotalCells' - Cardinality(used')
    <3>1. TotalCells' = TotalCells /\ TotalCells \in Nat
      BY <2>1, <1>f DEF TotalCells, CellsPerBlock
    <3> QED BY <3>1, <2>1, <2>7, <1>f, <1>l
  <2> QED BY <2>1, <2>6, <2>8 DEF FreeListsAgree, Partial
<1>5. CASE Start \/ StartMark \/ StartSweep \/ EndSweep \/ Code
  BY <1>5, <1>q DEF Start, StartMark, StartSweep, EndSweep, Code, Load, Store, Drop, Give, Unpin
<1>6. ASSUME NEW c \in Cells, Mark(c) \/ SweepLive(c) PROVE FreeListsAgree'
  BY <1>6, <1>q DEF Mark, SweepLive
<1> QED BY <1>1, <1>2, <1>3, <1>4, <1>5, <1>6 DEF Next, Collector

\* The counter the collector goes by is right, and every block with a free cell can be
\* allocated from and is listed once, however allocations and sweeps alternate.
THEOREM FreeListsAreTrue == Spec => []FreeListsAgree
<1>1. Init => FreeListsAgree
  <2> SUFFICES ASSUME Init PROVE FreeListsAgree
    OBVIOUS
  <2>1. blocks = {} /\ freeBlocks = <<>> /\ used = {} /\ heapFree = 0
    BY DEF Init
  <2>2. TotalCells = 0 /\ Cardinality(used) = 0
    BY <2>1, FS_EmptySet, FS_CardinalityType, HeapAssumption DEF TotalCells, CellsPerBlock
  <2>3. IsInjective(freeBlocks) /\ Range(freeBlocks) = {}
    BY <2>1 DEF IsInjective, Range
  <2> QED BY <2>1, <2>2, <2>3 DEF FreeListsAgree
<1>2. IInv /\ IInv' /\ FreeListsAgree /\ [Next]_vars => FreeListsAgree'
  <2>1. ASSUME UNCHANGED vars, FreeListsAgree PROVE FreeListsAgree'
    BY <2>1 DEF vars, blockVars, FreeListsAgree, TotalCells
  <2> QED BY <2>1, ListsStep DEF IInv
<1> QED BY <1>1, <1>2, Invariance, PTL DEF Spec

-------------------------------------------------------------------------------
(* The list of a hash and the loops over it, in any state of theirs.         *)

In(tab) == {tab[k] : k \in Keys} \ {Null}
InUse(ky) == {n \in Nodes : ky[n] # Null}
Links == [Nodes -> Nodes \cup {Null}]

\* The list is a ring of the nodes in: links lead from node to node and back, and
\* those that lead from the first one lead to all.
IsRing(in, first, nx, pv, gone) ==
  /\ first \in in \cup {Null} /\ (first = Null <=> in = {})
  /\ \A n \in in : /\ n \notin gone
                   /\ nx[n] \in in /\ pv[n] \in in
                   /\ pv[nx[n]] = n /\ nx[pv[n]] = n
  /\ \A T \in SUBSET in : first \in T /\ (\A n \in T : nx[n] \in T) => T = in

\* A loop at n has before it no more than W.
Ends(n, first, nx, gone) == nx[n] = Null \/ (n \notin gone /\ nx[n] = first)
Ahead(n, W, first, nx, gone) == \A m \in W \cup {n} : Ends(m, first, nx, gone) \/ nx[m] \in W

\* A loop whose list was not dropped walks over nodes of the list and removed ones only;
\* what it owes a call is before it, whichever way it is bounded; and some bound on what
\* is before it has none that it was called for.
IsWalk(loop, in, first, nx, gone) ==
  /\ \E C \in SUBSET (in \cup gone) : loop.at \in C /\ Closed(C, nx)
  /\ \A W \in SUBSET Nodes : Ahead(loop.at, W, first, nx, gone) => loop.owed \subseteq W
  /\ \E W \in SUBSET (in \cup gone) : Ahead(loop.at, W, first, nx, gone) /\ W \cap loop.seen = {}
IsLoop(loop, in, first, nx, gone) ==
  /\ loop.seen \subseteq in /\ loop.owed \subseteq in
  /\ loop.cut => loop.seen = {}
  /\ IF loop.dropped THEN loop.seen = {} /\ loop.owed = {} ELSE IsWalk(loop, in, first, nx, gone)

Typed(tab, first, nx, pv, ky, gone, ls) ==
  /\ tab \in [Keys -> Nodes \cup {Null}] /\ first \in Nodes \cup {Null}
  /\ \A k \in Keys : tab[k] # Null => ky[tab[k]] = k
  /\ nx \in Links /\ pv \in Links /\ ky \in [Nodes -> Keys \cup {Null}]
  /\ gone \subseteq Nodes /\ ls \in Seq(Loop) /\ Len(ls) <= MaxLoops
IsHash(tab, first, nx, pv, ky, gone, ls) ==
  /\ Typed(tab, first, nx, pv, ky, gone, ls)
  /\ IsRing(In(tab), first, nx, pv, gone)
  /\ gone \subseteq InUse(ky) /\ Closed(InUse(ky), nx)
  /\ \A i \in DOMAIN ls : ls[i].at \in InUse(ky) /\ IsLoop(ls[i], In(tab), first, nx, gone)

\* The inductive invariant: so it is at all times, and unused nodes lead nowhere.
HashInv == /\ IsHash(table, m_key_list, next, prev, key, removed, loops)
           /\ \A n \in Nodes \ InUse(key) : next[n] = Null
           /\ m_is_iterating \in BOOLEAN /\ FlagMeansEach

-------------------------------------------------------------------------------
(* The collection at the end of a step takes nothing the hash or a loop has.  *)

\* What a set leads to has the set and is not left, and is in every such set.
LEMMA FollowingFacts ==
  ASSUME NEW S \in SUBSET Nodes, NEW nx \in Links
  PROVE  /\ S \subseteq Following(S, nx) /\ Following(S, nx) \subseteq Nodes
         /\ Closed(Following(S, nx), nx)
         /\ \A T \in SUBSET Nodes : S \subseteq T /\ Closed(T, nx) => Following(S, nx) \subseteq T
<1>1. /\ S \subseteq Following(S, nx) /\ Following(S, nx) \subseteq Nodes
      /\ \A T \in SUBSET Nodes : S \subseteq T /\ Closed(T, nx) => Following(S, nx) \subseteq T
  BY DEF Following
<1>2. ASSUME NEW n \in Following(S, nx), nx[n] # Null PROVE nx[n] \in Following(S, nx)
  <2>1. nx[n] \in Nodes
    BY <1>1, <1>2 DEF Links
  <2>2. ASSUME NEW T \in SUBSET Nodes, S \subseteq T, Closed(T, nx) PROVE nx[n] \in T
    <3>1. n \in T
      BY <1>1, <2>2
    <3> QED BY <3>1, <1>2, <2>2 DEF Closed
  <2> QED BY <2>1, <2>2 DEF Following
<1> QED BY <1>1, <1>2 DEF Closed

\* A ring is one still when the links of nodes that are not on it are forgotten.
LEMMA RingCollected ==
  ASSUME NEW in \in SUBSET Nodes, NEW first, NEW nx, NEW pv, NEW gone,
         NEW live \in SUBSET Nodes, in \subseteq live, IsRing(in, first, nx, pv, gone)
  PROVE  IsRing(in, first, Only(nx, live), Only(pv, in), gone \cap live)
<1> DEFINE nl == Only(nx, live)
           pl == Only(pv, in)
<1>1. \A n \in in : nl[n] = nx[n] /\ pl[n] = pv[n]
  BY DEF Only
<1> HIDE DEF nl, pl
<1>2. IsRing(in, first, nl, pl, gone \cap live)
  <2>1. \A n \in in : /\ n \notin gone \cap live
                      /\ nl[n] \in in /\ pl[n] \in in
                      /\ pl[nl[n]] = n /\ nl[pl[n]] = n
    BY <1>1 DEF IsRing
  <2>2. ASSUME NEW T \in SUBSET in, first \in T, \A n \in T : nl[n] \in T PROVE T = in
    BY <1>1, <2>2 DEF IsRing
  <2> QED BY <2>1, <2>2 DEF IsRing
<1> QED BY <1>2 DEF nl, pl

\* So is a loop, which stands in a set that is not left.
LEMMA LoopCollected ==
  ASSUME NEW in, NEW first, NEW nx, NEW gone, NEW live \in SUBSET Nodes, NEW loop,
         in \subseteq live, Closed(live, nx), loop.at \in live, Null \notin Nodes,
         IsLoop(loop, in, first, nx, gone)
  PROVE  IsLoop(loop, in, first, Only(nx, live), gone \cap live)
<1> DEFINE nl == Only(nx, live)
           gl == gone \cap live
<1>1. \A n \in live : nl[n] = nx[n] /\ (n \in gl <=> n \in gone)
  BY DEF Only
<1> HIDE DEF nl, gl
<1>2. SUFFICES ASSUME ~loop.dropped, IsWalk(loop, in, first, nx, gone)
               PROVE  IsWalk(loop, in, first, nl, gl)
  BY DEF IsLoop, nl, gl
<1>3. \A S \in SUBSET (in \cup gone) : S \cap live \in SUBSET (in \cup gl)
  BY DEF gl
<1>4. \A n \in live : nx[n] = Null \/ nx[n] \in live
  BY DEF Closed
<1>5. \E C \in SUBSET (in \cup gl) : loop.at \in C /\ Closed(C, nl)
  <2>1. PICK C \in SUBSET (in \cup gone) : loop.at \in C /\ Closed(C, nx)
    BY <1>2 DEF IsWalk
  <2>2. Closed(C \cap live, nl)
    BY <1>1, <1>4, <2>1 DEF Closed
  <2> QED BY <1>3, <2>1, <2>2
<1>6. ASSUME NEW W \in SUBSET Nodes, Ahead(loop.at, W, first, nl, gl) PROVE loop.owed \subseteq W
  <2>1. Ahead(loop.at, W \cap live, first, nx, gone)
    BY <1>1, <1>4, <1>6 DEF Ahead, Ends
  <2> QED BY <1>2, <2>1 DEF IsWalk
<1>7. \E W \in SUBSET (in \cup gl) : Ahead(loop.at, W, first, nl, gl) /\ W \cap loop.seen = {}
  <2>1. PICK W \in SUBSET (in \cup gone) :
          Ahead(loop.at, W, first, nx, gone) /\ W \cap loop.seen = {}
    BY <1>2 DEF IsWalk
  <2>2. Ahead(loop.at, W \cap live, first, nl, gl)
    BY <1>1, <1>4, <2>1 DEF Ahead, Ends
  <2> QED BY <1>3, <2>1, <2>2
<1> QED BY <1>5, <1>6, <1>7 DEF IsWalk

\* Whatever a hash and its loops become, they are one after the collection.
LEMMA Collected ==
  ASSUME NEW tab, NEW first, NEW nx, NEW pv, NEW ky, NEW gone, NEW ls,
         IsHash(tab, first, nx, pv, ky, gone, ls), Become(tab, first, nx, pv, ky, gone, ls)
  PROVE  /\ IsHash(table, m_key_list, next, prev, key, removed, loops)'
         /\ \A n \in Nodes \ InUse(key') : next'[n] = Null
         /\ InTable' = In(tab)
<1> DEFINE in == In(tab)
           live == Following(Roots(in, ls), nx)
<1>1. /\ Typed(tab, first, nx, pv, ky, gone, ls) /\ IsRing(in, first, nx, pv, gone)
      /\ gone \subseteq InUse(ky) /\ Closed(InUse(ky), nx) /\ InUse(ky) \subseteq Nodes
      /\ \A i \in DOMAIN ls : ls[i].at \in InUse(ky) /\ IsLoop(ls[i], in, first, nx, gone)
  BY DEF IsHash, InUse
<1>2. /\ table' = tab /\ m_key_list' = first /\ loops' = ls
      /\ next' = Only(nx, live) /\ key' = Only(ky, live) /\ removed' = gone \cap live
      /\ prev' = Only(pv, in) /\ InTable' = in /\ In(table') = in
  BY DEF Become, In, InTable
<1>3. in \subseteq InUse(ky)
  BY <1>1, HashAssumption DEF Typed, In, InUse
<1>4. Roots(in, ls) \in SUBSET Nodes /\ Roots(in, ls) \subseteq InUse(ky)
  BY <1>1, <1>3 DEF Roots, Visited
<1>5. /\ Roots(in, ls) \subseteq live /\ live \in SUBSET Nodes /\ Closed(live, nx)
      /\ live \subseteq InUse(ky)
  BY <1>1, <1>4, FollowingFacts DEF Typed
<1>6. in \subseteq live /\ \A i \in DOMAIN ls : ls[i].at \in live
  BY <1>5 DEF Roots, Visited
<1> HIDE DEF live, in
<1>7. InUse(key') = live
  BY <1>2, <1>5 DEF InUse, Only
<1>8. \A n \in live : next'[n] = nx[n] /\ key'[n] = ky[n]
  BY <1>2, <1>5 DEF Only
<1>9. \A n \in Nodes \ live : next'[n] = Null
  BY <1>2 DEF Only
<1>10. Typed(table, m_key_list, next, prev, key, removed, loops)'
  <2>1. next' \in Links /\ prev' \in Links /\ key' \in [Nodes -> Keys \cup {Null}]
    BY <1>1, <1>2 DEF Typed, Links, Only
  <2>2. \A k \in Keys : tab[k] # Null => key'[tab[k]] = k
    BY <1>1, <1>6, <1>8 DEF Typed, In, in
  <2> QED BY <1>1, <1>2, <1>5, <2>1, <2>2 DEF Typed
<1>11. IsRing(in, first, next', prev', removed')
  BY <1>1, <1>2, <1>5, <1>6, RingCollected
<1>12. Closed(live, next')
  BY <1>5, <1>8 DEF Closed
<1>13. ASSUME NEW i \in DOMAIN ls PROVE IsLoop(ls[i], in, first, next', removed')
  <2>1. IsLoop(ls[i], in, first, Only(nx, live), gone \cap live)
    BY <1>1, <1>5, <1>6, HashAssumption, LoopCollected
  <2> QED BY <1>2, <2>1
<1>14. removed' \subseteq live
  BY <1>2
<1> QED BY <1>2, <1>6, <1>7, <1>9, <1>10, <1>11, <1>12, <1>13, <1>14 DEF IsHash, in

-------------------------------------------------------------------------------
(* key_list_append                                                           *)

\* A node that was not in use is appended before the first one.
LEMMA RingAppended ==
  ASSUME NEW n \in Nodes, n \notin InTable, n \notin removed, n # Null, Null \notin Nodes,
         next \in Links, prev \in Links, InTable \subseteq Nodes,
         IsRing(InTable, m_key_list, next, prev, removed)
  PROVE  IsRing(InTable \cup {n}, IF m_key_list = Null THEN n ELSE m_key_list,
                Appended(n)[1], Appended(n)[2], removed)
<1> DEFINE in == InTable \cup {n}
           nx == Appended(n)[1]
           pv == Appended(n)[2]
<1>1. CASE m_key_list = Null
  <2>1. in = {n}
    BY <1>1 DEF IsRing
  <2>2. nx[n] = n /\ pv[n] = n
    BY <1>1 DEF Appended, LinkedToItself, Links
  <2> HIDE DEF nx, pv, in
  <2>3. IsRing(in, n, nx, pv, removed)
    BY <2>1, <2>2 DEF IsRing
  <2> QED BY <1>1, <2>3 DEF nx, pv, in
<1>2. CASE m_key_list # Null
  <2> DEFINE first == m_key_list
             last == prev[first]
  <2>1. first \in InTable /\ last \in InTable /\ next[last] = first
    BY <1>2 DEF IsRing
  <2>2. /\ nx = [next EXCEPT ![n] = first, ![last] = n]
        /\ pv = [prev EXCEPT ![n] = last, ![first] = n]
    BY <1>2 DEF Appended
  <2>3. /\ nx[n] = first /\ nx[last] = n /\ pv[n] = last /\ pv[first] = n
        /\ \A m \in InTable \ {last} : nx[m] = next[m]
        /\ \A m \in InTable \ {first} : pv[m] = prev[m]
    BY <2>1, <2>2 DEF Links
  <2> HIDE DEF nx, pv
  <2>4. ASSUME NEW m \in in
        PROVE  /\ m \notin removed /\ nx[m] \in in /\ pv[m] \in in
               /\ pv[nx[m]] = m /\ nx[pv[m]] = m
    <3>1. CASE m = n
      BY <2>1, <2>3, <3>1
    <3>2. CASE m \in InTable
      <4>1. /\ m \notin removed /\ next[m] \in InTable /\ prev[m] \in InTable
            /\ prev[next[m]] = m /\ next[prev[m]] = m
        BY <3>2 DEF IsRing
      <4>2. nx[m] \in in /\ pv[nx[m]] = m
        BY <2>1, <2>3, <3>2, <4>1
      <4>3. pv[m] \in in /\ nx[pv[m]] = m
        BY <2>1, <2>3, <3>2, <4>1
      <4> QED BY <4>1, <4>2, <4>3
    <3> QED BY <3>1, <3>2
  <2>5. ASSUME NEW T \in SUBSET in, first \in T, \A m \in T : nx[m] \in T PROVE T = in
    <3>1. \A m \in T \ {n} : next[m] \in T \ {n}
      BY <2>1, <2>3, <2>5 DEF IsRing
    <3>2. T \ {n} = InTable
      BY <2>1, <2>5, <3>1 DEF IsRing
    <3> QED BY <2>1, <2>3, <2>5, <3>2
  <2>6. IsRing(in, first, nx, pv, removed)
    BY <2>1, <2>4, <2>5 DEF IsRing
  <2> QED BY <1>2, <2>6 DEF nx, pv
<1> QED BY <1>1, <1>2

\* The loops have one more node before them, which none was called for.
LEMMA LoopAppended ==
  ASSUME NEW n \in Nodes, n \notin InTable, n \notin removed, Null \notin Nodes,
         next \in Links, prev \in Links, InTable \subseteq Nodes, removed \subseteq Nodes,
         \A m \in InTable \cup removed : next[m] # n,
         IsRing(InTable, m_key_list, next, prev, removed),
         NEW loop, loop.at \in Nodes, IsLoop(loop, InTable, m_key_list, next, removed)
  PROVE  IsLoop(loop, InTable \cup {n}, IF m_key_list = Null THEN n ELSE m_key_list,
                Appended(n)[1], removed)
<1> DEFINE in == InTable \cup {n}
           nx == Appended(n)[1]
           first == IF m_key_list = Null THEN n ELSE m_key_list
<1>1. SUFFICES ASSUME ~loop.dropped, IsWalk(loop, InTable, m_key_list, next, removed)
               PROVE  IsWalk(loop, in, first, nx, removed)
  BY DEF IsLoop
<1>2. PICK C \in SUBSET (InTable \cup removed) : loop.at \in C /\ Closed(C, next)
  BY <1>1 DEF IsWalk
<1>3. PICK W \in SUBSET (InTable \cup removed) :
        Ahead(loop.at, W, m_key_list, next, removed) /\ W \cap loop.seen = {}
  BY <1>1 DEF IsWalk
<1>seen. n \notin loop.seen
  BY DEF IsLoop
<1>4. CASE m_key_list = Null
  <2>1. InTable = {} /\ loop.seen = {} /\ loop.owed = {}
    BY <1>4 DEF IsRing, IsLoop
  <2>2. \A m \in removed : nx[m] = next[m]
    BY <1>4 DEF Appended, LinkedToItself
  <2>3. Closed(C, nx)
    BY <1>2, <2>1, <2>2 DEF Closed
  <2>4. Ahead(loop.at, C, first, nx, removed)
    BY <1>2, <2>3 DEF Closed, Ahead, Ends
  <2> QED BY <1>2, <2>1, <2>3, <2>4 DEF IsWalk
<1>5. CASE m_key_list # Null
  <2> DEFINE last == prev[first]
  <2>1. /\ first = m_key_list /\ first \in InTable /\ last \in InTable /\ next[last] = first
        /\ \A m \in InTable : next[m] = first => m = last
    BY <1>5 DEF IsRing
  <2>2. /\ nx[n] = first /\ nx[last] = n
        /\ \A m \in (InTable \cup removed) \ {last} : nx[m] = next[m]
    BY <1>5, <2>1 DEF Appended, Links
  <2>3. last \notin removed
    BY <2>1 DEF IsRing
  <2> HIDE DEF nx, last, first
  <2>4. Closed(InTable \cup C \cup {n}, nx) /\ loop.at \in InTable \cup C \cup {n}
    <3>1. \A m \in InTable : next[m] \in InTable
      BY DEF IsRing
    <3> QED BY <1>2, <2>1, <2>2, <3>1 DEF Closed
  <2>5. ASSUME NEW V \in SUBSET Nodes, Ahead(loop.at, V, first, nx, removed)
        PROVE  loop.owed \subseteq V
    <3>1. Ahead(loop.at, V \cap C, m_key_list, next, removed)
      <4>1. SUFFICES ASSUME NEW m \in (V \cap C) \cup {loop.at},
                            ~Ends(m, m_key_list, next, removed)
                     PROVE  next[m] \in V \cap C
        BY DEF Ahead
      <4>2. m # last
        BY <2>1, <2>3, <4>1 DEF Ends
      <4>3. m \in C /\ m \in InTable \cup removed /\ nx[m] = next[m] /\ next[m] \in C
        BY <1>2, <2>2, <4>1, <4>2 DEF Closed, Ends
      <4>4. ~Ends(m, first, nx, removed)
        BY <2>1, <4>1, <4>3 DEF Ends
      <4> QED BY <2>5, <4>1, <4>3, <4>4 DEF Ahead
    <3>2. V \cap C \in SUBSET Nodes
      OBVIOUS
    <3> QED BY <1>1, <3>1, <3>2 DEF IsWalk
  <2>6. Ahead(loop.at, W \cup {n}, first, nx, removed)
    <3>1. SUFFICES ASSUME NEW m \in W \cup {n, loop.at}, ~Ends(m, first, nx, removed)
                   PROVE  nx[m] \in W \cup {n}
      BY DEF Ahead
    <3>2. m # n
      BY <2>2, <3>1 DEF Ends
    <3>3. CASE m = last
      BY <2>2, <3>3
    <3>4. CASE m # last
      <4>1. m \in InTable \cup removed /\ nx[m] = next[m]
        BY <1>2, <2>2, <3>1, <3>2, <3>4
      <4>2. ~Ends(m, m_key_list, next, removed)
        BY <2>1, <3>1, <4>1 DEF Ends
      <4> QED BY <1>3, <3>1, <3>2, <4>1, <4>2 DEF Ahead
    <3> QED BY <3>3, <3>4
  <2>7. W \cup {n} \in SUBSET (in \cup removed) /\ (W \cup {n}) \cap loop.seen = {}
    BY <1>3, <1>seen
  <2>8. InTable \cup C \cup {n} \in SUBSET (in \cup removed)
    BY <1>2
  <2> QED BY <2>4, <2>5, <2>6, <2>7, <2>8 DEF IsWalk
<1>6. IsWalk(loop, in, first, nx, removed)
  BY <1>4, <1>5
<1> QED BY <1>6

-------------------------------------------------------------------------------
(* key_list_remove_node                                                      *)

\* A node that leads to itself is alone.
LEMMA Alone ==
  ASSUME NEW n \in InTable, next[n] = n, IsRing(InTable, m_key_list, next, prev, removed)
  PROVE  InTable = {n} /\ m_key_list = n
<1>1. \A m \in InTable \ {n} : next[m] \in InTable \ {n}
  BY DEF IsRing
<1>2. m_key_list = n
  <2>1. m_key_list \in InTable
    BY DEF IsRing
  <2>2. SUFFICES ASSUME m_key_list # n PROVE FALSE
    OBVIOUS
  <2>3. InTable \ {n} = InTable
    BY <1>1, <2>1, <2>2 DEF IsRing
  <2> QED BY <2>3
<1>3. {n} = InTable
  <2>1. {n} \in SUBSET InTable /\ m_key_list \in {n} /\ \A m \in {n} : next[m] \in {n}
    BY <1>2
  <2> QED BY <2>1 DEF IsRing
<1> QED BY <1>2, <1>3

\* What unlinking changes of a ring of several nodes: the link that led to the node.
LEMMA UnlinkedFacts ==
  ASSUME NEW n \in InTable, next[n] # n, InTable \subseteq Nodes, next \in Links, prev \in Links,
         IsRing(InTable, m_key_list, next, prev, removed), Null \notin Nodes
  PROVE  /\ prev[n] \in InTable \ {n} /\ next[n] \in InTable \ {n}
         /\ next[prev[n]] = n /\ prev[next[n]] = n
         /\ n \notin removed /\ prev[n] \notin removed
         /\ \A m \in InTable : /\ next[m] = n => m = prev[n]
                               /\ prev[m] = n => m = next[n]
                               /\ next[m] = next[n] => m = n
         /\ Unlinked(n)[1][prev[n]] = next[n] /\ Unlinked(n)[2][next[n]] = prev[n]
         /\ \A m \in Nodes \ {prev[n]} : Unlinked(n)[1][m] = next[m]
         /\ \A m \in Nodes \ {next[n]} : Unlinked(n)[2][m] = prev[m]
         /\ FirstWithout(n) = IF m_key_list = n THEN next[n] ELSE m_key_list
         /\ m_key_list \in InTable
<1>1. /\ n \notin removed /\ next[n] \in InTable /\ prev[n] \in InTable
      /\ next[prev[n]] = n /\ prev[next[n]] = n /\ prev[n] \notin removed
      /\ \A m \in InTable : prev[next[m]] = m /\ next[prev[m]] = m
      /\ m_key_list \in InTable
  BY DEF IsRing
<1>2. prev[n] # n
  BY <1>1
<1>3. Unlinked(n) = <<[next EXCEPT ![prev[n]] = next[n]], [prev EXCEPT ![next[n]] = prev[n]]>>
  BY DEF Unlinked
<1>4. /\ Unlinked(n)[1][prev[n]] = next[n] /\ Unlinked(n)[2][next[n]] = prev[n]
      /\ \A m \in Nodes \ {prev[n]} : Unlinked(n)[1][m] = next[m]
      /\ \A m \in Nodes \ {next[n]} : Unlinked(n)[2][m] = prev[m]
  BY <1>1, <1>3 DEF Links
<1>5. \A m \in InTable : /\ next[m] = n => m = prev[n]
                         /\ prev[m] = n => m = next[n]
                         /\ next[m] = next[n] => m = n
  BY <1>1
<1>6. FirstWithout(n) = IF m_key_list = n THEN next[n] ELSE m_key_list
  BY DEF FirstWithout
<1> QED BY <1>1, <1>2, <1>4, <1>5, <1>6

\* The others are a ring.
LEMMA RingUnlinked ==
  ASSUME NEW n \in InTable, InTable \subseteq Nodes, next \in Links, prev \in Links,
         IsRing(InTable, m_key_list, next, prev, removed), Null \notin Nodes
  PROVE  IsRing(InTable \ {n}, FirstWithout(n), Unlinked(n)[1], Unlinked(n)[2], removed \cup {n})
<1> DEFINE in == InTable \ {n}
           nx == Unlinked(n)[1]
           pv == Unlinked(n)[2]
           first == FirstWithout(n)
           gone == removed \cup {n}
<1>1. CASE next[n] = n
  <2>1. in = {} /\ first = Null
    BY <1>1, Alone DEF FirstWithout
  <2> HIDE DEF in, nx, pv, first, gone
  <2>2. IsRing(in, first, nx, pv, gone)
    BY <2>1 DEF IsRing
  <2> QED BY <2>2 DEF in, nx, pv, first, gone
<1>2. CASE next[n] # n
  <2> DEFINE p == prev[n]
             q == next[n]
  <2>1. /\ p \in in /\ q \in in /\ next[p] = n /\ prev[q] = n
        /\ \A m \in InTable : /\ next[m] = n => m = p
                              /\ prev[m] = n => m = q
        /\ nx[p] = q /\ pv[q] = p
        /\ \A m \in Nodes \ {p} : nx[m] = next[m]
        /\ \A m \in Nodes \ {q} : pv[m] = prev[m]
        /\ first = IF m_key_list = n THEN q ELSE m_key_list
        /\ m_key_list \in InTable
    BY <1>2, UnlinkedFacts
  <2> HIDE DEF nx, pv, first
  <2>2. ASSUME NEW m \in in
        PROVE  m \notin gone /\ nx[m] \in in /\ pv[m] \in in /\ pv[nx[m]] = m /\ nx[pv[m]] = m
    <3>1. /\ m \notin removed /\ next[m] \in InTable /\ prev[m] \in InTable
          /\ prev[next[m]] = m /\ next[prev[m]] = m
      BY DEF IsRing
    <3>2. nx[m] \in in /\ pv[nx[m]] = m
      <4>1. CASE m = p
        BY <2>1, <4>1
      <4>2. CASE m # p
        BY <2>1, <3>1, <4>2
      <4> QED BY <4>1, <4>2
    <3>3. pv[m] \in in /\ nx[pv[m]] = m
      <4>1. CASE m = q
        BY <2>1, <4>1
      <4>2. CASE m # q
        BY <2>1, <3>1, <4>2
      <4> QED BY <4>1, <4>2
    <3> QED BY <3>1, <3>2, <3>3
  <2>3. ASSUME NEW T \in SUBSET in, first \in T, \A m \in T : nx[m] \in T PROVE T = in
    <3>1. \A m \in T \ {p} : next[m] \in T
      BY <2>1, <2>3
    <3>2. CASE p \in T
      <4>1. q \in T
        BY <2>1, <2>3, <3>2
      <4>2. \A m \in T \cup {n} : next[m] \in T \cup {n}
        BY <2>1, <3>1, <4>1
      <4>3. T \cup {n} = InTable
        <5>1. m_key_list \in T \cup {n} /\ T \cup {n} \in SUBSET InTable
          BY <2>1, <2>3
        <5> QED BY <4>2, <5>1 DEF IsRing
      <4> QED BY <4>3
    <3>3. CASE p \notin T
      <4>1. CASE m_key_list # n
        <5>1. T = InTable
          <6>1. m_key_list \in T /\ T \in SUBSET InTable /\ \A m \in T : next[m] \in T
            BY <2>1, <2>3, <3>1, <3>3, <4>1
          <6> QED BY <6>1 DEF IsRing
        <5> QED BY <5>1
      <4>2. CASE m_key_list = n
        <5>1. T \cup {n} = InTable
          <6>1. m_key_list \in T \cup {n} /\ T \cup {n} \in SUBSET InTable
            BY <4>2, <2>3
          <6>2. \A m \in T \cup {n} : next[m] \in T \cup {n}
            BY <2>1, <2>3, <3>1, <3>3, <4>2
          <6> QED BY <6>1, <6>2 DEF IsRing
        <5> QED BY <5>1
      <4> QED BY <4>1, <4>2
    <3> QED BY <3>2, <3>3
  <2>4. first \in in /\ in # {} /\ first # Null
    BY <2>1
  <2>5. IsRing(in, first, nx, pv, gone)
    BY <2>2, <2>3, <2>4 DEF IsRing
  <2> QED BY <2>5 DEF nx, pv, first
<1> QED BY <1>1, <1>2

\* A loop that stood before the node may come to it no more; one that stood on it goes on
\* where it led.  The round begins anew for a loop that stood on the last node, or on
\* removed ones that led to it: it forgets what it was called for.  Any other loop has
\* nothing of the nodes that only come to the deleted one before it.
LEMMA LoopUnlinked ==
  ASSUME NEW n \in InTable, InTable \subseteq Nodes, removed \subseteq Nodes,
         next \in Links, prev \in Links, Null \notin Nodes,
         IsRing(InTable, m_key_list, next, prev, removed),
         NEW loop \in Loop, IsLoop(loop, InTable, m_key_list, next, removed)
  PROVE  IsLoop(Told(loop, n), InTable \ {n}, FirstWithout(n), Unlinked(n)[1], removed \cup {n})
<1> DEFINE in == InTable \ {n}
           nx == Unlinked(n)[1]
           first == FirstWithout(n)
           gone == removed \cup {n}
           told == Told(loop, n)
           at == loop.at
           cut == loop.cut \/ (next[n] = m_key_list /\ ComesToOnly(at, n))
<1>1. /\ told.at = at /\ told.dropped = loop.dropped /\ told.owed = loop.owed \ {n}
      /\ told.cut = cut /\ told.seen = IF cut THEN {} ELSE loop.seen \ {n}
  BY DEF Told, Loop
<1> HIDE DEF told, nx, first
<1>2. told.seen \subseteq in /\ told.owed \subseteq in /\ (told.cut => told.seen = {})
  BY <1>1 DEF IsLoop
<1>3. SUFFICES ASSUME ~loop.dropped, IsWalk(loop, InTable, m_key_list, next, removed)
               PROVE  IsWalk(told, in, first, nx, gone)
  <2>1. loop.dropped => told.seen = {} /\ told.owed = {}
    BY <1>1 DEF IsLoop
  <2> QED BY <1>1, <1>2, <2>1 DEF IsLoop, told, nx, first
<1>4. PICK C \in SUBSET (InTable \cup removed) : at \in C /\ Closed(C, next)
  BY <1>3 DEF IsWalk
<1>5. C \in SUBSET (in \cup gone)
  BY <1>4
<1>6. CASE next[n] = n
  <2>1. InTable = {n} /\ told.seen = {} /\ told.owed = {}
    BY <1>2, <1>6, Alone
  <2>2. nx[n] = Null /\ \A m \in Nodes \ {n} : nx[m] = next[m]
    BY <1>6 DEF nx, Unlinked, Links
  <2>3. Closed(C, nx)
    BY <1>4, <2>2 DEF Closed
  <2>4. Ahead(at, C, first, nx, gone)
    BY <1>4, <2>3 DEF Closed, Ahead, Ends
  <2> QED BY <1>1, <1>4, <1>5, <2>1, <2>3, <2>4 DEF IsWalk
<1>7. CASE next[n] # n
  <2> DEFINE p == prev[n]
             q == next[n]
  <2>1. /\ p \in in /\ q \in in /\ next[p] = n /\ p \notin removed /\ n \notin removed
        /\ \A m \in InTable : /\ next[m] = n => m = p
                              /\ next[m] = q => m = n
        /\ nx[p] = q
        /\ \A m \in Nodes \ {p} : nx[m] = next[m]
        /\ first = IF m_key_list = n THEN q ELSE m_key_list
    BY <1>7, UnlinkedFacts DEF nx, first
  <2> HIDE DEF p, q
  <2>2. q = next[n] /\ p # n /\ q # n /\ q \in Nodes /\ p \in Nodes /\ n \in Nodes
    BY <2>1 DEF q
  <2>3. Closed(C, nx)
    <3>1. SUFFICES ASSUME NEW m \in C PROVE nx[m] \in C \cup {Null}
      BY DEF Closed
    <3>2. CASE m = p
      BY <1>4, <2>1, <2>2, <3>2, HashAssumption DEF Closed
    <3>3. CASE m # p
      BY <1>4, <2>1, <3>3 DEF Closed
    <3> QED BY <3>2, <3>3
  <2>4. ASSUME NEW m \in (InTable \cup removed) \ {n, p}
        PROVE  nx[m] = next[m] /\ (Ends(m, first, nx, gone) <=> Ends(m, m_key_list, next, removed))
    <3>1. nx[m] = next[m] /\ (m \in gone <=> m \in removed)
      BY <2>1
    <3>2. m \notin removed => next[m] # n /\ next[m] # q
      BY <2>1
    <3> QED BY <2>1, <3>1, <3>2 DEF Ends
  <2>5. nx[n] = q /\ ~Ends(n, first, nx, gone)
    BY <2>1, <2>2 DEF Ends
  <2>6. /\ Ends(n, m_key_list, next, removed) <=> q = m_key_list
        /\ Ends(p, m_key_list, next, removed) <=> n = m_key_list
        /\ Ends(p, first, nx, gone) <=> n = m_key_list \/ q = m_key_list
    BY <2>1, <2>2 DEF Ends
  <2>7. ASSUME NEW V \in SUBSET Nodes, Ahead(at, V, first, nx, gone)
        PROVE  told.owed \subseteq V
    <3> DEFINE B == V \cap C
               O == {m \in {n} : \E x \in B \cup {at} :
                                   ~Ends(x, m_key_list, next, removed) /\ next[x] = n}
    <3>1. \A m \in B \cup {at} : m \in C /\ m \in InTable \cup removed
      BY <1>4
    <3>2. \A m \in B \cup {at} : ~Ends(m, first, nx, gone) => nx[m] \in B
      BY <2>3, <2>7, <3>1 DEF Ahead, Closed, Ends
    <3>3. ASSUME NEW m \in B \cup {at}, ~Ends(m, m_key_list, next, removed), next[m] # n
          PROVE  next[m] \in B
      <4>1. CASE m = n
        BY <2>2, <2>5, <3>2, <4>1
      <4>2. CASE m # n
        <5>1. m # p
          BY <2>1, <3>3
        <5> QED BY <2>4, <3>1, <3>2, <3>3, <4>2, <5>1
      <4> QED BY <4>1, <4>2
    <3>4. ASSUME NEW m \in O, ~Ends(n, m_key_list, next, removed) PROVE q \in B
      <4>1. PICK x \in B \cup {at} : ~Ends(x, m_key_list, next, removed) /\ next[x] = n
        OBVIOUS
      <4>2. CASE x = p
        <5>1. ~Ends(p, first, nx, gone)
          BY <2>6, <3>4, <4>1, <4>2
        <5> QED BY <2>1, <3>2, <4>2, <5>1
      <4>3. CASE x # p
        <5>1. x # n
          BY <2>2, <4>1
        <5>2. n \in B
          BY <2>4, <3>1, <3>2, <4>1, <4>3, <5>1
        <5> QED BY <2>5, <3>2, <5>2
      <4> QED BY <4>2, <4>3
    <3>5. Ahead(at, B \cup O, m_key_list, next, removed)
      <4>1. SUFFICES ASSUME NEW m \in B \cup O \cup {at}, ~Ends(m, m_key_list, next, removed)
                     PROVE  next[m] \in B \cup O
        BY DEF Ahead
      <4>2. CASE m \in B \cup {at} /\ next[m] = n
        BY <4>1, <4>2
      <4>3. CASE m \in B \cup {at} /\ next[m] # n
        BY <3>3, <4>1, <4>3
      <4>4. CASE m \in O
        BY <2>2, <3>4, <4>1, <4>4
      <4> QED BY <4>1, <4>2, <4>3, <4>4
    <3>6. B \cup O \in SUBSET Nodes
      BY <2>2
    <3>7. loop.owed \subseteq B \cup O
      BY <1>3, <3>5, <3>6 DEF IsWalk
    <3> QED BY <1>1, <3>7
  <2>8. \E W \in SUBSET (in \cup gone) : Ahead(at, W, first, nx, gone) /\ W \cap told.seen = {}
    <3>1. CASE cut
      <4>1. Ahead(at, C, first, nx, gone)
        BY <1>4, <2>3 DEF Closed, Ahead, Ends
      <4> QED BY <1>1, <1>5, <3>1, <4>1
    <3>2. CASE ~cut
      <4>1. PICK W \in SUBSET (InTable \cup removed) :
              Ahead(at, W, m_key_list, next, removed) /\ W \cap loop.seen = {}
        BY <1>3 DEF IsWalk
      <4>2. at \in InTable \cup removed
        BY <1>4
      <4>3. CASE q # m_key_list
        <5>1. Ahead(at, W, first, nx, gone)
          <6>1. SUFFICES ASSUME NEW m \in W \cup {at}, ~Ends(m, first, nx, gone) PROVE nx[m] \in W
            BY DEF Ahead
          <6>2. n \in W \cup {at} => q \in W
            BY <2>2, <2>6, <4>1, <4>3 DEF Ahead
          <6>3. CASE m = p
            <7>1. ~Ends(p, m_key_list, next, removed)
              BY <2>6, <6>1, <6>3
            <7>2. n \in W
              BY <2>1, <4>1, <6>3, <7>1 DEF Ahead
            <7> QED BY <2>1, <6>2, <6>3, <7>2
          <6>4. CASE m = n
            BY <2>5, <6>2, <6>4
          <6>5. CASE m # p /\ m # n
            BY <2>4, <4>1, <4>2, <6>1, <6>5 DEF Ahead
          <6> QED BY <6>3, <6>4, <6>5
        <5>2. W \in SUBSET (in \cup gone) /\ W \cap told.seen = {}
          BY <1>1, <4>1
        <5> QED BY <5>1, <5>2
      <4>4. CASE q = m_key_list
        <5> DEFINE B == {m \in Nodes : ComesToOnly(m, n)}
                   V == W \ B
        <5>1. at \notin B /\ n \in B
          <6>1. ComesToOnly(n, n)
            BY DEF ComesToOnly
          <6> QED BY <2>2, <3>2, <4>4, <6>1
        <5>2. Ahead(at, V, first, nx, gone)
          <6>1. SUFFICES ASSUME NEW m \in V \cup {at}, ~Ends(m, first, nx, gone) PROVE nx[m] \in V
            BY DEF Ahead
          <6>2. m \in InTable \cup removed /\ m \in Nodes /\ m \notin B /\ m # n /\ m # p
            BY <2>6, <4>1, <4>2, <4>4, <5>1, <6>1
          <6>3. nx[m] = next[m] /\ next[m] \in W
            BY <2>4, <4>1, <6>1, <6>2 DEF Ahead
          <6>4. ASSUME ComesToOnly(next[m], n) PROVE FALSE
            <7>1. PICK U \in SUBSET (removed \cup {n}) :
                    next[m] \in U /\ n \in U /\ \A w \in U \ {n} : next[w] \in U
              BY <6>4 DEF ComesToOnly
            <7>2. CASE m \in removed
              <8>1. U \cup {m} \in SUBSET (removed \cup {n})
                BY <7>1, <7>2
              <8>2. \A w \in (U \cup {m}) \ {n} : next[w] \in U \cup {m}
                BY <7>1
              <8>3. ComesToOnly(m, n)
                BY <7>1, <8>1, <8>2 DEF ComesToOnly
              <8> QED BY <6>2, <8>3
            <7>3. CASE m \in InTable
              <8>1. next[m] \in InTable /\ next[m] \notin removed
                BY <7>3 DEF IsRing
              <8>2. next[m] = n
                BY <7>1, <8>1
              <8> QED BY <2>1, <6>2, <7>3, <8>2
            <7> QED BY <6>2, <7>2, <7>3
          <6> QED BY <6>3, <6>4
        <5>3. V \in SUBSET (in \cup gone) /\ V \cap told.seen = {}
          BY <1>1, <4>1
        <5> QED BY <5>2, <5>3
      <4> QED BY <4>3, <4>4
    <3> QED BY <3>1, <3>2
  <2> QED BY <1>1, <1>4, <1>5, <2>3, <2>7, <2>8 DEF IsWalk
<1> QED BY <1>6, <1>7

-------------------------------------------------------------------------------
(* A new list                                                                *)

\* A set of numbers has a least one.
LEMMA HasLeast ==
  ASSUME NEW T \in SUBSET Nat, T # {}
  PROVE  \E i \in T : \A j \in T : i <= j
<1> DEFINE Less == OpToRel(<, Nat)
<1>1. PICK i \in T : \A j \in T : <<j, i>> \notin Less
  BY NatLessThanWellFounded, WFMin
<1>2. \A j, k \in Nat : j < k => <<j, k>> \in Less
  BY DEF OpToRel
<1> HIDE DEF Less
<1>3. ASSUME NEW j \in T PROVE i <= j
  <2>1. i \in Nat /\ j \in Nat
    OBVIOUS
  <2>2. ~ j < i
    BY <1>1, <1>2, <2>1
  <2> QED BY <2>1, <2>2
<1> QED BY <1>3

\* From the first node of a list of L nodes each of which leads to the one after it a
\* walk comes to all.
LEMMA ComesToAll ==
  ASSUME NEW L \in Nat \ {0}, NEW node, NEW nx, NEW T, node[1] \in T,
         \A i \in 1..L : i < L => nx[node[i]] = node[i + 1],
         \A n \in T : nx[n] \in T
  PROVE  \A i \in 1..L : node[i] \in T
<1> DEFINE D == {i \in 1..L : node[i] \notin T}
<1>1. SUFFICES ASSUME D # {} PROVE FALSE
  OBVIOUS
<1>2. PICK i \in D : \A j \in D : i <= j
  <2>1. D \in SUBSET Nat
    OBVIOUS
  <2> HIDE DEF D
  <2> QED BY <1>1, <2>1, HasLeast
<1>3. i \in 1..L /\ i # 1 /\ node[i] \notin T
  BY <1>2
<1>4. i - 1 \in 1..L /\ i - 1 < L /\ (i - 1) + 1 = i /\ i - 1 < i
  BY <1>3
<1>5. node[i - 1] \in T
  BY <1>2, <1>3, <1>4
<1> QED BY <1>3, <1>4, <1>5

\* Sequences has what its name says.
LEMMA IsSequence ==
  ASSUME NEW ks \in Sequences
  PROVE  /\ Len(ks) \in Nat /\ DOMAIN ks = 1..Len(ks) /\ (ks = <<>> <=> Len(ks) = 0)
         /\ \A i \in DOMAIN ks : ks[i] \in Keys
         /\ \A i, j \in DOMAIN ks : ks[i] = ks[j] => i = j
<1>1. PICK n \in 0..Cardinality(Keys) :
        ks \in [1..n -> Keys] /\ \A i, j \in 1..n : ks[i] = ks[j] => i = j
  BY DEF Sequences
<1>2. n \in Nat
  BY HashAssumption, FS_CardinalityType
<1>3. ks \in Seq(Keys) /\ Len(ks) = n
  BY <1>1, <1>2
<1> QED BY <1>1, <1>2, <1>3

\* The new list is a ring of nodes that were not in use, in the table under the keys.
LEMMA Rebuilt ==
  ASSUME HashInv, NEW ks \in Sequences, Rebuild(ks)
  PROVE  /\ IsHash(table, m_key_list, next, prev, key, removed, loops)'
         /\ \A n \in Nodes \ InUse(key') : next'[n] = Null
         /\ loops' = [i \in DOMAIN loops |-> ListDropped(loops[i])]
<1> DEFINE L == Len(ks)
           node == CHOOSE f \in Injections(ks) : TRUE
           new == {node[i] : i \in DOMAIN ks}
           place(n) == CHOOSE i \in DOMAIN ks : node[i] = n
           after(i) == node[IF i = Len(ks) THEN 1 ELSE i + 1]
           before(i) == node[IF i = 1 THEN Len(ks) ELSE i - 1]
           tab == [k \in Keys |-> IF \E i \in DOMAIN ks : ks[i] = k
                                  THEN node[CHOOSE i \in DOMAIN ks : ks[i] = k] ELSE Null]
           first == IF ks = <<>> THEN Null ELSE node[1]
           nx == [n \in Nodes |-> IF n \in new THEN after(place(n)) ELSE next[n]]
           pv == [n \in Nodes |-> IF n \in new THEN before(place(n)) ELSE prev[n]]
           ky == [n \in Nodes |-> IF n \in new THEN ks[place(n)] ELSE key[n]]
           ls == [i \in DOMAIN loops |-> ListDropped(loops[i])]
<1>1. Become(tab, first, nx, pv, ky, removed, ls) /\ Injections(ks) # {}
  BY DEF Rebuild
<1>2. /\ L \in Nat /\ DOMAIN ks = 1..L /\ (ks = <<>> <=> L = 0)
      /\ \A i \in 1..L : ks[i] \in Keys
      /\ \A i, j \in 1..L : ks[i] = ks[j] => i = j
  BY IsSequence
<1>3. node \in [1..L -> Free] /\ \A i, j \in 1..L : node[i] = node[j] => i = j
  <2>1. node \in Injections(ks)
    BY <1>1
  <2> HIDE DEF node
  <2> QED BY <1>2, <2>1 DEF Injections
<1> HIDE DEF node, L
<1>4. new = {node[i] : i \in 1..L} /\ new \subseteq Free /\ Free \subseteq Nodes
  BY <1>2, <1>3 DEF Free
<1>5. \A i \in 1..L : place(node[i]) = i
  BY <1>2, <1>3
<1>6. \A i \in 1..L : tab[ks[i]] = node[i]
  <2>1. ASSUME NEW i \in 1..L PROVE (CHOOSE j \in DOMAIN ks : ks[j] = ks[i]) = i
    BY <1>2
  <2> QED BY <1>2, <2>1
<1>7. \A k \in Keys : (\E i \in 1..L : ks[i] = k) \/ tab[k] = Null
  BY <1>2
<1>8. \A i \in 1..L : /\ nx[node[i]] = node[IF i = L THEN 1 ELSE i + 1]
                      /\ pv[node[i]] = node[IF i = 1 THEN L ELSE i - 1]
                      /\ ky[node[i]] = ks[i]
  <2>1. SUFFICES ASSUME NEW i \in 1..L
                 PROVE  /\ nx[node[i]] = after(i) /\ pv[node[i]] = before(i) /\ ky[node[i]] = ks[i]
    BY DEF L
  <2>2. node[i] \in new /\ node[i] \in Nodes /\ place(node[i]) = i
    BY <1>4, <1>5
  <2> HIDE DEF after, before, place, new
  <2> QED BY <2>2
<1>9. \A n \in Nodes \ new : nx[n] = next[n] /\ pv[n] = prev[n] /\ ky[n] = key[n]
  OBVIOUS
<1>10. /\ \A n \in new : \E i \in 1..L : n = node[i]
       /\ \A i \in 1..L : node[i] \in new
  BY <1>4
<1>11. first = IF L = 0 THEN Null ELSE node[1]
  BY <1>2
<1>12. DOMAIN tab = Keys /\ DOMAIN nx = Nodes /\ DOMAIN pv = Nodes /\ DOMAIN ky = Nodes
  OBVIOUS
<1>13. tab = [k \in Keys |-> tab[k]] /\ nx = [n \in Nodes |-> nx[n]] /\ pv = [n \in Nodes |-> pv[n]]
       /\ ky = [n \in Nodes |-> ky[n]]
  OBVIOUS
<1> HIDE DEF tab, nx, pv, ky, first, new
<1>14. /\ Typed(table, m_key_list, next, prev, key, removed, loops)
       /\ Closed(InUse(key), next) /\ removed \subseteq InUse(key)
       /\ \A i \in DOMAIN loops : loops[i].at \in InUse(key)
  BY DEF HashInv, IsHash
<1>15. Null \notin Nodes /\ Null \notin Keys
  BY HashAssumption
<1>16. In(tab) = new
  BY <1>2, <1>4, <1>6, <1>7, <1>10, <1>15 DEF In
<1>17. Typed(tab, first, nx, pv, ky, removed, ls)
  <2>1. tab \in [Keys -> Nodes \cup {Null}]
    <3>1. \A k \in Keys : tab[k] \in Nodes \cup {Null}
      BY <1>4, <1>6, <1>7, <1>10
    <3> QED BY <1>13, <3>1
  <2>2. \A k \in Keys : tab[k] # Null => ky[tab[k]] = k
    BY <1>6, <1>7, <1>8
  <2>3. nx \in Links
    <3>1. ASSUME NEW n \in new PROVE nx[n] \in Nodes \cup {Null}
      <4>1. PICK i \in 1..L : n = node[i]
        BY <1>10
      <4>2. (IF i = L THEN 1 ELSE i + 1) \in 1..L
        BY <1>2
      <4>3. nx[n] \in new
        BY <1>8, <1>10, <4>1, <4>2
      <4> QED BY <1>4, <4>3
    <3>2. ASSUME NEW n \in Nodes \ new PROVE nx[n] \in Nodes \cup {Null}
      BY <1>9, <1>14 DEF Typed, Links
    <3>3. \A n \in Nodes : nx[n] \in Nodes \cup {Null}
      BY <3>1, <3>2
    <3> QED BY <1>13, <3>3 DEF Links
  <2>4. pv \in Links
    <3>1. ASSUME NEW n \in new PROVE pv[n] \in Nodes \cup {Null}
      <4>1. PICK i \in 1..L : n = node[i]
        BY <1>10
      <4>2. (IF i = 1 THEN L ELSE i - 1) \in 1..L
        BY <1>2
      <4>3. pv[n] \in new
        BY <1>8, <1>10, <4>1, <4>2
      <4> QED BY <1>4, <4>3
    <3>2. ASSUME NEW n \in Nodes \ new PROVE pv[n] \in Nodes \cup {Null}
      BY <1>9, <1>14 DEF Typed, Links
    <3>3. \A n \in Nodes : pv[n] \in Nodes \cup {Null}
      BY <3>1, <3>2
    <3> QED BY <1>13, <3>3 DEF Links
  <2>5. ky \in [Nodes -> Keys \cup {Null}]
    <3>1. ASSUME NEW n \in new PROVE ky[n] \in Keys \cup {Null}
      BY <1>2, <1>8, <1>10
    <3>2. ASSUME NEW n \in Nodes \ new PROVE ky[n] \in Keys \cup {Null}
      BY <1>9, <1>14 DEF Typed
    <3>3. \A n \in Nodes : ky[n] \in Keys \cup {Null}
      BY <3>1, <3>2
    <3> QED BY <1>13, <3>3
  <2>6. first \in Nodes \cup {Null}
    BY <1>2, <1>4, <1>10, <1>11
  <2>7. ls \in Seq(Loop) /\ Len(ls) <= MaxLoops
    <3>1. loops \in Seq(Loop) /\ Len(loops) <= MaxLoops
      BY <1>14 DEF Typed
    <3>2. \A loop \in Loop : ListDropped(loop) \in Loop
      BY DEF ListDropped, Loop
    <3>3. \A i \in DOMAIN loops : ListDropped(loops[i]) \in Loop
      BY <3>1, <3>2
    <3> QED BY <3>1, <3>3
  <2> QED BY <1>14, <2>1, <2>2, <2>3, <2>4, <2>5, <2>6, <2>7 DEF Typed
<1>18. IsRing(new, first, nx, pv, removed)
  <2>1. first \in new \cup {Null} /\ (first = Null <=> new = {})
    <3>1. CASE L = 0
      BY <1>10, <1>11, <3>1
    <3>2. CASE L # 0
      <4>1. 1 \in 1..L
        BY <1>2, <3>2
      <4> QED BY <1>4, <1>10, <1>11, <1>15, <3>2, <4>1
    <3> QED BY <3>1, <3>2
  <2>2. ASSUME NEW n \in new
        PROVE  /\ n \notin removed /\ nx[n] \in new /\ pv[n] \in new
               /\ pv[nx[n]] = n /\ nx[pv[n]] = n
    <3>1. PICK i \in 1..L : n = node[i]
      BY <1>10
    <3>2. n \notin removed
      BY <1>4, <1>14 DEF Free, InUse
    <3>3. nx[n] \in new /\ pv[nx[n]] = n
      <4> DEFINE j == IF i = L THEN 1 ELSE i + 1
      <4>1. j \in 1..L /\ (IF j = 1 THEN L ELSE j - 1) = i
        BY <1>2
      <4>2. nx[n] = node[j]
        BY <1>8, <3>1
      <4> QED BY <1>8, <1>10, <3>1, <4>1, <4>2
    <3>4. pv[n] \in new /\ nx[pv[n]] = n
      <4> DEFINE j == IF i = 1 THEN L ELSE i - 1
      <4>1. j \in 1..L /\ (IF j = L THEN 1 ELSE j + 1) = i
        BY <1>2
      <4>2. pv[n] = node[j]
        BY <1>8, <3>1
      <4> QED BY <1>8, <1>10, <3>1, <4>1, <4>2
    <3> QED BY <3>2, <3>3, <3>4
  <2>3. ASSUME NEW T \in SUBSET new, first \in T, \A n \in T : nx[n] \in T PROVE T = new
    <3>1. L \in Nat \ {0} /\ node[1] \in T
      BY <1>2, <1>4, <1>11, <1>15, <2>3
    <3>2. \A i \in 1..L : i < L => nx[node[i]] = node[i + 1]
      BY <1>2, <1>8
    <3>3. \A i \in 1..L : node[i] \in T
      BY <2>3, <3>1, <3>2, ComesToAll
    <3> QED BY <1>10, <3>3
  <2> QED BY <2>1, <2>2, <2>3 DEF IsRing
<1>19. InUse(ky) = InUse(key) \cup new
  BY <1>2, <1>4, <1>8, <1>9, <1>10, <1>15 DEF InUse
<1>20. Closed(InUse(ky), nx)
  <2>1. \A n \in new : nx[n] \in new
    BY <1>18 DEF IsRing
  <2>2. \A n \in InUse(key) : n \in Nodes \ new
    BY <1>4 DEF InUse, Free
  <2> QED BY <1>9, <1>14, <1>19, <2>1, <2>2 DEF Closed
<1>21. ASSUME NEW i \in DOMAIN ls
       PROVE  ls[i].at \in InUse(ky) /\ IsLoop(ls[i], new, first, nx, removed)
  <2>1. i \in DOMAIN loops /\ loops[i] \in Loop
    BY <1>14 DEF Typed
  <2>2. /\ ls[i].at = loops[i].at /\ ls[i].dropped /\ ls[i].seen = {} /\ ls[i].owed = {}
    BY <2>1 DEF ListDropped, Loop
  <2> QED BY <1>14, <1>19, <2>1, <2>2 DEF IsLoop
<1>22. IsHash(tab, first, nx, pv, ky, removed, ls)
  BY <1>14, <1>16, <1>17, <1>18, <1>19, <1>20, <1>21 DEF IsHash
<1>23. loops' = ls
  BY <1>1 DEF Become
<1> QED BY <1>1, <1>22, <1>23, Collected

-------------------------------------------------------------------------------
(* A step keeps the invariant.                                               *)

\* The state the invariant describes, part by part.
LEMMA Parts ==
  ASSUME HashInv
  PROVE  /\ Null \notin Nodes /\ Null \notin Keys
         /\ In(table) = InTable /\ InTable \subseteq Nodes /\ InTable \subseteq InUse(key)
         /\ Typed(table, m_key_list, next, prev, key, removed, loops)
         /\ next \in Links /\ prev \in Links /\ removed \subseteq InUse(key) /\ removed \subseteq Nodes
         /\ IsRing(InTable, m_key_list, next, prev, removed)
         /\ Closed(InUse(key), next) /\ InUse(key) \subseteq Nodes
         /\ loops \in Seq(Loop) /\ Len(loops) <= MaxLoops
         /\ \A i \in DOMAIN loops : /\ loops[i] \in Loop /\ loops[i].at \in InUse(key)
                                    /\ IsLoop(loops[i], InTable, m_key_list, next, removed)
         /\ \A k \in Keys : table[k] # Null => table[k] \in InTable /\ key[table[k]] = k
<1>1. In(table) = InTable
  BY DEF In, InTable
<1>2. /\ IsHash(table, m_key_list, next, prev, key, removed, loops)
      /\ Typed(table, m_key_list, next, prev, key, removed, loops)
  BY DEF HashInv, IsHash
<1>3. Null \notin Nodes /\ Null \notin Keys
  BY HashAssumption
<1>4. InTable \subseteq InUse(key) /\ InUse(key) \subseteq Nodes
  BY <1>2, <1>3 DEF Typed, InTable, InUse
<1>5. \A k \in Keys : table[k] # Null => table[k] \in InTable /\ key[table[k]] = k
  BY <1>2 DEF Typed, InTable
<1>6. loops \in Seq(Loop) /\ Len(loops) <= MaxLoops /\ \A i \in DOMAIN loops : loops[i] \in Loop
  BY <1>2 DEF Typed
<1> QED BY <1>1, <1>2, <1>3, <1>4, <1>5, <1>6 DEF IsHash, Typed

\* The links of nodes in use do not lead out of them when a node is unlinked.
LEMMA RemoveKeeps ==
  ASSUME HashInv, NEW k \in Keys, table[k] # Null, NEW ls, RemoveKey(k, ls),
         ls \in Seq(Loop), Len(ls) <= MaxLoops,
         \A i \in DOMAIN ls : /\ ls[i].at \in InUse(key)
                              /\ IsLoop(ls[i], InTable \ {table[k]}, FirstWithout(table[k]),
                                        Unlinked(table[k])[1], removed \cup {table[k]})
  PROVE  /\ IsHash(table, m_key_list, next, prev, key, removed, loops)'
         /\ \A m \in Nodes \ InUse(key') : next'[m] = Null
         /\ InTable' = InTable \ {table[k]} /\ loops' = ls
<1> DEFINE n == table[k]
           tab == [table EXCEPT ![k] = Null]
           first == FirstWithout(n)
           nx == Unlinked(n)[1]
           pv == Unlinked(n)[2]
           gone == removed \cup {n}
<1>1. Become(tab, first, nx, pv, key, gone, ls)
  BY DEF RemoveKey
<1>2. /\ n \in InTable /\ n \in InUse(key) /\ n \in Nodes /\ Null \notin Nodes
      /\ InTable \subseteq Nodes /\ InTable \subseteq InUse(key) /\ next \in Links /\ prev \in Links
      /\ IsRing(InTable, m_key_list, next, prev, removed)
      /\ Closed(InUse(key), next) /\ removed \subseteq InUse(key) /\ removed \subseteq Nodes
      /\ Typed(table, m_key_list, next, prev, key, removed, loops)
  BY Parts
<1>3. \A j \in Keys : table[j] = n => j = k
  BY Parts
<1>4. In(tab) = InTable \ {n}
  BY <1>2, <1>3 DEF In, InTable, Typed
<1>5. IsRing(InTable \ {n}, first, nx, pv, gone)
  BY <1>2, RingUnlinked
<1>6. nx \in Links /\ pv \in Links
  <2>1. prev[n] \in Nodes /\ next[n] \in Nodes
    BY <1>2 DEF IsRing
  <2> QED BY <1>2, <2>1 DEF Unlinked, Links
<1>7. Closed(InUse(key), nx)
  <2>1. \A m \in InUse(key) : nx[m] \in {next[m], next[n], Null}
    BY <1>2 DEF Unlinked, Links, InUse
  <2> QED BY <1>2, <2>1 DEF Closed
<1>8. Typed(tab, first, nx, pv, key, gone, ls)
  <2>1. first \in Nodes \cup {Null}
    BY <1>2, <1>5 DEF IsRing
  <2>2. tab \in [Keys -> Nodes \cup {Null}] /\ \A j \in Keys : tab[j] # Null => key[tab[j]] = j
    BY <1>2 DEF Typed
  <2> QED BY <1>2, <1>6, <2>1, <2>2 DEF Typed
<1> HIDE DEF tab, nx, pv, first
<1>9. IsHash(tab, first, nx, pv, key, gone, ls)
  BY <1>2, <1>4, <1>5, <1>7, <1>8 DEF IsHash, nx, first
<1>10. loops' = ls
  BY <1>1 DEF Become
<1> QED BY <1>1, <1>4, <1>9, <1>10, Collected

\* What the loops are told of a deletion keeps them loops.
LEMMA TellKeeps ==
  ASSUME HashInv, NEW n \in InTable
  PROVE  /\ Tell(n) \in Seq(Loop) /\ Len(Tell(n)) = Len(loops) /\ DOMAIN Tell(n) = DOMAIN loops
         /\ \A i \in DOMAIN loops :
              /\ Tell(n)[i] = Told(loops[i], n) /\ Tell(n)[i] \in Loop
              /\ Tell(n)[i].at = loops[i].at /\ Tell(n)[i].method = loops[i].method
              /\ Tell(n)[i].at_block = loops[i].at_block
              /\ IsLoop(Tell(n)[i], InTable \ {n}, FirstWithout(n), Unlinked(n)[1], removed \cup {n})
<1>1. \A loop \in Loop : /\ Told(loop, n) \in Loop
                         /\ Told(loop, n).at = loop.at /\ Told(loop, n).method = loop.method
                         /\ Told(loop, n).at_block = loop.at_block
  BY DEF Told, Loop
<1>2. loops \in Seq(Loop) /\ \A i \in DOMAIN loops : loops[i] \in Loop
  BY Parts
<1>3. \A i \in DOMAIN loops : Tell(n)[i] = Told(loops[i], n)
  BY DEF Tell
<1>4. Tell(n) \in Seq(Loop) /\ Len(Tell(n)) = Len(loops) /\ DOMAIN Tell(n) = DOMAIN loops
  BY <1>1, <1>2 DEF Tell
<1>5. ASSUME NEW i \in DOMAIN loops
      PROVE  IsLoop(Told(loops[i], n), InTable \ {n}, FirstWithout(n), Unlinked(n)[1], removed \cup {n})
  BY Parts, LoopUnlinked
<1> QED BY <1>1, <1>2, <1>3, <1>4, <1>5

\* A new key
LEMMA PutStep ==
  ASSUME HashInv, NEW k \in Keys, Put(k)
  PROVE  /\ IsHash(table, m_key_list, next, prev, key, removed, loops)'
         /\ \A m \in Nodes \ InUse(key') : next'[m] = Null
         /\ loops' = loops
<1> DEFINE n == CHOOSE n \in Free : TRUE
           tab == [table EXCEPT ![k] = n]
           first == IF m_key_list = Null THEN n ELSE m_key_list
           nx == Appended(n)[1]
           pv == Appended(n)[2]
           ky == [key EXCEPT ![n] = k]
<1>1. Become(tab, first, nx, pv, ky, removed, loops) /\ table[k] = Null /\ Free # {}
  BY DEF Put
<1>2. n \in Free
  BY <1>1
<1> HIDE DEF n
<1>3. /\ InTable \subseteq Nodes /\ InTable \subseteq InUse(key) /\ next \in Links /\ prev \in Links
      /\ IsRing(InTable, m_key_list, next, prev, removed) /\ Null \notin Nodes /\ Null \notin Keys
      /\ Closed(InUse(key), next) /\ removed \subseteq InUse(key) /\ removed \subseteq Nodes
      /\ Typed(table, m_key_list, next, prev, key, removed, loops)
  BY Parts
<1>4. n \in Nodes /\ n \notin InUse(key) /\ n \notin InTable /\ n \notin removed /\ n # Null
  BY <1>2, <1>3 DEF Free, InUse
<1>5. In(tab) = InTable \cup {n}
  BY <1>1, <1>3, <1>4 DEF In, InTable, Typed
<1>6. IsRing(InTable \cup {n}, first, nx, pv, removed)
  BY <1>3, <1>4, RingAppended
<1>7. nx \in Links /\ pv \in Links
  <2>1. m_key_list # Null => m_key_list \in Nodes /\ prev[m_key_list] \in Nodes
    BY <1>3 DEF IsRing
  <2> QED BY <1>3, <1>4, <2>1 DEF Appended, LinkedToItself, Links
<1>8. InUse(ky) = InUse(key) \cup {n}
  BY <1>3, <1>4 DEF InUse, Typed
<1>9. Closed(InUse(ky), nx)
  <2>1. m_key_list # Null => m_key_list \in InUse(key)
    BY <1>3 DEF IsRing
  <2>2. \A m \in InUse(key) : nx[m] \in {next[m], n}
    BY <1>3, <1>4 DEF Appended, LinkedToItself, Links, InUse
  <2>3. nx[n] \in {n, m_key_list}
    <3>1. CASE m_key_list = Null
      BY <1>3, <1>4, <3>1 DEF Appended, LinkedToItself, Links
    <3>2. CASE m_key_list # Null
      <4>1. n # prev[m_key_list]
        BY <1>3, <1>4, <3>2 DEF IsRing
      <4> QED BY <1>3, <1>4, <3>2, <4>1 DEF Appended, Links
    <3> QED BY <3>1, <3>2
  <2>4. m_key_list = Null => nx[n] = n
    BY <1>3, <1>4 DEF Appended, LinkedToItself, Links
  <2> QED BY <1>3, <1>8, <2>1, <2>2, <2>3, <2>4 DEF Closed
<1>10. Typed(tab, first, nx, pv, ky, removed, loops)
  <2>1. \A j \in Keys : tab[j] # Null => ky[tab[j]] = j
    BY <1>3, <1>4, Parts DEF Typed
  <2>2. tab \in [Keys -> Nodes \cup {Null}] /\ ky \in [Nodes -> Keys \cup {Null}]
    BY <1>3, <1>4 DEF Typed
  <2> QED BY <1>3, <1>4, <1>7, <2>1, <2>2 DEF Typed
<1>11. \A m \in InTable \cup removed : next[m] # n
  BY <1>3, <1>4 DEF Closed
<1>12. ASSUME NEW i \in DOMAIN loops
       PROVE  loops[i].at \in InUse(ky) /\ IsLoop(loops[i], InTable \cup {n}, first, nx, removed)
  <2>1. /\ loops[i].at \in InUse(key) /\ loops[i].at \in Nodes
        /\ IsLoop(loops[i], InTable, m_key_list, next, removed)
    BY Parts
  <2> QED BY <1>3, <1>4, <1>8, <1>11, <2>1, LoopAppended
<1> HIDE DEF tab, nx, pv, first, ky
<1>13. IsHash(tab, first, nx, pv, ky, removed, loops)
  BY <1>3, <1>5, <1>6, <1>8, <1>9, <1>10, <1>12 DEF IsHash
<1>14. loops' = loops
  BY <1>1 DEF Become
<1> QED BY <1>1, <1>13, <1>14, Collected

\* The hash stays what it is and the loops become others: one of them moved or ended.
LEMMA LoopsStep ==
  ASSUME HashInv, NEW ls \in Seq(Loop), LoopsBecome(ls), Len(ls) <= MaxLoops,
         \A i \in DOMAIN ls : /\ ls[i].at \in InUse(key)
                              /\ IsLoop(ls[i], InTable, m_key_list, next, removed)
  PROVE  /\ IsHash(table, m_key_list, next, prev, key, removed, loops)'
         /\ \A m \in Nodes \ InUse(key') : next'[m] = Null
         /\ InTable' = InTable /\ loops' = ls
<1>1. Become(table, m_key_list, next, prev, key, removed, ls)
  BY DEF LoopsBecome
<1>2. IsHash(table, m_key_list, next, prev, key, removed, ls)
  BY Parts DEF IsHash, Typed
<1>3. loops' = ls /\ In(table) = InTable
  BY <1>1, Parts DEF Become
<1> QED BY <1>1, <1>2, <1>3, Collected

\* What is before a node of the ring is never the node itself.
LEMMA NotBefore ==
  ASSUME IsRing(InTable, m_key_list, next, prev, removed), NEW n \in InTable
  PROVE  \E W \in SUBSET InTable : n \notin W /\ Ahead(n, W, m_key_list, next, removed)
<1> DEFINE Walk(T) == m_key_list \in T /\ \A m \in T \ {n} : next[m] \in T
           B == {m \in InTable : \A T \in SUBSET InTable : Walk(T) => m \in T}
           W == InTable \ B
<1>1. m_key_list \in B /\ \A m \in InTable : next[m] \in InTable /\ prev[next[m]] = m
  BY DEF IsRing
<1>2. ASSUME NEW m \in B, m # n PROVE next[m] \in B
  <2>1. ASSUME NEW T \in SUBSET InTable, Walk(T) PROVE next[m] \in T
    BY <1>2, <2>1
  <2> QED BY <1>1, <2>1
<1>3. Walk(B) /\ B \in SUBSET InTable
  BY <1>1, <1>2
<1>4. n \in B
  <2>1. SUFFICES ASSUME n \notin B PROVE FALSE
    OBVIOUS
  <2>2. \A m \in B : next[m] \in B
    BY <1>3, <2>1
  <2> HIDE DEF B
  <2>3. B = InTable
    BY <1>3, <2>2 DEF IsRing
  <2> QED BY <2>1, <2>3
<1>5. ASSUME NEW m \in InTable, next[m] \in B, next[m] # m_key_list PROVE m \in B \ {n}
  <2>1. SUFFICES ASSUME m \notin B \ {n} PROVE FALSE
    OBVIOUS
  <2>2. \A x \in B \ {n} : next[x] # next[m]
    BY <1>1, <2>1
  <2>3. Walk(B \ {next[m]}) /\ B \ {next[m]} \in SUBSET InTable
    BY <1>3, <1>5, <2>2
  <2>4. next[m] \in B \ {next[m]}
    BY <1>5, <2>3
  <2> QED BY <2>4
<1>6. Ahead(n, W, m_key_list, next, removed)
  <2>1. SUFFICES ASSUME NEW m \in W \cup {n}, ~Ends(m, m_key_list, next, removed)
                 PROVE  next[m] \in W
    BY DEF Ahead
  <2>2. m \in InTable /\ m \notin removed
    BY <2>1 DEF IsRing
  <2>3. next[m] # m_key_list
    BY <2>1, <2>2 DEF Ends
  <2>4. next[m] \notin B
    BY <1>5, <2>1, <2>2, <2>3
  <2> QED BY <1>1, <2>2, <2>4
<1> QED BY <1>4, <1>6

\* A loop begins at the first node and has all others before it.
LEMMA BeginsAsLoop ==
  ASSUME IsRing(InTable, m_key_list, next, prev, removed), m_key_list # Null, NEW loop,
         loop.at = m_key_list, loop.seen = {m_key_list}, loop.owed = InTable \ {m_key_list},
         ~loop.dropped, ~loop.cut
  PROVE  IsLoop(loop, InTable, m_key_list, next, removed)
<1>1. /\ m_key_list \in InTable
      /\ \A m \in InTable : m \notin removed /\ next[m] \in InTable
  BY DEF IsRing
<1>2. Closed(InTable, next)
  BY <1>1 DEF Closed
<1>3. ASSUME NEW W \in SUBSET Nodes, Ahead(m_key_list, W, m_key_list, next, removed)
      PROVE  InTable \ {m_key_list} \subseteq W
  <2> DEFINE T == (W \cup {m_key_list}) \cap InTable
  <2>1. ASSUME NEW m \in T PROVE next[m] \in T
    <3>1. m \in InTable /\ m \in W \cup {m_key_list} /\ next[m] # Null
      BY <1>1 DEF InTable
    <3>2. CASE Ends(m, m_key_list, next, removed)
      BY <1>1, <3>1, <3>2 DEF Ends
    <3>3. CASE ~Ends(m, m_key_list, next, removed)
      BY <1>1, <1>3, <3>1, <3>3 DEF Ahead
    <3> QED BY <3>2, <3>3
  <2>2. m_key_list \in T /\ T \in SUBSET InTable
    BY <1>1
  <2> HIDE DEF T
  <2>3. T = InTable
    BY <2>1, <2>2 DEF IsRing
  <2> QED BY <2>3 DEF T
<1>4. PICK W \in SUBSET InTable :
        m_key_list \notin W /\ Ahead(m_key_list, W, m_key_list, next, removed)
  BY <1>1, NotBefore
<1>5. W \in SUBSET (InTable \cup removed) /\ W \cap loop.seen = {}
  BY <1>4
<1>6. IsWalk(loop, InTable, m_key_list, next, removed)
  BY <1>1, <1>2, <1>3, <1>4, <1>5 DEF IsWalk
<1> QED BY <1>1, <1>6 DEF IsLoop

\* A loop that is not dropped and is not at its end comes to a node of the list that it
\* was not called for, or to a removed one.
LEMMA ComesNext ==
  ASSUME NEW loop, IsLoop(loop, InTable, m_key_list, next, removed), ~loop.dropped,
         ~IsLast(loop.at)
  PROVE  /\ next[loop.at] \in InTable \cup removed
         /\ next[loop.at] \notin loop.seen
<1>1. IsWalk(loop, InTable, m_key_list, next, removed)
  BY DEF IsLoop
<1>2. ~Ends(loop.at, m_key_list, next, removed)
  BY DEF Ends, IsLast
<1>3. PICK W \in SUBSET (InTable \cup removed) :
        Ahead(loop.at, W, m_key_list, next, removed) /\ W \cap loop.seen = {}
  BY <1>1 DEF IsWalk
<1>4. next[loop.at] \in W
  BY <1>2, <1>3 DEF Ahead
<1> QED BY <1>3, <1>4

\* Then it is a loop at that node.
LEMMA MovesAsLoop ==
  ASSUME HashInv, NEW loop \in Loop, IsLoop(loop, InTable, m_key_list, next, removed),
         ~IsLast(loop.at), NEW moved, moved.at = next[loop.at], moved.dropped = loop.dropped,
         NEW called, called = (IF StopAt(moved.at) /\ ~loop.dropped THEN {moved.at} ELSE {}),
         moved.seen = loop.seen \cup called, moved.owed = loop.owed \ called,
         moved.cut = (loop.cut /\ ~StopAt(moved.at))
  PROVE  IsLoop(moved, InTable, m_key_list, next, removed)
<1> DEFINE n == moved.at
<1>1. IsRing(InTable, m_key_list, next, prev, removed) /\ InTable \subseteq Nodes
  BY Parts
<1>2. CASE loop.dropped
  BY <1>2 DEF IsLoop
<1>3. CASE ~loop.dropped
  <2>1. n \in InTable \cup removed
    BY <1>3, ComesNext
  <2>2. called \subseteq InTable
    BY <2>1 DEF StopAt
  <2>3. /\ moved.seen \subseteq InTable /\ moved.owed \subseteq InTable
        /\ moved.cut => moved.seen = {}
    BY <2>2 DEF IsLoop
  <2>4. IsWalk(loop, InTable, m_key_list, next, removed) /\ ~Ends(loop.at, m_key_list, next, removed)
    BY <1>3 DEF IsLoop, Ends, IsLast
  <2>5. \E C \in SUBSET (InTable \cup removed) : n \in C /\ Closed(C, next)
    <3>1. PICK C \in SUBSET (InTable \cup removed) : loop.at \in C /\ Closed(C, next)
      BY <2>4 DEF IsWalk
    <3>2. n \in C
      BY <2>4, <3>1 DEF Closed, Ends
    <3> QED BY <3>1, <3>2
  <2>6. ASSUME NEW W \in SUBSET Nodes, Ahead(n, W, m_key_list, next, removed)
        PROVE  moved.owed \subseteq W
    <3>1. Ahead(loop.at, W \cup {n}, m_key_list, next, removed) /\ n \in Nodes
      BY <2>6, <2>1, Parts DEF Ahead
    <3>2. loop.owed \subseteq W \cup {n} /\ loop.owed \subseteq InTable
      BY <2>4, <3>1 DEF IsWalk, IsLoop
    <3>3. n \notin called => n \notin InTable
      BY <1>1, <1>3 DEF StopAt, IsRing
    <3> QED BY <3>2, <3>3
  <2>7. \E W \in SUBSET (InTable \cup removed) :
          Ahead(n, W, m_key_list, next, removed) /\ W \cap moved.seen = {}
    <3>1. PICK W \in SUBSET (InTable \cup removed) :
            Ahead(loop.at, W, m_key_list, next, removed) /\ W \cap loop.seen = {}
      BY <2>4 DEF IsWalk
    <3>2. n \in W
      BY <2>4, <3>1 DEF Ahead
    <3>3. Ahead(n, W, m_key_list, next, removed)
      BY <3>1, <3>2 DEF Ahead
    <3>4. CASE called = {}
      BY <3>1, <3>3, <3>4
    <3>5. CASE called # {}
      <4>1. n \in InTable /\ called = {n}
        BY <2>2, <3>5
      <4>2. PICK V \in SUBSET InTable : n \notin V /\ Ahead(n, V, m_key_list, next, removed)
        BY <1>1, <4>1, NotBefore
      <4>3. Ahead(n, W \cap V, m_key_list, next, removed)
        BY <3>3, <4>2 DEF Ahead
      <4>4. W \cap V \in SUBSET (InTable \cup removed) /\ (W \cap V) \cap moved.seen = {}
        BY <3>1, <4>1, <4>2
      <4> QED BY <4>3, <4>4
    <3> QED BY <3>4, <3>5
  <2>8. IsWalk(moved, InTable, m_key_list, next, removed)
    BY <2>5, <2>6, <2>7 DEF IsWalk
  <2> QED BY <1>3, <2>3, <2>8 DEF IsLoop
<1> QED BY <1>2, <1>3

-------------------------------------------------------------------------------
(* The invariant.                                                            *)

\* The iterating flag needs an each for as long as the loops are the same ones.
LEMMA SameLoopsFlag ==
  ASSUME FlagMeansEach, DOMAIN loops' = DOMAIN loops, m_is_iterating' => m_is_iterating,
         \A i \in DOMAIN loops : loops'[i].method = loops[i].method
  PROVE  FlagMeansEach'
BY DEF FlagMeansEach

\* The innermost loop goes on at another place, or at the same one.
LEMMA InnerFacts ==
  ASSUME NEW ls \in Seq(Loop), ls # <<>>, NEW loop \in Loop
  PROVE  /\ Len(ls) \in DOMAIN ls /\ ls[Len(ls)] \in Loop
         /\ WithInner(ls, loop) \in Seq(Loop) /\ Len(WithInner(ls, loop)) = Len(ls)
         /\ DOMAIN WithInner(ls, loop) = DOMAIN ls
         /\ WithInner(ls, loop)[Len(ls)] = loop
         /\ \A i \in DOMAIN ls : i # Len(ls) => WithInner(ls, loop)[i] = ls[i]
BY DEF WithInner

\* The loops but the innermost are left by its end.
LEMMA OuterFacts ==
  ASSUME loops \in Seq(Loop), loops # <<>>
  PROVE  /\ Outer \in Seq(Loop) /\ Len(Outer) = Len(loops) - 1
         /\ DOMAIN Outer = DOMAIN loops \ {Len(loops)}
         /\ \A i \in DOMAIN Outer : i \in DOMAIN loops /\ Outer[i] = loops[i]
<1>1. Len(loops) \in Nat \ {0} /\ DOMAIN loops = 1..Len(loops)
  BY LenProperties, EmptySeq
<1>2. \A i \in 1..(Len(loops) - 1) : loops[i] \in Loop
  BY <1>1, ElementOfSeq
<1>3. /\ Outer \in Seq(Loop) /\ Len(Outer) = Len(loops) - 1
      /\ \A i \in 1..(Len(loops) - 1) : Outer[i] = loops[i]
  BY <1>1, <1>2, SubSeqProperties DEF Outer
<1>4. DOMAIN Outer = 1..(Len(loops) - 1)
  BY <1>3, LenProperties
<1> QED BY <1>1, <1>3, <1>4

\* Whether its block runs does not matter for a loop.
LEMMA AtBlock ==
  ASSUME NEW loop \in Loop, NEW b \in BOOLEAN
  PROVE  /\ [loop EXCEPT !.at_block = b] \in Loop
         /\ [loop EXCEPT !.at_block = b].at = loop.at
         /\ [loop EXCEPT !.at_block = b].at_block = b
         /\ [loop EXCEPT !.at_block = b].method = loop.method
         /\ \A in, first, nx, gone : IsLoop(loop, in, first, nx, gone)
                                     => IsLoop([loop EXCEPT !.at_block = b], in, first, nx, gone)
<1> DEFINE other == [loop EXCEPT !.at_block = b]
<1>1. /\ other \in Loop /\ other.at = loop.at /\ other.at_block = b /\ other.method = loop.method
      /\ other.seen = loop.seen /\ other.owed = loop.owed /\ other.dropped = loop.dropped
      /\ other.cut = loop.cut
  BY DEF Loop
<1> HIDE DEF other
<1>2. ASSUME NEW in, NEW first, NEW nx, NEW gone, IsLoop(loop, in, first, nx, gone)
      PROVE  IsLoop(other, in, first, nx, gone)
  BY <1>1, <1>2 DEF IsLoop, IsWalk
<1> QED BY <1>1, <1>2 DEF other

\* A new hash has an empty list and no loops.
LEMMA HashInitStep == HashInit => HashInv
<1> SUFFICES ASSUME HashInit PROVE HashInv
  OBVIOUS
<1> USE DEF HashInit
<1>1. Typed(table, m_key_list, next, prev, key, removed, loops)
  BY HashAssumption DEF Typed, Links
<1>2. In(table) = {} /\ InUse(key) = {}
  BY DEF In, InUse
<1>3. IsRing(In(table), m_key_list, next, prev, removed)
  BY <1>2 DEF IsRing
<1>4. Closed(InUse(key), next) /\ DOMAIN loops = {}
  BY <1>2 DEF Closed
<1>5. IsHash(table, m_key_list, next, prev, key, removed, loops)
  BY <1>1, <1>2, <1>3, <1>4 DEF IsHash
<1>6. FlagMeansEach
  BY DEF FlagMeansEach
<1> QED BY <1>5, <1>6 DEF HashInv

\* What every deletion does: the loops are told, and the innermost may go on.
LEMMA DeletionStep ==
  ASSUME HashInv, NEW k \in Keys, table[k] # Null, NEW ls,
         \/ ls = Tell(table[k])
         \/ /\ loops # <<>>
            /\ ls = WithInner(Tell(table[k]), [Tell(table[k])[Len(Tell(table[k]))] EXCEPT !.at_block = FALSE]),
         RemoveKey(k, ls)
  PROVE  /\ IsHash(table, m_key_list, next, prev, key, removed, loops)'
         /\ \A m \in Nodes \ InUse(key') : next'[m] = Null
         /\ InTable' = InTable \ {table[k]} /\ DOMAIN loops' = DOMAIN loops
         /\ \A i \in DOMAIN loops : /\ loops'[i].method = loops[i].method
                                    /\ loops'[i].at_block => loops[i].at_block
<1> DEFINE n == table[k]
           told == Tell(n)
<1>1. n \in InTable /\ loops \in Seq(Loop) /\ Len(loops) <= MaxLoops
      /\ \A i \in DOMAIN loops : loops[i] \in Loop /\ loops[i].at \in InUse(key)
  BY Parts
<1>2. /\ told \in Seq(Loop) /\ Len(told) = Len(loops) /\ DOMAIN told = DOMAIN loops
      /\ \A i \in DOMAIN loops :
           /\ told[i] \in Loop
           /\ told[i].at = loops[i].at /\ told[i].method = loops[i].method
           /\ told[i].at_block = loops[i].at_block
           /\ IsLoop(told[i], InTable \ {n}, FirstWithout(n), Unlinked(n)[1], removed \cup {n})
  BY <1>1, TellKeeps
<1> HIDE DEF told
<1>3. /\ ls \in Seq(Loop) /\ Len(ls) = Len(loops) /\ DOMAIN ls = DOMAIN loops
      /\ \A i \in DOMAIN loops :
           /\ ls[i].at = loops[i].at /\ ls[i].method = loops[i].method
           /\ ls[i].at_block => loops[i].at_block
           /\ IsLoop(ls[i], InTable \ {n}, FirstWithout(n), Unlinked(n)[1], removed \cup {n})
  <2>1. CASE ls = told
    BY <1>2, <2>1
  <2>2. CASE loops # <<>> /\ ls = WithInner(told, [told[Len(told)] EXCEPT !.at_block = FALSE])
    <3> DEFINE last == told[Len(told)]
               loop == [last EXCEPT !.at_block = FALSE]
    <3>1. Len(loops) \in DOMAIN loops /\ told # <<>>
      BY <1>1, <1>2, <2>2
    <3>2. last \in Loop
      BY <1>2, <3>1
    <3> HIDE DEF last
    <3>3. /\ loop \in Loop /\ loop.at = last.at /\ loop.at_block = FALSE /\ loop.method = last.method
          /\ \A in, first, nx, gone : IsLoop(last, in, first, nx, gone)
                                      => IsLoop(loop, in, first, nx, gone)
      BY <3>2, AtBlock
    <3> HIDE DEF loop
    <3>4. ls = WithInner(told, loop)
      BY <2>2 DEF loop, last
    <3>5. /\ ls \in Seq(Loop) /\ Len(ls) = Len(told) /\ DOMAIN ls = DOMAIN told
          /\ ls[Len(told)] = loop /\ \A i \in DOMAIN told : i # Len(told) => ls[i] = told[i]
      BY <1>2, <3>1, <3>3, <3>4, InnerFacts
    <3>6. last = told[Len(loops)]
      BY <1>2 DEF last
    <3> QED BY <1>2, <3>1, <3>3, <3>5, <3>6
  <2> QED BY <2>1, <2>2 DEF told
<1>4. \A i \in DOMAIN ls : ls[i].at \in InUse(key)
  BY <1>1, <1>3
<1>5. /\ IsHash(table, m_key_list, next, prev, key, removed, loops)'
      /\ \A m \in Nodes \ InUse(key') : next'[m] = Null
      /\ InTable' = InTable \ {n} /\ loops' = ls
  BY <1>1, <1>3, <1>4, RemoveKeeps
<1> QED BY <1>3, <1>5

\* A block that is called newly is called for a pair that is there.
NewVisits ==
  \A i \in DOMAIN loops' :
    /\ loops'[i].at_block /\ ~loops'[i].dropped
    /\ i \in DOMAIN loops => ~loops[i].at_block
    => loops'[i].at \in InTable'

\* Steps of the block that change the hash: no block is called by them.
LEMMA BlockChangesStep ==
  ASSUME HashInv,
         \/ \E k \in Keys : Put(k) \/ Delete(k)
         \/ Shift \/ BlockAccepts
  PROVE  HashInv' /\ NewVisits
<1>1. m_is_iterating \in BOOLEAN /\ FlagMeansEach
  BY DEF HashInv
<1>2. ASSUME NEW k \in Keys, Put(k) PROVE HashInv' /\ NewVisits
  <2>1. /\ IsHash(table, m_key_list, next, prev, key, removed, loops)'
        /\ \A m \in Nodes \ InUse(key') : next'[m] = Null
        /\ loops' = loops
    BY <1>2, PutStep
  <2>2. m_is_iterating' = m_is_iterating
    BY <1>2 DEF Put
  <2>3. FlagMeansEach'
    BY <1>1, <2>1, <2>2, SameLoopsFlag
  <2> QED BY <1>1, <2>1, <2>2, <2>3 DEF HashInv, NewVisits
<1>3. ASSUME NEW k \in Keys, Delete(k) PROVE HashInv' /\ NewVisits
  <2>1. table[k] # Null /\ RemoveKey(k, Tell(table[k])) /\ m_is_iterating' = m_is_iterating
    BY <1>3 DEF Delete
  <2>2. /\ IsHash(table, m_key_list, next, prev, key, removed, loops)'
        /\ \A m \in Nodes \ InUse(key') : next'[m] = Null
        /\ DOMAIN loops' = DOMAIN loops
        /\ \A i \in DOMAIN loops : /\ loops'[i].method = loops[i].method
                                   /\ loops'[i].at_block => loops[i].at_block
    BY <2>1, DeletionStep
  <2>3. FlagMeansEach'
    BY <1>1, <2>1, <2>2, SameLoopsFlag
  <2> QED BY <1>1, <2>1, <2>2, <2>3 DEF HashInv, NewVisits
<1>4. ASSUME Shift PROVE HashInv' /\ NewVisits
  <2> DEFINE k == key[m_key_list]
  <2>1. m_key_list # Null /\ RemoveKey(k, Tell(m_key_list)) /\ m_is_iterating' = FALSE
    BY <1>4 DEF Shift
  <2>2. m_key_list \in InTable
    BY <2>1, Parts DEF IsRing
  <2>3. k \in Keys /\ table[k] = m_key_list
    BY <2>2, Parts DEF InTable
  <2> HIDE DEF k
  <2>4. /\ IsHash(table, m_key_list, next, prev, key, removed, loops)'
        /\ \A m \in Nodes \ InUse(key') : next'[m] = Null
        /\ DOMAIN loops' = DOMAIN loops
        /\ \A i \in DOMAIN loops : loops'[i].at_block => loops[i].at_block
    BY <2>1, <2>3, DeletionStep
  <2>5. FlagMeansEach'
    BY <2>1 DEF FlagMeansEach
  <2> QED BY <2>1, <2>4, <2>5 DEF HashInv, NewVisits
<1>5. ASSUME BlockAccepts PROVE HashInv' /\ NewVisits
  <2> DEFINE k == key[Inner.at]
             told == Tell(table[k])
  <2>1. /\ loops # <<>> /\ table[k] # Null /\ m_is_iterating' = m_is_iterating
        /\ RemoveKey(k, WithInner(told, [told[Len(told)] EXCEPT !.at_block = FALSE]))
    BY <1>5 DEF BlockAccepts
  <2>2. Inner.at \in InUse(key)
    <3>1. loops \in Seq(Loop) /\ \A i \in DOMAIN loops : loops[i].at \in InUse(key)
      BY Parts
    <3>2. Len(loops) \in DOMAIN loops
      BY <2>1, <3>1
    <3> QED BY <3>1, <3>2 DEF Inner
  <2>3. k \in Keys
    BY <2>2, Parts DEF InUse, Typed
  <2> HIDE DEF k
  <2>4. /\ IsHash(table, m_key_list, next, prev, key, removed, loops)'
        /\ \A m \in Nodes \ InUse(key') : next'[m] = Null
        /\ DOMAIN loops' = DOMAIN loops
        /\ \A i \in DOMAIN loops : /\ loops'[i].method = loops[i].method
                                   /\ loops'[i].at_block => loops[i].at_block
    BY <2>1, <2>3, DeletionStep
  <2>5. FlagMeansEach'
    BY <1>1, <2>1, <2>4, SameLoopsFlag
  <2> QED BY <1>1, <2>1, <2>4, <2>5 DEF HashInv, NewVisits
<1> QED BY <1>2, <1>3, <1>4, <1>5

\* Steps that give the hash a new list: all loops over the old one are dropped.
LEMMA NewListStep ==
  ASSUME HashInv, Rehash \/ Clear \/ \E ks \in Sequences : Replace(ks)
  PROVE  HashInv' /\ NewVisits
<1>1. m_is_iterating \in BOOLEAN /\ FlagMeansEach
  BY DEF HashInv
<1>2. \E ks \in Sequences : Rebuild(ks)
  <2>1. <<>> \in Sequences
    <3>1. 0 \in 0..Cardinality(Keys) /\ <<>> \in [1..0 -> Keys]
      BY HashAssumption, FS_CardinalityType
    <3> QED BY <3>1 DEF Sequences
  <2> QED BY <2>1 DEF Rehash, Clear, Replace
<1>3. m_is_iterating' \in {m_is_iterating, FALSE}
  BY DEF Rehash, Clear, Replace
<1>4. /\ IsHash(table, m_key_list, next, prev, key, removed, loops)'
      /\ \A n \in Nodes \ InUse(key') : next'[n] = Null
      /\ loops' = [i \in DOMAIN loops |-> ListDropped(loops[i])]
  BY <1>2, Rebuilt
<1>5. \A loop \in Loop : ListDropped(loop).dropped /\ ListDropped(loop).method = loop.method
  BY DEF ListDropped, Loop
<1>6. /\ DOMAIN loops' = DOMAIN loops
      /\ \A i \in DOMAIN loops : loops'[i].dropped /\ loops'[i].method = loops[i].method
  BY <1>4, <1>5, Parts
<1>7. FlagMeansEach'
  <2>1. m_is_iterating' => m_is_iterating
    BY <1>1, <1>3
  <2> QED BY <1>1, <1>6, <2>1, SameLoopsFlag
<1> QED BY <1>1, <1>3, <1>4, <1>6, <1>7 DEF HashInv, NewVisits

\* A loop begins: its block is called for the first pair.
LEMMA BeginStep ==
  ASSUME HashInv, NEW method \in {"each", "delete_if"}, Begin(method)
  PROVE  HashInv' /\ NewVisits
<1>1. m_is_iterating \in BOOLEAN /\ FlagMeansEach
  BY DEF HashInv
<1> DEFINE loop == [method |-> method, at |-> m_key_list, at_block |-> TRUE,
                    seen |-> {m_key_list}, owed |-> InTable \ {m_key_list},
                    dropped |-> FALSE, cut |-> FALSE]
<1>2. /\ LoopsBecome(IF m_key_list = Null THEN loops ELSE Append(loops, loop))
      /\ m_is_iterating' = IF method = "each" THEN m_key_list # Null ELSE m_is_iterating
      /\ Len(loops) < MaxLoops
  BY DEF Begin
<1>3. /\ loops \in Seq(Loop) /\ Len(loops) <= MaxLoops
      /\ \A i \in DOMAIN loops : /\ loops[i].at \in InUse(key)
                                 /\ IsLoop(loops[i], InTable, m_key_list, next, removed)
      /\ IsRing(InTable, m_key_list, next, prev, removed)
      /\ InTable \subseteq Nodes /\ InTable \subseteq InUse(key)
  BY Parts
<1>4. CASE m_key_list = Null
  <2>1. /\ IsHash(table, m_key_list, next, prev, key, removed, loops)'
        /\ \A m \in Nodes \ InUse(key') : next'[m] = Null
        /\ loops' = loops
    BY <1>2, <1>3, <1>4, LoopsStep
  <2>2. m_is_iterating' \in BOOLEAN /\ (m_is_iterating' => m_is_iterating)
    BY <1>1, <1>2, <1>4
  <2>3. FlagMeansEach'
    BY <1>1, <2>1, <2>2, SameLoopsFlag
  <2> QED BY <2>1, <2>2, <2>3 DEF HashInv, NewVisits
<1>5. CASE m_key_list # Null
  <2>1. m_key_list \in InTable
    BY <1>3, <1>5 DEF IsRing
  <2>2. loop \in Loop
    BY <1>3, <2>1 DEF Loop
  <2>3. loop.method = method /\ loop.at = m_key_list /\ loop.at_block = TRUE
    OBVIOUS
  <2>4. IsLoop(loop, InTable, m_key_list, next, removed)
    BY <1>3, <1>5, BeginsAsLoop
  <2> HIDE DEF loop
  <2> DEFINE ls == Append(loops, loop)
  <2>5. /\ ls \in Seq(Loop) /\ Len(ls) = Len(loops) + 1 /\ Len(loops) \in Nat
        /\ DOMAIN ls = 1..(Len(loops) + 1) /\ DOMAIN loops = 1..Len(loops)
        /\ ls[Len(loops) + 1] = loop /\ \A i \in 1..Len(loops) : ls[i] = loops[i]
    BY <1>3, <2>2
  <2> HIDE DEF ls
  <2>6. \A i \in DOMAIN ls : ls[i].at \in InUse(key) /\ IsLoop(ls[i], InTable, m_key_list, next, removed)
    BY <1>3, <2>1, <2>3, <2>4, <2>5
  <2>7. Len(ls) <= MaxLoops
    BY <1>2, <2>5, HashAssumption
  <2>8. /\ IsHash(table, m_key_list, next, prev, key, removed, loops)'
        /\ \A m \in Nodes \ InUse(key') : next'[m] = Null
        /\ InTable' = InTable /\ loops' = ls
    BY <1>2, <1>5, <2>5, <2>6, <2>7, LoopsStep DEF ls
  <2>9. m_is_iterating' \in BOOLEAN
    BY <1>1, <1>2
  <2>10. FlagMeansEach'
    <3>1. CASE method = "each"
      BY <2>3, <2>5, <2>8, <3>1 DEF FlagMeansEach
    <3>2. CASE method # "each"
      BY <1>1, <1>2, <2>5, <2>8, <3>2 DEF FlagMeansEach
    <3> QED BY <3>1, <3>2
  <2>11. NewVisits
    BY <2>1, <2>3, <2>5, <2>8 DEF NewVisits
  <2> QED BY <2>8, <2>9, <2>10, <2>11 DEF HashInv
<1> QED BY <1>4, <1>5

\* The innermost loop goes on: its block returned, or operator++ is called.
LEMMA GoOnStep ==
  ASSUME HashInv, BlockReturns \/ Increment
  PROVE  HashInv' /\ NewVisits
<1>1. /\ m_is_iterating \in BOOLEAN /\ FlagMeansEach
      /\ loops # <<>> /\ m_is_iterating' = m_is_iterating
  BY DEF HashInv, BlockReturns, Increment
<1>2. /\ loops \in Seq(Loop) /\ Len(loops) <= MaxLoops
      /\ \A i \in DOMAIN loops : /\ loops[i] \in Loop /\ loops[i].at \in InUse(key)
                                 /\ IsLoop(loops[i], InTable, m_key_list, next, removed)
      /\ Closed(InUse(key), next) /\ InUse(key) \subseteq Nodes /\ InTable \subseteq Nodes
      /\ Len(loops) \in DOMAIN loops
  BY <1>1, Parts
<1>3. /\ Inner \in Loop /\ Inner = loops[Len(loops)] /\ Inner.at \in InUse(key)
      /\ IsLoop(Inner, InTable, m_key_list, next, removed)
  BY <1>2 DEF Inner
<1>4. ASSUME NEW loop \in Loop, LoopsBecome(WithInner(loops, loop)), loop.at \in InUse(key),
             IsLoop(loop, InTable, m_key_list, next, removed), loop.method = Inner.method,
             loop.at_block /\ ~loop.dropped => loop.at \in InTable
      PROVE  HashInv' /\ NewVisits
  <2> DEFINE ls == WithInner(loops, loop)
  <2>1. /\ ls \in Seq(Loop) /\ Len(ls) = Len(loops) /\ DOMAIN ls = DOMAIN loops
        /\ ls[Len(loops)] = loop /\ \A i \in DOMAIN loops : i # Len(loops) => ls[i] = loops[i]
    BY <1>1, <1>2, InnerFacts
  <2>2. LoopsBecome(ls)
    BY <1>4
  <2> HIDE DEF ls
  <2>3. /\ IsHash(table, m_key_list, next, prev, key, removed, loops)'
        /\ \A m \in Nodes \ InUse(key') : next'[m] = Null
        /\ InTable' = InTable /\ loops' = ls
    BY <1>2, <1>4, <2>1, <2>2, LoopsStep
  <2>4. \A i \in DOMAIN loops : loops'[i].method = loops[i].method
    BY <1>3, <1>4, <2>1, <2>3
  <2>5. FlagMeansEach'
    BY <1>1, <2>1, <2>3, <2>4, SameLoopsFlag
  <2>6. NewVisits
    BY <1>4, <2>1, <2>3 DEF NewVisits
  <2> QED BY <1>1, <2>3, <2>5, <2>6 DEF HashInv
<1>5. CASE BlockReturns
  <2> DEFINE loop == [Inner EXCEPT !.at_block = FALSE]
  <2>1. LoopsBecome(WithInner(loops, loop))
    BY <1>5 DEF BlockReturns
  <2>2. /\ loop \in Loop /\ loop.at = Inner.at /\ loop.at_block = FALSE /\ loop.method = Inner.method
        /\ IsLoop(loop, InTable, m_key_list, next, removed)
    BY <1>3, AtBlock
  <2> HIDE DEF loop
  <2> QED BY <1>3, <1>4, <2>1, <2>2
<1>6. CASE Increment
  <2> DEFINE n == next[Inner.at]
             called == IF StopAt(n) /\ ~Inner.dropped THEN {n} ELSE {}
             loop == [Inner EXCEPT !.at = n, !.at_block = StopAt(n), !.seen = @ \cup called,
                                   !.owed = @ \ called, !.cut = @ /\ ~StopAt(n)]
  <2>1. LoopsBecome(WithInner(loops, loop)) /\ ~IsLast(Inner.at)
    BY <1>6 DEF Increment
  <2>2. n \in InUse(key) /\ n \in Nodes
    BY <1>2, <1>3, <2>1 DEF Closed, IsLast
  <2>3. StopAt(n) \in BOOLEAN /\ called \subseteq Nodes
    BY <2>2 DEF StopAt
  <2> HIDE DEF n
  <2>4. /\ loop \in Loop /\ loop.at = n /\ loop.at_block = StopAt(n)
        /\ loop.method = Inner.method /\ loop.dropped = Inner.dropped
        /\ loop.seen = Inner.seen \cup called /\ loop.owed = Inner.owed \ called
        /\ loop.cut = (Inner.cut /\ ~StopAt(n))
    <3>1. /\ Inner.seen \cup called \in SUBSET Nodes /\ Inner.owed \ called \in SUBSET Nodes
          /\ (Inner.cut /\ ~StopAt(n)) \in BOOLEAN
      BY <1>3, <2>3 DEF Loop
    <3> DEFINE cut == Inner.cut /\ ~StopAt(n)
               stop == StopAt(n)
               seen == Inner.seen \cup called
               owed == Inner.owed \ called
    <3>2. loop = [Inner EXCEPT !.at = n, !.at_block = stop, !.seen = seen, !.owed = owed, !.cut = cut]
      OBVIOUS
    <3>3. /\ Inner \in Loop /\ n \in Nodes /\ stop \in BOOLEAN /\ called \in SUBSET Nodes
          /\ cut \in BOOLEAN /\ seen \in SUBSET Nodes /\ owed \in SUBSET Nodes
      BY <1>3, <2>2, <2>3, <3>1
    <3> HIDE DEF loop, called, cut, stop, seen, owed
    <3>4. /\ loop \in Loop /\ loop.at = n /\ loop.at_block = stop
          /\ loop.method = Inner.method /\ loop.dropped = Inner.dropped
          /\ loop.seen = seen /\ loop.owed = owed /\ loop.cut = cut
      BY <3>2, <3>3 DEF Loop
    <3> QED BY <3>4 DEF cut, stop, seen, owed
  <2> HIDE DEF loop
  <2>5. IsLoop(loop, InTable, m_key_list, next, removed)
    BY <1>3, <2>1, <2>4, MovesAsLoop DEF n
  <2>6. loop.at_block /\ ~loop.dropped => loop.at \in InTable
    BY <1>3, <2>1, <2>4, ComesNext DEF n, StopAt
  <2> QED BY <1>4, <2>1, <2>2, <2>4, <2>5, <2>6
<1> QED BY <1>5, <1>6

\* The innermost loop ends, and with it an each the flag.
LEMMA EndStep ==
  ASSUME HashInv, Leave \/ IterationEnds
  PROVE  HashInv' /\ NewVisits
<1>1. /\ m_is_iterating \in BOOLEAN /\ FlagMeansEach
      /\ loops # <<>> /\ LoopsBecome(Outer) /\ m_is_iterating' = FlagAfter
  BY DEF HashInv, Leave, IterationEnds, EndLoop
<1>2. /\ loops \in Seq(Loop) /\ Len(loops) <= MaxLoops
      /\ \A i \in DOMAIN loops : /\ loops[i].at \in InUse(key)
                                 /\ IsLoop(loops[i], InTable, m_key_list, next, removed)
  BY Parts
<1>3. /\ Outer \in Seq(Loop) /\ Len(Outer) = Len(loops) - 1
      /\ DOMAIN Outer = DOMAIN loops \ {Len(loops)}
      /\ \A i \in DOMAIN Outer : i \in DOMAIN loops /\ Outer[i] = loops[i]
  BY <1>1, <1>2, OuterFacts
<1>4. Len(Outer) <= MaxLoops /\ \A i \in DOMAIN Outer : /\ Outer[i].at \in InUse(key)
                                 /\ IsLoop(Outer[i], InTable, m_key_list, next, removed)
  BY <1>2, <1>3, HashAssumption
<1>5. /\ IsHash(table, m_key_list, next, prev, key, removed, loops)'
      /\ \A m \in Nodes \ InUse(key') : next'[m] = Null
      /\ loops' = Outer
  BY <1>1, <1>3, <1>4, LoopsStep
<1>6. m_is_iterating' \in BOOLEAN /\ FlagMeansEach'
  <2>1. CASE Inner.method = "each"
    BY <1>1, <2>1 DEF FlagAfter, FlagMeansEach
  <2>2. CASE Inner.method # "each"
    BY <1>1, <1>3, <1>5, <2>2 DEF FlagAfter, FlagMeansEach, Inner
  <2> QED BY <2>1, <2>2
<1>7. NewVisits
  BY <1>3, <1>5 DEF NewVisits
<1> QED BY <1>5, <1>6, <1>7 DEF HashInv

\* So does every step.
LEMMA HashStep == ASSUME HashInv, HashNext PROVE HashInv' /\ NewVisits
BY BlockChangesStep, NewListStep, BeginStep, GoOnStep, EndStep DEF HashNext

\* Nothing happens to the hash.
LEMMA HashStutter == ASSUME HashInv, UNCHANGED hashVars PROVE HashInv'
BY DEF HashInv, hashVars, FlagMeansEach

\* The invariant holds at all times.
LEMMA HashInvariance == HashSpec => []HashInv
<1>1. HashInv /\ [HashNext]_hashVars => HashInv'
  BY HashStep, HashStutter
<1> QED BY HashInitStep, <1>1, PTL DEF HashSpec

-------------------------------------------------------------------------------
(* What it gives.                                                            *)

\* The table and the list are two views of the same pairs.
LEMMA RingIsAll == HashInv => TableIsTheRing
<1> SUFFICES ASSUME HashInv PROVE TableIsTheRing
  OBVIOUS
<1>1. /\ Typed(table, m_key_list, next, prev, key, removed, loops) /\ m_is_iterating \in BOOLEAN
      /\ IsRing(InTable, m_key_list, next, prev, removed) /\ InTable \subseteq Nodes /\ next \in Links
  BY Parts DEF HashInv
<1>2. HashTypeOK
  BY <1>1 DEF Typed, Links, HashTypeOK
<1>3. LinksAgree
  BY <1>1 DEF IsRing, LinksAgree
<1>4. ASSUME m_key_list # Null PROVE Following({m_key_list}, next) = InTable
  <2> DEFINE F == Following({m_key_list}, next)
  <2>1. m_key_list \in InTable /\ {m_key_list} \in SUBSET Nodes
    BY <1>1, <1>4 DEF IsRing
  <2>2. {m_key_list} \subseteq F /\ Closed(F, next)
        /\ \A T \in SUBSET Nodes : {m_key_list} \subseteq T /\ Closed(T, next) => F \subseteq T
    BY <1>1, <2>1, FollowingFacts
  <2> HIDE DEF F
  <2>3. Closed(InTable, next) /\ \A n \in InTable : next[n] \in InTable /\ next[n] # Null
    BY <1>1 DEF IsRing, Closed, InTable
  <2>4. F \subseteq InTable
    BY <1>1, <2>1, <2>2, <2>3
  <2>5. \A n \in F : next[n] \in F
    BY <2>2, <2>3, <2>4 DEF Closed
  <2>6. F = InTable
    BY <1>1, <2>2, <2>4, <2>5 DEF IsRing
  <2> QED BY <2>6 DEF F
<1> QED BY <1>2, <1>3, <1>4 DEF TableIsTheRing, OneRing

\* Whatever blocks do to the hash, its table (m_hashmap) and the list of HashKeys hold the
\* same pairs, and a walk from m_key_list finds each of them.
THEOREM TableAndRing == HashSpec => []TableIsTheRing
BY HashInvariance, RingIsAll, PTL

\* m_is_iterating, which makes put refuse new keys, is never left on by the loops before.
THEOREM FlagIsTrue == HashSpec => []FlagMeansEach
<1>1. HashInv => FlagMeansEach
  BY DEF HashInv
<1> QED BY <1>1, HashInvariance, PTL

\* A loop whose list was not dropped calls its block for pairs only that are in the hash,
\* though its blocks, and those of loops inside, delete any of them.
THEOREM OnlyThePresent == HashSpec => VisitsThePresent
<1> DEFINE A == \A i \in DOMAIN loops' :
                  /\ loops'[i].at_block /\ ~loops'[i].dropped
                  /\ i \in DOMAIN loops => ~loops[i].at_block
                  => loops'[i].at \in InTable'
<1>1. HashInv /\ [HashNext]_hashVars => [A]_hashVars
  BY HashStep DEF NewVisits
<1>2. HashSpec => [][A]_hashVars
  BY <1>1, HashInvariance, PTL DEF HashSpec
<1> QED BY <1>2 DEF VisitsThePresent

\* A loop whose list was not dropped calls its block for every pair that is in the hash
\* from its begin to its end.  It does so once for each, in every stretch of its calls in
\* which no list was dropped and no last node was deleted with the iterator at it or at
\* removed nodes that led to it: there operator++ comes to the first node again, and pairs
\* it was called for may follow.
THEOREM AllOfThemOnce == HashSpec => VisitsAllOnce
<1>1. ASSUME HashInv, IterationEnds PROVE Inner.dropped \/ Inner.owed = {}
  <2>1. loops # <<>> /\ IsLast(Inner.at)
    BY <1>1 DEF IterationEnds
  <2>2. IsLoop(Inner, InTable, m_key_list, next, removed)
    <3>1. Len(loops) \in DOMAIN loops
      BY <1>1, <2>1, Parts
    <3> QED BY <1>1, <3>1, Parts DEF Inner
  <2>3. Ahead(Inner.at, {}, m_key_list, next, removed)
    BY <2>1 DEF Ahead, Ends, IsLast
  <2>4. {} \in SUBSET Nodes
    OBVIOUS
  <2> QED BY <2>2, <2>3, <2>4 DEF IsLoop, IsWalk
<1>2. ASSUME HashInv, Increment, StopAt(next[Inner.at]) PROVE next[Inner.at] \notin Inner.seen
  <2>1. loops # <<>> /\ ~IsLast(Inner.at)
    BY <1>2 DEF Increment
  <2>2. IsLoop(Inner, InTable, m_key_list, next, removed)
    <3>1. Len(loops) \in DOMAIN loops
      BY <1>2, <2>1, Parts
    <3> QED BY <1>2, <3>1, Parts DEF Inner
  <2>3. CASE Inner.dropped
    BY <2>2, <2>3 DEF IsLoop
  <2>4. CASE ~Inner.dropped
    BY <2>1, <2>2, <2>4, ComesNext
  <2> QED BY <2>3, <2>4
<1> DEFINE Complete == IterationEnds => Inner.dropped \/ Inner.owed = {}
           Once == Increment /\ StopAt(next[Inner.at]) => next[Inner.at] \notin Inner.seen
<1>3. HashInv => Complete /\ Once
  BY <1>1, <1>2
<1>4. HashSpec => [][Complete]_hashVars /\ [][Once]_hashVars
  BY <1>3, HashInvariance, PTL DEF HashSpec
<1> QED BY <1>4 DEF VisitsAllOnce, NothingSkipped, EachPairOnce

===============================================================================
