-------------------------- MODULE MemManager_proofs --------------------------
(***************************************************************************)
(* A page of memory has one holder, for every number of pages, processes,  *)
(* servers and kernel stack blocks.  The hard step is the end of a thread: *)
(* its pages become free while its process keeps the others, so they must  *)
(* not be among those.                                                     *)
(***************************************************************************)
EXTENDS MemManager, ListLemmas, FiniteSetTheorems

Cell == Page \cup {NONE}
Space ==
  [phase: {"running", "doomed"}, pages: SUBSET Page, dllTables: SUBSET Page, dllPages: SUBSET Page,
   dlls: Nat, heapTable: [HeapTable -> Cell], heap: [0 .. MaxHeap - 1 -> Cell],
   gui: Cell, thread: (SUBSET Page) \cup {NONE}]

\* What a process holds besides its thread's pages.
Main(s) == s.pages \cup s.dllTables \cup s.dllPages \cup Range(s.heapTable) \cup Range(s.heap) \cup {s.gui}

Fault == [process: Process, addr: Int, at: {"table", "page"}, absent: BOOLEAN]

\* The shape of the state; a fault is one of a process that is there.
Shape ==
  /\ space \in [Process -> Space \cup {NoSpace, Gone}]
  /\ stackBlock \in [KernelStackBlock -> (SUBSET Page) \cup {NONE}]
  /\ device \subseteq Page
  /\ fault \in [Server -> Fault \cup {NONE}]
  /\ \A s \in Server : fault[s] # NONE => space[fault[s].process] \in Space

\* Registers are none of the kernel's pages: while it boots, all of those are
\* taken.
Marks ==
  /\ device \cap Reserved = {}
  /\ Booting => Reserved \subseteq used

\* The pages of a thread are none of the others of its process.
ThreadApart ==
  \A p \in Process : space[p] \in Space /\ space[p].thread # NONE =>
    space[p].thread \cap (Main(space[p]) \ {NONE, 0}) = {}

IInv == Shape /\ Marks /\ ThreadApart /\ PagesOwnedOnce

-----------------------------------------------------------------------------
(* Page 0 is the kernel's and NONE is no page: neither is ever given out.  *)
LEMMA FreePages ==
  ASSUME MemManagerAssumption, NEW n
  PROVE  Lowest(n) \subseteq Free /\ Free \subseteq Page \ (used \cup Reserved \cup {0, NONE})
<1>1. Free \subseteq Page /\ Free \cap Reserved = {} /\ Free \cap used = {}
  BY DEF Free
<1>2. NONE \notin Page /\ 0 \in Reserved
  BY DEF MemManagerAssumption, Reserved
<1> QED
  BY <1>1, <1>2 DEF Lowest

LEMMA LowestGrows ==
  ASSUME MemManagerAssumption, NEW m \in Int, NEW n \in Int, m <= n
  PROVE  Lowest(m) \subseteq Lowest(n)
<1>1. IsFiniteSet(Page)
  BY FS_Interval DEF MemManagerAssumption, Page
<1>2. ASSUME NEW x \in Free PROVE Cardinality({y \in Free : y < x}) \in Nat
  <2>1. {y \in Free : y < x} \subseteq Page
    BY DEF Free
  <2> QED
    BY <1>1, <2>1, FS_Subset, FS_CardinalityType
<1> QED
  BY <1>2 DEF Lowest

LEMMA TableCount ==
  ASSUME MemManagerAssumption, NEW m \in Nat, NEW n \in Nat, m <= n
  PROVE  Tables(m) \in Nat /\ Tables(n) \in Nat /\ Tables(m) <= Tables(n)
BY DEF MemManagerAssumption, Tables

(* What an address space holds, by its shape.                              *)
LEMMA Holdings ==
  ASSUME NEW s \in Space \cup {NoSpace, Gone}
  PROVE  /\ s \notin Space => InSpace(s) = {}
         /\ s \in Space => InSpace(s) = (Main(s) \cup (IF s.thread = NONE THEN {} ELSE s.thread)) \ {NONE, 0}
BY DEF Space, NoSpace, Gone, InSpace, Main

(* A process gets free pages.                                              *)
LEMMA SpaceGrows ==
  ASSUME MemManagerAssumption, IInv,
         NEW p \in Process, NEW new \in Space \cup {NoSpace, Gone}, NEW L \in SUBSET Free,
         space' = [space EXCEPT ![p] = new], used \cup L \subseteq used',
         UNCHANGED <<stackBlock, device>>,
         InSpace(new) \subseteq InSpace(space[p]) \cup L
  PROVE  PagesOwnedOnce'
<1>1. L \cap (used \cup Reserved) = {}
  BY FreePages
<1>2. \A q \in Process : space'[q] = IF q = p THEN new ELSE space[q]
  BY DEF IInv, Shape
<1>3. InBlocks' = InBlocks
  BY DEF InBlocks
<1>4. \A q \in Process : InSpace(space[q]) \subseteq used
  BY DEF IInv, PagesOwnedOnce
<1>5. \A q \in Process : InSpace(space'[q]) \subseteq used'
  BY <1>2, <1>4
<1>6. \A q, r \in Process : q # r => InSpace(space'[q]) \cap InSpace(space'[r]) = {}
  BY <1>1, <1>2, <1>4 DEF IInv, PagesOwnedOnce
<1>7. InBlocks \cup device \subseteq used
  BY DEF IInv, PagesOwnedOnce
<1>8. \A q \in Process : InSpace(space'[q]) \cap (InBlocks' \cup device' \cup Reserved) = {}
  BY <1>1, <1>2, <1>3, <1>7 DEF IInv, PagesOwnedOnce
<1>9. InBlocks' \cup device' \cup UNION {InSpace(space'[q]) : q \in Process} \subseteq used'
  BY <1>3, <1>5, <1>7
<1> QED
  BY <1>3, <1>6, <1>8, <1>9 DEF IInv, PagesOwnedOnce

(* A process gives pages back.                                             *)
LEMMA SpaceShrinks ==
  ASSUME MemManagerAssumption, IInv,
         NEW p \in Process, NEW new \in Space \cup {NoSpace, Gone}, NEW back,
         space' = [space EXCEPT ![p] = new], used' = used \ back,
         UNCHANGED <<stackBlock, device>>,
         back \subseteq InSpace(space[p]) \cup {NONE, 0},
         InSpace(new) \subseteq InSpace(space[p]) \ back
  PROVE  PagesOwnedOnce'
<1>1. \A q \in Process : space'[q] = IF q = p THEN new ELSE space[q]
  BY DEF IInv, Shape
<1>2. InBlocks' = InBlocks
  BY DEF InBlocks
<1>3. \A q \in Process : InSpace(space[q]) \subseteq used /\ InSpace(space[q]) \cap {NONE, 0} = {}
  BY DEF IInv, PagesOwnedOnce, InSpace
<1>4. (InBlocks \cup device) \cap {NONE, 0} = {}
  <2>1. InBlocks \subseteq Page
    BY DEF IInv, Shape, InBlocks
  <2>2. NONE \notin Page /\ 0 \in Reserved
    BY DEF MemManagerAssumption, Reserved
  <2> QED
    BY <2>1, <2>2 DEF IInv, Shape, Marks, PagesOwnedOnce
<1>5. (InBlocks \cup device) \subseteq used'
  BY <1>4 DEF IInv, PagesOwnedOnce
<1>6. \A q \in Process : InSpace(space'[q]) \subseteq used'
  BY <1>1, <1>3 DEF IInv, PagesOwnedOnce
<1> QED
  BY <1>1, <1>2, <1>5, <1>6 DEF IInv, PagesOwnedOnce

(* Nothing changes hands.                                                  *)
LEMMA Untouched ==
  ASSUME IInv, Shape', UNCHANGED <<used, space, stackBlock, device>>
  PROVE  IInv'
<1>1. Marks'
  BY DEF IInv, Marks, Booting
<1>2. ThreadApart'
  BY DEF IInv, ThreadApart
<1>3. InBlocks' = InBlocks
  BY DEF InBlocks
<1>4. PagesOwnedOnce'
  BY <1>3 DEF IInv, PagesOwnedOnce
<1> QED
  BY <1>1, <1>2, <1>4 DEF IInv

(* Whatever a process gets or gives back, the rest of the invariant needs  *)
(* only that its thread's pages stay apart and that it stays while a       *)
(* server is in a fault of it.                                             *)
LEMMA ShapeKept ==
  ASSUME IInv, NEW p \in Process, NEW new \in Space \cup {Gone},
         space' = [space EXCEPT ![p] = new], UNCHANGED <<stackBlock, device>>,
         fault' \in [Server -> Fault \cup {NONE}],
         \A s \in Server : fault'[s] # NONE => space'[fault'[s].process] \in Space,
         new \in Space /\ new.thread # NONE => new.thread \cap (Main(new) \ {NONE, 0}) = {}
  PROVE  Shape' /\ Marks' /\ ThreadApart'
<1>1. /\ space' \in [Process -> Space \cup {NoSpace, Gone}]
      /\ \A q \in Process : space'[q] = IF q = p THEN new ELSE space[q]
  BY DEF IInv, Shape
<1>2. Shape'
  BY <1>1 DEF IInv, Shape
<1>3. new.phase # "none"
  BY DEF Space, Gone
<1>4. Marks'
  BY <1>1, <1>3 DEF IInv, Marks, Booting
<1>5. ThreadApart'
  BY <1>1 DEF IInv, ThreadApart
<1> QED
  BY <1>2, <1>4, <1>5

(* The two ways a process's pages change keep the invariant.               *)
LEMMA Taken ==
  ASSUME MemManagerAssumption, IInv,
         NEW p \in Process, NEW new \in Space \cup {Gone}, NEW L \in SUBSET Free,
         space' = [space EXCEPT ![p] = new], used \cup L \subseteq used',
         UNCHANGED <<stackBlock, device>>, InSpace(new) \subseteq InSpace(space[p]) \cup L,
         fault' \in [Server -> Fault \cup {NONE}],
         \A s \in Server : fault'[s] # NONE => space'[fault'[s].process] \in Space,
         new \in Space /\ new.thread # NONE => new.thread \cap (Main(new) \ {NONE, 0}) = {}
  PROVE  IInv'
<1>1. PagesOwnedOnce'
  BY SpaceGrows
<1> QED
  BY <1>1, ShapeKept DEF IInv

LEMMA Returned ==
  ASSUME MemManagerAssumption, IInv,
         NEW p \in Process, NEW new \in Space \cup {Gone}, NEW back,
         space' = [space EXCEPT ![p] = new], used' = used \ back,
         UNCHANGED <<stackBlock, device>>,
         back \subseteq InSpace(space[p]) \cup {NONE, 0},
         InSpace(new) \subseteq InSpace(space[p]) \ back,
         fault' \in [Server -> Fault \cup {NONE}],
         \A s \in Server : fault'[s] # NONE => space'[fault'[s].process] \in Space,
         new \in Space /\ new.thread # NONE => new.thread \cap (Main(new) \ {NONE, 0}) = {}
  PROVE  IInv'
<1>1. PagesOwnedOnce'
  BY SpaceShrinks
<1> QED
  BY <1>1, ShapeKept DEF IInv

-----------------------------------------------------------------------------
(* What each operation leaves a process with.                              *)
LEMMA TakeSomeTakes ==
  ASSUME NEW n, TakeSome(n)
  PROVE  used \cup Lowest(n) \subseteq used'
BY DEF TakeSome, Lowest, Free

LEMMA InSpaceUsed ==
  ASSUME IInv, NEW p \in Process
  PROVE  InSpace(space[p]) \subseteq used
BY DEF IInv, PagesOwnedOnce

LEMMA LoadedSpace ==
  ASSUME MemManagerAssumption, NEW L \in SUBSET Page
  PROVE  NewSpace(L) \in Space /\ InSpace(NewSpace(L)) \subseteq L
<1>1. NewSpace(L) \in Space
  BY DEF NewSpace, Space, Cell
<1>2. Range(NewSpace(L).heapTable) \subseteq {NONE} /\ Range(NewSpace(L).heap) \subseteq {NONE}
  BY DEF NewSpace, Range
<1> QED
  BY <1>1, <1>2 DEF NewSpace, InSpace

LEMMA LoadStep ==
  ASSUME MemManagerAssumption, IInv, NEW p \in Process, Load(p) \/ LoadWithoutParent(p)
  PROVE  IInv'
<1>1. Lowest(LoadCount) \in SUBSET Free
  BY DEF Lowest
<1>2. Lowest(LoadCount) \in SUBSET Page
  BY DEF Lowest, Free
<1>3. used \cup Lowest(LoadCount) \subseteq used'
  BY TakeSomeTakes DEF Load, LoadWithoutParent
<1>4. PICK new \in Space \cup {Gone} :
        /\ space' = [space EXCEPT ![p] = new]
        /\ new \in {NewSpace(Lowest(LoadCount)), Gone}
  BY <1>2, LoadedSpace DEF Load, LoadWithoutParent
<1>5. InSpace(new) \subseteq InSpace(space[p]) \cup Lowest(LoadCount)
  BY <1>2, <1>4, LoadedSpace DEF InSpace, Gone
<1>6. new \in Space => new.thread = NONE
  BY <1>4 DEF NewSpace, Space, Gone
<1>7. space[p] \notin Space
  BY DEF Load, LoadWithoutParent, Space
<1>8. fault' = fault /\ UNCHANGED <<stackBlock, device>>
  BY DEF Load, LoadWithoutParent
<1>9. \A s \in Server : fault'[s] # NONE => space'[fault'[s].process] \in Space
  BY <1>4, <1>7, <1>8 DEF IInv, Shape, Fault
<1> QED
  BY <1>1, <1>3, <1>4, <1>5, <1>6, <1>8, <1>9, Taken DEF IInv, Shape

LEMMA MapDLLStep ==
  ASSUME MemManagerAssumption, IInv, NEW p \in Process, NEW n \in 1 .. MaxDLL, MapDLLPagesToProcess(p, n)
  PROVE  IInv'
<1> DEFINE s == space[p]
           tables == Tables(s.dlls + n) - Tables(s.dlls)
           new == IF HasPages(tables + n)
                  THEN [s EXCEPT !.dlls = @ + n, !.dllTables = @ \cup Lowest(tables),
                                 !.dllPages = @ \cup (Lowest(tables + n) \ Lowest(tables))]
                  ELSE s
<1>1. s \in Space
  BY DEF IInv, Shape, MapDLLPagesToProcess, NoSpace, Gone
<1>2. n \in Nat /\ s.dlls \in Nat
  BY <1>1 DEF Space, MemManagerAssumption
<1>3. tables \in Nat
  BY <1>2, TableCount
<1>4. Lowest(tables) \subseteq Lowest(tables + n) /\ Lowest(tables + n) \in SUBSET Free
  <2> HIDE DEF tables
  <2> QED BY <1>2, <1>3, LowestGrows DEF Lowest
<1>5. used \cup Lowest(tables + n) \subseteq used'
  BY TakeSomeTakes DEF MapDLLPagesToProcess
<1>6. space' = [space EXCEPT ![p] = new]
  BY DEF MapDLLPagesToProcess, IInv, Shape
<1> HIDE DEF tables
<1>7. new \in Space
  <2>1. Lowest(tables) \in SUBSET Page /\ Lowest(tables + n) \in SUBSET Page
    BY <1>4 DEF Free
  <2>2. /\ s.dlls + n \in Nat /\ s.dllTables \cup Lowest(tables) \in SUBSET Page
        /\ s.dllPages \cup (Lowest(tables + n) \ Lowest(tables)) \in SUBSET Page
    BY <1>1, <1>2, <2>1 DEF Space
  <2> QED BY <1>1, <2>2 DEF Space
<1>8. /\ new.thread = s.thread /\ Main(new) \subseteq Main(s) \cup Lowest(tables + n)
  BY <1>1, <1>4 DEF Space, Main
<1>9. InSpace(new) \subseteq InSpace(s) \cup Lowest(tables + n)
  BY <1>1, <1>7, <1>8, Holdings
<1>10. ASSUME s.thread # NONE
       PROVE  s.thread \cap (Main(new) \ {NONE, 0}) = {}
  <2>1. s.thread \ {NONE, 0} \subseteq used
    BY <1>1, <1>10, Holdings, InSpaceUsed
  <2>2. s.thread \cap (Main(s) \ {NONE, 0}) = {}
    BY <1>1, <1>10 DEF IInv, ThreadApart
  <2> QED BY <1>4, <1>8, <2>1, <2>2 DEF Free
<1>11. fault' = fault /\ UNCHANGED <<stackBlock, device>>
  BY DEF MapDLLPagesToProcess
<1>12. \A t \in Server : fault'[t] # NONE => space'[fault'[t].process] \in Space
  <2> HIDE DEF new
  <2> QED BY <1>6, <1>7, <1>11 DEF IInv, Shape
<1> HIDE DEF new
<1> QED
  BY <1>4, <1>5, <1>6, <1>7, <1>8, <1>9, <1>10, <1>11, <1>12, Taken DEF IInv, Shape

(* What a process has besides its thread and what the thread has is taken. *)
LEMMA PartsUsed ==
  ASSUME IInv, NEW p \in Process, space[p] \in Space
  PROVE  /\ Main(space[p]) \ {NONE, 0} \subseteq used
         /\ space[p].thread # NONE => space[p].thread \ {NONE, 0} \subseteq used
BY Holdings, InSpaceUsed

\* A process gets one page that is none of its thread's: for its frame buffer
\* or its heap.
LEMMA OnePage ==
  ASSUME MemManagerAssumption, IInv, NEW p \in Process, NEW new \in Space, NEW page \in Free,
         space[p] \in Space, space' = [space EXCEPT ![p] = new],
         new.thread = space[p].thread, Main(new) \subseteq Main(space[p]) \cup {page, NONE, 0},
         used \cup {page} \subseteq used', UNCHANGED <<stackBlock, device>>,
         fault' \in [Server -> Fault \cup {NONE}],
         \A s \in Server : fault'[s] # NONE =>
           \/ fault'[s].process = p
           \/ fault[s] # NONE /\ fault'[s].process = fault[s].process
  PROVE  IInv'
<1> DEFINE s == space[p]
<1>1. InSpace(new) \subseteq InSpace(s) \cup {page}
  BY Holdings
<1>2. new.thread # NONE => new.thread \cap (Main(new) \ {NONE, 0}) = {}
  BY PartsUsed DEF IInv, ThreadApart, Free
<1>3. \A t \in Server : fault'[t] # NONE => space'[fault'[t].process] \in Space
  BY DEF IInv, Shape
<1>4. {page} \in SUBSET Free /\ new \in Space \cup {Gone}
  OBVIOUS
<1> QED
  BY <1>1, <1>2, <1>3, <1>4, Taken

\* A process keeps the pages it has.
LEMMA SamePages ==
  ASSUME MemManagerAssumption, IInv, NEW p \in Process, NEW new \in Space,
         space[p] \in Space, space' = [space EXCEPT ![p] = new],
         new.thread = space[p].thread, Main(new) \subseteq Main(space[p]) \cup {NONE, 0},
         used \subseteq used', UNCHANGED <<stackBlock, device>>,
         fault' \in [Server -> Fault \cup {NONE}],
         \A s \in Server : fault'[s] # NONE =>
           \/ fault'[s].process = p
           \/ fault[s] # NONE /\ fault'[s].process = fault[s].process
  PROVE  IInv'
<1> DEFINE s == space[p]
<1>1. InSpace(new) \subseteq InSpace(s) \cup {}
  BY Holdings
<1>2. new.thread # NONE => new.thread \cap (Main(new) \ {NONE, 0}) = {}
  BY DEF IInv, ThreadApart
<1>3. \A t \in Server : fault'[t] # NONE => space'[fault'[t].process] \in Space
  BY DEF IInv, Shape
<1>4. {} \in SUBSET Free /\ used \cup {} \subseteq used'
  OBVIOUS
<1> QED
  BY <1>1, <1>2, <1>3, <1>4, Taken

LEMMA FrameBufferStep ==
  ASSUME MemManagerAssumption, IInv, NEW p \in Process, AllocateGUIFramebuffer(p)
  PROVE  IInv'
<1> USE DEF AllocateGUIFramebuffer
<1>1. space[p] \in Space
  BY DEF IInv, Shape, NoSpace, Gone
<1>2. used \cup Lowest(1) \subseteq used'
  BY TakeSomeTakes
<1>3. fault' \in [Server -> Fault \cup {NONE}] /\ UNCHANGED <<fault, stackBlock, device>>
  BY DEF IInv, Shape
<1>4. ASSUME NEW page \in Cell, space' = [space EXCEPT ![p].gui = page]
      PROVE  \E new \in Space : /\ space' = [space EXCEPT ![p] = new]
                                /\ new.thread = space[p].thread
                                /\ Main(new) \subseteq Main(space[p]) \cup {page}
  <2> DEFINE new == [space[p] EXCEPT !.gui = page]
  <2>1. new \in Space /\ new.thread = space[p].thread /\ Main(new) \subseteq Main(space[p]) \cup {page}
    BY <1>1 DEF Space, Main
  <2>2. space' = [space EXCEPT ![p] = new]
    BY <1>4 DEF IInv, Shape
  <2> QED
    BY <2>1, <2>2
<1>5. CASE space' = [space EXCEPT ![p].gui = 0]
  <2>1. 0 \in Cell
    BY DEF Cell, Page, MemManagerAssumption
  <2>2. PICK new \in Space : /\ space' = [space EXCEPT ![p] = new]
                             /\ new.thread = space[p].thread
                             /\ Main(new) \subseteq Main(space[p]) \cup {0}
    BY <1>4, <1>5, <2>1
  <2> QED
    BY <1>1, <1>2, <1>3, <2>2, SamePages
<1>6. ASSUME NEW page \in Lowest(1), space' = [space EXCEPT ![p].gui = page]
      PROVE  IInv'
  <2>1. page \in Free /\ page \in Cell
    BY DEF Lowest, Free, Cell
  <2>2. PICK new \in Space : /\ space' = [space EXCEPT ![p] = new]
                             /\ new.thread = space[p].thread
                             /\ Main(new) \subseteq Main(space[p]) \cup {page}
    BY <1>4, <1>6, <2>1
  <2>3. used \cup {page} \subseteq used'
    BY <1>2, <1>6
  <2> QED
    BY <1>1, <1>3, <2>1, <2>2, <2>3, OnePage
<1> QED
  BY <1>5, <1>6

LEMMA CreateThreadStep ==
  ASSUME MemManagerAssumption, IInv, NEW p \in Process, CreateThread(p)
  PROVE  IInv'
<1> DEFINE s == space[p]
           L == Lowest(1 + StackPages)
           new == IF HasPages(1 + StackPages) THEN [s EXCEPT !.thread = L] ELSE s
<1> USE DEF CreateThread
<1>1. s \in Space
  BY DEF IInv, Shape, NoSpace, Gone
<1>2. L \in SUBSET Free /\ L \in SUBSET Page
  BY DEF Lowest, Free
<1>3. used \cup L \subseteq used'
  BY TakeSomeTakes
<1>4. space' = [space EXCEPT ![p] = new]
  BY DEF IInv, Shape
<1>5. new \in Space /\ Main(new) = Main(s) /\ new.thread \in {NONE, L}
  BY <1>1, <1>2 DEF Space, Main
<1> HIDE DEF L, new
<1>6. InSpace(new) \subseteq InSpace(s) \cup L
  BY <1>1, <1>5, Holdings
<1>7. new.thread # NONE => new.thread \cap (Main(new) \ {NONE, 0}) = {}
  BY <1>1, <1>2, <1>5, PartsUsed DEF Free
<1>8. fault' = fault /\ UNCHANGED <<stackBlock, device>>
  OBVIOUS
<1>9. \A t \in Server : fault'[t] # NONE => space'[fault'[t].process] \in Space
  BY <1>4, <1>5, <1>8 DEF IInv, Shape
<1> QED
  BY <1>2, <1>3, <1>4, <1>5, <1>6, <1>7, <1>8, <1>9, Taken DEF IInv, Shape

\* The pages of the thread are none of the others: this is where they must
\* not be.
LEMMA DestroyThreadStep ==
  ASSUME MemManagerAssumption, IInv, NEW p \in Process, DestroyThread(p)
  PROVE  IInv'
<1> DEFINE s == space[p]
           new == [s EXCEPT !.thread = NONE]
<1> USE DEF DestroyThread
<1>1. s \in Space
  BY DEF IInv, Shape, Running, NoSpace, Gone
<1>2. space' = [space EXCEPT ![p] = new]
  BY DEF IInv, Shape
<1>3. new \in Space /\ new.thread = NONE /\ Main(new) = Main(s)
  BY <1>1 DEF Space, Main
<1> HIDE DEF new
<1>4. InSpace(new) = Main(s) \ {NONE, 0}
  BY <1>3, Holdings
<1>5. InSpace(s) = (Main(s) \cup s.thread) \ {NONE, 0}
  BY <1>1, Holdings
<1>6. s.thread \cap (Main(s) \ {NONE, 0}) = {}
  BY <1>1 DEF IInv, ThreadApart
<1>7. s.thread \subseteq InSpace(s) \cup {NONE, 0} /\ InSpace(new) \subseteq InSpace(s) \ s.thread
  BY <1>4, <1>5, <1>6
<1>8. used' = used \ s.thread /\ UNCHANGED <<fault, stackBlock, device>>
  BY DEF AfterDeAllocate
<1>9. \A t \in Server : fault'[t] # NONE => space'[fault'[t].process] \in Space
  BY <1>2, <1>3, <1>8 DEF IInv, Shape
<1> QED
  BY <1>2, <1>3, <1>7, <1>8, <1>9, Returned DEF IInv, Shape

LEMMA RefuseFaultStep ==
  ASSUME MemManagerAssumption, IInv, NEW p \in Process, RefuseFault(p)
  PROVE  IInv'
<1> DEFINE new == [space[p] EXCEPT !.phase = "doomed"]
<1> USE DEF RefuseFault
<1>1. space[p] \in Space
  BY DEF IInv, Shape, NoSpace, Gone
<1>2. space' = [space EXCEPT ![p] = new] /\ new \in Space
  BY <1>1 DEF IInv, Shape, Space
<1>3. new.thread = space[p].thread /\ Main(new) = Main(space[p])
  BY <1>1 DEF Space, Main
<1> HIDE DEF new
<1> QED
  BY <1>1, <1>2, <1>3, SamePages DEF IInv, Shape

LEMMA DeAllocateResourcesStep ==
  ASSUME MemManagerAssumption, IInv, NEW p \in Process, DeAllocateResources(p)
  PROVE  IInv'
<1> DEFINE s == space[p]
           back == Released(s)
<1> USE DEF DeAllocateResources
<1>1. s \in Space
  BY DEF IInv, Shape, Running, NoSpace, Gone
<1>2. HeapPages(s) \subseteq Range(s.heap) \cup Range(s.heapTable)
  BY <1>1 DEF Space, HeapPages, Range
<1>3. back \subseteq InSpace(s) \cup {NONE, 0}
  BY <1>1, <1>2, Holdings DEF Released, Main
<1>4. InSpace(Gone) = {} /\ Gone \notin Space
  BY DEF InSpace, Gone, Space
<1>5. space' = [space EXCEPT ![p] = Gone] /\ used' = used \ back /\ UNCHANGED <<fault, stackBlock, device>>
  BY DEF AfterDeAllocate
<1>6. \A t \in Server : fault'[t] # NONE => space'[fault'[t].process] \in Space
  BY <1>5 DEF IInv, Shape, Locked
<1> HIDE DEF back
<1> QED
  BY <1>3, <1>4, <1>5, <1>6, Returned DEF IInv, Shape

-----------------------------------------------------------------------------
(* Page faults.                                                            *)
LEMMA EnterFaultStep ==
  ASSUME MemManagerAssumption, IInv,
         NEW s \in Server, NEW p \in Process, NEW a \in 0 .. MaxHeap - 1, EnterFault(s, p, a)
  PROVE  IInv'
<1> USE DEF EnterFault
<1>1. space[p] \in Space
  BY DEF IInv, Shape, NoSpace, Gone
<1>2. UNCHANGED <<space, stackBlock, device, used>>
  OBVIOUS
<1>3. [process |-> p, addr |-> a, at |-> "table", absent |-> space[p].heapTable[a \div PerTable] = NONE] \in Fault
  BY DEF Fault
<1>4. fault' \in [Server -> Fault \cup {NONE}]
  BY <1>3 DEF IInv, Shape
<1>5. \A t \in Server : fault'[t] # NONE => space'[fault'[t].process] \in Space
  BY <1>1, <1>2 DEF IInv, Shape
<1>6. Shape'
  BY <1>2, <1>4, <1>5 DEF IInv, Shape
<1> QED
  BY <1>2, <1>6, Untouched

\* A fault that has no page: its process is to exit.
LEMMA NoPageStep ==
  ASSUME MemManagerAssumption, IInv, NEW s \in Server, NEW p \in Process,
         space[p] \in Space, NoPageForFault(s, p), UNCHANGED <<stackBlock, device>>
  PROVE  IInv'
<1> DEFINE new == [space[p] EXCEPT !.phase = "doomed"]
<1> USE DEF NoPageForFault
<1>1. space' = [space EXCEPT ![p] = new] /\ new \in Space
  BY DEF IInv, Shape, Space
<1>2. new.thread = space[p].thread /\ Main(new) = Main(space[p])
  BY DEF Space, Main
<1>3. fault' \in [Server -> Fault \cup {NONE}]
  BY DEF IInv, Shape
<1>4. \A t \in Server : fault'[t] # NONE => fault[t] # NONE /\ fault'[t].process = fault[t].process
  BY DEF IInv, Shape
<1> HIDE DEF new
<1> QED
  BY <1>1, <1>2, <1>3, <1>4, SamePages

LEMMA FaultTableStep ==
  ASSUME MemManagerAssumption, IInv, NEW s \in Server, FaultTable(s)
  PROVE  IInv'
<1> DEFINE p == fault[s].process
           i == fault[s].addr \div PerTable
           Go == fault' = [fault EXCEPT ![s].at = "page", ![s].absent = space[p].heap[fault[s].addr] = NONE]
<1>1. fault[s] \in Fault /\ p \in Process /\ space[p] \in Space
  BY DEF FaultTable, IInv, Shape, Fault
<1>2. ASSUME Go
      PROVE  /\ fault' \in [Server -> Fault \cup {NONE}]
             /\ \A t \in Server : fault'[t] # NONE => fault[t] # NONE /\ fault'[t].process = fault[t].process
  <2>1. [fault[s] EXCEPT !.at = "page", !.absent = (space[p].heap[fault[s].addr] = NONE)] \in Fault
    BY <1>1 DEF Fault
  <2>2. [fault[s] EXCEPT !.at = "page", !.absent = (space[p].heap[fault[s].addr] = NONE)].process = p
    BY <1>1 DEF Fault
  <2>3. fault' = [fault EXCEPT ![s] = [fault[s] EXCEPT !.at = "page", !.absent = (space[p].heap[fault[s].addr] = NONE)]]
    BY <1>2
  <2>4. fault[s] # NONE
    BY DEF FaultTable
  <2> QED
    BY <2>1, <2>2, <2>3, <2>4 DEF IInv, Shape
<1>3. UNCHANGED <<stackBlock, device>>
  BY DEF FaultTable
<1>4. CASE Go /\ UNCHANGED <<space, used>>
  <2>1. \A t \in Server : fault'[t] # NONE => space'[fault'[t].process] \in Space
    BY <1>2, <1>4 DEF IInv, Shape
  <2>2. Shape'
    BY <1>2, <1>3, <1>4, <2>1 DEF IInv, Shape
  <2> QED BY <1>3, <1>4, <2>2, Untouched
<1>5. ASSUME Go, NEW page \in Lowest(1), space' = [space EXCEPT ![p].heapTable[i] = page],
             used' = used \cup {page}
      PROVE  IInv'
  <2> DEFINE new == [space[p] EXCEPT !.heapTable[i] = page]
  <2>1. page \in Free /\ page \in Cell
    BY DEF Lowest, Free, Cell
  <2>2. space' = [space EXCEPT ![p] = new]
    BY <1>5 DEF IInv, Shape
  <2>3. new \in Space /\ new.thread = space[p].thread
    BY <1>1, <2>1 DEF Space
  <2>4. Range(new.heapTable) \subseteq Range(space[p].heapTable) \cup {page}
    BY <1>1 DEF Space, Range
  <2>5. Main(new) \subseteq Main(space[p]) \cup {page, NONE, 0}
    BY <1>1, <2>4 DEF Space, Main
  <2> HIDE DEF new
  <2> QED BY <1>1, <1>2, <1>3, <1>5, <2>1, <2>2, <2>3, <2>5, OnePage
<1>6. CASE NoPageForFault(s, p)
  BY <1>1, <1>3, <1>6, NoPageStep
<1> QED
  BY <1>4, <1>5, <1>6 DEF FaultTable

LEMMA FaultPageStep ==
  ASSUME MemManagerAssumption, IInv, NEW s \in Server, FaultPage(s)
  PROVE  IInv'
<1> DEFINE p == fault[s].process
           a == fault[s].addr
           Answer == fault' = [fault EXCEPT ![s] = NONE]
<1>1. fault[s] \in Fault /\ p \in Process /\ space[p] \in Space
  BY DEF FaultPage, IInv, Shape, Fault
<1>2. ASSUME Answer
      PROVE  /\ fault' \in [Server -> Fault \cup {NONE}]
             /\ \A t \in Server : fault'[t] # NONE => fault[t] # NONE /\ fault'[t].process = fault[t].process
  BY <1>2 DEF IInv, Shape
<1>3. UNCHANGED <<stackBlock, device>>
  BY DEF FaultPage
<1>4. CASE Answer /\ UNCHANGED <<space, used>>
  <2>1. \A t \in Server : fault'[t] # NONE => space'[fault'[t].process] \in Space
    BY <1>2, <1>4 DEF IInv, Shape
  <2>2. Shape'
    BY <1>2, <1>3, <1>4, <2>1 DEF IInv, Shape
  <2> QED BY <1>3, <1>4, <2>2, Untouched
<1>5. ASSUME Answer, NEW page \in Lowest(1), space' = [space EXCEPT ![p].heap[a] = page],
             used' = used \cup {page}
      PROVE  IInv'
  <2> DEFINE new == [space[p] EXCEPT !.heap[a] = page]
  <2>1. page \in Free /\ page \in Cell
    BY DEF Lowest, Free, Cell
  <2>2. space' = [space EXCEPT ![p] = new]
    BY <1>5 DEF IInv, Shape
  <2>3. new \in Space /\ new.thread = space[p].thread
    BY <1>1, <2>1 DEF Space
  <2>4. Range(new.heap) \subseteq Range(space[p].heap) \cup {page}
    BY <1>1 DEF Space, Range
  <2>5. Main(new) \subseteq Main(space[p]) \cup {page, NONE, 0}
    BY <1>1, <2>4 DEF Space, Main
  <2> HIDE DEF new
  <2> QED BY <1>1, <1>2, <1>3, <1>5, <2>1, <2>2, <2>3, <2>5, OnePage
<1>6. CASE NoPageForFault(s, p)
  BY <1>1, <1>3, <1>6, NoPageStep
<1> QED
  BY <1>4, <1>5, <1>6 DEF FaultPage

-----------------------------------------------------------------------------
(* Kernel stacks, the kernel's own pages and the registers of devices.     *)
LEMMA AllocateKernelStackStep ==
  ASSUME MemManagerAssumption, IInv, NEW b \in KernelStackBlock, AllocateKernelStack(b)
  PROVE  IInv'
<1> DEFINE L == Lowest(KernelStackPages)
           new == IF HasPages(KernelStackPages) THEN L ELSE {}
<1> USE DEF AllocateKernelStack
<1>1. L \in SUBSET Free /\ L \in SUBSET Page /\ L \cap (used \cup Reserved) = {}
  BY DEF Lowest, Free
<1>2. used \cup L \subseteq used'
  BY TakeSomeTakes
<1>3. stackBlock' = [stackBlock EXCEPT ![b] = new] /\ UNCHANGED <<space, fault, device>>
  OBVIOUS
<1> HIDE DEF L
<1>4. new \in SUBSET Page /\ new \subseteq L
  BY <1>1
<1> HIDE DEF new
<1>5. Shape' /\ ThreadApart'
  BY <1>3, <1>4 DEF IInv, Shape, ThreadApart
<1>6. Marks'
  BY <1>2, <1>3 DEF IInv, Marks, Booting
<1>7. \A c \in KernelStackBlock : stackBlock'[c] = IF c = b THEN new ELSE stackBlock[c]
  BY <1>3 DEF IInv, Shape
<1>8. InBlocks' \subseteq InBlocks \cup L
  BY <1>4, <1>7 DEF InBlocks
<1>9. \A c \in KernelStackBlock : stackBlock[c] # NONE => stackBlock[c] \subseteq used
  BY DEF IInv, PagesOwnedOnce, InBlocks
<1>10. \A c, d \in KernelStackBlock :
         c # d /\ stackBlock'[c] # NONE /\ stackBlock'[d] # NONE => stackBlock'[c] \cap stackBlock'[d] = {}
  BY <1>1, <1>4, <1>7, <1>9 DEF IInv, PagesOwnedOnce
<1>11. InBlocks' \cap (device' \cup Reserved) = {}
  BY <1>1, <1>3, <1>8 DEF IInv, PagesOwnedOnce
<1>12. \A p \in Process : InSpace(space'[p]) \cap (InBlocks' \cup device' \cup Reserved) = {}
  BY <1>1, <1>3, <1>8, InSpaceUsed DEF IInv, PagesOwnedOnce
<1>13. InBlocks' \cup device' \cup UNION {InSpace(space'[p]) : p \in Process} \subseteq used'
  BY <1>2, <1>3, <1>8 DEF IInv, PagesOwnedOnce
<1>14. PagesOwnedOnce'
  BY <1>3, <1>10, <1>11, <1>12, <1>13 DEF IInv, PagesOwnedOnce
<1> QED
  BY <1>5, <1>6, <1>14 DEF IInv

LEMMA DeAllocateKernelStackStep ==
  ASSUME MemManagerAssumption, IInv, NEW b \in KernelStackBlock, DeAllocateKernelStack(b)
  PROVE  IInv'
<1> DEFINE back == stackBlock[b]
<1> USE DEF DeAllocateKernelStack
<1>1. back # NONE /\ back \subseteq InBlocks
  BY DEF InBlocks
<1>2. stackBlock' = [stackBlock EXCEPT ![b] = NONE] /\ UNCHANGED <<space, fault, device>> /\ used' = used \ back
  BY DEF AfterDeAllocate
<1>3. \A c \in KernelStackBlock : stackBlock'[c] = IF c = b THEN NONE ELSE stackBlock[c]
  BY <1>2 DEF IInv, Shape
<1>4. InBlocks' \subseteq InBlocks \ back
  <2>1. \A c \in KernelStackBlock :
          c # b /\ stackBlock[c] # NONE => stackBlock[c] \subseteq InBlocks /\ stackBlock[c] \cap back = {}
    BY <1>1 DEF IInv, PagesOwnedOnce, InBlocks
  <2> QED BY <1>3, <2>1 DEF InBlocks
<1>5. back \cap (device \cup Reserved) = {} /\ \A p \in Process : InSpace(space[p]) \cap back = {}
  BY <1>1 DEF IInv, PagesOwnedOnce
<1> HIDE DEF back
<1>6. Shape' /\ ThreadApart'
  BY <1>2, <1>3 DEF IInv, Shape, ThreadApart
<1>7. Marks'
  BY <1>2, <1>5 DEF IInv, Marks, Booting
<1>8. \A c, d \in KernelStackBlock :
        c # d /\ stackBlock'[c] # NONE /\ stackBlock'[d] # NONE => stackBlock'[c] \cap stackBlock'[d] = {}
  BY <1>3 DEF IInv, PagesOwnedOnce
<1>9. InBlocks' \cup device' \cup UNION {InSpace(space'[p]) : p \in Process} \subseteq used'
  BY <1>2, <1>4, <1>5 DEF IInv, PagesOwnedOnce
<1>10. PagesOwnedOnce'
  BY <1>2, <1>4, <1>8, <1>9 DEF IInv, PagesOwnedOnce
<1> QED
  BY <1>6, <1>7, <1>10 DEF IInv

LEMMA MarkPageStep ==
  ASSUME MemManagerAssumption, IInv, NEW n \in DevicePage, MarkPageAsAllocated(n)
  PROVE  IInv'
<1> USE DEF MarkPageAsAllocated
<1>1. n \notin Reserved /\ n \in Page /\ n \notin used
  BY DEF IInv, Marks
<1>2. UNCHANGED <<space, fault, stackBlock>> /\ device' = device \cup {n} /\ used' = used \cup {n}
  OBVIOUS
<1>3. InBlocks' = InBlocks
  BY <1>2 DEF InBlocks
<1>4. Shape' /\ ThreadApart'
  BY <1>1, <1>2 DEF IInv, Shape, ThreadApart
<1>5. Marks'
  BY <1>1, <1>2 DEF IInv, Marks, Booting
<1>6. n \notin InBlocks /\ \A p \in Process : n \notin InSpace(space[p])
  BY <1>1 DEF IInv, PagesOwnedOnce
<1>7. InBlocks' \cup device' \cup UNION {InSpace(space'[p]) : p \in Process} \subseteq used'
  BY <1>2, <1>3 DEF IInv, PagesOwnedOnce
<1>8. PagesOwnedOnce'
  BY <1>1, <1>2, <1>3, <1>6, <1>7 DEF IInv, PagesOwnedOnce
<1> QED
  BY <1>4, <1>5, <1>8 DEF IInv

-----------------------------------------------------------------------------
LEMMA InitHolds ==
  ASSUME MemManagerAssumption, Init
  PROVE  IInv
<1> USE DEF Init
<1>1. Shape /\ Marks
  BY DEF Shape, Marks
<1>2. \A p \in Process : space[p] \notin Space /\ InSpace(space[p]) = {}
  BY DEF NoSpace, Space, InSpace
<1>3. InBlocks = {}
  BY DEF InBlocks
<1> QED
  BY <1>1, <1>2, <1>3 DEF IInv, ThreadApart, PagesOwnedOnce

LEMMA StepHolds ==
  ASSUME MemManagerAssumption, IInv, [Next]_vars
  PROVE  IInv'
<1>1. ASSUME NEW p \in Process, Load(p) \/ LoadWithoutParent(p)
      PROVE  IInv'
  BY <1>1, LoadStep
<1>2. ASSUME NEW p \in Process, NEW n \in 1 .. MaxDLL, MapDLLPagesToProcess(p, n)
      PROVE  IInv'
  BY <1>2, MapDLLStep
<1>3. ASSUME NEW p \in Process, AllocateGUIFramebuffer(p)
      PROVE  IInv'
  BY <1>3, FrameBufferStep
<1>4. ASSUME NEW p \in Process, CreateThread(p) \/ DestroyThread(p)
      PROVE  IInv'
  BY <1>4, CreateThreadStep, DestroyThreadStep
<1>5. ASSUME NEW p \in Process, RefuseFault(p) \/ DeAllocateResources(p)
      PROVE  IInv'
  BY <1>5, RefuseFaultStep, DeAllocateResourcesStep
<1>6. ASSUME NEW p \in Process, NEW s \in Server, NEW a \in 0 .. MaxHeap - 1, EnterFault(s, p, a)
      PROVE  IInv'
  BY <1>6, EnterFaultStep
<1>7. ASSUME NEW s \in Server, FaultTable(s) \/ FaultPage(s)
      PROVE  IInv'
  BY <1>7, FaultTableStep, FaultPageStep
<1>8. ASSUME NEW b \in KernelStackBlock, AllocateKernelStack(b) \/ DeAllocateKernelStack(b)
      PROVE  IInv'
  BY <1>8, AllocateKernelStackStep, DeAllocateKernelStackStep
<1>9. CASE AllocatePageForKernel \/ \E n \in PoolPage : DeAllocatePageForKernel(n)
  <2>1. UNCHANGED <<used, space, fault, stackBlock, device>>
    BY <1>9 DEF AllocatePageForKernel, DeAllocatePageForKernel
  <2>2. Shape'
    BY <2>1 DEF IInv, Shape
  <2> QED BY <2>1, <2>2, Untouched
<1>10. ASSUME NEW n \in DevicePage, MarkPageAsAllocated(n)
       PROVE  IInv'
  BY <1>10, MarkPageStep
<1>11. CASE UNCHANGED vars
  <2>1. UNCHANGED <<used, space, fault, stackBlock, device>>
    BY <1>11 DEF vars
  <2>2. Shape'
    BY <2>1 DEF IInv, Shape
  <2> QED BY <2>1, <2>2, Untouched
<1> QED
  BY <1>1, <1>2, <1>3, <1>4, <1>5, <1>6, <1>7, <1>8, <1>9, <1>10, <1>11 DEF Next

\* A page has one holder, and no page that somebody holds is free: whatever
\* processes are loaded, grow, fault and end (memory/MemManager.cpp,
\* UserProcess.cpp), and however many pages there are.
THEOREM PagesStayOwnedOnce ==
  ASSUME MemManagerAssumption
  PROVE  Spec => []PagesOwnedOnce
<1>1. Init => IInv
  BY InitHolds
<1>2. IInv /\ [Next]_vars => IInv'
  BY StepHolds
<1>3. IInv => PagesOwnedOnce
  BY DEF IInv
<1> QED
  BY <1>1, <1>2, <1>3, PTL DEF Spec

-----------------------------------------------------------------------------
(***************************************************************************)
(* Nothing is lost, and no page is mapped twice.  A process gives its heap *)
(* back by walking it up to the first hole, so there must be none; and     *)
(* what a server read in a process's tables must still be so when it fills *)
(* them, or a page would be overwritten there.                             *)
(***************************************************************************)

\* A heap has no hole, nor have its tables, and a page has its table.  Page
\* 0, which an empty table entry leads to, is no page of a thread.
Filled(s) ==
  /\ \A a \in 0 .. MaxHeap - 1 : s.heap[a] # NONE =>
       /\ s.heapTable[a \div PerTable] # NONE
       /\ \A b \in 0 .. a - 1 : s.heap[b] # NONE
  /\ \A t \in HeapTable : s.heapTable[t] # NONE => \A u \in 0 .. t - 1 : s.heapTable[u] # NONE
  /\ s.thread # NONE => 0 \notin s.thread

\* What a server in a fault found is still so.
FaultRight(f) ==
  LET s == space[f.process]
      t == f.addr \div PerTable
  IN /\ f.addr \in 0 .. MaxHeap - 1
     /\ \A b \in 0 .. f.addr - 1 : s.heap[b] # NONE
     /\ f.at = "table" => (f.absent <=> s.heapTable[t] = NONE)
     /\ f.at = "page" => s.heapTable[t] # NONE /\ (f.absent <=> s.heap[f.addr] = NONE)

Faults ==
  /\ \A s \in Server : fault[s] # NONE => FaultRight(fault[s])
  /\ \A s, t \in Server : fault[s] # NONE /\ fault[t] # NONE /\ fault[s].process = fault[t].process => s = t
Heaps == \A p \in Process : space[p] \in Space => Filled(space[p])

\* What is taken and not the kernel's is held.
Held == UNION {InSpace(space[p]) : p \in Process}
Balanced == ~failed => used \ Reserved = device \cup InBlocks \cup Held

\* A process has as many pages as it was given.
Counted(s) == Cardinality(InSpace(s)) = Count(s)
AllCounted == \A p \in Process : space[p] \in Space => Counted(space[p])

HInv == TypeOK /\ Heaps /\ Faults /\ Balanced /\ AllCounted

LEMMA PagesFinite ==
  ASSUME MemManagerAssumption
  PROVE  /\ IsFiniteSet(Page) /\ Page \subseteq Nat /\ 0 \notin Free /\ NONE \notin Free
         /\ \A S \in SUBSET Page : IsFiniteSet(S) /\ Cardinality(S) \in Nat
<1>1. IsFiniteSet(Page)
  BY FS_Interval DEF MemManagerAssumption, Page
<1>2. \A S \in SUBSET Page : IsFiniteSet(S) /\ Cardinality(S) \in Nat
  BY <1>1, FS_Subset, FS_CardinalityType
<1>3. Page \subseteq Nat /\ 0 \in Reserved /\ NONE \notin Page
  BY DEF Page, Reserved, MemManagerAssumption
<1> QED
  BY <1>1, <1>2, <1>3 DEF Free

\* n calls of AllocatePhysicalPage return n pages.
LEMMA LowestCount ==
  ASSUME MemManagerAssumption, NEW n \in Nat, HasPages(n)
  PROVE  Lowest(n) \in SUBSET Free /\ Cardinality(Lowest(n)) = n
<1>1. Free \in SUBSET Nat /\ IsFiniteSet(Free) /\ Cardinality(Free) \in Nat
  BY PagesFinite DEF Free
<1>2. n <= Cardinality(Free)
  BY <1>1 DEF HasPages
<1>3. Lowest(n) = {x \in Free : Cardinality({y \in Free : y < x}) < n}
  BY DEF Lowest
<1> QED
  BY <1>1, <1>2, <1>3, FirstOnes

LEMMA OneLowest ==
  ASSUME MemManagerAssumption, NEW page \in Lowest(1)
  PROVE  HasPages(1) /\ Lowest(1) = {page} /\ page \in Free
<1>1. page \in Free /\ IsFiniteSet(Free) /\ Cardinality(Free) \in Nat
  BY PagesFinite DEF Lowest, Free
<1>2. Free # {}
  BY <1>1
<1>3. HasPages(1)
  BY <1>1, <1>2, FS_EmptySet DEF HasPages
<1>4. Cardinality(Lowest(1)) = 1 /\ Lowest(1) \in SUBSET Free
  BY <1>3, LowestCount
<1>5. IsFiniteSet(Lowest(1))
  BY <1>1, <1>4, FS_Subset
<1>6. \E x : Lowest(1) = {x}
  BY <1>4, <1>5, FS_Singleton
<1> QED
  BY <1>1, <1>3, <1>6

LEMMA InSpacePages ==
  ASSUME IInv, NEW p \in Process
  PROVE  InSpace(space[p]) \in SUBSET Page
<1>1. CASE space[p] \in Space
  <2>1. Main(space[p]) \subseteq Cell
    <3>1. Range(space[p].heapTable) \subseteq Cell /\ Range(space[p].heap) \subseteq Cell
      BY <1>1 DEF Space, Range
    <3>2. space[p].pages \cup space[p].dllTables \cup space[p].dllPages \cup {space[p].gui} \subseteq Cell
      BY <1>1 DEF Space, Cell
    <3> QED
      BY <3>1, <3>2 DEF Main
  <2>2. space[p].thread # NONE => space[p].thread \subseteq Page
    BY <1>1 DEF Space
  <2> QED
    BY <1>1, <2>1, <2>2, Holdings DEF Cell
<1>2. CASE space[p] \notin Space
  BY <1>2, Holdings DEF IInv, Shape
<1> QED
  BY <1>1, <1>2

\* Free pages add to what a space holds.
LEMMA MorePages ==
  ASSUME MemManagerAssumption, IInv, NEW p \in Process, NEW L \in SUBSET Free
  PROVE  /\ Cardinality(InSpace(space[p]) \cup L) = Cardinality(InSpace(space[p])) + Cardinality(L)
         /\ InSpace(space[p]) \cap L = {}
         /\ Cardinality(InSpace(space[p])) \in Nat /\ Cardinality(L) \in Nat
<1> DEFINE S == InSpace(space[p])
<1>1. S \in SUBSET Page
  BY InSpacePages
<1>2. S \cap L = {} /\ L \in SUBSET Page
  BY InSpaceUsed DEF Free
<1>3. IsFiniteSet(S) /\ IsFiniteSet(L) /\ Cardinality(S) \in Nat /\ Cardinality(L) \in Nat
  BY <1>1, <1>2, PagesFinite
<1>4. Cardinality(S \cup L) = Cardinality(S) + Cardinality(L) - Cardinality(S \cap L)
  BY <1>3, FS_Union
<1>5. Cardinality(S \cap L) = 0
  BY <1>2, FS_EmptySet
<1> HIDE DEF S
<1>6. Cardinality(S \cup L) = Cardinality(S) + Cardinality(L)
  BY <1>3, <1>4, <1>5
<1> QED
  BY <1>2, <1>3, <1>6 DEF S

-----------------------------------------------------------------------------
(* The terms of a count.                                                   *)

TablesOf(s) == {t \in HeapTable : s.heapTable[t] # NONE}
PagesOf(s) == {a \in 0 .. MaxHeap - 1 : s.heap[a] # NONE}
GuiCount(s) == IF s.gui \in {NONE, 0} THEN 0 ELSE 1
ThreadCount(s) == IF s.thread = NONE THEN 0 ELSE Cardinality(s.thread)

LEMMA CountIs ==
  ASSUME MemManagerAssumption, NEW s \in Space
  PROVE  /\ Count(s) = LoadCount + Cardinality(s.dllTables) + s.dlls + Cardinality(TablesOf(s))
                       + Cardinality(PagesOf(s)) + GuiCount(s) + ThreadCount(s)
         /\ LoadCount \in Nat /\ Cardinality(s.dllTables) \in Nat /\ s.dlls \in Nat
         /\ IsFiniteSet(TablesOf(s)) /\ Cardinality(TablesOf(s)) \in Nat
         /\ IsFiniteSet(PagesOf(s)) /\ Cardinality(PagesOf(s)) \in Nat
         /\ GuiCount(s) \in Nat /\ ThreadCount(s) \in Nat
<1>1. DOMAIN s.heap = 0 .. MaxHeap - 1
  BY DEF Space
<1>2. LoadCount \in Nat
  BY DEF LoadCount, MemManagerAssumption
<1>3. Cardinality(s.dllTables) \in Nat /\ s.dlls \in Nat
  BY PagesFinite DEF Space
<1>4. IsFiniteSet(HeapTable) /\ IsFiniteSet(0 .. MaxHeap - 1)
  <2>1. MaxHeap \in Nat /\ Tables(MaxHeap) \in Nat
    BY TableCount DEF MemManagerAssumption
  <2>2. 0 \in Int /\ MaxHeap - 1 \in Int /\ Tables(MaxHeap) - 1 \in Int
    BY <2>1
  <2> QED
    BY <2>2, FS_Interval DEF HeapTable
<1>5. TablesOf(s) \in SUBSET HeapTable /\ PagesOf(s) \in SUBSET (0 .. MaxHeap - 1)
  BY DEF TablesOf, PagesOf
<1>6. /\ IsFiniteSet(TablesOf(s)) /\ Cardinality(TablesOf(s)) \in Nat
      /\ IsFiniteSet(PagesOf(s)) /\ Cardinality(PagesOf(s)) \in Nat
  BY <1>4, <1>5, FS_Subset, FS_CardinalityType
<1>7. GuiCount(s) \in Nat /\ ThreadCount(s) \in Nat
  BY PagesFinite DEF Space, GuiCount, ThreadCount
<1>8. Count(s) = LoadCount + Cardinality(s.dllTables) + s.dlls + Cardinality(TablesOf(s))
                 + Cardinality(PagesOf(s)) + GuiCount(s) + ThreadCount(s)
  BY <1>1 DEF Count, TablesOf, PagesOf, GuiCount, ThreadCount
<1> QED
  BY <1>2, <1>3, <1>6, <1>7, <1>8

-----------------------------------------------------------------------------
(* The three ways a process's pages change, and what else must be shown of *)
(* its new space.                                                          *)

LEMMA HeldBy ==
  ASSUME IInv, NEW p \in Process, NEW new, space' = [space EXCEPT ![p] = new]
  PROVE  Held' = InSpace(new) \cup UNION {InSpace(space[q]) : q \in Process \ {p}}
BY DEF IInv, Shape, Held

LEMMA HeldWithout ==
  ASSUME NEW p \in Process
  PROVE  Held = InSpace(space[p]) \cup UNION {InSpace(space[q]) : q \in Process \ {p}}
BY DEF Held

\* It grows by free pages, or an allocation failed half way.
LEMMA BalanceGrows ==
  ASSUME MemManagerAssumption, IInv, Balanced, NEW p \in Process, NEW new, NEW L \in SUBSET Free,
         space' = [space EXCEPT ![p] = new], UNCHANGED <<stackBlock, device>>,
         ~failed' => /\ ~failed /\ used' = used \cup L
                     /\ InSpace(new) = InSpace(space[p]) \cup L
  PROVE  Balanced'
<1> SUFFICES ASSUME ~failed'
             PROVE  used' \ Reserved = device' \cup InBlocks' \cup Held'
  BY DEF Balanced
<1>1. InBlocks' = InBlocks
  BY DEF InBlocks
<1>2. Held' = Held \cup L
  <2> DEFINE Others == UNION {InSpace(space[q]) : q \in Process \ {p}}
  <2>1. Held' = InSpace(new) \cup Others
    BY HeldBy
  <2>2. Held = InSpace(space[p]) \cup Others
    BY HeldWithout
  <2> HIDE DEF Others
  <2> QED
    BY <2>1, <2>2
<1>3. L \cap Reserved = {}
  BY DEF Free
<1> QED
  BY <1>1, <1>2, <1>3 DEF Balanced

\* It gives back what it no longer holds.
LEMMA BalanceShrinks ==
  ASSUME MemManagerAssumption, IInv, Balanced, NEW p \in Process, NEW new, NEW back,
         space' = [space EXCEPT ![p] = new], UNCHANGED <<stackBlock, device, failed>>,
         used' = used \ back, back \subseteq InSpace(space[p]) \cup {NONE, 0},
         InSpace(new) = InSpace(space[p]) \ back
  PROVE  Balanced'
<1> SUFFICES ASSUME ~failed
             PROVE  used' \ Reserved = device' \cup InBlocks' \cup Held'
  BY DEF Balanced
<1> DEFINE Others == UNION {InSpace(space[q]) : q \in Process \ {p}}
<1>1. InBlocks' = InBlocks
  BY DEF InBlocks
<1>2. NONE \notin Page /\ 0 \in Reserved /\ \A q \in Process : InSpace(space[q]) \cap {NONE, 0} = {}
  BY DEF MemManagerAssumption, Reserved, InSpace
<1>3. device \cap back = {} /\ InBlocks \cap back = {} /\ Others \cap back = {}
  <2>1. device \cap {NONE, 0} = {} /\ InBlocks \cap {NONE, 0} = {} /\ Others \cap {NONE, 0} = {}
    <3>1. InBlocks \subseteq Page
      BY DEF IInv, Shape, InBlocks
    <3> QED
      BY <1>2, <3>1 DEF IInv, Shape, Marks, PagesOwnedOnce
  <2>2. \A q \in Process \ {p} : InSpace(space[q]) \cap InSpace(space[p]) = {}
    BY DEF IInv, PagesOwnedOnce
  <2>3. Others \cap InSpace(space[p]) = {}
    BY <2>2
  <2>4. (device \cup InBlocks) \cap InSpace(space[p]) = {}
    BY DEF IInv, PagesOwnedOnce
  <2> QED
    BY <2>1, <2>3, <2>4
<1>4. Held = InSpace(space[p]) \cup Others /\ Held' = (InSpace(space[p]) \ back) \cup Others
  BY HeldBy, HeldWithout
<1> HIDE DEF Others
<1>5. used \ Reserved = device \cup InBlocks \cup Held
  BY DEF Balanced
<1> QED
  BY <1>1, <1>3, <1>4, <1>5

\* Whatever space a process gets, the others' heaps stay, and the faults
\* when those of the process do.
LEMMA OthersKept ==
  ASSUME IInv, Heaps, AllCounted, NEW p \in Process, NEW new, space' = [space EXCEPT ![p] = new],
         new \in Space => Filled(new) /\ Counted(new)
  PROVE  Heaps' /\ AllCounted'
<1>1. \A q \in Process : space'[q] = IF q = p THEN new ELSE space[q]
  BY DEF IInv, Shape
<1>2. \A q \in Process : space'[q] \in Space => Filled(space'[q]) /\ Counted(space'[q])
  BY <1>1 DEF Heaps, AllCounted
<1> QED
  BY <1>2 DEF Heaps, AllCounted

LEMMA FaultsKept ==
  ASSUME IInv, Faults, NEW p \in Process, NEW new, space' = [space EXCEPT ![p] = new],
         UNCHANGED fault,
         Locked(p) => new.heap = space[p].heap /\ new.heapTable = space[p].heapTable
  PROVE  Faults'
<1>1. \A q \in Process : space'[q] = IF q = p THEN new ELSE space[q]
  BY DEF IInv, Shape
<1>2. ASSUME NEW s \in Server, fault[s] # NONE PROVE FaultRight(fault[s])'
  <2>1. fault[s].process \in Process
    BY <1>2 DEF IInv, Shape, Fault
  <2>2. /\ space'[fault[s].process].heap = space[fault[s].process].heap
        /\ space'[fault[s].process].heapTable = space[fault[s].process].heapTable
    BY <1>1, <1>2, <2>1 DEF Locked
  <2>3. FaultRight(fault[s])
    BY <1>2 DEF Faults
  <2> QED
    BY <2>2, <2>3 DEF FaultRight
<1> QED
  BY <1>2 DEF Faults

\* A process that is not there is in no fault.
LEMMA NotLoadedNotLocked ==
  ASSUME IInv, NEW p \in Process, space[p] \notin Space
  PROVE  ~Locked(p)
BY DEF IInv, Shape, Locked

-----------------------------------------------------------------------------
(* The operations.                                                         *)

LEMMA LoadedRight ==
  ASSUME MemManagerAssumption, HasPages(LoadCount)
  PROVE  LET new == NewSpace(Lowest(LoadCount)) IN
         /\ new \in Space /\ InSpace(new) = Lowest(LoadCount)
         /\ Filled(new) /\ Counted(new)
<1> DEFINE L == Lowest(LoadCount)
           new == NewSpace(L)
<1>1. LoadCount \in Nat
  BY DEF LoadCount, MemManagerAssumption
<1>2. L \in SUBSET Free /\ Cardinality(L) = LoadCount
  BY <1>1, LowestCount
<1>3. L \in SUBSET Page /\ L \cap {NONE, 0} = {}
  BY <1>2, PagesFinite DEF Free
<1> HIDE DEF L
<1>4. new \in Space
  BY <1>3, LoadedSpace
<1>5. Range(new.heapTable) \subseteq {NONE} /\ Range(new.heap) \subseteq {NONE}
  BY DEF NewSpace, Range
<1>6. InSpace(new) = L
  BY <1>3, <1>5 DEF NewSpace, InSpace
<1>7. Filled(new)
  <2>1. \A a \in 0 .. MaxHeap - 1 : new.heap[a] = NONE
    BY DEF NewSpace
  <2>2. \A t \in HeapTable : new.heapTable[t] = NONE
    BY DEF NewSpace
  <2>3. new.thread = NONE
    BY DEF NewSpace
  <2> HIDE DEF new
  <2> QED
    BY <2>1, <2>2, <2>3 DEF Filled
<1>8. Counted(new)
  <2>1. TablesOf(new) = {} /\ PagesOf(new) = {} /\ new.dllTables = {} /\ new.dlls = 0
    <3>1. \A a \in 0 .. MaxHeap - 1 : new.heap[a] = NONE
      BY DEF NewSpace
    <3>2. \A t \in HeapTable : new.heapTable[t] = NONE
      BY DEF NewSpace
    <3>3. new.dllTables = {} /\ new.dlls = 0
      BY DEF NewSpace
    <3> HIDE DEF new
    <3> QED
      BY <3>1, <3>2, <3>3 DEF TablesOf, PagesOf
  <2>2. GuiCount(new) = 0 /\ ThreadCount(new) = 0
    BY DEF NewSpace, GuiCount, ThreadCount
  <2>3. Cardinality({}) = 0
    BY FS_EmptySet
  <2>4. Count(new) = LoadCount + Cardinality(new.dllTables) + new.dlls + Cardinality(TablesOf(new))
                     + Cardinality(PagesOf(new)) + GuiCount(new) + ThreadCount(new)
    BY <1>4, CountIs
  <2> HIDE DEF new
  <2>5. Count(new) = LoadCount
    BY <1>1, <2>1, <2>2, <2>3, <2>4
  <2> QED
    BY <1>2, <1>6, <2>5 DEF Counted
<1> QED
  BY <1>4, <1>6, <1>7, <1>8 DEF L

LEMMA LoadBooks ==
  ASSUME MemManagerAssumption, IInv, HInv, NEW p \in Process, Load(p) \/ LoadWithoutParent(p)
  PROVE  Heaps' /\ Faults' /\ Balanced' /\ AllCounted'
<1> DEFINE L == Lowest(LoadCount)
<1>1. space[p] \notin Space /\ InSpace(space[p]) = {}
  BY DEF Load, LoadWithoutParent, Space, InSpace
<1>2. UNCHANGED <<stackBlock, device, fault>>
  BY DEF Load, LoadWithoutParent
<1>3. L \in SUBSET Free
  BY DEF Lowest
<1>4. PICK new : /\ space' = [space EXCEPT ![p] = new]
                 /\ new \in Space => Filled(new) /\ Counted(new)
                 /\ ~failed' => ~failed /\ used' = used \cup L /\ InSpace(new) = L
  <2>1. CASE Load(p) /\ HasPages(LoadCount)
    <3> DEFINE new == NewSpace(L)
    <3>1. space' = [space EXCEPT ![p] = new] /\ used' = used \cup L /\ failed' = failed
      BY <2>1 DEF Load, TakeSome
    <3>2. Filled(new) /\ Counted(new) /\ InSpace(new) = L
      BY <2>1, LoadedRight
    <3> HIDE DEF new, L
    <3> QED
      BY <3>1, <3>2
  <2>2. CASE ~(Load(p) /\ HasPages(LoadCount))
    <3>1. failed' = TRUE /\ space' = [space EXCEPT ![p] = Gone]
      BY <2>2 DEF Load, LoadWithoutParent, TakeSome
    <3>2. Gone \notin Space
      BY DEF Gone, Space
    <3> QED
      BY <3>1, <3>2
  <2> QED
    BY <2>1, <2>2
<1>5. ~Locked(p)
  BY <1>1, NotLoadedNotLocked
<1>6. Balanced'
  <2>1. ~failed' => ~failed /\ used' = used \cup L /\ InSpace(new) = InSpace(space[p]) \cup L
    BY <1>1, <1>4
  <2> QED
    BY <1>2, <1>3, <1>4, <2>1, BalanceGrows DEF HInv
<1>7. Heaps' /\ AllCounted'
  BY <1>4, OthersKept DEF HInv
<1>8. Faults'
  BY <1>2, <1>4, <1>5, FaultsKept DEF HInv
<1> QED
  BY <1>6, <1>7, <1>8

LEMMA SameHeap ==
  ASSUME NEW s, NEW new, Filled(s), new.heap = s.heap, new.heapTable = s.heapTable,
         new.thread # NONE => new.thread = s.thread \/ 0 \notin new.thread
  PROVE  Filled(new) /\ TablesOf(new) = TablesOf(s) /\ PagesOf(new) = PagesOf(s)
BY DEF Filled, TablesOf, PagesOf

\* A process keeps its space, or it grows by what it was given, or an
\* allocation failed half way.
LEMMA GrowthBooks ==
  ASSUME MemManagerAssumption, IInv, HInv, NEW p \in Process, NEW new \in Space, NEW L \in SUBSET Free,
         space[p] \in Space, space' = [space EXCEPT ![p] = new], UNCHANGED <<stackBlock, device, fault>>,
         new.heap = space[p].heap, new.heapTable = space[p].heapTable,
         new.thread # NONE => new.thread = space[p].thread \/ 0 \notin new.thread,
         InSpace(new) = InSpace(space[p]) \cup L, Count(new) = Count(space[p]) + Cardinality(L),
         ~failed' => ~failed /\ used' = used \cup L
  PROVE  Heaps' /\ Faults' /\ Balanced' /\ AllCounted'
<1>1. Filled(space[p]) /\ Counted(space[p])
  BY DEF HInv, Heaps, AllCounted
<1>2. Filled(new)
  BY <1>1, SameHeap
<1>3. Counted(new)
  BY <1>1, MorePages DEF Counted
<1>4. Balanced'
  BY BalanceGrows DEF HInv
<1>5. Heaps' /\ AllCounted'
  BY <1>2, <1>3, OthersKept DEF HInv
<1>6. Faults'
  BY FaultsKept DEF HInv
<1> QED
  BY <1>4, <1>5, <1>6

\* The same without pages, whatever failed.
LEMMA StayBooks ==
  ASSUME MemManagerAssumption, IInv, HInv, NEW p \in Process, NEW new \in Space,
         space[p] \in Space, space' = [space EXCEPT ![p] = new], UNCHANGED <<stackBlock, device, fault>>,
         new.heap = space[p].heap, new.heapTable = space[p].heapTable,
         new.thread # NONE => new.thread = space[p].thread \/ 0 \notin new.thread,
         InSpace(new) = InSpace(space[p]), Count(new) = Count(space[p]),
         ~failed' => ~failed /\ used' = used
  PROVE  Heaps' /\ Faults' /\ Balanced' /\ AllCounted'
<1>1. Cardinality({}) = 0 /\ Count(space[p]) + 0 = Count(space[p])
  BY FS_EmptySet, CountIs
<1>2. {} \in SUBSET Free /\ InSpace(new) = InSpace(space[p]) \cup {} /\ used \cup {} = used
  OBVIOUS
<1>3. Count(new) = Count(space[p]) + Cardinality({})
  BY <1>1
<1> QED
  BY <1>2, <1>3, GrowthBooks

\* A process that is to exit holds what it held.
LEMMA DoomedSame ==
  ASSUME NEW s \in Space
  PROVE  LET new == [s EXCEPT !.phase = "doomed"] IN
         /\ new \in Space /\ new.heap = s.heap /\ new.heapTable = s.heapTable /\ new.thread = s.thread
         /\ InSpace(new) = InSpace(s) /\ Count(new) = Count(s)
<1> DEFINE new == [s EXCEPT !.phase = "doomed"]
<1>1. /\ new \in Space /\ new.heap = s.heap /\ new.heapTable = s.heapTable /\ new.thread = s.thread
      /\ new.dllTables = s.dllTables /\ new.dlls = s.dlls /\ new.gui = s.gui /\ Main(new) = Main(s)
  BY DEF Space, Main
<1> HIDE DEF new
<1>2. InSpace(new) = InSpace(s)
  BY <1>1, Holdings
<1>3. Count(new) = Count(s)
  BY <1>1 DEF Count
<1> QED
  BY <1>1, <1>2, <1>3 DEF new

LEMMA MapDLLBooks ==
  ASSUME MemManagerAssumption, IInv, HInv, NEW p \in Process, NEW n \in 1 .. MaxDLL, MapDLLPagesToProcess(p, n)
  PROVE  Heaps' /\ Faults' /\ Balanced' /\ AllCounted'
<1> DEFINE s == space[p]
           tables == Tables(s.dlls + n) - Tables(s.dlls)
           T == Lowest(tables)
           L == Lowest(tables + n)
           new == [s EXCEPT !.dlls = @ + n, !.dllTables = @ \cup T, !.dllPages = @ \cup (L \ T)]
<1>1. s \in Space
  BY DEF IInv, Shape, MapDLLPagesToProcess, NoSpace, Gone
<1>2. n \in Nat /\ s.dlls \in Nat
  BY <1>1 DEF Space, MemManagerAssumption
<1>3. tables \in Nat
  BY <1>2, TableCount
<1>4. UNCHANGED <<stackBlock, device, fault>>
  BY DEF MapDLLPagesToProcess
<1>5. /\ TakeSome(tables + n)
      /\ space' = [space EXCEPT ![p] = IF HasPages(tables + n) THEN new ELSE s]
  BY DEF MapDLLPagesToProcess, IInv, Shape
<1> HIDE DEF tables
<1>6. CASE ~HasPages(tables + n)
  <2>1. failed' = TRUE /\ space' = [space EXCEPT ![p] = s]
    BY <1>5, <1>6 DEF TakeSome
  <2> QED
    BY <1>1, <1>4, <2>1, StayBooks
<1>7. CASE HasPages(tables + n)
  <2>1. used' = used \cup L /\ failed' = failed /\ space' = [space EXCEPT ![p] = new]
    BY <1>5, <1>7 DEF TakeSome
  <2>2. L \in SUBSET Free /\ Cardinality(L) = tables + n
    BY <1>2, <1>3, <1>7, LowestCount
  <2>3. T \subseteq L
    BY <1>2, <1>3, LowestGrows
  <2>4. HasPages(tables)
    <3>1. Cardinality(Free) \in Nat /\ tables <= tables + n
      BY <1>2, <1>3, PagesFinite DEF Free
    <3> QED
      BY <1>2, <1>3, <1>7, <3>1 DEF HasPages
  <2>5. Cardinality(T) = tables
    BY <1>3, <2>4, LowestCount
  <2>6. L \in SUBSET Page /\ T \in SUBSET Page /\ L \cap (used \cup {NONE, 0}) = {}
    BY <2>2, <2>3, PagesFinite DEF Free
  <2> HIDE DEF T, L
  <2>7. /\ new \in Space /\ new.thread = s.thread /\ new.gui = s.gui
        /\ new.heap = s.heap /\ new.heapTable = s.heapTable
        /\ new.dlls = s.dlls + n /\ new.dllTables = s.dllTables \cup T
    <3>1. s.dlls + n \in Nat /\ s.dllTables \cup T \in SUBSET Page /\ s.dllPages \cup (L \ T) \in SUBSET Page
      BY <1>1, <1>2, <2>6 DEF Space
    <3> QED
      BY <1>1, <3>1 DEF Space
  <2>8. Main(new) = Main(s) \cup L
    BY <1>1, <2>3 DEF Main, Space
  <2> HIDE DEF new
  <2>9. InSpace(new) = InSpace(s) \cup L
    BY <1>1, <2>6, <2>7, <2>8, Holdings
  <2>10. Cardinality(new.dllTables) = Cardinality(s.dllTables) + tables
    <3>1. s.dllTables \in SUBSET Page /\ s.dllTables \subseteq Main(s)
      BY <1>1 DEF Space, Main
    <3>2. s.dllTables \cap T = {}
      BY <1>1, <2>3, <2>6, <3>1, PartsUsed
    <3>3. IsFiniteSet(s.dllTables) /\ IsFiniteSet(T) /\ Cardinality(s.dllTables) \in Nat
      BY <2>6, <3>1, PagesFinite
    <3>4. Cardinality(s.dllTables \cup T) = Cardinality(s.dllTables) + Cardinality(T) - Cardinality(s.dllTables \cap T)
      BY <3>3, FS_Union
    <3>5. Cardinality({}) = 0
      BY FS_EmptySet
    <3>6. new.dllTables = s.dllTables \cup T
      BY <2>7
    <3>7. Cardinality(s.dllTables \cap T) = 0
      BY <3>2, <3>5
    <3>8. Cardinality(s.dllTables \cup T) = Cardinality(s.dllTables) + tables
      BY <1>3, <2>5, <3>3, <3>4, <3>7
    <3> QED
      BY <3>6, <3>8
  <2>11. /\ TablesOf(new) = TablesOf(s) /\ PagesOf(new) = PagesOf(s)
         /\ GuiCount(new) = GuiCount(s) /\ ThreadCount(new) = ThreadCount(s)
    BY <2>7 DEF TablesOf, PagesOf, GuiCount, ThreadCount
  <2>12. Count(new) = Count(s) + Cardinality(L)
    <3>1. Count(s) = LoadCount + Cardinality(s.dllTables) + s.dlls + Cardinality(TablesOf(s))
                     + Cardinality(PagesOf(s)) + GuiCount(s) + ThreadCount(s)
      BY <1>1, CountIs
    <3>2. Count(new) = LoadCount + Cardinality(new.dllTables) + new.dlls + Cardinality(TablesOf(new))
                     + Cardinality(PagesOf(new)) + GuiCount(new) + ThreadCount(new)
      BY <2>7, CountIs
    <3>3. /\ LoadCount \in Nat /\ Cardinality(s.dllTables) \in Nat /\ Cardinality(TablesOf(s)) \in Nat
          /\ Cardinality(PagesOf(s)) \in Nat /\ GuiCount(s) \in Nat /\ ThreadCount(s) \in Nat
      BY <1>1, CountIs
    <3> QED
      BY <1>2, <1>3, <2>2, <2>7, <2>10, <2>11, <3>1, <3>2, <3>3
  <2> QED
    BY <1>1, <1>4, <2>1, <2>2, <2>7, <2>9, <2>12, GrowthBooks
<1> QED
  BY <1>6, <1>7

LEMMA FrameBufferBooks ==
  ASSUME MemManagerAssumption, IInv, HInv, NEW p \in Process, AllocateGUIFramebuffer(p)
  PROVE  Heaps' /\ Faults' /\ Balanced' /\ AllCounted'
<1> DEFINE s == space[p]
<1>1. s \in Space /\ s.gui = NONE
  BY DEF AllocateGUIFramebuffer, IInv, Shape, NoSpace, Gone
<1>2. UNCHANGED <<stackBlock, device, fault>> /\ TakeSome(1)
  BY DEF AllocateGUIFramebuffer
<1>3. 0 \in Cell /\ 0 \in Page
  BY DEF Cell, Page, MemManagerAssumption
<1>4. ASSUME NEW page \in Page, space' = [space EXCEPT ![p].gui = page]
      PROVE  \E new \in Space :
               /\ space' = [space EXCEPT ![p] = new] /\ new.gui = page /\ new.thread = s.thread
               /\ new.heap = s.heap /\ new.heapTable = s.heapTable
               /\ InSpace(new) = InSpace(s) \cup ({page} \ {0})
               /\ Count(new) = Count(s) + (IF page = 0 THEN 0 ELSE 1)
  <2> DEFINE new == [s EXCEPT !.gui = page]
  <2>1. space' = [space EXCEPT ![p] = new]
    BY <1>4 DEF IInv, Shape
  <2>2. page \in Cell /\ page # NONE
    BY DEF Cell, MemManagerAssumption
  <2>3. /\ new \in Space /\ new.gui = page /\ new.thread = s.thread /\ new.dlls = s.dlls
        /\ new.dllTables = s.dllTables /\ new.heap = s.heap /\ new.heapTable = s.heapTable
    BY <1>1, <2>2 DEF Space
  <2>4. Main(new) \ {NONE, 0} = (Main(s) \ {NONE, 0}) \cup ({page} \ {0})
    BY <1>1, <2>2 DEF Space, Main
  <2> HIDE DEF new
  <2>5. InSpace(new) = InSpace(s) \cup ({page} \ {0})
    BY <1>1, <2>2, <2>3, <2>4, Holdings
  <2>6. /\ TablesOf(new) = TablesOf(s) /\ PagesOf(new) = PagesOf(s) /\ ThreadCount(new) = ThreadCount(s)
        /\ GuiCount(s) = 0 /\ GuiCount(new) = IF page = 0 THEN 0 ELSE 1
    BY <1>1, <2>2, <2>3 DEF TablesOf, PagesOf, GuiCount, ThreadCount
  <2>7. Count(s) = LoadCount + Cardinality(s.dllTables) + s.dlls + Cardinality(TablesOf(s))
                   + Cardinality(PagesOf(s)) + GuiCount(s) + ThreadCount(s)
    BY <1>1, CountIs
  <2>8. Count(new) = LoadCount + Cardinality(new.dllTables) + new.dlls + Cardinality(TablesOf(new))
                     + Cardinality(PagesOf(new)) + GuiCount(new) + ThreadCount(new)
    BY <2>3, CountIs
  <2>9. /\ LoadCount \in Nat /\ Cardinality(s.dllTables) \in Nat /\ Cardinality(TablesOf(s)) \in Nat
        /\ Cardinality(PagesOf(s)) \in Nat /\ ThreadCount(s) \in Nat /\ s.dlls \in Nat
    BY <1>1, CountIs
  <2>10. Count(new) = Count(s) + (IF page = 0 THEN 0 ELSE 1)
    BY <2>3, <2>6, <2>7, <2>8, <2>9
  <2> QED
    BY <2>1, <2>3, <2>5, <2>10
<1>5. CASE ~HasPages(1) /\ space' = [space EXCEPT ![p].gui = 0]
  <2>1. PICK new \in Space :
          /\ space' = [space EXCEPT ![p] = new] /\ new.gui = 0 /\ new.thread = s.thread
          /\ new.heap = s.heap /\ new.heapTable = s.heapTable
          /\ InSpace(new) = InSpace(s) \cup ({0} \ {0}) /\ Count(new) = Count(s) + 0
    BY <1>3, <1>4, <1>5
  <2>2. failed' = TRUE
    BY <1>2, <1>5 DEF TakeSome
  <2>3. Cardinality({}) = 0 /\ {} \in SUBSET Free /\ {0} \ {0} = {}
    BY FS_EmptySet
  <2> QED
    BY <1>1, <1>2, <2>1, <2>2, <2>3, GrowthBooks
<1>6. ASSUME NEW page \in Lowest(1), space' = [space EXCEPT ![p].gui = page]
      PROVE  Heaps' /\ Faults' /\ Balanced' /\ AllCounted'
  <2>1. page \in Free /\ page \in Page /\ page # 0 /\ HasPages(1) /\ Lowest(1) = {page}
    BY OneLowest, PagesFinite DEF Free
  <2>2. PICK new \in Space :
          /\ space' = [space EXCEPT ![p] = new] /\ new.gui = page /\ new.thread = s.thread
          /\ new.heap = s.heap /\ new.heapTable = s.heapTable
          /\ InSpace(new) = InSpace(s) \cup ({page} \ {0}) /\ Count(new) = Count(s) + 1
    BY <1>4, <1>6, <2>1
  <2>3. used' = used \cup {page} /\ failed' = failed
    BY <1>2, <2>1 DEF TakeSome
  <2>4. {page} \ {0} = {page} /\ Cardinality({page}) = 1 /\ {page} \in SUBSET Free
    BY <2>1, FS_Singleton
  <2> QED
    BY <1>1, <1>2, <2>2, <2>3, <2>4, GrowthBooks
<1> QED
  BY <1>5, <1>6 DEF AllocateGUIFramebuffer

LEMMA CreateThreadBooks ==
  ASSUME MemManagerAssumption, IInv, HInv, NEW p \in Process, CreateThread(p)
  PROVE  Heaps' /\ Faults' /\ Balanced' /\ AllCounted'
<1> DEFINE s == space[p]
           n == 1 + StackPages
           L == Lowest(n)
           new == [s EXCEPT !.thread = L]
<1>1. s \in Space /\ s.thread = NONE
  BY DEF CreateThread, IInv, Shape, NoSpace, Gone
<1>2. UNCHANGED <<stackBlock, device, fault>> /\ TakeSome(n)
  BY DEF CreateThread
<1>3. n \in Nat
  BY DEF MemManagerAssumption
<1>4. space' = [space EXCEPT ![p] = IF HasPages(n) THEN new ELSE s]
  BY DEF CreateThread, IInv, Shape
<1>5. CASE ~HasPages(n)
  <2>1. failed' = TRUE /\ space' = [space EXCEPT ![p] = s]
    BY <1>2, <1>4, <1>5 DEF TakeSome
  <2> QED
    BY <1>1, <1>2, <2>1, StayBooks
<1>6. CASE HasPages(n)
  <2>1. used' = used \cup L /\ failed' = failed /\ space' = [space EXCEPT ![p] = new]
    BY <1>2, <1>4, <1>6 DEF TakeSome
  <2>2. L \in SUBSET Free /\ Cardinality(L) = n
    BY <1>3, <1>6, LowestCount
  <2>3. L \in SUBSET Page /\ L \cap {NONE, 0} = {} /\ L # NONE
    BY <2>2, PagesFinite DEF Free, MemManagerAssumption
  <2> HIDE DEF L, n
  <2>4. /\ new \in Space /\ new.thread = L /\ new.gui = s.gui /\ new.dlls = s.dlls
        /\ new.dllTables = s.dllTables /\ new.heap = s.heap /\ new.heapTable = s.heapTable
        /\ Main(new) = Main(s)
    BY <1>1, <2>3 DEF Space, Main
  <2> HIDE DEF new
  <2>5. InSpace(new) = InSpace(s) \cup L
    BY <1>1, <2>3, <2>4, Holdings
  <2>6. /\ TablesOf(new) = TablesOf(s) /\ PagesOf(new) = PagesOf(s) /\ GuiCount(new) = GuiCount(s)
        /\ ThreadCount(s) = 0 /\ ThreadCount(new) = n
    BY <1>1, <2>2, <2>3, <2>4 DEF TablesOf, PagesOf, GuiCount, ThreadCount
  <2>7. Count(s) = LoadCount + Cardinality(s.dllTables) + s.dlls + Cardinality(TablesOf(s))
                   + Cardinality(PagesOf(s)) + GuiCount(s) + ThreadCount(s)
    BY <1>1, CountIs
  <2>8. Count(new) = LoadCount + Cardinality(new.dllTables) + new.dlls + Cardinality(TablesOf(new))
                     + Cardinality(PagesOf(new)) + GuiCount(new) + ThreadCount(new)
    BY <2>4, CountIs
  <2>9. /\ LoadCount \in Nat /\ Cardinality(s.dllTables) \in Nat /\ Cardinality(TablesOf(s)) \in Nat
        /\ Cardinality(PagesOf(s)) \in Nat /\ GuiCount(s) \in Nat /\ s.dlls \in Nat
    BY <1>1, CountIs
  <2>10. Count(new) = Count(s) + Cardinality(L)
    BY <1>3, <2>2, <2>4, <2>6, <2>7, <2>8, <2>9
  <2>11. 0 \notin new.thread
    BY <2>3, <2>4
  <2> QED
    BY <1>1, <1>2, <2>1, <2>2, <2>4, <2>5, <2>10, <2>11, GrowthBooks
<1> QED
  BY <1>5, <1>6

\* A process gives back the pages of its thread; page 0 is none of them.
LEMMA DestroyThreadBooks ==
  ASSUME MemManagerAssumption, IInv, HInv, NEW p \in Process, DestroyThread(p)
  PROVE  Heaps' /\ Faults' /\ Balanced' /\ AllCounted'
<1> DEFINE s == space[p]
           new == [s EXCEPT !.thread = NONE]
<1>1. s \in Space /\ s.thread # NONE /\ s.thread \in SUBSET Page
  BY DEF DestroyThread, IInv, Shape, Running, NoSpace, Gone, Space
<1>2. UNCHANGED <<stackBlock, device, fault, failed>> /\ used' = used \ s.thread
  BY DEF DestroyThread, AfterDeAllocate
<1>3. space' = [space EXCEPT ![p] = new]
  BY DEF DestroyThread, IInv, Shape
<1>4. /\ new \in Space /\ new.thread = NONE /\ new.gui = s.gui /\ new.dlls = s.dlls
      /\ new.dllTables = s.dllTables /\ new.heap = s.heap /\ new.heapTable = s.heapTable
      /\ Main(new) = Main(s)
  BY <1>1 DEF Space, Main
<1> HIDE DEF new
<1>5. Filled(s) /\ Counted(s)
  BY <1>1 DEF HInv, Heaps, AllCounted
<1>6. s.thread \cap {NONE, 0} = {}
  BY <1>1, <1>5 DEF Filled, MemManagerAssumption
<1>7. s.thread \cap (Main(s) \ {NONE, 0}) = {}
  BY <1>1 DEF IInv, ThreadApart
<1>8. InSpace(s) = (Main(s) \ {NONE, 0}) \cup s.thread /\ InSpace(new) = Main(s) \ {NONE, 0}
  BY <1>1, <1>4, <1>6, Holdings
<1>9. InSpace(new) = InSpace(s) \ s.thread /\ s.thread \subseteq InSpace(s)
  BY <1>7, <1>8
<1>10. Filled(new)
  BY <1>4, <1>5, SameHeap
<1>11. Cardinality(InSpace(s)) = Cardinality(InSpace(new)) + Cardinality(s.thread)
  <2>1. InSpace(s) \in SUBSET Page
    BY InSpacePages
  <2>2. IsFiniteSet(InSpace(s)) /\ IsFiniteSet(s.thread) /\ Cardinality(s.thread) \in Nat /\ Cardinality(InSpace(s)) \in Nat
    BY <1>1, <2>1, PagesFinite
  <2>3. Cardinality(InSpace(s) \ s.thread) = Cardinality(InSpace(s)) - Cardinality(InSpace(s) \cap s.thread)
    BY <2>2, FS_Difference
  <2>4. InSpace(s) \cap s.thread = s.thread
    BY <1>9
  <2> HIDE DEF s
  <2>5. Cardinality(InSpace(new)) = Cardinality(InSpace(s)) - Cardinality(s.thread)
    BY <1>9, <2>3, <2>4
  <2> QED
    BY <2>2, <2>5
<1>12. Counted(new)
  <2>1. /\ TablesOf(new) = TablesOf(s) /\ PagesOf(new) = PagesOf(s) /\ GuiCount(new) = GuiCount(s)
        /\ ThreadCount(s) = Cardinality(s.thread) /\ ThreadCount(new) = 0
    BY <1>1, <1>4 DEF TablesOf, PagesOf, GuiCount, ThreadCount
  <2>2. Count(s) = LoadCount + Cardinality(s.dllTables) + s.dlls + Cardinality(TablesOf(s))
                   + Cardinality(PagesOf(s)) + GuiCount(s) + ThreadCount(s)
    BY <1>1, CountIs
  <2>3. Count(new) = LoadCount + Cardinality(new.dllTables) + new.dlls + Cardinality(TablesOf(new))
                     + Cardinality(PagesOf(new)) + GuiCount(new) + ThreadCount(new)
    BY <1>4, CountIs
  <2>4. /\ LoadCount \in Nat /\ Cardinality(s.dllTables) \in Nat /\ Cardinality(TablesOf(s)) \in Nat
        /\ Cardinality(PagesOf(s)) \in Nat /\ GuiCount(s) \in Nat /\ s.dlls \in Nat
    BY <1>1, CountIs
  <2>5. Cardinality(InSpace(s)) = Count(s)
    BY <1>5 DEF Counted
  <2>6. Cardinality(InSpace(new)) \in Nat /\ Cardinality(s.thread) \in Nat
    <3>1. InSpace(new) \in SUBSET Page
      BY <1>9, InSpacePages
    <3> QED
      BY <1>1, <3>1, PagesFinite
  <2> HIDE DEF s
  <2>7. Cardinality(InSpace(new)) = Count(new)
    BY <1>4, <1>11, <2>1, <2>2, <2>3, <2>4, <2>5, <2>6
  <2> QED
    BY <2>7 DEF Counted
<1>13. Balanced'
  BY <1>2, <1>3, <1>9, BalanceShrinks DEF HInv
<1>14. Heaps' /\ AllCounted'
  BY <1>3, <1>10, <1>12, OthersKept DEF HInv
<1>15. Faults'
  BY <1>2, <1>3, <1>4, FaultsKept DEF HInv
<1> QED
  BY <1>13, <1>14, <1>15

LEMMA RefuseFaultBooks ==
  ASSUME MemManagerAssumption, IInv, HInv, NEW p \in Process, RefuseFault(p)
  PROVE  Heaps' /\ Faults' /\ Balanced' /\ AllCounted'
<1> DEFINE s == space[p]
           new == [s EXCEPT !.phase = "doomed"]
<1>1. s \in Space
  BY DEF RefuseFault, IInv, Shape, NoSpace, Gone
<1>2. UNCHANGED <<used, stackBlock, device, fault, failed>>
  BY DEF RefuseFault
<1>3. space' = [space EXCEPT ![p] = new]
  BY DEF RefuseFault, IInv, Shape
<1> QED
  BY <1>1, <1>2, <1>3, DoomedSame, StayBooks

\* A process that ends gives back what it holds: the walk over its heap
\* misses nothing.
LEMMA HeapPagesAll ==
  ASSUME NEW s \in Space, Filled(s)
  PROVE  HeapPages(s) = (Range(s.heap) \cup Range(s.heapTable)) \ {NONE}
<1>1. s.heap \in [0 .. MaxHeap - 1 -> Cell] /\ s.heapTable \in [HeapTable -> Cell]
  BY DEF Space
<1>2. \A a \in 0 .. MaxHeap - 1 : (\A b \in 0 .. a : s.heap[b] # NONE) <=> s.heap[a] # NONE
  <2> TAKE a \in 0 .. MaxHeap - 1
  <2>1. a \in 0 .. a /\ \A b \in 0 .. a : b = a \/ b \in 0 .. a - 1
    OBVIOUS
  <2>2. s.heap[a] # NONE => \A b \in 0 .. a - 1 : s.heap[b] # NONE
    BY DEF Filled
  <2> QED
    BY <2>1, <2>2
<1>3. \A t \in HeapTable : (\A u \in 0 .. t : s.heapTable[u] # NONE) <=> s.heapTable[t] # NONE
  <2> TAKE t \in HeapTable
  <2>1. t \in 0 .. t /\ \A u \in 0 .. t : u = t \/ u \in 0 .. t - 1
    BY DEF HeapTable
  <2>2. s.heapTable[t] # NONE => \A u \in 0 .. t - 1 : s.heapTable[u] # NONE
    BY DEF Filled
  <2> QED
    BY <2>1, <2>2
<1>4. HeapPages(s) = {s.heap[a] : a \in {b \in 0 .. MaxHeap - 1 : s.heap[b] # NONE}}
                     \cup {s.heapTable[t] : t \in {u \in HeapTable : s.heapTable[u] # NONE}}
  <2>1. {a \in DOMAIN s.heap : \A b \in 0 .. a : s.heap[b] # NONE} = {b \in 0 .. MaxHeap - 1 : s.heap[b] # NONE}
    BY <1>1, <1>2
  <2>2. {t \in HeapTable : \A u \in 0 .. t : s.heapTable[u] # NONE} = {u \in HeapTable : s.heapTable[u] # NONE}
    BY <1>3
  <2> QED
    BY <2>1, <2>2 DEF HeapPages
<1>5. /\ Range(s.heap) = {s.heap[a] : a \in 0 .. MaxHeap - 1}
      /\ Range(s.heapTable) = {s.heapTable[t] : t \in HeapTable}
  BY <1>1 DEF Range
<1> QED
  BY <1>4, <1>5

LEMMA DeAllocateResourcesBooks ==
  ASSUME MemManagerAssumption, IInv, HInv, NEW p \in Process, DeAllocateResources(p)
  PROVE  Heaps' /\ Faults' /\ Balanced' /\ AllCounted'
<1> DEFINE s == space[p]
           back == Released(s)
<1>1. s \in Space /\ s.thread = NONE /\ ~Locked(p)
  BY DEF DeAllocateResources, IInv, Shape, Running, NoSpace, Gone
<1>2. UNCHANGED <<stackBlock, device, fault, failed>> /\ used' = used \ back
  BY DEF DeAllocateResources, AfterDeAllocate
<1>3. space' = [space EXCEPT ![p] = Gone]
  BY DEF DeAllocateResources
<1>4. Filled(s)
  BY <1>1 DEF HInv, Heaps
<1>5. back \ {NONE, 0} = InSpace(s)
  <2>1. back = s.pages \cup s.dllTables \cup s.dllPages
               \cup ((Range(s.heap) \cup Range(s.heapTable)) \ {NONE}) \cup {s.gui}
    BY <1>1, <1>4, HeapPagesAll DEF Released
  <2>2. InSpace(s) = Main(s) \ {NONE, 0}
    BY <1>1, Holdings
  <2> HIDE DEF back
  <2> QED
    BY <2>1, <2>2 DEF Main
<1> HIDE DEF back
<1>6. InSpace(Gone) = {} /\ Gone \notin Space
  BY DEF InSpace, Gone, Space
<1>7. back \subseteq InSpace(s) \cup {NONE, 0} /\ InSpace(Gone) = InSpace(s) \ back
  BY <1>5, <1>6
<1>8. Balanced'
  BY <1>2, <1>3, <1>7, BalanceShrinks DEF HInv
<1>9. Heaps' /\ AllCounted'
  BY <1>3, <1>6, OthersKept DEF HInv
<1>10. Faults'
  BY <1>1, <1>2, <1>3, FaultsKept DEF HInv
<1> QED
  BY <1>8, <1>9, <1>10

-----------------------------------------------------------------------------
(* Page faults.  The tables of a process change while one server is in a   *)
(* fault of it, and no other is.                                           *)

\* A page of the heap has its table, and the first page of each table is a
\* page of the heap when a later one is touched.
LEMMA TableIndex ==
  ASSUME MemManagerAssumption, NEW a \in 0 .. MaxHeap - 1
  PROVE  a \div PerTable \in HeapTable
<1>1. PerTable \in Nat \ {0} /\ MaxHeap \in Nat
  BY DEF MemManagerAssumption
<1> QED
  BY <1>1 DEF HeapTable, Tables

LEMMA FirstOfTable ==
  ASSUME MemManagerAssumption, NEW a \in 0 .. MaxHeap - 1, NEW u \in 0 .. (a \div PerTable) - 1
  PROVE  u * PerTable \in 0 .. a - 1 /\ (u * PerTable) \div PerTable = u
<1>1. PerTable \in Nat \ {0} /\ a \in Nat /\ u \in Nat
  BY DEF MemManagerAssumption
<1>2. u + 1 <= a \div PerTable
  BY <1>1
<1>3. PerTable * (a \div PerTable) <= a
  BY <1>1
<1>4. PerTable * (u + 1) <= PerTable * (a \div PerTable)
  BY <1>1, <1>2
<1>5. PerTable * (u + 1) = u * PerTable + PerTable
  BY <1>1
<1>6. u * PerTable \in Nat
  BY <1>1
<1>7. u * PerTable < a
  BY <1>1, <1>3, <1>4, <1>5, <1>6
<1>8. (u * PerTable) \div PerTable = u
  BY <1>1
<1> QED
  BY <1>1, <1>6, <1>7, <1>8

LEMMA FaultMoves ==
  ASSUME IInv, Faults, NEW s \in Server, NEW p \in Process, fault[s] # NONE, fault[s].process = p,
         NEW f \in Fault \cup {NONE}, NEW new,
         fault' = [fault EXCEPT ![s] = f], space' = [space EXCEPT ![p] = new],
         f # NONE => f.process = p /\ FaultRight(f)'
  PROVE  Faults'
<1>1. \A q \in Process : space'[q] = IF q = p THEN new ELSE space[q]
  BY DEF IInv, Shape
<1>2. \A t \in Server : fault'[t] = IF t = s THEN f ELSE fault[t]
  BY DEF IInv, Shape
<1>3. ASSUME NEW t \in Server, fault'[t] # NONE PROVE FaultRight(fault[t])'
  <2>1. CASE t = s
    <3>1. fault'[t] = f /\ f # NONE
      BY <1>2, <1>3, <2>1
    <3>2. FaultRight(f)'
      BY <3>1
    <3> QED
      BY <3>1, <3>2 DEF FaultRight
  <2>2. CASE t # s
    <3>1. fault'[t] = fault[t] /\ fault[t] # NONE
      BY <1>2, <1>3, <2>2
    <3>2. fault[t].process # p /\ fault[t].process \in Process
      BY <2>2, <3>1 DEF Faults, IInv, Shape, Fault
    <3>3. space'[fault[t].process] = space[fault[t].process]
      BY <1>1, <3>2
    <3>4. FaultRight(fault[t])
      BY <3>1 DEF Faults
    <3> QED
      BY <3>1, <3>3, <3>4 DEF FaultRight
  <2> QED
    BY <2>1, <2>2
<1>4. \A t, u \in Server :
        fault'[t] # NONE /\ fault'[u] # NONE /\ fault'[t].process = fault'[u].process => t = u
  BY <1>2 DEF Faults
<1> QED
  BY <1>3, <1>4 DEF Faults

LEMMA FaultGrows ==
  ASSUME MemManagerAssumption, IInv, HInv, NEW p \in Process, NEW new \in Space, NEW L \in SUBSET Free,
         space[p] \in Space, space' = [space EXCEPT ![p] = new], UNCHANGED <<stackBlock, device, failed>>,
         used' = used \cup L, Filled(new),
         InSpace(new) = InSpace(space[p]) \cup L, Count(new) = Count(space[p]) + Cardinality(L)
  PROVE  Heaps' /\ Balanced' /\ AllCounted'
<1>1. Counted(space[p])
  BY DEF HInv, AllCounted
<1>2. Counted(new)
  BY <1>1, MorePages DEF Counted
<1>3. Balanced'
  BY BalanceGrows DEF HInv
<1>4. Heaps' /\ AllCounted'
  BY <1>2, OthersKept DEF HInv
<1> QED
  BY <1>3, <1>4

LEMMA SameBooks ==
  ASSUME HInv, UNCHANGED <<used, space, stackBlock, device, failed>>
  PROVE  Heaps' /\ Balanced' /\ AllCounted'
<1>1. InBlocks' = InBlocks /\ Held' = Held
  BY DEF InBlocks, Held
<1> QED
  BY <1>1 DEF HInv, Heaps, Balanced, AllCounted

\* The mutex keeps a second server out.
LEMMA EnterFaultBooks ==
  ASSUME MemManagerAssumption, IInv, HInv,
         NEW s \in Server, NEW p \in Process, NEW a \in 0 .. MaxHeap - 1, EnterFault(s, p, a)
  PROVE  Heaps' /\ Faults' /\ Balanced' /\ AllCounted'
<1> DEFINE f == [process |-> p, addr |-> a, at |-> "table", absent |-> space[p].heapTable[a \div PerTable] = NONE]
<1>1. UNCHANGED <<used, space, stackBlock, device, failed>>
  BY DEF EnterFault
<1>2. fault' = [fault EXCEPT ![s] = f] /\ ~Locked(p) /\ \A b \in 0 .. a - 1 : space[p].heap[b] # NONE
  BY DEF EnterFault
<1>3. FaultRight(f)
  BY <1>2 DEF FaultRight
<1>4. f.process = p
  OBVIOUS
<1> HIDE DEF f
<1>5. \A t \in Server : fault'[t] = IF t = s THEN f ELSE fault[t]
  BY <1>2 DEF IInv, Shape
<1>6. ASSUME NEW t \in Server, fault'[t] # NONE PROVE FaultRight(fault[t])'
  <2>1. PICK g : g = fault'[t]
    OBVIOUS
  <2>2. FaultRight(g)
    BY <1>3, <1>5, <1>6, <2>1 DEF HInv, Faults
  <2> QED
    BY <1>1, <2>1, <2>2 DEF FaultRight
<1>7. \A t, u \in Server :
        fault'[t] # NONE /\ fault'[u] # NONE /\ fault'[t].process = fault'[u].process => t = u
  BY <1>2, <1>4, <1>5 DEF HInv, Faults, Locked
<1>8. Faults'
  BY <1>6, <1>7 DEF Faults
<1> QED
  BY <1>1, <1>8, SameBooks

LEMMA NoPageBooks ==
  ASSUME MemManagerAssumption, IInv, HInv, NEW s \in Server, NEW p \in Process, space[p] \in Space,
         fault[s] # NONE, fault[s].process = p, NoPageForFault(s, p), UNCHANGED <<stackBlock, device, failed>>
  PROVE  Heaps' /\ Faults' /\ Balanced' /\ AllCounted'
<1>1. PICK new \in Space :
        /\ space' = [space EXCEPT ![p] = new] /\ new.heap = space[p].heap /\ new.heapTable = space[p].heapTable
        /\ new.thread = space[p].thread /\ InSpace(new) = InSpace(space[p]) /\ Count(new) = Count(space[p])
  <2>1. space' = [space EXCEPT ![p] = [space[p] EXCEPT !.phase = "doomed"]]
    BY DEF NoPageForFault, IInv, Shape
  <2> QED
    BY <2>1, DoomedSame
<1>2. Filled(space[p])
  BY DEF HInv, Heaps
<1>3. Filled(new)
  BY <1>1, <1>2, SameHeap
<1>4. used' = used \cup {} /\ {} \in SUBSET Free /\ fault' = [fault EXCEPT ![s] = NONE]
  BY DEF NoPageForFault
<1>5. InSpace(new) = InSpace(space[p]) \cup {} /\ Count(new) = Count(space[p]) + Cardinality({})
  <2>1. Cardinality({}) = 0 /\ Count(space[p]) + 0 = Count(space[p])
    BY FS_EmptySet, CountIs
  <2> QED
    BY <1>1, <2>1
<1>6. Heaps' /\ Balanced' /\ AllCounted'
  BY <1>1, <1>3, <1>4, <1>5, FaultGrows
<1>7. Faults'
  BY <1>1, <1>4, FaultMoves DEF HInv
<1> QED
  BY <1>6, <1>7

LEMMA OneMore ==
  ASSUME NEW T, IsFiniteSet(T), NEW t, t \notin T
  PROVE  Cardinality(T \cup {t}) = Cardinality(T) + 1
BY FS_AddElement

LEMMA EntryFilled ==
  ASSUME NEW D, NEW h \in [D -> Cell], NEW i \in D, h[i] = NONE, NEW page \in Page, NONE \notin Page
  PROVE  LET new == [h EXCEPT ![i] = page] IN
         /\ Range(new) \ {NONE} = (Range(h) \ {NONE}) \cup {page}
         /\ {j \in D : new[j] # NONE} = {j \in D : h[j] # NONE} \cup {i}
         /\ i \notin {j \in D : h[j] # NONE}
<1> DEFINE new == [h EXCEPT ![i] = page]
<1>1. DOMAIN new = D /\ \A j \in D : new[j] = IF j = i THEN page ELSE h[j]
  OBVIOUS
<1> HIDE DEF new
<1>2. {j \in D : new[j] # NONE} = {j \in D : h[j] # NONE} \cup {i}
  BY <1>1
<1>3. Range(new) \ {NONE} = (Range(h) \ {NONE}) \cup {page}
  <2>1. \A x : x \in Range(new) <=> \E j \in D : x = new[j]
    BY <1>1 DEF Range
  <2>2. \A x : x \in Range(h) <=> \E j \in D : x = h[j]
    BY DEF Range
  <2>3. \A x : x \in Range(new) \ {NONE} => x \in (Range(h) \ {NONE}) \cup {page}
    BY <1>1, <2>1, <2>2
  <2>4. \A x : x \in (Range(h) \ {NONE}) \cup {page} => x \in Range(new) \ {NONE}
    BY <1>1, <2>1, <2>2
  <2> QED
    BY <2>3, <2>4
<1> QED
  BY <1>2, <1>3 DEF new

\* The table of an address is filled only when the server found none and
\* nobody brought it since.
LEMMA FaultTableBooks ==
  ASSUME MemManagerAssumption, IInv, HInv, NEW s \in Server, FaultTable(s)
  PROVE  Heaps' /\ Faults' /\ Balanced' /\ AllCounted'
<1>0. PICK p, a, sp, f :
        /\ p = fault[s].process /\ a = fault[s].addr /\ sp = space[p]
        /\ f = [fault[s] EXCEPT !.at = "page", !.absent = (sp.heap[a] = NONE)]
  OBVIOUS
<1> DEFINE t == a \div PerTable
           Go == fault' = [fault EXCEPT ![s] = f]
<1>1. fault[s] \in Fault /\ p \in Process /\ sp \in Space /\ fault[s] # NONE /\ fault[s].at = "table"
  BY <1>0 DEF FaultTable, IInv, Shape, Fault
<1>2. FaultRight(fault[s]) /\ Filled(sp)
  BY <1>0, <1>1 DEF HInv, Faults, Heaps
<1>3. a \in 0 .. MaxHeap - 1 /\ (\A b \in 0 .. a - 1 : sp.heap[b] # NONE) /\ (fault[s].absent <=> sp.heapTable[t] = NONE)
  BY <1>0, <1>1, <1>2 DEF FaultRight
<1>4. t \in HeapTable
  BY <1>3, TableIndex
<1>5. UNCHANGED <<stackBlock, device, failed>>
  BY DEF FaultTable
<1>7. /\ f \in Fault /\ f.process = p /\ f.addr = a /\ f.at = "page" /\ (f.absent <=> sp.heap[a] = NONE)
      /\ f # NONE => f.process = p
  BY <1>0, <1>1 DEF Fault
<1>8. CASE ~fault[s].absent /\ Go /\ UNCHANGED <<space, used>>
  <2>1. Heaps' /\ Balanced' /\ AllCounted'
    BY <1>5, <1>8, SameBooks
  <2>2. fault' = [fault EXCEPT ![s] = f] /\ space' = [space EXCEPT ![p] = sp]
    BY <1>0, <1>8 DEF IInv, Shape
  <2>3. FaultRight(f)
    BY <1>0, <1>3, <1>7, <1>8 DEF FaultRight
  <2>4. FaultRight(f)'
    BY <1>8, <2>3 DEF FaultRight
  <2>5. Faults'
    BY <1>0, <1>1, <1>7, <2>2, <2>4, FaultMoves DEF HInv
  <2> QED
    BY <2>1, <2>5
<1>9. ASSUME fault[s].absent, Go, NEW page \in Lowest(1), space' = [space EXCEPT ![p].heapTable[t] = page],
             used' = used \cup {page}
      PROVE  Heaps' /\ Faults' /\ Balanced' /\ AllCounted'
  <2> DEFINE h == [sp.heapTable EXCEPT ![t] = page]
             new == [sp EXCEPT !.heapTable = h]
  <2>1. page \in Free /\ page \in Page /\ page # 0 /\ page # NONE /\ NONE \notin Page
    BY OneLowest, PagesFinite DEF Free, MemManagerAssumption
  <2>2. sp.heapTable \in [HeapTable -> Cell] /\ sp.heapTable[t] = NONE
    BY <1>1, <1>3, <1>9 DEF Space
  <2>3. /\ Range(h) \ {NONE} = (Range(sp.heapTable) \ {NONE}) \cup {page}
        /\ {u \in HeapTable : h[u] # NONE} = {u \in HeapTable : sp.heapTable[u] # NONE} \cup {t}
        /\ t \notin {u \in HeapTable : sp.heapTable[u] # NONE}
    BY <1>4, <2>1, <2>2, EntryFilled
  <2>4. space' = [space EXCEPT ![p] = new]
    BY <1>0, <1>9 DEF IInv, Shape
  <2>5. h \in [HeapTable -> Cell] /\ \A u \in HeapTable : h[u] = IF u = t THEN page ELSE sp.heapTable[u]
    BY <1>4, <2>1, <2>2 DEF Cell
  <2> HIDE DEF h
  <2>6. /\ new \in Space /\ new.thread = sp.thread /\ new.gui = sp.gui /\ new.dlls = sp.dlls
        /\ new.dllTables = sp.dllTables /\ new.heap = sp.heap /\ new.heapTable = h
        /\ new.pages = sp.pages /\ new.dllPages = sp.dllPages
    BY <1>1, <2>5 DEF Space
  <2> HIDE DEF new
  <2>7. Main(new) \ {NONE} = (Main(sp) \ {NONE}) \cup {page}
    BY <2>3, <2>6 DEF Main
  <2>8. InSpace(new) = InSpace(sp) \cup {page}
    BY <1>1, <2>1, <2>6, <2>7, Holdings
  <2>9. Filled(new)
    <3>1. \A u \in 0 .. t - 1 : sp.heapTable[u] # NONE
      <4> TAKE u \in 0 .. t - 1
      <4>1. PICK b : b \in 0 .. a - 1 /\ b \div PerTable = u
        BY <1>3, FirstOfTable
      <4>2. sp.heap[b] # NONE /\ b \in 0 .. MaxHeap - 1
        BY <1>3, <4>1 DEF MemManagerAssumption
      <4> QED
        BY <1>2, <4>1, <4>2 DEF Filled
    <3>2. \A b \in 0 .. MaxHeap - 1 : b \div PerTable \in HeapTable
      BY TableIndex
    <3>4. \A b \in 0 .. MaxHeap - 1 : new.heap[b] # NONE =>
            /\ new.heapTable[b \div PerTable] # NONE
            /\ \A c \in 0 .. b - 1 : new.heap[c] # NONE
      BY <1>2, <2>1, <2>5, <2>6, <3>2 DEF Filled
    <3>5. \A u \in HeapTable : new.heapTable[u] # NONE => \A v \in 0 .. u - 1 : new.heapTable[v] # NONE
      <4> TAKE u \in HeapTable
      <4> HAVE new.heapTable[u] # NONE
      <4> TAKE v \in 0 .. u - 1
      <4>1. v \in HeapTable
        <5>1. Tables(MaxHeap) \in Nat
          BY TableCount DEF MemManagerAssumption
        <5> QED
          BY <5>1 DEF HeapTable
      <4>2. sp.heapTable[v] # NONE
        <5>1. CASE u = t
          BY <3>1, <5>1
        <5>2. CASE u # t
          BY <1>2, <2>5, <2>6, <5>2 DEF Filled
        <5> QED
          BY <5>1, <5>2
      <4> QED
        BY <2>1, <2>5, <2>6, <4>1, <4>2
    <3> QED
      BY <1>2, <2>6, <3>4, <3>5 DEF Filled
  <2>10. Cardinality(TablesOf(new)) = Cardinality(TablesOf(sp)) + 1 /\ Cardinality({page}) = 1
    <3>1. TablesOf(new) = TablesOf(sp) \cup {t} /\ t \notin TablesOf(sp)
      BY <2>3, <2>6 DEF TablesOf
    <3>2. IsFiniteSet(TablesOf(sp))
      BY <1>1, CountIs
    <3>3. Cardinality(TablesOf(sp) \cup {t}) = Cardinality(TablesOf(sp)) + 1
      BY <3>1, <3>2, OneMore
    <3> QED
      BY <3>1, <3>3, FS_Singleton
  <2>11. PagesOf(new) = PagesOf(sp) /\ GuiCount(new) = GuiCount(sp) /\ ThreadCount(new) = ThreadCount(sp)
    BY <2>6 DEF PagesOf, GuiCount, ThreadCount
  <2>12. Count(new) = Count(sp) + Cardinality({page})
    <3>1. Count(sp) = LoadCount + Cardinality(sp.dllTables) + sp.dlls + Cardinality(TablesOf(sp))
                     + Cardinality(PagesOf(sp)) + GuiCount(sp) + ThreadCount(sp)
      BY <1>1, CountIs
    <3>2. Count(new) = LoadCount + Cardinality(new.dllTables) + new.dlls + Cardinality(TablesOf(new))
                     + Cardinality(PagesOf(new)) + GuiCount(new) + ThreadCount(new)
      BY <2>6, CountIs
    <3>3. /\ LoadCount \in Nat /\ Cardinality(sp.dllTables) \in Nat /\ Cardinality(TablesOf(sp)) \in Nat
          /\ Cardinality(PagesOf(sp)) \in Nat /\ GuiCount(sp) \in Nat /\ ThreadCount(sp) \in Nat /\ sp.dlls \in Nat
      BY <1>1, CountIs
    <3> QED
      BY <2>6, <2>10, <2>11, <3>1, <3>2, <3>3
  <2>13. {page} \in SUBSET Free
    BY <2>1
  <2>14. Heaps' /\ Balanced' /\ AllCounted'
    BY <1>0, <1>1, <1>5, <1>9, <2>4, <2>6, <2>8, <2>9, <2>12, <2>13, FaultGrows
  <2>15. space'[p] = new
    BY <1>1, <2>4 DEF IInv, Shape
  <2>16. FaultRight(f)'
    <3>1. new.heapTable[t] # NONE
      BY <1>4, <2>1, <2>5, <2>6
    <3> QED
      BY <1>3, <1>7, <2>6, <2>15, <3>1 DEF FaultRight
  <2>17. fault' = [fault EXCEPT ![s] = f] /\ f \in Fault \cup {NONE} /\ fault[s].process = p /\ Faults
    BY <1>0, <1>7, <1>9 DEF HInv
  <2>18. Faults'
    BY <1>1, <1>7, <2>4, <2>16, <2>17, FaultMoves
  <2> QED
    BY <2>14, <2>18
<1>10. CASE NoPageForFault(s, p)
  BY <1>0, <1>1, <1>5, <1>10, NoPageBooks
<1> QED
  BY <1>0, <1>8, <1>9, <1>10 DEF FaultTable

LEMMA FaultPageBooks ==
  ASSUME MemManagerAssumption, IInv, HInv, NEW s \in Server, FaultPage(s)
  PROVE  Heaps' /\ Faults' /\ Balanced' /\ AllCounted'
<1>0. PICK p, a, sp : p = fault[s].process /\ a = fault[s].addr /\ sp = space[p]
  OBVIOUS
<1> DEFINE t == a \div PerTable
           Answer == fault' = [fault EXCEPT ![s] = NONE]
<1>1. fault[s] \in Fault /\ p \in Process /\ sp \in Space /\ fault[s] # NONE /\ fault[s].at = "page"
  BY <1>0 DEF FaultPage, IInv, Shape, Fault
<1>2. FaultRight(fault[s]) /\ Filled(sp)
  BY <1>0, <1>1 DEF HInv, Faults, Heaps
<1>3. /\ a \in 0 .. MaxHeap - 1 /\ (\A b \in 0 .. a - 1 : sp.heap[b] # NONE)
      /\ sp.heapTable[t] # NONE /\ (fault[s].absent <=> sp.heap[a] = NONE)
  BY <1>0, <1>1, <1>2 DEF FaultRight
<1>4. UNCHANGED <<stackBlock, device, failed>>
  BY DEF FaultPage
<1>5. CASE ~fault[s].absent /\ Answer /\ UNCHANGED <<space, used>>
  <2>1. Heaps' /\ Balanced' /\ AllCounted'
    BY <1>4, <1>5, SameBooks
  <2>2. space' = [space EXCEPT ![p] = sp] /\ fault[s].process = p /\ Faults
    BY <1>0, <1>5 DEF IInv, Shape, HInv
  <2>3. Faults'
    BY <1>1, <1>5, <2>2, FaultMoves
  <2> QED
    BY <2>1, <2>3
<1>6. ASSUME fault[s].absent, Answer, NEW page \in Lowest(1), space' = [space EXCEPT ![p].heap[a] = page],
             used' = used \cup {page}
      PROVE  Heaps' /\ Faults' /\ Balanced' /\ AllCounted'
  <2> DEFINE D == 0 .. MaxHeap - 1
             h == [sp.heap EXCEPT ![a] = page]
             new == [sp EXCEPT !.heap = h]
  <2>1. page \in Free /\ page \in Page /\ page # 0 /\ page # NONE /\ NONE \notin Page
    BY OneLowest, PagesFinite DEF Free, MemManagerAssumption
  <2>2. a \in D /\ sp.heap \in [D -> Cell] /\ sp.heap[a] = NONE
    BY <1>1, <1>3, <1>6 DEF Space
  <2> HIDE DEF D
  <2>3. /\ Range(h) \ {NONE} = (Range(sp.heap) \ {NONE}) \cup {page}
        /\ {b \in D : h[b] # NONE} = {b \in D : sp.heap[b] # NONE} \cup {a}
        /\ a \notin {b \in D : sp.heap[b] # NONE}
    BY <2>1, <2>2, EntryFilled
  <2>4. space' = [space EXCEPT ![p] = new]
    BY <1>0, <1>6 DEF IInv, Shape
  <2>5. h \in [D -> Cell] /\ \A b \in D : h[b] = IF b = a THEN page ELSE sp.heap[b]
    BY <2>1, <2>2 DEF Cell
  <2> HIDE DEF h
  <2>6. /\ new \in Space /\ new.thread = sp.thread /\ new.gui = sp.gui /\ new.dlls = sp.dlls
        /\ new.dllTables = sp.dllTables /\ new.heap = h /\ new.heapTable = sp.heapTable
        /\ new.pages = sp.pages /\ new.dllPages = sp.dllPages
    BY <1>1, <2>5 DEF Space, D
  <2> HIDE DEF new
  <2>7. Main(new) \ {NONE} = (Main(sp) \ {NONE}) \cup {page}
    BY <2>3, <2>6 DEF Main
  <2>8. InSpace(new) = InSpace(sp) \cup {page}
    BY <1>1, <2>1, <2>6, <2>7, Holdings
  <2>9. Filled(new)
    <3>1. \A b \in D : new.heap[b] # NONE =>
            /\ new.heapTable[b \div PerTable] # NONE
            /\ \A c \in 0 .. b - 1 : new.heap[c] # NONE
      <4> TAKE b \in D
      <4> HAVE new.heap[b] # NONE
      <4>1. sp.heapTable[b \div PerTable] # NONE /\ \A c \in 0 .. b - 1 : sp.heap[c] # NONE
        <5>1. CASE b = a
          BY <1>3, <5>1
        <5>2. CASE b # a
          BY <1>2, <2>5, <2>6, <5>2 DEF Filled, D
        <5> QED
          BY <5>1, <5>2
      <4>2. \A c \in 0 .. b - 1 : c \in D
        BY DEF MemManagerAssumption, D
      <4> QED
        BY <2>1, <2>5, <2>6, <4>1, <4>2
    <3> QED
      BY <1>2, <2>6, <3>1 DEF Filled, D
  <2>10. Cardinality(PagesOf(new)) = Cardinality(PagesOf(sp)) + 1 /\ Cardinality({page}) = 1
    <3>1. PagesOf(new) = PagesOf(sp) \cup {a} /\ a \notin PagesOf(sp)
      BY <2>3, <2>6 DEF PagesOf, D
    <3>2. IsFiniteSet(PagesOf(sp))
      BY <1>1, CountIs
    <3>3. Cardinality(PagesOf(sp) \cup {a}) = Cardinality(PagesOf(sp)) + 1
      BY <3>1, <3>2, OneMore
    <3> QED
      BY <3>1, <3>3, FS_Singleton
  <2>11. TablesOf(new) = TablesOf(sp) /\ GuiCount(new) = GuiCount(sp) /\ ThreadCount(new) = ThreadCount(sp)
    BY <2>6 DEF TablesOf, GuiCount, ThreadCount
  <2>12. Count(new) = Count(sp) + Cardinality({page})
    <3>1. Count(sp) = LoadCount + Cardinality(sp.dllTables) + sp.dlls + Cardinality(TablesOf(sp))
                     + Cardinality(PagesOf(sp)) + GuiCount(sp) + ThreadCount(sp)
      BY <1>1, CountIs
    <3>2. Count(new) = LoadCount + Cardinality(new.dllTables) + new.dlls + Cardinality(TablesOf(new))
                     + Cardinality(PagesOf(new)) + GuiCount(new) + ThreadCount(new)
      BY <2>6, CountIs
    <3>3. /\ LoadCount \in Nat /\ Cardinality(sp.dllTables) \in Nat /\ Cardinality(TablesOf(sp)) \in Nat
          /\ Cardinality(PagesOf(sp)) \in Nat /\ GuiCount(sp) \in Nat /\ ThreadCount(sp) \in Nat /\ sp.dlls \in Nat
      BY <1>1, CountIs
    <3> QED
      BY <2>6, <2>10, <2>11, <3>1, <3>2, <3>3
  <2>13. {page} \in SUBSET Free
    BY <2>1
  <2>14. Heaps' /\ Balanced' /\ AllCounted'
    BY <1>0, <1>1, <1>4, <1>6, <2>4, <2>6, <2>8, <2>9, <2>12, <2>13, FaultGrows
  <2>15. fault' = [fault EXCEPT ![s] = NONE] /\ fault[s].process = p /\ Faults
    BY <1>0, <1>6 DEF HInv
  <2>16. Faults'
    BY <1>1, <2>4, <2>15, FaultMoves
  <2> QED
    BY <2>14, <2>16
<1>7. CASE NoPageForFault(s, p)
  BY <1>0, <1>1, <1>4, <1>7, NoPageBooks
<1> QED
  BY <1>0, <1>5, <1>6, <1>7 DEF FaultPage

-----------------------------------------------------------------------------
(* Kernel stacks and registers, whose pages are in nobody's space.         *)

LEMMA SpacesSame ==
  ASSUME HInv, UNCHANGED <<space, fault>>
  PROVE  Heaps' /\ Faults' /\ AllCounted' /\ Held' = Held
<1>1. Heaps' /\ AllCounted' /\ Held' = Held
  BY DEF HInv, Heaps, AllCounted, Held
<1>2. Faults'
  BY DEF HInv, Faults, FaultRight
<1> QED
  BY <1>1, <1>2

LEMMA AllocateKernelStackBooks ==
  ASSUME MemManagerAssumption, IInv, HInv, NEW b \in KernelStackBlock, AllocateKernelStack(b)
  PROVE  Heaps' /\ Faults' /\ Balanced' /\ AllCounted'
<1> DEFINE L == Lowest(KernelStackPages)
<1>1. UNCHANGED <<space, fault, device>> /\ stackBlock[b] = NONE
  BY DEF AllocateKernelStack
<1>2. Heaps' /\ Faults' /\ AllCounted' /\ Held' = Held
  BY <1>1, SpacesSame
<1>3. Balanced'
  <2> SUFFICES ASSUME ~failed' PROVE used' \ Reserved = device' \cup InBlocks' \cup Held'
    BY DEF Balanced
  <2>1. used' = used \cup L /\ ~failed /\ stackBlock' = [stackBlock EXCEPT ![b] = L]
    BY DEF AllocateKernelStack, TakeSome
  <2>2. L \in SUBSET Free /\ L # NONE
    BY DEF Lowest, Free, MemManagerAssumption
  <2> HIDE DEF L
  <2>3. \A c \in KernelStackBlock : stackBlock'[c] = IF c = b THEN L ELSE stackBlock[c]
    BY <2>1 DEF IInv, Shape
  <2>4. InBlocks' = InBlocks \cup L
    <3>1. \A x : x \in InBlocks <=> \E c \in KernelStackBlock : stackBlock[c] # NONE /\ x \in stackBlock[c]
      BY DEF InBlocks
    <3>2. \A x : x \in InBlocks' <=> \E c \in KernelStackBlock : stackBlock'[c] # NONE /\ x \in stackBlock'[c]
      BY DEF InBlocks
    <3> QED
      BY <1>1, <2>2, <2>3, <3>1, <3>2
  <2>5. used \ Reserved = device \cup InBlocks \cup Held
    BY <2>1 DEF HInv, Balanced
  <2> QED
    BY <1>1, <1>2, <2>1, <2>2, <2>4, <2>5 DEF Free
<1> QED
  BY <1>2, <1>3

LEMMA DeAllocateKernelStackBooks ==
  ASSUME MemManagerAssumption, IInv, HInv, NEW b \in KernelStackBlock, DeAllocateKernelStack(b)
  PROVE  Heaps' /\ Faults' /\ Balanced' /\ AllCounted'
<1> DEFINE back == stackBlock[b]
<1>1. UNCHANGED <<space, fault, device, failed>> /\ back # NONE
  BY DEF DeAllocateKernelStack
<1>2. stackBlock' = [stackBlock EXCEPT ![b] = NONE] /\ used' = used \ back
  BY DEF DeAllocateKernelStack, AfterDeAllocate
<1>3. Heaps' /\ Faults' /\ AllCounted' /\ Held' = Held
  BY <1>1, SpacesSame
<1>4. \A c \in KernelStackBlock : stackBlock'[c] = IF c = b THEN NONE ELSE stackBlock[c]
  BY <1>2 DEF IInv, Shape
<1>5. InBlocks' = InBlocks \ back /\ back \subseteq InBlocks
  <2>1. \A x : x \in InBlocks <=> \E c \in KernelStackBlock : stackBlock[c] # NONE /\ x \in stackBlock[c]
    BY DEF InBlocks
  <2>2. \A x : x \in InBlocks' <=> \E c \in KernelStackBlock : stackBlock'[c] # NONE /\ x \in stackBlock'[c]
    BY DEF InBlocks
  <2>3. \A c \in KernelStackBlock : c # b /\ stackBlock[c] # NONE => stackBlock[c] \cap back = {}
    BY <1>1 DEF IInv, PagesOwnedOnce
  <2> QED
    BY <1>1, <1>4, <2>1, <2>2, <2>3
<1>6. back \cap (device \cup Held) = {}
  <2>1. \A p \in Process : InSpace(space[p]) \cap back = {}
    BY <1>5 DEF IInv, PagesOwnedOnce
  <2>2. back \cap device = {}
    BY <1>5 DEF IInv, PagesOwnedOnce
  <2> QED
    BY <2>1, <2>2 DEF Held
<1>7. Balanced'
  <2> SUFFICES ASSUME ~failed PROVE used' \ Reserved = device' \cup InBlocks' \cup Held'
    BY <1>1 DEF Balanced
  <2>1. used \ Reserved = device \cup InBlocks \cup Held
    BY DEF HInv, Balanced
  <2> HIDE DEF back
  <2> QED
    BY <1>1, <1>2, <1>3, <1>5, <1>6, <2>1
<1> QED
  BY <1>3, <1>7

LEMMA MarkPageBooks ==
  ASSUME MemManagerAssumption, IInv, HInv, NEW n \in DevicePage, MarkPageAsAllocated(n)
  PROVE  Heaps' /\ Faults' /\ Balanced' /\ AllCounted'
<1>1. UNCHANGED <<space, fault, stackBlock, failed>>
  BY DEF MarkPageAsAllocated
<1>2. used' = used \cup {n} /\ device' = device \cup {n} /\ n \notin Reserved
  BY DEF MarkPageAsAllocated, IInv, Marks
<1>3. Heaps' /\ Faults' /\ AllCounted' /\ Held' = Held
  BY <1>1, SpacesSame
<1>4. InBlocks' = InBlocks
  BY <1>1 DEF InBlocks
<1>5. Balanced'
  BY <1>1, <1>2, <1>3, <1>4 DEF HInv, Balanced
<1> QED
  BY <1>3, <1>5

-----------------------------------------------------------------------------
LEMMA TypeKept ==
  ASSUME MemManagerAssumption, IInv', TypeOK, [Next]_vars
  PROVE  TypeOK'
<1>1. DOMAIN space' = Process /\ DOMAIN fault' = Server /\ DOMAIN stackBlock' = KernelStackBlock
  BY DEF IInv, Shape
<1>2. \A n : Lowest(n) \subseteq Page
  BY DEF Lowest, Free
<1>3. ASSUME NEW n, TakeSome(n) PROVE used' \subseteq Page /\ failed' \in BOOLEAN
  BY <1>2, <1>3 DEF TakeSome, TypeOK
<1>4. used' \subseteq Page /\ pool' \subseteq PoolPage /\ device' \subseteq DevicePage /\ failed' \in BOOLEAN
  <2>1. ASSUME NEW p \in Process, Load(p) \/ AllocateGUIFramebuffer(p) \/ CreateThread(p)
        PROVE  used' \subseteq Page /\ failed' \in BOOLEAN /\ UNCHANGED <<pool, device>>
    BY <1>3, <2>1 DEF Load, AllocateGUIFramebuffer, CreateThread
  <2>2. ASSUME NEW p \in Process, NEW n \in 1 .. MaxDLL, MapDLLPagesToProcess(p, n)
        PROVE  used' \subseteq Page /\ failed' \in BOOLEAN /\ UNCHANGED <<pool, device>>
    BY <1>3, <2>2 DEF MapDLLPagesToProcess
  <2>3. ASSUME NEW p \in Process,
               LoadWithoutParent(p) \/ DestroyThread(p) \/ RefuseFault(p) \/ DeAllocateResources(p)
        PROVE  used' \subseteq Page /\ failed' \in BOOLEAN /\ UNCHANGED <<pool, device>>
    BY <1>2, <2>3 DEF LoadWithoutParent, DestroyThread, RefuseFault, DeAllocateResources, AfterDeAllocate, TypeOK
  <2>4. ASSUME NEW s \in Server, NEW p \in Process, NEW a \in 0 .. MaxHeap - 1, EnterFault(s, p, a)
        PROVE  used' \subseteq Page /\ failed' \in BOOLEAN /\ UNCHANGED <<pool, device>>
    BY <2>4 DEF EnterFault, TypeOK
  <2>5. ASSUME NEW s \in Server, FaultTable(s) \/ FaultPage(s)
        PROVE  used' \subseteq Page /\ failed' \in BOOLEAN /\ UNCHANGED <<pool, device>>
    <3>1. UNCHANGED <<pool, device, failed>>
      BY <2>5 DEF FaultTable, FaultPage
    <3>2. used' = used \/ \E page \in Lowest(1) : used' = used \cup {page}
      BY <2>5 DEF FaultTable, FaultPage, NoPageForFault
    <3> QED
      BY <1>2, <3>1, <3>2 DEF TypeOK
  <2>6. ASSUME NEW b \in KernelStackBlock, AllocateKernelStack(b) \/ DeAllocateKernelStack(b)
        PROVE  used' \subseteq Page /\ failed' \in BOOLEAN /\ UNCHANGED <<pool, device>>
    BY <1>3, <2>6 DEF AllocateKernelStack, DeAllocateKernelStack, AfterDeAllocate, TypeOK
  <2>7. CASE AllocatePageForKernel \/ \E n \in PoolPage : DeAllocatePageForKernel(n)
    BY <2>7 DEF AllocatePageForKernel, DeAllocatePageForKernel, TypeOK
  <2>8. ASSUME NEW n \in DevicePage, MarkPageAsAllocated(n)
        PROVE  used' \subseteq Page /\ failed' \in BOOLEAN /\ pool' = pool /\ device' \subseteq DevicePage
    BY <2>8 DEF MarkPageAsAllocated, TypeOK
  <2>9. CASE UNCHANGED vars
    BY <2>9 DEF vars, TypeOK
  <2> QED
    BY <2>1, <2>2, <2>3, <2>4, <2>5, <2>6, <2>7, <2>8, <2>9 DEF Next, TypeOK
<1> QED
  BY <1>1, <1>4 DEF TypeOK

LEMMA InitBooks ==
  ASSUME MemManagerAssumption, Init
  PROVE  HInv
<1> USE DEF Init
<1>1. TypeOK
  <2>1. Reserved \subseteq Page
    BY DEF Reserved, Page, MemManagerAssumption
  <2> QED
    BY <2>1 DEF TypeOK
<1>2. \A p \in Process : space[p] \notin Space /\ InSpace(space[p]) = {}
  BY DEF NoSpace, Space, InSpace
<1>3. InBlocks = {} /\ Held = {}
  BY <1>2 DEF InBlocks, Held
<1>4. Faults
  BY DEF Faults
<1> QED
  BY <1>1, <1>2, <1>3, <1>4 DEF HInv, Heaps, AllCounted, Balanced

LEMMA StepBooks ==
  ASSUME MemManagerAssumption, IInv, HInv, [Next]_vars
  PROVE  HInv'
<1> DEFINE Books == Heaps /\ Faults /\ Balanced /\ AllCounted
<1>1. TypeOK'
  BY StepHolds, TypeKept DEF HInv
<1>2. ASSUME NEW p \in Process, Load(p) \/ LoadWithoutParent(p)
      PROVE  Books'
  BY <1>2, LoadBooks
<1>3. ASSUME NEW p \in Process, NEW n \in 1 .. MaxDLL, MapDLLPagesToProcess(p, n)
      PROVE  Books'
  BY <1>3, MapDLLBooks
<1>4. ASSUME NEW p \in Process, AllocateGUIFramebuffer(p) \/ CreateThread(p) \/ DestroyThread(p)
      PROVE  Books'
  BY <1>4, FrameBufferBooks, CreateThreadBooks, DestroyThreadBooks
<1>5. ASSUME NEW p \in Process, RefuseFault(p) \/ DeAllocateResources(p)
      PROVE  Books'
  BY <1>5, RefuseFaultBooks, DeAllocateResourcesBooks
<1>6. ASSUME NEW p \in Process, NEW s \in Server, NEW a \in 0 .. MaxHeap - 1, EnterFault(s, p, a)
      PROVE  Books'
  BY <1>6, EnterFaultBooks
<1>7. ASSUME NEW s \in Server, FaultTable(s) \/ FaultPage(s)
      PROVE  Books'
  BY <1>7, FaultTableBooks, FaultPageBooks
<1>8. ASSUME NEW b \in KernelStackBlock, AllocateKernelStack(b) \/ DeAllocateKernelStack(b)
      PROVE  Books'
  BY <1>8, AllocateKernelStackBooks, DeAllocateKernelStackBooks
<1>9. ASSUME AllocatePageForKernel \/ (\E n \in PoolPage : DeAllocatePageForKernel(n)) \/ UNCHANGED vars
      PROVE  Books'
  <2>1. UNCHANGED <<used, space, fault, stackBlock, device, failed>>
    BY <1>9 DEF AllocatePageForKernel, DeAllocatePageForKernel, vars
  <2> QED
    BY <2>1, SpacesSame, SameBooks
<1>10. ASSUME NEW n \in DevicePage, MarkPageAsAllocated(n)
       PROVE  Books'
  BY <1>10, MarkPageBooks
<1>11. Books'
  <2> HIDE DEF Books
  <2> QED
    BY <1>2, <1>3, <1>4, <1>5, <1>6, <1>7, <1>8, <1>9, <1>10 DEF Next
<1> QED
  BY <1>1, <1>11 DEF HInv

LEMMA BooksHold ==
  ASSUME MemManagerAssumption
  PROVE  Spec => [](IInv /\ HInv)
<1>1. Init => IInv /\ HInv
  BY InitHolds, InitBooks
<1>2. (IInv /\ HInv) /\ [Next]_vars => (IInv /\ HInv)'
  BY StepHolds, StepBooks
<1> QED
  BY <1>1, <1>2, PTL DEF Spec

\* The page map, the pool and the maps of the kernel keep their shape: no
\* page past the end of the page map is ever marked (memory/MemManager.cpp).
THEOREM MemoryTypeCorrect ==
  ASSUME MemManagerAssumption
  PROVE  Spec => []TypeOK
<1>1. IInv /\ HInv => TypeOK
  BY DEF HInv
<1> QED
  BY <1>1, BooksHold, PTL

\* Every page that is taken is held by somebody, as long as no allocation of
\* several pages failed half way: a process gives back all it took, however
\* it grew and whatever faults it had (UserProcess::DeAllocateResources,
\* DMM_DeAllocatePhysicalPages).
THEOREM NoPageIsLost ==
  ASSUME MemManagerAssumption
  PROVE  Spec => []NothingLeaks
<1>1. IInv /\ HInv => NothingLeaks
  <2> SUFFICES ASSUME IInv, HInv, ~failed
               PROVE  used \ (Reserved \cup device \cup InBlocks) = UNION {InSpace(space[p]) : p \in Process}
    BY DEF NothingLeaks
  <2>1. used \ Reserved = device \cup InBlocks \cup Held
    BY DEF HInv, Balanced
  <2>2. \A p \in Process : InSpace(space[p]) \cap (InBlocks \cup device \cup Reserved) = {}
    BY DEF IInv, PagesOwnedOnce
  <2>3. Held \cap (InBlocks \cup device \cup Reserved) = {}
    BY <2>2 DEF Held
  <2>4. used \ (Reserved \cup device \cup InBlocks) = Held
    BY <2>1, <2>3
  <2> QED
    BY <2>4 DEF Held
<1> QED
  BY <1>1, BooksHold, PTL

LEMMA RunningHasSpace ==
  ASSUME IInv, NEW p \in Process, Running(p)
  PROVE  space[p] \in Space
BY DEF IInv, Shape, Running, NoSpace, Gone

\* No page of a process is there twice, as a table and a page or as two
\* pages: it has as many as it was given (AllocatePage, MapDLLPagesToProcess).
THEOREM PagesStayMappedOnce ==
  ASSUME MemManagerAssumption
  PROVE  Spec => []PagesMappedOnce
<1>1. IInv /\ HInv => PagesMappedOnce
  BY RunningHasSpace DEF HInv, AllCounted, Counted, PagesMappedOnce
<1> QED
  BY <1>1, BooksHold, PTL

\* A page of the heap is reached through its table: what a server answered
\* with success is there (AllocatePage of memory/MemManager.cpp).
THEOREM HeapStaysReachable ==
  ASSUME MemManagerAssumption
  PROVE  Spec => []HeapReachable
<1>1. IInv /\ HInv => HeapReachable
  BY RunningHasSpace DEF HInv, Heaps, Filled, HeapReachable
<1> QED
  BY <1>1, BooksHold, PTL

=============================================================================
