------------------------------ MODULE MemManager ------------------------------
(***************************************************************************)
(* Physical pages (memory/MemManager.cpp) and who holds them: the address  *)
(* space of a user process while it is loaded, runs and is taken down      *)
(* (process/UserProcess.cpp, ProcessEnv.cpp, DynamicLinkLoader.cpp), the   *)
(* stacks of user threads and of kernel processes, device registers, and   *)
(* the page faults that the kernel services answer.  Allocation of one     *)
(* page is atomic (ProcessSwitchLock).  The allocations of one call fill   *)
(* tables that only this call knows yet and are one step; only the faults  *)
(* of one process meet in its tables, and are taken apart.                 *)
(*                                                                         *)
(* A definition named Faulty... is the one after it with a single fault;   *)
(* no specification uses it, it shows what the properties would catch.     *)
(***************************************************************************)
EXTENDS Integers, FiniteSets, SequencesExt

CONSTANTS
  NONE, Process, Server,
  NPages,       \* pages of the page map
  NReserved,    \* pages of the kernel, never given out: m_uiNoOfResvPages
  PoolStart,    \* first page of the kernel page pool, inside the reserved part
  NPool,        \* pages of the pool
  OsTables,     \* PROCESS_SPACE_FOR_OS
  ImageTables, ImagePages, StackPages,
  KernelStackPages, KernelStackBlock,
  PerTable,     \* PAGE_TABLE_ENTRIES
  MaxDLL,       \* bound: pages of all DLLs of a process
  MaxHeap,      \* bound: heap pages of a process
  DevicePage    \* pages of device registers

VARIABLES
  used,      \* m_uiPageMap: the pages whose bit is set
  pool,      \* m_uiKernelPagePoolMap, as page numbers
  space,     \* address space of each process
  fault,     \* what each kernel service server that answers a fault is doing
  stackBlock,\* pages of each kernel stack block, NONE when it is free
  device,    \* device pages that were marked
  failed     \* whether an allocation ever failed half way
vars == <<used, pool, space, fault, stackBlock, device, failed>>

Page == 0 .. NPages - 1
Reserved == 0 .. NReserved - 1
PoolPage == PoolStart .. PoolStart + NPool - 1

MemManagerAssumption ==
  /\ NReserved \in Nat \ {0} /\ NPages \in Nat /\ NReserved <= NPages
  /\ NONE \notin Page /\ \A pages \in SUBSET Page : NONE # pages
  /\ PoolPage \subseteq Reserved
  /\ {OsTables, ImagePages, StackPages, KernelStackPages} \subseteq Nat
  /\ ImageTables \in Nat \ {0} /\ PerTable \in Nat \ {0}
  /\ MaxDLL \in Nat /\ MaxHeap \in Nat

-----------------------------------------------------------------------------
(* The page map.                                                           *)

Free == {n \in Page \ Reserved : n \notin used}
HasPages(n) == Cardinality(Free) >= n
\* The pages that the next n calls of AllocatePhysicalPage return.
Lowest(n) == {x \in Free : Cardinality({y \in Free : y < x}) < n}
AfterDeAllocate(pages) == used' = used \ pages

-----------------------------------------------------------------------------
(* An address space: the pages that Load allocates, and those of the DLLs, *)
(* the heap, the frame buffer's page table and a thread.                   *)

\* Page directory, page tables, table of the stack, image, stack, section
\* headers, environment.
LoadCount == 1 + (OsTables + ImageTables) + 1 + ImagePages + StackPages + 1 + 1

Tables(n) == (n + PerTable - 1) \div PerTable      \* GetPTESizeInPages
HeapTable == 0 .. Tables(MaxHeap) - 1

NoSpace == [phase |-> "none"]
Gone == [phase |-> "gone"]
NewSpace(pages) ==
  [phase |-> "running", pages |-> pages, dllTables |-> {}, dllPages |-> {}, dlls |-> 0,
   heapTable |-> [t \in HeapTable |-> NONE], heap |-> [a \in 0 .. MaxHeap - 1 |-> NONE],
   gui |-> NONE, thread |-> NONE]

InSpace(s) ==
  IF s.phase \in {"none", "gone"} THEN {}
  ELSE (s.pages \cup s.dllTables \cup s.dllPages \cup Range(s.heapTable)
        \cup Range(s.heap) \cup {s.gui} \cup (IF s.thread = NONE THEN {} ELSE s.thread)) \ {NONE, 0}

Running(p) == space[p].phase \in {"running", "doomed"}

Init ==
  /\ used = Reserved
  /\ pool = {}
  /\ space = [p \in Process |-> NoSpace]
  /\ fault = [s \in Server |-> NONE]
  /\ stackBlock = [b \in KernelStackBlock |-> NONE]
  /\ device = {}
  /\ failed = FALSE

-----------------------------------------------------------------------------
(* Loading.                                                                *)

\* n pages for one holder, or as many as there are and an exception.
TakeSome(n) ==
  IF HasPages(n) THEN used' = used \cup Lowest(n) /\ failed' = failed
  ELSE used' = Page \cup used /\ failed' = TRUE

\* Load takes its pages, or throws: out of pages, or the
\* parent whose environment is copied is gone.  The constructor gives nothing
\* back then, and nobody else knows the pages.
Load(p) ==
  /\ space[p].phase = "none"
  /\ TakeSome(LoadCount)
  /\ space' = [space EXCEPT ![p] = IF HasPages(LoadCount) THEN NewSpace(Lowest(LoadCount)) ELSE Gone]
  /\ UNCHANGED <<pool, fault, stackBlock, device>>
LoadWithoutParent(p) ==
  /\ space[p].phase = "none" /\ HasPages(LoadCount)
  /\ used' = used \cup Lowest(LoadCount)
  /\ failed' = TRUE
  /\ space' = [space EXCEPT ![p] = Gone]
  /\ UNCHANGED <<pool, fault, stackBlock, device>>

\* A DLL of n pages: page tables first, the counts when all is mapped.
MapDLLPagesToProcess(p, n) ==
  /\ space[p].phase = "running" /\ space[p].dlls + n <= MaxDLL
  /\ LET tables == Tables(space[p].dlls + n) - Tables(space[p].dlls) IN
     /\ TakeSome(tables + n)
     /\ space' = IF ~HasPages(tables + n) THEN space
                 ELSE [space EXCEPT ![p].dlls = @ + n,
                         ![p].dllTables = @ \cup Lowest(tables),
                         ![p].dllPages = @ \cup (Lowest(tables + n) \ Lowest(tables))]
  /\ UNCHANGED <<pool, fault, stackBlock, device>>

\* The page table of the frame buffer.  When there is no page for it, the
\* buffer is remembered all the same and its page table entry is empty: the
\* process has page 0 for it.
AllocateGUIFramebuffer(p) ==
  /\ space[p].phase = "running" /\ space[p].gui = NONE
  /\ \/ ~HasPages(1) /\ space' = [space EXCEPT ![p].gui = 0]
     \/ \E page \in Lowest(1) : space' = [space EXCEPT ![p].gui = page]
  /\ TakeSome(1)
  /\ UNCHANGED <<pool, fault, stackBlock, device>>

\* UserThread: a page table for the stack and the stack.
CreateThread(p) ==
  /\ space[p].phase = "running" /\ space[p].thread = NONE
  /\ space' = IF HasPages(1 + StackPages)
              THEN [space EXCEPT ![p].thread = Lowest(1 + StackPages)] ELSE space
  /\ TakeSome(1 + StackPages)
  /\ UNCHANGED <<pool, fault, stackBlock, device>>

DestroyThread(p) ==
  /\ Running(p) /\ space[p].thread # NONE
  /\ AfterDeAllocate(space[p].thread)
  /\ space' = [space EXCEPT ![p].thread = NONE]
  /\ UNCHANGED <<pool, fault, stackBlock, device, failed>>

-----------------------------------------------------------------------------
(* Page faults: AllocatePage, in a server, under the process's             *)
(* pageAllocMutex.  A process whose fault is refused exits.                *)

Locked(p) == \E s \in Server : fault[s] # NONE /\ fault[s].process = p
FaultyEnterFault(s, p, a) ==        \* the mutex is not taken
  /\ fault[s] = NONE /\ space[p].phase = "running"
  /\ fault' = [fault EXCEPT ![s] = [process |-> p, addr |-> a, at |-> "table",
                                    absent |-> space[p].heapTable[a \div PerTable] = NONE]]
  /\ UNCHANGED <<used, pool, space, stackBlock, device, failed>>
\* The heap grows from its start (module Heap: memory is touched in order).
EnterFault(s, p, a) ==
  /\ fault[s] = NONE /\ space[p].phase = "running" /\ ~Locked(p)
  /\ \A b \in 0 .. a - 1 : space[p].heap[b] # NONE
  /\ fault' = [fault EXCEPT ![s] = [process |-> p, addr |-> a, at |-> "table",
                                    absent |-> space[p].heapTable[a \div PerTable] = NONE]]
  /\ UNCHANGED <<used, pool, space, stackBlock, device, failed>>

\* Any other address, or the heap outside DMM_Allocate: Failure.
RefuseFault(p) ==
  /\ space[p].phase = "running" /\ ~Locked(p)
  /\ space' = [space EXCEPT ![p].phase = "doomed"]
  /\ UNCHANGED <<used, pool, fault, stackBlock, device, failed>>

NoPageForFault(s, p) ==
  /\ ~HasPages(1)
  /\ space' = [space EXCEPT ![p].phase = "doomed"]
  /\ fault' = [fault EXCEPT ![s] = NONE]
  /\ used' = used

\* The page table of the address, unless the entry just read had one; then
\* the entry of the page is read.
FaultTable(s) ==
  /\ fault[s] # NONE /\ fault[s].at = "table"
  /\ LET p == fault[s].process
         a == fault[s].addr
         Go == fault' = [fault EXCEPT ![s].at = "page", ![s].absent = space[p].heap[a] = NONE]
     IN \/ ~fault[s].absent /\ Go /\ UNCHANGED <<space, used>>
        \/ fault[s].absent /\ Go /\ \E page \in Lowest(1) :
             /\ space' = [space EXCEPT ![p].heapTable[a \div PerTable] = page]
             /\ used' = used \cup {page}
        \/ fault[s].absent /\ NoPageForFault(s, p)
  /\ UNCHANGED <<pool, stackBlock, device, failed>>

\* The page, unless another thread's fault brought it; the fault is answered.
FaultPage(s) ==
  /\ fault[s] # NONE /\ fault[s].at = "page"
  /\ LET p == fault[s].process
         a == fault[s].addr
         Answer == fault' = [fault EXCEPT ![s] = NONE]
     IN \/ ~fault[s].absent /\ Answer /\ UNCHANGED <<space, used>>
        \/ fault[s].absent /\ Answer /\ \E page \in Lowest(1) :
             /\ space' = [space EXCEPT ![p].heap[a] = page]
             /\ used' = used \cup {page}
        \/ fault[s].absent /\ NoPageForFault(s, p)
  /\ UNCHANGED <<pool, stackBlock, device, failed>>

-----------------------------------------------------------------------------
(* Taking a process down: UserProcess::DeAllocateResources.                *)

\* DMM_DeAllocatePhysicalPages walks the heap and stops at the first hole.
HeapPages(s) ==
  LET present == {a \in DOMAIN s.heap : \A b \in 0 .. a : s.heap[b] # NONE}
      tables  == {t \in HeapTable : \A u \in 0 .. t : s.heapTable[u] # NONE}
  IN {s.heap[a] : a \in present} \cup {s.heapTable[t] : t \in tables}
FaultyReleased(s) == s.pages \cup s.dllPages \cup HeapPages(s) \cup {s.gui}  \* DLL page tables are forgotten
Released(s) == s.pages \cup s.dllTables \cup s.dllPages \cup HeapPages(s) \cup {s.gui}

\* No server is in a fault of the process, whose threads are gone.
DeAllocateResources(p) ==
  /\ Running(p) /\ space[p].thread = NONE /\ ~Locked(p)
  /\ AfterDeAllocate(Released(space[p]))
  /\ space' = [space EXCEPT ![p] = Gone]
  /\ UNCHANGED <<pool, fault, stackBlock, device, failed>>

-----------------------------------------------------------------------------
(* Kernel stacks, the kernel's own pages, device registers.                *)

\* The block stays taken when there are too few pages.
AllocateKernelStack(b) ==
  /\ stackBlock[b] = NONE
  /\ stackBlock' = [stackBlock EXCEPT ![b] =
                      IF HasPages(KernelStackPages) THEN Lowest(KernelStackPages) ELSE {}]
  /\ TakeSome(KernelStackPages)
  /\ UNCHANGED <<pool, space, fault, device>>

DeAllocateKernelStack(b) ==
  /\ stackBlock[b] \notin {NONE, {}}
  /\ AfterDeAllocate(stackBlock[b])
  /\ stackBlock' = [stackBlock EXCEPT ![b] = NONE]
  /\ UNCHANGED <<pool, space, fault, device, failed>>

AllocatePageForKernel ==
  /\ \E n \in PoolPage \ pool :
       (\A m \in PoolPage \ pool : n <= m) /\ pool' = pool \cup {n}
  /\ UNCHANGED <<used, space, fault, stackBlock, device, failed>>
DeAllocatePageForKernel(n) ==
  /\ n \in pool /\ pool' = pool \ {n}
  /\ UNCHANGED <<used, space, fault, stackBlock, device, failed>>

\* The drivers map their registers while the kernel boots.
Booting == \A p \in Process : space[p].phase = "none"
\* A page past the map needs no mark; one that is taken already stays with
\* whom has it, and the driver goes on.
FaultyMarkPageAsAllocated(n) ==      \* a taken page is marked again
  /\ Booting /\ n \notin device /\ n \in Page
  /\ used' = used \cup {n} /\ device' = device \cup {n}
  /\ UNCHANGED <<pool, space, fault, stackBlock, failed>>
MarkPageAsAllocated(n) ==
  /\ Booting /\ n \notin device /\ n \in Page /\ n \notin used
  /\ used' = used \cup {n} /\ device' = device \cup {n}
  /\ UNCHANGED <<pool, space, fault, stackBlock, failed>>

Next ==
  \/ \E p \in Process :
       \/ Load(p) \/ LoadWithoutParent(p)
       \/ \E n \in 1 .. MaxDLL : MapDLLPagesToProcess(p, n)
       \/ AllocateGUIFramebuffer(p) \/ CreateThread(p) \/ DestroyThread(p)
       \/ RefuseFault(p) \/ DeAllocateResources(p)
       \/ \E s \in Server, a \in 0 .. MaxHeap - 1 : EnterFault(s, p, a)
  \/ \E s \in Server : FaultTable(s) \/ FaultPage(s)
  \/ \E b \in KernelStackBlock : AllocateKernelStack(b) \/ DeAllocateKernelStack(b)
  \/ AllocatePageForKernel \/ \E n \in PoolPage : DeAllocatePageForKernel(n)
  \/ \E n \in DevicePage : MarkPageAsAllocated(n)

Spec == Init /\ [][Next]_vars

-----------------------------------------------------------------------------
TypeOK ==
  /\ used \subseteq Page /\ pool \subseteq PoolPage /\ device \subseteq DevicePage
  /\ DOMAIN space = Process /\ DOMAIN fault = Server /\ DOMAIN stackBlock = KernelStackBlock
  /\ failed \in BOOLEAN

InBlocks == UNION {stackBlock[b] : b \in {c \in KernelStackBlock : stackBlock[c] # NONE}}

\* A page has one holder, and a page that somebody holds is never free.
PagesOwnedOnce ==
  /\ \A p, q \in Process : p # q => InSpace(space[p]) \cap InSpace(space[q]) = {}
  /\ \A p \in Process : InSpace(space[p]) \cap (InBlocks \cup device \cup Reserved) = {}
  /\ InBlocks \cap (device \cup Reserved) = {}
  /\ \A b, c \in KernelStackBlock :
       b # c /\ stackBlock[b] # NONE /\ stackBlock[c] # NONE => stackBlock[b] \cap stackBlock[c] = {}
  /\ InBlocks \cup device \cup UNION {InSpace(space[p]) : p \in Process} \subseteq used

\* In one address space too: no page is a table and a page, or two pages.
Count(s) ==
  LoadCount + Cardinality(s.dllTables) + s.dlls
  + Cardinality({t \in HeapTable : s.heapTable[t] # NONE}) + Cardinality({a \in DOMAIN s.heap : s.heap[a] # NONE})
  + (IF s.gui \in {NONE, 0} THEN 0 ELSE 1) + (IF s.thread = NONE THEN 0 ELSE Cardinality(s.thread))
PagesMappedOnce ==
  \A p \in Process : Running(p) => Cardinality(InSpace(space[p])) = Count(space[p])

\* Every page that is taken is held by somebody, as long as no allocation of
\* several pages failed half way: a process, with its threads, gives back
\* all it took, whatever order its life took.
NothingLeaks ==
  ~failed => used \ (Reserved \cup device \cup InBlocks) = UNION {InSpace(space[p]) : p \in Process}

\* A fault is answered with success only when the page is there.
HeapReachable ==
  \A p \in Process : Running(p) =>
    \A a \in 0 .. MaxHeap - 1 : space[p].heap[a] # NONE => space[p].heapTable[a \div PerTable] # NONE
=============================================================================
