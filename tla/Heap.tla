--------------------------------- MODULE Heap ---------------------------------
(***************************************************************************)
(* The heap of a user process and of the kernel (memory/DMM.cpp): one      *)
(* algorithm, written twice, that keeps a list of free blocks in the free  *)
(* memory itself.  Each call runs under the heap's mutex or with           *)
(* interrupts off and is one step.  Only the kernel asks for alignment;    *)
(* only the heap of a process makes sure that its pages are present.       *)
(*                                                                         *)
(* A definition named Faulty... is the one after it with a single fault;   *)
(* no specification uses it, it shows what the properties would catch.     *)
(***************************************************************************)
EXTENDS Integers, FiniteSets, SequencesExt

CONSTANTS
  HeapStart, HeapSize,   \* PROCESS_HEAP_START_ADDRESS, PROCESS_HEAP_SIZE
  Header,                \* sizeof(AllocationUnitTracker)
  PageSize,
  Request,               \* sizes callers ask for
  Align,                 \* alignments callers ask for, 0 is none
  MaxBlocks              \* bound: blocks handed out at a time

VARIABLES
  free,      \* the free list from getAUTAddress, <<>> is NULL
  blocks,    \* blocks handed out: address, size, returned address, request
  touched,   \* pages that were read after an allocation
  dmmFlag,   \* SetDMMFlag: page faults on the heap are allowed
  history    \* whether a request found no memory, and whether the list was
             \* started again although blocks were out
vars == <<free, blocks, touched, dmmFlag, history>>

HeapAssumption ==
  /\ HeapStart \in Nat /\ HeapSize \in Nat /\ Header \in Nat \ {0} /\ PageSize \in Nat \ {0}
  /\ HeapSize > Header + 1
  /\ Request \subseteq Nat \ {0} /\ Align \subseteq Nat

-----------------------------------------------------------------------------
Init ==
  /\ free = <<>> /\ blocks = {} /\ touched = {} /\ dmmFlag = FALSE
  /\ history = [refused |-> FALSE, restarted |-> FALSE]

\* DMM_GetByteStuffForAlign: the bytes to skip so that addr is aligned.
FaultyByteStuffForAlign(addr, align) == IF align = 0 THEN 0 ELSE addr % align   \* down, not up
ByteStuffForAlign(addr, align) ==
  IF align = 0 \/ addr % align = 0 THEN 0 ELSE align - (addr % align)

Needed(block, n, align) == n + Header + ByteStuffForAlign(block.addr + Header, align)

\* An empty list is a heap that was never used.
List == IF free = <<>> THEN <<[addr |-> HeapStart, size |-> HeapSize]>> ELSE free

\* The list without its i-th block, or with what is left of it when that can
\* hold a header and more than a byte.
FaultyCut(list, i, need) ==      \* the rest is kept however small it is
  ReplaceAt(list, i, [addr |-> list[i].addr + need, size |-> list[i].size - need])
Cut(list, i, need) ==
  IF list[i].size - need > Header + 1
  THEN ReplaceAt(list, i, [addr |-> list[i].addr + need, size |-> list[i].size - need])
  ELSE RemoveAt(list, i)

PagesOf(addr, size) == addr \div PageSize .. (addr + size - 1) \div PageSize
\* One read a page from behind the header on, and the last byte.
FaultyReads(addr, size) == {(addr + size - 1) \div PageSize}      \* the last byte only
Reads(addr, size) ==
  {a \div PageSize : a \in {b \in addr + Header .. addr + size - 1 : (b - addr - Header) % PageSize = 0}}
  \cup {(addr + size - 1) \div PageSize}

\* First fit.  The header of the block, the data and the header of the rest
\* are written or read, which brings their pages.
Allocate(n, align) ==
  /\ Cardinality(blocks) < MaxBlocks
  /\ \E i \in DOMAIN List :
       LET block == List[i]
           need  == Needed(block, n, align)
           rest  == Cut(List, i, need)
           size  == IF Len(rest) = Len(List) THEN need ELSE block.size
       IN /\ need <= block.size
          /\ \A j \in 1 .. i - 1 : Needed(List[j], n, align) > List[j].size
          /\ free' = rest
          /\ blocks' = blocks \cup {[addr |-> block.addr, size |-> size, need |-> n, align |-> align,
                                     ret |-> block.addr + need - n]}
          /\ touched' = touched \cup PagesOf(HeapStart, Header) \cup PagesOf(block.addr, Header) \cup Reads(block.addr, size)
               \cup (IF size = need /\ size # block.size THEN PagesOf(block.addr + need, Header) ELSE {})
  /\ dmmFlag' = FALSE
  /\ history' = [history EXCEPT !.restarted = @ \/ (free = <<>> /\ blocks # {})]

\* No block is large enough: an exception, with the flag as it is then.
OutOfMemory(n, align) ==
  /\ \A i \in DOMAIN List : Needed(List[i], n, align) > List[i].size
  /\ free' = List
  /\ touched' = touched \cup PagesOf(HeapStart, Header)
  /\ dmmFlag' = TRUE
  /\ history' = [refused |-> TRUE, restarted |-> history.restarted \/ (free = <<>> /\ blocks # {})]
  /\ UNCHANGED blocks

\* The whole block returns, at the front; neighbours are not joined.
FaultyDeAllocate(b) ==      \* the bytes skipped for the alignment are lost
  /\ b \in blocks
  /\ free' = <<[addr |-> b.ret - Header, size |-> b.size]>> \o free
  /\ blocks' = blocks \ {b}
  /\ UNCHANGED <<touched, dmmFlag, history>>
DeAllocate(b) ==
  /\ b \in blocks
  /\ free' = <<[addr |-> b.addr, size |-> b.size]>> \o free
  /\ blocks' = blocks \ {b}
  /\ UNCHANGED <<touched, dmmFlag, history>>

\* Once blocks overlap, headers are overwritten by data: not followed.
Next ==
  /\ ~history.restarted
  /\ \/ \E n \in Request, align \in Align : Allocate(n, align) \/ OutOfMemory(n, align)
     \/ \E b \in blocks : DeAllocate(b)
Spec == Init /\ [][Next]_vars

-----------------------------------------------------------------------------
Bytes(addr, size) == addr .. addr + size - 1
Data(b) == Bytes(b.ret, b.need)

TypeOK ==
  /\ \A i \in DOMAIN free : free[i].addr \in Nat /\ free[i].size \in Nat
  /\ \A b \in blocks : b.ret \in Nat /\ b.need \in Request
  /\ dmmFlag \in BOOLEAN

\* Free blocks and blocks in use cover the heap without overlapping, so no
\* byte is lost and nobody's data, and no header, is in anybody else's block.
\* This ends when the last free block was handed out whole: an empty list
\* is then taken for a heap that was never used.
FreePart(i) == Bytes(free[i].addr, free[i].size)
BlocksTile ==
  ~history.restarted =>
    /\ \A i \in DOMAIN free : free[i].size >= Header
    /\ \A i, j \in DOMAIN free : i # j => FreePart(i) \cap FreePart(j) = {}
    /\ \A b, c \in blocks : b # c => Bytes(b.addr, b.size) \cap Bytes(c.addr, c.size) = {}
    /\ \A i \in DOMAIN free, b \in blocks : FreePart(i) \cap Bytes(b.addr, b.size) = {}
    /\ free # <<>> \/ blocks # {} =>
         UNION ({FreePart(i) : i \in DOMAIN free} \cup {Bytes(b.addr, b.size) : b \in blocks})
           = Bytes(HeapStart, HeapSize)

\* The caller's bytes are aligned as asked, inside the block, and leave room
\* for the header that DeAllocate reads before them.
DataFits ==
  \A b \in blocks :
    /\ b.addr + Header <= b.ret /\ b.ret + b.need <= b.addr + b.size
    /\ b.align # 0 => b.ret % b.align = 0

\* The pages of every block are there from its start on, without a hole: a
\* process that is taken down finds them all by walking up to the first page
\* that is missing, and its own reads and writes of the heap never fault.
TouchedInOrder ==
  ~history.restarted /\ 0 \in Align =>
    /\ \A q \in touched : \A r \in HeapStart \div PageSize .. q : r \in touched
    /\ \A b \in blocks : PagesOf(b.addr, b.size) \subseteq touched

\* Outside a call a fault on the heap is refused, unless a call threw.
FlagMeansRefused == dmmFlag => history.refused
=============================================================================
