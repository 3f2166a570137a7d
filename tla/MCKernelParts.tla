---------------------------- MODULE MCKernelParts ----------------------------
(***************************************************************************)
(* Parts of the kernel that share no state, side by side: a behaviour is   *)
(* one of one of them.  The parts share the variables v1, v2, ...; each    *)
(* says below which of its own they stand for, and the ones it does not    *)
(* need are NONE.                                                          *)
(***************************************************************************)
EXTENDS Integers, Sequences, TLC

CONSTANTS NONE, CURRENT, BLANK,
  proc1, proc2, server1, server2,  \* processes, threads and servers
  unit1, unit2,                    \* drives; libraries
  single,                          \* a block of kernel stack; the image of a program
  sym1, sym2, undef                \* symbols, undef is defined nowhere

(* Program files: a sound one, and ones whose base is not page aligned,    *)
(* whose segments do not fit, whose sections lie elsewhere in the file or  *)
(* that end before a segment does.                                         *)
Segment(vaddr, offset, filesz, memsz) ==
  [vaddr |-> vaddr, offset |-> offset, filesz |-> filesz, memsz |-> memsz]
Piece(off, len) == [off |-> off, len |-> len]
Sound == [seg |-> <<Segment(48, 0, 6, 6), Segment(56, 6, 5, 9)>>, bss |-> [addr |-> 61, size |-> 4],
          size |-> 12, header |-> Piece(0, 2), program |-> Piece(2, 1), symbols |-> Piece(10, 2)]
FileDef == {Sound, [Sound EXCEPT !.seg[1].vaddr = 52], [Sound EXCEPT !.seg[2].memsz = 99],
            [Sound EXCEPT !.size = 10, !.symbols = Piece(3, 2)], [Sound EXCEPT !.symbols = Piece(8, 2)],
            [Sound EXCEPT !.symbols = Piece(11, 2)], [Sound EXCEPT !.seg[2].offset = 8, !.size = 13]}
DLLFileDef == [l \in {unit1, unit2} |->
  [seg |-> <<Segment(0, 0, 6, 6), Segment(7, 5, 3, 6)>>, bss |-> [addr |-> 10, size |-> 3], size |-> 12]]
DefinesDef == [l \in {unit1, unit2} |-> IF l = unit1 THEN sym1 :> 1 ELSE (sym1 :> 2 @@ sym2 :> 3)]
ImportsDef ==
  [i \in {unit1, unit2, single} |-> IF i = single THEN {sym1, sym2, undef} ELSE IF i = unit1 THEN {sym2} ELSE {sym1}]

(* Instants at the ends of minutes, days, months, years, leap years and of *)
(* the calendar's first year.                                              *)
At(y, m, d, second) == [date |-> [year |-> y, month |-> m, day |-> d], second |-> second]
InstantDef == {At(1999, 12, 31, 86398), At(2024, 2, 28, 86399), At(2023, 6, 15, 43199),
               At(1947, 3, 1, 0), At(1952, 2, 29, 86399), At(2025, 1, 31, 3598)}

VARIABLES part,
  v1, v2, v3, v4, v5, v6, v7, v8, v9, v10, v11, v12, v13, v14, v15, v16, v17, v18, v19, v20, v21,
  v22

M == INSTANCE MemManager WITH
  Process <- {proc1}, Server <- {server1, server2}, NPages <- 14, NReserved <- 2, PoolStart <- 1,
  NPool <- 1, OsTables <- 1, ImageTables <- 1, ImagePages <- 1, StackPages <- 1,
  KernelStackPages <- 2, KernelStackBlock <- {single}, PerTable <- 2, MaxDLL <- 2, MaxHeap <- 3,
  DevicePage <- {3, 20},
  used <- v1, pool <- v2, space <- v3, fault <- v4, stackBlock <- v5, device <- v6, failed <- v7
H == INSTANCE Heap WITH
  HeapStart <- 8, HeapSize <- 20, Header <- 2, PageSize <- 4, Request <- {1, 6}, Align <- {0, 4},
  MaxBlocks <- 3,
  free <- v1, blocks <- v2, touched <- v3, dmmFlag <- v4, history <- v5
P == INSTANCE Partitions WITH
  DiskSize <- 20, Word <- 64, DefStart <- 2, MaxPrimary <- 4, Size <- {2, 3, 8}, MaxChain <- 4,
  MaxCommands <- 5,
  disk <- v1, used <- v2, writes <- v3, before <- v4, after <- v5, change <- v6, small <- v7,
  junk <- v8, commands <- v9
D == INSTANCE Drives WITH
  Name <- {unit1, unit2}, BootName <- unit1, Process <- {proc1, proc2}, Service <- server1,
  Shell <- proc1, MaxErrors <- 1, MaxMoves <- 4,
  list <- v1, mounted <- v2, pool <- v3, lostPools <- v4, valid <- v5, rootRead <- v6,
  unsaved <- v7, dirty <- v8, tasks <- v9, driveID <- v10, pwd <- v11, saved <- v12, root <- v13,
  stale <- v14, indicator <- v15, update <- v16, formatted <- v17, overlapped <- v18, phase <- v19,
  settled <- v20, errors <- v21, moves <- v22
L == INSTANCE Loader WITH
  Thread <- {proc1, proc2}, Library <- {unit1, unit2}, Program <- single, File <- FileDef,
  DLLFile <- DLLFileDef, Needed <- <<unit1, unit2>>, Defines <- DefinesDef, Imports <- ImportsDef,
  Args <- {<<>>, <<0, 2>>, <<1, 0, 3>>}, PageSize <- 24, Base <- 24, MaxSize <- 72, StubSize <- 2,
  Buffer <- 9, MaxErrors <- 1,
  program <- v1, dlls <- v2, got <- v3, holder <- v4, at <- v5, call <- v6, next <- v7, errors <- v8
S == INSTANCE SysCall WITH
  Word <- 32, ProcessBase <- 20, KernelBase <- 12, Address <- {5, 30}, MaxCalls <- 2,
  caller <- v1, at <- v2, call <- v3, vector <- v4, reused <- v5, seen <- v6, result <- v7,
  calls <- v8
C == INSTANCE Clock WITH
  Instant <- InstantDef, Days <- {0, 1, 59, 210}, Months <- {0, 1, 13}, Years <- {1, 4},
  MaxTicks <- 2, MaxMoves <- 2, MaxDays <- 2000,
  now <- v1, registers <- v2, begun <- v3, carried <- v4, ticks <- v5, date <- v6, before <- v7,
  asked <- v8, defined <- v9, moves <- v10

ASSUME PartsAssumption == M!MemManagerAssumption /\ H!HeapAssumption

Rest10 == <<v11, v12, v13, v14, v15, v16, v17, v18, v19, v20, v21, v22>>
None10 ==
  /\ v11 = NONE /\ v12 = NONE /\ v13 = NONE /\ v14 = NONE /\ v15 = NONE /\ v16 = NONE
  /\ v17 = NONE /\ v18 = NONE /\ v19 = NONE /\ v20 = NONE /\ v21 = NONE /\ v22 = NONE
Rest9 == <<v10, Rest10>>
None9 == v10 = NONE /\ None10
Rest8 == <<v9, Rest9>>
None8 == v9 = NONE /\ None9
Rest7 == <<v8, Rest8>>
None7 == v8 = NONE /\ None8
Rest5 == <<v6, v7, Rest7>>
None5 == v6 = NONE /\ v7 = NONE /\ None7

Init ==
  \/ part = "memory" /\ M!Init /\ None7
  \/ part = "heap" /\ H!Init /\ None5
  \/ part = "partitions" /\ P!Init /\ None9
  \/ part = "drives" /\ D!Init
  \/ part = "loader" /\ L!Init /\ None8
  \/ part = "calls" /\ S!Init /\ None8
  \/ part = "clock" /\ C!Init /\ None10
Next ==
  /\ UNCHANGED part
  /\ \/ part = "memory" /\ M!Next /\ UNCHANGED Rest7
     \/ part = "heap" /\ H!Next /\ UNCHANGED Rest5
     \/ part = "partitions" /\ P!Next /\ UNCHANGED Rest9
     \/ part = "drives" /\ D!Next
     \/ part = "loader" /\ L!Next /\ UNCHANGED Rest8
     \/ part = "calls" /\ S!Next /\ UNCHANGED Rest8
     \/ part = "clock" /\ C!Next /\ UNCHANGED Rest10
Spec == Init /\ [][Next]_<<part, v1, v2, v3, v4, v5, Rest5>>

\* Memory: a page, a page of the kernel pool and a kernel stack block have one
\* owner, a page is mapped once, nothing taken is lost while no allocation
\* failed, the heap a process reaches is mapped.  Heap: its blocks and free
\* blocks tile it, a request fits its block, pages are first read in order.
MemoryOwnedOnce ==
  /\ part = "memory" =>
       M!TypeOK /\ M!PagesOwnedOnce /\ M!PagesMappedOnce /\ M!NothingLeaks /\ M!HeapReachable
  /\ part = "heap" =>
       H!TypeOK /\ H!BlocksTile /\ H!DataFits /\ H!TouchedInOrder /\ H!FlagMeansRefused
\* Partitions: they stay apart, a command that stops between two writes
\* leaves a table that can be read, each command changes one.  Drives: a
\* process's working directory is on its drive, the root is the mounted one,
\* what was written is flushed before a reboot, an indicator says what its
\* drive is.
DisksDivided ==
  /\ part = "partitions" =>
       P!TypeOK /\ P!PartitionsApart /\ P!CutShortSafely /\ P!OneByOne
  /\ part = "drives" =>
       D!TypeOK /\ D!PwdOfItsDrive /\ D!RootAgrees /\ D!NothingLost /\ D!IndicatorsOwn
\* Loading: the image, the arguments and the symbols a program sees are those
\* of its files, whatever the reader's buffer, and a library is loaded once.
\* System calls: an operation gets the caller's parameters and the caller its
\* result.
ProgramsServed ==
  /\ part = "loader" =>
       /\ L!TypeOK /\ L!ImageRight /\ L!ArgumentsFound /\ L!SymbolsAgree /\ L!LoadedOnce
       /\ L!ReaderRight
  /\ part = "calls" => S!TypeOK /\ S!ArgumentsSeen /\ S!ResultsRight
\* Clock: a time that was read is one the clock showed, the calendar's ways to
\* move a date agree.
TimeRight == part = "clock" => C!TypeOK /\ C!TimeRight /\ C!DatesAgree
=============================================================================
