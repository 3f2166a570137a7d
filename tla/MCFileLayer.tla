----------------------------- MODULE MCFileLayer -----------------------------
(***************************************************************************)
(* The four parts of the file layer that share no state, side by side:     *)
(* a behaviour is one of one of them, and the state of the others is NONE. *)
(* The files are there twice: two that compete for sectors, with a         *)
(* descriptor each or two of one, in sectors of one cell; and one with one *)
(* descriptor in sectors of several cells.                                 *)
(***************************************************************************)
EXTENDS Integers, FiniteSets, TLC

CONSTANTS
  NONE,
  DirSector, RootSector, PerSector, Name, JunkName, Process,
  File, FD, FileSectors, MaxRun,
  OneFile, OneFD, Cells, LongLength,
  MaxId, MaxOpen,
  NBlocks, PerBlock, QueueSize, CacheSize, ReadAhead

VARIABLES part, node, dirNext, root, pwd, tree, start, size, next, data, fd, written, lost, table, idCounter,
  disk, cached, sectorBlock, changed, pool, used, mounted, chain, op

dirVars == <<node, dirNext, root, pwd, tree>>
fileVars == <<start, size, next, data, fd, written, lost>>
tableVars == <<table, idCounter>>
spaceVars == <<disk, cached, sectorBlock, changed, pool, used, mounted, chain, op>>

D == INSTANCE Directory WITH Sector <- DirSector, next <- dirNext
F == INSTANCE Files WITH NSectors <- FileSectors, Cells <- 1, Length <- {1, 2}
P == INSTANCE Files WITH File <- OneFile, FD <- OneFD, NSectors <- FileSectors, Length <- LongLength
T == INSTANCE FileDescriptorTable
S == INSTANCE FileSystem WITH written <- changed, Exclusive <- TRUE, Restarts <- FALSE

ASSUME LayerAssumption == D!DirectoryAssumption /\ F!FilesAssumption /\ P!FilesAssumption /\ T!TableAssumption

NoDirectory == node = NONE /\ dirNext = NONE /\ root = NONE /\ pwd = NONE /\ tree = NONE
NoFiles == /\ start = NONE /\ size = NONE /\ next = NONE /\ data = NONE
           /\ fd = NONE /\ written = NONE /\ lost = NONE
NoTable == table = NONE /\ idCounter = NONE
NoSpace == /\ disk = NONE /\ cached = NONE /\ sectorBlock = NONE /\ changed = NONE /\ pool = NONE
           /\ used = NONE /\ mounted = NONE /\ chain = NONE /\ op = NONE
Init ==
  \/ part = "directory" /\ D!Init /\ NoFiles /\ NoTable /\ NoSpace
  \/ part = "files" /\ F!Init /\ NoDirectory /\ NoTable /\ NoSpace
  \/ part = "pieces" /\ P!Init /\ NoDirectory /\ NoTable /\ NoSpace
  \/ part = "table" /\ T!Init /\ NoDirectory /\ NoFiles /\ NoSpace
  \/ part = "space" /\ S!Init /\ NoDirectory /\ NoFiles /\ NoTable
Next ==
  /\ UNCHANGED part
  /\ \/ part = "directory" /\ D!Next /\ UNCHANGED <<fileVars, tableVars, spaceVars>>
     \/ part = "files" /\ F!Next /\ UNCHANGED <<dirVars, tableVars, spaceVars>>
     \/ part = "pieces" /\ P!Next /\ UNCHANGED <<dirVars, tableVars, spaceVars>>
     \/ part = "table" /\ T!Next /\ UNCHANGED <<dirVars, fileVars, spaceVars>>
     \/ part = "space" /\ S!Next /\ UNCHANGED <<dirVars, fileVars, tableVars>>
Spec == Init /\ [][Next]_<<part, dirVars, fileVars, tableVars, spaceVars>>

Symmetry == Permutations(DirSector) \cup Permutations(Name) \cup Permutations(Process)

\* Directory: lookups find what calls made, by the path the code keeps, the
\* counted sizes are exact and a sector is in one chain only.
TreeIntact == part = "directory" => D!TypeOK /\ D!LookupsSeeTree /\ D!SizeExact /\ D!SectorsOwnedOnce /\ D!PathsInvert
\* Directory: the copies of the root and of working directories mislead nobody.
CopiesAgree == part = "directory" => D!RootCopyFresh /\ D!RelativeAgrees /\ D!StaleMissesOnly
\* Files: what was written is read.
ReadsBack ==
  /\ part = "files" => F!TypeOK /\ F!ReadsBack
  /\ part = "pieces" => P!TypeOK /\ P!ReadsBack
\* Files: a descriptor remembers a sector of its file, and the chain of a
\* file has its cells and nobody else's.
ChainsFollowed ==
  /\ part = "files" => F!HintsExact /\ F!ChainsCover
  /\ part = "pieces" => P!HintsExact /\ P!ChainsCover
\* Descriptor table: counts are exact and duplicates lead to an open file.
DescriptorsCounted == part = "table" => T!TypeOK /\ T!RefCountsExact /\ T!DupsResolve
\* Allocation table: no sector has two owners.
NoDoubleAllocation == part = "space" => S!NoDoubleAllocation
\* Allocation table: the sectors of a drive are accounted for, and the pool
\* is never loaded from old entries.
SpaceAccounted == part = "space" => S!SpaceAccounted /\ S!ReadsMissCache
\* Allocation table: a write fails for want of sectors only on a full drive.
FreeSpaceFound == [][part = "space" => S!RefusesOnlyFull]_<<part, spaceVars>>
=============================================================================
