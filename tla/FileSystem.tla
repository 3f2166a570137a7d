------------------------------ MODULE FileSystem ------------------------------
(***************************************************************************)
(* The allocation table of a mounted file system and the sector chains of  *)
(* its files: filesystem/FileSystem.cpp, with the loops of                 *)
(* filesystem/Directory.cpp that extend a file and delete one.             *)
(*                                                                         *)
(* The table is cached by blocks.  Free sectors are handed out from a      *)
(* pool that is refilled from the cached blocks and from the disk.  There  *)
(* is no lock: another process may work on its own file between any two    *)
(* steps, unless Exclusive says that the instance runs one at a time.      *)
(* The disk is what DiskDrive::Read and Write show (module DiskCache).     *)
(*                                                                         *)
(* A definition named Faulty... is the one after it with a single fault;   *)
(* no specification uses it, it shows what the properties would catch.     *)
(***************************************************************************)
EXTENDS Integers, Sequences, FiniteSets

CONSTANTS
  NBlocks,    \* BPB_FSTableSize
  PerBlock,   \* ENTRIES_PER_TABLE_SECTOR
  QueueSize,  \* capacity of _freePoolQueue
  CacheSize,  \* MAX_SECTORS_IN_TABLE_CACHE
  ReadAhead,  \* table sectors LoadFreeSectors reads at once
  File,       \* files, each used by a process of its own
  Exclusive,  \* one file operation at a time
  Restarts    \* whether the machine may restart while the drive is unmounted

ASSUME SizeAssumption ==
  /\ NBlocks \in Nat \ {0} /\ PerBlock \in Nat \ {0, 1}
  /\ QueueSize \in Nat \ {0} /\ CacheSize \in Nat \ {0, 1} /\ ReadAhead \in Nat \ {0}
ASSUME SwitchAssumption == Exclusive \in BOOLEAN /\ Restarts \in BOOLEAN

NSectors == NBlocks * PerBlock
Sector == 0 .. NSectors - 1
Block == 0 .. NBlocks - 1
EOC == NSectors              \* end of chain; an entry 0 is a free sector
Entry == Sector \cup {EOC}
BLOCK_ID(s) == s \div PerBlock

VARIABLES
  disk,       \* the table on the disk
  cached,     \* blocks in _fsTableCache
  sectorBlock,\* their contents (0 for the others)
  written,    \* cached blocks with WriteCount() > 0
  pool,       \* _freePoolQueue
  used,       \* uiUsedSectors, in memory while mounted and then in the boot block
  mounted,    \* _mounted
  chain,      \* the sectors each file was given, in order
  op          \* where the operation on each file stands

cacheVars == <<disk, cached, sectorBlock, written>>
vars == <<disk, cached, sectorBlock, written, pool, used, mounted, chain, op>>

Idle == [pc |-> "idle", cur |-> EOC, prev |-> EOC]
Op == [pc: {"idle", "walk", "taken", "marked", "clear", "cleared"}, cur: Entry, prev: Entry]

\* A drive that was formatted before the machine started (FileSystem::Format).
Init ==
  /\ disk = [s \in Sector |-> IF s = 0 THEN EOC ELSE 0]
  /\ cached = {} /\ sectorBlock = [s \in Sector |-> 0] /\ written = {}
  /\ pool = <<>>
  /\ used = 1
  /\ mounted = FALSE
  /\ chain = [f \in File |-> <<>>]
  /\ op = [f \in File |-> Idle]

-----------------------------------------------------------------------------
(* The cached table.                                                       *)

\* What the kernel takes for the entry of a sector.
Value(s) == IF BLOCK_ID(s) \in cached THEN sectorBlock[s] ELSE disk[s]
Entries == [s \in Sector |-> Value(s)]

\* FlushTableCache(1), before a block is added to a full cache.
Evicted == IF Cardinality(cached) = CacheSize
           THEN {b \in cached : \A c \in cached : b <= c} ELSE {}
FaultyFlushed(B) == disk
Flushed(B) == [s \in Sector |-> IF BLOCK_ID(s) \in B \cap written THEN sectorBlock[s] ELSE disk[s]]

\* AddToTableCache of the block of s, when it is not there, for a table that
\* then has these entries.
Touch(s, entries, isWritten) ==
  LET b    == BLOCK_ID(s)
      out  == IF b \in cached THEN {} ELSE Evicted
      here == (cached \ out) \cup {b}
  IN /\ cached' = here
     /\ disk' = Flushed(out)
     /\ sectorBlock' = [t \in Sector |-> IF BLOCK_ID(t) \in here THEN entries[t] ELSE 0]
     /\ written' = (written \ out) \cup (IF isWritten THEN {b} ELSE {})

GetSectorEntryValue(s) == Touch(s, Entries, FALSE)
FaultySetSectorEntryValue(s, v) ==   \* counts no sector that is freed
  /\ Touch(s, [Entries EXCEPT ![s] = v], TRUE)
  /\ used' = used + (IF v = EOC THEN 1 ELSE 0)
SetSectorEntryValue(s, v) ==
  /\ Touch(s, [Entries EXCEPT ![s] = v], TRUE)
  /\ used' = used + (CASE v = EOC -> 1 [] v = 0 -> -1 [] OTHER -> 0)

\* The sectors or blocks of a set from the first to the last.
InOrder(S) == [i \in 1 .. Cardinality(S) |-> CHOOSE x \in S : Cardinality({y \in S : y < x}) = i - 1]

\* LoadFreeSectors, into an empty queue.
FaultyCachedFree == <<>>
CachedFree == InOrder({s \in Sector : BLOCK_ID(s) \in cached /\ Value(s) = 0})
\* The scan of the disk passes over a block that is cached; from one that is
\* not it reads ReadAhead blocks, cached or not, and goes on behind them.
ReadStarts ==
  CHOOSE R \in SUBSET Block :
    \A b \in Block : b \in R <=> b \notin cached /\ \A r \in R : r < b => r + ReadAhead <= b
ReadBlocks == {b \in Block : \E r \in ReadStarts : r <= b /\ b < r + ReadAhead}
FaultyDiskFree == InOrder({s \in Sector : disk[s] = 0})
DiskFree == InOrder({s \in Sector : BLOCK_ID(s) \in ReadBlocks /\ disk[s] = 0})
LoadFreeSectors ==
  LET found == CachedFree \o DiskFree
  IN SubSeq(found, 1, IF Len(found) < QueueSize THEN Len(found) ELSE QueueSize)

-----------------------------------------------------------------------------
(* Mounting.                                                               *)

AllIdle == \A f \in File : op[f] = Idle

Mount ==
  /\ ~mounted
  /\ mounted' = TRUE
  /\ pool' = LoadFreeSectors
  /\ UNCHANGED <<cacheVars, used, chain, op>>

FaultyUnMount ==                 \* empties the cache without flushing it
  /\ mounted /\ AllIdle
  /\ mounted' = FALSE
  /\ cached' = {} /\ sectorBlock' = [s \in Sector |-> 0] /\ written' = {}
  /\ pool' = <<>>
  /\ UNCHANGED <<disk, used, chain, op>>
\* FlushTableCache of all the blocks erases none of them.
UnMount ==
  /\ mounted /\ AllIdle
  /\ mounted' = FALSE
  /\ disk' = Flushed(cached)
  /\ pool' = <<>>
  /\ UNCHANGED <<cached, sectorBlock, written, used, chain, op>>

Restart ==
  /\ Restarts /\ ~mounted /\ cached # {}
  /\ cached' = {} /\ sectorBlock' = [s \in Sector |-> 0] /\ written' = {}
  /\ UNCHANGED <<disk, pool, used, mounted, chain, op>>

-----------------------------------------------------------------------------
(* Directory_ActualFileWrite: follows the chain to the offset, and extends *)
(* it sector by sector when it ends before.                                *)

At(f, pc) == op[f].pc = pc
Step(f, pc, cur, prev) == op' = [op EXCEPT ![f] = [pc |-> pc, cur |-> cur, prev |-> prev]]
Finish(f) == op' = [op EXCEPT ![f] = Idle]
CanStart(f) == mounted /\ At(f, "idle") /\ (Exclusive => AllIdle)

\* It starts at the head of the chain or at the sector read last.
StartWrite(f) ==
  /\ CanStart(f)
  /\ IF chain[f] = <<>> THEN Step(f, "walk", EOC, EOC)
     ELSE \E i \in DOMAIN chain[f] : Step(f, "walk", chain[f][i], EOC)
  /\ UNCHANGED <<cacheVars, pool, used, mounted, chain>>

Walk(f) ==
  LET s == op[f].cur IN
  /\ At(f, "walk") /\ s # EOC
  /\ \/ GetSectorEntryValue(s) /\ Step(f, "walk", Value(s), s)
     \/ Finish(f) /\ UNCHANGED cacheVars
  /\ UNCHANGED <<pool, used, mounted, chain>>

\* AllocateSector: a sector of the pool, refilled when it is empty ...
Refilled == IF pool = <<>> THEN LoadFreeSectors ELSE pool
Take(f) ==
  /\ At(f, "walk") /\ op[f].cur = EOC
  /\ IF Refilled = <<>>
     THEN Finish(f) /\ UNCHANGED pool
     ELSE Step(f, "taken", Head(Refilled), op[f].prev) /\ pool' = Tail(Refilled)
  /\ UNCHANGED <<cacheVars, used, mounted, chain>>

\* ... becomes the end of a chain.
Mark(f) ==
  /\ At(f, "taken")
  /\ SetSectorEntryValue(op[f].cur, EOC)
  /\ Step(f, "marked", op[f].cur, op[f].prev)
  /\ UNCHANGED <<pool, mounted, chain>>

FaultyLink(f) ==                 \* forgets the link from the previous sector
  /\ At(f, "marked")
  /\ chain' = [chain EXCEPT ![f] = Append(@, op[f].cur)]
  /\ Finish(f)
  /\ UNCHANGED <<cacheVars, used, pool, mounted>>
Link(f) ==
  LET s == op[f].cur IN
  /\ At(f, "marked")
  /\ IF chain[f] = <<>> THEN UNCHANGED <<cacheVars, used>>
     ELSE SetSectorEntryValue(op[f].prev, s)
  /\ chain' = [chain EXCEPT ![f] = Append(@, s)]
  /\ Step(f, "walk", EOC, s) \/ Finish(f)
  /\ UNCHANGED <<pool, mounted>>

-----------------------------------------------------------------------------
(* Directory_Delete: frees the chain with FileSystem_DeAllocateSector.     *)

StartDelete(f) ==
  /\ CanStart(f) /\ chain[f] # <<>>
  /\ Step(f, "clear", Head(chain[f]), EOC)
  /\ UNCHANGED <<cacheVars, pool, used, mounted, chain>>

FaultyClear(f) ==                \* reads the next sector after the entry was cleared
  LET s == op[f].cur IN
  /\ At(f, "clear")
  /\ SetSectorEntryValue(s, 0)
  /\ Step(f, "cleared", s, EOC)
  /\ chain' = [chain EXCEPT ![f] = <<>>]
  /\ UNCHANGED <<pool, mounted>>
Clear(f) ==
  LET s == op[f].cur IN
  /\ At(f, "clear")
  /\ SetSectorEntryValue(s, 0)
  /\ Step(f, "cleared", s, Value(s))
  /\ chain' = [chain EXCEPT ![f] = IF @ # <<>> /\ Head(@) = s THEN Tail(@) ELSE @]
  /\ UNCHANGED <<pool, mounted>>

\* AddToFreePoolCache; a full queue refuses the sector.
PutBack(f) ==
  LET next == op[f].prev IN
  /\ At(f, "cleared")
  /\ pool' = IF Len(pool) < QueueSize THEN Append(pool, op[f].cur) ELSE pool
  /\ IF next = EOC THEN Finish(f) ELSE Step(f, "clear", next, EOC)
  /\ UNCHANGED <<cacheVars, used, mounted, chain>>

-----------------------------------------------------------------------------
Write(f) == StartWrite(f) \/ Walk(f) \/ Take(f) \/ Mark(f) \/ Link(f)
Delete(f) == StartDelete(f) \/ Clear(f) \/ PutBack(f)

Next == Mount \/ UnMount \/ Restart \/ \E f \in File : Write(f) \/ Delete(f)

Spec == Init /\ [][Next]_vars

-----------------------------------------------------------------------------
(* Properties                                                              *)

Elems(q) == {q[i] : i \in DOMAIN q}
Distinct(q) == \A i, j \in DOMAIN q : q[i] = q[j] => i = j
Pending == {op[f].cur : f \in {g \in File : At(g, "taken") \/ At(g, "marked")}}
Owned == (UNION {Elems(chain[f]) : f \in File}) \cup Pending

TypeOK ==
  /\ disk \in [Sector -> Entry] /\ sectorBlock \in [Sector -> Entry]
  /\ cached \subseteq Block /\ written \subseteq cached /\ Cardinality(cached) <= CacheSize
  /\ pool \in Seq(Sector) /\ Len(pool) <= QueueSize
  /\ used \in 0 .. NSectors /\ mounted \in BOOLEAN
  /\ chain \in [File -> Seq(Sector)] /\ op \in [File -> Op]

\* No sector has two owners: not two files, not a file and the pool, and
\* the pool offers none twice (AllocateSector after LoadFreeSectors).
NoDoubleAllocation ==
  /\ Distinct(pool) /\ Elems(pool) \cap (Owned \cup {0}) = {}
  /\ \A f, g \in File : f # g => Elems(chain[f]) \cap Elems(chain[g]) = {}
  /\ \A f \in File : Distinct(chain[f])
  /\ \A f \in File : At(f, "taken") \/ At(f, "marked") =>
       op[f].cur \notin UNION {Elems(chain[g]) : g \in File}

\* The table leads through the sectors of a file in the order it was given
\* them, however its blocks came and went in the cache.
ChainsIntact ==
  \A f \in File : op[f].pc \notin {"clear", "cleared"} =>
    \A i \in DOMAIN chain[f] :
      Value(chain[f][i]) = IF i = Len(chain[f]) THEN EOC ELSE chain[f][i + 1]

\* The used size the drive reports is that of the sectors the table holds,
\* the root's included (UpdateUsedSectors).
UsedExact == used = Cardinality({s \in Sector : Value(s) # 0})

\* No sector is lost: one that is not free belongs to a file, is about to,
\* or is the root's.
NothingLeaks ==
  {s \in Sector : Value(s) # 0} = {0} \cup (Owned \ {op[f].cur : f \in {g \in File : At(g, "taken")}})

\* All of it: the space of the drive is accounted for, sector by sector, in
\* the order of each file and in sum.
SpaceAccounted == TypeOK /\ ChainsIntact /\ UsedExact /\ NothingLeaks

\* No read of LoadFreeSectors goes over a cached block, whose entries on the
\* disk are old: so on a drive that was formatted since the machine started
\* and whose table fits the cache, but not after a restart.
ReadsMissCache == ~mounted \/ pool = <<>> => ReadBlocks \cap cached = {}

\* "No free sectors available on disk" is thrown only when that is true.
RefusesOnlyFull ==
  \A f \in File : At(f, "walk") /\ op[f].cur = EOC /\ op'[f].pc = "idle" =>
    \A s \in Sector : Value(s) # 0

\* An entry of the table changes only where it is set: eviction, flush,
\* unmounting and restart neither lose a change nor revive an old value.
OnlySetsChange ==
  [][\A s \in Sector : Value(s)' # Value(s) =>
       \E f \in File : \/ At(f, "taken") /\ op[f].cur = s /\ Value(s)' = EOC
                       \/ At(f, "marked") /\ op[f].prev = s /\ Value(s)' = op[f].cur
                       \/ At(f, "clear") /\ op[f].cur = s /\ Value(s)' = 0]_vars

\* The set of cached blocks is what the sorted vector of the code holds.
CacheVector == InOrder(cached)
Table == INSTANCE TableCache WITH blocks <- CacheVector

\* Every change of the cache is one the vector makes, with its binary
\* search, its eviction of the first block and its insertion (AddToTableCache),
\* and after each the search finds every cached block and the place of the others
\* (FSManager_BinarySearch).
CacheIsVector == Table!Spec /\ [][Table!SearchFindsMembers']_vars
=============================================================================
