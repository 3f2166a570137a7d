------------------------------ MODULE DiskCache ------------------------------
(***************************************************************************)
(* The write-back sector cache of a disk drive: Read, Write, the flush of  *)
(* the dirty list and UnMount's flush in drivers/DeviceDrive.cpp, the      *)
(* cache and its replacement list in drivers/DiskCache.cpp.                *)
(*                                                                         *)
(* A request is followed sector by sector, in the steps between which the  *)
(* process may be preempted or blocks on the device.  Read and the flush   *)
(* hold the drive mutex; Write does not.  Lists and the tree change in one *)
(* step each.  The rank of a sector (time since its last access over its   *)
(* hits) is abstracted: any sector on the release list may come first.     *)
(*                                                                         *)
(* A definition named Faulty... is the one after it with a single fault;   *)
(* no specification uses it, it shows what the properties would catch.     *)
(***************************************************************************)
EXTENDS Naturals, Sequences, FiniteSets

CONSTANTS
  Sector,     \* sector numbers of the drive
  Value,      \* what a sector may hold
  Slot,       \* buffers of _cacheValueMemPool
  Process,    \* processes that read and write, and may unmount
  Task,       \* the background tasks: DiskCache_TaskFlushCache
  Capacity,   \* MAX_CACHE_SECTORS
  MaxRelList, \* m_uiMaxRelListSize, a tenth of it
  Failures,   \* whether the device may fail a write of the flush
  NONE        \* no sector, buffer, value or owner

ASSUME CapacityAssumption ==
  /\ Capacity \in Nat \ {0} /\ MaxRelList \in 1 .. Capacity
  /\ IsFiniteSet(Slot) /\ Cardinality(Slot) >= Capacity
ASSUME SortAssumption == IsFiniteSet(Sector) /\ Process \cap Task = {} /\ Failures \in BOOLEAN

ASSUME NoneAssumption == NONE \notin Slot \cup Process \cup Task \cup Value \cup Sector

VARIABLES
  disk,       \* what the device holds
  slot,       \* _tree: the buffer of each cached sector
  mem,        \* the contents of the buffers
  dirty,      \* _dirtyCacheList
  enabled,    \* _bEnableDiskCache
  release,    \* m_mReleaseList, the sectors to replace first
  built,      \* m_bReleaseListBuilt
  driveMutex, \* owner of _driveMutex
  op          \* where each process stands in Read, Write or FlushDirtyCacheSectors

lfuVars == <<release, built>>
vars == <<disk, slot, mem, dirty, enabled, release, built, driveMutex, op>>

Idle == [pc |-> "idle", sector |-> NONE, value |-> NONE, slot |-> NONE]
Op == [pc: {"idle", "hit", "miss", "raw", "fill",
            "writeHit", "writeMiss", "writeRaw", "replace", "flush", "flushing"},
       sector: Sector \cup {NONE}, value: Value \cup {NONE}, slot: Slot \cup {NONE}]

Cached == {s \in Sector : slot[s] # NONE}
DirtySectors == {dirty[i].sector : i \in DOMAIN dirty}
Used == {slot[s] : s \in Cached}
Full == Cardinality(Cached) >= Capacity
Clean == Cached \ DirtySectors
Count(l, s) == Cardinality({i \in DOMAIN l : l[i] = s})

Init ==
  /\ disk \in [Sector -> Value]
  /\ slot = [s \in Sector |-> NONE]
  /\ mem \in {[b \in Slot |-> v] : v \in Value}
  /\ dirty = <<>>
  /\ enabled = TRUE
  /\ release = <<>> /\ built = FALSE
  /\ driveMutex = NONE
  /\ op = [p \in Process \cup Task |-> Idle]

-----------------------------------------------------------------------------
(* The cache.                                                              *)

FaultyAdd(s, v, b) ==
  /\ b \in Slot
  /\ mem' = [mem EXCEPT ![b] = v]
  /\ slot' = [slot EXCEPT ![s] = b]
\* DiskCache::Add: a buffer from the pool; BTree::Insert refuses a sector
\* that is in the tree.
Add(s, v, b) ==
  /\ b \in Slot \ Used
  /\ mem' = [mem EXCEPT ![b] = v]
  /\ slot' = [slot EXCEPT ![s] = b]

FaultyInsertToDirtyList(s, b) == Append(dirty, [sector |-> s, slot |-> b])
InsertToDirtyList(s, b) ==
  IF s \in DirtySectors THEN dirty ELSE Append(dirty, [sector |-> s, slot |-> b])

FaultyListSize == Len(release) + Cardinality(Clean)
ListSize == LET n == Len(release) + Cardinality(Clean)
            IN IF n < MaxRelList THEN n ELSE MaxRelList

\* LFUSectorManager::Run: adds the clean sectors to what is on the list.
Run ==
  /\ Full /\ ~built /\ Clean # {}
  /\ release' \in {l \in [1 .. ListSize -> Sector] :
                    \A s \in Sector : Count(l, s) <= Count(release, s)
                                                     + IF s \in Clean THEN 1 ELSE 0}
  /\ built' = (ListSize = MaxRelList)
  /\ UNCHANGED <<disk, slot, mem, dirty, enabled, driveMutex, op>>

\* LFUSectorManager::ReplaceCache puts s in the place of the first sector of
\* the list that is not dirty; it fails when that sector is not in the tree
\* any more, or s already is.
FaultySkipped == {}
Skipped == {i \in DOMAIN release : \A j \in 1 .. i : release[j] \in DirtySectors}
Rest == SubSeq(release, Cardinality(Skipped) + 1, Len(release))

NotReplaced ==
  /\ ~built \/ Rest = <<>>
  /\ built' = FALSE
  /\ release' = IF built THEN <<>> ELSE release
  /\ UNCHANGED <<slot, mem, enabled>>
Replaced(s, v, b) ==
  LET victim == Head(Rest) IN
  /\ built /\ Rest # <<>>
  /\ slot[victim] # NONE /\ s \in {victim} \cup (Sector \ Cached)
  /\ b \in (Slot \ Used) \cup {slot[victim]}
  /\ slot' = [slot EXCEPT ![victim] = NONE, ![s] = b]
  /\ mem' = [mem EXCEPT ![b] = v]
  /\ release' = Tail(Rest)
  /\ built' = (Tail(Rest) # <<>>)
  /\ UNCHANGED enabled
ReplaceFails(s) ==
  LET victim == Head(Rest) IN
  /\ built /\ Rest # <<>>
  /\ slot[victim] = NONE \/ s \in Cached \ {victim}
  /\ slot' = [slot EXCEPT ![victim] = NONE]
  /\ release' = Tail(Rest)
  /\ enabled' = FALSE
  /\ UNCHANGED <<mem, built>>
ReplaceReturnsTrue(s, v) == NotReplaced \/ \E b \in Slot : Replaced(s, v, b)

-----------------------------------------------------------------------------
(* DiskDrive::Read of one sector, under the drive mutex.                   *)

At(p, pc) == op[p].pc = pc
Done(p) == op' = [op EXCEPT ![p] = Idle]
Unlock == driveMutex' = NONE

FaultyStartRead(p, s) ==         \* does not look into the cache
  /\ At(p, "idle") /\ driveMutex = NONE
  /\ driveMutex' = p
  /\ op' = [op EXCEPT ![p] = [Idle EXCEPT !.pc = "miss", !.sector = s]]
  /\ UNCHANGED <<disk, slot, mem, dirty, enabled, lfuVars>>
StartRead(p, s) ==
  /\ At(p, "idle") /\ driveMutex = NONE
  /\ driveMutex' = p
  /\ op' = [op EXCEPT ![p] =
       [pc |-> IF ~enabled THEN "raw" ELSE IF s \in Cached THEN "hit" ELSE "miss",
        sector |-> s, value |-> NONE, slot |-> IF enabled THEN slot[s] ELSE NONE]]
  /\ UNCHANGED <<disk, slot, mem, dirty, enabled, lfuVars>>

ReadHit(p) ==
  /\ At(p, "hit") /\ Done(p) /\ Unlock
  /\ UNCHANGED <<disk, slot, mem, dirty, enabled, lfuVars>>

\* A read that found the cache disabled ends here, as does one that fails:
\* the error is thrown to the caller, past the mutex guard.
RawRead(p) ==
  /\ \/ /\ At(p, "miss")
        /\ op' = [op EXCEPT ![p].pc = "fill", ![p].value = disk[op[p].sector]]
        /\ UNCHANGED driveMutex
     \/ /\ At(p, "raw") \/ (At(p, "miss") /\ Failures)
        /\ Done(p) /\ Unlock
  /\ UNCHANGED <<disk, slot, mem, dirty, enabled, lfuVars>>

Fill(p) ==
  LET s == op[p].sector
      v == op[p].value
  IN
  /\ At(p, "fill") /\ Done(p) /\ Unlock
  /\ \/ Full /\ (ReplaceReturnsTrue(s, v) \/ ReplaceFails(s))
     \/ ~Full /\ s \notin Cached
        /\ (\E b \in Slot : Add(s, v, b)) /\ UNCHANGED <<enabled, lfuVars>>
     \/ ~Full /\ s \in Cached
        /\ enabled' = FALSE /\ UNCHANGED <<slot, mem, lfuVars>>
  /\ UNCHANGED <<disk, dirty>>

\* What a read that ends in this step returns.
Returned(p) == CASE At(p, "hit") -> mem[op[p].slot]
                 [] At(p, "raw") -> disk[op[p].sector]
                 [] OTHER -> op[p].value

-----------------------------------------------------------------------------
(* DiskDrive::Write of one sector, without the mutex.                      *)

StartWrite(p, s, v) ==
  /\ At(p, "idle")
  /\ op' = [op EXCEPT ![p] =
       [pc |-> IF ~enabled THEN "writeRaw"
               ELSE IF s \in Cached THEN "writeHit" ELSE "writeMiss",
        sector |-> s, value |-> v, slot |-> IF enabled THEN slot[s] ELSE NONE]]
  /\ UNCHANGED <<disk, slot, mem, dirty, enabled, lfuVars, driveMutex>>

FaultyWriteHit(p) ==             \* does not mark the sector dirty
  /\ At(p, "writeHit") /\ Done(p)
  /\ mem' = [mem EXCEPT ![op[p].slot] = op[p].value]
  /\ UNCHANGED <<disk, slot, dirty, enabled, lfuVars, driveMutex>>
WriteHit(p) ==
  /\ At(p, "writeHit") /\ Done(p)
  /\ mem' = [mem EXCEPT ![op[p].slot] = op[p].value]
  /\ dirty' = InsertToDirtyList(op[p].sector, op[p].slot)
  /\ UNCHANGED <<disk, slot, enabled, lfuVars, driveMutex>>

WriteMiss(p) ==
  LET s == op[p].sector
      v == op[p].value
  IN
  /\ \/ /\ At(p, "writeMiss") /\ ~Full /\ s \notin Cached /\ Done(p)
        /\ \E b \in Slot : Add(s, v, b) /\ dirty' = InsertToDirtyList(s, b)
        /\ UNCHANGED <<disk, enabled>>
     \/ /\ At(p, "writeMiss") /\ ~Full /\ s \in Cached /\ Done(p)
        /\ enabled' = FALSE
        /\ UNCHANGED <<disk, slot, mem, dirty>>
     \/ /\ At(p, "writeMiss") /\ Full
        /\ disk' = [disk EXCEPT ![s] = v]
        /\ op' = [op EXCEPT ![p].pc = "replace"]
        /\ UNCHANGED <<slot, mem, dirty, enabled>>
     \/ /\ At(p, "writeRaw") /\ Done(p)
        /\ disk' = [disk EXCEPT ![s] = v]
        /\ UNCHANGED <<slot, mem, dirty, enabled>>
     \/ /\ Failures /\ (At(p, "writeRaw") \/ (At(p, "writeMiss") /\ Full)) /\ Done(p)
        /\ UNCHANGED <<disk, slot, mem, dirty, enabled>>
  /\ UNCHANGED <<lfuVars, driveMutex>>

\* A replacement that fails is followed by the same raw write once more.
WriteReplace(p) ==
  /\ At(p, "replace") /\ Done(p)
  /\ \/ ReplaceReturnsTrue(op[p].sector, op[p].value) /\ UNCHANGED disk
     \/ ReplaceFails(op[p].sector) /\ disk' = [disk EXCEPT ![op[p].sector] = op[p].value]
  /\ UNCHANGED <<dirty, driveMutex>>

-----------------------------------------------------------------------------
(* FlushDirtyCacheSectors, by the flush task or by UnMount.                *)

StartFlush(p) ==
  /\ At(p, "idle") /\ enabled /\ driveMutex = NONE /\ dirty # <<>>
  /\ driveMutex' = p
  /\ op' = [op EXCEPT ![p].pc = "flush"]
  /\ UNCHANGED <<disk, slot, mem, dirty, enabled, lfuVars>>

\* DiskCache::Get.
Get(p) ==
  /\ At(p, "flush") /\ dirty # <<>>
  /\ dirty' = Tail(dirty)
  /\ op' = [op EXCEPT ![p] = [pc |-> "flushing", sector |-> Head(dirty).sector,
                              value |-> NONE, slot |-> Head(dirty).slot]]
  /\ UNCHANGED <<disk, slot, mem, enabled, lfuVars, driveMutex>>

FaultyFlushSector(p) ==          \* returns after one sector with the mutex held
  /\ At(p, "flushing") /\ Done(p)
  /\ disk' = [disk EXCEPT ![op[p].sector] = mem[op[p].slot]]
  /\ UNCHANGED <<slot, mem, dirty, enabled, lfuVars, driveMutex>>
\* The device takes the contents of the buffer.
FlushSector(p) ==
  /\ At(p, "flushing")
  /\ \/ /\ disk' = [disk EXCEPT ![op[p].sector] = mem[op[p].slot]]
        /\ op' = [op EXCEPT ![p] = [Idle EXCEPT !.pc = "flush"]]
        /\ UNCHANGED driveMutex
     \/ Failures /\ Done(p) /\ Unlock /\ UNCHANGED disk
  /\ UNCHANGED <<slot, mem, dirty, enabled, lfuVars>>

\* The list is empty, or the task has flushed its ten sectors.
EndFlush(p) ==
  /\ At(p, "flush") /\ (dirty = <<>> \/ p \in Task)
  /\ Done(p) /\ Unlock
  /\ UNCHANGED <<disk, slot, mem, dirty, enabled, lfuVars>>

-----------------------------------------------------------------------------
Read(p) == (\E s \in Sector : StartRead(p, s)) \/ ReadHit(p) \/ RawRead(p) \/ Fill(p)
Write(p) == (\E s \in Sector, v \in Value : StartWrite(p, s, v))
            \/ WriteHit(p) \/ WriteMiss(p) \/ WriteReplace(p)
Flush(p) == StartFlush(p) \/ Get(p) \/ FlushSector(p) \/ EndFlush(p)

Next ==
  \/ \E p \in Process : Read(p) \/ Write(p)
  \/ \E p \in Process \cup Task : Flush(p)
  \/ Run

\* The scheduler runs every process, the device answers, and DiskCache_TaskFlushCache never ends.
Fairness ==
  /\ \A p \in Process : WF_vars(ReadHit(p) \/ RawRead(p) \/ Fill(p))
                        /\ WF_vars(WriteHit(p) \/ WriteMiss(p) \/ WriteReplace(p))
  /\ \A p \in Process \cup Task : WF_vars(Get(p) \/ FlushSector(p) \/ EndFlush(p))
  /\ \A p \in Task : SF_vars(StartFlush(p)) /\ SF_vars(Get(p))

Spec == Init /\ [][Next]_vars
FairSpec == Spec /\ Fairness

-----------------------------------------------------------------------------
(* Properties                                                              *)

TypeOK ==
  /\ disk \in [Sector -> Value]
  /\ slot \in [Sector -> Slot \cup {NONE}]
  /\ mem \in [Slot -> Value]
  /\ dirty \in Seq([sector: Sector, slot: Slot])
  /\ enabled \in BOOLEAN /\ built \in BOOLEAN
  /\ release \in Seq(Sector) /\ Len(release) <= MaxRelList
  /\ driveMutex \in Process \cup Task \cup {NONE}
  /\ op \in [Process \cup Task -> Op]

\* No two sectors share a buffer and the cache keeps to its capacity,
\* whatever readers, writers and the replacement do at the same time.
BuffersDisjoint ==
  /\ \A s, t \in Cached : slot[s] = slot[t] => s = t
  /\ Cardinality(Cached) <= Capacity

\* An entry of the dirty list points to the buffer its sector is cached in:
\* the flush never writes the contents of another sector or of a free
\* buffer because of a stale entry (SecKeyCacheValue::m_pSectorBuffer).
DirtyPointsIntoCache ==
  /\ \A i \in DOMAIN dirty : slot[dirty[i].sector] = dirty[i].slot
  /\ \A i, j \in DOMAIN dirty : dirty[i].sector = dirty[j].sector => i = j

\* The mutex is held exactly by a process inside Read or the flush.
MutexHeldInside ==
  \A p \in Process \cup Task :
    (driveMutex = p) <=> op[p].pc \in {"hit", "miss", "raw", "fill", "flush", "flushing"}

Flushing(s) == \E p \in Process \cup Task : At(p, "flushing") /\ op[p].sector = s
\* No write is lost while the cache is enabled: a cached sector that differs
\* from the disk is on the dirty list or being flushed, and what the list has
\* for it is its buffer.
NoWriteLost ==
  /\ DirtyPointsIntoCache
  /\ enabled => \A s \in Cached : mem[slot[s]] # disk[s] => s \in DirtySectors \/ Flushing(s)

\* What a process may rely on: the contents of a sector are those of its
\* buffer, or of the disk when it is not cached.
Contents(s) == IF enabled /\ s \in Cached THEN mem[slot[s]] ELSE disk[s]
Writing(p, s) == op[p].sector = s /\ op[p].pc \in {"writeHit", "writeMiss", "writeRaw", "replace"}

\* Only a write of a sector changes what it holds, and to the written value:
\* not a read of it, a flush, nor the replacement of a cached sector.  The
\* step that disables the cache may change every dirty sector: nobody
\* flushes it any more.
OnlyWritesChange ==
  [][enabled' = enabled =>
       \A s \in Sector : Contents(s)' # Contents(s) =>
         \E p \in Process : Writing(p, s) /\ Contents(s)' = op[p].value]_vars

\* A read returns what the sector holds when it ends.
ReadsReturnContents ==
  [][\A p \in Process : op[p].pc \in {"hit", "raw", "fill"} /\ op'[p].pc = "idle" =>
       Returned(p) = Contents(op[p].sector)]_vars

\* Both: a drive with its cache is a memory of sectors, until the cache is
\* disabled and from then on.
ActsAsMemory == OnlyWritesChange /\ ReadsReturnContents

\* Every sector on the dirty list is eventually taken by a flush, as long as
\* the cache stays enabled.
DirtyIsFlushed == \A s \in Sector : (s \in DirtySectors) ~> (Flushing(s) \/ ~enabled)
=============================================================================
