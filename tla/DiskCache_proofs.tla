--------------------------- MODULE DiskCache_proofs ---------------------------
(***************************************************************************)
(* Proofs about DiskCache for any drive, capacity and number of processes: *)
(* its type invariant, the ownership of buffers and that of the mutex.     *)
(***************************************************************************)
EXTENDS DiskCache, ListLemmas, FiniteSetTheorems

Actor == Process \cup Task

\* What an operation needs is in its record by the time it needs it.
OpInv ==
  \A p \in Actor :
    /\ op[p].pc \notin {"idle", "flush"} => op[p].sector \in Sector
    /\ op[p].pc \in {"fill", "writeHit", "writeMiss", "writeRaw", "replace"} =>
         op[p].value \in Value
    /\ op[p].pc \in {"writeHit", "flushing"} => op[p].slot \in Slot

\* The two halves of the invariant: what the cache holds, and who is where.
CacheInv ==
  /\ slot \in [Sector -> Slot \cup {NONE}]
  /\ mem \in [Slot -> Value]
  /\ enabled \in BOOLEAN /\ built \in BOOLEAN
  /\ release \in Seq(Sector) /\ Len(release) <= MaxRelList
  /\ BuffersDisjoint
QueueInv == disk \in [Sector -> Value] /\ dirty \in Seq([sector: Sector, slot: Slot])
OpsInv ==
  /\ driveMutex \in Actor \cup {NONE} /\ op \in [Actor -> Op]
  /\ MutexHeldInside /\ OpInv
IInv == CacheInv /\ QueueInv /\ OpsInv

cacheVars == <<slot, mem, enabled, release, built>>

-----------------------------------------------------------------------------
(* The cache.                                                              *)

LEMMA CachedFinite ==
  \A S \in SUBSET Sector : IsFiniteSet(S) /\ Cardinality(S) \in Nat
BY SortAssumption, FS_Subset, FS_CardinalityType

LEMMA EmptyList == <<>> \in Seq(Sector) /\ Len(<<>>) <= MaxRelList
<1>1. Len(<<>>) = 0 /\ MaxRelList \in Nat
  BY CapacityAssumption
<1> QED
  BY <1>1

\* What is left of the release list is a list of sectors, and no longer.
LEMMA RestType ==
  ASSUME release \in Seq(Sector)
  PROVE  Rest \in Seq(Sector) /\ Len(Rest) <= Len(release)
<1>1. Skipped \subseteq 1 .. Len(release) /\ Len(release) \in Nat
  BY DEF Skipped
<1>2. Cardinality(Skipped) \in Nat
  <2>1. IsFiniteSet(1 .. Len(release))
    BY <1>1, FS_Interval
  <2>2. IsFiniteSet(Skipped)
    BY <1>1, <2>1, FS_Subset
  <2> QED
    BY <2>2, FS_CardinalityType
<1> DEFINE k == Cardinality(Skipped) + 1
<1>3. k \in Nat /\ k >= 1 /\ \A i \in k .. Len(release) : release[i] \in Sector
  BY <1>1, <1>2
<1> HIDE DEF k
<1>4. /\ SubSeq(release, k, Len(release)) \in Seq(Sector)
      /\ Len(SubSeq(release, k, Len(release)))
           = IF k <= Len(release) THEN Len(release) - k + 1 ELSE 0
  BY <1>1, <1>3, SubSeqProperties
<1>5. Rest = SubSeq(release, k, Len(release))
  BY DEF Rest, k
<1> QED
  BY <1>1, <1>3, <1>4, <1>5

LEMMA TailType ==
  ASSUME release \in Seq(Sector), Rest # <<>>
  PROVE  Head(Rest) \in Sector /\ Tail(Rest) \in Seq(Sector) /\ Len(Tail(Rest)) <= Len(release)
BY RestType

\* DiskCache::Add keeps to a free buffer and to the capacity.
LEMMA AddStep ==
  ASSUME CacheInv, NEW s \in Sector, NEW v \in Value, NEW b \in Slot,
         Add(s, v, b), ~Full, s \notin Cached, enabled' \in BOOLEAN, UNCHANGED lfuVars
  PROVE  CacheInv'
<1>1. Cached' = Cached \cup {s}
  BY NoneAssumption DEF Add, Cached, CacheInv
<1>2. Cardinality(Cached') = Cardinality(Cached) + 1 /\ Cardinality(Cached) \in Nat
  BY <1>1, CachedFinite, FS_AddElement DEF Cached
<1>3. Cardinality(Cached') <= Capacity
  BY <1>2, CapacityAssumption DEF Full
<1>4. \A x, y \in Cached' : slot'[x] = slot'[y] => x = y
  BY <1>1 DEF Add, CacheInv, BuffersDisjoint, Used
<1> QED
  BY <1>3, <1>4 DEF CacheInv, BuffersDisjoint, Add, lfuVars

LEMMA ReplaceStep ==
  ASSUME CacheInv, NEW s \in Sector, NEW v \in Value, ReplaceReturnsTrue(s, v)
  PROVE  CacheInv'
<1>1. CASE NotReplaced
  <2>1. Cached' = Cached
    BY <1>1 DEF NotReplaced, Cached
  <2>2. release' \in Seq(Sector) /\ Len(release') <= MaxRelList /\ built' \in BOOLEAN
    <3>2. (release' = release \/ release' = <<>>) /\ built' = FALSE
      BY <1>1 DEF NotReplaced
    <3>3. release \in Seq(Sector) /\ Len(release) <= MaxRelList
      BY DEF CacheInv
    <3>4. CASE release' = release
      BY <3>2, <3>3, <3>4
    <3>5. CASE release' = <<>>
      BY <3>2, <3>5, EmptyList
    <3> QED
      BY <3>2, <3>4, <3>5
  <2>3. slot' = slot /\ mem' = mem /\ enabled' = enabled
    BY <1>1 DEF NotReplaced
  <2>4. BuffersDisjoint'
    BY <2>1, <2>3 DEF CacheInv, BuffersDisjoint
  <2> QED
    BY <2>2, <2>3, <2>4 DEF CacheInv
<1>2. ASSUME NEW b \in Slot, Replaced(s, v, b) PROVE CacheInv'
  <2> DEFINE victim == Head(Rest)
  <2>1. /\ victim \in Sector /\ Tail(Rest) \in Seq(Sector) /\ Len(Tail(Rest)) <= Len(release)
        /\ Len(Tail(Rest)) \in Nat /\ Len(release) \in Nat
    BY <1>2, TailType DEF Replaced, CacheInv
  <2>2. /\ victim \in Cached /\ (s = victim \/ s \notin Cached)
        /\ slot' = [slot EXCEPT ![victim] = NONE, ![s] = b]
        /\ mem' = [mem EXCEPT ![b] = v]
        /\ b \in Slot \ Used \/ b = slot[victim]
        /\ release' = Tail(Rest) /\ built' \in BOOLEAN /\ enabled' = enabled
    BY <1>2, <2>1 DEF Replaced, Cached
  <2> HIDE DEF victim
  <2>3. Cached' = (Cached \ {victim}) \cup {s}
    BY <2>1, <2>2, NoneAssumption DEF Cached, CacheInv
  <2>4. /\ Cardinality(Cached \ {victim}) = Cardinality(Cached) - 1
        /\ IsFiniteSet(Cached \ {victim}) /\ Cardinality(Cached) \in Nat
    BY <2>2, CachedFinite, FS_RemoveElement DEF Cached
  <2>5. Cardinality(Cached') = Cardinality(Cached)
    <3>1. s \notin Cached \ {victim}
      BY <2>2
    <3>2. Cardinality((Cached \ {victim}) \cup {s}) = Cardinality(Cached \ {victim}) + 1
      BY <2>4, <3>1, FS_AddElement
    <3> QED
      BY <2>3, <2>4, <3>2
  <2>6. \A x, y \in Cached' : slot'[x] = slot'[y] => x = y
    BY <2>1, <2>2, <2>3 DEF CacheInv, BuffersDisjoint, Used, Cached
  <2>7. BuffersDisjoint'
    BY <2>5, <2>6 DEF CacheInv, BuffersDisjoint
  <2>8. slot' \in [Sector -> Slot \cup {NONE}] /\ mem' \in [Slot -> Value]
    BY <2>2 DEF CacheInv
  <2>9. release' \in Seq(Sector) /\ Len(release') <= MaxRelList
    BY <2>1, <2>2, CapacityAssumption DEF CacheInv
  <2> QED
    BY <2>2, <2>7, <2>8, <2>9 DEF CacheInv
<1> QED
  BY <1>1, <1>2 DEF ReplaceReturnsTrue

LEMMA ReplaceFailsStep ==
  ASSUME CacheInv, NEW s \in Sector, ReplaceFails(s)
  PROVE  CacheInv'
<1> DEFINE victim == Head(Rest)
<1>1. /\ victim \in Sector /\ Tail(Rest) \in Seq(Sector) /\ Len(Tail(Rest)) <= Len(release)
      /\ Len(Tail(Rest)) \in Nat /\ Len(release) \in Nat
  BY TailType DEF ReplaceFails, CacheInv
<1>2. /\ slot' = [slot EXCEPT ![victim] = NONE]
      /\ release' = Tail(Rest) /\ enabled' = FALSE /\ UNCHANGED <<mem, built>>
  BY DEF ReplaceFails
<1> HIDE DEF victim
<1>3. Cached' = Cached \ {victim} /\ \A x \in Cached' : slot'[x] = slot[x]
  BY <1>1, <1>2 DEF Cached, CacheInv
<1>4. Cardinality(Cached') <= Cardinality(Cached) /\ Cardinality(Cached') \in Nat
      /\ Cardinality(Cached) \in Nat
  BY <1>3, CachedFinite, FS_Subset DEF Cached
<1>5. BuffersDisjoint'
  BY <1>3, <1>4, CapacityAssumption DEF CacheInv, BuffersDisjoint
<1>6. Len(release') <= MaxRelList
  BY <1>1, <1>2, CapacityAssumption DEF CacheInv
<1> QED
  BY <1>1, <1>2, <1>5, <1>6 DEF CacheInv

LEMMA RunStep == CacheInv /\ Run => CacheInv'
<1> SUFFICES ASSUME CacheInv, Run PROVE CacheInv'
  OBVIOUS
<1>1. Len(release) \in Nat /\ Cardinality(Clean) \in Nat
  BY CachedFinite DEF Clean, Cached, CacheInv
<1>2. ListSize \in Nat /\ ListSize <= MaxRelList
  BY <1>1, CapacityAssumption DEF ListSize
<1>3. release' \in [1 .. ListSize -> Sector] /\ built' \in BOOLEAN
  BY DEF Run
<1>4. release' \in Seq(Sector) /\ Len(release') = ListSize
  BY <1>2, <1>3
<1>5. Cached' = Cached /\ UNCHANGED <<slot, mem, enabled>>
  BY DEF Run, Cached
<1> QED
  BY <1>2, <1>3, <1>4, <1>5 DEF CacheInv, BuffersDisjoint

LEMMA CacheUnchanged == CacheInv /\ UNCHANGED cacheVars => CacheInv'
BY DEF CacheInv, cacheVars, BuffersDisjoint, Cached

LEMMA CacheDisabled ==
  ASSUME CacheInv, enabled' = FALSE, UNCHANGED <<slot, mem, release, built>>
  PROVE  CacheInv'
<1>1. Cached' = Cached
  BY DEF Cached
<1>2. BuffersDisjoint'
  BY <1>1 DEF CacheInv, BuffersDisjoint
<1> QED
  BY <1>2 DEF CacheInv

LEMMA WriteHitCache ==
  ASSUME CacheInv, NEW b \in Slot, NEW v \in Value, mem' = [mem EXCEPT ![b] = v],
         UNCHANGED <<slot, enabled, release, built>>
  PROVE  CacheInv'
BY DEF CacheInv, BuffersDisjoint, Cached

LEMMA InsertType ==
  ASSUME QueueInv, NEW s \in Sector, NEW b \in Slot
  PROVE  InsertToDirtyList(s, b) \in Seq([sector: Sector, slot: Slot])
<1>1. [sector |-> s, slot |-> b] \in [sector: Sector, slot: Slot]
  OBVIOUS
<1> DEFINE E == [sector: Sector, slot: Slot]
<1>2. \A q \in Seq(E), e \in E : Append(q, e) \in Seq(E)
  <2> HIDE DEF E
  <2> QED
    OBVIOUS
<1> QED
  BY <1>1, <1>2 DEF InsertToDirtyList, QueueInv
-----------------------------------------------------------------------------
(* The operations.                                                         *)

\* A step of one actor that leaves the others alone keeps OpsInv when it
\* keeps it for the actor.
LEMMA OpStep ==
  ASSUME OpsInv, NEW p \in Actor, NEW r \in Op, op' = [op EXCEPT ![p] = r],
         r.pc \notin {"idle", "flush"} => r.sector \in Sector,
         r.pc \in {"fill", "writeHit", "writeMiss", "writeRaw", "replace"} => r.value \in Value,
         r.pc \in {"writeHit", "flushing"} => r.slot \in Slot,
         \/ /\ UNCHANGED driveMutex
            /\ r.pc \in {"hit", "miss", "raw", "fill", "flush", "flushing"}
                 <=> op[p].pc \in {"hit", "miss", "raw", "fill", "flush", "flushing"}
         \/ /\ driveMutex = NONE /\ driveMutex' = p
            /\ r.pc \in {"hit", "miss", "raw", "fill", "flush", "flushing"}
         \/ /\ driveMutex = p /\ driveMutex' = NONE
            /\ r.pc \notin {"hit", "miss", "raw", "fill", "flush", "flushing"}
  PROVE  OpsInv'
<1>1. NONE \notin Actor
  BY NoneAssumption DEF Actor
<1>2. op' \in [Actor -> Op] /\ op'[p] = r /\ \A q \in Actor : q # p => op'[q] = op[q]
  BY DEF OpsInv
<1>3. driveMutex' \in Actor \cup {NONE}
  BY DEF OpsInv
<1>4. OpInv'
  BY <1>2 DEF OpsInv, OpInv
<1>5. MutexHeldInside'
  BY <1>1, <1>2 DEF OpsInv, MutexHeldInside, Actor
<1> QED
  BY <1>2, <1>3, <1>4, <1>5 DEF OpsInv

LEMMA IdleOp == Idle \in Op /\ Idle.pc = "idle"
BY DEF Idle, Op

LEMMA OpsUnchanged == OpsInv /\ UNCHANGED <<op, driveMutex>> => OpsInv'
BY DEF OpsInv, OpInv, MutexHeldInside

\* The operation ends, and with it the hold of the mutex if it had it.
LEMMA DoneStep ==
  ASSUME OpsInv, NEW p \in Actor, Done(p),
         \/ /\ UNCHANGED driveMutex
            /\ op[p].pc \notin {"hit", "miss", "raw", "fill", "flush", "flushing"}
         \/ /\ driveMutex' = NONE
            /\ op[p].pc \in {"hit", "miss", "raw", "fill", "flush", "flushing"}
  PROVE  OpsInv'
<1>1. op' = [op EXCEPT ![p] = Idle]
  BY DEF Done
<1>2. driveMutex' = NONE => driveMutex = p \/ UNCHANGED driveMutex
  BY DEF OpsInv, MutexHeldInside, Actor
<1>3. CASE /\ UNCHANGED driveMutex
           /\ op[p].pc \notin {"hit", "miss", "raw", "fill", "flush", "flushing"}
  BY <1>1, <1>3, IdleOp, OpStep
<1>4. CASE /\ driveMutex' = NONE
           /\ op[p].pc \in {"hit", "miss", "raw", "fill", "flush", "flushing"}
  <2>1. driveMutex = p
    BY <1>4 DEF OpsInv, MutexHeldInside, Actor
  <2> QED
    BY <1>1, <1>4, <2>1, IdleOp, OpStep
<1> QED
  BY <1>3, <1>4

LEMMA InitIInv == Init => IInv
<1> SUFFICES ASSUME Init PROVE IInv
  OBVIOUS
<1>1. Cached = {} /\ Cardinality(Cached) = 0
  BY FS_EmptySet DEF Init, Cached
<1>2. CacheInv
  <2>1. \E v \in Value : mem = [b \in Slot |-> v]
    BY DEF Init
  <2>2. release \in Seq(Sector) /\ Len(release) <= MaxRelList
    BY EmptyList DEF Init
  <2>3. BuffersDisjoint
    BY <1>1, CapacityAssumption DEF BuffersDisjoint
  <2>4. slot \in [Sector -> Slot \cup {NONE}] /\ mem \in [Slot -> Value]
    BY <2>1 DEF Init
  <2> QED
    BY <2>2, <2>3, <2>4 DEF Init, CacheInv
<1>3. QueueInv
  BY DEF Init, QueueInv
<1>4. OpsInv
  BY IdleOp, NoneAssumption DEF Init, OpsInv, OpInv, MutexHeldInside, Actor, Idle
<1> QED
  BY <1>2, <1>3, <1>4 DEF IInv
LEMMA ReadStep ==
  ASSUME IInv, NEW p \in Process, Read(p)
  PROVE  IInv'
<1> p \in Actor
  BY DEF Actor
<1>0. op[p] \in Op /\ OpsInv /\ CacheInv /\ QueueInv
  BY DEF IInv, OpsInv
<1>1. ASSUME NEW s \in Sector, StartRead(p, s) PROVE IInv'
  <2> DEFINE r == [pc |-> IF ~enabled THEN "raw" ELSE IF s \in Cached THEN "hit" ELSE "miss",
                   sector |-> s, value |-> NONE, slot |-> IF enabled THEN slot[s] ELSE NONE]
  <2>1. r \in Op /\ r.pc \in {"raw", "hit", "miss"} /\ r.sector \in Sector
    BY <1>0 DEF Op, CacheInv
  <2>2. /\ op' = [op EXCEPT ![p] = r] /\ driveMutex = NONE /\ driveMutex' = p
        /\ UNCHANGED <<disk, dirty>> /\ UNCHANGED cacheVars
    BY <1>1 DEF StartRead, cacheVars, lfuVars
  <2> HIDE DEF r
  <2>3. OpsInv'
    BY <1>0, <2>1, <2>2, OpStep
  <2> QED
    BY <1>0, <2>2, <2>3, CacheUnchanged DEF IInv, QueueInv
<1>2. CASE ReadHit(p)
  <2>1. OpsInv'
    BY <1>0, <1>2, DoneStep DEF ReadHit, At, Unlock
  <2> QED
    BY <1>0, <1>2, <2>1, CacheUnchanged DEF ReadHit, IInv, QueueInv, cacheVars, lfuVars
<1>3. CASE RawRead(p)
  <2> DEFINE r == [op[p] EXCEPT !.pc = "fill", !.value = disk[op[p].sector]]
  <2>1. UNCHANGED <<disk, dirty>> /\ UNCHANGED cacheVars
    BY <1>3 DEF RawRead, cacheVars, lfuVars
  <2>2. ASSUME At(p, "miss"), op' = [op EXCEPT ![p] = r], UNCHANGED driveMutex PROVE OpsInv'
    <3>1. op[p].sector \in Sector /\ disk[op[p].sector] \in Value
      BY <1>0, <2>2 DEF At, OpsInv, OpInv, QueueInv
    <3>2. r \in Op /\ r.pc = "fill" /\ r.sector \in Sector /\ r.value \in Value
      BY <1>0, <3>1 DEF Op
    <3> HIDE DEF r
    <3> QED
      BY <1>0, <2>2, <3>2, OpStep DEF At
  <2>3. ASSUME At(p, "raw") \/ At(p, "miss"), Done(p), Unlock PROVE OpsInv'
    BY <1>0, <2>3, DoneStep DEF At, Unlock
  <2>4. OpsInv'
    BY <1>0, <1>3, <2>2, <2>3 DEF RawRead, OpsInv
  <2> QED
    BY <1>0, <2>1, <2>4, CacheUnchanged DEF IInv, QueueInv
<1>4. CASE Fill(p)
  <2>1. op[p].sector \in Sector /\ op[p].value \in Value
    BY <1>0, <1>4 DEF Fill, At, OpsInv, OpInv
  <2>2. OpsInv'
    BY <1>0, <1>4, DoneStep DEF Fill, At, Unlock
  <2> DEFINE s == op[p].sector
             v == op[p].value
  <2>3. \/ ReplaceReturnsTrue(s, v) \/ ReplaceFails(s)
        \/ /\ ~Full /\ s \notin Cached /\ enabled' = enabled /\ UNCHANGED lfuVars
           /\ \E b \in Slot : Add(s, v, b)
        \/ enabled' = FALSE /\ UNCHANGED <<slot, mem, release, built>>
    BY <1>4 DEF Fill, lfuVars
  <2> HIDE DEF s, v
  <2>4. CacheInv'
    <3>1. enabled \in BOOLEAN
      BY <1>0 DEF CacheInv
    <3> QED
      BY <1>0, <2>1, <2>3, <3>1, AddStep, ReplaceStep, ReplaceFailsStep, CacheDisabled DEF s, v
  <2> QED
    BY <1>0, <1>4, <2>2, <2>4 DEF Fill, IInv, QueueInv
<1> QED
  BY <1>1, <1>2, <1>3, <1>4 DEF Read

LEMMA WriteStep ==
  ASSUME IInv, NEW p \in Process, Write(p)
  PROVE  IInv'
<1> p \in Actor
  BY DEF Actor
<1>0. op[p] \in Op /\ OpsInv /\ CacheInv /\ QueueInv
  BY DEF IInv, OpsInv
<1>1. ASSUME NEW s \in Sector, NEW v \in Value, StartWrite(p, s, v) PROVE IInv'
  <2> DEFINE r == [pc |-> IF ~enabled THEN "writeRaw"
                          ELSE IF s \in Cached THEN "writeHit" ELSE "writeMiss",
                   sector |-> s, value |-> v, slot |-> IF enabled THEN slot[s] ELSE NONE]
  <2>1. /\ r \in Op /\ r.pc \in {"writeRaw", "writeHit", "writeMiss"}
        /\ r.sector \in Sector /\ r.value \in Value
        /\ r.pc = "writeHit" => r.slot \in Slot
    BY <1>0 DEF Op, CacheInv, Cached
  <2>2. /\ op' = [op EXCEPT ![p] = r] /\ op[p].pc = "idle" /\ UNCHANGED driveMutex
        /\ UNCHANGED <<disk, dirty>> /\ UNCHANGED cacheVars
    BY <1>1 DEF StartWrite, At, cacheVars, lfuVars
  <2> HIDE DEF r
  <2>3. OpsInv'
    BY <1>0, <2>1, <2>2, OpStep
  <2> QED
    BY <1>0, <2>2, <2>3, CacheUnchanged DEF IInv, QueueInv
<1>2. CASE WriteHit(p)
  <2>1. op[p].sector \in Sector /\ op[p].value \in Value /\ op[p].slot \in Slot
    BY <1>0, <1>2 DEF WriteHit, At, OpsInv, OpInv
  <2>2. OpsInv'
    BY <1>0, <1>2, DoneStep DEF WriteHit, At
  <2>3. CacheInv'
    BY <1>0, <1>2, <2>1, WriteHitCache DEF WriteHit, lfuVars
  <2>4. QueueInv'
    BY <1>0, <1>2, <2>1, InsertType DEF WriteHit, QueueInv
  <2> QED
    BY <2>2, <2>3, <2>4 DEF IInv
<1>3. CASE WriteMiss(p)
  <2> DEFINE s == op[p].sector
             v == op[p].value
             r == [op[p] EXCEPT !.pc = "replace"]
  <2>1. /\ s \in Sector /\ v \in Value /\ op[p].pc \in {"writeMiss", "writeRaw"}
        /\ [disk EXCEPT ![s] = v] \in [Sector -> Value]
    BY <1>0, <1>3 DEF WriteMiss, At, OpsInv, OpInv, QueueInv
  <2>2. r \in Op /\ r.pc = "replace" /\ r.sector \in Sector /\ r.value \in Value
    BY <1>0, <2>1 DEF Op
  <2>3. OpsInv'
    <3>1. op' = [op EXCEPT ![p] = r] \/ Done(p)
      BY <1>3 DEF WriteMiss
    <3>2. UNCHANGED driveMutex
      BY <1>3 DEF WriteMiss
    <3> HIDE DEF r
    <3> QED
      BY <1>0, <2>1, <2>2, <3>1, <3>2, OpStep, DoneStep
  <2>4. CacheInv' /\ QueueInv'
    <3>1. ASSUME ~Full, s \notin Cached, NEW b \in Slot, Add(s, v, b),
                 dirty' = InsertToDirtyList(s, b), UNCHANGED <<disk, enabled, lfuVars>>
          PROVE  CacheInv' /\ QueueInv'
      <4>1. CacheInv'
        BY <1>0, <2>1, <3>1, AddStep DEF CacheInv
      <4>2. QueueInv'
        BY <1>0, <2>1, <3>1, InsertType DEF QueueInv
      <4> QED
        BY <4>1, <4>2
    <3>2. ASSUME enabled' \in BOOLEAN, UNCHANGED <<slot, mem, dirty, lfuVars>>,
                 disk' = disk \/ disk' = [disk EXCEPT ![s] = v]
          PROVE  CacheInv' /\ QueueInv'
      BY <1>0, <2>1, <3>2 DEF CacheInv, BuffersDisjoint, Cached, QueueInv, lfuVars
    <3>3. enabled \in BOOLEAN
      BY <1>0 DEF CacheInv
    <3> QED
      BY <1>3, <3>1, <3>2, <3>3 DEF WriteMiss, Add
  <2> QED
    BY <2>3, <2>4 DEF IInv
<1>4. CASE WriteReplace(p)
  <2>1. op[p].sector \in Sector /\ op[p].value \in Value
    BY <1>0, <1>4 DEF WriteReplace, At, OpsInv, OpInv
  <2>2. OpsInv'
    BY <1>0, <1>4, DoneStep DEF WriteReplace, At
  <2>3. CacheInv'
    BY <1>0, <1>4, <2>1, ReplaceStep, ReplaceFailsStep DEF WriteReplace
  <2>4. QueueInv'
    BY <1>0, <1>4, <2>1 DEF WriteReplace, QueueInv
  <2> QED
    BY <2>2, <2>3, <2>4 DEF IInv
<1> QED
  BY <1>1, <1>2, <1>3, <1>4 DEF Write

LEMMA FlushStep ==
  ASSUME IInv, NEW p \in Actor, Flush(p)
  PROVE  IInv'
<1>0. op[p] \in Op /\ OpsInv /\ CacheInv /\ QueueInv
  BY DEF IInv, OpsInv
<1>1. UNCHANGED cacheVars
  BY DEF Flush, StartFlush, Get, FlushSector, EndFlush, cacheVars, lfuVars
<1>2. OpsInv' /\ QueueInv'
  <2>1. CASE StartFlush(p)
    <3> DEFINE r == [op[p] EXCEPT !.pc = "flush"]
    <3>1. r \in Op /\ r.pc = "flush"
      BY <1>0 DEF Op
    <3>2. op' = [op EXCEPT ![p] = r] /\ driveMutex = NONE /\ driveMutex' = p
      BY <2>1 DEF StartFlush
    <3> HIDE DEF r
    <3> QED
      BY <1>0, <2>1, <3>1, <3>2, OpStep DEF StartFlush, QueueInv
  <2>2. CASE Get(p)
    <3> DEFINE r == [pc |-> "flushing", sector |-> Head(dirty).sector,
                     value |-> NONE, slot |-> Head(dirty).slot]
               E == [sector: Sector, slot: Slot]
    <3>1. dirty \in Seq(E) /\ dirty # <<>> /\ dirty' = Tail(dirty) /\ UNCHANGED disk
      BY <1>0, <2>2 DEF Get, QueueInv
    <3>2. Head(dirty) \in E /\ dirty' \in Seq(E)
      <4> HIDE DEF E
      <4> QED
        BY <3>1
    <3>3. r \in Op /\ r.pc = "flushing" /\ r.sector \in Sector /\ r.slot \in Slot
      BY <3>2 DEF Op
    <3>4. op' = [op EXCEPT ![p] = r] /\ op[p].pc = "flush" /\ UNCHANGED driveMutex
      BY <2>2 DEF Get, At
    <3> HIDE DEF r
    <3>5. OpsInv'
      BY <1>0, <3>3, <3>4, OpStep
    <3> QED
      BY <1>0, <3>1, <3>2, <3>5 DEF QueueInv
  <2>3. CASE FlushSector(p)
    <3> DEFINE r == [Idle EXCEPT !.pc = "flush"]
    <3>1. op[p].sector \in Sector /\ op[p].slot \in Slot /\ op[p].pc = "flushing"
      BY <1>0, <2>3 DEF FlushSector, At, OpsInv, OpInv
    <3>2. disk' \in [Sector -> Value] /\ UNCHANGED dirty
      BY <1>0, <2>3, <3>1 DEF FlushSector, QueueInv, CacheInv
    <3>3. r \in Op /\ r.pc = "flush"
      BY DEF Idle, Op
    <3>4. \/ op' = [op EXCEPT ![p] = r] /\ UNCHANGED driveMutex
          \/ Done(p) /\ driveMutex' = NONE
      BY <2>3 DEF FlushSector, Unlock
    <3> HIDE DEF r
    <3>5. OpsInv'
      BY <1>0, <3>1, <3>3, <3>4, OpStep, DoneStep
    <3> QED
      BY <1>0, <3>2, <3>5 DEF QueueInv
  <2>4. CASE EndFlush(p)
    BY <1>0, <2>4, DoneStep DEF EndFlush, At, Unlock, QueueInv
  <2> QED
    BY <2>1, <2>2, <2>3, <2>4 DEF Flush
<1> QED
  BY <1>0, <1>1, <1>2, CacheUnchanged DEF IInv

LEMMA NextIInv == IInv /\ [Next]_vars => IInv'
<1> SUFFICES ASSUME IInv, [Next]_vars PROVE IInv'
  OBVIOUS
<1>1. CASE Run
  BY <1>1, RunStep, OpsUnchanged DEF Run, IInv, QueueInv
<1>2. CASE UNCHANGED vars
  BY <1>2, CacheUnchanged, OpsUnchanged DEF vars, IInv, QueueInv, cacheVars, lfuVars
<1> QED
  BY <1>1, <1>2, ReadStep, WriteStep, FlushStep DEF Next, Actor

-----------------------------------------------------------------------------
\* The inductive invariant.
THEOREM Inductive == Spec => []IInv
<1> QED
  BY InitIInv, NextIInv, PTL DEF Spec

\* Every variable keeps its type and the release list its bound
\* (m_uiMaxRelListSize), whatever runs and fails.
THEOREM TypeCorrect == Spec => []TypeOK
<1>1. IInv => TypeOK
  BY DEF IInv, CacheInv, QueueInv, OpsInv, TypeOK, Actor
<1> QED
  BY <1>1, Inductive, PTL

\* No two sectors ever share a buffer and the cache never outgrows its
\* capacity (DiskCache::Add, ReplaceCache), although Write takes no lock.
THEOREM BuffersStayDisjoint == Spec => []BuffersDisjoint
<1>1. IInv => BuffersDisjoint
  BY DEF IInv, CacheInv
<1> QED
  BY <1>1, Inductive, PTL

\* The drive mutex is held by the actor inside Read or the flush and by no
\* other, also when a device error ends the operation.
THEOREM MutexBalanced == Spec => []MutexHeldInside
<1>1. IInv => MutexHeldInside
  BY DEF IInv, OpsInv
<1> QED
  BY <1>1, Inductive, PTL

-----------------------------------------------------------------------------
(* One process, and writes that the device takes: the drive with its cache *)
(* is a memory.  With two the flush and a replacement get in each other's  *)
(* way, and a sector whose flush failed is not dirty any more.             *)

Alone == /\ \A p, q \in Actor : p = q
         /\ Failures = FALSE

\* What the process in the middle of an operation found is still so.
Found(o) ==
  LET s == o.sector IN
  /\ o.pc \in {"hit", "writeHit", "flushing"} =>
       enabled /\ s \in Cached /\ o.slot = slot[s]
  /\ o.pc \in {"miss", "fill", "writeMiss", "replace"} => enabled /\ s \notin Cached
  /\ o.pc \in {"raw", "writeRaw"} => ~enabled
  /\ o.pc \in {"fill", "replace"} => disk[s] = o.value
  /\ o.pc = "flush" => enabled
  /\ o.pc = "flushing" => s \notin DirtySectors

MInv == NoWriteLost /\ \A p \in Actor : Found(op[p])


\* OnlyWritesChange and ReadsReturnContents of one step.
OnlyWrites ==
  enabled' = enabled =>
    \A s \in Sector : Contents(s)' # Contents(s) =>
      \E p \in Process : Writing(p, s) /\ Contents(s)' = op[p].value
ReadsReturn ==
  \A p \in Process : op[p].pc \in {"hit", "raw", "fill"} /\ op'[p].pc = "idle" =>
    Returned(p) = Contents(op[p].sector)

LEMMA InitMemory == Init => MInv
BY DEF Init, MInv, NoWriteLost, DirtyPointsIntoCache, Cached, Found, Idle, Actor

LEMMA ReadersGetContents ==
  ASSUME MInv
  PROVE  ReadsReturn
<1> SUFFICES ASSUME NEW p \in Process, op[p].pc \in {"hit", "raw", "fill"}
             PROVE  Returned(p) = Contents(op[p].sector)
  BY DEF ReadsReturn
<1>1. Found(op[p])
  BY DEF MInv, Actor
<1> QED
  BY <1>1 DEF Found, Returned, Contents, At

\* The flush list: what a write appends and what the flush takes.
LEMMA DirtyOnes ==
  ASSUME IInv
  PROVE  /\ DOMAIN dirty = 1 .. Len(dirty) /\ Len(dirty) \in Nat
         /\ DirtySectors \subseteq Sector
         /\ \A i \in DOMAIN dirty : dirty[i].sector \in Sector /\ dirty[i].slot \in Slot
         /\ \A i \in DOMAIN dirty : dirty[i].sector \in DirtySectors
<1>1. dirty \in Seq([sector: Sector, slot: Slot])
  BY DEF IInv, QueueInv
<1>2. DOMAIN dirty = 1 .. Len(dirty) /\ Len(dirty) \in Nat
  BY <1>1
<1>3. \A i \in DOMAIN dirty : dirty[i] \in [sector: Sector, slot: Slot]
  <2> DEFINE E == [sector: Sector, slot: Slot]
  <2>1. \A q \in Seq(E) : \A i \in DOMAIN q : q[i] \in E
    <3> HIDE DEF E
    <3> QED
      OBVIOUS
  <2> QED
    BY <1>1, <2>1
<1>4. \A i \in DOMAIN dirty : dirty[i].sector \in Sector /\ dirty[i].slot \in Slot
  <2>1. \A e \in [sector: Sector, slot: Slot] : e.sector \in Sector /\ e.slot \in Slot
    OBVIOUS
  <2> QED
    BY <1>3, <2>1
<1> QED
  BY <1>2, <1>4 DEF DirtySectors

\* A dirty sector is cached.
LEMMA DirtyIsCached == IInv /\ DirtyPointsIntoCache => DirtySectors \subseteq Cached
BY DirtyOnes, NoneAssumption DEF DirtySectors, DirtyPointsIntoCache, Cached

LEMMA InsertDirty ==
  ASSUME IInv, DirtyPointsIntoCache, NEW s \in Sector, NEW b \in Slot,
         dirty' = InsertToDirtyList(s, b), slot'[s] = b,
         \A t \in DirtySectors : slot'[t] = slot[t]
  PROVE  DirtyPointsIntoCache' /\ DirtySectors' = DirtySectors \cup {s}
<1>1. CASE s \in DirtySectors
  <2>1. dirty' = dirty
    BY <1>1 DEF InsertToDirtyList
  <2>2. \A i \in DOMAIN dirty : dirty[i].sector \in DirtySectors
    BY DirtyOnes
  <2>3. DirtyPointsIntoCache'
    BY <2>1, <2>2 DEF DirtyPointsIntoCache
  <2>4. DirtySectors' = DirtySectors
    BY <2>1 DEF DirtySectors
  <2> QED
    BY <1>1, <2>3, <2>4
<1>2. CASE s \notin DirtySectors
  <2> DEFINE n == Len(dirty)
             e == [sector |-> s, slot |-> b]
  <2>1. dirty' = Append(dirty, e)
    BY <1>2 DEF InsertToDirtyList
  <2>2. dirty \in Seq([sector: Sector, slot: Slot]) /\ n \in Nat /\ DOMAIN dirty = 1 .. n
    BY DirtyOnes DEF IInv, QueueInv
  <2>3. /\ DOMAIN dirty' = 1 .. n + 1
        /\ \A i \in 1 .. n + 1 : dirty'[i] = IF i = n + 1 THEN e ELSE dirty[i]
    <3>1. \A S, q, x : q \in Seq(S) =>
            /\ DOMAIN Append(q, x) = 1 .. Len(q) + 1
            /\ \A i \in 1 .. Len(q) + 1 : Append(q, x)[i] = IF i = Len(q) + 1 THEN x ELSE q[i]
      OBVIOUS
    <3> QED
      BY <2>1, <2>2, <3>1
  <2> HIDE DEF n
  <2>4. \A i \in 1 .. n + 1 : i # n + 1 => i \in DOMAIN dirty
    BY <2>2
  <2>5. \A i \in DOMAIN dirty : dirty[i].sector \in DirtySectors
    BY DirtyOnes
  <2>6. DirtyPointsIntoCache'
    BY <1>2, <2>3, <2>4, <2>5 DEF DirtyPointsIntoCache
  <2>7. DirtySectors' = DirtySectors \cup {s}
    <3>1. DirtySectors' \subseteq DirtySectors \cup {s}
      BY <2>3, <2>4, <2>5 DEF DirtySectors
    <3>2. DirtySectors \subseteq DirtySectors'
      <4>1. \A i \in 1 .. n : i \in 1 .. n + 1 /\ i # n + 1
        BY <2>2
      <4> QED
        BY <2>2, <2>3, <4>1 DEF DirtySectors
    <3>3. s \in DirtySectors'
      <4>1. n + 1 \in 1 .. n + 1
        BY <2>2
      <4> QED
        BY <2>3, <4>1 DEF DirtySectors
    <3> QED
      BY <3>1, <3>2, <3>3
  <2> QED
    BY <2>6, <2>7
<1> QED
  BY <1>1, <1>2

LEMMA TakeDirty ==
  ASSUME IInv, DirtyPointsIntoCache, dirty # <<>>, dirty' = Tail(dirty), slot' = slot
  PROVE  LET d == Head(dirty)
         IN /\ DirtyPointsIntoCache'
            /\ d.sector \in Sector /\ d.slot \in Slot /\ slot[d.sector] = d.slot
            /\ DirtySectors' = DirtySectors \ {d.sector}
<1> DEFINE n == Len(dirty)
           d == Head(dirty)
<1>1. dirty \in Seq([sector: Sector, slot: Slot]) /\ n \in Nat /\ DOMAIN dirty = 1 .. n
  BY DirtyOnes DEF IInv, QueueInv
<1>2. n >= 1 /\ d = dirty[1]
  BY <1>1
<1>3. DOMAIN dirty' = 1 .. n - 1 /\ \A i \in 1 .. n - 1 : dirty'[i] = dirty[i + 1]
  BY <1>1
<1> HIDE DEF n, d
<1>4. /\ \A i \in 1 .. n - 1 : i + 1 \in 1 .. n /\ i + 1 # 1
      /\ \A i, j \in 1 .. n - 1 : i + 1 = j + 1 => i = j
      /\ \A i \in 1 .. n : i # 1 => i - 1 \in 1 .. n - 1 /\ (i - 1) + 1 = i
      /\ 1 \in 1 .. n
  BY <1>1, <1>2
<1>5. DirtyPointsIntoCache'
  BY <1>1, <1>3, <1>4 DEF DirtyPointsIntoCache
<1>6. DirtySectors' \subseteq DirtySectors \ {d.sector}
  BY <1>1, <1>2, <1>3, <1>4 DEF DirtyPointsIntoCache, DirtySectors
<1>7. DirtySectors \ {d.sector} \subseteq DirtySectors'
  <2> SUFFICES ASSUME NEW i \in 1 .. n, dirty[i].sector # d.sector
               PROVE  dirty[i].sector \in DirtySectors'
    BY <1>1 DEF DirtySectors
  <2>1. i - 1 \in 1 .. n - 1 /\ dirty'[i - 1] = dirty[i]
    BY <1>2, <1>3, <1>4
  <2> QED
    BY <1>3, <2>1 DEF DirtySectors
<1>8. d.sector \in Sector /\ d.slot \in Slot /\ slot[d.sector] = d.slot
  BY <1>1, <1>2, <1>4, DirtyOnes DEF DirtyPointsIntoCache
<1> QED
  BY <1>5, <1>6, <1>7, <1>8 DEF d

LEMMA UpTo == \A k \in Nat : Cardinality(1 .. k) = k
<1> TAKE k \in Nat
<1>1. Cardinality(1 .. k) = IF 1 > k THEN 0 ELSE k - 1 + 1
  BY FS_Interval
<1> QED
  BY <1>1

\* ReplaceCache replaces no dirty sector.
LEMMA FirstIsClean ==
  ASSUME IInv, Rest # <<>>
  PROVE  Head(Rest) \in Sector \ DirtySectors
<1> DEFINE n == Len(release)
           C == {i \in 1 .. n : release[i] \notin DirtySectors}
<1>1. release \in Seq(Sector) /\ n \in Nat /\ DOMAIN release = 1 .. n
  BY DEF IInv, CacheInv
<1>2. CASE C = {}
  <2>1. Skipped = 1 .. n
    BY <1>1, <1>2 DEF Skipped
  <2>2. Cardinality(Skipped) = n
    BY <1>1, <2>1, UpTo
  <2>3. Len(Rest) = 0
    <3>1. \A i \in n + 1 .. n : release[i] \in Sector
      BY <1>1
    <3>2. Len(SubSeq(release, n + 1, n)) = 0
      BY <1>1, <3>1, SubSeqProperties
    <3> QED
      BY <2>2, <3>2 DEF Rest
  <2> QED
    BY <1>1, <2>3, RestType
<1>3. CASE C # {}
  <2>1. PICK k \in C : \A i \in C : k <= i
    <3>1. C \in SUBSET Nat
      BY <1>1
    <3> HIDE DEF C
    <3> QED
      BY <1>3, <3>1, LeastNat
  <2>2. k \in 1 .. n /\ k \in Nat /\ release[k] \notin DirtySectors
    BY <1>1, <2>1
  <2>3. \A i \in 1 .. n : (\A j \in 1 .. i : release[j] \in DirtySectors) <=> i < k
    <3>1. ASSUME NEW i \in 1 .. n, i < k, NEW j \in 1 .. i PROVE release[j] \in DirtySectors
      BY <1>1, <2>1, <2>2, <3>1
    <3>2. ASSUME NEW i \in 1 .. n, ~(i < k) PROVE k \in 1 .. i
      BY <1>1, <2>2, <3>2
    <3> QED
      BY <2>2, <3>1, <3>2
  <2>4. Skipped = 1 .. k - 1
    BY <1>1, <2>2, <2>3 DEF Skipped
  <2>5. Cardinality(Skipped) + 1 = k
    <3>1. k - 1 \in Nat /\ Cardinality(Skipped) = k - 1
      BY <2>2, <2>4, UpTo
    <3> QED
      BY <2>2, <3>1
  <2>6. Rest = SubSeq(release, k, n)
    BY <2>5 DEF Rest
  <2>7. Head(Rest) = release[k]
    <3>1. \A q \in Seq(Sector), i, j \in Nat :
            1 <= i /\ i <= j /\ j <= Len(q) => Head(SubSeq(q, i, j)) = q[i]
      OBVIOUS
    <3> QED
      BY <1>1, <2>2, <2>6, <3>1
  <2> QED
    BY <1>1, <2>2, <2>7
<1> QED
  BY <1>2, <1>3

\* A step that only moves the process on: what it found it still has.
LEMMA MoveOn ==
  ASSUME Alone, IInv, MInv, NEW p \in Actor, NEW r,
         op' = [op EXCEPT ![p] = r], Found(r),
         op[p].pc = "flushing" => r = op[p],
         UNCHANGED <<disk, slot, mem, dirty, enabled>>
  PROVE  MInv' /\ OnlyWrites
<1>1. \A q \in Actor : q = p
  BY DEF Alone
<1>2. op'[p] = r
  BY DEF IInv, OpsInv
<1>3. Cached' = Cached /\ DirtySectors' = DirtySectors
  BY DEF Cached, DirtySectors
<1>4. Found(op[p])'
  BY <1>2, <1>3 DEF Found
<1>5. \A s : Flushing(s) => Flushing(s)'
  BY <1>1, <1>2 DEF Flushing, At, Actor
<1>6. NoWriteLost'
  BY <1>3, <1>5 DEF MInv, NoWriteLost, DirtyPointsIntoCache
<1>7. OnlyWrites
  BY <1>3 DEF OnlyWrites, Contents
<1> QED
  BY <1>1, <1>4, <1>6, <1>7 DEF MInv

\* The operation ends and the cache is disabled.
LEMMA Disable ==
  ASSUME Alone, IInv, MInv, NEW p \in Actor, Done(p), enabled, enabled' = FALSE,
         slot' = slot, dirty' = dirty
  PROVE  MInv' /\ OnlyWrites
<1>1. \A q \in Actor : q = p
  BY DEF Alone
<1>2. op'[p] = Idle
  BY DEF IInv, OpsInv, Done
<1>3. Found(op[p])'
  BY <1>2 DEF Found, Idle
<1>4. NoWriteLost'
  BY DEF MInv, NoWriteLost, DirtyPointsIntoCache
<1> QED
  BY <1>1, <1>3, <1>4 DEF MInv, OnlyWrites

\* A sector that was not cached gets a buffer, from the pool or from one
\* that is not dirty.
Put(s, v) ==
  /\ s \in Cached' /\ slot'[s] \in Slot /\ mem'[slot'[s]] = v
  /\ \A t \in Cached' \ {s} : slot'[t] = slot[t] /\ mem'[slot[t]] = mem[slot[t]]
  /\ \A t \in DirtySectors : slot'[t] = slot[t]

LEMMA AddPuts ==
  ASSUME IInv, MInv, NEW s \in Sector \ Cached, NEW v \in Value, NEW b \in Slot, Add(s, v, b)
  PROVE  Put(s, v) /\ slot'[s] = b
<1>1. slot \in [Sector -> Slot \cup {NONE}] /\ mem \in [Slot -> Value]
  BY DEF IInv, CacheInv
<1>2. DirtySectors \subseteq Cached
  BY DirtyIsCached DEF MInv, NoWriteLost
<1>3. /\ b \notin Used /\ slot' = [slot EXCEPT ![s] = b] /\ mem' = [mem EXCEPT ![b] = v]
  BY DEF Add
<1>4. slot'[s] = b /\ mem'[b] = v /\ b # NONE
  BY <1>1, <1>3, NoneAssumption
<1>5. ASSUME NEW t \in Sector \ {s}, slot[t] # NONE PROVE slot'[t] = slot[t] /\ mem'[slot[t]] = mem[slot[t]]
  <2>1. slot[t] \in Used /\ slot[t] \in Slot
    BY <1>1, <1>5 DEF Used, Cached
  <2> QED
    BY <1>1, <1>3, <1>5, <2>1
<1>6. \A t \in Sector \ {s} : slot'[t] = slot[t]
  BY <1>1, <1>3
<1> QED
  BY <1>2, <1>4, <1>5, <1>6 DEF Put, Cached

LEMMA ReplacePuts ==
  ASSUME IInv, MInv, NEW s \in Sector \ Cached, NEW v \in Value, NEW b \in Slot, Replaced(s, v, b)
  PROVE  Put(s, v)
<1> DEFINE victim == Head(Rest)
<1>1. /\ slot \in [Sector -> Slot \cup {NONE}] /\ mem \in [Slot -> Value]
      /\ \A t, u \in Cached : slot[t] = slot[u] => t = u
  BY DEF IInv, CacheInv, BuffersDisjoint
<1>2. DirtySectors \subseteq Cached
  BY DirtyIsCached DEF MInv, NoWriteLost
<1>3. victim \in Sector \ DirtySectors
  BY FirstIsClean DEF Replaced
<1>4. /\ victim \in Cached /\ victim # s /\ b \in (Slot \ Used) \cup {slot[victim]}
      /\ slot' = [slot EXCEPT ![victim] = NONE, ![s] = b] /\ mem' = [mem EXCEPT ![b] = v]
  BY <1>3 DEF Replaced, Cached
<1> HIDE DEF victim
<1>5. slot'[s] = b /\ mem'[b] = v /\ b # NONE
  BY <1>1, <1>4, NoneAssumption
<1>6. \A t \in Sector \ {s} : slot'[t] = IF t = victim THEN NONE ELSE slot[t]
  BY <1>1, <1>4
<1>7. ASSUME NEW t \in Cached \ {s, victim} PROVE mem'[slot[t]] = mem[slot[t]]
  <2>1. slot[t] \in Used /\ slot[t] \in Slot /\ slot[t] # slot[victim]
    BY <1>1, <1>4, <1>7 DEF Used, Cached
  <2> QED
    BY <1>1, <1>4, <2>1
<1> QED
  BY <1>2, <1>3, <1>5, <1>6, <1>7 DEF Put, Cached

\* A miss that was read, or written through, is cached with what the disk has.
LEMMA PutClean ==
  ASSUME Alone, IInv, MInv, NEW p \in Actor, Done(p), NEW s \in Sector \ Cached,
         op[p].pc # "flushing", Put(s, disk[s]), enabled, UNCHANGED <<disk, dirty, enabled>>
  PROVE  MInv' /\ OnlyWrites
<1>1. \A q \in Actor : q = p
  BY DEF Alone
<1>2. op'[p] = Idle
  BY DEF IInv, OpsInv, Done
<1>3. Found(op[p])'
  BY <1>2 DEF Found, Idle
<1>4. DirtySectors' = DirtySectors /\ ~ \E t : Flushing(t)
  BY <1>1 DEF DirtySectors, Flushing, At, Actor
<1>5. DirtyPointsIntoCache'
  BY DirtyOnes DEF MInv, NoWriteLost, DirtyPointsIntoCache, Put
<1>6. ASSUME NEW t \in Cached', mem'[slot'[t]] # disk[t] PROVE t \in DirtySectors /\ t \in Cached
  <2>1. t # s /\ slot'[t] = slot[t] /\ mem'[slot[t]] = mem[slot[t]]
    BY <1>6 DEF Put
  <2>2. t \in Cached
    BY <1>6, <2>1 DEF Cached
  <2> QED
    BY <1>4, <1>6, <2>1, <2>2 DEF MInv, NoWriteLost
<1>7. NoWriteLost'
  BY <1>4, <1>5, <1>6 DEF NoWriteLost
<1>8. ASSUME NEW t \in Sector PROVE Contents(t)' = Contents(t)
  <2>1. CASE t = s
    BY <2>1 DEF Contents, Put
  <2>2. CASE t # s /\ t \in Cached'
    <3>1. slot'[t] = slot[t] /\ mem'[slot[t]] = mem[slot[t]] /\ t \in Cached
      BY <2>2 DEF Put, Cached
    <3> QED
      BY <2>2, <3>1 DEF Contents
  <2>3. CASE t # s /\ t \notin Cached' /\ t \in Cached
    <3>1. t \notin DirtySectors
      BY <2>3 DEF Put, Cached
    <3>2. mem[slot[t]] = disk[t]
      BY <1>4, <2>3, <3>1 DEF MInv, NoWriteLost
    <3> QED
      BY <2>3, <3>2 DEF Contents
  <2>4. CASE t # s /\ t \notin Cached' /\ t \notin Cached
    BY <2>4 DEF Contents
  <2> QED
    BY <2>1, <2>2, <2>3, <2>4
<1>9. OnlyWrites
  BY <1>8 DEF OnlyWrites
<1> QED
  BY <1>1, <1>3, <1>7, <1>9 DEF MInv

\* ReplaceCache for a sector that was not cached, whatever it returns.
LEMMA ReplaceMemory ==
  ASSUME Alone, IInv, MInv, NEW p \in Actor, Done(p), NEW s \in Sector \ Cached,
         op[p].pc # "flushing", disk[s] \in Value, enabled, dirty' = dirty,
         \/ ReplaceReturnsTrue(s, disk[s]) /\ UNCHANGED disk
         \/ ReplaceFails(s)
  PROVE  MInv' /\ OnlyWrites
<1>1. CASE NotReplaced /\ UNCHANGED disk
  <2>1. Found(Idle) /\ op' = [op EXCEPT ![p] = Idle]
    BY DEF Found, Idle, Done
  <2> QED
    BY <1>1, <2>1, MoveOn DEF NotReplaced
<1>2. ASSUME NEW b \in Slot, Replaced(s, disk[s], b), UNCHANGED disk
      PROVE  MInv' /\ OnlyWrites
  <2>1. Put(s, disk[s]) /\ enabled' = enabled
    BY <1>2, ReplacePuts DEF Replaced
  <2> QED
    BY <1>2, <2>1, PutClean
<1>3. CASE ReplaceFails(s)
  <2>1. slot' = slot
    <3>1. Rest # <<>> /\ slot[Head(Rest)] = NONE /\ slot' = [slot EXCEPT ![Head(Rest)] = NONE]
      BY <1>3 DEF ReplaceFails
    <3>2. Head(Rest) \in Sector /\ slot \in [Sector -> Slot \cup {NONE}]
      BY <3>1, FirstIsClean DEF IInv, CacheInv
    <3> QED
      BY <3>1, <3>2
  <2> QED
    BY <1>3, <2>1, Disable DEF ReplaceFails
<1> QED
  BY <1>1, <1>2, <1>3 DEF ReplaceReturnsTrue

LEMMA ReadMemory ==
  ASSUME Alone, IInv, MInv, NEW p \in Process, Read(p)
  PROVE  MInv' /\ OnlyWrites
<1> p \in Actor
  BY DEF Actor
<1>1. Found(op[p]) /\ Found(Idle)
  BY DEF MInv, Found, Idle
<1>2. ASSUME NEW s \in Sector, StartRead(p, s) PROVE MInv' /\ OnlyWrites
  <2> DEFINE r == [pc |-> IF ~enabled THEN "raw" ELSE IF s \in Cached THEN "hit" ELSE "miss",
                   sector |-> s, value |-> NONE, slot |-> IF enabled THEN slot[s] ELSE NONE]
  <2>1. Found(r)
    BY DEF Found
  <2>2. op' = [op EXCEPT ![p] = r] /\ op[p].pc # "flushing"
        /\ UNCHANGED <<disk, slot, mem, dirty, enabled>>
    BY <1>2 DEF StartRead, At
  <2> HIDE DEF r
  <2> QED
    BY <2>1, <2>2, MoveOn
<1>3. CASE ReadHit(p)
  BY <1>1, <1>3, MoveOn DEF ReadHit, Done, At
<1>4. CASE RawRead(p)
  <2> DEFINE r == [op[p] EXCEPT !.pc = "fill", !.value = disk[op[p].sector]]
  <2>1. op[p].pc # "flushing" /\ UNCHANGED <<disk, slot, mem, dirty, enabled>>
    BY <1>4 DEF RawRead, At
  <2>2. CASE Done(p)
    BY <1>1, <2>1, <2>2, MoveOn DEF Done
  <2>3. CASE op[p].pc = "miss" /\ op' = [op EXCEPT ![p] = r]
    <3>1. op[p] \in Op
      BY DEF IInv, OpsInv
    <3>2. r.pc = "fill" /\ r.sector = op[p].sector /\ r.value = disk[op[p].sector]
      BY <3>1 DEF Op
    <3>3. Found(r)
      BY <1>1, <2>3, <3>2 DEF Found
    <3> HIDE DEF r
    <3> QED
      BY <2>1, <2>3, <3>3, MoveOn
  <2> QED
    BY <1>4, <2>2, <2>3 DEF RawRead, At
<1>5. CASE Fill(p)
  <2> DEFINE s == op[p].sector
  <2>1. op[p].pc = "fill" /\ Done(p) /\ UNCHANGED <<disk, dirty>>
    BY <1>5 DEF Fill, At
  <2>2. s \in Sector \ Cached /\ op[p].value = disk[s] /\ disk[s] \in Value /\ enabled
    BY <1>1, <2>1 DEF Found, IInv, OpsInv, OpInv
  <2>3. \/ ReplaceReturnsTrue(s, disk[s]) \/ ReplaceFails(s)
        \/ \E b \in Slot : Add(s, disk[s], b) /\ UNCHANGED enabled
    BY <1>5, <2>2 DEF Fill
  <2> HIDE DEF s
  <2>4. CASE ReplaceReturnsTrue(s, disk[s]) \/ ReplaceFails(s)
    BY <2>1, <2>2, <2>4, ReplaceMemory
  <2>5. ASSUME NEW b \in Slot, Add(s, disk[s], b), UNCHANGED enabled
        PROVE  MInv' /\ OnlyWrites
    <3>1. Put(s, disk[s])
      BY <2>2, <2>5, AddPuts
    <3> QED
      BY <2>1, <2>2, <2>5, <3>1, PutClean
  <2> QED
    BY <2>3, <2>4, <2>5
<1> QED
  BY <1>2, <1>3, <1>4, <1>5 DEF Read

LEMMA WriteHitMemory ==
  ASSUME Alone, IInv, MInv, NEW p \in Process, WriteHit(p)
  PROVE  MInv' /\ OnlyWrites
<1>0. PICK s, b, v : s = op[p].sector /\ b = op[p].slot /\ v = op[p].value
  OBVIOUS
<1>1. /\ op[p].pc = "writeHit" /\ Done(p) /\ UNCHANGED <<disk, slot, enabled>>
      /\ mem' = [mem EXCEPT ![b] = v] /\ dirty' = InsertToDirtyList(s, b)
  BY <1>0 DEF WriteHit, At
<1>2. p \in Actor /\ \A q \in Actor : q = p
  BY DEF Alone, Actor
<1>3. s \in Sector /\ b \in Slot /\ s \in Cached /\ b = slot[s] /\ enabled
  BY <1>0, <1>1, <1>2 DEF IInv, OpsInv, OpInv, MInv, Found
<1>4. /\ slot \in [Sector -> Slot \cup {NONE}] /\ mem \in [Slot -> Value]
      /\ \A t, u \in Cached : slot[t] = slot[u] => t = u
  BY DEF IInv, CacheInv, BuffersDisjoint
<1>5. DirtyPointsIntoCache' /\ DirtySectors' = DirtySectors \cup {s}
  BY <1>1, <1>3, InsertDirty DEF MInv, NoWriteLost
<1>6. Cached' = Cached /\ \A t \in Cached \ {s} : mem'[slot[t]] = mem[slot[t]]
  <2>1. ASSUME NEW t \in Cached \ {s} PROVE slot[t] \in Slot /\ slot[t] # b
    BY <1>3, <1>4 DEF Cached
  <2> QED
    BY <1>1, <1>4, <2>1 DEF Cached
<1>7. ~ \E t : Flushing(t)
  BY <1>1, <1>2 DEF Flushing, At, Actor
<1>8. NoWriteLost'
  BY <1>1, <1>5, <1>6, <1>7 DEF MInv, NoWriteLost
<1>9. Found(op[p])'
  <2>1. op'[p] = Idle
    BY <1>1, <1>2 DEF IInv, OpsInv, Done
  <2> QED
    BY <2>1 DEF Found, Idle
<1>10. OnlyWrites
  <2>1. \A t \in Sector \ {s} : Contents(t)' = Contents(t)
    BY <1>1, <1>6 DEF Contents
  <2>2. Contents(s)' = v
    BY <1>1, <1>3, <1>4, <1>6 DEF Contents
  <2>3. Writing(p, s)
    BY <1>0, <1>1 DEF Writing
  <2> QED
    BY <1>0, <2>1, <2>2, <2>3 DEF OnlyWrites
<1> QED
  BY <1>2, <1>8, <1>9, <1>10 DEF MInv

\* A write to the device of a sector the cache says nothing about.
LEMMA DeviceWrite ==
  ASSUME Alone, IInv, MInv, NEW p \in Process, NEW r, op' = [op EXCEPT ![p] = r],
         op[p].sector \in Sector, op[p].pc \in {"writeMiss", "writeRaw"},
         ~enabled \/ op[p].sector \notin Cached,
         disk' = [disk EXCEPT ![op[p].sector] = op[p].value],
         r.pc = "idle" \/ (/\ r.pc = "replace" /\ op[p].pc = "writeMiss"
                           /\ r.sector = op[p].sector /\ r.value = op[p].value),
         UNCHANGED <<slot, mem, dirty, enabled>>
  PROVE  MInv' /\ OnlyWrites
<1>0. PICK s, v : s = op[p].sector /\ v = op[p].value
  OBVIOUS
<1>1. p \in Actor /\ \A q \in Actor : q = p
  BY DEF Alone, Actor
<1>2. disk \in [Sector -> Value] /\ op'[p] = r
  BY <1>1 DEF IInv, QueueInv, OpsInv
<1>3. disk'[s] = v /\ \A t \in Sector : t # s => disk'[t] = disk[t]
  BY <1>0, <1>2
<1>4. Cached' = Cached /\ DirtySectors' = DirtySectors /\ ~ \E t : Flushing(t)
  BY <1>1 DEF Cached, DirtySectors, Flushing, At, Actor
<1>5. NoWriteLost'
  <2>1. DirtyPointsIntoCache'
    BY DEF MInv, NoWriteLost, DirtyPointsIntoCache
  <2>2. ASSUME enabled, NEW t \in Cached PROVE disk'[t] = disk[t]
    BY <1>0, <1>3, <2>2 DEF Cached
  <2> QED
    BY <1>4, <2>1, <2>2 DEF MInv, NoWriteLost
<1>6. Found(op[p])
  BY <1>1 DEF MInv
<1>7. Found(op[p])'
  BY <1>0, <1>2, <1>3, <1>4, <1>6 DEF Found
<1>8. OnlyWrites
  <2>1. \A t \in Sector : t # s => Contents(t)' = Contents(t)
    BY <1>3, <1>4 DEF Contents
  <2>2. Contents(s)' = v
    BY <1>0, <1>3, <1>4 DEF Contents
  <2>3. Writing(p, s)
    BY <1>0 DEF Writing
  <2> QED
    BY <1>0, <2>1, <2>2, <2>3 DEF OnlyWrites
<1> QED
  BY <1>1, <1>5, <1>7, <1>8 DEF MInv

\* A write of a sector that is not cached into a cache that is not full.
LEMMA WriteAdds ==
  ASSUME Alone, IInv, MInv, NEW p \in Process, Done(p), op[p].pc = "writeMiss", enabled,
         op[p].sector \in Sector \ Cached, op[p].value \in Value, NEW b \in Slot,
         Add(op[p].sector, op[p].value, b), dirty' = InsertToDirtyList(op[p].sector, b),
         UNCHANGED <<disk, enabled>>
  PROVE  MInv' /\ OnlyWrites
<1>0. PICK s, v : s = op[p].sector /\ v = op[p].value
  OBVIOUS
<1>1. p \in Actor /\ \A q \in Actor : q = p
  BY DEF Alone, Actor
<1>2. Put(s, v) /\ slot'[s] = b
  BY <1>0, AddPuts
<1>3. DirtyPointsIntoCache' /\ DirtySectors' = DirtySectors \cup {s}
  BY <1>0, <1>2, InsertDirty DEF Put, MInv, NoWriteLost
<1>4. ~ \E t : Flushing(t)
  BY <1>1 DEF Flushing, At, Actor
<1>5. \A t \in Cached' \ {s} : t \in Cached /\ slot'[t] = slot[t] /\ mem'[slot[t]] = mem[slot[t]]
  BY <1>2 DEF Put, Cached
<1>6. NoWriteLost'
  BY <1>3, <1>4, <1>5 DEF MInv, NoWriteLost
<1>7. Found(op[p])'
  <2>1. op'[p] = Idle
    BY <1>1 DEF IInv, OpsInv, Done
  <2> QED
    BY <2>1 DEF Found, Idle
<1>8. OnlyWrites
  <2>1. \A t \in Sector \ {s} : t \in Cached <=> t \in Cached'
    <3>1. slot' = [slot EXCEPT ![s] = b] /\ slot \in [Sector -> Slot \cup {NONE}]
      BY <1>0 DEF Add, IInv, CacheInv
    <3> QED
      BY <3>1 DEF Cached
  <2>2. \A t \in Sector \ {s} : Contents(t)' = Contents(t)
    BY <1>5, <2>1 DEF Contents
  <2>3. Contents(s)' = v
    BY <1>2 DEF Contents, Put
  <2>4. Writing(p, s)
    BY <1>0 DEF Writing
  <2> QED
    BY <1>0, <2>2, <2>3, <2>4 DEF OnlyWrites
<1> QED
  BY <1>1, <1>6, <1>7, <1>8 DEF MInv

LEMMA WriteMemory ==
  ASSUME Alone, IInv, MInv, NEW p \in Process, Write(p)
  PROVE  MInv' /\ OnlyWrites
<1> p \in Actor
  BY DEF Actor
<1>1. Found(op[p]) /\ Found(Idle) /\ Idle.pc = "idle"
  BY DEF MInv, Found, Idle
<1>2. ASSUME NEW s \in Sector, NEW v \in Value, StartWrite(p, s, v) PROVE MInv' /\ OnlyWrites
  <2> DEFINE r == [pc |-> IF ~enabled THEN "writeRaw" ELSE IF s \in Cached THEN "writeHit" ELSE "writeMiss",
                   sector |-> s, value |-> v, slot |-> IF enabled THEN slot[s] ELSE NONE]
  <2>1. Found(r)
    BY DEF Found
  <2>2. op' = [op EXCEPT ![p] = r] /\ op[p].pc # "flushing"
        /\ UNCHANGED <<disk, slot, mem, dirty, enabled>>
    BY <1>2 DEF StartWrite, At
  <2> HIDE DEF r
  <2> QED
    BY <2>1, <2>2, MoveOn
<1>3. CASE WriteMiss(p)
  <2> DEFINE s == op[p].sector
             v == op[p].value
  <2>1. /\ op[p].pc \in {"writeMiss", "writeRaw"} /\ s \in Sector /\ v \in Value
        /\ op[p].pc = "writeMiss" => enabled /\ s \notin Cached
        /\ op[p].pc = "writeRaw" => ~enabled
    BY <1>1, <1>3 DEF WriteMiss, At, Found, IInv, OpsInv, OpInv
  <2>2. ASSUME NEW b \in Slot, op[p].pc = "writeMiss", Done(p), Add(s, v, b),
               dirty' = InsertToDirtyList(s, b), UNCHANGED <<disk, enabled>>
        PROVE  MInv' /\ OnlyWrites
    BY <2>1, <2>2, WriteAdds
  <2>3. CASE /\ op[p].pc = "writeMiss" /\ disk' = [disk EXCEPT ![s] = v]
             /\ op' = [op EXCEPT ![p].pc = "replace"] /\ UNCHANGED <<slot, mem, dirty, enabled>>
    <3> DEFINE r == [op[p] EXCEPT !.pc = "replace"]
    <3>1. r.pc = "replace" /\ r.sector = s /\ r.value = v
      BY DEF IInv, OpsInv, Op
    <3>2. op' = [op EXCEPT ![p] = r]
      BY <2>3
    <3> HIDE DEF r
    <3> QED
      BY <2>1, <2>3, <3>1, <3>2, DeviceWrite
  <2>4. CASE /\ op[p].pc = "writeRaw" /\ Done(p) /\ disk' = [disk EXCEPT ![s] = v]
             /\ UNCHANGED <<slot, mem, dirty, enabled>>
    BY <1>1, <2>1, <2>4, DeviceWrite DEF Done
  <2> QED
    BY <1>3, <2>1, <2>2, <2>3, <2>4 DEF WriteMiss, At, Alone
<1>4. CASE WriteReplace(p)
  <2> DEFINE s == op[p].sector
  <2>1. op[p].pc = "replace" /\ Done(p) /\ dirty' = dirty
    BY <1>4 DEF WriteReplace, At
  <2>2. s \in Sector \ Cached /\ op[p].value = disk[s] /\ disk[s] \in Value /\ enabled
    BY <1>1, <2>1 DEF Found, IInv, OpsInv, OpInv
  <2>3. \/ ReplaceReturnsTrue(s, disk[s]) /\ UNCHANGED disk
        \/ ReplaceFails(s)
    BY <1>4, <2>2 DEF WriteReplace
  <2> HIDE DEF s
  <2> QED
    BY <2>1, <2>2, <2>3, ReplaceMemory
<1> QED
  BY <1>2, <1>3, <1>4, WriteHitMemory DEF Write

LEMMA FlushMemory ==
  ASSUME Alone, IInv, MInv, NEW p \in Actor, Flush(p)
  PROVE  MInv' /\ OnlyWrites
<1>1. Found(op[p]) /\ Found(Idle) /\ \A q \in Actor : q = p
  BY DEF MInv, Found, Idle, Alone
<1>2. op[p] \in Op /\ op \in [Actor -> Op]
  BY DEF IInv, OpsInv
<1>3. CASE StartFlush(p)
  <2> DEFINE r == [op[p] EXCEPT !.pc = "flush"]
  <2>1. r.pc = "flush" /\ enabled /\ op[p].pc = "idle" /\ op' = [op EXCEPT ![p] = r]
        /\ UNCHANGED <<disk, slot, mem, dirty, enabled>>
    BY <1>2, <1>3 DEF Op, StartFlush, At
  <2> HIDE DEF r
  <2>2. Found(r)
    BY <2>1 DEF Found
  <2> QED
    BY <2>1, <2>2, MoveOn
<1>4. CASE Get(p)
  <2> DEFINE d == Head(dirty)
             r == [pc |-> "flushing", sector |-> d.sector, value |-> NONE, slot |-> d.slot]
  <2>1. op[p].pc = "flush" /\ enabled /\ op'[p] = r
        /\ dirty # <<>> /\ dirty' = Tail(dirty) /\ UNCHANGED <<disk, slot, mem, enabled>>
    BY <1>1, <1>2, <1>4 DEF Get, At, Found
  <2>2. /\ DirtyPointsIntoCache'
        /\ d.sector \in Sector /\ d.slot \in Slot /\ slot[d.sector] = d.slot
        /\ DirtySectors' = DirtySectors \ {d.sector}
    BY <2>1, TakeDirty DEF MInv, NoWriteLost
  <2> HIDE DEF d
  <2>3. Cached' = Cached /\ d.sector \in Cached
    BY <2>1, <2>2, NoneAssumption DEF Cached
  <2>4. Found(op[p])'
    BY <2>1, <2>2, <2>3 DEF Found
  <2>5. ~ (\E t : Flushing(t)) /\ \A t : t = d.sector => Flushing(t)'
    BY <1>1, <2>1 DEF Flushing, At, Actor
  <2>6. NoWriteLost'
    BY <2>1, <2>2, <2>3, <2>5 DEF MInv, NoWriteLost
  <2>7. OnlyWrites
    BY <2>1, <2>3 DEF OnlyWrites, Contents
  <2> QED
    BY <1>1, <2>4, <2>6, <2>7 DEF MInv
<1>5. CASE FlushSector(p)
  <2> DEFINE s == op[p].sector
             r == [Idle EXCEPT !.pc = "flush"]
  <2>1. /\ op[p].pc = "flushing" /\ disk' = [disk EXCEPT ![s] = mem[op[p].slot]]
        /\ op' = [op EXCEPT ![p] = r] /\ UNCHANGED <<slot, mem, dirty, enabled>>
    BY <1>5 DEF FlushSector, At, Alone
  <2>2. /\ enabled /\ s \in Cached /\ op[p].slot = slot[s] /\ disk \in [Sector -> Value]
        /\ op'[p] = r /\ r.pc = "flush"
    BY <1>1, <1>2, <2>1 DEF Found, IInv, QueueInv, Idle
  <2>3. disk'[s] = mem[slot[s]] /\ \A t \in Sector \ {s} : disk'[t] = disk[t]
    BY <2>1, <2>2 DEF Cached
  <2>4. Cached' = Cached /\ DirtySectors' = DirtySectors /\ \A t : Flushing(t) => t = s
    BY <1>1, <2>1 DEF Cached, DirtySectors, Flushing, Actor
  <2> HIDE DEF s, r
  <2>5. DirtyPointsIntoCache'
    BY <2>1 DEF MInv, NoWriteLost, DirtyPointsIntoCache
  <2>6. NoWriteLost'
    BY <2>1, <2>3, <2>4, <2>5 DEF MInv, NoWriteLost, Cached
  <2>7. Found(op[p])'
    BY <2>1, <2>2 DEF Found
  <2>8. OnlyWrites
    BY <2>1, <2>2, <2>3, <2>4 DEF OnlyWrites, Contents
  <2> QED
    BY <1>1, <2>6, <2>7, <2>8 DEF MInv
<1>6. CASE EndFlush(p)
  BY <1>1, <1>6, MoveOn DEF EndFlush, Done, At
<1> QED
  BY <1>3, <1>4, <1>5, <1>6 DEF Flush

LEMMA NextMemory ==
  ASSUME Alone, IInv, MInv, [Next]_vars
  PROVE  MInv' /\ OnlyWrites
<1>1. CASE Run \/ UNCHANGED vars
  <2>1. UNCHANGED <<disk, slot, mem, dirty, enabled, op>>
    BY <1>1 DEF Run, vars
  <2>2. MInv'
    BY <2>1 DEF MInv, NoWriteLost, DirtyPointsIntoCache, Found, Cached, DirtySectors, Flushing, At
  <2>3. OnlyWrites
    BY <2>1 DEF OnlyWrites, Contents, Cached
  <2> QED
    BY <2>2, <2>3
<1> QED
  BY <1>1, ReadMemory, WriteMemory, FlushMemory DEF Next, Actor

\* No write is lost between the cache and the device: with one process, and
\* a device that takes the writes, what differs from the disk is on the dirty
\* list with its buffer, whatever was replaced (FlushDirtyCacheSectors,
\* ReplaceCache).
THEOREM WritesReachTheDisk ==
  ASSUME Alone
  PROVE  Spec => []NoWriteLost
<1>1. Init => MInv
  BY InitMemory
<1>2. IInv /\ MInv /\ [Next]_vars => MInv'
  BY NextMemory
<1>3. MInv => NoWriteLost
  BY DEF MInv
<1> QED
  BY <1>1, <1>2, <1>3, Inductive, PTL DEF Spec

\* The drive with its cache is a memory of sectors: reads return what it
\* holds and only writes change it (DiskDrive::Read and Write).
THEOREM CacheIsTransparent ==
  ASSUME Alone
  PROVE  Spec => ActsAsMemory
<1>1. Init => MInv
  BY InitMemory
<1>2. IInv /\ MInv /\ [Next]_vars => MInv'
  BY NextMemory
<1>3. IInv /\ MInv /\ [Next]_vars =>
        [enabled' = enabled =>
           \A s \in Sector : Contents(s)' # Contents(s) =>
             \E p \in Process : Writing(p, s) /\ Contents(s)' = op[p].value]_vars
  BY NextMemory DEF OnlyWrites
<1>4. IInv /\ MInv /\ [Next]_vars =>
        [\A p \in Process : op[p].pc \in {"hit", "raw", "fill"} /\ op'[p].pc = "idle" =>
           Returned(p) = Contents(op[p].sector)]_vars
  BY ReadersGetContents DEF ReadsReturn
<1>5. Spec => OnlyWritesChange
  BY <1>1, <1>2, <1>3, Inductive, PTL DEF Spec, OnlyWritesChange
<1>6. Spec => ReadsReturnContents
  BY <1>1, <1>2, <1>4, Inductive, PTL DEF Spec, ReadsReturnContents
<1> QED
  BY <1>5, <1>6 DEF ActsAsMemory

=============================================================================
