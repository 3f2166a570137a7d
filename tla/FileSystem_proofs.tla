-------------------------- MODULE FileSystem_proofs --------------------------
(***************************************************************************)
(* Proofs about FileSystem for any drive, pool, table cache, read-ahead    *)
(* and number of files: the coherence of the table cache and of the pool   *)
(* of free sectors, and under which condition no sector is lost or given   *)
(* to two files.                                                           *)
(***************************************************************************)
EXTENDS FileSystem, ListLemmas, FiniteSetTheorems

-----------------------------------------------------------------------------
(* Sectors, blocks and sets of them in order.                              *)

LEMMA Sizes ==
  /\ NSectors \in Nat /\ NSectors > 1 /\ 0 \in Sector /\ Sector \subseteq Nat
  /\ EOC \notin Sector /\ EOC # 0 /\ EOC \in Entry /\ Sector \subseteq Entry /\ 0 \in Entry
<1>1. NSectors \in Nat /\ NSectors > 1
  BY SizeAssumption DEF NSectors
<1> QED
  BY <1>1 DEF Sector, EOC, Entry

LEMMA BlockOfSector ==
  ASSUME NEW s \in Sector
  PROVE  BLOCK_ID(s) \in Block
<1>1. s \in Nat /\ s < NBlocks * PerBlock /\ NBlocks \in Nat /\ PerBlock \in Nat /\ PerBlock > 0
  BY Sizes, SizeAssumption DEF Sector, NSectors
<1> DEFINE b == s \div PerBlock
<1>2. b \in Nat /\ b * PerBlock <= s
  BY <1>1
<1>3. b < NBlocks
  BY <1>1, <1>2
<1> QED
  BY <1>2, <1>3, SizeAssumption DEF BLOCK_ID, Block

LEMMA FiniteSets ==
  /\ IsFiniteSet(Sector) /\ IsFiniteSet(Block)
  /\ \A S \in SUBSET Sector : IsFiniteSet(S) /\ Cardinality(S) \in Nat
  /\ \A S \in SUBSET Block : IsFiniteSet(S) /\ Cardinality(S) \in Nat
<1>1. IsFiniteSet(Sector) /\ IsFiniteSet(Block)
  BY Sizes, SizeAssumption, FS_Interval DEF Sector, Block
<1> QED
  BY <1>1, FS_Subset, FS_CardinalityType

\* The elements of a finite set of numbers stand in InOrder once each.
LEMMA InOrderListsSet ==
  ASSUME NEW S \in SUBSET Nat, IsFiniteSet(S)
  PROVE  /\ InOrder(S) \in Seq(S) /\ Len(InOrder(S)) = Cardinality(S)
         /\ \A i, j \in DOMAIN InOrder(S) : InOrder(S)[i] = InOrder(S)[j] => i = j
         /\ \A x \in S : \E i \in DOMAIN InOrder(S) : InOrder(S)[i] = x
<1> DEFINE n == Cardinality(S)
           Below(x) == {y \in S : y < x}
           r == [x \in S |-> Cardinality(Below(x))]
           T == 0 .. n - 1
<1>1. n \in Nat
  BY FS_CardinalityType
<1>2. r \in Bijection(S, T)
  BY RankIsBijection
<1> HIDE DEF Below
<1>4. r \in [S -> T]
  BY <1>2 DEF Bijection, Injection
<1>6. \A x, y \in S : r[x] = r[y] => x = y
  BY <1>2 DEF Bijection, Injection, IsInjective
<1>8. r \in Surjection(S, T)
  BY <1>2 DEF Bijection
<1>9. \A i \in 1 .. n : \E x \in S : Cardinality(Below(x)) = i - 1
  <2> TAKE i \in 1 .. n
  <2>1. i - 1 \in T
    BY <1>1
  <2>2. PICK x \in S : r[x] = i - 1
    BY <1>8, <2>1 DEF Surjection
  <2> QED
    BY <2>2
<1> DEFINE o == InOrder(S)
<1>10. o = [i \in 1 .. n |-> CHOOSE x \in S : Cardinality(Below(x)) = i - 1]
  BY DEF InOrder, Below
<1>11. \A i \in 1 .. n : o[i] \in S /\ Cardinality(Below(o[i])) = i - 1
  BY <1>9, <1>10
<1>12. DOMAIN o = 1 .. n
  BY <1>10
<1>13. o \in [1 .. n -> S]
  BY <1>10, <1>11
<1> HIDE DEF o, n
<1>14. o \in Seq(S) /\ Len(o) = n
  BY <1>1, <1>12, <1>13
<1>15. \A i, j \in 1 .. n : o[i] = o[j] => i = j
  BY <1>1, <1>11
<1>16. \A x \in S : \E i \in 1 .. n : o[i] = x
  <2> TAKE x \in S
  <2>1. r[x] \in T /\ r[x] = Cardinality(Below(x))
    BY <1>4
  <2>2. r[x] + 1 \in 1 .. n /\ r[x] + 1 - 1 = r[x]
    BY <1>1, <2>1
  <2>3. r[o[r[x] + 1]] = r[x] /\ o[r[x] + 1] \in S
    BY <1>11, <2>1, <2>2
  <2> QED
    BY <1>6, <2>2, <2>3
<1> QED
  BY <1>12, <1>14, <1>15, <1>16 DEF o, n

-----------------------------------------------------------------------------
(* The table cache.                                                        *)

\* A cached block that has no write counted is the one on the disk; while the
\* drive is unmounted that goes for all, and nobody works on a file.
CacheInv ==
  /\ disk \in [Sector -> Entry] /\ sectorBlock \in [Sector -> Entry]
  /\ cached \subseteq Block /\ written \subseteq cached /\ Cardinality(cached) <= CacheSize
  /\ \A s \in Sector : BLOCK_ID(s) \in cached /\ BLOCK_ID(s) \notin written => sectorBlock[s] = disk[s]
  /\ mounted \in BOOLEAN
  /\ ~mounted => (AllIdle /\ \A s \in Sector : Value(s) = disk[s])

LEMMA EntriesType ==
  ASSUME CacheInv
  PROVE  Entries \in [Sector -> Entry] /\ \A s \in Sector : Entries[s] = Value(s) /\ Value(s) \in Entry
BY DEF CacheInv, Entries, Value

\* Of a full cache the first block goes, and there is one.
LEMMA EvictedOne ==
  ASSUME CacheInv, NEW b \in Block, b \notin cached
  PROVE  /\ Evicted \subseteq cached
         /\ IsFiniteSet((cached \ Evicted) \cup {b})
         /\ Cardinality((cached \ Evicted) \cup {b}) <= CacheSize
<1>1. IsFiniteSet(cached) /\ Cardinality(cached) \in Nat /\ Cardinality(cached) <= CacheSize
      /\ cached \in SUBSET Nat /\ CacheSize \in Nat /\ CacheSize > 1
  BY FiniteSets, SizeAssumption DEF CacheInv, Block
<1>2. CASE Cardinality(cached) # CacheSize
  <2>1. Evicted = {}
    BY <1>2 DEF Evicted
  <2>2. /\ IsFiniteSet(cached \cup {b})
        /\ Cardinality(cached \cup {b}) = Cardinality(cached) + 1
    BY <1>1, FS_AddElement
  <2> QED
    BY <1>1, <1>2, <2>1, <2>2
<1>3. CASE Cardinality(cached) = CacheSize
  <2>1. cached # {}
    BY <1>1, <1>3, FS_EmptySet
  <2>2. PICK first \in cached : \A c \in cached : first <= c
    BY <1>1, <2>1, LeastNat
  <2>3. Evicted = {first}
    <3>1. \A c \in cached : c \in Nat
      BY <1>1
    <3>2. \A c \in cached : (\A d \in cached : c <= d) => c = first
      BY <2>2, <3>1
    <3> QED
      BY <1>3, <2>2, <3>2 DEF Evicted
  <2>4. IsFiniteSet(cached \ {first}) /\ Cardinality(cached \ {first}) = Cardinality(cached) - 1
    BY <1>1, FS_RemoveElement
  <2>5. /\ IsFiniteSet((cached \ {first}) \cup {b})
        /\ Cardinality((cached \ {first}) \cup {b}) = Cardinality(cached)
    BY <1>1, <2>4, FS_AddElement
  <2> QED
    BY <1>1, <2>3, <2>5
<1> QED
  BY <1>2, <1>3

\* A touched block is brought in, another may go: the cache stays coherent
\* and the table is the one it was touched for.
LEMMA TouchStep ==
  ASSUME CacheInv, NEW s \in Sector, NEW e \in [Sector -> Entry], NEW w \in BOOLEAN,
         \A t \in Sector : t # s \/ ~w => e[t] = Value(t),
         Touch(s, e, w), mounted, mounted'
  PROVE  CacheInv' /\ \A t \in Sector : Value(t)' = e[t]
<1> DEFINE b    == BLOCK_ID(s)
           out  == IF b \in cached THEN {} ELSE Evicted
           here == (cached \ out) \cup {b}
<1>1. b \in Block
  BY BlockOfSector
<1>2. /\ cached' = here /\ disk' = Flushed(out)
      /\ sectorBlock' = [t \in Sector |-> IF BLOCK_ID(t) \in here THEN e[t] ELSE 0]
      /\ written' = (written \ out) \cup (IF w THEN {b} ELSE {})
  BY DEF Touch
<1>3. out \subseteq cached /\ here \subseteq Block /\ Cardinality(here) <= CacheSize
  <2>1. CASE b \in cached
    <3>1. here = cached
      BY <2>1
    <3> QED
      BY <2>1, <3>1 DEF CacheInv
  <2>2. CASE b \notin cached
    BY <1>1, <2>2, EvictedOne DEF CacheInv
  <2> QED
    BY <2>1, <2>2
<1>4. written \subseteq cached
  BY DEF CacheInv
<1>5. b \notin out
  BY <1>3
<1> HIDE DEF out
<1>6. written' \subseteq cached'
  BY <1>2, <1>4, <1>5
<1>7. disk' = [t \in Sector |-> IF BLOCK_ID(t) \in out /\ BLOCK_ID(t) \in written THEN sectorBlock[t] ELSE disk[t]]
  BY <1>2 DEF Flushed
<1> HIDE DEF b
<1>8. disk' \in [Sector -> Entry] /\ sectorBlock' \in [Sector -> Entry]
  BY <1>2, <1>7, Sizes DEF CacheInv
<1>9. ASSUME NEW t \in Sector
      PROVE  Value(t)' = e[t]
  <2>1. CASE BLOCK_ID(t) \in here
    BY <1>2, <2>1 DEF Value
  <2>2. CASE BLOCK_ID(t) \notin here
    <3>1. t # s /\ Value(t)' = disk'[t] /\ e[t] = Value(t)
      BY <1>2, <2>2 DEF Value, b
    <3>2. CASE BLOCK_ID(t) \in cached
      <4>1. BLOCK_ID(t) \in out /\ Value(t) = sectorBlock[t]
        BY <2>2, <3>2 DEF Value
      <4>2. disk'[t] = sectorBlock[t]
        BY <1>7, <4>1, <3>2 DEF CacheInv
      <4> QED
        BY <3>1, <4>1, <4>2
    <3>3. CASE BLOCK_ID(t) \notin cached
      BY <1>3, <1>7, <3>1, <3>3 DEF Value
    <3> QED
      BY <3>2, <3>3
  <2> QED
    BY <2>1, <2>2
<1>10. ASSUME NEW t \in Sector, BLOCK_ID(t) \in cached', BLOCK_ID(t) \notin written'
       PROVE  sectorBlock'[t] = disk'[t]
  <2>1. sectorBlock'[t] = e[t] /\ BLOCK_ID(t) \in here
    BY <1>2, <1>10
  <2>2. t # s \/ ~w
    BY <1>2, <1>10 DEF b
  <2>3. e[t] = Value(t) /\ BLOCK_ID(t) \notin out
    <3>1. BLOCK_ID(t) \notin out
      BY <1>5, <2>1
    <3> QED
      BY <2>2, <3>1
  <2>4. disk'[t] = disk[t]
    BY <1>7, <2>3
  <2>5. CASE BLOCK_ID(t) \in cached
    <3>1. BLOCK_ID(t) \notin written
      BY <1>2, <1>10, <2>3
    <3>2. sectorBlock[t] = disk[t] /\ Value(t) = sectorBlock[t]
      BY <2>5, <3>1 DEF CacheInv, Value
    <3> QED
      BY <2>1, <2>3, <2>4, <3>2
  <2>6. CASE BLOCK_ID(t) \notin cached
    BY <2>1, <2>3, <2>4, <2>6 DEF Value
  <2> QED
    BY <2>5, <2>6
<1>11. cached' \subseteq Block /\ Cardinality(cached') <= CacheSize
  BY <1>2, <1>3
<1> QED
  BY <1>6, <1>8, <1>9, <1>10, <1>11 DEF CacheInv

-----------------------------------------------------------------------------
(* The pool of free sectors.                                               *)

\* What LoadFreeSectors finds, before it is cut to the size of the queue.
Found == CachedFree \o DiskFree

LEMMA FoundType ==
  /\ CachedFree \in Seq(Sector) /\ DiskFree \in Seq(Sector) /\ Found \in Seq(Sector)
  /\ Len(Found) = Len(CachedFree) + Len(DiskFree)
  /\ Len(CachedFree) \in Nat /\ Len(DiskFree) \in Nat
<1> DEFINE C == {s \in Sector : BLOCK_ID(s) \in cached /\ Value(s) = 0}
           D == {s \in Sector : BLOCK_ID(s) \in ReadBlocks /\ disk[s] = 0}
<1>1. C \in SUBSET Nat /\ D \in SUBSET Nat /\ IsFiniteSet(C) /\ IsFiniteSet(D)
  BY Sizes, FiniteSets
<1>2. CachedFree \in Seq(C) /\ DiskFree \in Seq(D)
  <2> HIDE DEF C, D
  <2>1. InOrder(C) \in Seq(C) /\ InOrder(D) \in Seq(D)
    BY <1>1, InOrderListsSet
  <2> QED
    BY <2>1 DEF CachedFree, DiskFree, C, D
<1>3. CachedFree \in Seq(Sector) /\ DiskFree \in Seq(Sector)
  BY <1>2
<1> QED
  BY <1>3 DEF Found

\* The pool is loaded with sectors of the drive, as many as it takes; only
\* where nothing was found it stays empty.
LEMMA LoadedPool ==
  /\ LoadFreeSectors \in Seq(Sector) /\ Len(LoadFreeSectors) <= QueueSize
  /\ Len(LoadFreeSectors) <= Len(Found)
  /\ \A i \in 1 .. Len(LoadFreeSectors) : LoadFreeSectors[i] = Found[i]
  /\ LoadFreeSectors = <<>> => CachedFree = <<>> /\ DiskFree = <<>>
<1> DEFINE n == IF Len(Found) < QueueSize THEN Len(Found) ELSE QueueSize
<1>1. Found \in Seq(Sector) /\ Len(Found) \in Nat /\ QueueSize \in Nat /\ QueueSize > 0
  BY FoundType, SizeAssumption
<1>2. n \in Nat /\ n <= Len(Found) /\ n <= QueueSize
  BY <1>1
<1>3. n = 0 => Len(Found) = 0
  BY <1>1
<1>4. LoadFreeSectors = SubSeq(Found, 1, n)
  BY DEF LoadFreeSectors, Found
<1> HIDE DEF n
<1>5. \A i \in 1 .. n : Found[i] \in Sector
  BY <1>1, <1>2
<1>6. /\ SubSeq(Found, 1, n) \in Seq(Sector) /\ Len(SubSeq(Found, 1, n)) = n
      /\ \A i \in 1 .. n : SubSeq(Found, 1, n)[i] = Found[i]
  BY <1>1, <1>2, <1>5, SubSeqProperties
<1>7. LoadFreeSectors = <<>> => n = 0
  BY <1>4, <1>6
<1>8. n = 0 => CachedFree = <<>> /\ DiskFree = <<>>
  BY <1>3, FoundType
<1> QED
  BY <1>2, <1>4, <1>6, <1>7, <1>8

\* Where the scan reads: the starts of the reads can be chosen block by
\* block, for a first block without a choice there would be no reason.
LEMMA ReadsExist ==
  /\ ReadStarts \in SUBSET Block
  /\ \A b \in Block : b \in ReadStarts <=>
       b \notin cached /\ \A r \in ReadStarts : r < b => r + ReadAhead <= b
<1> DEFINE Right(R, n) == \A b \in 0 .. n - 1 : b \in R <=>
                            b \notin cached /\ \A r \in R : r < b => r + ReadAhead <= b
           Bad == {n \in 0 .. NBlocks : ~ \E R \in SUBSET (0 .. n - 1) : Right(R, n)}
<1>0. NBlocks \in Nat /\ ReadAhead \in Nat
  BY SizeAssumption
<1>1. Bad = {}
  <2> SUFFICES ASSUME Bad # {} PROVE FALSE
    OBVIOUS
  <2>1. Bad \in SUBSET Nat
    BY <1>0
  <2>2. PICK m \in Bad : \A n \in Bad : m <= n
    BY <2>1, LeastNat
  <2>3. m \in Nat /\ m <= NBlocks
    BY <1>0, <2>2
  <2>4. m # 0
    <3>1. Right({}, 0) /\ {} \in SUBSET (0 .. 0 - 1)
      OBVIOUS
    <3>2. 0 \notin Bad
      BY <3>1
    <3> QED
      BY <2>2, <3>2
  <2>5. m - 1 \in 0 .. NBlocks /\ m - 1 \notin Bad
    <3>1. m - 1 \in 0 .. NBlocks /\ ~(m <= m - 1)
      BY <1>0, <2>3, <2>4
    <3> HIDE DEF Bad
    <3> QED
      BY <2>2, <3>1
  <2>6. PICK R \in SUBSET (0 .. m - 1 - 1) : Right(R, m - 1)
    BY <2>5
  <2> DEFINE b == m - 1
             New == IF b \notin cached /\ \A r \in R : r < b => r + ReadAhead <= b
                    THEN R \cup {b} ELSE R
  <2>7. New \in SUBSET (0 .. m - 1) /\ R \subseteq New /\ New \subseteq R \cup {b}
        /\ \A r \in R : r < b
    BY <2>3, <2>4, <2>6
  <2>8. \A c \in 0 .. b - 1 : c \in New <=> c \in R
    BY <2>3, <2>7
  <2>9. \A c \in 0 .. b : \A r \in New : r < c <=> r \in R /\ r < c
    BY <2>3, <2>7
  <2>10. Right(New, m)
    <3> SUFFICES ASSUME NEW c \in 0 .. m - 1
                 PROVE  c \in New <=> c \notin cached /\ \A r \in New : r < c => r + ReadAhead <= c
      OBVIOUS
    <3>1. (\A r \in New : r < c => r + ReadAhead <= c) <=> (\A r \in R : r < c => r + ReadAhead <= c)
      BY <2>7, <2>9
    <3>2. CASE c \in 0 .. b - 1
      BY <2>6, <2>8, <3>1, <3>2
    <3>3. CASE c = b
      <4>1. b \notin R
        BY <2>7
      <4> QED
        BY <3>1, <3>3, <4>1
    <3> QED
      BY <2>3, <3>2, <3>3
  <2> QED
    BY ZenonT(60), <2>2, <2>7, <2>10
<1>2. \E R \in SUBSET Block : Right(R, NBlocks)
  <2>1. NBlocks \in 0 .. NBlocks /\ NBlocks \notin Bad
    BY <1>0, <1>1
  <2>2. Block = 0 .. NBlocks - 1
    BY DEF Block
  <2> HIDE DEF Right
  <2> QED
    BY <2>1, <2>2
<1>3. \E R \in SUBSET Block :
        \A b \in Block : b \in R <=> b \notin cached /\ \A r \in R : r < b => r + ReadAhead <= b
  BY <1>2 DEF Block
<1> QED
  BY <1>3 DEF ReadStarts

\* The scan leaves out no block that is not cached.
LEMMA ScanIsComplete ==
  ASSUME NEW b \in Block, b \notin cached
  PROVE  b \in ReadBlocks
<1>1. b \in Nat /\ ReadAhead \in Nat /\ ReadAhead > 0 /\ Block \subseteq Nat
  BY SizeAssumption DEF Block
<1>2. CASE b \in ReadStarts
  BY <1>1, <1>2 DEF ReadBlocks
<1>3. CASE b \notin ReadStarts
  <2>1. PICK r \in ReadStarts : r < b /\ ~(r + ReadAhead <= b)
    BY <1>3, ReadsExist
  <2>2. r \in Nat
    BY <1>1, <2>1, ReadsExist
  <2> QED
    BY <1>1, <2>1, <2>2 DEF ReadBlocks
<1> QED
  BY <1>2, <1>3

-----------------------------------------------------------------------------
(* The operations on files.                                                *)

\* What an operation needs is there when it needs it: the sector it works on,
\* and the one before it unless the file is empty.
OpFits(o, q) ==
  /\ o \in Op
  /\ o.pc \in {"taken", "marked", "clear", "cleared"} => o.cur \in Sector
  /\ (o.pc = "walk" /\ o.cur = EOC) \/ o.pc \in {"taken", "marked"} => o.prev \in Sector \/ q = <<>>
OpsInv ==
  /\ pool \in Seq(Sector) /\ Len(pool) <= QueueSize
  /\ chain \in [File -> Seq(Sector)]
  /\ op \in [File -> Op] /\ \A f \in File : OpFits(op[f], chain[f])

\* An entry that an operation is about to set, and its value.
Sets(f, s, v) ==
  \/ At(f, "taken") /\ op[f].cur = s /\ v = EOC
  \/ At(f, "marked") /\ op[f].prev = s /\ v = op[f].cur
  \/ At(f, "clear") /\ op[f].cur = s /\ v = 0
OnlySets == \A s \in Sector : Value(s)' # Value(s) => \E f \in File : Sets(f, s, Value(s)')

LEMMA IdleFits ==
  ASSUME NEW q
  PROVE  OpFits(Idle, q)
BY Sizes DEF OpFits, Idle, Op

LEMMA OpStep ==
  ASSUME OpsInv, NEW f \in File, NEW o, NEW q \in Seq(Sector),
         op' = [op EXCEPT ![f] = o], chain' = [chain EXCEPT ![f] = q], OpFits(o, q),
         pool' \in Seq(Sector), Len(pool') <= QueueSize
  PROVE  OpsInv'
<1>1. o \in Op
  BY DEF OpFits
<1>2. chain' \in [File -> Seq(Sector)] /\ op' \in [File -> Op]
  BY <1>1 DEF OpsInv
<1>3. \A g \in File : op'[g] = (IF g = f THEN o ELSE op[g]) /\ chain'[g] = (IF g = f THEN q ELSE chain[g])
  BY DEF OpsInv
<1>4. \A g \in File : OpFits(op[g], chain[g])
  BY DEF OpsInv
<1> HIDE DEF OpFits
<1>5. \A g \in File : OpFits(op'[g], chain'[g])
  BY <1>3, <1>4
<1>6. (\A g \in File : OpFits(op[g], chain[g]))'
  BY <1>5 DEF OpFits, Op, Entry
<1> QED
  BY <1>2, <1>6 DEF OpsInv

\* A step that leaves the chains alone.
LEMMA OpMoves ==
  ASSUME OpsInv, NEW f \in File, NEW o,
         op' = [op EXCEPT ![f] = o], UNCHANGED chain, OpFits(o, chain[f]),
         pool' \in Seq(Sector), Len(pool') <= QueueSize
  PROVE  OpsInv'
<1>1. chain[f] \in Seq(Sector) /\ chain' = [chain EXCEPT ![f] = chain[f]]
  BY DEF OpsInv
<1> QED
  BY <1>1, OpStep

\* Only a mounted drive is worked on, and a step that leaves the table alone
\* leaves it coherent.
LEMMA TableKept ==
  ASSUME CacheInv, UNCHANGED <<cacheVars, mounted>>, mounted
  PROVE  CacheInv' /\ OnlySets
<1>1. \A s \in Sector : Value(s)' = Value(s)
  BY DEF Value, cacheVars
<1> QED
  BY <1>1 DEF CacheInv, OnlySets, cacheVars

LEMMA AtWork ==
  ASSUME CacheInv, NEW f \in File, op[f].pc # "idle"
  PROVE  mounted
<1>1. op[f] # Idle
  BY DEF Idle
<1> QED
  BY <1>1 DEF CacheInv, AllIdle

LEMMA DriveSteps ==
  ASSUME CacheInv, OpsInv, Mount \/ UnMount \/ Restart
  PROVE  CacheInv' /\ OpsInv' /\ OnlySets
<1>1. UNCHANGED <<op, chain>> /\ pool' \in Seq(Sector) /\ Len(pool') <= QueueSize
  <2>1. <<>> \in Seq(Sector) /\ Len(<<>>) <= QueueSize
    BY SizeAssumption
  <2>2. CASE Mount
    BY <2>2, LoadedPool DEF Mount
  <2>3. CASE UnMount
    <3>1. pool' = <<>> /\ UNCHANGED <<op, chain>>
      BY <2>3 DEF UnMount
    <3> QED
      BY <2>1, <3>1
  <2>4. CASE Restart
    BY <2>4 DEF Restart, OpsInv
  <2> QED
    BY <2>2, <2>3, <2>4
<1>2. OpsInv'
  <2>1. (\A f \in File : OpFits(op[f], chain[f]))'
    BY <1>1 DEF OpsInv, OpFits, Op, Entry
  <2> QED
    BY <1>1, <2>1 DEF OpsInv
<1>3. CASE Mount
  <2>1. \A s \in Sector : Value(s)' = Value(s)
    BY <1>3 DEF Mount, Value, cacheVars
  <2> QED
    BY <1>2, <1>3, <2>1 DEF Mount, CacheInv, OnlySets, cacheVars
<1>4. CASE UnMount
  <2>1. /\ disk' = [s \in Sector |-> IF BLOCK_ID(s) \in cached \cap written THEN sectorBlock[s] ELSE disk[s]]
        /\ UNCHANGED <<cached, sectorBlock, written>>
    BY <1>4 DEF UnMount, Flushed
  <2>2. \A s \in Sector : Value(s)' = Value(s)
    BY <2>1 DEF Value
  <2>3. \A s \in Sector : BLOCK_ID(s) \in cached => disk'[s] = sectorBlock[s]
    BY <2>1 DEF CacheInv
  <2>4. \A s \in Sector : Value(s)' = disk'[s]
    BY <2>1, <2>3 DEF Value
  <2>5. disk' \in [Sector -> Entry]
    BY <2>1 DEF CacheInv
  <2>6. mounted' = FALSE /\ AllIdle'
    BY <1>4 DEF UnMount, AllIdle
  <2> QED
    BY <1>2, <2>1, <2>2, <2>3, <2>4, <2>5, <2>6 DEF CacheInv, OnlySets
<1>5. CASE Restart
  <2>1. /\ cached' = {} /\ sectorBlock' = [s \in Sector |-> 0] /\ written' = {}
        /\ ~mounted /\ UNCHANGED <<disk, mounted, op>>
    BY <1>5 DEF Restart
  <2>2. \A s \in Sector : Value(s)' = disk'[s] /\ Value(s) = disk[s]
    BY <2>1 DEF Value, CacheInv
  <2>3. AllIdle'
    BY <2>1 DEF CacheInv, AllIdle
  <2>4. Cardinality({}) <= CacheSize
    BY FS_EmptySet, SizeAssumption
  <2> QED
    BY <1>2, <2>1, <2>2, <2>3, <2>4, Sizes DEF CacheInv, OnlySets
<1> QED
  BY <1>3, <1>4, <1>5

LEMMA OpFacts ==
  ASSUME OpsInv, NEW f \in File
  PROVE  /\ op[f] \in Op /\ op[f].cur \in Entry /\ op[f].prev \in Entry
         /\ chain[f] \in Seq(Sector) /\ OpFits(op[f], chain[f])
         /\ pool \in Seq(Sector) /\ Len(pool) <= QueueSize
BY DEF OpsInv, Op

LEMMA StartWriteStep ==
  ASSUME CacheInv, OpsInv, NEW f \in File, StartWrite(f)
  PROVE  CacheInv' /\ OpsInv' /\ OnlySets
<1>1. CacheInv' /\ OnlySets
  BY TableKept DEF StartWrite, CanStart
<1>2. PICK o : /\ op' = [op EXCEPT ![f] = o] /\ o \in Op /\ o.pc = "walk"
               /\ o.cur = EOC => chain[f] = <<>>
  <2>1. CASE chain[f] = <<>>
    BY <2>1, Sizes DEF StartWrite, Step, Op
  <2>2. CASE chain[f] # <<>>
    <3>1. PICK i \in DOMAIN chain[f] : Step(f, "walk", chain[f][i], EOC)
      BY <2>2 DEF StartWrite
    <3> DEFINE x == chain[f][i]
               o == [pc |-> "walk", cur |-> x, prev |-> EOC]
    <3>2. x \in Sector
      BY OpFacts
    <3>3. op' = [op EXCEPT ![f] = o]
      BY <3>1 DEF Step
    <3> HIDE DEF x
    <3>4. o \in Op /\ o.pc = "walk" /\ o.cur # EOC
      BY <3>2, Sizes DEF Op
    <3> HIDE DEF o
    <3> QED
      BY <3>3, <3>4
  <2> QED
    BY <2>1, <2>2
<1>3. OpFits(o, chain[f])
  BY <1>2 DEF OpFits
<1>4. UNCHANGED <<chain, pool>>
  BY DEF StartWrite
<1> QED
  BY <1>1, <1>2, <1>3, <1>4, OpFacts, OpMoves

LEMMA FinishFits ==
  ASSUME OpsInv, NEW f \in File, Finish(f), UNCHANGED chain, pool' \in Seq(Sector), Len(pool') <= QueueSize
  PROVE  OpsInv'
BY IdleFits, OpMoves DEF Finish

LEMMA WalkStep ==
  ASSUME CacheInv, OpsInv, NEW f \in File, Walk(f)
  PROVE  CacheInv' /\ OpsInv' /\ OnlySets
<1> DEFINE s == op[f].cur
<1>1. /\ At(f, "walk") /\ s # EOC /\ UNCHANGED <<pool, used, mounted, chain>>
      /\ \/ GetSectorEntryValue(s) /\ Step(f, "walk", Value(s), s)
         \/ Finish(f) /\ UNCHANGED cacheVars
  BY DEF Walk
<1>2. s \in Sector /\ mounted
  BY <1>1, OpFacts, AtWork DEF Entry, At
<1>3. CASE Finish(f) /\ UNCHANGED cacheVars
  BY <1>1, <1>2, <1>3, TableKept, FinishFits, OpFacts
<1>4. CASE GetSectorEntryValue(s) /\ Step(f, "walk", Value(s), s)
  <2>1. Entries \in [Sector -> Entry] /\ \A t \in Sector : Entries[t] = Value(t) /\ Value(t) \in Entry
    BY EntriesType
  <2>2. Touch(s, Entries, FALSE) /\ mounted'
    BY <1>1, <1>2, <1>4 DEF GetSectorEntryValue
  <2>3. CacheInv' /\ \A t \in Sector : Value(t)' = Entries[t]
    BY <1>2, <2>1, <2>2, TouchStep
  <2>4. OnlySets
    BY <2>1, <2>3 DEF OnlySets
  <2> DEFINE o == [pc |-> "walk", cur |-> Value(s), prev |-> s]
  <2>5. OpFits(o, chain[f])
    BY <1>2, <2>1, Sizes DEF OpFits, Op
  <2>6. op' = [op EXCEPT ![f] = o]
    BY <1>4 DEF Step
  <2> HIDE DEF o
  <2>7. OpsInv'
    BY <1>1, <2>5, <2>6, OpFacts, OpMoves
  <2> QED
    BY <2>3, <2>4, <2>7
<1> QED
  BY <1>1, <1>3, <1>4

LEMMA RefilledType ==
  ASSUME OpsInv
  PROVE  /\ Refilled \in Seq(Sector) /\ Len(Refilled) <= QueueSize
         /\ Refilled # <<>> => /\ Head(Refilled) \in Sector /\ Tail(Refilled) \in Seq(Sector)
                               /\ Len(Tail(Refilled)) <= QueueSize
<1>1. Refilled \in Seq(Sector) /\ Len(Refilled) <= QueueSize
  BY LoadedPool DEF OpsInv, Refilled
<1>2. Len(Refilled) \in Nat /\ QueueSize \in Nat
  BY <1>1, SizeAssumption
<1>3. ASSUME Refilled # <<>>
      PROVE  /\ Head(Refilled) \in Sector /\ Tail(Refilled) \in Seq(Sector)
             /\ Len(Tail(Refilled)) = Len(Refilled) - 1
  BY <1>1, <1>3
<1> QED
  BY <1>1, <1>2, <1>3

LEMMA TakeStep ==
  ASSUME CacheInv, OpsInv, NEW f \in File, Take(f)
  PROVE  CacheInv' /\ OpsInv' /\ OnlySets
<1>1. /\ At(f, "walk") /\ op[f].cur = EOC /\ UNCHANGED <<cacheVars, used, mounted, chain>>
      /\ \/ Refilled = <<>> /\ Finish(f) /\ UNCHANGED pool
         \/ /\ Refilled # <<>> /\ pool' = Tail(Refilled)
            /\ op' = [op EXCEPT ![f] = [pc |-> "taken", cur |-> Head(Refilled), prev |-> op[f].prev]]
  BY DEF Take, Step
<1>2. CacheInv' /\ OnlySets
  BY <1>1, AtWork, TableKept DEF At
<1>3. CASE Refilled = <<>> /\ Finish(f) /\ UNCHANGED pool
  BY <1>1, <1>2, <1>3, FinishFits, OpFacts
<1>4. CASE /\ Refilled # <<>> /\ pool' = Tail(Refilled)
           /\ op' = [op EXCEPT ![f] = [pc |-> "taken", cur |-> Head(Refilled), prev |-> op[f].prev]]
  <2> DEFINE o == [pc |-> "taken", cur |-> Head(Refilled), prev |-> op[f].prev]
  <2>1. /\ Head(Refilled) \in Sector /\ Tail(Refilled) \in Seq(Sector)
        /\ Len(Tail(Refilled)) <= QueueSize
    BY <1>4, RefilledType
  <2>2. OpFits(o, chain[f])
    BY <1>1, <2>1, OpFacts, Sizes DEF OpFits, Op, At
  <2> HIDE DEF o
  <2>3. OpsInv'
    BY <1>1, <1>4, <2>1, <2>2, OpMoves DEF o
  <2> QED
    BY <1>2, <2>3
<1> QED
  BY <1>1, <1>3, <1>4

\* Setting an entry changes that entry, and no other.
LEMMA SetStep ==
  ASSUME CacheInv, NEW s \in Sector, NEW v \in Entry, SetSectorEntryValue(s, v), mounted, UNCHANGED mounted
  PROVE  CacheInv' /\ \A t \in Sector : Value(t)' = IF t = s THEN v ELSE Value(t)
<1> DEFINE e == [Entries EXCEPT ![s] = v]
<1>1. Entries \in [Sector -> Entry] /\ \A t \in Sector : Entries[t] = Value(t)
  BY EntriesType
<1>2. e \in [Sector -> Entry] /\ \A t \in Sector : e[t] = IF t = s THEN v ELSE Value(t)
  BY <1>1
<1>3. Touch(s, e, TRUE)
  BY DEF SetSectorEntryValue
<1> HIDE DEF e
<1>4. CacheInv' /\ \A t \in Sector : Value(t)' = e[t]
  BY <1>2, <1>3, TouchStep
<1> QED
  BY <1>2, <1>4

LEMMA MarkStep ==
  ASSUME CacheInv, OpsInv, NEW f \in File, Mark(f)
  PROVE  CacheInv' /\ OpsInv' /\ OnlySets
<1> DEFINE s == op[f].cur
           o == [pc |-> "marked", cur |-> s, prev |-> op[f].prev]
<1>1. /\ At(f, "taken") /\ SetSectorEntryValue(s, EOC) /\ op' = [op EXCEPT ![f] = o]
      /\ UNCHANGED <<pool, mounted, chain>>
  BY DEF Mark, Step
<1>2. s \in Sector /\ mounted
  BY <1>1, OpFacts, AtWork DEF At, OpFits
<1>3. OpFits(o, chain[f])
  BY <1>1, OpFacts DEF At, OpFits, Op
<1>4. CacheInv' /\ \A t \in Sector : Value(t)' = IF t = s THEN EOC ELSE Value(t)
  BY <1>1, <1>2, Sizes, SetStep
<1>5. OnlySets
  BY <1>1, <1>4 DEF OnlySets, Sets
<1> HIDE DEF o
<1>6. OpsInv'
  BY <1>1, <1>3, OpFacts, OpMoves
<1> QED
  BY <1>4, <1>5, <1>6

LEMMA LinkStep ==
  ASSUME CacheInv, OpsInv, NEW f \in File, Link(f)
  PROVE  CacheInv' /\ OpsInv' /\ OnlySets
<1> DEFINE s == op[f].cur
           q == Append(chain[f], s)
<1>1. /\ At(f, "marked") /\ chain' = [chain EXCEPT ![f] = q] /\ UNCHANGED <<pool, mounted>>
      /\ Step(f, "walk", EOC, s) \/ Finish(f)
      /\ IF chain[f] = <<>> THEN UNCHANGED <<cacheVars, used>> ELSE SetSectorEntryValue(op[f].prev, s)
  BY DEF Link
<1>2. s \in Sector /\ mounted /\ (chain[f] = <<>> \/ op[f].prev \in Sector)
  BY <1>1, OpFacts, AtWork DEF At, OpFits
<1>3. CacheInv' /\ OnlySets
  <2>1. CASE chain[f] = <<>>
    BY <1>1, <1>2, <2>1, TableKept
  <2>2. CASE chain[f] # <<>>
    <3>1. CacheInv' /\ \A t \in Sector : Value(t)' = IF t = op[f].prev THEN s ELSE Value(t)
      BY <1>1, <1>2, <2>2, Sizes, SetStep
    <3>2. OnlySets
      BY <1>1, <3>1 DEF OnlySets, Sets
    <3> QED
      BY <3>1, <3>2
  <2> QED
    BY <2>1, <2>2
<1>4. q \in Seq(Sector)
  BY <1>2, OpFacts
<1> HIDE DEF q
<1>5. CASE Finish(f)
  BY <1>1, <1>3, <1>4, <1>5, IdleFits, OpFacts, OpStep DEF Finish
<1>6. CASE Step(f, "walk", EOC, s)
  <2> DEFINE o == [pc |-> "walk", cur |-> EOC, prev |-> s]
  <2>1. op' = [op EXCEPT ![f] = o]
    BY <1>6 DEF Step
  <2>2. OpFits(o, q)
    BY <1>2, Sizes DEF OpFits, Op
  <2> HIDE DEF o
  <2> QED
    BY <1>1, <1>3, <1>4, <2>1, <2>2, OpFacts, OpStep
<1> QED
  BY <1>1, <1>5, <1>6

LEMMA StartDeleteStep ==
  ASSUME CacheInv, OpsInv, NEW f \in File, StartDelete(f)
  PROVE  CacheInv' /\ OpsInv' /\ OnlySets
<1> DEFINE o == [pc |-> "clear", cur |-> Head(chain[f]), prev |-> EOC]
<1>1. /\ chain[f] # <<>> /\ op' = [op EXCEPT ![f] = o] /\ mounted
      /\ UNCHANGED <<cacheVars, pool, used, mounted, chain>>
  BY DEF StartDelete, Step, CanStart
<1>2. Head(chain[f]) \in Sector
  BY <1>1, OpFacts
<1>3. OpFits(o, chain[f])
  BY <1>2, Sizes DEF OpFits, Op
<1> HIDE DEF o
<1> QED
  BY <1>1, <1>3, TableKept, OpFacts, OpMoves

LEMMA ClearStep ==
  ASSUME CacheInv, OpsInv, NEW f \in File, Clear(f)
  PROVE  CacheInv' /\ OpsInv' /\ OnlySets
<1> DEFINE s == op[f].cur
           o == [pc |-> "cleared", cur |-> s, prev |-> Value(s)]
           q == IF chain[f] # <<>> /\ Head(chain[f]) = s THEN Tail(chain[f]) ELSE chain[f]
<1>1. /\ At(f, "clear") /\ SetSectorEntryValue(s, 0) /\ op' = [op EXCEPT ![f] = o]
      /\ chain' = [chain EXCEPT ![f] = q] /\ UNCHANGED <<pool, mounted>>
  BY DEF Clear, Step
<1>2. s \in Sector /\ mounted
  BY <1>1, OpFacts, AtWork DEF At, OpFits
<1>3. OpFits(o, q)
  <2>1. Value(s) \in Entry /\ s \in Entry
    BY <1>2, EntriesType, Sizes
  <2>2. o \in Op
    BY <2>1 DEF Op
  <2> HIDE DEF q
  <2> QED
    BY <1>2, <2>2 DEF OpFits
<1>4. CacheInv' /\ \A t \in Sector : Value(t)' = IF t = s THEN 0 ELSE Value(t)
  BY <1>1, <1>2, Sizes, SetStep
<1>5. OnlySets
  BY <1>1, <1>4 DEF OnlySets, Sets
<1>6. q \in Seq(Sector)
  BY OpFacts
<1> HIDE DEF o, q
<1>7. OpsInv'
  BY <1>1, <1>3, <1>6, OpFacts, OpStep
<1> QED
  BY <1>4, <1>5, <1>7

LEMMA PutBackStep ==
  ASSUME CacheInv, OpsInv, NEW f \in File, PutBack(f)
  PROVE  CacheInv' /\ OpsInv' /\ OnlySets
<1> DEFINE next == op[f].prev
           o == [pc |-> "clear", cur |-> next, prev |-> EOC]
<1>1. /\ At(f, "cleared") /\ UNCHANGED <<cacheVars, used, mounted, chain>>
      /\ pool' = IF Len(pool) < QueueSize THEN Append(pool, op[f].cur) ELSE pool
      /\ IF next = EOC THEN Finish(f) ELSE op' = [op EXCEPT ![f] = o]
  BY DEF PutBack, Step
<1>2. op[f].cur \in Sector /\ mounted
  BY <1>1, OpFacts, AtWork DEF At, OpFits
<1>3. pool' \in Seq(Sector) /\ Len(pool') <= QueueSize
  <2>1. pool \in Seq(Sector) /\ Len(pool) <= QueueSize /\ QueueSize \in Nat
    BY OpFacts, SizeAssumption
  <2>2. Append(pool, op[f].cur) \in Seq(Sector) /\ Len(Append(pool, op[f].cur)) = Len(pool) + 1
    BY <1>2, <2>1
  <2> QED
    BY <1>1, <2>1, <2>2
<1>4. CacheInv' /\ OnlySets
  BY <1>1, <1>2, TableKept
<1>5. CASE next = EOC
  BY <1>1, <1>3, <1>4, <1>5, FinishFits
<1>6. CASE next # EOC
  <2>1. OpFits(o, chain[f])
    BY <1>6, OpFacts, Sizes DEF OpFits, Op, Entry
  <2> HIDE DEF o
  <2> QED
    BY <1>1, <1>3, <1>4, <1>6, <2>1, OpMoves
<1> QED
  BY <1>5, <1>6

LEMMA StutterStep ==
  ASSUME CacheInv, OpsInv, UNCHANGED vars
  PROVE  CacheInv' /\ OpsInv' /\ OnlySets
<1> USE DEF vars, cacheVars
<1>1. \A s \in Sector : Value(s)' = Value(s)
  BY DEF Value
<1>2. OnlySets
  BY <1>1 DEF OnlySets
<1>3. CacheInv'
  BY DEF CacheInv, AllIdle, Value
<1>4. (\A f \in File : OpFits(op[f], chain[f]))'
  BY DEF OpsInv, OpFits, Op, Entry
<1>5. OpsInv'
  BY <1>4 DEF OpsInv
<1> QED
  BY <1>2, <1>3, <1>5

LEMMA CacheStarts ==
  ASSUME Init
  PROVE  CacheInv /\ OpsInv
<1> USE DEF Init
<1>1. disk \in [Sector -> Entry] /\ sectorBlock \in [Sector -> Entry]
  BY Sizes
<1>2. Cardinality({}) <= CacheSize
  BY FS_EmptySet, SizeAssumption
<1>3. AllIdle /\ \A s \in Sector : Value(s) = disk[s]
  BY DEF AllIdle, Value
<1>4. CacheInv
  BY <1>1, <1>2, <1>3 DEF CacheInv
<1>5. <<>> \in Seq(Sector) /\ Len(<<>>) <= QueueSize
  BY SizeAssumption
<1>6. Idle \in Op /\ \A f \in File : OpFits(op[f], chain[f])
  BY IdleFits DEF OpFits
<1>7. chain \in [File -> Seq(Sector)] /\ op \in [File -> Op]
  BY <1>5, <1>6
<1> QED
  BY <1>4, <1>5, <1>6, <1>7 DEF OpsInv

LEMMA CacheSteps ==
  ASSUME CacheInv, OpsInv, [Next]_vars
  PROVE  CacheInv' /\ OpsInv' /\ OnlySets
<1>1. CASE \E f \in File : Write(f) \/ Delete(f)
  <2>1. PICK f \in File : Write(f) \/ Delete(f)
    BY <1>1
  <2> QED
    BY <2>1, StartWriteStep, WalkStep, TakeStep, MarkStep, LinkStep,
       StartDeleteStep, ClearStep, PutBackStep DEF Write, Delete
<1> QED
  BY <1>1, DriveSteps, StutterStep DEF Next

\* An entry of the table changes only where the kernel sets it: whatever is
\* evicted, flushed, unmounted and restarted, no change is lost and no old
\* value comes back (SetSectorEntryValue, FlushTableCache).
THEOREM TableIsCoherent == Spec => OnlySetsChange
<1>1. Init => CacheInv /\ OpsInv
  BY CacheStarts
<1>2. CacheInv /\ OpsInv /\ [Next]_vars => (CacheInv /\ OpsInv)'
  BY CacheSteps
<1>3. CacheInv /\ OpsInv /\ [Next]_vars =>
        [\A s \in Sector : Value(s)' # Value(s) =>
           \E f \in File : \/ At(f, "taken") /\ op[f].cur = s /\ Value(s)' = EOC
                           \/ At(f, "marked") /\ op[f].prev = s /\ Value(s)' = op[f].cur
                           \/ At(f, "clear") /\ op[f].cur = s /\ Value(s)' = 0]_vars
  BY CacheSteps DEF OnlySets, Sets
<1> QED
  BY <1>1, <1>2, <1>3, PTL DEF Spec, OnlySetsChange

-----------------------------------------------------------------------------
(* The pool against the table.                                             *)

\* Nothing was found only where nothing is free: the scan reads every block
\* that is not cached.
LEMMA NothingFree ==
  ASSUME CacheInv, LoadFreeSectors = <<>>, NEW s \in Sector
  PROVE  Value(s) # 0
<1> DEFINE C == {t \in Sector : BLOCK_ID(t) \in cached /\ Value(t) = 0}
           D == {t \in Sector : BLOCK_ID(t) \in ReadBlocks /\ disk[t] = 0}
<1>1. CachedFree = <<>> /\ DiskFree = <<>>
  BY LoadedPool
<1>2. C \in SUBSET Nat /\ D \in SUBSET Nat /\ IsFiniteSet(C) /\ IsFiniteSet(D)
  BY Sizes, FiniteSets
<1>3. InOrder(C) = <<>> /\ InOrder(D) = <<>>
  BY <1>1 DEF CachedFree, DiskFree
<1>4. C = {} /\ D = {}
  <2> HIDE DEF C, D
  <2>1. DOMAIN <<>> = {}
    OBVIOUS
  <2> QED
    BY <1>2, <1>3, <2>1, InOrderListsSet
<1>5. CASE BLOCK_ID(s) \in cached
  BY <1>4, <1>5
<1>6. CASE BLOCK_ID(s) \notin cached
  <2>1. BLOCK_ID(s) \in ReadBlocks /\ Value(s) = disk[s]
    BY <1>6, BlockOfSector, ScanIsComplete DEF Value
  <2> QED
    BY <1>4, <2>1
<1> QED
  BY <1>5, <1>6

\* Where an operation goes by a step.
LEMMA RefusalIsTake ==
  ASSUME OpsInv, [Next]_vars, NEW f \in File, At(f, "walk"), op[f].cur = EOC, op'[f].pc = "idle"
  PROVE  Take(f) /\ Refilled = <<>>
<1> USE DEF At
<1>1. op'[f] # op[f]
  OBVIOUS
<1>2. \A o : [op EXCEPT ![f] = o][f] = o
  BY DEF OpsInv
<1>3. \A g \in File : \A o : g # f => [op EXCEPT ![g] = o][f] = op[f]
  BY DEF OpsInv
<1>4. \A g \in File : Write(g) \/ Delete(g) => \E o : op' = [op EXCEPT ![g] = o]
  BY DEF Write, Delete, StartWrite, Walk, Take, Mark, Link, StartDelete, Clear, PutBack, Step, Finish
<1>5. PICK g \in File : Write(g) \/ Delete(g)
  BY <1>1 DEF Next, Mount, UnMount, Restart, vars
<1>6. g = f
  BY ZenonT(60), <1>1, <1>3, <1>4, <1>5
<1>7. Take(f)
  BY <1>5, <1>6 DEF Write, Delete, StartWrite, CanStart, Walk, Mark, Link, StartDelete, Clear, PutBack
<1>8. ASSUME Refilled # <<>> PROVE FALSE
  <2>1. op' = [op EXCEPT ![f] = [pc |-> "taken", cur |-> Head(Refilled), prev |-> op[f].prev]]
    BY <1>7, <1>8 DEF Take, Step
  <2>2. op'[f] = [pc |-> "taken", cur |-> Head(Refilled), prev |-> op[f].prev]
    BY <1>2, <2>1
  <2> QED
    BY <2>2
<1> QED
  BY <1>7, <1>8

\* "No free sectors available on disk" is thrown only when there is none,
\* whatever other operations do in between (AllocateSector, LoadFreeSectors).
THEOREM OnlyFullDrivesRefuse == Spec => [][RefusesOnlyFull]_vars
<1>1. Init => CacheInv /\ OpsInv
  BY CacheStarts
<1>2. CacheInv /\ OpsInv /\ [Next]_vars => (CacheInv /\ OpsInv)'
  BY CacheSteps
<1>3. CacheInv /\ OpsInv /\ [Next]_vars => RefusesOnlyFull
  <2> SUFFICES ASSUME CacheInv, OpsInv, [Next]_vars, NEW f \in File,
                      At(f, "walk") /\ op[f].cur = EOC /\ op'[f].pc = "idle"
               PROVE  \A s \in Sector : Value(s) # 0
    BY DEF RefusesOnlyFull
  <2>1. Refilled = <<>>
    BY RefusalIsTake
  <2>2. LoadFreeSectors = <<>>
    BY <2>1 DEF Refilled
  <2> QED
    BY <2>2, NothingFree
<1> QED
  BY <1>1, <1>2, <1>3, PTL DEF Spec

-----------------------------------------------------------------------------
(* The space of a drive: no sector is lost or has two owners as long as    *)
(* operations do not overlap and ReadsMissCache holds.                     *)

Has(q, x) == \E i \in 1 .. Len(q) : q[i] = x
OneAtATime == \A f, g \in File : op[f] # Idle /\ op[g] # Idle => f = g

\* The table leads through a chain in order, also while it is given back.
ChainRight(f) ==
  /\ \A i \in 1 .. Len(chain[f]) :
       /\ chain[f][i] # 0
       /\ Entries[chain[f][i]] = IF i = Len(chain[f]) THEN EOC ELSE chain[f][i + 1]
  /\ \A i, j \in 1 .. Len(chain[f]) : chain[f][i] = chain[f][j] => i = j
ChainsApart == \A f, g \in File, s \in Sector : Has(chain[f], s) /\ Has(chain[g], s) => f = g

\* What waits in the pool is free and waits there once.
PoolRight ==
  /\ \A i \in 1 .. Len(pool) : Entries[pool[i]] = 0
  /\ \A i, j \in 1 .. Len(pool) : pool[i] = pool[j] => i = j

\* Where an operation stands in the chain of its file.
AtEnd(f) == chain[f] # <<>> => op[f].prev = chain[f][Len(chain[f])]
PlaceRight(f) ==
  /\ At(f, "walk") => IF op[f].cur = EOC THEN AtEnd(f) ELSE Has(chain[f], op[f].cur)
  /\ At(f, "taken") => AtEnd(f) /\ Entries[op[f].cur] = 0 /\ ~Has(pool, op[f].cur)
  /\ At(f, "marked") => /\ AtEnd(f) /\ Entries[op[f].cur] = EOC /\ op[f].cur # 0
                        /\ \A g \in File : ~Has(chain[g], op[f].cur)
  /\ At(f, "clear") => chain[f] # <<>> /\ op[f].cur = chain[f][1]
  /\ At(f, "cleared") => /\ Entries[op[f].cur] = 0 /\ ~Has(pool, op[f].cur)
                         /\ op[f].prev = IF chain[f] = <<>> THEN EOC ELSE chain[f][1]

\* Whatever is not free is the root's, a file's, or about to be.
NoneLost ==
  \A s \in Sector : Entries[s] # 0 =>
    \/ s = 0
    \/ \E f \in File : Has(chain[f], s)
    \/ \E f \in File : At(f, "marked") /\ op[f].cur = s
Taken == {s \in Sector : Entries[s] # 0}
Counted == used = Cardinality(Taken)

SpaceInv ==
  /\ OneAtATime /\ ChainsApart /\ PoolRight /\ NoneLost /\ Counted /\ Entries[0] = EOC
  /\ \A f \in File : ChainRight(f) /\ PlaceRight(f)

\* Read without going over cached blocks, the table yields free sectors, each once.
LEMMA LoadsFree ==
  ASSUME CacheInv, ReadBlocks \cap cached = {}
  PROVE  /\ \A i \in 1 .. Len(LoadFreeSectors) : Entries[LoadFreeSectors[i]] = 0
         /\ \A i, j \in 1 .. Len(LoadFreeSectors) : LoadFreeSectors[i] = LoadFreeSectors[j] => i = j
<1> DEFINE C == {s \in Sector : BLOCK_ID(s) \in cached /\ Value(s) = 0}
           D == {s \in Sector : BLOCK_ID(s) \in ReadBlocks /\ disk[s] = 0}
<1>1. C \in SUBSET Nat /\ D \in SUBSET Nat /\ IsFiniteSet(C) /\ IsFiniteSet(D)
  BY Sizes, FiniteSets
<1>2. C \cap D = {}
  OBVIOUS
<1>3. \A s \in C \cup D : s \in Sector /\ Entries[s] = 0
  <2>1. \A s \in D : BLOCK_ID(s) \notin cached
    OBVIOUS
  <2> QED
    BY <2>1 DEF Entries, Value
<1> HIDE DEF C, D
<1>4. /\ CachedFree \in Seq(C) /\ DiskFree \in Seq(D)
      /\ \A i, j \in DOMAIN CachedFree : CachedFree[i] = CachedFree[j] => i = j
      /\ \A i, j \in DOMAIN DiskFree : DiskFree[i] = DiskFree[j] => i = j
  <2>1. CachedFree = InOrder(C) /\ DiskFree = InOrder(D)
    BY DEF CachedFree, DiskFree, C, D
  <2> QED
    BY <1>1, <2>1, InOrderListsSet
<1> DEFINE m == Len(CachedFree)
           n == Len(DiskFree)
<1>5. m \in Nat /\ n \in Nat /\ DOMAIN CachedFree = 1 .. m /\ DOMAIN DiskFree = 1 .. n
  BY <1>4
<1>6. \A i \in 1 .. m + n : Found[i] = IF i <= m THEN CachedFree[i] ELSE DiskFree[i - m]
  BY <1>4, <1>5 DEF Found
<1>7. \A i \in 1 .. m + n : IF i <= m THEN Found[i] \in C /\ i \in 1 .. m ELSE Found[i] \in D /\ i - m \in 1 .. n
  BY <1>4, <1>5, <1>6
<1> HIDE DEF m, n
<1>8. \A i, j \in 1 .. m + n : Found[i] = Found[j] => i = j
  <2> SUFFICES ASSUME NEW i \in 1 .. m + n, NEW j \in 1 .. m + n, Found[i] = Found[j]
               PROVE  i = j
    OBVIOUS
  <2>1. CASE i <= m /\ j <= m
    BY <1>4, <1>5, <1>6, <1>7, <2>1
  <2>2. CASE ~(i <= m) /\ ~(j <= m)
    <3>1. i - m = j - m
      BY <1>4, <1>5, <1>6, <1>7, <2>2
    <3> QED
      BY <1>5, <3>1
  <2>3. (i <= m) <=> (j <= m)
    BY <1>2, <1>7
  <2> QED
    BY <2>1, <2>2, <2>3
<1>9. Len(Found) = m + n
  BY FoundType DEF m, n
<1>10. /\ Len(LoadFreeSectors) \in Nat /\ Len(LoadFreeSectors) <= m + n
       /\ \A i \in 1 .. Len(LoadFreeSectors) : LoadFreeSectors[i] = Found[i] /\ i \in 1 .. m + n
  <2>1. Len(LoadFreeSectors) \in Nat /\ Len(LoadFreeSectors) <= m + n
    BY <1>9, LoadedPool
  <2> QED
    BY <1>5, <2>1, LoadedPool
<1> QED
  BY <1>3, <1>7, <1>8, <1>10

\* All the others are idle, before and after a step of one operation.
LEMMA OthersIdle ==
  ASSUME SpaceInv, OpsInv, NEW f \in File, AllIdle \/ op[f].pc # "idle", NEW o, op' = [op EXCEPT ![f] = o]
  PROVE  /\ op'[f] = o
         /\ \A g \in File : g # f => op[g] = Idle /\ op'[g] = Idle
         /\ OneAtATime'
         /\ \A g \in File : \A pc : g # f /\ pc # "idle" => op[g].pc # pc /\ op'[g].pc # pc
<1>1. \A g \in File : g # f => op[g] = Idle
  <2>1. op[f].pc # "idle" => op[f] # Idle
    BY DEF Idle
  <2> QED
    BY <2>1 DEF SpaceInv, OneAtATime, AllIdle
<1>2. \A g \in File : op'[g] = IF g = f THEN o ELSE op[g]
  BY DEF OpsInv
<1>3. OneAtATime'
  BY <1>1, <1>2 DEF OneAtATime, Idle
<1> QED
  BY <1>1, <1>2, <1>3 DEF Idle

LEMMA EntriesKept ==
  ASSUME \A s \in Sector : Value(s)' = Value(s)
  PROVE  Entries' = Entries
BY DEF Entries

LEMMA IdlePlace ==
  ASSUME NEW f \in File, op'[f] = Idle
  PROVE  PlaceRight(f)'
BY DEF PlaceRight, At, Idle

\* A step that leaves the table and the chains alone.
LEMMA SpaceKept ==
  ASSUME SpaceInv, Entries' = Entries, UNCHANGED <<chain, used>>,
         OneAtATime', PoolRight', \A f \in File : PlaceRight(f)',
         \A f \in File : At(f, "marked") => op'[f] = op[f]
  PROVE  SpaceInv'
<1>1. \A f \in File : ChainRight(f)'
  BY DEF SpaceInv, ChainRight
<1>2. ChainsApart' /\ Counted' /\ (Entries[0] = EOC)'
  BY DEF SpaceInv, ChainsApart, Counted, Taken, Has, EOC, NSectors, Sector
<1>3. NoneLost'
  <2> SUFFICES ASSUME NEW s \in Sector, Entries[s] # 0
               PROVE  \/ s = 0
                      \/ \E f \in File : Has(chain'[f], s)
                      \/ \E f \in File : op'[f].pc = "marked" /\ op'[f].cur = s
    BY DEF NoneLost, At, Has
  <2>1. s = 0 \/ (\E f \in File : Has(chain[f], s)) \/ \E f \in File : At(f, "marked") /\ op[f].cur = s
    BY DEF SpaceInv, NoneLost
  <2> QED
    BY <2>1 DEF At
<1> QED
  BY <1>1, <1>2, <1>3 DEF SpaceInv

\* The same where the pool does not change either.
LEMMA PlaceMoves ==
  ASSUME OpsInv, SpaceInv, NEW f \in File, AllIdle \/ op[f].pc # "idle", op[f].pc # "marked",
         NEW o, op' = [op EXCEPT ![f] = o], PlaceRight(f)', PoolRight',
         Entries' = Entries, UNCHANGED <<chain, used>>
  PROVE  SpaceInv'
<1>1. /\ OneAtATime'
      /\ \A g \in File : g # f => op[g] = Idle /\ op'[g] = Idle
  BY OthersIdle
<1>2. \A g \in File : PlaceRight(g)'
  BY <1>1, IdlePlace
<1>3. \A g \in File : At(g, "marked") => op'[g] = op[g]
  BY <1>1 DEF At
<1> QED
  BY <1>1, <1>2, <1>3, SpaceKept

LEMMA SamePool ==
  ASSUME SpaceInv, Entries' = Entries, UNCHANGED pool
  PROVE  PoolRight'
BY DEF SpaceInv, PoolRight

LEMMA SameTable ==
  ASSUME UNCHANGED cacheVars
  PROVE  Entries' = Entries
BY DEF cacheVars, Entries, Value

LEMMA SpaceStartWrite ==
  ASSUME Exclusive, CacheInv, OpsInv, SpaceInv, NEW f \in File, StartWrite(f)
  PROVE  SpaceInv'
<1>1. /\ AllIdle /\ op[f].pc = "idle" /\ UNCHANGED <<pool, used, chain>>
      /\ UNCHANGED cacheVars
  BY DEF StartWrite, CanStart, At
<1>2. PICK o : /\ op' = [op EXCEPT ![f] = o] /\ o.pc = "walk"
               /\ IF o.cur = EOC THEN chain[f] = <<>> ELSE Has(chain[f], o.cur)
  <2>1. CASE chain[f] = <<>>
    <3> DEFINE o == [pc |-> "walk", cur |-> EOC, prev |-> EOC]
    <3>1. op' = [op EXCEPT ![f] = o] /\ o.pc = "walk" /\ o.cur = EOC
      BY <2>1 DEF StartWrite, Step
    <3> HIDE DEF o
    <3> QED
      BY <2>1, <3>1
  <2>2. CASE chain[f] # <<>>
    <3>1. PICK i \in DOMAIN chain[f] : Step(f, "walk", chain[f][i], EOC)
      BY <2>2 DEF StartWrite
    <3> DEFINE x == chain[f][i]
               o == [pc |-> "walk", cur |-> x, prev |-> EOC]
    <3>2. x \in Sector /\ Has(chain[f], x)
      BY OpFacts DEF Has
    <3>3. op' = [op EXCEPT ![f] = o]
      BY <3>1 DEF Step
    <3> HIDE DEF x
    <3>4. o.pc = "walk" /\ o.cur = x /\ o.cur # EOC
      BY <3>2, Sizes
    <3> HIDE DEF o
    <3> QED
      BY <3>2, <3>3, <3>4
  <2> QED
    BY <2>1, <2>2
<1>3. op'[f] = o
  BY <1>2 DEF OpsInv
<1>4. PlaceRight(f)'
  BY <1>1, <1>2, <1>3 DEF PlaceRight, At, AtEnd, EOC, NSectors, Has
<1>5. Entries' = Entries
  BY <1>1, SameTable
<1> QED
  BY <1>1, <1>2, <1>4, <1>5, SamePool, PlaceMoves

LEMMA SpaceFinish ==
  ASSUME OpsInv, SpaceInv, NEW f \in File, op[f].pc # "idle", op[f].pc # "marked", Finish(f),
         Entries' = Entries, PoolRight', UNCHANGED <<chain, used>>
  PROVE  SpaceInv'
<1>1. op' = [op EXCEPT ![f] = Idle] /\ op'[f] = Idle
  BY DEF Finish, OpsInv
<1>2. PlaceRight(f)'
  BY <1>1, IdlePlace
<1> QED
  BY <1>1, <1>2, PlaceMoves

LEMMA SpaceWalk ==
  ASSUME CacheInv, OpsInv, SpaceInv, NEW f \in File, Walk(f)
  PROVE  SpaceInv'
<1> DEFINE s == op[f].cur
           o == [pc |-> "walk", cur |-> Value(s), prev |-> s]
<1>1. /\ op[f].pc = "walk" /\ s # EOC /\ UNCHANGED <<pool, used, chain>>
      /\ \/ op' = [op EXCEPT ![f] = o]
         \/ Finish(f)
  BY DEF Walk, Step, At
<1>2. Entries' = Entries
  <2>1. CASE Finish(f) /\ UNCHANGED cacheVars
    BY <2>1, SameTable
  <2>2. CASE GetSectorEntryValue(s)
    <3>1. Entries \in [Sector -> Entry] /\ \A t \in Sector : Entries[t] = Value(t)
      BY EntriesType
    <3>2. s \in Sector /\ mounted /\ mounted' /\ Touch(s, Entries, FALSE)
      BY <1>1, <2>2, OpFacts, AtWork DEF Entry, Walk, GetSectorEntryValue
    <3>3. \A t \in Sector : Value(t)' = Entries[t]
      BY <3>1, <3>2, TouchStep
    <3> QED
      BY <3>1, <3>3, EntriesKept
  <2> QED
    BY <2>1, <2>2 DEF Walk
<1>3. CASE Finish(f)
  BY <1>1, <1>2, <1>3, SamePool, SpaceFinish
<1>4. CASE op' = [op EXCEPT ![f] = o]
  <2>1. s \in Sector /\ Entries[s] = Value(s) /\ Has(chain[f], s)
    BY <1>1, OpFacts, EntriesType DEF Entry, SpaceInv, PlaceRight, At
  <2>2. PICK i \in 1 .. Len(chain[f]) : chain[f][i] = s
    BY <2>1 DEF Has
  <2>3. chain[f] \in Seq(Sector) /\ Len(chain[f]) \in Nat
    BY OpFacts
  <2>4. Value(s) = IF i = Len(chain[f]) THEN EOC ELSE chain[f][i + 1]
    BY <2>1, <2>2 DEF SpaceInv, ChainRight
  <2>5. CASE i = Len(chain[f])
    <3>1. Value(s) = EOC /\ s = chain[f][Len(chain[f])]
      BY <2>2, <2>4, <2>5
    <3>2. op'[f] = o
      BY <1>4 DEF OpsInv
    <3>3. PlaceRight(f)'
      BY <1>1, <3>1, <3>2 DEF PlaceRight, At, AtEnd, EOC, NSectors
    <3> HIDE DEF o
    <3> QED
      BY <1>1, <1>2, <1>4, <3>3, SamePool, PlaceMoves
  <2>6. CASE i # Len(chain[f])
    <3>1. i + 1 \in 1 .. Len(chain[f]) /\ Value(s) = chain[f][i + 1] /\ Value(s) \in Sector
      BY <2>2, <2>3, <2>4, <2>6
    <3>2. Has(chain[f], Value(s)) /\ Value(s) # EOC
      BY <3>1, Sizes DEF Has
    <3>3. op'[f] = o
      BY <1>4 DEF OpsInv
    <3>4. PlaceRight(f)'
      BY <1>1, <3>2, <3>3 DEF PlaceRight, At, Has, EOC, NSectors
    <3> HIDE DEF o
    <3> QED
      BY <1>1, <1>2, <1>4, <3>4, SamePool, PlaceMoves
  <2> QED
    BY <2>5, <2>6
<1> QED
  BY <1>1, <1>3, <1>4

LEMMA FirstAndRest ==
  ASSUME NEW q \in Seq(Sector), q # <<>>
  PROVE  /\ Head(q) = q[1] /\ Head(q) \in Sector
         /\ Tail(q) \in Seq(Sector) /\ Len(Tail(q)) = Len(q) - 1 /\ Len(q) \in Nat /\ Len(q) >= 1
         /\ \A i \in 1 .. Len(q) - 1 : Tail(q)[i] = q[i + 1]
         /\ Tail(q) = <<>> <=> Len(q) = 1
<1>1. /\ Head(q) = q[1] /\ Head(q) \in Sector
      /\ Tail(q) \in Seq(Sector) /\ Len(Tail(q)) = Len(q) - 1 /\ Len(q) \in Nat /\ Len(q) >= 1
      /\ \A i \in 1 .. Len(q) - 1 : Tail(q)[i] = q[i + 1]
  OBVIOUS
<1>2. Len(q) = 1 => Tail(q) = <<>>
  <2> DEFINE z == Tail(q)
  <2>1. z \in Seq(Sector) /\ Len(z) = Len(q) - 1
    BY <1>1
  <2> HIDE DEF z
  <2>2. Len(q) = 1 => Len(z) = 0
    BY <2>1
  <2>3. Len(z) = 0 => z = <<>>
    BY <2>1
  <2>4. Len(q) = 1 => z = <<>>
    BY <2>2, <2>3
  <2> QED
    BY <2>4 DEF z
<1>3. Tail(q) = <<>> => Len(q) - 1 = 0
  BY <1>1
<1> QED
  BY <1>1, <1>2, <1>3

LEMMA SpaceTake ==
  ASSUME CacheInv, OpsInv, SpaceInv, ReadsMissCache, NEW f \in File, Take(f)
  PROVE  SpaceInv'
<1> DEFINE R == Refilled
           o == [pc |-> "taken", cur |-> Head(R), prev |-> op[f].prev]
<1>1. /\ op[f].pc = "walk" /\ op[f].cur = EOC /\ UNCHANGED <<cacheVars, used, chain>>
      /\ \/ R = <<>> /\ Finish(f) /\ UNCHANGED pool
         \/ R # <<>> /\ pool' = Tail(R) /\ op' = [op EXCEPT ![f] = o]
  BY DEF Take, Step, At
<1>2. Entries' = Entries
  BY <1>1, SameTable
<1>3. /\ \A i \in 1 .. Len(R) : Entries[R[i]] = 0
      /\ \A i, j \in 1 .. Len(R) : R[i] = R[j] => i = j
  <2>1. CASE pool = <<>>
    BY <2>1, LoadsFree DEF ReadsMissCache, Refilled
  <2>2. CASE pool # <<>>
    BY <2>2 DEF SpaceInv, PoolRight, Refilled
  <2> QED
    BY <2>1, <2>2
<1>4. R \in Seq(Sector)
  BY RefilledType
<1> HIDE DEF R
<1>5. CASE R = <<>> /\ Finish(f) /\ UNCHANGED pool
  BY <1>1, <1>2, <1>5, SamePool, SpaceFinish
<1>6. CASE R # <<>> /\ pool' = Tail(R) /\ op' = [op EXCEPT ![f] = o]
  <2>1. /\ Head(R) = R[1] /\ Len(R) \in Nat /\ Len(R) >= 1 /\ Len(pool') = Len(R) - 1
        /\ \A i \in 1 .. Len(R) - 1 : pool'[i] = R[i + 1]
    BY <1>4, <1>6, FirstAndRest
  <2>2. \A i \in 1 .. Len(pool') : i + 1 \in 1 .. Len(R) /\ pool'[i] = R[i + 1]
    BY <2>1
  <2>3. PoolRight'
    <3>1. \A i \in 1 .. Len(pool') : Entries'[pool'[i]] = 0
      BY <1>2, <1>3, <2>2
    <3>2. \A i, j \in 1 .. Len(pool') : pool'[i] = pool'[j] => i = j
      BY <1>3, <2>1, <2>2
    <3> QED
      BY <3>1, <3>2 DEF PoolRight
  <2>4. 1 \in 1 .. Len(R) /\ Entries'[Head(R)] = 0
    BY <1>2, <1>3, <2>1
  <2>5. \A i \in 1 .. Len(pool') : pool'[i] # Head(R)
    BY <1>3, <2>1, <2>2, <2>4
  <2>6. AtEnd(f)
    BY <1>1 DEF SpaceInv, PlaceRight, At
  <2>7. op'[f] = o
    BY <1>6 DEF OpsInv
  <2>8. op'[f].pc = "taken" /\ op'[f].cur = Head(R) /\ op'[f].prev = op[f].prev
    BY <2>7
  <2>9. PlaceRight(f)'
    BY <1>1, <2>4, <2>5, <2>6, <2>8 DEF PlaceRight, At, AtEnd, Has
  <2> HIDE DEF o
  <2> QED
    BY <1>1, <1>2, <1>6, <2>3, <2>9, PlaceMoves
<1> QED
  BY <1>1, <1>5, <1>6

LEMMA SpaceStartDelete ==
  ASSUME Exclusive, OpsInv, SpaceInv, NEW f \in File, StartDelete(f)
  PROVE  SpaceInv'
<1> DEFINE o == [pc |-> "clear", cur |-> Head(chain[f]), prev |-> EOC]
<1>1. /\ chain[f] # <<>> /\ op' = [op EXCEPT ![f] = o] /\ AllIdle /\ op[f].pc = "idle"
      /\ UNCHANGED <<cacheVars, pool, used, chain>>
  BY DEF StartDelete, Step, CanStart, At
<1>2. op'[f] = o /\ Head(chain[f]) = chain[f][1]
  BY <1>1, OpFacts, FirstAndRest DEF OpsInv
<1>3. PlaceRight(f)'
  BY <1>1, <1>2 DEF PlaceRight, At
<1>4. Entries' = Entries
  BY <1>1, SameTable
<1> HIDE DEF o
<1> QED
  BY <1>1, <1>3, <1>4, SamePool, PlaceMoves

LEMMA SpacePutBack ==
  ASSUME OpsInv, SpaceInv, NEW f \in File, PutBack(f)
  PROVE  SpaceInv'
<1> DEFINE next == op[f].prev
           s == op[f].cur
           o == [pc |-> "clear", cur |-> next, prev |-> EOC]
<1>1. /\ op[f].pc = "cleared" /\ UNCHANGED <<cacheVars, used, chain>>
      /\ pool' = IF Len(pool) < QueueSize THEN Append(pool, s) ELSE pool
      /\ IF next = EOC THEN Finish(f) ELSE op' = [op EXCEPT ![f] = o]
  BY DEF PutBack, Step, At
<1>2. Entries' = Entries
  BY <1>1, SameTable
<1>3. Entries[s] = 0 /\ ~Has(pool, s) /\ next = IF chain[f] = <<>> THEN EOC ELSE chain[f][1]
  BY <1>1 DEF SpaceInv, PlaceRight, At
<1>4. PoolRight'
  <2>1. CASE pool' = pool
    BY <1>2, <2>1, SamePool
  <2>2. CASE pool' = Append(pool, s)
    <3>1. pool \in Seq(Sector) /\ Len(pool) \in Nat
      BY OpFacts
    <3>2. /\ Len(pool') = Len(pool) + 1
          /\ \A i \in 1 .. Len(pool) + 1 : pool'[i] = IF i <= Len(pool) THEN pool[i] ELSE s
      BY <2>2, <3>1
    <3>3. \A i \in 1 .. Len(pool') : (i \in 1 .. Len(pool) /\ pool'[i] = pool[i])
                                      \/ (i = Len(pool) + 1 /\ pool'[i] = s)
      BY <3>1, <3>2
    <3>4. \A i \in 1 .. Len(pool) : pool[i] # s /\ Entries[pool[i]] = 0
      BY <1>3 DEF Has, SpaceInv, PoolRight
    <3>5. \A i, j \in 1 .. Len(pool) : pool[i] = pool[j] => i = j
      BY DEF SpaceInv, PoolRight
    <3>6. \A i \in 1 .. Len(pool') : Entries'[pool'[i]] = 0
      BY <1>2, <1>3, <3>3, <3>4
    <3>7. \A i, j \in 1 .. Len(pool') : pool'[i] = pool'[j] => i = j
      BY <3>3, <3>4, <3>5
    <3> QED
      BY <3>6, <3>7 DEF PoolRight
  <2> QED
    BY <1>1, <2>1, <2>2
<1>5. CASE next = EOC
  BY <1>1, <1>2, <1>4, <1>5, SpaceFinish
<1>6. CASE next # EOC
  <2>1. op' = [op EXCEPT ![f] = o] /\ op'[f] = o
    BY <1>1, <1>6 DEF OpsInv
  <2>2. chain[f] # <<>> /\ next = chain[f][1]
    BY <1>3, <1>6
  <2>3. PlaceRight(f)'
    BY <1>1, <2>1, <2>2 DEF PlaceRight, At
  <2> HIDE DEF o
  <2> QED
    BY <1>1, <1>2, <1>4, <2>1, <2>3, PlaceMoves
<1> QED
  BY <1>5, <1>6

LEMMA EntrySet ==
  ASSUME CacheInv, NEW s \in Sector, NEW v \in Entry, SetSectorEntryValue(s, v), mounted, UNCHANGED mounted
  PROVE  /\ Entries \in [Sector -> Entry] /\ Entries' = [Entries EXCEPT ![s] = v]
         /\ used' = used + (CASE v = EOC -> 1 [] v = 0 -> -1 [] OTHER -> 0)
<1>1. \A t \in Sector : Value(t)' = IF t = s THEN v ELSE Value(t)
  BY SetStep
<1>2. Entries \in [Sector -> Entry]
  BY EntriesType
<1>3. Entries' = [Entries EXCEPT ![s] = v]
  BY <1>1 DEF Entries
<1> QED
  BY <1>2, <1>3 DEF SetSectorEntryValue

\* The sectors of a chain are in the drive and taken.
LEMMA ChainTaken ==
  ASSUME OpsInv, SpaceInv, NEW f \in File
  PROVE  /\ chain[f] \in Seq(Sector) /\ Len(chain[f]) \in Nat
         /\ \A i \in 1 .. Len(chain[f]) :
              chain[f][i] \in Sector /\ chain[f][i] # 0 /\ Entries[chain[f][i]] # 0
<1>1. chain[f] \in Seq(Sector) /\ Len(chain[f]) \in Nat
  BY OpFacts
<1>2. ASSUME NEW i \in 1 .. Len(chain[f])
      PROVE  chain[f][i] \in Sector /\ chain[f][i] # 0 /\ Entries[chain[f][i]] # 0
  <2>1. i # Len(chain[f]) => i + 1 \in 1 .. Len(chain[f])
    BY <1>1
  <2> QED
    BY <1>1, <2>1, Sizes DEF SpaceInv, ChainRight
<1> QED
  BY <1>1, <1>2

LEMMA TakenFinite == IsFiniteSet(Taken) /\ Cardinality(Taken) \in Nat
BY FiniteSets DEF Taken

LEMMA SpaceMark ==
  ASSUME CacheInv, OpsInv, SpaceInv, NEW f \in File, Mark(f)
  PROVE  SpaceInv'
<1> DEFINE s == op[f].cur
           o == [pc |-> "marked", cur |-> s, prev |-> op[f].prev]
<1>1. /\ op[f].pc = "taken" /\ SetSectorEntryValue(s, EOC) /\ op' = [op EXCEPT ![f] = o]
      /\ UNCHANGED <<pool, mounted, chain>>
  BY DEF Mark, Step, At
<1>2. s \in Sector /\ mounted
  BY <1>1, OpFacts, AtWork DEF OpFits
<1>3. Entries \in [Sector -> Entry] /\ Entries' = [Entries EXCEPT ![s] = EOC] /\ used' = used + 1
  BY <1>1, <1>2, Sizes, EntrySet
<1>4. \A t \in Sector : Entries'[t] = IF t = s THEN EOC ELSE Entries[t]
  BY <1>3
<1>5. AtEnd(f) /\ Entries[s] = 0 /\ ~Has(pool, s) /\ Entries[0] = EOC
  BY <1>1 DEF SpaceInv, PlaceRight, At
<1>6. /\ op'[f] = o /\ OneAtATime'
      /\ \A g \in File : g # f => op[g] = Idle /\ op'[g] = Idle
  BY <1>1, OthersIdle
<1>7. s # 0 /\ \A g \in File : ~Has(chain[g], s)
  BY <1>5, Sizes, ChainTaken DEF Has
<1>8. \A g \in File : ChainRight(g)'
  <2> TAKE g \in File
  <2>1. \A i \in 1 .. Len(chain[g]) : Entries'[chain[g][i]] = Entries[chain[g][i]]
    BY <1>4, <1>7, ChainTaken DEF Has
  <2> QED
    BY <1>1, <2>1 DEF SpaceInv, ChainRight, EOC, NSectors
<1>9. ChainsApart'
  BY <1>1 DEF SpaceInv, ChainsApart, Has, Sector
<1>10. PoolRight'
  <2>1. \A i \in 1 .. Len(pool) : pool[i] \in Sector /\ pool[i] # s
    BY <1>5, OpFacts DEF Has
  <2> QED
    BY <1>1, <1>4, <2>1 DEF SpaceInv, PoolRight
<1>11. PlaceRight(f)'
  <2>1. op'[f].pc = "marked" /\ op'[f].cur = s /\ op'[f].prev = op[f].prev
    BY <1>6
  <2> QED
    BY <1>1, <1>2, <1>4, <1>5, <1>7, <2>1 DEF PlaceRight, At, AtEnd, Has, EOC, NSectors
<1>12. \A g \in File : PlaceRight(g)'
  BY <1>6, <1>11, IdlePlace
<1>13. NoneLost'
  <2> SUFFICES ASSUME NEW t \in Sector, Entries'[t] # 0
               PROVE  \/ t = 0
                      \/ \E g \in File : Has(chain[g], t)
                      \/ \E g \in File : op'[g].pc = "marked" /\ op'[g].cur = t
    BY <1>1 DEF NoneLost, At, Has
  <2>1. CASE t = s
    BY <1>6, <2>1
  <2>2. CASE t # s
    <3>1. \A g \in File : op[g].pc # "marked"
      BY <1>1, <1>6 DEF Idle
    <3> QED
      BY <1>4, <2>2, <3>1 DEF SpaceInv, NoneLost, At
  <2> QED
    BY <2>1, <2>2
<1>14. Counted'
  <2>1. Taken' = Taken \cup {s} /\ s \notin Taken
    BY <1>2, <1>4, <1>5, Sizes DEF Taken
  <2>2. Cardinality(Taken \cup {s}) = Cardinality(Taken) + 1
    BY <2>1, TakenFinite, FS_AddElement
  <2> QED
    BY <1>3, <2>1, <2>2 DEF SpaceInv, Counted
<1>15. (Entries[0] = EOC)'
  BY <1>4, <1>5, Sizes DEF EOC, NSectors
<1> QED
  BY <1>6, <1>8, <1>9, <1>10, <1>12, <1>13, <1>14, <1>15 DEF SpaceInv

LEMMA SpaceLink ==
  ASSUME CacheInv, OpsInv, SpaceInv, NEW f \in File, Link(f)
  PROVE  SpaceInv'
<1> DEFINE s == op[f].cur
           p == op[f].prev
           n == Len(chain[f])
           q == Append(chain[f], s)
<1>1. /\ op[f].pc = "marked" /\ chain' = [chain EXCEPT ![f] = q] /\ UNCHANGED <<pool, mounted>>
      /\ Step(f, "walk", EOC, s) \/ Finish(f)
      /\ IF chain[f] = <<>> THEN UNCHANGED <<cacheVars, used>> ELSE SetSectorEntryValue(p, s)
  BY DEF Link, At
<1>2. /\ s \in Sector /\ mounted /\ s # 0 /\ Entries[s] = EOC
      /\ \A g \in File : ~Has(chain[g], s)
      /\ Entries \in [Sector -> Entry] /\ Entries[0] = EOC
  BY <1>1, OpFacts, AtWork, EntriesType DEF OpFits, SpaceInv, PlaceRight, At
<1>3. chain[f] # <<>> => n \in 1 .. n /\ p = chain[f][n] /\ p \in Sector /\ Entries[p] = EOC /\ p # 0
  <2>1. chain[f] # <<>> => n >= 1 /\ n \in Nat
    BY OpFacts
  <2>2. chain[f] # <<>> => p = chain[f][n]
    BY <1>1 DEF SpaceInv, PlaceRight, At, AtEnd
  <2> QED
    BY <2>1, <2>2, ChainTaken DEF SpaceInv, ChainRight
<1>4. /\ n \in Nat /\ Len(q) = n + 1
      /\ \A i \in 1 .. n + 1 : q[i] = IF i <= n THEN chain[f][i] ELSE s
  BY <1>2, ChainTaken
<1>5. chain[f] = <<>> => n = 0
  OBVIOUS
<1>6. /\ \A t \in Sector : Entries'[t] = IF chain[f] # <<>> /\ t = p THEN s ELSE Entries[t]
      /\ used' = used
  <2>1. CASE chain[f] = <<>>
    BY <1>1, <2>1, SameTable
  <2>2. CASE chain[f] # <<>>
    <3>1. Entries' = [Entries EXCEPT ![p] = s] /\ used' = used + (CASE s = EOC -> 1 [] s = 0 -> -1 [] OTHER -> 0)
      BY <1>1, <1>2, <1>3, <2>2, Sizes, EntrySet
    <3>2. used \in Int
      BY TakenFinite DEF SpaceInv, Counted
    <3>3. used' = used
      BY <1>2, <3>1, <3>2, Sizes
    <3> QED
      BY <1>2, <2>2, <3>1, <3>3
  <2> QED
    BY <2>1, <2>2
<1> HIDE DEF q
<1>7. /\ \A g \in File : chain'[g] = IF g = f THEN q ELSE chain[g]
      /\ \A t : Has(q, t) <=> Has(chain[f], t) \/ t = s
  <2>1. \A g \in File : chain'[g] = IF g = f THEN q ELSE chain[g]
    BY <1>1 DEF OpsInv
  <2>2. ASSUME NEW t PROVE Has(q, t) <=> Has(chain[f], t) \/ t = s
    <3>1. Has(chain[f], t) => Has(q, t)
      BY <1>4 DEF Has
    <3>2. Has(q, s)
      BY <1>4 DEF Has
    <3>3. Has(q, t) => Has(chain[f], t) \/ t = s
      BY <1>4 DEF Has
    <3> QED
      BY <3>1, <3>2, <3>3
  <2> QED
    BY <2>1, <2>2
<1>8. PICK o : op' = [op EXCEPT ![f] = o] /\ (o = Idle \/ o = [pc |-> "walk", cur |-> EOC, prev |-> s])
  BY <1>1 DEF Step, Finish
<1>9. /\ op'[f] = o /\ OneAtATime'
      /\ \A g \in File : g # f => op[g] = Idle /\ op'[g] = Idle
  BY <1>1, <1>8, OthersIdle
<1>10. ChainRight(f)'
  <2>1. ASSUME NEW i \in 1 .. n + 1
        PROVE  q[i] # 0 /\ Entries'[q[i]] = IF i = n + 1 THEN EOC ELSE q[i + 1]
    <3>1. CASE i = n + 1
      <4>1. q[i] = s /\ (chain[f] # <<>> => s # p)
        BY <1>2, <1>3, <1>4, <3>1 DEF Has
      <4> QED
        BY <1>2, <1>6, <3>1, <4>1
    <3>2. CASE i # n + 1
      <4>1. i \in 1 .. n /\ i + 1 \in 1 .. n + 1 /\ q[i] = chain[f][i] /\ chain[f] # <<>>
        BY <1>4, <1>5, <3>2
      <4>2. q[i] \in Sector /\ q[i] # 0
        BY <4>1, ChainTaken
      <4>3. CASE i = n
        BY <1>3, <1>4, <1>6, <4>1, <4>2, <4>3
      <4>4. CASE i # n
        <5>1. q[i] # p /\ i + 1 \in 1 .. n
          BY <1>3, <1>4, <4>1, <4>4 DEF SpaceInv, ChainRight
        <5>2. Entries[q[i]] = chain[f][i + 1] /\ q[i + 1] = chain[f][i + 1]
          BY <1>4, <4>1, <4>4, <5>1 DEF SpaceInv, ChainRight
        <5> QED
          BY <1>6, <3>2, <4>2, <5>1, <5>2
      <4> QED
        BY <4>3, <4>4
    <3> QED
      BY <3>1, <3>2
  <2>2. \A i, j \in 1 .. n : chain[f][i] = chain[f][j] => i = j
    BY DEF SpaceInv, ChainRight
  <2>3. \A i \in 1 .. n : chain[f][i] # s
    BY <1>2 DEF Has
  <2>4. \A i \in 1 .. n + 1 : (i \in 1 .. n /\ q[i] = chain[f][i]) \/ (i = n + 1 /\ q[i] = s)
    BY <1>4
  <2>5. \A i, j \in 1 .. n + 1 : q[i] = q[j] => i = j
    BY <2>2, <2>3, <2>4
  <2> QED
    BY SMTT(30), <1>4, <1>7, <2>1, <2>5 DEF ChainRight, EOC, NSectors
<1>11. ASSUME NEW g \in File, g # f
       PROVE  ChainRight(g)'
  <2>1. \A i \in 1 .. Len(chain[g]) : Has(chain[g], chain[g][i]) /\ chain[g][i] \in Sector
    BY ChainTaken DEF Has
  <2>2. chain[f] # <<>> => Has(chain[f], p)
    BY <1>3 DEF Has
  <2>3. \A i \in 1 .. Len(chain[g]) : chain[f] # <<>> => chain[g][i] # p
    BY <1>11, <2>1, <2>2 DEF SpaceInv, ChainsApart
  <2>4. \A i \in 1 .. Len(chain[g]) : Entries'[chain[g][i]] = Entries[chain[g][i]]
    BY <1>6, <2>1, <2>3
  <2>5. chain'[g] = chain[g]
    BY <1>7, <1>11
  <2> QED
    BY <2>4, <2>5 DEF SpaceInv, ChainRight, EOC, NSectors
<1>12. ChainsApart'
  <2>1. ASSUME NEW g \in File, NEW h \in File, NEW t \in Sector, Has(chain'[g], t), Has(chain'[h], t)
        PROVE  g = h
    <3>1. (g = f /\ t = s) \/ Has(chain[g], t)
      BY <1>7, <2>1
    <3>2. (h = f /\ t = s) \/ Has(chain[h], t)
      BY <1>7, <2>1
    <3> QED
      BY <1>2, <3>1, <3>2 DEF SpaceInv, ChainsApart
  <2> QED
    BY <2>1 DEF ChainsApart, Has, Sector
<1>13. PoolRight'
  <2>1. \A i \in 1 .. Len(pool) : pool[i] \in Sector /\ (chain[f] # <<>> => pool[i] # p)
    BY <1>3, OpFacts, Sizes DEF SpaceInv, PoolRight
  <2> QED
    BY <1>1, <1>6, <2>1 DEF SpaceInv, PoolRight
<1>14. PlaceRight(f)'
  <2>1. CASE o = Idle
    BY <1>9, <2>1, IdlePlace
  <2>2. CASE o = [pc |-> "walk", cur |-> EOC, prev |-> s]
    <3>1. chain'[f] = q /\ q[Len(q)] = s
      BY <1>4, <1>7
    <3>2. op'[f].pc = "walk" /\ op'[f].cur = EOC /\ op'[f].prev = s
      BY <1>9, <2>2
    <3> QED
      BY <3>1, <3>2 DEF PlaceRight, At, AtEnd, EOC, NSectors
  <2> QED
    BY <1>8, <2>1, <2>2
<1>15. \A g \in File : PlaceRight(g)'
  BY <1>9, <1>14, IdlePlace
<1>16. NoneLost'
  <2> SUFFICES ASSUME NEW t \in Sector, Entries'[t] # 0
               PROVE  t = 0 \/ \E g \in File : Has(chain'[g], t)
    BY DEF NoneLost, At, Has
  <2>1. Entries[t] # 0
    BY <1>2, <1>3, <1>6, Sizes
  <2>2. \A g \in File : At(g, "marked") => g = f
    BY <1>9 DEF At, Idle
  <2>3. t = 0 \/ (\E g \in File : Has(chain[g], t)) \/ t = s
    BY <2>1, <2>2 DEF SpaceInv, NoneLost
  <2> QED
    BY <1>7, <2>3
<1>17. Counted'
  <2>1. Taken' = Taken
    BY <1>2, <1>3, <1>6, Sizes DEF Taken
  <2> QED
    BY <1>6, <2>1 DEF SpaceInv, Counted
<1>18. (Entries[0] = EOC)'
  BY <1>2, <1>3, <1>6, Sizes DEF EOC, NSectors
<1> QED
  BY <1>9, <1>10, <1>11, <1>12, <1>13, <1>15, <1>16, <1>17, <1>18 DEF SpaceInv

LEMMA SpaceClear ==
  ASSUME CacheInv, OpsInv, SpaceInv, NEW f \in File, Clear(f)
  PROVE  SpaceInv'
<1> DEFINE s == op[f].cur
           n == Len(chain[f])
           q == Tail(chain[f])
           o == [pc |-> "cleared", cur |-> s, prev |-> Value(s)]
<1>1. /\ op[f].pc = "clear" /\ SetSectorEntryValue(s, 0) /\ op' = [op EXCEPT ![f] = o]
      /\ UNCHANGED <<pool, mounted>>
      /\ chain' = [chain EXCEPT ![f] = IF @ # <<>> /\ Head(@) = s THEN Tail(@) ELSE @]
  BY DEF Clear, Step, At
<1>2. chain[f] # <<>> /\ s = chain[f][1] /\ Entries[0] = EOC
  BY <1>1 DEF SpaceInv, PlaceRight, At
<1>3. /\ n \in Nat /\ n >= 1 /\ Head(chain[f]) = s /\ q \in Seq(Sector) /\ Len(q) = n - 1
      /\ \A i \in 1 .. n - 1 : q[i] = chain[f][i + 1]
      /\ q = <<>> <=> n = 1
  BY <1>2, OpFacts, FirstAndRest
<1>4. \A g \in File : chain'[g] = IF g = f THEN q ELSE chain[g]
  BY <1>1, <1>2, <1>3 DEF OpsInv
<1>5. /\ s \in Sector /\ s # 0 /\ Entries[s] # 0 /\ mounted
      /\ Entries[s] = IF n = 1 THEN EOC ELSE chain[f][2]
  <2>1. 1 \in 1 .. n
    BY <1>3
  <2>2. mounted
    BY <1>1, AtWork
  <2>3. Entries[s] = IF n = 1 THEN EOC ELSE chain[f][2]
    <3>1. \A i \in 1 .. n : Entries[chain[f][i]] = IF i = n THEN EOC ELSE chain[f][i + 1]
      BY DEF SpaceInv, ChainRight
    <3>2. Entries[chain[f][1]] = IF 1 = n THEN EOC ELSE chain[f][1 + 1]
      BY <2>1, <3>1
    <3> QED
      BY <1>2, <3>2
  <2> QED
    BY <1>2, <2>1, <2>2, <2>3, ChainTaken
<1>6. /\ Entries \in [Sector -> Entry] /\ \A t \in Sector : Entries'[t] = IF t = s THEN 0 ELSE Entries[t]
      /\ used' = used - 1 /\ Value(s) = Entries[s]
  <2>1. used \in Int
    BY TakenFinite DEF SpaceInv, Counted
  <2>2. /\ Entries \in [Sector -> Entry] /\ Entries' = [Entries EXCEPT ![s] = 0]
        /\ used' = used + (CASE 0 = EOC -> 1 [] 0 = 0 -> -1 [] OTHER -> 0)
    BY <1>1, <1>5, Sizes, EntrySet
  <2> QED
    BY <1>5, <2>1, <2>2, Sizes, EntriesType
<1> HIDE DEF q
<1>7. /\ op'[f] = o /\ OneAtATime'
      /\ \A g \in File : g # f => op[g] = Idle /\ op'[g] = Idle
  BY <1>1, OthersIdle
<1>8. \A i \in 1 .. n - 1 : i + 1 \in 1 .. n /\ q[i] = chain[f][i + 1] /\ q[i] # s /\ q[i] \in Sector
  <2>1. \A i \in 1 .. n - 1 : i + 1 \in 1 .. n /\ 1 \in 1 .. n /\ i + 1 # 1
    BY <1>3
  <2> QED
    BY <1>2, <1>3, <2>1, ChainTaken DEF SpaceInv, ChainRight
<1>9. \A t \in Sector : /\ Has(q, t) => Has(chain[f], t) /\ t # s
                        /\ Has(chain[f], t) /\ t # s => Has(q, t)
  <2> TAKE t \in Sector
  <2>1. Has(q, t) => Has(chain[f], t) /\ t # s
    BY <1>3, <1>8 DEF Has
  <2>2. ASSUME NEW i \in 1 .. n, chain[f][i] = t, t # s
        PROVE  Has(q, t)
    <3>1. i - 1 \in 1 .. n - 1 /\ i - 1 + 1 = i
      <4>1. i # 1
        BY <1>2, <2>2
      <4>2. \A x, y \in Nat : x \in 1 .. y /\ x # 1 => x - 1 \in 1 .. y - 1 /\ x - 1 + 1 = x
        OBVIOUS
      <4> QED
        BY <1>3, <4>1, <4>2
    <3>2. q[i - 1] = t
      BY <1>3, <2>2, <3>1
    <3> QED
      BY <1>3, <3>1, <3>2 DEF Has
  <2> QED
    BY <2>1, <2>2 DEF Has
<1>10. ChainRight(f)'
  <2>1. ASSUME NEW i \in 1 .. n - 1
        PROVE  q[i] # 0 /\ Entries'[q[i]] = IF i = n - 1 THEN EOC ELSE q[i + 1]
    <3>1. q[i] # 0 /\ Entries[q[i]] = IF i + 1 = n THEN EOC ELSE chain[f][i + 2]
      <4>1. i + 1 \in 1 .. n /\ i + 1 + 1 = i + 2
        BY <1>3
      <4> QED
        BY <1>8, <4>1 DEF SpaceInv, ChainRight
    <3>2. i # n - 1 => i + 1 \in 1 .. n - 1 /\ q[i + 1] = chain[f][i + 2]
      <4>1. i # n - 1 => i + 1 \in 1 .. n - 1 /\ i + 1 + 1 = i + 2
        BY <1>3
      <4> QED
        BY <1>3, <4>1
    <3>3. i + 1 = n <=> i = n - 1
      BY <1>3
    <3> QED
      BY <1>6, <1>8, <3>1, <3>2, <3>3
  <2>2. \A i, j \in 1 .. n - 1 : q[i] = q[j] => i = j
    <3>1. \A i, j \in 1 .. n : chain[f][i] = chain[f][j] => i = j
      BY DEF SpaceInv, ChainRight
    <3>2. \A i, j \in 1 .. n - 1 : i + 1 = j + 1 => i = j
      BY <1>3
    <3> QED
      BY <1>8, <3>1, <3>2
  <2>3. chain'[f] = q
    BY <1>4
  <2> QED
    BY <1>3, <2>1, <2>2, <2>3 DEF ChainRight, EOC, NSectors
<1>11. ASSUME NEW g \in File, g # f
       PROVE  ChainRight(g)'
  <2>1. \A i \in 1 .. Len(chain[g]) : Has(chain[g], chain[g][i]) /\ chain[g][i] \in Sector
    BY ChainTaken DEF Has
  <2>2. Has(chain[f], s)
    BY <1>2, <1>3 DEF Has
  <2>3. \A i \in 1 .. Len(chain[g]) : chain[g][i] # s
    BY <1>11, <2>1, <2>2 DEF SpaceInv, ChainsApart
  <2>4. \A i \in 1 .. Len(chain[g]) : Entries'[chain[g][i]] = Entries[chain[g][i]]
    BY <1>6, <2>1, <2>3
  <2>5. chain'[g] = chain[g]
    BY <1>4, <1>11
  <2> QED
    BY <2>4, <2>5 DEF SpaceInv, ChainRight, EOC, NSectors
<1>12. ChainsApart'
  <2>1. ASSUME NEW g \in File, NEW h \in File, NEW t \in Sector, Has(chain'[g], t), Has(chain'[h], t)
        PROVE  g = h
    <3>1. Has(chain[g], t) /\ Has(chain[h], t)
      BY <1>4, <1>9, <2>1
    <3> QED
      BY <3>1 DEF SpaceInv, ChainsApart
  <2> QED
    BY <2>1 DEF ChainsApart, Has, Sector
<1>13. \A i \in 1 .. Len(pool) : pool[i] \in Sector /\ pool[i] # s
  BY <1>5, OpFacts DEF SpaceInv, PoolRight
<1>14. PoolRight'
  BY <1>1, <1>6, <1>13 DEF SpaceInv, PoolRight
<1>15. PlaceRight(f)'
  <2>1. op'[f].pc = "cleared" /\ op'[f].cur = s /\ op'[f].prev = Value(s)
    BY <1>7
  <2>2. chain'[f] = q
    BY <1>4
  <2>3. Value(s) = IF q = <<>> THEN EOC ELSE q[1]
    <3>1. n # 1 => 1 \in 1 .. n - 1 /\ 1 + 1 = 2
      BY <1>3
    <3> QED
      BY <1>3, <1>5, <1>6, <3>1
  <2>4. Entries'[s] = 0
    BY <1>5, <1>6
  <2> QED
    BY <1>1, <1>13, <2>1, <2>2, <2>3, <2>4 DEF PlaceRight, At, Has, EOC, NSectors
<1>16. \A g \in File : PlaceRight(g)'
  BY <1>7, <1>15, IdlePlace
<1>17. NoneLost'
  <2> SUFFICES ASSUME NEW t \in Sector, Entries'[t] # 0
               PROVE  t = 0 \/ \E g \in File : Has(chain'[g], t)
    BY DEF NoneLost, At, Has
  <2>1. Entries[t] # 0 /\ t # s
    BY <1>6
  <2>2. \A g \in File : ~At(g, "marked")
    BY <1>1, <1>7 DEF At, Idle
  <2>3. t = 0 \/ \E g \in File : Has(chain[g], t)
    BY <2>1, <2>2 DEF SpaceInv, NoneLost
  <2> QED
    BY <1>4, <1>9, <2>1, <2>3
<1>18. Counted'
  <2>1. Taken' = Taken \ {s} /\ s \in Taken
    BY <1>5, <1>6 DEF Taken
  <2>2. Cardinality(Taken \ {s}) = Cardinality(Taken) - 1
    BY <2>1, TakenFinite, FS_RemoveElement
  <2> QED
    BY <1>6, <2>1, <2>2 DEF SpaceInv, Counted
<1>19. (Entries[0] = EOC)'
  BY <1>2, <1>5, <1>6, Sizes DEF EOC, NSectors
<1> QED
  BY <1>7, <1>10, <1>11, <1>12, <1>14, <1>16, <1>17, <1>18, <1>19 DEF SpaceInv

LEMMA SpaceDrive ==
  ASSUME CacheInv, OpsInv, SpaceInv, ReadsMissCache, Mount \/ UnMount \/ Restart
  PROVE  SpaceInv'
<1>1. UNCHANGED <<op, chain, used>> /\ AllIdle
  BY DEF Mount, UnMount, Restart, CacheInv
<1>2. Entries' = Entries
  <2>1. \A s \in Sector : Value(s)' = Value(s)
    BY <1>1, DriveSteps DEF OnlySets, Sets, At, AllIdle, Idle
  <2> QED
    BY <2>1, EntriesKept
<1>3. PoolRight'
  <2>1. CASE Mount
    <3>1. pool' = LoadFreeSectors /\ ReadBlocks \cap cached = {}
      BY <2>1 DEF Mount, ReadsMissCache
    <3> QED
      BY <1>2, <3>1, LoadsFree DEF PoolRight
  <2>2. CASE UnMount
    <3>1. pool' = <<>> /\ Len(<<>>) = 0
      BY <2>2 DEF UnMount
    <3> QED
      BY <3>1 DEF PoolRight
  <2>3. CASE Restart
    BY <1>2, <2>3, SamePool DEF Restart
  <2> QED
    BY <2>1, <2>2, <2>3
<1>4. OneAtATime'
  BY <1>1 DEF OneAtATime, AllIdle, Idle
<1>5. \A f \in File : PlaceRight(f)'
  BY <1>1, IdlePlace DEF AllIdle
<1> QED
  BY <1>1, <1>2, <1>3, <1>4, <1>5, SpaceKept

LEMMA SpaceStutter ==
  ASSUME SpaceInv, UNCHANGED vars
  PROVE  SpaceInv'
<1> USE DEF vars
<1>1. Entries' = Entries
  <2>1. UNCHANGED cacheVars
    BY DEF cacheVars
  <2> QED
    BY <2>1, SameTable
<1>2. PoolRight' /\ OneAtATime'
  BY <1>1, SamePool DEF SpaceInv, OneAtATime, Idle
<1>3. \A f \in File : PlaceRight(f)'
  BY <1>1 DEF SpaceInv, PlaceRight, At, AtEnd, Has, EOC, NSectors
<1> QED
  BY <1>1, <1>2, <1>3, SpaceKept

LEMMA SpaceStarts ==
  ASSUME Init
  PROVE  SpaceInv
<1> USE DEF Init
<1>1. Entries = [s \in Sector |-> IF s = 0 THEN EOC ELSE 0]
  BY DEF Entries, Value
<1>2. Len(<<>>) = 0
  OBVIOUS
<1>3. OneAtATime /\ ChainsApart /\ PoolRight
  BY <1>2 DEF OneAtATime, ChainsApart, PoolRight, Has
<1>4. \A f \in File : ChainRight(f) /\ PlaceRight(f)
  BY <1>2 DEF ChainRight, PlaceRight, At, Idle
<1>5. NoneLost /\ Entries[0] = EOC
  BY <1>1, Sizes DEF NoneLost
<1>6. Counted
  <2>1. Taken = {0}
    BY <1>1, Sizes DEF Taken
  <2> QED
    BY <2>1, FS_Singleton DEF Counted
<1> QED
  BY <1>3, <1>4, <1>5, <1>6 DEF SpaceInv

LEMMA SpaceSteps ==
  ASSUME Exclusive, CacheInv, OpsInv, SpaceInv, ReadsMissCache, [Next]_vars
  PROVE  SpaceInv'
<1>1. CASE \E f \in File : Write(f) \/ Delete(f)
  <2>1. PICK f \in File : Write(f) \/ Delete(f)
    BY <1>1
  <2> QED
    BY <2>1, SpaceStartWrite, SpaceWalk, SpaceTake, SpaceMark, SpaceLink,
       SpaceStartDelete, SpaceClear, SpacePutBack DEF Write, Delete
<1> QED
  BY <1>1, SpaceDrive, SpaceStutter DEF Next

LEMMA ElemsAre ==
  ASSUME NEW q \in Seq(Sector)
  PROVE  /\ DOMAIN q = 1 .. Len(q) /\ Len(q) \in Nat
         /\ \A x : x \in Elems(q) <=> Has(q, x)
BY DEF Elems, Has

\* Who owns sectors, in terms of the invariant.
LEMMA OwnersAre ==
  ASSUME CacheInv, OpsInv, SpaceInv
  PROVE  /\ \A s : s \in UNION {Elems(chain[f]) : f \in File} <=> \E f \in File : Has(chain[f], s)
         /\ \A s : s \in Pending <=> \E f \in File : (At(f, "taken") \/ At(f, "marked")) /\ op[f].cur = s
         /\ \A s : s \in Owned <=> s \in Pending \/ \E f \in File : Has(chain[f], s)
         /\ \A f \in File : \A s : Has(chain[f], s) => s \in Sector /\ s # 0 /\ Entries[s] # 0
         /\ \A f \in File : At(f, "taken") => Entries[op[f].cur] = 0
         /\ \A f \in File : At(f, "marked") => Entries[op[f].cur] = EOC /\ op[f].cur # 0
<1>1. \A f \in File : \A s : s \in Elems(chain[f]) <=> Has(chain[f], s)
  BY ElemsAre, OpFacts
<1>2. \A s : s \in UNION {Elems(chain[f]) : f \in File} <=> \E f \in File : Has(chain[f], s)
  BY <1>1
<1>3. \A s : s \in Pending <=> \E f \in File : (At(f, "taken") \/ At(f, "marked")) /\ op[f].cur = s
  BY DEF Pending
<1>4. \A f \in File : \A s : Has(chain[f], s) => s \in Sector /\ s # 0 /\ Entries[s] # 0
  BY ChainTaken DEF Has
<1>5. \A f \in File : /\ At(f, "taken") => Entries[op[f].cur] = 0
                      /\ At(f, "marked") => Entries[op[f].cur] = EOC /\ op[f].cur # 0
  BY DEF SpaceInv, PlaceRight
<1> DEFINE InFiles == UNION {Elems(chain[f]) : f \in File}
<1>6. Owned = InFiles \cup Pending
  BY DEF Owned
<1>7. \A s : s \in InFiles <=> \E f \in File : Has(chain[f], s)
  BY <1>2
<1> HIDE DEF InFiles
<1>8. \A s : s \in Owned <=> s \in Pending \/ \E f \in File : Has(chain[f], s)
  BY <1>6, <1>7
<1> QED
  BY <1>2, <1>3, <1>4, <1>5, <1>8

LEMMA InvariantOwnsOnce ==
  ASSUME CacheInv, OpsInv, SpaceInv
  PROVE  NoDoubleAllocation
<1>1. pool \in Seq(Sector) /\ \A f \in File : chain[f] \in Seq(Sector)
  BY DEF OpsInv
<1>2. Distinct(pool) /\ \A f \in File : Distinct(chain[f])
  BY <1>1, ElemsAre DEF Distinct, SpaceInv, PoolRight, ChainRight
<1>3. Elems(pool) \cap (Owned \cup {0}) = {}
  <2> SUFFICES ASSUME NEW s, Has(pool, s), s \in Owned \/ s = 0
               PROVE  FALSE
    BY <1>1, ElemsAre
  <2>1. Entries[s] = 0
    BY DEF SpaceInv, PoolRight, Has
  <2>2. CASE s = 0
    BY <2>1, <2>2, Sizes DEF SpaceInv
  <2>3. CASE \E f \in File : Has(chain[f], s)
    BY <2>1, <2>3, OwnersAre
  <2>4. CASE s \in Pending
    <3>1. PICK f \in File : (At(f, "taken") \/ At(f, "marked")) /\ op[f].cur = s
      BY <2>4, OwnersAre
    <3>2. CASE At(f, "taken")
      BY <3>1, <3>2 DEF SpaceInv, PlaceRight
    <3>3. CASE At(f, "marked")
      BY <2>1, <3>1, <3>3, OwnersAre, Sizes
    <3> QED
      BY <3>1, <3>2, <3>3
  <2>5. s \in Owned => s \in Pending \/ \E f \in File : Has(chain[f], s)
    BY OwnersAre
  <2> QED
    BY <2>2, <2>3, <2>4, <2>5
<1>4. \A f, g \in File : f # g => Elems(chain[f]) \cap Elems(chain[g]) = {}
  <2> SUFFICES ASSUME NEW f \in File, NEW g \in File, f # g, NEW s, Has(chain[f], s), Has(chain[g], s)
               PROVE  FALSE
    BY <1>1, ElemsAre
  <2>1. s \in Sector
    BY OwnersAre
  <2> QED
    BY <2>1 DEF SpaceInv, ChainsApart
<1>5. ASSUME NEW f \in File, At(f, "taken") \/ At(f, "marked"),
             op[f].cur \in UNION {Elems(chain[g]) : g \in File}
      PROVE  FALSE
  <2>1. PICK g \in File : Has(chain[g], op[f].cur)
    BY <1>5, OwnersAre
  <2>2. CASE At(f, "taken")
    BY <2>1, <2>2, OwnersAre
  <2>3. CASE At(f, "marked")
    BY <2>1, <2>3 DEF SpaceInv, PlaceRight
  <2> QED
    BY <1>5, <2>2, <2>3
<1> QED
  BY <1>2, <1>3, <1>4, <1>5 DEF NoDoubleAllocation

LEMMA InvariantAccounts ==
  ASSUME CacheInv, OpsInv, SpaceInv
  PROVE  SpaceAccounted
<1>1. \A s \in Sector : Entries[s] = Value(s)
  BY EntriesType
<1>2. Taken = {s \in Sector : Value(s) # 0}
  BY <1>1 DEF Taken
<1>3. UsedExact
  BY <1>2 DEF UsedExact, SpaceInv, Counted
<1>4. TypeOK
  <2>1. IsFiniteSet(Sector) /\ Cardinality(Sector) = NSectors
    BY Sizes, FS_Interval DEF Sector
  <2>2. Taken \in SUBSET Sector
    BY DEF Taken
  <2>3. Cardinality(Taken) <= NSectors
    BY <2>1, <2>2, FS_Subset
  <2>4. used \in 0 .. NSectors
    BY <2>3, TakenFinite, Sizes DEF SpaceInv, Counted
  <2> QED
    BY <2>4 DEF TypeOK, CacheInv, OpsInv
<1>5. ChainsIntact
  <2> SUFFICES ASSUME NEW f \in File, NEW i \in DOMAIN chain[f]
               PROVE  Value(chain[f][i]) = IF i = Len(chain[f]) THEN EOC ELSE chain[f][i + 1]
    BY DEF ChainsIntact
  <2>1. i \in 1 .. Len(chain[f]) /\ chain[f][i] \in Sector
    BY OpFacts
  <2> QED
    BY <1>1, <2>1 DEF SpaceInv, ChainRight
<1>6. NothingLeaks
  <2> DEFINE Offered == {op[f].cur : f \in {g \in File : At(g, "taken")}}
  <2>1. \A s : s \in Offered <=> \E f \in File : At(f, "taken") /\ op[f].cur = s
    OBVIOUS
  <2>2. \A s : s \in Owned <=> (\E f \in File : Has(chain[f], s)) \/ s \in Pending
    BY OwnersAre
  <2> HIDE DEF Offered
  <2>3. ASSUME NEW s \in Taken PROVE s \in {0} \cup (Owned \ Offered)
    <3>1. Entries[s] # 0 /\ s \in Sector
      BY DEF Taken
    <3>2. s \notin Offered
      BY <2>1, <3>1, OwnersAre
    <3>3. s = 0 \/ s \in Owned
      BY <2>2, <3>1, OwnersAre DEF SpaceInv, NoneLost
    <3> QED
      BY <3>2, <3>3
  <2>4. 0 \in Taken
    BY Sizes DEF SpaceInv, Taken
  <2>5. ASSUME NEW s \in Owned, s \notin Offered PROVE s \in Taken
    <3>1. CASE \E f \in File : Has(chain[f], s)
      BY <3>1, OwnersAre DEF Taken
    <3>2. CASE s \in Pending
      <4>1. PICK f \in File : At(f, "marked") /\ op[f].cur = s
        BY <2>1, <2>5, <3>2, OwnersAre
      <4>2. s \in Sector
        BY <4>1, OpFacts DEF OpFits, At
      <4> QED
        BY <4>1, <4>2, OwnersAre, Sizes DEF Taken
    <3> QED
      BY <2>2, <3>1, <3>2
  <2>6. Taken = {0} \cup (Owned \ Offered)
    BY <2>3, <2>4, <2>5
  <2> QED
    BY <1>2, <2>6 DEF NothingLeaks, Offered
<1> QED
  BY <1>3, <1>4, <1>5, <1>6 DEF SpaceAccounted

\* One operation at a time, and reads of the table that miss its cache: no
\* sector has two owners (AllocateSector, LoadFreeSectors, AddToFreePoolCache).
THEOREM SectorsHaveOneOwner ==
  ASSUME Exclusive
  PROVE  Spec /\ []ReadsMissCache => []NoDoubleAllocation
<1>1. Init => CacheInv /\ OpsInv /\ SpaceInv
  BY CacheStarts, SpaceStarts
<1>2. CacheInv /\ OpsInv /\ SpaceInv /\ ReadsMissCache /\ [Next]_vars => (CacheInv /\ OpsInv /\ SpaceInv)'
  BY CacheSteps, SpaceSteps
<1>3. CacheInv /\ OpsInv /\ SpaceInv => NoDoubleAllocation
  BY InvariantOwnsOnce
<1> QED
  BY <1>1, <1>2, <1>3, PTL DEF Spec

\* Under the same conditions every sector is accounted for: chains lead
\* through the sectors a file was given, the used size is exact, and what is
\* not free belongs to somebody (AllocateSector, Directory_Delete).
THEOREM SpaceIsAccounted ==
  ASSUME Exclusive
  PROVE  Spec /\ []ReadsMissCache => []SpaceAccounted
<1>1. Init => CacheInv /\ OpsInv /\ SpaceInv
  BY CacheStarts, SpaceStarts
<1>2. CacheInv /\ OpsInv /\ SpaceInv /\ ReadsMissCache /\ [Next]_vars => (CacheInv /\ OpsInv /\ SpaceInv)'
  BY CacheSteps, SpaceSteps
<1>3. CacheInv /\ OpsInv /\ SpaceInv => SpaceAccounted
  BY InvariantAccounts
<1> QED
  BY <1>1, <1>2, <1>3, PTL DEF Spec

\* A scan that reads one block at a time never reads a cached one: with the
\* read-ahead of LoadFreeSectors gone, nothing else has to be asked.
THEOREM BlockwiseScanSuffices ==
  ASSUME Exclusive, ReadAhead = 1
  PROVE  Spec => [](NoDoubleAllocation /\ SpaceAccounted)
<1>1. ReadBlocks \cap cached = {}
  <2>1. \A r \in ReadStarts : r \in Block /\ r \notin cached
    BY ReadsExist
  <2>2. \A b \in Block, r \in Block : r <= b /\ b < r + 1 => b = r
    BY SizeAssumption DEF Block
  <2> QED
    BY <2>1, <2>2 DEF ReadBlocks
<1>2. ReadsMissCache
  BY <1>1 DEF ReadsMissCache
<1>3. Init => CacheInv /\ OpsInv /\ SpaceInv
  BY CacheStarts, SpaceStarts
<1>4. CacheInv /\ OpsInv /\ SpaceInv /\ [Next]_vars => (CacheInv /\ OpsInv /\ SpaceInv)'
  BY <1>2, CacheSteps, SpaceSteps
<1>5. CacheInv /\ OpsInv /\ SpaceInv => NoDoubleAllocation /\ SpaceAccounted
  BY InvariantOwnsOnce, InvariantAccounts
<1> QED
  BY <1>3, <1>4, <1>5, PTL DEF Spec

-----------------------------------------------------------------------------
(* The vector of the cached blocks (module TableCache).  The search is a   *)
(* function defined by recursion: that there is one with its equation is   *)
(* shown by giving what it has to return.                                  *)

Increasing(q) == \A i, j \in 1 .. Len(q) : i < j => q[i] < q[j]

\* One turn of the loop, for a search that answers the following ones with f.
SearchTurn(q, id, f, l) ==
  LET mid == (l.low + l.high) \div 2 IN
  IF l.low > l.high THEN [found |-> FALSE, pos |-> IF l.iPos < 0 THEN 0 ELSE l.iPos]
  ELSE IF q[mid + 1] = id THEN [found |-> TRUE, pos |-> mid]
  ELSE IF id < q[mid + 1] THEN f[[l EXCEPT !.high = mid - 1, !.iPos = mid]]
  ELSE f[[l EXCEPT !.low = mid + 1, !.iPos = mid + 1]]

IsSearch(q, id, f) == f = [l \in Table!Loop(q) |-> SearchTurn(q, id, f, l)]

\* What a search of the positions low to high has to return.
Outcome == [found : BOOLEAN, pos : Int]
Hit(q, id, low, high, pos) == pos \in low .. high /\ q[pos + 1] = id
Gap(q, id, low, high, pos) ==
  /\ pos \in low .. high + 1
  /\ \A i \in low .. pos - 1 : q[i + 1] < id
  /\ \A i \in pos .. high : id < q[i + 1]
Answers(q, id, l, r) ==
  /\ r \in Outcome
  /\ l.low > l.high => ~r.found /\ r.pos = IF l.iPos < 0 THEN 0 ELSE l.iPos
  /\ l.low <= l.high =>
       IF r.found THEN Hit(q, id, l.low, l.high, r.pos) ELSE Gap(q, id, l.low, l.high, r.pos)

\* Of a list in order, the half in which the place is decides.
LEMMA LowerHalf ==
  ASSUME NEW n \in Nat, NEW q, \A i \in 0 .. n - 1 : q[i + 1] \in Nat,
         \A i, j \in 0 .. n - 1 : i < j => q[i + 1] < q[j + 1],
         NEW id \in Nat, NEW low \in Nat, NEW high \in Int, NEW mid \in Nat,
         low <= mid, mid <= high, high < n, id < q[mid + 1],
         NEW pos \in Int
  PROVE  /\ Hit(q, id, low, mid - 1, pos) => Hit(q, id, low, high, pos)
         /\ Gap(q, id, low, mid - 1, pos) => Gap(q, id, low, high, pos)
<1>1. \A i \in mid .. high : id < q[i + 1]
  <2> TAKE i \in mid .. high
  <2>1. i \in 0 .. n - 1 /\ mid \in 0 .. n - 1 /\ (i = mid \/ mid < i)
    OBVIOUS
  <2>2. q[i + 1] \in Nat /\ q[mid + 1] \in Nat /\ (mid < i => q[mid + 1] < q[i + 1])
    BY <2>1
  <2> QED
    BY <2>1, <2>2
<1>2. ASSUME Hit(q, id, low, mid - 1, pos) PROVE Hit(q, id, low, high, pos)
  <2>1. pos \in low .. mid - 1 /\ q[pos + 1] = id
    BY <1>2 DEF Hit
  <2>2. pos \in low .. high
    BY <2>1
  <2> QED
    BY <2>1, <2>2 DEF Hit
<1>3. ASSUME Gap(q, id, low, mid - 1, pos) PROVE Gap(q, id, low, high, pos)
  <2>1. /\ pos \in low .. mid - 1 + 1
        /\ \A i \in low .. pos - 1 : q[i + 1] < id
        /\ \A i \in pos .. mid - 1 : id < q[i + 1]
    BY <1>3 DEF Gap
  <2>2. pos \in low .. high + 1
    BY <2>1
  <2>3. \A i \in pos .. high : i \in pos .. mid - 1 \/ i \in mid .. high
    OBVIOUS
  <2> QED
    BY <1>1, <2>1, <2>2, <2>3 DEF Gap
<1> QED
  BY <1>2, <1>3

LEMMA UpperHalf ==
  ASSUME NEW n \in Nat, NEW q, \A i \in 0 .. n - 1 : q[i + 1] \in Nat,
         \A i, j \in 0 .. n - 1 : i < j => q[i + 1] < q[j + 1],
         NEW id \in Nat, NEW low \in Nat, NEW high \in Int, NEW mid \in Nat,
         low <= mid, mid <= high, high < n, q[mid + 1] < id,
         NEW pos \in Int
  PROVE  /\ Hit(q, id, mid + 1, high, pos) => Hit(q, id, low, high, pos)
         /\ Gap(q, id, mid + 1, high, pos) => Gap(q, id, low, high, pos)
<1>1. \A i \in low .. mid : q[i + 1] < id
  <2> TAKE i \in low .. mid
  <2>1. i \in 0 .. n - 1 /\ mid \in 0 .. n - 1 /\ (i = mid \/ i < mid)
    OBVIOUS
  <2>2. q[i + 1] \in Nat /\ q[mid + 1] \in Nat /\ (i < mid => q[i + 1] < q[mid + 1])
    BY <2>1
  <2> QED
    BY <2>1, <2>2
<1>2. ASSUME Hit(q, id, mid + 1, high, pos) PROVE Hit(q, id, low, high, pos)
  <2>1. pos \in mid + 1 .. high /\ q[pos + 1] = id
    BY <1>2 DEF Hit
  <2>2. pos \in low .. high
    BY <2>1
  <2> QED
    BY <2>1, <2>2 DEF Hit
<1>3. ASSUME Gap(q, id, mid + 1, high, pos) PROVE Gap(q, id, low, high, pos)
  <2>1. /\ pos \in mid + 1 .. high + 1
        /\ \A i \in mid + 1 .. pos - 1 : q[i + 1] < id
        /\ \A i \in pos .. high : id < q[i + 1]
    BY <1>3 DEF Gap
  <2>2. pos \in low .. high + 1
    BY <2>1
  <2>3. \A i \in low .. pos - 1 : i \in low .. mid \/ i \in mid + 1 .. pos - 1
    OBVIOUS
  <2> QED
    BY <1>1, <2>1, <2>2, <2>3 DEF Gap
<1> QED
  BY <1>2, <1>3

\* An empty half leaves the position next to the middle.
LEMMA EmptyHalf ==
  ASSUME NEW q, NEW id, NEW low \in Int, NEW high \in Int, high = low - 1
  PROVE  Gap(q, id, low, high, low)
<1>1. low \in low .. high + 1 /\ low .. high = {} /\ low .. low - 1 = {}
  OBVIOUS
<1> QED
  BY <1>1 DEF Gap

LEMMA OnePlace ==
  ASSUME NEW n \in Nat, NEW q, \A i \in 0 .. n - 1 : q[i + 1] \in Nat,
         \A i, j \in 0 .. n - 1 : i < j => q[i + 1] < q[j + 1],
         NEW id \in Nat, NEW low \in Nat, NEW high \in Int, high < n,
         NEW a \in Int, NEW b \in Int
  PROVE  /\ ~(Hit(q, id, low, high, a) /\ Gap(q, id, low, high, b))
         /\ ~(a < b /\ Hit(q, id, low, high, a) /\ Hit(q, id, low, high, b))
         /\ ~(a < b /\ Gap(q, id, low, high, a) /\ Gap(q, id, low, high, b))
<1>1. ASSUME Hit(q, id, low, high, a), Gap(q, id, low, high, b)
      PROVE  FALSE
  <2>1. a \in low .. high /\ q[a + 1] = id
    BY <1>1 DEF Hit
  <2>2. /\ \A i \in low .. b - 1 : q[i + 1] < id
        /\ \A i \in b .. high : id < q[i + 1]
    BY <1>1 DEF Gap
  <2>3. a \in low .. b - 1 \/ a \in b .. high
    BY <2>1
  <2>4. id < id
    BY <2>1, <2>2, <2>3
  <2> QED
    BY <2>4
<1>2. ASSUME a < b, Hit(q, id, low, high, a), Hit(q, id, low, high, b)
      PROVE  FALSE
  <2>1. a \in low .. high /\ q[a + 1] = id /\ b \in low .. high /\ q[b + 1] = id
    BY <1>2 DEF Hit
  <2>2. a \in 0 .. n - 1 /\ b \in 0 .. n - 1
    BY <2>1
  <2>3. id < id
    BY <1>2, <2>1, <2>2
  <2> QED
    BY <2>3
<1>3. ASSUME a < b, Gap(q, id, low, high, a), Gap(q, id, low, high, b)
      PROVE  FALSE
  <2>1. /\ a \in low .. high + 1 /\ b \in low .. high + 1
        /\ \A i \in a .. high : id < q[i + 1]
        /\ \A i \in low .. b - 1 : q[i + 1] < id
    BY <1>3 DEF Gap
  <2>2. a \in a .. high /\ a \in low .. b - 1 /\ a \in 0 .. n - 1
    BY <1>3, <2>1
  <2>3. id < q[a + 1] /\ q[a + 1] < id /\ q[a + 1] \in Nat
    BY <2>1, <2>2
  <2> QED
    BY <2>3
<1> QED
  BY <1>1, <1>2, <1>3

LEMMA SameOutcome ==
  ASSUME NEW r \in Outcome, NEW t \in Outcome, r.found = t.found, r.pos = t.pos
  PROVE  r = t
BY DEF Outcome

LEMMA SearchIs ==
  ASSUME NEW q, NEW id
  PROVE  Table!BinarySearch(q, id)
           = (CHOOSE f : IsSearch(q, id, f))[[low |-> 0, high |-> Len(q) - 1, iPos |-> -1]]
BY DEF Table!BinarySearch, IsSearch, SearchTurn

LEMMA Middle ==
  ASSUME NEW low \in Nat, NEW high \in Int, low <= high
  PROVE  /\ (low + high) \div 2 \in Nat
         /\ low <= (low + high) \div 2 /\ (low + high) \div 2 <= high
OBVIOUS

LEMMA LoopType ==
  ASSUME NEW q \in Seq(Nat), NEW l \in Table!Loop(q)
  PROVE  /\ Len(q) \in Nat
         /\ l.low \in Nat /\ l.low <= Len(q)
         /\ l.high \in Int /\ -1 <= l.high /\ l.high < Len(q)
         /\ l.iPos \in Int /\ -1 <= l.iPos /\ l.iPos <= Len(q)
BY DEF Table!Loop

LEMMA NextTurns ==
  ASSUME NEW q, NEW l \in Table!Loop(q), NEW a, NEW p
  PROVE  /\ [l EXCEPT !.high = a, !.iPos = p] = [low |-> l.low, high |-> a, iPos |-> p]
         /\ [l EXCEPT !.low = a, !.iPos = p] = [low |-> a, high |-> l.high, iPos |-> p]
<1>1. PICK m, n : m = [l EXCEPT !.high = a] /\ n = [l EXCEPT !.low = a]
  OBVIOUS
<1>2. m = [low |-> l.low, high |-> a, iPos |-> l.iPos]
  BY <1>1 DEF Table!Loop
<1>3. n = [low |-> a, high |-> l.high, iPos |-> l.iPos]
  BY <1>1 DEF Table!Loop
<1>4. [m EXCEPT !.iPos = p] = [low |-> l.low, high |-> a, iPos |-> p]
  BY <1>2
<1>5. [n EXCEPT !.iPos = p] = [low |-> a, high |-> l.high, iPos |-> p]
  BY <1>3
<1> QED
  BY <1>1, <1>4, <1>5, Zenon

LEMMA InOrderFrom0 ==
  ASSUME NEW q \in Seq(Nat), Increasing(q)
  PROVE  /\ \A i \in 0 .. Len(q) - 1 : q[i + 1] \in Nat
         /\ \A i, j \in 0 .. Len(q) - 1 : i < j => q[i + 1] < q[j + 1]
<1>1. Len(q) \in Nat /\ \A k \in 1 .. Len(q) : q[k] \in Nat
  OBVIOUS
<1>2. \A i \in 0 .. Len(q) - 1 : i + 1 \in 1 .. Len(q)
  BY <1>1
<1>3. ASSUME NEW i \in 0 .. Len(q) - 1, NEW j \in 0 .. Len(q) - 1, i < j
      PROVE  q[i + 1] < q[j + 1]
  <2>1. i + 1 < j + 1
    BY <1>1, <1>3
  <2> QED
    BY <1>2, <2>1 DEF Increasing
<1> QED
  BY <1>1, <1>2, <1>3

\* A turn answers when the search of the shorter range it goes on with does.
LEMMA TurnAnswers ==
  ASSUME NEW q \in Seq(Nat), Increasing(q), NEW id \in Nat, NEW f, NEW l \in Table!Loop(q),
         \A m \in Table!Loop(q) : m.high - m.low < l.high - l.low => Answers(q, id, m, f[m])
  PROVE  Answers(q, id, l, SearchTurn(q, id, f, l))
<1>1. PICK n, low, high, iPos :
        n = Len(q) /\ low = l.low /\ high = l.high /\ iPos = l.iPos
  OBVIOUS
<1>2. /\ n \in Nat /\ low \in Nat /\ low <= n
      /\ high \in Int /\ -1 <= high /\ high < n
      /\ iPos \in Int /\ -1 <= iPos /\ iPos <= n
  BY <1>1, LoopType
<1>3. /\ \A i \in 0 .. n - 1 : q[i + 1] \in Nat
      /\ \A i, j \in 0 .. n - 1 : i < j => q[i + 1] < q[j + 1]
  BY <1>1, InOrderFrom0
<1>4. CASE low > high
  <2>1. SearchTurn(q, id, f, l) = [found |-> FALSE, pos |-> IF iPos < 0 THEN 0 ELSE iPos]
    BY <1>1, <1>4 DEF SearchTurn
  <2>2. PICK p \in Int : p = IF iPos < 0 THEN 0 ELSE iPos
    BY <1>2
  <2>3. SearchTurn(q, id, f, l) = [found |-> FALSE, pos |-> p]
    BY <2>1, <2>2
  <2>4. ~(low <= high)
    BY <1>2, <1>4
  <2> QED
    BY <1>1, <2>2, <2>3, <2>4 DEF Answers, Outcome
<1>5. CASE low <= high
  <2>1. PICK mid : mid = (low + high) \div 2
    OBVIOUS
  <2>2. mid \in Nat /\ low <= mid /\ mid <= high
    BY <1>2, <1>5, <2>1, Middle
  <2>3. ~(low > high) /\ mid \in 0 .. n - 1 /\ q[mid + 1] \in Nat
    BY <1>2, <1>3, <1>5, <2>2
  <2>4. SUFFICES ASSUME NEW r, r = SearchTurn(q, id, f, l)
                 PROVE  /\ r \in Outcome
                        /\ IF r.found THEN Hit(q, id, low, high, r.pos) ELSE Gap(q, id, low, high, r.pos)
    BY <1>1, <2>3 DEF Answers
  <2>5. r = IF q[mid + 1] = id THEN [found |-> TRUE, pos |-> mid]
            ELSE IF id < q[mid + 1] THEN f[[l EXCEPT !.high = mid - 1, !.iPos = mid]]
            ELSE f[[l EXCEPT !.low = mid + 1, !.iPos = mid + 1]]
    BY <1>1, <2>1, <2>3, <2>4 DEF SearchTurn
  <2>6. CASE q[mid + 1] = id
    <3>1. r = [found |-> TRUE, pos |-> mid] /\ mid \in low .. high /\ mid \in Int
      BY <1>2, <2>2, <2>5, <2>6
    <3> QED
      BY <2>6, <3>1 DEF Hit, Outcome
  <2>7. CASE q[mid + 1] # id /\ id < q[mid + 1]
    <3>1. PICK m : m = [low |-> low, high |-> mid - 1, iPos |-> mid]
      OBVIOUS
    <3>2. r = f[m]
      <4>1. m = [l EXCEPT !.high = mid - 1, !.iPos = mid]
        <5>1. [l EXCEPT !.high = mid - 1, !.iPos = mid] = [low |-> l.low, high |-> mid - 1, iPos |-> mid]
          BY NextTurns, Zenon
        <5> QED
          BY <1>1, <3>1, <5>1
      <4> QED
        BY <2>5, <2>7, <4>1
    <3>3. /\ low \in 0 .. n /\ mid - 1 \in -1 .. n - 1 /\ mid \in -1 .. n
          /\ mid - 1 - low < high - low
      BY <1>2, <2>2, <2>3
    <3>4. m \in Table!Loop(q) /\ m.low = low /\ m.high = mid - 1 /\ m.iPos = mid
      BY <1>1, <3>1, <3>3 DEF Table!Loop
    <3>5. Answers(q, id, m, r)
      BY <1>1, <3>2, <3>3, <3>4
    <3>6. r \in Outcome /\ r.found \in BOOLEAN /\ r.pos \in Int
      BY <3>5 DEF Answers, Outcome
    <3>7. IF r.found THEN Hit(q, id, low, mid - 1, r.pos) ELSE Gap(q, id, low, mid - 1, r.pos)
      <4>1. CASE low > mid - 1
        <5>1. low = mid /\ ~(mid < 0) /\ mid - 1 \in Int /\ mid \in Int
          BY <1>2, <2>2, <4>1
        <5>2. ~r.found /\ r.pos = mid
          BY <3>4, <3>5, <3>6, <4>1, <5>1 DEF Answers
        <5> QED
          BY <5>1, <5>2, EmptyHalf
      <4>2. CASE low <= mid - 1
        BY <3>4, <3>5, <4>2 DEF Answers
      <4> QED
        BY <1>2, <2>2, <4>1, <4>2
    <3> QED
      BY <1>2, <1>3, <2>2, <2>7, <3>6, <3>7, LowerHalf
  <2>8. CASE q[mid + 1] # id /\ ~(id < q[mid + 1])
    <3>1. PICK m : m = [low |-> mid + 1, high |-> high, iPos |-> mid + 1]
      OBVIOUS
    <3>2. r = f[m]
      <4>1. m = [l EXCEPT !.low = mid + 1, !.iPos = mid + 1]
        <5>1. [l EXCEPT !.low = mid + 1, !.iPos = mid + 1]
                = [low |-> mid + 1, high |-> l.high, iPos |-> mid + 1]
          BY NextTurns, Zenon
        <5> QED
          BY <1>1, <3>1, <5>1
      <4> QED
        BY <2>5, <2>8, <4>1
    <3>3. /\ mid + 1 \in 0 .. n /\ high \in -1 .. n - 1 /\ mid + 1 \in -1 .. n
          /\ high - (mid + 1) < high - low
      <4>1. mid + 1 \in 0 .. n /\ high \in -1 .. n - 1 /\ mid + 1 \in -1 .. n
        BY <1>2, <2>2
      <4>2. high - (mid + 1) < high - low
        BY <1>2, <2>2
      <4> QED
        BY <4>1, <4>2
    <3>4. m \in Table!Loop(q) /\ m.low = mid + 1 /\ m.high = high /\ m.iPos = mid + 1
      BY <1>1, <3>1, <3>3 DEF Table!Loop
    <3>5. Answers(q, id, m, r)
      BY <1>1, <3>2, <3>3, <3>4
    <3>6. r \in Outcome /\ r.found \in BOOLEAN /\ r.pos \in Int
      BY <3>5 DEF Answers, Outcome
    <3>7. IF r.found THEN Hit(q, id, mid + 1, high, r.pos) ELSE Gap(q, id, mid + 1, high, r.pos)
      <4>1. CASE mid + 1 > high
        <5>1. high = mid + 1 - 1 /\ high \in Int /\ mid + 1 \in Int /\ ~(mid + 1 < 0)
          BY <1>2, <2>2, <4>1
        <5>2. ~r.found /\ r.pos = mid + 1
          BY <3>4, <3>5, <3>6, <4>1, <5>1 DEF Answers
        <5>3. PICK k \in Int : k = mid + 1
          BY <2>2
        <5>4. high = k - 1
          BY <1>2, <2>2, <4>1, <5>3
        <5>5. Gap(q, id, k, high, k)
          BY <5>1, <5>4, EmptyHalf
        <5> QED
          BY <5>2, <5>3, <5>5
      <4>2. CASE mid + 1 <= high
        BY <3>4, <3>5, <4>2 DEF Answers
      <4> QED
        BY <1>2, <2>2, <4>1, <4>2
    <3>8. q[mid + 1] < id
      BY <2>3, <2>8
    <3> QED
      BY <1>2, <1>3, <2>2, <3>6, <3>7, <3>8, UpperHalf
  <2> QED
    BY <2>6, <2>7, <2>8
<1> QED
  BY <1>2, <1>4, <1>5

\* There is only one answer.
LEMMA OneAnswer ==
  ASSUME NEW q \in Seq(Nat), Increasing(q), NEW id \in Nat, NEW l \in Table!Loop(q),
         NEW r, Answers(q, id, l, r), NEW t, Answers(q, id, l, t)
  PROVE  r = t
<1>1. /\ Len(q) \in Nat /\ l.low \in Nat /\ l.high \in Int /\ l.high < Len(q)
  BY LoopType
<1>2. /\ r \in Outcome /\ r.pos \in Int /\ r.found \in BOOLEAN
      /\ t \in Outcome /\ t.pos \in Int /\ t.found \in BOOLEAN
  BY DEF Answers, Outcome
<1>3. CASE l.low > l.high
  <2>1. ~r.found /\ t.found = FALSE /\ r.pos = t.pos
    BY <1>2, <1>3 DEF Answers
  <2> QED
    BY <1>2, <2>1, SameOutcome
<1>4. CASE l.low <= l.high
  <2>1. /\ IF r.found THEN Hit(q, id, l.low, l.high, r.pos) ELSE Gap(q, id, l.low, l.high, r.pos)
        /\ IF t.found THEN Hit(q, id, l.low, l.high, t.pos) ELSE Gap(q, id, l.low, l.high, t.pos)
    BY <1>4 DEF Answers
  <2>2. ASSUME NEW a \in Int, NEW b \in Int
        PROVE  /\ ~(Hit(q, id, l.low, l.high, a) /\ Gap(q, id, l.low, l.high, b))
               /\ ~(a < b /\ Hit(q, id, l.low, l.high, a) /\ Hit(q, id, l.low, l.high, b))
               /\ ~(a < b /\ Gap(q, id, l.low, l.high, a) /\ Gap(q, id, l.low, l.high, b))
    BY <1>1, InOrderFrom0, OnePlace
  <2>3. r.found = t.found
    BY <1>2, <2>1, <2>2
  <2>4. ~(r.pos < t.pos) /\ ~(t.pos < r.pos)
    BY <1>2, <2>1, <2>2, <2>3
  <2>5. r.pos = t.pos
    BY <1>2, <2>4
  <2> QED
    BY <1>2, <2>3, <2>5, SameOutcome
<1> QED
  BY <1>1, <1>3, <1>4

\* What follows for a range from what follows for the shorter ones holds of all.
LEMMA ByLength ==
  ASSUME NEW q \in Seq(Nat), NEW id, NEW f,
         \A l \in Table!Loop(q) :
           (\A m \in Table!Loop(q) : m.high - m.low < l.high - l.low => Answers(q, id, m, f[m]))
             => Answers(q, id, l, f[l])
  PROVE  \A l \in Table!Loop(q) : Answers(q, id, l, f[l])
<1> DEFINE size(l) == l.high - l.low + Len(q) + 1
           Wrong == {l \in Table!Loop(q) : ~Answers(q, id, l, f[l])}
           Lengths == {size(l) : l \in Wrong}
<1>1. \A l \in Table!Loop(q) : size(l) \in Nat
  BY LoopType
<1>2. SUFFICES ASSUME Wrong # {}
               PROVE  FALSE
  OBVIOUS
<1>3. Lengths \in SUBSET Nat /\ Lengths # {}
  BY <1>1, <1>2
<1>4. PICK n \in Lengths : \A k \in Lengths : n <= k
  BY <1>3, LeastNat
<1>5. PICK l \in Wrong : n = size(l)
  OBVIOUS
<1>6. \A m \in Table!Loop(q) : m.high - m.low < l.high - l.low => Answers(q, id, m, f[m])
  <2> SUFFICES ASSUME NEW m \in Table!Loop(q), m.high - m.low < l.high - l.low, m \in Wrong
               PROVE  FALSE
    OBVIOUS
  <2>1. size(l) <= size(m)
    BY <1>4, <1>5
  <2>2. l \in Table!Loop(q)
    OBVIOUS
  <2> QED
    BY <2>1, <2>2, LoopType
<1> QED
  BY <1>6

\* The search finds what is there and the place of what is not.
LEMMA SearchAnswers ==
  ASSUME NEW q \in Seq(Nat), Increasing(q), NEW id \in Nat, NEW r, r = Table!BinarySearch(q, id)
  PROVE  /\ r \in Outcome
         /\ r.found => r.pos + 1 \in 1 .. Len(q) /\ q[r.pos + 1] = id
         /\ ~r.found => /\ r.pos \in 0 .. Len(q)
                        /\ \A i \in 1 .. r.pos : q[i] < id
                        /\ \A i \in r.pos + 1 .. Len(q) : id < q[i]
<1> DEFINE g == [l \in Table!Loop(q) |-> CHOOSE x : Answers(q, id, l, x)]
           f == CHOOSE h : IsSearch(q, id, h)
           start == [low |-> 0, high |-> Len(q) - 1, iPos |-> -1]
<1>1. \A l \in Table!Loop(q) : Answers(q, id, l, g[l])
  <2>1. ASSUME NEW l \in Table!Loop(q),
               \A m \in Table!Loop(q) : m.high - m.low < l.high - l.low => Answers(q, id, m, g[m])
        PROVE  Answers(q, id, l, g[l])
    <3> HIDE DEF g
    <3>1. Answers(q, id, l, SearchTurn(q, id, g, l))
      BY <2>1, TurnAnswers
    <3>2. g[l] = CHOOSE x : Answers(q, id, l, x)
      BY DEF g
    <3> QED
      BY <3>1, <3>2
  <2> HIDE DEF g
  <2> QED
    BY <2>1, ByLength
<1>2. IsSearch(q, id, g)
  <2> HIDE DEF g
  <2>1. \A l \in Table!Loop(q) : g[l] = SearchTurn(q, id, g, l)
    <3> TAKE l \in Table!Loop(q)
    <3>1. Answers(q, id, l, SearchTurn(q, id, g, l))
      BY <1>1, TurnAnswers
    <3> QED
      BY <1>1, <3>1, OneAnswer
  <2>2. g = [l \in Table!Loop(q) |-> g[l]]
    BY DEF g
  <2> QED
    BY <2>1, <2>2 DEF IsSearch
<1> HIDE DEF g
<1>3. IsSearch(q, id, f)
  BY <1>2
<1> HIDE DEF f
<1>4. \A l \in Table!Loop(q) : f[l] = SearchTurn(q, id, f, l)
  BY <1>3 DEF IsSearch
<1>5. \A l \in Table!Loop(q) : Answers(q, id, l, f[l])
  <2>1. ASSUME NEW l \in Table!Loop(q),
               \A m \in Table!Loop(q) : m.high - m.low < l.high - l.low => Answers(q, id, m, f[m])
        PROVE  Answers(q, id, l, f[l])
    <3>1. Answers(q, id, l, SearchTurn(q, id, f, l))
      BY <2>1, TurnAnswers
    <3> QED
      BY <1>4, <3>1
  <2> QED
    BY <2>1, ByLength
<1>6. Len(q) \in Nat
  OBVIOUS
<1>7. start \in Table!Loop(q)
  BY <1>6 DEF Table!Loop
<1>8. Answers(q, id, start, r)
  BY <1>5, <1>7, SearchIs DEF f
<1>9. r \in Outcome /\ r.pos \in Int
  BY <1>8 DEF Answers, Outcome
<1>10. CASE Len(q) = 0
  <2>1. ~r.found /\ r.pos = 0
    BY <1>8, <1>10 DEF Answers
  <2> QED
    BY <1>9, <1>10, <2>1
<1>11. CASE Len(q) > 0
  <2>1. r.found => r.pos \in 0 .. Len(q) - 1 /\ q[r.pos + 1] = id
    BY <1>6, <1>8, <1>11 DEF Answers, Hit, Gap
  <2>2. ~r.found => /\ r.pos \in 0 .. Len(q) - 1 + 1
                    /\ \A i \in 0 .. r.pos - 1 : q[i + 1] < id
                    /\ \A i \in r.pos .. Len(q) - 1 : id < q[i + 1]
    BY <1>6, <1>8, <1>11 DEF Answers, Hit, Gap
  <2>3. ~r.found => \A i \in 1 .. r.pos : q[i] < id
    <3> SUFFICES ASSUME ~r.found, NEW i \in 1 .. r.pos
                 PROVE  q[i] < id
      OBVIOUS
    <3>1. i - 1 \in 0 .. r.pos - 1 /\ i - 1 + 1 = i
      BY <1>9
    <3>2. q[i - 1 + 1] < id
      BY <2>2, <3>1
    <3> QED
      BY <3>1, <3>2
  <2>4. ~r.found => \A i \in r.pos + 1 .. Len(q) : id < q[i]
    <3> SUFFICES ASSUME ~r.found, NEW i \in r.pos + 1 .. Len(q)
                 PROVE  id < q[i]
      OBVIOUS
    <3>1. i - 1 \in r.pos .. Len(q) - 1 /\ i - 1 + 1 = i
      BY <1>6, <1>9
    <3>2. id < q[i - 1 + 1]
      BY <2>2, <3>1
    <3> QED
      BY <3>1, <3>2
  <2> QED
    BY <1>6, <1>9, <2>1, <2>2, <2>3, <2>4
<1> QED
  BY <1>6, <1>10, <1>11

\* The numbers of a set from the first to the last.
Lists(q, S) ==
  /\ q \in Seq(Nat) /\ Increasing(q)
  /\ \A i \in 1 .. Len(q) : q[i] \in S
  /\ \A x \in S : \E i \in 1 .. Len(q) : q[i] = x

LEMMA FirstsCounted ==
  ASSUME NEW q \in Seq(Nat), Increasing(q), NEW k \in 0 .. Len(q)
  PROVE  IsFiniteSet({q[j] : j \in 1 .. k}) /\ Cardinality({q[j] : j \in 1 .. k}) = k
<1> DEFINE T == {q[j] : j \in 1 .. k}
           f == [j \in 1 .. k |-> q[j]]
<1>1. k \in Nat /\ Len(q) \in Nat /\ k <= Len(q)
  OBVIOUS
<1>2. \A i, j \in 1 .. k : q[i] = q[j] => i = j
  <2> SUFFICES ASSUME NEW i \in 1 .. k, NEW j \in 1 .. k, q[i] = q[j]
               PROVE  ~(i < j) /\ ~(j < i)
    OBVIOUS
  <2>1. i \in 1 .. Len(q) /\ j \in 1 .. Len(q) /\ q[i] \in Nat /\ q[j] \in Nat
    BY <1>1
  <2> QED
    BY <2>1 DEF Increasing
<1>3. f \in Bijection(1 .. k, T)
  BY <1>2 DEF Bijection, Injection, IsInjective, Surjection
<1>4. IsFiniteSet(1 .. k) /\ Cardinality(1 .. k) = k
  <2>1. 1 \in Int /\ k \in Int /\ (IF 1 > k THEN 0 ELSE k - 1 + 1) = k
    BY <1>1
  <2> QED
    BY <2>1, FS_Interval
<1> HIDE DEF f
<1> QED
  BY <1>3, <1>4, FS_Bijection DEF ExistsBijection

LEMMA InOrderLists ==
  ASSUME NEW S \in SUBSET Nat, IsFiniteSet(S)
  PROVE  Lists(InOrder(S), S)
<1> DEFINE o == InOrder(S)
           n == Cardinality(S)
           Below(x) == {y \in S : y < x}
<1>1. /\ o \in Seq(S) /\ Len(o) = n
      /\ \A i, j \in DOMAIN o : o[i] = o[j] => i = j
      /\ \A x \in S : \E i \in DOMAIN o : o[i] = x
  BY InOrderListsSet
<1>2. o = [i \in 1 .. n |-> CHOOSE x \in S : Cardinality(Below(x)) = i - 1]
  BY DEF InOrder
<1>3. n \in Nat
  BY FS_CardinalityType
<1>4. \A i \in 1 .. n : o[i] \in S /\ Cardinality(Below(o[i])) = i - 1
  <2> TAKE i \in 1 .. n
  <2>1. i - 1 \in 0 .. n - 1
    BY <1>3
  <2>2. \E x \in S : Cardinality(Below(x)) = i - 1
    BY <2>1, RankIsBijection DEF Bijection, Surjection
  <2> QED
    BY <1>2, <2>2
<1> HIDE DEF o
<1>5. DOMAIN o = 1 .. n /\ o \in Seq(Nat) /\ \A i \in 1 .. n : o[i] \in Nat
  <2>1. DOMAIN o = 1 .. n
    BY <1>1, <1>3
  <2>2. \A x \in S : x \in Nat
    OBVIOUS
  <2>3. \A i \in 1 .. n : o[i] \in Nat
    BY <1>4, <2>2
  <2> QED
    BY <1>1, <1>3, <2>1, <2>3
<1>6. ASSUME NEW i \in 1 .. n, NEW j \in 1 .. n, i < j
      PROVE  o[i] < o[j]
  <2>0. i # j
    BY <1>3, <1>6
  <2>1. o[i] \in Nat /\ o[j] \in Nat /\ o[i] # o[j]
    BY <1>1, <1>5, <2>0
  <2>2. Below(o[j]) \subseteq Below(o[i]) => Cardinality(Below(o[j])) <= Cardinality(Below(o[i]))
    BY FS_Subset
  <2>3. o[j] < o[i] => Below(o[j]) \subseteq Below(o[i])
    <3>1. \A y \in S : y \in Nat
      OBVIOUS
    <3>2. o[j] < o[i] => \A y \in S : y < o[j] => y < o[i]
      BY <2>1, <3>1
    <3> QED
      BY <3>2
  <2> HIDE DEF Below
  <2> QED
    BY <1>4, <1>6, <2>1, <2>2, <2>3
<1>7. Increasing(o)
  BY <1>1, <1>6 DEF Increasing
<1> QED
  BY <1>1, <1>4, <1>5, <1>7 DEF Lists, o

\* There is one list of a set in order.
LEMMA InOrderIs ==
  ASSUME NEW S \in SUBSET Nat, IsFiniteSet(S), NEW q, Lists(q, S)
  PROVE  InOrder(S) = q /\ Len(q) = Cardinality(S)
<1> DEFINE n == Cardinality(S)
           Below(x) == {y \in S : y < x}
           r == [x \in S |-> Cardinality(Below(x))]
<1>1. /\ q \in Seq(Nat) /\ Increasing(q) /\ Len(q) \in Nat
      /\ \A i \in 1 .. Len(q) : q[i] \in S
      /\ \A x \in S : \E i \in 1 .. Len(q) : q[i] = x
  BY DEF Lists
<1>2. \A i \in 1 .. Len(q) : Below(q[i]) = {q[j] : j \in 1 .. i - 1}
  <2> TAKE i \in 1 .. Len(q)
  <2>1. \A j \in 1 .. Len(q) : q[j] \in Nat
    BY <1>1
  <2>2. \A j \in 1 .. Len(q) : q[j] < q[i] <=> j < i
    <3> TAKE j \in 1 .. Len(q)
    <3>1. j < i \/ j = i \/ i < j
      OBVIOUS
    <3> QED
      BY <1>1, <2>1, <3>1 DEF Increasing
  <2>3. \A j \in 1 .. Len(q) : j \in 1 .. i - 1 <=> j < i
    OBVIOUS
  <2>4. \A j \in 1 .. i - 1 : j \in 1 .. Len(q)
    BY <1>1
  <2> QED
    BY <1>1, <2>2, <2>3, <2>4
<1>3. \A i \in 1 .. Len(q) : Cardinality(Below(q[i])) = i - 1
  <2> TAKE i \in 1 .. Len(q)
  <2>1. i - 1 \in 0 .. Len(q)
    BY <1>1
  <2> QED
    BY <1>1, <1>2, <2>1, FirstsCounted
<1>4. S = {q[j] : j \in 1 .. Len(q)}
  BY <1>1
<1>5. Len(q) = n
  <2>1. Len(q) \in 0 .. Len(q)
    BY <1>1
  <2> QED
    BY <1>1, <1>4, <2>1, FirstsCounted
<1>6. \A x, y \in S : Cardinality(Below(x)) = Cardinality(Below(y)) => x = y
  <2>1. \A x, y \in S : r[x] = r[y] => x = y
    BY RankIsBijection DEF Bijection, Injection, IsInjective
  <2> QED
    BY <2>1
<1>7. \A i \in 1 .. n : (CHOOSE x \in S : Cardinality(Below(x)) = i - 1) = q[i]
  <2> TAKE i \in 1 .. n
  <2>1. q[i] \in S /\ Cardinality(Below(q[i])) = i - 1
    BY <1>1, <1>3, <1>5
  <2> HIDE DEF Below
  <2> QED
    BY <1>6, <2>1
<1>8. InOrder(S) = [i \in 1 .. n |-> q[i]]
  BY <1>7 DEF InOrder
<1>9. q = [i \in 1 .. n |-> q[i]]
  BY <1>1, <1>5
<1> QED
  BY <1>5, <1>8, <1>9

LEMMA TailLists ==
  ASSUME NEW q, NEW S, Lists(q, S), Len(q) > 0
  PROVE  Lists(Tail(q), S \ {q[1]}) /\ \A x \in S : q[1] <= x
<1>1. /\ q \in Seq(Nat) /\ Increasing(q) /\ Len(q) \in Nat
      /\ \A i \in 1 .. Len(q) : q[i] \in S /\ q[i] \in Nat
      /\ \A x \in S : \E i \in 1 .. Len(q) : q[i] = x
  BY DEF Lists
<1>2. /\ Tail(q) \in Seq(Nat) /\ Len(Tail(q)) = Len(q) - 1
      /\ \A i \in 1 .. Len(q) - 1 : Tail(q)[i] = q[i + 1]
  BY <1>1
<1>3. \A i \in 2 .. Len(q) : q[1] < q[i]
  BY <1>1 DEF Increasing
<1>4. Increasing(Tail(q))
  <2> SUFFICES ASSUME NEW i \in 1 .. Len(q) - 1, NEW j \in 1 .. Len(q) - 1, i < j
               PROVE  q[i + 1] < q[j + 1]
    BY <1>2 DEF Increasing
  <2>1. i + 1 \in 1 .. Len(q) /\ j + 1 \in 1 .. Len(q) /\ i + 1 < j + 1
    BY <1>1
  <2> QED
    BY <1>1, <2>1 DEF Increasing
<1>5. \A i \in 1 .. Len(q) - 1 : Tail(q)[i] \in S \ {q[1]}
  <2> TAKE i \in 1 .. Len(q) - 1
  <2>1. i + 1 \in 1 .. Len(q) /\ i + 1 \in 2 .. Len(q) /\ 1 \in 1 .. Len(q)
    BY <1>1
  <2>2. q[i + 1] # q[1]
    BY <1>1, <1>3, <2>1
  <2> QED
    BY <1>1, <1>2, <2>1, <2>2
<1>6. \A x \in S \ {q[1]} : \E i \in 1 .. Len(q) - 1 : Tail(q)[i] = x
  <2> TAKE x \in S \ {q[1]}
  <2>1. PICK i \in 1 .. Len(q) : q[i] = x
    BY <1>1
  <2>2. i # 1
    BY <2>1
  <2>3. i - 1 \in 1 .. Len(q) - 1 /\ i - 1 + 1 = i
    BY <1>1, <2>2
  <2> QED
    BY <1>2, <2>1, <2>3
<1>7. \A x \in S : q[1] <= x
  <2> TAKE x \in S
  <2>1. PICK i \in 1 .. Len(q) : q[i] = x
    BY <1>1
  <2>2. i = 1 \/ i \in 2 .. Len(q)
    BY <1>1
  <2> QED
    BY <1>1, <1>3, <2>1, <2>2
<1> QED
  BY <1>2, <1>4, <1>5, <1>6, <1>7 DEF Lists

LEMMA InsertLists ==
  ASSUME NEW q, NEW S, Lists(q, S), NEW b \in Nat, NEW pos \in 0 .. Len(q),
         \A i \in 1 .. pos : q[i] < b,
         \A i \in pos + 1 .. Len(q) : b < q[i]
  PROVE  Lists(Table!InsertAt(q, pos, b), S \cup {b})
<1> DEFINE z == Table!InsertAt(q, pos, b)
           u == SubSeq(q, 1, pos)
           v == SubSeq(q, pos + 1, Len(q))
<1>1. /\ q \in Seq(Nat) /\ Increasing(q) /\ Len(q) \in Nat
      /\ \A i \in 1 .. Len(q) : q[i] \in S /\ q[i] \in Nat
      /\ \A x \in S : \E i \in 1 .. Len(q) : q[i] = x
  BY DEF Lists
<1>2. pos \in Nat /\ pos <= Len(q)
  BY <1>1
<1>3. u \in Seq(Nat) /\ Len(u) = pos /\ \A i \in 1 .. pos : u[i] = q[i]
  BY <1>1, <1>2
<1>4. v \in Seq(Nat) /\ Len(v) = Len(q) - pos /\ \A i \in 1 .. Len(q) - pos : v[i] = q[pos + i]
  BY <1>1, <1>2
<1>5. z = u \o <<b>> \o v
  BY DEF Table!InsertAt
<1> HIDE DEF z, u, v
<1> DEFINE w == u \o <<b>>
<1>6. w \in Seq(Nat) /\ Len(w) = pos + 1 /\ \A i \in 1 .. pos + 1 : w[i] = IF i <= pos THEN q[i] ELSE b
  BY <1>2, <1>3
<1>7. z = w \o v
  BY <1>5
<1> HIDE DEF w
<1>8. z \in Seq(Nat) /\ Len(z) = Len(q) + 1
  <2>1. z \in Seq(Nat) /\ Len(z) = Len(w) + Len(v)
    BY <1>4, <1>6, <1>7, ConcatProperties
  <2>2. pos + 1 + (Len(q) - pos) = Len(q) + 1
    BY <1>1, <1>2
  <2> QED
    BY <1>4, <1>6, <2>1, <2>2
<1>9. \A i \in 1 .. pos : z[i] = q[i]
  BY <1>1, <1>2, <1>4, <1>6, <1>7
<1>10. z[pos + 1] = b
  BY <1>1, <1>2, <1>4, <1>6, <1>7
<1>11. \A i \in pos + 1 .. Len(q) : z[i + 1] = q[i]
  <2> TAKE i \in pos + 1 .. Len(q)
  <2>1. i - pos \in 1 .. Len(q) - pos /\ pos + (i - pos) = i /\ i + 1 - (pos + 1) = i - pos
    BY <1>1, <1>2
  <2>2. i + 1 \in 1 .. Len(w) + Len(v) /\ ~(i + 1 <= Len(w))
    BY <1>1, <1>2, <1>4, <1>6
  <2>3. z[i + 1] = v[i + 1 - Len(w)]
    <3>0. \A k \in 1 .. Len(w) + Len(v) : (w \o v)[k] = IF k <= Len(w) THEN w[k] ELSE v[k - Len(w)]
      BY <1>4, <1>6, ConcatProperties
    <3>1. (w \o v)[i + 1] = v[i + 1 - Len(w)]
      BY <2>2, <3>0
    <3> QED
      BY <1>7, <2>2, <3>1
  <2> QED
    BY <1>4, <1>6, <2>1, <2>3
<1>12. \A i \in 1 .. Len(q) + 1 : \/ i \in 1 .. pos
                                  \/ i = pos + 1
                                  \/ i - 1 \in pos + 1 .. Len(q) /\ i = i - 1 + 1
  BY <1>1, <1>2
<1>13. Increasing(z)
  <2> SUFFICES ASSUME NEW i \in 1 .. Len(q) + 1, NEW j \in 1 .. Len(q) + 1, i < j
               PROVE  z[i] < z[j]
    BY <1>8 DEF Increasing
  <2>1. \A k, m \in 1 .. Len(q) : k < m => q[k] < q[m]
    BY <1>1 DEF Increasing
  <2>2. CASE j \in 1 .. pos
    <3>1. i \in 1 .. pos /\ i \in 1 .. Len(q) /\ j \in 1 .. Len(q)
      BY <1>1, <1>2, <2>2
    <3> QED
      BY <1>9, <2>1, <2>2, <3>1
  <2>3. CASE j = pos + 1
    <3>1. i \in 1 .. pos
      BY <1>2, <2>3
    <3> QED
      BY <1>9, <1>10, <2>3, <3>1
  <2>4. CASE j - 1 \in pos + 1 .. Len(q) /\ j = j - 1 + 1
    <3>1. z[j] = q[j - 1] /\ j - 1 \in 1 .. Len(q)
      BY <1>1, <1>2, <1>11, <2>4
    <3>2. CASE i \in 1 .. pos
      <4>1. i \in 1 .. Len(q) /\ i < j - 1
        BY <1>1, <1>2, <2>4, <3>2
      <4> QED
        BY <1>9, <2>1, <3>1, <3>2, <4>1
    <3>3. CASE i = pos + 1
      BY <1>10, <2>4, <3>1, <3>3
    <3>4. CASE i - 1 \in pos + 1 .. Len(q) /\ i = i - 1 + 1
      <4>1. z[i] = q[i - 1] /\ i - 1 \in 1 .. Len(q) /\ i - 1 < j - 1
        BY <1>1, <1>2, <1>11, <3>4
      <4> QED
        BY <2>1, <3>1, <4>1
    <3> QED
      BY <1>12, <3>2, <3>3, <3>4
  <2> QED
    BY <1>12, <2>2, <2>3, <2>4
<1>14. \A i \in 1 .. Len(q) + 1 : z[i] \in S \cup {b}
  <2> TAKE i \in 1 .. Len(q) + 1
  <2>1. CASE i \in 1 .. pos
    BY <1>1, <1>2, <1>9, <2>1
  <2>2. CASE i - 1 \in pos + 1 .. Len(q) /\ i = i - 1 + 1
    <3>1. z[i] = q[i - 1] /\ i - 1 \in 1 .. Len(q)
      BY <1>1, <1>2, <1>11, <2>2
    <3> QED
      BY <1>1, <3>1
  <2> QED
    BY <1>10, <1>12, <2>1, <2>2
<1>15. \A x \in S \cup {b} : \E i \in 1 .. Len(q) + 1 : z[i] = x
  <2> TAKE x \in S \cup {b}
  <2>1. CASE x = b
    BY <1>1, <1>2, <1>10, <2>1
  <2>2. CASE x \in S
    <3>1. PICK i \in 1 .. Len(q) : q[i] = x
      BY <1>1, <2>2
    <3>2. i \in 1 .. pos \/ i \in pos + 1 .. Len(q)
      BY <1>1, <1>2
    <3>3. i \in 1 .. Len(q) + 1 /\ i + 1 \in 1 .. Len(q) + 1
      BY <1>1
    <3> QED
      BY <1>9, <1>11, <3>1, <3>2, <3>3
  <2> QED
    BY <2>1, <2>2
<1> QED
  BY <1>8, <1>13, <1>14, <1>15 DEF Lists, z

LEMMA CachedLists ==
  ASSUME CacheInv
  PROVE  /\ cached \in SUBSET Nat /\ IsFiniteSet(cached) /\ Cardinality(cached) \in Nat
         /\ Lists(CacheVector, cached) /\ Len(CacheVector) = Cardinality(cached)
<1>1. cached \in SUBSET Nat /\ IsFiniteSet(cached) /\ Cardinality(cached) \in Nat
  BY FiniteSets, SizeAssumption DEF CacheInv, Block
<1> QED
  BY <1>1, InOrderLists, InOrderIs DEF CacheVector

\* The module of the vector counts as this one does.
LEMMA SameCount ==
  ASSUME NEW S
  PROVE  Table!Cardinality(S) = Cardinality(S)
BY DEF Table!Cardinality, Cardinality

\* The search finds every block that is cached, and the place of the others.
LEMMA SearchIsRight ==
  ASSUME CacheInv
  PROVE  Table!SearchFindsMembers
<1> DEFINE q == CacheVector
<1>1. /\ q \in Seq(Nat) /\ Increasing(q) /\ Len(q) \in Nat
      /\ \A i \in 1 .. Len(q) : q[i] \in cached /\ q[i] \in Nat
      /\ \A x \in cached : \E i \in 1 .. Len(q) : q[i] = x
  BY CachedLists DEF Lists
<1> HIDE DEF q
<1> DEFINE Members == {q[i] : i \in DOMAIN q}
<1>2. DOMAIN q = 1 .. Len(q)
  BY <1>1
<1> SUFFICES ASSUME NEW id \in Block
             PROVE  LET at == Table!BinarySearch(q, id) IN
                    IF id \in Members THEN at.found /\ q[at.pos + 1] = id
                    ELSE ~at.found /\ at.pos = Cardinality({m \in Members : m < id})
  BY SameCount DEF Table!SearchFindsMembers, Table!Members, Table!Block, Block, q
<1>0. PICK at : at = Table!BinarySearch(q, id)
  OBVIOUS
<1>3. id \in Nat
  BY SizeAssumption DEF Block
<1>4. /\ at \in Outcome
      /\ at.found => at.pos + 1 \in 1 .. Len(q) /\ q[at.pos + 1] = id
      /\ ~at.found => /\ at.pos \in 0 .. Len(q)
                      /\ \A i \in 1 .. at.pos : q[i] < id
                      /\ \A i \in at.pos + 1 .. Len(q) : id < q[i]
  BY <1>0, <1>1, <1>3, SearchAnswers
<1>5. CASE at.found
  BY <1>0, <1>2, <1>4, <1>5
<1>6. CASE ~at.found
  <2>1. PICK p \in 0 .. Len(q) : p = at.pos
    BY <1>4, <1>6
  <2>2. \A i \in 1 .. Len(q) : i \in 1 .. p \/ i \in p + 1 .. Len(q)
    BY <1>1
  <2>3. \A i \in 1 .. p : i \in 1 .. Len(q)
    BY <1>1
  <2>4. /\ \A i \in 1 .. p : q[i] < id
        /\ \A i \in p + 1 .. Len(q) : id < q[i]
    BY <1>4, <1>6, <2>1
  <2>5. ~(id < id) /\ \A x \in Nat : ~(x < id /\ id < x)
    BY <1>3
  <2>6. id \notin Members
    BY <1>2, <2>2, <2>4, <2>5
  <2>7. {m \in Members : m < id} = {q[j] : j \in 1 .. p}
    <3>1. \A j \in 1 .. p : q[j] \in Members /\ q[j] < id
      BY <1>2, <2>3, <2>4
    <3>2. ASSUME NEW m \in Members, m < id
          PROVE  m \in {q[j] : j \in 1 .. p}
      <4>1. PICK i \in 1 .. Len(q) : m = q[i]
        BY <1>2
      <4>2. i \notin p + 1 .. Len(q)
        BY <1>1, <2>4, <2>5, <3>2, <4>1
      <4> QED
        BY <2>2, <4>1, <4>2
    <3> HIDE DEF Members
    <3> QED
      BY <3>1, <3>2
  <2> HIDE DEF Members
  <2>8. Cardinality({m \in Members : m < id}) = p
    BY <1>1, <2>7, FirstsCounted
  <2> QED
    BY <1>0, <1>6, <2>1, <2>6, <2>8
<1> QED
  BY <1>5, <1>6

\* What brings a block in is what the vector does: the first block goes when
\* it is full, and the new one comes where the search says.
LEMMA TouchOnVector ==
  ASSUME CacheInv, NEW s \in Sector, NEW e, NEW w, Touch(s, e, w)
  PROVE  CacheVector' = CacheVector \/ Table!AddToTableCache(BLOCK_ID(s))
<1> DEFINE b == BLOCK_ID(s)
           q == CacheVector
           rest == IF Len(q) = CacheSize THEN Tail(q) ELSE q
           left == cached \ Evicted
<1>1. b \in Block /\ b \in Nat
  BY BlockOfSector, SizeAssumption DEF Block
<1>2. CASE b \in cached
  <2>1. cached' = cached
    BY <1>2 DEF Touch
  <2> QED
    BY <2>1 DEF CacheVector
<1>3. CASE b \notin cached
  <2>1. cached' = left \cup {b}
    BY <1>3 DEF Touch
  <2>2. /\ cached \in SUBSET Nat /\ IsFiniteSet(cached) /\ Cardinality(cached) \in Nat
        /\ Lists(q, cached) /\ Len(q) = Cardinality(cached)
    BY CachedLists
  <2>3. q \in Seq(Nat) /\ Increasing(q) /\ \A i \in 1 .. Len(q) : q[i] \in cached
    BY <2>2 DEF Lists
  <2>4. CacheSize \in Nat /\ CacheSize > 1
    BY SizeAssumption
  <2> HIDE DEF q
  <2>5. Lists(rest, left)
    <3>1. CASE Len(q) = CacheSize
      <4>1. Len(q) > 0 /\ 1 \in 1 .. Len(q)
        BY <2>4, <3>1
      <4>2. Lists(Tail(q), cached \ {q[1]}) /\ \A x \in cached : q[1] <= x
        BY <2>2, <4>1, TailLists
      <4>3. Evicted = {q[1]}
        <5>1. q[1] \in cached /\ \A x \in cached : x \in Nat
          BY <2>2, <2>3, <4>1
        <5>2. \A x \in cached : (\A y \in cached : x <= y) => x = q[1]
          BY <4>2, <5>1
        <5>3. Evicted = {x \in cached : \A y \in cached : x <= y}
          BY <2>2, <3>1 DEF Evicted
        <5> QED
          BY <4>2, <5>1, <5>2, <5>3
      <4> QED
        BY <3>1, <4>2, <4>3
    <3>2. CASE Len(q) # CacheSize
      <4>1. Evicted = {}
        BY <2>2, <3>2 DEF Evicted
      <4> QED
        BY <2>2, <3>2, <4>1
    <3> QED
      BY <3>1, <3>2
  <2> HIDE DEF rest
  <2>6. /\ rest \in Seq(Nat) /\ Increasing(rest) /\ Len(rest) \in Nat
        /\ \A i \in 1 .. Len(rest) : rest[i] \in left
    BY <2>5 DEF Lists
  <2>7. PICK at : at = Table!BinarySearch(rest, b)
    OBVIOUS
  <2>8. /\ at.found => at.pos + 1 \in 1 .. Len(rest) /\ rest[at.pos + 1] = b
        /\ ~at.found => /\ at.pos \in 0 .. Len(rest)
                        /\ \A i \in 1 .. at.pos : rest[i] < b
                        /\ \A i \in at.pos + 1 .. Len(rest) : b < rest[i]
    BY <1>1, <2>6, <2>7, SearchAnswers
  <2>9. ~at.found
    BY <1>3, <2>6, <2>8
  <2>10. ~Table!BinarySearch(q, b).found
    <3>1. PICK r : r = Table!BinarySearch(q, b)
      OBVIOUS
    <3>2. r.found => r.pos + 1 \in 1 .. Len(q) /\ q[r.pos + 1] = b
      BY <1>1, <2>3, <3>1, SearchAnswers
    <3> QED
      BY <1>3, <2>3, <3>1, <3>2
  <2>11. Lists(Table!InsertAt(rest, at.pos, b), left \cup {b})
    BY <1>1, <2>5, <2>8, <2>9, InsertLists
  <2>12. left \cup {b} \in SUBSET Nat /\ IsFiniteSet(left \cup {b})
    BY <1>1, <1>3, <2>2, EvictedOne
  <2> HIDE DEF left
  <2>13. InOrder(left \cup {b}) = Table!InsertAt(rest, at.pos, b)
    BY <2>11, <2>12, InOrderIs
  <2>14. CacheVector' = Table!InsertAt(rest, at.pos, b)
    BY <2>1, <2>13 DEF CacheVector
  <2> QED
    BY <2>7, <2>9, <2>10, <2>14 DEF Table!AddToTableCache, q, rest
<1> QED
  BY <1>2, <1>3

LEMMA EmptyVector ==
  ASSUME cached = {}
  PROVE  CacheVector = <<>>
<1>1. Lists(<<>>, {})
  BY DEF Lists, Increasing
<1> QED
  BY <1>1, FS_EmptySet, InOrderIs DEF CacheVector

\* Every step of the file system is one of the vector, or leaves it alone.
LEMMA VectorSteps ==
  ASSUME CacheInv, OpsInv, [Next]_vars
  PROVE  [Table!Next]_CacheVector
<1>1. ASSUME UNCHANGED cached PROVE UNCHANGED CacheVector
  BY <1>1 DEF CacheVector
<1>2. ASSUME NEW s \in Sector, NEW e, NEW w, Touch(s, e, w)
      PROVE  [Table!Next]_CacheVector
  <2>1. BLOCK_ID(s) \in Table!Block
    BY BlockOfSector DEF Block, Table!Block
  <2> QED
    BY <1>2, <2>1, TouchOnVector DEF Table!Next
<1>3. CASE Restart
  <2>1. cached' = {}
    BY <1>3 DEF Restart
  <2>2. CacheVector' = <<>>
    <3>1. Lists(<<>>, {})
      BY DEF Lists, Increasing
    <3>2. InOrder({}) = <<>>
      BY <3>1, FS_EmptySet, InOrderIs
    <3> QED
      BY <2>1, <3>2 DEF CacheVector
  <2> QED
    BY <2>2 DEF Table!Next, Table!Restart
<1>4. CASE Mount \/ UnMount \/ UNCHANGED vars
  BY <1>1, <1>4 DEF Mount, UnMount, vars, cacheVars
<1>5. ASSUME NEW f \in File, Write(f) \/ Delete(f)
      PROVE  [Table!Next]_CacheVector
  <2>1. CASE StartWrite(f) \/ Take(f) \/ StartDelete(f) \/ PutBack(f)
    BY <1>1, <2>1 DEF StartWrite, Take, StartDelete, PutBack, cacheVars
  <2>2. CASE Walk(f)
    <3>1. op[f].cur \in Sector
      BY <2>2, OpFacts DEF Walk, Entry
    <3> QED
      BY <1>1, <1>2, <2>2, <3>1 DEF Walk, GetSectorEntryValue, cacheVars
  <2>3. CASE Mark(f)
    <3>1. op[f].cur \in Sector
      BY <2>3, OpFacts DEF Mark, At, OpFits
    <3> QED
      BY <1>2, <2>3, <3>1 DEF Mark, SetSectorEntryValue
  <2>4. CASE Link(f)
    <3>1. chain[f] = <<>> \/ op[f].prev \in Sector
      BY <2>4, OpFacts DEF Link, At, OpFits
    <3> QED
      BY <1>1, <1>2, <2>4, <3>1 DEF Link, SetSectorEntryValue, cacheVars
  <2>5. CASE Clear(f)
    <3>1. op[f].cur \in Sector
      BY <2>5, OpFacts DEF Clear, At, OpFits
    <3> QED
      BY <1>2, <2>5, <3>1 DEF Clear, SetSectorEntryValue
  <2> QED
    BY <1>5, <2>1, <2>2, <2>3, <2>4, <2>5 DEF Write, Delete
<1> QED
  BY <1>3, <1>4, <1>5 DEF Next

\* The set of blocks the table cache is modelled by is what the sorted vector
\* of the code holds: each change is one of AddToTableCache or of a restart,
\* and FSManager_BinarySearch finds every cached block and the place of the
\* others, for every size of the table and of the cache.
THEOREM CacheActsAsVector == Spec => CacheIsVector
<1>1. Init => CacheInv /\ OpsInv
  BY CacheStarts
<1>2. CacheInv /\ OpsInv /\ [Next]_vars => (CacheInv /\ OpsInv)'
  BY CacheSteps
<1>3. Init => Table!Init
  <2>1. Init => cached = {}
    BY DEF Init
  <2> QED
    BY <2>1, EmptyVector DEF Table!Init
<1>4. CacheInv /\ OpsInv /\ [Next]_vars => [Table!Next]_CacheVector
  BY VectorSteps
<1>5. CacheInv => Table!SearchFindsMembers
  BY SearchIsRight
<1> QED
  BY <1>1, <1>2, <1>3, <1>4, <1>5, PTL DEF Spec, Table!Spec, CacheIsVector

=============================================================================
