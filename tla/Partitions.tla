------------------------------ MODULE Partitions ------------------------------
(***************************************************************************)
(* Partition tables (PartitionManager.cpp): the master boot record with    *)
(* its four entries, the chain of tables inside an extended partition, the *)
(* console commands that create and delete partitions, and what a later    *)
(* reading of the disk finds, also when the machine stopped between two of *)
(* the writes of a command. Arithmetic on sectors is that of 32-bit words, *)
(* scaled to 0 .. Word - 1. Every command reads the table anew.            *)
(***************************************************************************)
EXTENDS Integers, Sequences, FiniteSets, SequencesExt

CONSTANTS DiskSize,      \* sectors of the disk
          Word,          \* sector numbers are modulo Word (2^32)
          DefStart,      \* DEF_START_SEC (63)
          MaxPrimary,    \* MAX_NO_OF_PRIMARY_PARTITIONS
          Size,          \* sizes a user asks for
          MaxChain,      \* tables of an extended partition (bound)
          MaxCommands,   \* commands (bound)
          NONE

VARIABLES disk,      \* the table in each sector that holds one
          used,      \* sectors that a file system wrote to
          writes,    \* the writes the running command has left
          before,    \* the partitions when it began
          after,     \* the partitions it is to leave
          change,    \* how many more there will be, as the command says
          small,     \* a logical partition was made too small for its own table
          junk,      \* a table was laid over, or read from, old data of a file system
          commands

vars == <<disk, used, writes, before, after, change, small, junk, commands>>

Empty == [kind |-> "empty", start |-> 0, size |-> 0, active |-> FALSE]
MBRPartitionInfo(start, size, type) ==
  [kind |-> IF type = "extended" THEN "extended" ELSE "data", start |-> start, size |-> size,
   active |-> type = "active"]
IsEmpty(e) == e.kind = "empty" \/ e.size = 0
Entries == 1 .. MaxPrimary
Blank == [i \in Entries |-> Empty]
(* What a file system may have left in a sector looks like anything; here like this. *)
Junk == [i \in Entries |-> IF i = 1 THEN MBRPartitionInfo(1, 1, "normal") ELSE Empty]
ReadSector(d, s) == IF s \notin DOMAIN d THEN Blank ELSE IF s \in used THEN Junk ELSE d[s]

Init ==
  /\ disk = [s \in 0 .. DiskSize - 1 |-> Blank] /\ used = {}
  /\ writes = <<>> /\ before = {} /\ after = {} /\ change = 0 /\ small = FALSE /\ junk = FALSE
  /\ commands = 0

-------------------------------------------------------------------------------
(* Reading: VerifyMBR and ReadMBRPartition. *)
Filled(t) == CHOOSE n \in 0 .. MaxPrimary : /\ \A i \in 1 .. n : ~IsEmpty(t[i])
                                           /\ n < MaxPrimary => IsEmpty(t[n + 1])
VerifyMBR(t) ==
  LET n == Filled(t)
      end(i) == IF i = 0 THEN 0 ELSE t[i].start + t[i].size - 1
  IN /\ n > 0
     /\ \A i \in 1 .. n : t[i].start > end(i - 1)
     /\ Cardinality({i \in 1 .. n : t[i].active}) = 1
     /\ FoldLeft(LAMBDA a, e : a + e.size, 0, SubSeq(t, 1, n)) <= DiskSize

ExtEntry(t) == LET found == {i \in 1 .. Filled(t) : t[i].kind = "extended"}
               IN IF found = {} THEN Empty ELSE t[CHOOSE i \in found : \A j \in found : j <= i]
Primary(t) == SelectSeq(SubSeq(t, 1, Filled(t)), LAMBDA e : e.kind # "extended")

(* The tables of an extended partition: each links to the next relative to the first. *)
Chain(d, ext) ==
  LET at[n \in 1 .. MaxChain] ==
        IF n = 1 THEN (IF IsEmpty(ext) THEN NONE ELSE ext.start)
        ELSE IF at[n - 1] = NONE THEN NONE
        ELSE LET t == ReadSector(d, at[n - 1]) IN
             IF IsEmpty(t[1]) \/ IsEmpty(t[2]) THEN NONE ELSE (ext.start + t[2].start) % Word
      shown == {n \in 1 .. MaxChain : at[n] # NONE /\ ~IsEmpty(ReadSector(d, at[n])[1])}
  IN [n \in 1 .. Cardinality(shown) |-> at[n]]

Partition(e, base) == [start |-> (e.start + base) % Word, size |-> e.size]
Extents(d, t) ==
  {Partition(Primary(t)[i], 0) : i \in DOMAIN Primary(t)} \cup
  {Partition(ReadSector(d, s)[1], s) : s \in ToSet(Chain(d, ExtEntry(t)))}
(* PartitionTable::PartitionTable and GetPartitions. *)
GetPartitions(d) == IF VerifyMBR(d[0]) THEN Extents(d, d[0]) ELSE {}

-------------------------------------------------------------------------------
(* The writes of the commands: a sector and the entries of it that change. *)
Write(s, es) == [sector |-> s, entries |-> es]
Written(d, ws) == FoldLeft(LAMBDA a, w : [a EXCEPT ![w.sector] =
                             [i \in Entries |-> IF i \in DOMAIN w.entries THEN w.entries[i] ELSE @[i]]],
                           d, ws)
Only(i, e) == [j \in {i} |-> e]

(* CreatePrimaryPartitionEntry: behind the last primary partition; the first one is active. *)
Prims == IF VerifyMBR(disk[0]) THEN Primary(disk[0]) ELSE <<>>
Ext   == IF VerifyMBR(disk[0]) THEN ExtEntry(disk[0]) ELSE Empty
Enough(total, taken, size) == total >= taken => total - taken >= size
CreatePrimary(size, type) ==
  LET taken == IF Prims = <<>> THEN DefStart ELSE Last(Prims).start + Last(Prims).size
      kind  == IF Prims = <<>> THEN "active" ELSE type
  IN IF \/ Len(Prims) = MaxPrimary \/ ~IsEmpty(Ext)
        \/ Prims = <<>> /\ type = "extended"
        \/ ~Enough(DiskSize, taken, size)
     THEN <<>>
     ELSE <<Write(0, Only(Len(Prims) + 1, MBRPartitionInfo(taken, size, kind)))>>

(* CreateExtPartitionEntry: the new table first, then the link from the last one. *)
FaultyExtUsed(ext, chain) ==  \* the size of the table's gap forgotten
  IF chain = <<>> THEN 0
  ELSE (Last(chain) + disk[Last(chain)][1].size - ext.start) % Word
ExtUsed(ext, chain) ==
  IF chain = <<>> THEN 0
  ELSE (Last(chain) + disk[Last(chain)][1].start + disk[Last(chain)][1].size - ext.start) % Word
CreateLogical(size, ext, chain, taken) ==
  IF IsEmpty(ext) \/ ~Enough(ext.size, taken, size) \/ (ext.start + taken) % Word >= DiskSize
  THEN <<>>
  ELSE <<Write((ext.start + taken) % Word,
               [i \in 1 .. 2 |-> IF i = 1 THEN MBRPartitionInfo(DefStart, (size - DefStart) % Word, "normal")
                                 ELSE Empty])>>
       \o (IF chain = <<>> THEN <<>>
           ELSE <<Write(Last(chain), Only(2, MBRPartitionInfo(taken, size, "extended")))>>)

(* DeletePrimaryPartition: the extended partition goes first, with all its tables. *)
Cleared == [i \in 1 .. 2 |-> Empty]
FaultyDeletePrimary(ext, chain) ==  \* the extended partition's entry is left behind
  IF Prims = <<>> THEN <<>>
  ELSE <<Write(0, Only(Len(Prims), Empty))>>
DeletePrimary(ext, chain) ==
  IF Prims = <<>> THEN <<>>
  ELSE IF IsEmpty(ext) THEN <<Write(0, Only(Len(Prims), Empty))>>
  ELSE [i \in DOMAIN chain |-> Write(chain[i], Cleared)] \o <<Write(0, Only(Len(Prims) + 1, Empty))>>

(* DeleteExtPartition: the last table is unlinked, then cleared. *)
FaultyDeleteLogical(chain) ==  \* the first table instead of the last
  IF chain = <<>> THEN <<>> ELSE <<Write(Head(chain), Cleared)>>
DeleteLogical(chain) ==
  IF chain = <<>> THEN <<>>
  ELSE (IF Len(chain) = 1 THEN <<>> ELSE <<Write(chain[Len(chain) - 1], Only(2, Empty))>>)
       \o <<Write(Last(chain), Cleared)>>

TablesOf(d) == {0} \cup (IF VerifyMBR(d[0]) THEN ToSet(Chain(d, ExtEntry(d[0]))) ELSE {})
(* A console command: nothing is to be done when the operation throws. *)
Begin(ws, n) ==
  /\ writes = <<>> /\ commands < MaxCommands /\ ws # <<>>
  /\ writes' = ws /\ commands' = commands + 1
  /\ before' = GetPartitions(disk) /\ after' = GetPartitions(Written(disk, ws))
  /\ change' = n
  /\ junk' = (junk \/ (TablesOf(Written(disk, ws)) \cap used) \ {ws[i].sector : i \in DOMAIN ws} # {})
  /\ UNCHANGED <<disk, used>>

CommandCreatePrimary == \E size \in Size : \E type \in {"normal", "extended"} :
  Begin(CreatePrimary(size, type), IF type = "extended" THEN 0 ELSE 1) /\ UNCHANGED small
CommandCreateLogical == \E size \in Size :
  /\ Begin(CreateLogical(size, Ext, Chain(disk, Ext), ExtUsed(Ext, Chain(disk, Ext))), 1)
  /\ small' = (small \/ size <= DefStart)
CommandDeletePrimary == Begin(DeletePrimary(Ext, Chain(disk, Ext)), IF IsEmpty(Ext) THEN -1 ELSE -Len(Chain(disk, Ext))) /\ UNCHANGED small
CommandDeleteLogical == Begin(DeleteLogical(Chain(disk, Ext)), -1) /\ UNCHANGED small

(* ClearPartitionTable: the primary partitions are deleted until none is listed. *)
ClearPartitionTable ==
  LET n == Len(Prims) IN
  /\ n > 0
  /\ Begin((IF IsEmpty(Ext) THEN <<>> ELSE DeletePrimary(Ext, Chain(disk, Ext)))
           \o [i \in 1 .. n |-> Write(0, Only(n + 1 - i, Empty))],
           -Cardinality(GetPartitions(disk)))
  /\ UNCHANGED small

DoWrite ==
  /\ writes # <<>>
  /\ disk' = Written(disk, <<Head(writes)>>)
  /\ used' = used \ {Head(writes).sector}
  /\ writes' = Tail(writes)
  /\ UNCHANGED <<before, after, change, small, junk, commands>>

(* The machine stops, or the disk fails, between two writes. *)
Stop ==
  /\ writes # <<>>
  /\ writes' = <<>>
  /\ UNCHANGED <<disk, used, before, after, change, small, junk, commands>>

(* The file system of a drive writes the first sector of its partition. *)
UseDrive ==
  /\ writes = <<>>
  /\ \E p \in GetPartitions(disk) : /\ p.start < DiskSize /\ p.start \notin used
                                    /\ used' = used \cup {p.start}
  /\ UNCHANGED <<disk, writes, before, after, change, small, junk, commands>>

Next == \/ CommandCreatePrimary \/ CommandCreateLogical \/ CommandDeletePrimary
        \/ CommandDeleteLogical \/ ClearPartitionTable \/ DoWrite \/ Stop \/ UseDrive
Spec == Init /\ [][Next]_vars

-------------------------------------------------------------------------------
(* Types (PartitionManager.h). *)
TypeOK == /\ DOMAIN disk = 0 .. DiskSize - 1 /\ used \subseteq 0 .. DiskSize - 1
          /\ commands \in 0 .. MaxCommands /\ small \in BOOLEAN /\ junk \in BOOLEAN

Sectors(p) == p.start .. p.start + p.size - 1
(* The partitions a reading of the disk finds lie on the disk, apart from each other and
   from the sectors that hold the tables, whatever commands were run or cut short, unless a
   logical partition was made smaller than its own table's gap, or an extended partition was
   laid over old data (PartitionManager.cpp:209-322). *)
PartitionsApart ==
  ~small /\ ~junk =>
    LET ps == GetPartitions(disk) IN
    /\ \A p \in ps : Sectors(p) \subseteq 0 .. DiskSize - 1 /\ Sectors(p) \cap TablesOf(disk) = {}
    /\ \A p, q \in ps : p # q => Sectors(p) \cap Sectors(q) = {}

(* A command leaves the partitions as it means to; cut short, it leaves some of the old and
   some of the new ones, and never one that is neither, nor loses one it was not to delete
   (PartitionManager.cpp:292-322 and 324-400). *)
CutShortSafely ==
  ~small /\ ~junk =>
    /\ before \cap after \subseteq GetPartitions(disk)
    /\ GetPartitions(disk) \subseteq before \cup after

(* A command adds or removes exactly what it says: creating a partition lists one more,
   deleting one lists one less, deleting the extended partition takes its logical ones
   along, clearing leaves none; the other partitions stay as they are
   (PartitionManager.cpp:209-400). *)
OneByOne ==
  ~small /\ ~junk /\ writes # <<>> =>
    /\ before \subseteq after \/ after \subseteq before
    /\ Cardinality(after) = Cardinality(before) + change
=============================================================================
