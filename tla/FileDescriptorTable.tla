------------------------- MODULE FileDescriptorTable -------------------------
(***************************************************************************)
(* The open files of a process: filesystem/FileDescriptorTable.cpp.        *)
(* A descriptor is real or a duplicate that names another one; each counts *)
(* itself and the duplicates that name it.  Ids are handed out once, the   *)
(* three standard ones may be opened again.                                *)
(***************************************************************************)
EXTENDS Integers, FiniteSets

CONSTANTS
  MaxId,     \* ids below which the runs stay
  MaxOpen,   \* PROC_SYS_MAX_OPEN_FILES
  NONE

\* Assumed by the module that instantiates this one.
TableAssumption == MaxId \in Nat /\ MaxOpen \in 3 .. MaxId

Id == 0 .. MaxId - 1
StdId == 0 .. 2

VARIABLES
  table,     \* _fdTable: of each id that is there, what it duplicates and _refCount
  idCounter  \* _fdIdCounter

vars == <<table, idCounter>>
Opened == {i \in Id : table[i] # NONE}
Real == [dup |-> NONE, refs |-> 1]

InitialTable == [i \in Id |-> IF i \in StdId THEN Real ELSE NONE]
Init ==
  /\ table = InitialTable
  /\ idCounter = 3

allocate ==
  /\ Cardinality(Opened) < MaxOpen /\ idCounter < MaxId
  /\ table' = [table EXCEPT ![idCounter] = Real]
  /\ idCounter' = idCounter + 1

\* The table after free(i), which is refused while there are duplicates of i.
FaultyFreed(i) == [table EXCEPT ![i] = NONE]        \* the original is not told
Freed(i) ==
  [j \in Id |-> CASE j = i -> NONE
                  [] j # i /\ j = table[i].dup -> [table[j] EXCEPT !.refs = @ - 1]
                  [] OTHER -> table[j]]
FaultyMayFree(i) == i \in Opened                    \* not refused
MayFree(i) == i \in Opened /\ table[i].refs <= 1

free(i) == MayFree(i) /\ table' = Freed(i) /\ UNCHANGED idCounter

\* Replaces the descriptor `new` by a duplicate of `old`.
dup2(old, new) ==
  /\ old \in Opened /\ MayFree(new) /\ old # new
  /\ table' = [Freed(new) EXCEPT ![old].refs = @ + 1, ![new] = [dup |-> old, refs |-> 1]]
  /\ UNCHANGED idCounter

initStdFile(i) ==
  /\ i \in StdId /\ MayFree(i)
  /\ table' = [Freed(i) EXCEPT ![i] = Real]
  /\ UNCHANGED idCounter

\* The process ends, and the next one begins with a table of its own.
restart == ~(table = InitialTable /\ idCounter = 3) /\ table' = InitialTable /\ idCounter' = 3

Next == allocate \/ restart \/ \E i \in Id : free(i) \/ initStdFile(i) \/ \E j \in Id : dup2(i, j)

Spec == Init /\ [][Next]_vars

-----------------------------------------------------------------------------
TypeOK ==
  /\ table \in [Id -> [dup: Id \cup {NONE}, refs: 0 .. MaxId] \cup {NONE}]
  /\ idCounter \in 3 .. MaxId

\* A descriptor counts itself and the duplicates that name it, however they
\* came and went: it can be closed exactly when the last of them is closed.
RefCountsExact ==
  \A i \in Opened : table[i].refs = 1 + Cardinality({j \in Opened : table[j].dup = i})

\* getRealNonDupped ends at an open descriptor, over any chain of duplicates.
DupsResolve ==
  \A i \in Opened :
    LET at[k \in 0 .. MaxId] ==
          IF k = 0 THEN i
          ELSE LET j == at[k - 1] IN
               IF j = NONE THEN NONE ELSE IF table[j] = NONE \/ table[j].dup = NONE THEN j ELSE table[j].dup
    IN at[MaxId] \in Opened /\ table[at[MaxId]].dup = NONE
=============================================================================
