------------------------------ MODULE TableCache ------------------------------
(***************************************************************************)
(* The sorted vector in which the cached blocks of the allocation table    *)
(* are kept: FSManager_BinarySearch, AddToTableCache and the erasing half  *)
(* of FlushTableCache (filesystem/FileSystem.cpp).  Positions count from 0 *)
(* as in the code.  Module FileSystem keeps a set of blocks instead and    *)
(* implements this module.                                                 *)
(*                                                                         *)
(* A definition named Faulty... is the one after it with a single fault;   *)
(* no specification uses it, it shows what the properties would catch.     *)
(***************************************************************************)
EXTENDS Integers, Sequences, FiniteSets

CONSTANTS
  NBlocks,    \* number of table blocks
  CacheSize   \* MAX_SECTORS_IN_TABLE_CACHE

VARIABLE blocks   \* the block ids in _fsTableCache, in order

Block == 0 .. NBlocks - 1

\* FSManager_BinarySearch: whether id is there, and its position or the one
\* to insert it at, from low, high and *iPos of its loop.
Loop(q) == [low : 0 .. Len(q), high : -1 .. Len(q) - 1, iPos : -1 .. Len(q)]
FaultyBinarySearch(q, id) ==     \* the insert position after a step down is one too low
  LET search[l \in Loop(q)] ==
        LET mid == (l.low + l.high) \div 2 IN
        IF l.low > l.high THEN [found |-> FALSE, pos |-> IF l.iPos < 0 THEN 0 ELSE l.iPos]
        ELSE IF q[mid + 1] = id THEN [found |-> TRUE, pos |-> mid]
        ELSE IF id < q[mid + 1] THEN search[[l EXCEPT !.high = mid - 1, !.iPos = mid - 1]]
        ELSE search[[l EXCEPT !.low = mid + 1, !.iPos = mid + 1]]
  IN search[[low |-> 0, high |-> Len(q) - 1, iPos |-> -1]]
BinarySearch(q, id) ==
  LET search[l \in Loop(q)] ==
        LET mid == (l.low + l.high) \div 2 IN
        IF l.low > l.high THEN [found |-> FALSE, pos |-> IF l.iPos < 0 THEN 0 ELSE l.iPos]
        ELSE IF q[mid + 1] = id THEN [found |-> TRUE, pos |-> mid]
        ELSE IF id < q[mid + 1] THEN search[[l EXCEPT !.high = mid - 1, !.iPos = mid]]
        ELSE search[[l EXCEPT !.low = mid + 1, !.iPos = mid + 1]]
  IN search[[low |-> 0, high |-> Len(q) - 1, iPos |-> -1]]

InsertAt(q, pos, id) == SubSeq(q, 1, pos) \o <<id>> \o SubSeq(q, pos + 1, Len(q))

Init == blocks = <<>>

\* A full vector loses its first block before the new one comes.
AddToTableCache(id) ==
  LET rest == IF Len(blocks) = CacheSize THEN Tail(blocks) ELSE blocks
      at   == BinarySearch(rest, id)
  IN /\ ~BinarySearch(blocks, id).found
     /\ blocks' = IF at.found THEN rest ELSE InsertAt(rest, at.pos, id)

Restart == blocks' = <<>>

Next == Restart \/ \E id \in Block : AddToTableCache(id)

Spec == Init /\ [][Next]_blocks

-----------------------------------------------------------------------------
Members == {blocks[i] : i \in DOMAIN blocks}

\* A block is found where it is, and nowhere when it is not cached: a block
\* is never cached twice, which would hide the changes made to the first
\* copy (GetSectorEntryFromCache).
SearchFindsMembers ==
  \A id \in Block :
    LET at == BinarySearch(blocks, id) IN
    IF id \in Members THEN at.found /\ blocks[at.pos + 1] = id
    ELSE ~at.found /\ at.pos = Cardinality({m \in Members : m < id})
=============================================================================
