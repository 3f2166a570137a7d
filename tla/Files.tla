-------------------------------- MODULE Files --------------------------------
(***************************************************************************)
(* Reading and writing through open files: filesystem/FileOperations.cpp,  *)
(* FileDescriptor.h and the file half of Directory.cpp.                    *)
(*                                                                         *)
(* A descriptor remembers, besides its offset, one sector of the file's    *)
(* chain and its index (setLastReadSector...), from which the next access  *)
(* walks on.  Sectors next to each other are read and written in runs.  A  *)
(* cell stands for a piece of a sector; what is written at an offset of a  *)
(* file is the pair of the two, so that a read shows where its cells came  *)
(* from.  One operation runs at a time (module FileSystem tells why).      *)
(***************************************************************************)
EXTENDS Integers, Sequences, FiniteSets, SequencesExt

CONSTANTS
  File, FD,
  NSectors,   \* sectors 0 .. NSectors - 1
  Cells,      \* in a sector
  MaxRun,     \* MAX_SECTORS_PER_RW
  Length,     \* of one read or write
  NONE

\* Assumed by the module that instantiates this one.
FilesAssumption == ({NSectors, Cells} \cup Length) \subseteq Nat \ {0} /\ MaxRun \in Nat \ {0, 1}

Sector == 0 .. NSectors - 1
EOC == NSectors + 1        \* no sector is next to it
FREE == -1
ZERO == <<NONE, 0>>
JUNK == <<NONE, 1>>        \* what an uninitialized buffer or a free sector holds
Old == [c \in 0 .. Cells - 1 |-> JUNK]
Offset == 0 .. NSectors * Cells

VARIABLES
  start, size,  \* of each file, in its node
  next,         \* the table
  data,         \* the cells of each sector
  fd,           \* open descriptors: file, offset, index and sector remembered
  written,      \* offsets of each file that were written, for the properties
  lost          \* sectors that no node leads to after a write that failed

vars == <<start, size, next, data, fd, written, lost>>

Init ==
  /\ start = [f \in File |-> EOC] /\ size = [f \in File |-> 0]
  /\ next = [s \in Sector |-> FREE]
  /\ data = [s \in Sector |-> Old]
  /\ fd = [d \in FD |-> NONE]
  /\ written = [f \in File |-> {}]
  /\ lost = {}

MinOf(a, b) == IF a < b THEN a ELSE b
Chain(first) ==
  LET c[i \in 0 .. NSectors] ==
        IF i = 0 THEN IF first = EOC THEN <<>> ELSE <<first>>
        ELSE LET before == c[i - 1]
             IN IF before = <<>> \/ next[Last(before)] = EOC THEN before
                ELSE Append(before, next[Last(before)])
  IN c[NSectors]
Drop(c, n) == [i \in 1 .. Len(c) - n |-> c[i + n]]
FreeSectors == {s \in Sector : next[s] = FREE}
IsOpen(f) == \E d \in FD : fd[d] # NONE /\ fd[d].file = f

-----------------------------------------------------------------------------
(* Opening, closing, seeking.                                              *)

\* FileOperations_Open.  The sector remembered first is that of the node: a
\* file that is opened before it has one is not opened a second time.
Open(d, f, append) ==
  /\ fd[d] = NONE
  /\ IF start[f] = EOC THEN ~IsOpen(f) ELSE \A e \in FD : fd[e] # NONE /\ fd[e].file = f => fd[e].no # EOC
  /\ fd' = [fd EXCEPT ![d] = [file |-> f, off |-> IF append THEN size[f] ELSE 0, idx |-> 0, no |-> start[f]]]
  /\ UNCHANGED <<start, size, next, data, written, lost>>

Close(d) ==
  /\ fd[d] # NONE
  /\ fd' = [fd EXCEPT ![d] = NONE]
  /\ UNCHANGED <<start, size, next, data, written, lost>>

\* FileDescriptorTable::updateOffset, also past the end of the file.
Seek(d, off) ==
  /\ fd[d] # NONE
  /\ fd' = [fd EXCEPT ![d].off = off]
  /\ UNCHANGED <<start, size, next, data, written, lost>>

\* O_TRUNC: FileOperations_Delete and Create, of a file that is not open.  The
\* old cells of a free sector are not told apart.
FaultyTruncate(f) ==            \* forgets the sectors
  /\ ~IsOpen(f) /\ start[f] # EOC
  /\ start' = [start EXCEPT ![f] = EOC] /\ size' = [size EXCEPT ![f] = 0]
  /\ written' = [written EXCEPT ![f] = {}]
  /\ UNCHANGED <<next, data, fd, lost>>
Truncate(f) ==
  /\ ~IsOpen(f) /\ start[f] # EOC
  /\ start' = [start EXCEPT ![f] = EOC] /\ size' = [size EXCEPT ![f] = 0]
  /\ next' = [s \in Sector |-> IF s \in Range(Chain(start[f])) THEN FREE ELSE next[s]]
  /\ data' = [s \in Sector |-> IF s \in Range(Chain(start[f])) THEN Old ELSE data[s]]
  /\ written' = [written EXCEPT ![f] = {}]
  /\ UNCHANGED <<fd, lost>>

-----------------------------------------------------------------------------
(* Where an access starts: at the sector remembered, unless it is past the *)
(* offset, and then at the first of the file.                              *)

From(d) ==
  IF fd[d].idx > fd[d].off \div Cells THEN [idx |-> 0, no |-> start[fd[d].file]]
  ELSE [idx |-> fd[d].idx, no |-> fd[d].no]

-----------------------------------------------------------------------------
(* Directory_FileRead: runs of sectors next to each other, of MaxRun at    *)
(* most, until enough is read or the chain ends.                           *)

\* How many sectors are read at once from place i of the chain c on.
FaultyRunLen(c, i, pos, rem) == MinOf(MaxRun, Len(c) - i + 1)   \* next to each other or not
RunLen(c, i, pos, rem) ==
  CHOOSE n \in 1 .. MaxRun :
    LET ends(k) == \/ i + k > Len(c) \/ c[i + k] # c[i + k - 1] + 1
                   \/ k > 1 /\ (rem <= k * Cells - pos \/ k = MaxRun)
    IN ends(n) /\ \A k \in 1 .. n - 1 : ~ends(k)

\* What is remembered: the first sector of the last run.
FaultyHint(first, c, last) == [idx |-> first, no |-> IF c = <<>> THEN EOC ELSE c[last]]   \* its index is not
Hint(first, c, last) == [idx |-> first + last - 1, no |-> IF c = <<>> THEN EOC ELSE c[last]]

ReadAt(d, len) ==
  LET f == fd[d].file
      off == fd[d].off
      first == off \div Cells
      v == From(d)
      c == Drop(Chain(v.no), first - v.idx)
      run[k \in 0 .. NSectors] ==
        IF k = 0 THEN [at |-> 1, last |-> 1, pos |-> off % Cells, out |-> <<>>, rem |-> MinOf(len, size[f] - off)]
        ELSE LET b == run[k - 1] IN
             IF b.rem = 0 \/ b.at > Len(c) THEN b
             ELSE LET n   == RunLen(c, b.at, b.pos, b.rem)
                      got == MinOf(b.rem, n * Cells - b.pos)
                  IN [at |-> b.at + n, last |-> b.at, pos |-> 0, rem |-> b.rem - got,
                      out |-> b.out \o [j \in 1 .. got |->
                        data[c[b.at] + (b.pos + j - 1) \div Cells][(b.pos + j - 1) % Cells]]]
  IN [out |-> run[NSectors].out,
      hint |-> Hint(first, c, run[NSectors].last)]

Read(d, len) ==
  /\ fd[d] # NONE /\ fd[d].off < size[fd[d].file]
  /\ LET r == ReadAt(d, len)
     IN fd' = [fd EXCEPT ![d] = [@ EXCEPT !.off = @ + Len(r.out), !.idx = r.hint.idx, !.no = r.hint.no]]
  /\ UNCHANGED <<start, size, next, data, written, lost>>

-----------------------------------------------------------------------------
(* Directory_FileWrite.                                                    *)

\* Directory_BufferedWrite: how far the sector at i of the plan is into the
\* run it is written with.  The first sector is written alone if only the
\* rest of it is.
FaultyRun(plan, alone) == [i \in DOMAIN plan |-> (i - 1) % MaxRun]   \* next to each other or not
Run(plan, alone) ==
  LET run[i \in DOMAIN plan] ==
        IF i = 1 \/ (i = 2 /\ alone) \/ plan[i] # plan[i - 1] + 1 THEN 0
        ELSE (run[i - 1] + 1) % MaxRun
  IN run

\* How much of the plan is on the disk when the sector after it is missing:
\* a run that was begun and is not full is not written.
Flushed(plan, alone) ==
  LET n == Len(plan)
      last == Run(plan, alone)[n]
  IN IF n = 0 THEN 0
     ELSE IF last = MaxRun - 1 \/ (n = 1 /\ alone) THEN n ELSE n - last - 1

\* The sectors taken for the end of a chain, each linked to the one before.
Taken(n) ==
  {q \in [1 .. n -> FreeSectors] : \A i, j \in 1 .. n : q[i] = q[j] => i = j}
Linked(old, fresh) ==
  LET c == old \o fresh
      links == {i \in 1 .. Len(c) : i >= Len(old)}
  IN [s \in Sector |->
        IF \E i \in links : c[i] = s
        THEN LET i == CHOOSE j \in links : c[j] = s IN IF i = Len(c) THEN EOC ELSE c[i + 1]
        ELSE next[s]]

\* What a write has before it: the chain from the sector it starts at, how
\* far in there the sector of the offset is, and how many sectors are missing.
Ahead(d, len) ==
  LET v == From(d)
      old == Chain(v.no)
      skip == fd[d].off \div Cells - v.idx
      last == (fd[d].off + len - 1) \div Cells - v.idx
  IN [old |-> old, skip |-> skip, last |-> last,
      need |-> IF last < Len(old) THEN 0 ELSE last + 1 - Len(old)]

\* The cells of all sectors when the first `done` sectors from that of the
\* offset on were written.  A new sector up to there was zeroed first.
Contents(d, len, w, c, done) ==
  LET f == fd[d].file
      off == fd[d].off
      plan == Drop(SubSeq(c, 1, MinOf(w.last + 1, Len(c))), w.skip)
      zeroed == {c[i] : i \in Len(w.old) + 1 .. MinOf(w.skip + 1, Len(c))}
      alone == off % Cells # 0
      run == Run(plan, alone)
      target(i) == plan[i - run[i]] + run[i]
      before(s) == IF s \in zeroed THEN [k \in 0 .. Cells - 1 |-> ZERO] ELSE data[s]
      cell(i, k) == LET o == (off \div Cells + i - 1) * Cells + k IN
                    IF o \in off .. off + len - 1 THEN <<f, o>>
                    ELSE IF (i = 1 /\ alone) \/ off + len < size[f] THEN before(plan[i])[k]
                    ELSE JUNK
  IN [s \in Sector |->
        IF \E i \in 1 .. done : target(i) = s
        THEN LET i == CHOOSE j \in 1 .. done : target(j) = s IN [k \in 0 .. Cells - 1 |-> cell(i, k)]
        ELSE before(s)]
CanWrite(d) == fd[d] # NONE /\ fd[d].no \notin lost

Write(d, len) ==
  LET f == fd[d].file
      off == fd[d].off
      w == Ahead(d, len)
  IN /\ CanWrite(d)
     /\ \E fresh \in Taken(w.need) :
          LET c == w.old \o fresh IN
          /\ next' = Linked(w.old, fresh)
          /\ data' = Contents(d, len, w, c, w.last - w.skip + 1)
          /\ fd' = [fd EXCEPT ![d] = [@ EXCEPT !.off = off + len, !.idx = off \div Cells, !.no = c[w.skip + 1]]]
          /\ start' = [start EXCEPT ![f] = IF @ = EOC THEN c[1] ELSE @]
     /\ size' = [size EXCEPT ![f] = IF @ < off + len THEN off + len ELSE @]
     /\ written' = [written EXCEPT ![f] = @ \cup (off .. off + len - 1)]
     /\ UNCHANGED lost

\* No free sector is left on the way.  Full runs are written; the node is
\* not, so that an empty file forgets the sectors it was given.
WriteFails(d, len) ==
  LET f == fd[d].file
      w == Ahead(d, len)
  IN /\ CanWrite(d) /\ w.need > Cardinality(FreeSectors)
     /\ \E fresh \in Taken(Cardinality(FreeSectors)) :
          LET c == w.old \o fresh
              at == MinOf(w.skip + 1, Len(c))
          IN /\ next' = Linked(w.old, fresh)
             /\ data' = Contents(d, len, w, c, Flushed(Drop(c, w.skip), fd[d].off % Cells # 0))
             /\ fd' = IF fresh = <<>> /\ w.skip >= Len(w.old) THEN fd
                      ELSE [fd EXCEPT ![d] = [@ EXCEPT !.idx = From(d).idx + at - 1, !.no = c[at]]]
             /\ lost' = IF start[f] = EOC THEN lost \cup Range(fresh) ELSE lost
     /\ UNCHANGED <<start, size, written>>

-----------------------------------------------------------------------------
Next ==
  \/ \E f \in File : Truncate(f)
  \/ \E d \in FD :
       \/ \E f \in File, append \in BOOLEAN : Open(d, f, append)
       \/ Close(d)
       \/ \E off \in Offset : Seek(d, off)
       \/ \E len \in Length : Read(d, len) \/ Write(d, len) \/ WriteFails(d, len)

Spec == Init /\ [][Next]_vars

-----------------------------------------------------------------------------
(* Properties.                                                             *)

TypeOK ==
  /\ start \in [File -> Sector \cup {EOC}] /\ size \in [File -> Offset]
  /\ next \in [Sector -> Sector \cup {EOC, FREE}]
  /\ \A d \in FD : fd[d] # NONE => fd[d].off \in Offset /\ fd[d].no \in Sector \cup {EOC}
  /\ lost \subseteq Sector

\* A read from any descriptor at any offset returns as much as the file has,
\* and what was written there last, whichever descriptor wrote it, in
\* whatever runs it was written and is read (Directory_FileRead, FileWrite).
ReadsBack ==
  \A d \in FD : fd[d] # NONE /\ fd[d].off < size[fd[d].file] =>
    \A len \in Length :
      LET f == fd[d].file
          off == fd[d].off
          out == ReadAt(d, len).out
      IN /\ Len(out) = MinOf(len, size[f] - off)
         /\ \A i \in DOMAIN out : off + i - 1 \in written[f] => out[i] = <<f, off + i - 1>>

\* The sector a descriptor remembers is the one of the index it remembers.
HintsExact ==
  \A d \in FD : fd[d] # NONE /\ fd[d].no \notin lost \cup {EOC} =>
    Chain(start[fd[d].file])[fd[d].idx + 1] = fd[d].no

\* The chain of a file has a sector for every cell of its size, and sectors
\* are free, or in one chain, or lost by a write that failed.
ChainsCover ==
  /\ \A f \in File : Len(Chain(start[f])) * Cells >= size[f]
  /\ \A s \in Sector :
       Cardinality({f \in File : s \in Range(Chain(start[f]))}) = IF next[s] = FREE \/ s \in lost THEN 0 ELSE 1
=============================================================================
