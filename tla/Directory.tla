------------------------------ MODULE Directory ------------------------------
(***************************************************************************)
(* Directories on the disk and the working directories of processes:       *)
(* filesystem/Directory.cpp with its callers in FileOperations.cpp.        *)
(*                                                                         *)
(* A directory is a chain of sectors with PerSector places for nodes.  Its *)
(* own node keeps the first sector and the number of its entries; a place  *)
(* of a deleted node is taken again.  Processes and the mounted drive keep *)
(* copies of the nodes of their working directory and of the root.         *)
(*                                                                         *)
(* One operation runs at a time; the allocation of sectors is that of      *)
(* module FileSystem, of which an operation sees the chains only.          *)
(***************************************************************************)
EXTENDS Integers, Sequences, SequencesExt

CONSTANTS
  Sector,       \* data sectors of the drive, but the root's
  RootSector,   \* the one that holds the root's node
  PerSector,    \* DIR_ENTRIES_PER_SECTOR
  Name,
  JunkName,     \* names that may be left in the places of a new sector
  Process,
  NONE

\* Assumed by the module that instantiates this one.
DirectoryAssumption == PerSector \in Nat \ {0} /\ RootSector \notin Sector

Slot == (Sector \cup {RootSector}) \X (0 .. PerSector - 1)
RootSlot == <<RootSector, 0>>
ROOT == "/"
PARENT == ".."
EOC == "EOC"
FREE == "free"      \* 0 in the table

VARIABLES
  node,   \* the node in each place of each sector
  next,   \* the table: the next sector, EOC or FREE
  root,   \* _fileSystem.FSpwd.DirEntry
  pwd,    \* of each process: the place of its directory and a copy of its node
  tree    \* what successful calls made: [path, dir] of each entry, for the properties

vars == <<node, next, root, pwd, tree>>

\* Node::Init
NewNode(name, isDir, parent) ==
  [name |-> name, dir |-> isDir, deleted |-> FALSE, start |-> EOC, size |-> 0, parent |-> parent]
Blank == NewNode(NONE, FALSE, RootSlot)
\* What a sector buffer may hold before anything is copied to it.
Junk == {[Blank EXCEPT !.name = n, !.deleted = d] : n \in JunkName \cup {NONE}, d \in BOOLEAN}

Init ==
  /\ node = [s \in Slot |-> IF s = RootSlot THEN NewNode(ROOT, TRUE, RootSlot) ELSE Blank]
  /\ next = [s \in Sector |-> FREE]
  /\ root = node[RootSlot]
  /\ pwd = [p \in Process |-> [slot |-> RootSlot, node |-> root]]
  /\ tree = {}

-----------------------------------------------------------------------------
(* Looking for a name.                                                     *)

\* The sectors of a chain, and their places in the order they are read.
Chain(first) ==
  LET c[i \in 0 .. Cardinality(Sector)] ==
        IF i = 0 THEN IF first = EOC THEN <<>> ELSE <<first>>
        ELSE LET before == c[i - 1]
             IN IF before = <<>> \/ next[Last(before)] = EOC THEN before
                ELSE Append(before, next[Last(before)])
  IN c[Cardinality(Sector)]
Places(first) ==
  LET c == Chain(first)
  IN [k \in 1 .. Len(c) * PerSector |-> <<c[(k - 1) \div PerSector + 1], (k - 1) % PerSector>>]

\* Directory_FindDirectory.  It reads until as many live entries were seen as
\* the directory has; the place for a new entry is that of the first deleted
\* one, or the one after the last place read.
FaultyAfter(at, stop) == [found |-> FALSE, slot |-> at[stop], buffer |-> "read"]
After(at, stop) ==
  IF stop = Len(at) THEN [found |-> FALSE, slot |-> at[stop], buffer |-> "extend"]
  ELSE [found |-> FALSE, slot |-> at[stop + 1], buffer |-> IF stop % PerSector = 0 THEN "junk" ELSE "read"]
Hits(at, name) == {k \in DOMAIN at : ~node[at[k]].deleted /\ node[at[k]].name = name}
Enough(at, size) ==
  {k \in DOMAIN at : /\ ~node[at[k]].deleted
                     /\ Cardinality({j \in 1 .. k : ~node[at[j]].deleted}) >= size}
  \cup IF size = 0 /\ at # <<>> THEN {PerSector} ELSE {}
Scanned(at, hits, enough) ==
  LET stop == IF hits \cup enough = {} THEN Len(at) ELSE Min(hits \cup enough)
      gaps == {k \in 1 .. stop : node[at[k]].deleted}
  IN CASE stop \in hits -> [found |-> TRUE, slot |-> at[stop], buffer |-> "read"]
       [] stop \notin hits /\ gaps # {} -> [found |-> FALSE, slot |-> at[Min(gaps)], buffer |-> "read"]
       [] stop \notin hits /\ gaps = {} /\ enough # {} -> After(at, stop)
       [] OTHER -> [found |-> FALSE, slot |-> NONE, buffer |-> "none"]
Find(dir, name) ==
  LET at == Places(dir.start) IN Scanned(at, Hits(at, name), Enough(at, dir.size))

\* A directory on the way: where its node is and the node that is used for it.
Nowhere == [slot |-> NONE, node |-> Blank]
OnDisk(slot) == [slot |-> slot, node |-> node[slot]]
Enter(cwd, name) ==
  IF ~cwd.node.dir THEN Nowhere
  ELSE IF name = PARENT THEN OnDisk(IF cwd.node.name = ROOT THEN cwd.slot ELSE cwd.node.parent)
  ELSE LET f == Find(cwd.node, name) IN IF f.found THEN OnDisk(f.slot) ELSE Nowhere

\* The loop of Directory_ReadDirEntryInfo and GetDirEntryForCreateDelete.
Resolve(cwd, path) ==
  LET at[i \in 0 .. Len(path)] == IF i = 0 THEN cwd ELSE Enter(at[i - 1], path[i])
  IN at[Len(path)]

\* Where a path starts: at the copy of the root's node, or at the copy the
\* process has of its working directory's (Directory_SyncPWD reads it again).
FaultySync(p) == pwd[p].node
Sync(p) == node[pwd[p].slot]
RootCwd == [slot |-> RootSlot, node |-> root]
StaleCwd(p) == pwd[p]
SyncedCwd(p) == [slot |-> pwd[p].slot, node |-> Sync(p)]

\* Node::FullPath: the names from the root down to a place, along the parents.
FullPath(slot) ==
  LET up[i \in 0 .. Cardinality(Sector)] ==
        IF i = 0 THEN [slot |-> slot, path |-> <<>>]
        ELSE LET d == up[i - 1]
             IN IF node[d.slot].name = ROOT THEN d
                ELSE [slot |-> node[d.slot].parent, path |-> <<node[d.slot].name>> \o d.path]
  IN up[Cardinality(Sector)].path

-----------------------------------------------------------------------------
(* Operations.                                                             *)

\* The copies after the node at this place became d.
FaultyCopies(p, slot, d) ==      \* the drive's copy of the root is forgotten
  /\ pwd' = [pwd EXCEPT ![p].node = IF slot = pwd[p].slot THEN d ELSE Sync(p)]
  /\ UNCHANGED root
Copies(p, slot, d) ==
  /\ pwd' = [pwd EXCEPT ![p].node = IF slot = pwd[p].slot THEN d ELSE Sync(p)]
  /\ root' = IF d.name = ROOT THEN d ELSE root

\* The new node is written to its place with what else its buffer holds,
\* then the parent's.
FaultyPut(p, parent, slot, fresh, new) ==   \* does not count the new entry
  LET d == [parent.node EXCEPT !.start = IF @ = EOC THEN slot[1] ELSE @]
  IN /\ \E junk \in [0 .. PerSector - 1 -> Junk] :
          node' = [s \in Slot |-> IF s = slot THEN new
                                  ELSE IF s = parent.slot THEN d
                                  ELSE IF fresh /\ s[1] = slot[1] THEN junk[s[2]] ELSE node[s]]
     /\ Copies(p, parent.slot, d)
Put(p, parent, slot, fresh, new) ==
  LET d == [parent.node EXCEPT !.start = IF @ = EOC THEN slot[1] ELSE @, !.size = @ + 1]
  IN /\ \E junk \in [0 .. PerSector - 1 -> Junk] :
          node' = [s \in Slot |-> IF s = slot THEN new
                                  ELSE IF s = parent.slot THEN d
                                  ELSE IF fresh /\ s[1] = slot[1] THEN junk[s[2]] ELSE node[s]]
     /\ Copies(p, parent.slot, d)

\* Directory_Create in the directory the first names of the path lead to.
FreeSectors == {s \in Sector : next[s] = FREE}
FaultyNewEntry(cwd, path, isDir) == NewNode(Last(path), isDir, cwd.slot)
NewEntry(cwd, path, isDir) == NewNode(Last(path), isDir, Resolve(cwd, Front(path)).slot)
CreateIn(p, parent, f, new) ==
  /\ tree' = IF parent.node.dir
             THEN tree \cup {[path |-> Append(FullPath(parent.slot), new.name), dir |-> new.dir]}
             ELSE tree
  /\ \/ /\ parent.node.start = EOC
        /\ \E s \in FreeSectors :
             /\ Put(p, parent, <<s, 0>>, TRUE, new)
             /\ next' = [next EXCEPT ![s] = EOC]
     \/ /\ parent.node.start # EOC /\ parent.node.dir /\ ~f.found
        /\ f.buffer = "extend"
        /\ \E s \in FreeSectors :
             /\ Put(p, parent, <<s, 0>>, TRUE, new)
             /\ next' = [next EXCEPT ![s] = EOC, ![f.slot[1]] = s]
     \/ /\ parent.node.start # EOC /\ parent.node.dir /\ ~f.found
        /\ f.buffer \in {"read", "junk"}
        /\ Put(p, parent, f.slot, f.buffer = "junk", new)
        /\ UNCHANGED next
Create(p, cwd, path, isDir) ==
  LET parent == OnDisk(Resolve(cwd, Front(path)).slot)
  IN /\ Last(path) # PARENT /\ Resolve(cwd, Front(path)) # Nowhere
     /\ CreateIn(p, parent, Find(parent.node, Last(path)), NewEntry(cwd, path, isDir))

\* Directory_Delete of a file or an empty directory that no process works in.
\* What is left of a deleted node and of a freed sector is never read.
FaultyFreed(first) == {}
Freed(first) == Range(Chain(first))
DeleteFrom(p, parent, f, name, freed) ==
  LET d == [parent.node EXCEPT !.size = @ - 1]
  IN /\ node[f.slot].dir => node[f.slot].size = 0
     /\ \A q \in Process : pwd[q].slot # f.slot
     /\ next' = [s \in Sector |-> IF s \in freed THEN FREE ELSE next[s]]
     /\ node' = [s \in Slot |-> IF s = f.slot THEN [Blank EXCEPT !.deleted = TRUE]
                               ELSE IF s = parent.slot THEN d
                               ELSE IF s[1] \in freed THEN Blank ELSE node[s]]
     /\ Copies(p, parent.slot, d)
     /\ tree' = {e \in tree : e.path # Append(FullPath(parent.slot), name)}
Delete(p, cwd, path) ==
  LET parent == OnDisk(Resolve(cwd, Front(path)).slot)
      f      == Find(parent.node, Last(path))
  IN /\ Last(path) # PARENT /\ Resolve(cwd, path) # Nowhere
     /\ parent.node.start # EOC /\ parent.node.dir /\ f.found
     /\ DeleteFrom(p, parent, f, Last(path), Freed(node[f.slot].start))

\* Directory_Change; the copy of the working directory is not read again first.
FaultyChangeDir(p, cwd, path) ==    \* keeps the node of the directory it leaves
  LET to == Resolve(cwd, path)
  IN /\ to.node.dir
     /\ pwd' = [pwd EXCEPT ![p].slot = to.slot]
     /\ UNCHANGED <<node, next, root, tree>>
ChangeDir(p, cwd, path) ==
  LET to == Resolve(cwd, path)
  IN /\ to.node.dir
     /\ pwd' = [pwd EXCEPT ![p] = OnDisk(to.slot)]
     /\ UNCHANGED <<node, next, root, tree>>

\* A process is created for another, whose directory it inherits, copy included.
Inherit(p, q) ==
  /\ pwd' = [pwd EXCEPT ![p] = pwd[q]]
  /\ UNCHANGED <<node, next, root, tree>>

\* A system call that fails has still read the working directory again.
SyncPWD(p) ==
  /\ pwd' = [pwd EXCEPT ![p].node = Sync(p)]
  /\ UNCHANGED <<node, next, root, tree>>

Relative == {<<n>> : n \in Name} \cup {<<PARENT, n>> : n \in Name}
Absolute == {<<n>> : n \in Name} \cup {<<m, n>> : m, n \in Name}

Next ==
  \E p \in Process :
    \/ \E path \in Relative, d \in BOOLEAN : Create(p, SyncedCwd(p), path, d)
    \/ \E path \in Absolute, d \in BOOLEAN : Create(p, RootCwd, path, d)
    \/ \E path \in Relative : Delete(p, SyncedCwd(p), path)
    \/ \E path \in Absolute : Delete(p, RootCwd, path)
    \/ \E path \in Relative \cup {<<PARENT>>} : ChangeDir(p, StaleCwd(p), path)
    \/ \E path \in Absolute : ChangeDir(p, RootCwd, path)
    \/ ChangeDir(p, OnDisk(RootSlot), <<>>)
    \/ \E q \in Process : Inherit(p, q)
    \/ SyncPWD(p)

Spec == Init /\ [][Next]_vars

-----------------------------------------------------------------------------
(* Properties.                                                             *)

TypeOK ==
  /\ \A s \in Slot : /\ node[s].start \in Sector \cup {EOC} /\ node[s].size \in Nat
                     /\ node[s].parent \in Slot
  /\ next \in [Sector -> Sector \cup {EOC, FREE}]
  /\ root.start \in Sector \cup {EOC}
  /\ \A p \in Process : pwd[p].slot \in Slot

\* The paths a lookup from the root finds, as far down as sectors reach.
Found ==
  LET below[k \in 0 .. Cardinality(Sector)] ==
        IF k = 0 THEN {<<>>}
        ELSE {path \in {Append(up, n) : up \in below[k - 1], n \in Name} :
                Resolve(RootCwd, path) # Nowhere}
  IN UNION {below[k] : k \in 1 .. Cardinality(Sector)}
SlotOf(path) == Resolve(RootCwd, path).slot

\* Whatever places are taken again and however chains grow, a lookup finds
\* exactly what calls made and did not delete (Directory_Create and Delete).
LookupsSeeTree == {[path |-> path, dir |-> node[SlotOf(path)].dir] : path \in Found} = tree

\* The number a directory's node keeps is that of its entries, so that the
\* scan that stops at this number has seen them all (FindDirectory, AddNode).
SizeExact ==
  \A path \in Found \cup {<<>>} :
    node[SlotOf(path)].dir =>
      node[SlotOf(path)].size = Cardinality({n \in Name : Append(path, n) \in Found})

\* Every sector but the root's is free or in the chain of exactly one node
\* that can be reached (the loop of Directory_Delete).
SectorsOwnedOnce ==
  LET owners(s) == {path \in Found \cup {<<>>} : s \in Range(Chain(node[SlotOf(path)].start))}
  IN \A s \in Sector : Cardinality(owners(s)) = IF next[s] = FREE THEN 0 ELSE 1

\* The drive's copy of the root's node, which every absolute path starts at
\* without reading the disk, is the node on the disk.
RootCopyFresh == root = node[RootSlot]

\* The path kept for an open file is the one that leads to its node: parents
\* and entries agree (FileOperations_Open, every later Read and Write).
PathsInvert == \A path \in Found : FullPath(SlotOf(path)) = path

\* A relative path means the same as the absolute one through the working
\* directory, whatever other processes did to that directory.
RelativeAgrees ==
  \A p \in Process, n \in Name :
    Resolve(SyncedCwd(p), <<n>>) = Resolve(RootCwd, Append(FullPath(pwd[p].slot), n))

\* With the copy that was not read again a lookup may miss an entry, and
\* never finds a wrong one (Directory_Change, FileOperations_GetStat).
StaleMissesOnly ==
  \A p \in Process, n \in Name :
    Resolve(StaleCwd(p), <<n>>) \in {Nowhere, Resolve(SyncedCwd(p), <<n>>)}
=============================================================================
