-------------------------------- MODULE Drives --------------------------------
(***************************************************************************)
(* The drive list (drivers/DeviceDrive.cpp), the root drive of the mount   *)
(* manager and the drive each process works on: drives are created as the  *)
(* controllers find partitions, mounted, unmounted and formatted by        *)
(* commands and system calls, and unmounted by a reboot. A file operation  *)
(* is reduced to what it leaves dirty; mounting, formatting and unmounting *)
(* are the steps of their handlers that can fail apart.                    *)
(***************************************************************************)
EXTENDS Integers, Sequences, FiniteSets, SequencesExt

CONSTANTS Name,        \* drive names, all partitions of one raw disk
          BootName,    \* the drive name that the boot device stands for
          Process, Service,
          Shell,       \* the first process: it is created before there is a drive
          MaxErrors, MaxMoves,
          NONE, CURRENT, BLANK

VARIABLES list,        \* _driveList: names in the order of creation; an id is a position
          mounted, pool, lostPools,
          valid,       \* drives whose boot block on the disk is that of a file system
          rootRead,    \* drives whose FSpwd was read
          unsaved,     \* drives whose table cache holds what no sector does
          dirty,       \* sectors of a drive written in its cache alone
          tasks,       \* drives whose cache tasks run
          driveID, pwd, saved,
          root, stale, \* the root drive; whether Initialize renamed it under a cached id
          indicator, update, formatted, overlapped,
          phase, settled,
          errors, moves

vars == <<list, mounted, pool, lostPools, valid, rootRead, unsaved, dirty, tasks, driveID, pwd, saved,
          root, stale, indicator, update, formatted, overlapped, phase, settled, errors, moves>>
Volume  == <<mounted, pool, lostPools, valid, rootRead>>
Written == <<unsaved, dirty, tasks>>
Homes   == <<driveID, pwd, saved>>
Roots   == <<root, stale>>
Table   == <<indicator, update, formatted, overlapped>>
Ending  == <<phase, settled>>

Off == -1  \* phase is 0 before a reboot, then the position in the list it has reached
Actor == Process \cup {Service}
Created == ToSet(list)
GetByDriveName(n) == CHOOSE i \in 1 .. Len(list) : list[i] = n
Move == moves < MaxMoves /\ moves' = moves + 1 /\ phase # Off
Can(p) == driveID[p] # NONE /\ update[p] = NONE

Init ==
  /\ list = <<>> /\ mounted = {} /\ pool = {} /\ lostPools = 0 /\ valid \in SUBSET {BootName} /\ rootRead = {}
  /\ unsaved = {} /\ dirty = [n \in Name |-> {}] /\ tasks = {}
  /\ driveID = [p \in Actor |-> IF p \in {Shell, Service} THEN CURRENT ELSE NONE]
  /\ pwd = [p \in Actor |-> BLANK] /\ saved = NONE
  /\ root = [name |-> NONE, id |-> CURRENT] /\ stale = FALSE
  /\ indicator = [n \in Name |-> "old"] /\ update = [p \in Actor |-> NONE]
  /\ formatted = {} /\ overlapped = FALSE
  /\ phase = 0 /\ settled = {} /\ errors = 0 /\ moves = 0

(* Create: the drive enters the list with the next id and its two cache tasks start. *)
Create(n) ==
  /\ n \notin Created
  /\ list' = Append(list, n) /\ tasks' = tasks \cup {n}
  /\ UNCHANGED <<Volume, unsaved, dirty, Homes, Roots, Table, Ending, errors, moves>>

-------------------------------------------------------------------------------
(* Mount: the pool is allocated before anything is read, and a failed mount keeps it. *)
Fails == errors < MaxErrors /\ errors' = errors + 1
Mount(p, n) ==
  /\ Can(p) /\ Move /\ n \in Created \ mounted
  /\ pool' = pool \cup {n} /\ lostPools' = lostPools + (IF n \in pool THEN 1 ELSE 0)
  /\ \/ /\ n \in valid
        /\ rootRead' = rootRead \cup {n} /\ mounted' = mounted \cup {n} /\ UNCHANGED errors
     \/ /\ n \notin valid /\ UNCHANGED <<rootRead, mounted, errors>>
     \/ Fails /\ UNCHANGED <<rootRead, mounted>>
  /\ UNCHANGED <<list, valid, Written, Homes, Roots, Table, Ending>>

(* UnMount writes the boot block and the cached tables, flushes the dirty sectors and drops
   the pool; an error of a write ends it with the drive still mounted, one of the flush is
   not reported. *)
Saved(n) == [dirty EXCEPT ![n] = {}]
UnMounted(n) ==
  \/ /\ unsaved' = unsaved \ {n} /\ pool' = pool \ {n} /\ mounted' = mounted \ {n}
     /\ \/ dirty' = Saved(n) /\ UNCHANGED errors
        \/ Fails /\ dirty' = [dirty EXCEPT ![n] = @ \cup {"meta"}]
  \/ Fails /\ dirty' = [dirty EXCEPT ![n] = @ \cup {"meta"}] /\ UNCHANGED <<unsaved, pool, mounted>>

(* The system call refuses the drive that a user process works on; the command does not. *)
UnMount(p, n) ==
  /\ Can(p) /\ Move /\ n \in mounted
  /\ p = Shell \/ driveID[p] # GetByDriveName(n)
  /\ UnMounted(n) /\ settled' = IF errors' # errors THEN settled \ {n} ELSE settled
  /\ UNCHANGED <<list, lostPools, valid, rootRead, tasks, Homes, Roots, Table, phase>>

(* FormatDrive: the boot block, an empty table and the root directory are written through
   the cache and flushed, and the drive is no longer mounted, its pool and table cache kept;
   then the partition table is read and written back to mark the partition. *)
Format(n) ==
  /\ valid' = valid \cup {n} /\ mounted' = mounted \ {n}
  /\ \/ dirty' = Saved(n) /\ UNCHANGED errors
     \/ Fails /\ dirty' = [dirty EXCEPT ![n] = {"meta", "file"}]
FormatDrive(p, n) ==
  /\ Can(p) /\ Move /\ n \in Created
  /\ Format(n)
  /\ update' = [update EXCEPT ![p] = [drive |-> n, table |-> indicator]]
  /\ overlapped' = (overlapped \/ \E q \in Actor \ {p} : update[q] # NONE)
  /\ settled' = settled \ {n}
  /\ UNCHANGED <<list, pool, lostPools, rootRead, unsaved, tasks, Homes, Roots, indicator, formatted, phase>>

FaultyUpdateSystemIndicator(p) ==  \* the first entry is marked, whatever it describes
  /\ update[p] # NONE
  /\ indicator' = [update[p].table EXCEPT ![BootName] = "upanix"]
  /\ formatted' = formatted \cup {update[p].drive}
  /\ update' = [update EXCEPT ![p] = NONE]
  /\ UNCHANGED <<list, Volume, Written, Homes, Roots, overlapped, Ending, errors, moves>>
UpdateSystemIndicator(p) ==
  /\ update[p] # NONE
  /\ indicator' = [update[p].table EXCEPT ![update[p].drive] = "upanix"]
  /\ formatted' = formatted \cup {update[p].drive}
  /\ update' = [update EXCEPT ![p] = NONE]
  /\ UNCHANGED <<list, Volume, Written, Homes, Roots, overlapped, Ending, errors, moves>>

-------------------------------------------------------------------------------
(* The drive of a process. What a drive that was never mounted gives is blank. *)
FSpwd(n) == IF n \in rootRead THEN n ELSE BLANK
FaultyWorksOn(p, n) ==  \* the directory is taken over from a mounted drive only
  /\ driveID' = [driveID EXCEPT ![p] = GetByDriveName(n)]
  /\ pwd' = [pwd EXCEPT ![p] = IF n \in mounted THEN FSpwd(n) ELSE @]
WorksOn(p, n) ==
  /\ driveID' = [driveID EXCEPT ![p] = GetByDriveName(n)] /\ pwd' = [pwd EXCEPT ![p] = FSpwd(n)]

(* Change (system call) and chd: the drive need not be mounted. *)
Change(p, n) ==
  /\ Can(p) /\ Move /\ n \in Created /\ p # Service
  /\ WorksOn(p, n)
  /\ UNCHANGED <<list, Volume, Written, saved, Roots, Table, Ending, errors>>

(* GetRootDriveID: the cached id, else that of the drive with the root's name, which is then
   cached, else the drive of the caller. *)
RootID(p) == IF root.id # CURRENT THEN root.id
             ELSE IF root.name \in Created THEN GetByDriveName(root.name) ELSE driveID[p]
RootCached == IF root.id = CURRENT /\ root.name \in Created
              THEN [root EXCEPT !.id = GetByDriveName(root.name)] ELSE root

(* A file operation on the drive of the process or on ROOT@: GetByID wants it mounted. *)
Resolve(p, id) == IF id \in 1 .. Len(list) THEN list[id] ELSE NONE
FileOperation(p, useRoot) ==
  LET n == Resolve(p, IF useRoot THEN RootID(p) ELSE driveID[p]) IN
  /\ Can(p) /\ Move
  /\ root' = IF useRoot THEN RootCached ELSE root
  /\ IF n \in mounted
     THEN /\ dirty' = [dirty EXCEPT ![n] = @ \cup {"file"}] /\ unsaved' = unsaved \cup {n}
          /\ settled' = settled \ {n}
     ELSE UNCHANGED <<dirty, unsaved, settled>>
  /\ UNCHANGED <<list, Volume, tasks, Homes, stale, Table, phase, errors>>

(* A process created for another one: Execute of the kernel service works on the drive of
   the process that asks, and the new process takes it over from that process. *)
CopyDiskDrive(p) ==
  /\ saved = NONE /\ p \in Process /\ Can(p) /\ Move
  /\ saved' = [for |-> p, driveID |-> driveID[Service], pwd |-> pwd[Service]]
  /\ driveID' = [driveID EXCEPT ![Service] = driveID[p]] /\ pwd' = [pwd EXCEPT ![Service] = pwd[p]]
  /\ UNCHANGED <<list, Volume, Written, Roots, Table, Ending, errors>>
FaultyExecute ==  \* only the id is restored
  /\ saved # NONE /\ saved' = NONE
  /\ driveID' = [driveID EXCEPT ![Service] = saved.driveID] /\ UNCHANGED pwd
  /\ UNCHANGED <<list, Volume, Written, Roots, Table, Ending, errors, moves>>
Execute ==
  /\ saved # NONE /\ saved' = NONE
  /\ \E new \in SUBSET {c \in Process : driveID[c] = NONE} :
       /\ Cardinality(new) <= 1
       /\ driveID' = [p \in Actor |-> CASE p = Service -> saved.driveID [] p \in new -> driveID[saved.for]
                                        [] OTHER -> driveID[p]]
       /\ pwd' = [p \in Actor |-> CASE p = Service -> saved.pwd [] p \in new -> pwd[saved.for] [] OTHER -> pwd[p]]
  /\ UNCHANGED <<list, Volume, Written, Roots, Table, Ending, errors, moves>>

(* crd: SetRootDrive. *)
FaultySetRootDrive(n) ==  \* the id that was cached stays
  /\ Move /\ n \in Created /\ root' = [root EXCEPT !.name = n] /\ stale' = FALSE
  /\ UNCHANGED <<list, Volume, Written, Homes, Table, Ending, errors>>
SetRootDrive(n) ==
  /\ Move /\ n \in Created /\ root' = [name |-> n, id |-> GetByDriveName(n)] /\ stale' = FALSE
  /\ UNCHANGED <<list, Volume, Written, Homes, Table, Ending, errors>>

(* initmntmgr: the root gets the name of the boot device's drive; the id is forgotten only
   when there is no such drive. *)
GetBootMountDrive == BootName
MountManager_Initialize ==
  /\ Move
  /\ root' = [name |-> GetBootMountDrive, id |-> IF GetBootMountDrive \in Created THEN root.id ELSE CURRENT]
  /\ stale' = (root'.id # CURRENT /\ (stale \/ root.name # GetBootMountDrive))
  /\ UNCHANGED <<list, Volume, Written, Homes, Table, Ending, errors>>

-------------------------------------------------------------------------------
(* The flush task writes some sectors of any drive, mounted or not, until it is stopped. *)
FlushCache(n) ==
  /\ n \in tasks /\ phase # Off /\ \E s \in dirty[n] : dirty' = [dirty EXCEPT ![n] = @ \ {s}]
  /\ UNCHANGED <<list, Volume, unsaved, tasks, Homes, Roots, Table, Ending, errors, moves>>

(* Reboot goes through the list: unmount, stop the tasks, flush once more. Another process
   may run between two drives and in the sleep that follows. settled is what Reboot
   unmounted without an error. *)
Reboot(p) ==
  /\ Can(p) /\ Move /\ phase = 0 /\ phase' = 1
  /\ UNCHANGED <<list, Volume, Written, Homes, Roots, Table, settled, errors>>
FaultyRebootDrive ==  \* the tables are not written back
  /\ phase > 0 /\ phase <= Len(list)
  /\ LET n == list[phase] IN
     IF n \in mounted
     THEN /\ pool' = pool \ {n} /\ mounted' = mounted \ {n} /\ tasks' = tasks \ {n}
          /\ dirty' = Saved(n) /\ settled' = settled \cup {n}
     ELSE UNCHANGED <<pool, mounted, tasks, dirty, settled>>
  /\ phase' = phase + 1
  /\ UNCHANGED <<list, lostPools, valid, rootRead, unsaved, errors, Homes, Roots, Table, moves>>
RebootDrive ==
  /\ phase > 0 /\ phase <= Len(list)
  /\ LET n == list[phase] IN
     IF n \in mounted
     THEN /\ tasks' = tasks \ {n}
          /\ \/ /\ unsaved' = unsaved \ {n} /\ pool' = pool \ {n} /\ mounted' = mounted \ {n}
                /\ dirty' = Saved(n) /\ settled' = settled \cup {n} /\ UNCHANGED errors
             \/ /\ Fails /\ UNCHANGED settled
                /\ dirty' \in {Saved(n), [dirty EXCEPT ![n] = @ \cup {"meta"}]}
                /\ \/ unsaved' = unsaved \ {n} /\ pool' = pool \ {n} /\ mounted' = mounted \ {n}
                   \/ UNCHANGED <<unsaved, pool, mounted>>
     ELSE UNCHANGED <<unsaved, dirty, pool, mounted, errors, tasks, settled>>
  /\ phase' = phase + 1
  /\ UNCHANGED <<list, lostPools, valid, rootRead, Homes, Roots, Table, moves>>
PowerOff ==
  /\ phase > 0 /\ phase > Len(list) /\ phase' = Off
  /\ UNCHANGED <<list, Volume, Written, Homes, Roots, Table, settled, errors, moves>>

Next ==
  \/ \E n \in Name : Create(n) \/ SetRootDrive(n) \/ FlushCache(n)
  \/ \E p \in Process, n \in Name : Mount(p, n) \/ UnMount(p, n) \/ FormatDrive(p, n) \/ Change(p, n)
  \/ \E p \in Process, useRoot \in BOOLEAN : FileOperation(p, useRoot)
  \/ \E p \in Process : UpdateSystemIndicator(p) \/ CopyDiskDrive(p) \/ Reboot(p)
  \/ Execute \/ MountManager_Initialize \/ RebootDrive \/ PowerOff
Spec == Init /\ [][Next]_vars

-------------------------------------------------------------------------------
(* Types of the drive list and of what processes keep of it. *)
TypeOK ==
  /\ Created \subseteq Name /\ mounted \cup pool \cup rootRead \cup tasks \subseteq Created
  /\ valid \cup unsaved \cup formatted \cup settled \subseteq Name /\ lostPools \in 0 .. MaxMoves
  /\ \A n \in Name : dirty[n] \subseteq {"meta", "file"} /\ indicator[n] \in {"old", "upanix"}
  /\ \A p \in Actor : driveID[p] \in 1 .. Len(list) \cup {NONE, CURRENT} /\ pwd[p] \in Name \cup {BLANK}
  /\ errors \in 0 .. MaxErrors /\ moves \in 0 .. MaxMoves

(* The working directory of a process is never one of another drive than its own, in the
   kernel service that works for another process too; it may be blank, of a drive that was
   chosen before it was mounted. *)
PwdOfItsDrive ==
  \A p \in Actor : pwd[p] # BLANK => driveID[p] \in 1 .. Len(list) /\ pwd[p] = list[driveID[p]]

(* The cached id of the root drive is that of the drive with the root's name, unless the
   mount manager was initialised again with an id cached. *)
RootAgrees == root.id # CURRENT /\ ~stale => root.name = list[root.id]

(* A mounted drive has its pool; what a reboot unmounted without an error has nothing left
   that only memory holds, whatever ran during the reboot, until it is written again. *)
NothingLost ==
  /\ mounted \subseteq pool
  /\ phase # 0 => \A n \in settled \ mounted : dirty[n] = {} /\ n \notin unsaved

(* The partition table marks the drives that were formatted and no other, unless two
   commands changed the table of the disk at once. *)
IndicatorsOwn == overlapped \/ \A n \in Name : indicator[n] = (IF n \in formatted THEN "upanix" ELSE "old")
================================================================================
