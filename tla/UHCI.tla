--------------------------------- MODULE UHCI ---------------------------------
(***************************************************************************)
(* The UHCI host controller (drivers/usb/uhci): the frame list that its    *)
(* drivers share, the descriptors and buffers that hang on a frame until   *)
(* the timed task UHCIFrmCleaner frees them, and the transfers a device    *)
(* makes of them.  The frame list is taken under the resource lock         *)
(* RESOURCE_UHCI_FRM_BUF (kernel/ResourceMutex.cpp), whose waiters return  *)
(* without taking it again.                                                *)
(*                                                                         *)
(* A definition named Faulty... is the one after it with a single fault;   *)
(* no specification uses it, it shows what the properties would catch.     *)
(***************************************************************************)
EXTENDS Integers, FiniteSets, SequencesExt

CONSTANTS
  Driver,      \* processes that use USB devices
  Prober,      \* the one of them that runs Probe first
  Cleaner,     \* the process of the timed task
  NFrames,     \* 1024, also the capacity of the frame queue
  MaxPacket, MaxTD,   \* usInMaxPacketSize, MAX_UHCI_TD_PER_BULK_RW
  Length,      \* lengths of bulk transfers
  MaxOps       \* bound: transfers of each driver after Probe

VARIABLES
  busy, woken,    \* the resource lock, and whether a waiter ever came in
  at,             \* where each process is
  frame,          \* the frame each process has, 0 is none
  op,             \* its transfer
  ops,            \* how many it has made
  entry,          \* _pFrameList: "free" (1), "taken" (0), "set"
  live, local,    \* what hangs on a frame, and what of it the cleaner will free
  queue, dropped, \* _frameQueue, and the frames no queue will name again
  script,         \* transfers that the enumeration of the device still makes
  toggle          \* the data toggles of host and device, and whether a transfer
                  \* failed since they were last reset, or was overtaken by that
vars == <<busy, woken, at, frame, op, ops, entry, live, local, queue, dropped, script, toggle>>

Process == Driver \cup {Cleaner}
Frame == 1 .. NFrames
UHCIAssumption ==
  /\ Prober \in Driver /\ Cleaner \notin Driver /\ IsFiniteSet(Driver)
  /\ NFrames \in Nat \ {0} /\ MaxPacket \in Nat \ {0} /\ MaxTD \in Nat \ {0} /\ Length \subseteq Nat

-----------------------------------------------------------------------------
(* Transfers.  A control transfer has its own queue head, transfer         *)
(* descriptors, request and data buffer, all freed by the cleaner; a bulk  *)
(* transfer only its queue head, the rest belongs to the device.           *)

Control(name, data) ==
  [name |-> name, data |-> data, size |-> 0,
   made |-> {"qh", "td1", "td2", "request"} \cup (IF data THEN {"td3", "buffer"} ELSE {})]
GetMaxLun         == Control("GetMaxLun", TRUE)
CommandReset      == Control("CommandReset", FALSE)
ClearHaltEndPoint == Control("ClearHalt", FALSE)
GetDescriptor     == Control("GetDescriptor", TRUE)
SetAddress        == Control("SetAddress", FALSE)
GetConfiguration  == Control("GetConfiguration", TRUE)
SetConfiguration  == Control("SetConfiguration", FALSE)
BulkRead(n)  == [name |-> "BulkRead", data |-> TRUE, size |-> n, made |-> {"qh"}]
BulkWrite(n) == [name |-> "BulkWrite", data |-> FALSE, size |-> n, made |-> {"qh"}]

IsBulk(o) == o.name \in {"BulkRead", "BulkWrite"}
\* The packets of a bulk transfer; a call that is too long makes none.
Packets(n) == n \div MaxPacket + (IF n % MaxPacket = 0 THEN 0 ELSE 1)
TooLong(n) == n > MaxPacket * MaxTD

\* What a new device is asked (the constructor of UHCIDevice).
GetDeviceDescriptor == <<GetDescriptor, GetDescriptor>>
CheckConfiguration(configured) == IF configured THEN <<>> ELSE <<SetConfiguration>>
GetConfigDescriptor == <<GetDescriptor, GetDescriptor>>
GetStringDescriptorZero == <<GetDescriptor, GetDescriptor>>
GetDeviceStringDesc(supported) == IF supported THEN <<GetDescriptor, GetDescriptor>> ELSE <<>>
Enumeration(configured, supported) ==
  <<SetAddress>> \o GetDeviceDescriptor \o <<GetConfiguration>> \o CheckConfiguration(configured)
  \o GetConfigDescriptor \o GetStringDescriptorZero
  \o GetDeviceStringDesc(supported) \o GetDeviceStringDesc(supported) \o GetDeviceStringDesc(supported)

-----------------------------------------------------------------------------
Init ==
  /\ busy = FALSE /\ woken = FALSE
  /\ at = [p \in Process |-> "idle"]
  /\ frame = [p \in Process |-> 0]
  /\ op = [p \in Process |-> GetMaxLun] /\ ops = [p \in Process |-> 0]
  /\ entry = [f \in Frame |-> "free"]
  /\ live = [f \in Frame |-> {}] /\ local = [f \in Frame |-> {}]
  /\ queue = <<>> /\ dropped = {}
  /\ \E configured, supported \in BOOLEAN : script = Enumeration(configured, supported)
  /\ toggle = [host |-> 0, device |-> 0, failed |-> FALSE]

Probing == script # <<>>
listVars == <<entry, live, local, queue, dropped>>

\* ResourceMutex::Lock.
Lock(p) ==
  IF busy THEN at' = [at EXCEPT ![p] = "wait"] /\ busy' = busy
  ELSE at' = [at EXCEPT ![p] = "inside"] /\ busy' = TRUE
\* The scheduler resumes a waiter when it finds the resource free; it does
\* not take it for the waiter.
Wake(p) ==
  /\ at[p] = "wait" /\ ~busy
  /\ at' = [at EXCEPT ![p] = "inside"]
  /\ woken' = TRUE
  /\ UNCHANGED <<busy, frame, op, ops, listVars, script, toggle>>

\* A driver starts a transfer: GetNextFreeFrame, at its lock.
Call(p, o) ==
  /\ at[p] = "idle" /\ p \in Driver
  /\ IF Probing THEN p = Prober /\ o = Head(script) /\ ops' = ops
     ELSE ops[p] < MaxOps /\ ops' = [ops EXCEPT ![p] = @ + 1]
  /\ Lock(p)
  /\ op' = [op EXCEPT ![p] = o]
  /\ UNCHANGED <<woken, frame, listVars, script, toggle>>
\* BulkRead and BulkWrite refuse a transfer of too many packets.
RefuseBulk(p, n) ==
  /\ at[p] = "idle" /\ ~Probing /\ ops[p] < MaxOps /\ TooLong(n)
  /\ ops' = [ops EXCEPT ![p] = @ + 1]
  /\ UNCHANGED <<busy, woken, at, frame, op, listVars, script, toggle>>

FaultyScanFrame(p) ==      \* the lock is kept when there is no frame
  /\ at[p] = "inside" /\ p \in Driver
  /\ LET free == {f \in Frame : entry[f] = "free"} IN
     IF free = {}
     THEN at' = [at EXCEPT ![p] = "idle"] /\ UNCHANGED <<busy, frame>>
     ELSE /\ frame' = [frame EXCEPT ![p] = CHOOSE f \in free : \A g \in free : f <= g]
          /\ at' = [at EXCEPT ![p] = "found"] /\ busy' = busy
  /\ UNCHANGED <<woken, op, ops, listVars, script, toggle>>
\* The first frame whose entry is 1 ...
ScanFrame(p) ==
  /\ at[p] = "inside" /\ p \in Driver
  /\ LET free == {f \in Frame : entry[f] = "free"} IN
     IF free = {}
     THEN at' = [at EXCEPT ![p] = "idle"] /\ busy' = FALSE /\ frame' = frame
     ELSE /\ frame' = [frame EXCEPT ![p] = CHOOSE f \in free : \A g \in free : f <= g]
          /\ at' = [at EXCEPT ![p] = "found"] /\ busy' = busy
  /\ UNCHANGED <<woken, op, ops, listVars, script, toggle>>
\* ... becomes 0, before the lock is given up.
FaultyTakeFrame(p) ==      \* the entry keeps saying that the frame is free
  /\ at[p] = "found"
  /\ busy' = FALSE
  /\ at' = [at EXCEPT ![p] = "build"]
  /\ UNCHANGED <<woken, frame, op, ops, entry, live, local, queue, dropped, script, toggle>>
TakeFrame(p) ==
  /\ at[p] = "found"
  /\ entry' = [entry EXCEPT ![frame[p]] = "taken"]
  /\ busy' = FALSE
  /\ at' = [at EXCEPT ![p] = "build"]
  /\ UNCHANGED <<woken, frame, op, ops, live, local, queue, dropped, script, toggle>>

\* BuildFrameEntryForDeAlloc walks the queue head and its descriptors; the
\* queue head is always listed, descriptors and buffers when asked for.
Listed(o) == IF IsBulk(o) THEN {"qh"} ELSE o.made

\* Queue head and descriptors are made and linked to the frame; each packet
\* of a bulk transfer takes the next toggle.
SetFrameListEntry(p) ==
  /\ at[p] = "build"
  /\ live' = [live EXCEPT ![frame[p]] = @ \cup op[p].made]
  /\ local' = [local EXCEPT ![frame[p]] = @ \cup Listed(op[p])]
  /\ entry' = [entry EXCEPT ![frame[p]] = "set"]
  /\ toggle' = IF IsBulk(op[p]) THEN [toggle EXCEPT !.host = (@ + Packets(op[p].size)) % 2] ELSE toggle
  /\ at' = [at EXCEPT ![p] = "poll"]
  /\ UNCHANGED <<busy, woken, frame, op, ops, queue, dropped, script>>

\* A transfer made before its endpoint was cleared keeps its toggles.
Overtaken(p) == \E q \in Driver \ {p} : at[q] = "poll" /\ IsBulk(op[q])
\* UHCIManager::PollWait: the controller did all of the transfer, or not
\* within ten seconds.  ClearHaltEndPoint resets the toggle in either case.
FaultyPollWait(p) ==      \* the toggle of the driver is not reset
  /\ at[p] = "poll"
  /\ \E ok \in BOOLEAN, sent \in 0 .. Packets(op[p].size) :
       /\ ok => sent = Packets(op[p].size)
       /\ toggle' = CASE IsBulk(op[p]) -> [toggle EXCEPT !.device = (@ + sent) % 2, !.failed = @ \/ ~ok]
                      [] op[p].name = "ClearHalt" ->
                           [toggle EXCEPT !.device = IF ok THEN 0 ELSE @, !.failed = ~ok \/ Overtaken(p)]
                      [] OTHER -> toggle
  /\ at' = [at EXCEPT ![p] = "read"]
  /\ UNCHANGED <<busy, woken, frame, op, ops, listVars, script>>
PollWait(p) ==
  /\ at[p] = "poll"
  /\ \E ok \in BOOLEAN, sent \in 0 .. Packets(op[p].size) :
       /\ ok => sent = Packets(op[p].size)
       /\ toggle' = CASE IsBulk(op[p]) -> [toggle EXCEPT !.device = (@ + sent) % 2, !.failed = @ \/ ~ok]
                      [] op[p].name = "ClearHalt" ->
                           [host |-> 0, device |-> IF ok THEN 0 ELSE toggle.device,
                            failed |-> ~ok \/ Overtaken(p)]
                      [] OTHER -> toggle
  /\ at' = [at EXCEPT ![p] = "read"]
  /\ UNCHANGED <<busy, woken, frame, op, ops, listVars, script>>

\* The result is copied from the buffer.
ReadResult(p) ==
  /\ at[p] = "read"
  /\ at' = [at EXCEPT ![p] = "clean"]
  /\ UNCHANGED <<busy, woken, frame, op, ops, listVars, script, toggle>>

\* The frame is named to the cleaner, unless the queue is full.  After the
\* last transfer of the enumeration Probe empties the queue.
LastOfProbe(p) == Probing /\ Len(script) = 1
Push(p) ==
  IF Len(queue) = NFrames THEN queue' = queue /\ dropped' = dropped \cup {frame[p]}
  ELSE queue' = Append(queue, frame[p]) /\ dropped' = dropped
CleanFrame(p) ==
  /\ at[p] = "clean"
  /\ IF LastOfProbe(p) THEN queue' = <<>> /\ dropped' = dropped \cup ToSet(queue) \cup {frame[p]}
     ELSE Push(p)
  /\ at' = [at EXCEPT ![p] = "idle"] /\ frame' = [frame EXCEPT ![p] = 0]
  /\ script' = IF Probing THEN Tail(script) ELSE script
  /\ UNCHANGED <<busy, woken, op, ops, entry, live, local, toggle>>

-----------------------------------------------------------------------------
(* The cleaner.                                                            *)

\* It is started when Probe is through, and runs every 100 ms.
TimerTrigger ==
  /\ ~Probing /\ at[Cleaner] = "idle"
  /\ Lock(Cleaner)
  /\ UNCHANGED <<woken, frame, op, ops, listVars, script, toggle>>
GetNextFrameToClean ==
  /\ at[Cleaner] = "inside"
  /\ busy' = FALSE
  /\ IF queue = <<>> THEN at' = [at EXCEPT ![Cleaner] = "idle"] /\ UNCHANGED <<frame, queue>>
     ELSE /\ at' = [at EXCEPT ![Cleaner] = "free"]
          /\ frame' = [frame EXCEPT ![Cleaner] = Head(queue)]
          /\ queue' = Tail(queue)
  /\ UNCHANGED <<woken, op, ops, entry, live, local, dropped, script, toggle>>
FaultyReleaseFrameResource ==      \* the list of the frame is not cleared
  /\ at[Cleaner] = "free"
  /\ LET f == frame[Cleaner] IN
     /\ live' = [live EXCEPT ![f] = @ \ local[f]]
     /\ entry' = [entry EXCEPT ![f] = "free"]
  /\ frame' = [frame EXCEPT ![Cleaner] = 0]
  /\ Lock(Cleaner)
  /\ UNCHANGED <<woken, op, ops, local, queue, dropped, script, toggle>>
\* What is listed is freed, and the entry is 1 again; then the next frame.
ReleaseFrameResource ==
  /\ at[Cleaner] = "free"
  /\ LET f == frame[Cleaner] IN
     /\ live' = [live EXCEPT ![f] = @ \ local[f]]
     /\ local' = [local EXCEPT ![f] = {}]
     /\ entry' = [entry EXCEPT ![f] = "free"]
  /\ frame' = [frame EXCEPT ![Cleaner] = 0]
  /\ Lock(Cleaner)
  /\ UNCHANGED <<woken, op, ops, queue, dropped, script, toggle>>

Transfer ==
  {GetMaxLun, CommandReset, ClearHaltEndPoint, GetDescriptor, SetAddress, GetConfiguration, SetConfiguration}
  \cup {BulkRead(n) : n \in {m \in Length : ~TooLong(m)}} \cup {BulkWrite(n) : n \in {m \in Length : ~TooLong(m)}}
\* What the drivers of mass storage ask of a device that is known.
StorageTransfer == {o \in Transfer : o.name \in {"GetMaxLun", "CommandReset", "ClearHalt", "BulkRead", "BulkWrite"}}

Step(p) ==
  \/ Wake(p) \/ ScanFrame(p) \/ TakeFrame(p) \/ SetFrameListEntry(p) \/ PollWait(p) \/ ReadResult(p) \/ CleanFrame(p)
Next ==
  \/ \E p \in Process : Step(p)
  \/ \E p \in Driver : \/ \E o \in IF Probing THEN {Head(script)} ELSE StorageTransfer : Call(p, o)
                       \/ \E n \in Length : RefuseBulk(p, n)
  \/ TimerTrigger \/ GetNextFrameToClean \/ ReleaseFrameResource
Spec == Init /\ [][Next]_vars

-----------------------------------------------------------------------------
Inside == {p \in Process : at[p] \in {"inside", "found"}}
Using(f) == {p \in Process : frame[p] = f /\ at[p] \notin {"inside", "found"}}

TypeOK ==
  /\ busy \in BOOLEAN /\ frame \in [Process -> 0 .. NFrames]
  /\ entry \in [Frame -> {"free", "taken", "set"}] /\ Range(queue) \subseteq Frame

\* The lock: it is never left busy with nobody inside, and two are inside
\* only after a waiter came in.
LockHeld == /\ busy => Inside # {}
            /\ Cardinality(Inside) > 1 => woken

\* A frame is used by one process, or queued once, or dropped, or free: so
\* its descriptors are not freed while the controller works on them, and
\* the queue, as long as the list, is never full.
FrameOwnedOnce ==
  ~woken => \A f \in Frame :
    LET queued == Cardinality({i \in DOMAIN queue : queue[i] = f}) IN
    Cardinality(Using(f)) + queued + (IF f \in dropped THEN 1 ELSE 0) + (IF entry[f] = "free" THEN 1 ELSE 0) = 1

\* What a transfer made is there until its result was read, and a frame
\* that is free has nothing left of an earlier transfer, listed or not.
ResultThere ==
  ~woken => \A p \in Driver : at[p] \in {"poll", "read"} => op[p].made \subseteq live[frame[p]]
NothingLeft ==
  ~woken => \A f \in Frame : entry[f] # "set" => live[f] = {} /\ local[f] = {}

\* The toggles of the two sides agree unless a transfer failed and the
\* endpoint was not cleared since, or it was cleared under a transfer.
Polling == {p \in Driver : at[p] = "poll" /\ (IsBulk(op[p]) \/ op[p].name = "ClearHalt")}
TogglesAgree == Polling = {} /\ ~toggle.failed => toggle.host = toggle.device
=============================================================================
