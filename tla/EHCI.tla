--------------------------------- MODULE EHCI ---------------------------------
(***************************************************************************)
(* The EHCI host controller (drivers/usb/ehci): the asynchronous list of   *)
(* queue heads that the controller walks while the driver adds to it, the  *)
(* transactions a device makes of transfer descriptors, and their release. *)
(* The descriptors and buffers of a control transfer are taken from the    *)
(* kernel heap and freed as soon as PollWait returns, those of a bulk      *)
(* transfer are made once and cleared.  Devices are found one after        *)
(* another (Probe), then used side by side.                                *)
(*                                                                         *)
(* A definition named Faulty... is the one after it with a single fault.   *)
(***************************************************************************)
EXTENDS Integers, FiniteSets, SequencesExt

CONSTANTS
  Device,               \* attached devices
  Reclaim,              \* the queue head that SetupAsyncList makes
  PageSize,             \* also EHCI_MAX_BYTES_PER_TD
  MaxPacket, MaxTD,     \* usInMaxPacketSize, MAX_EHCI_TD_PER_BULK_RW
  Length,               \* lengths of bulk transfers
  MaxOps                \* bound: transfers after Probe

VARIABLES
  toProbe, script,      \* devices not found yet, transfers the first one still makes
  at, op,               \* what each device's driver does
  driven, ops,          \* devices with a driver, transfers made after Probe
  td,                   \* the descriptors of its transaction, as the controller left them
  storage,              \* _dStorageList: what Clear will free
  heap,                 \* blocks of the kernel heap in use
  next,                 \* queue head -> descriptor to do next, 0 is none
  link,                 \* queue head -> horizontal link
  walk, busy,           \* the queue head the controller is at, and whether a descriptor is under way
  late,                 \* devices with a transaction given up while it was under way
  toggle                \* per device and direction: host, device, failed
vars == <<toProbe, script, at, op, driven, ops, td, storage, heap, next, link, walk, busy, late, toggle>>

Head0 == <<Reclaim, "head">>
QH == {Head0} \cup (Device \X {"control", "in", "out"})
EHCIAssumption == Reclaim \notin Device /\ MaxPacket > 0 /\ MaxTD > 0 /\ PageSize > 0

-----------------------------------------------------------------------------
(* Transfers: three descriptors when data is read, two otherwise; each but *)
(* the last of a control transfer has a buffer of its own.                 *)

Control(name, data) ==
  [name |-> name, ep |-> "control", size |-> 0, n |-> IF data THEN 3 ELSE 2, skip |-> 0]
SetConfiguration  == Control("SetConfiguration", FALSE)
GetMaxLun         == Control("GetMaxLun", TRUE)
CommandReset      == Control("CommandReset", FALSE)
ClearHaltEndPoint(e) == [Control("ClearHalt", FALSE) EXCEPT !.name = IF e = "in" THEN "ClearHaltIn" ELSE "ClearHaltOut"]
SetAddress        == Control("SetAddress", FALSE)
GetDescriptor     == Control("GetDescriptor", TRUE)
GetConfigValue    == Control("GetConfigValue", TRUE)
TDs(n) == n \div PageSize + (IF n % PageSize = 0 THEN 0 ELSE 1)
BulkRead(n)  == [name |-> "BulkRead", ep |-> "in", size |-> n, n |-> TDs(n), skip |-> 0]
BulkWrite(n) == [name |-> "BulkWrite", ep |-> "out", size |-> n, n |-> TDs(n), skip |-> 0]
IsBulk(o) == o.ep # "control"
\* Both sizes are checked; a transfer of nothing succeeds at once.
Refused(n) == n > MaxPacket * MaxTD \/ TDs(n) > MaxTD

\* The constructor of EHCIDevice.
GetDeviceDescriptor == <<GetDescriptor, GetDescriptor>>
CheckConfiguration(ok) == IF ok THEN <<>> ELSE <<SetConfiguration>>
GetConfigDescriptor == <<GetDescriptor, GetDescriptor>>
\* A string may fail: the rest of the request is left out then, and without
\* the first one all the others.
Skip(o, n) == [o EXCEPT !.skip = n]
AllStrings == 9
GetStringDescriptorZero == <<Skip(GetDescriptor, AllStrings), Skip(GetDescriptor, AllStrings)>>
GetDeviceStringDesc(ok) == IF ok THEN <<Skip(GetDescriptor, 2), Skip(GetDescriptor, 1)>> ELSE <<>>
\* The driver of the disk, once found, resets it, writes a first command and
\* reads the answer: so the queue heads for bulk transfers are made during
\* Probe as well, never by two drivers at a time.
AddDevice == <<CommandReset, ClearHaltEndPoint("in"), ClearHaltEndPoint("out"), BulkWrite(1), BulkRead(PageSize)>>
Enumeration(ok) ==
  <<SetAddress>> \o GetDeviceDescriptor \o <<GetConfigValue>> \o CheckConfiguration(ok)
  \o GetConfigDescriptor \o GetStringDescriptorZero \o GetDeviceStringDesc(ok) \o AddDevice

\* SetupBuffer: the pages a descriptor points to for size bytes at address,
\* five at most, or <<>> when they do not fit.
BufferPages(address, size) ==
  LET first == PageSize - (address % PageSize)
      rest == size - first
      more == IF rest <= 0 THEN 0 ELSE TDs(rest) IN
  IF more > 4 THEN <<>>
  ELSE [i \in 1 .. more + 1 |-> IF i = 1 THEN address ELSE address + first + (i - 2) * PageSize]
\* SetupAllocBuffer refuses what may not fit.
SetupAllocBuffer(size) == size <= 4 * PageSize

-----------------------------------------------------------------------------
(* What a transaction is made of.  A block is <<device, name, number>>;    *)
(* the controller advances the buffer address in a descriptor as it goes.  *)

Buffers(o) == IF IsBulk(o) THEN {} ELSE 1 .. o.n - 1
Blocks(d, o) == {<<d, "td", i>> : i \in 1 .. o.n} \cup {<<d, "buffer", i>> : i \in Buffers(o)}
BulkBlocks(d, e) == {<<d, e, i>> : i \in 1 .. MaxTD}
Used(d, o) == IF IsBulk(o) THEN {<<d, o.ep, i>> : i \in 1 .. o.n} ELSE Blocks(d, o)
Queue(d) == <<d, op[d].ep>>

\* Constructor of EHCITransaction: the list of what to free is taken before
\* the controller sees the first descriptor.
StorageList(d, o) == Blocks(d, o)

Probing == toProbe # <<>>
Current(d) == Probing => Head(toProbe) = d
Packets(n) == n \div MaxPacket + (IF n % MaxPacket = 0 THEN 0 ELSE 1)
\* The toggle flips once for each descriptor with an odd number of packets.
Bytes(n, i) == IF i * PageSize <= n THEN PageSize ELSE n % PageSize
Flips(n) == Cardinality({i \in 1 .. TDs(n) : Packets(Bytes(n, i)) % 2 = 1})

-----------------------------------------------------------------------------
\* SetupAsyncList: one queue head, linked to itself.
SetupAsyncList == link = [q \in QH |-> IF q = Head0 THEN Head0 ELSE <<>>]
Init ==
  /\ toProbe = SetToSeq(Device)
  /\ \E ok \in BOOLEAN : script = Enumeration(ok)
  /\ at = [d \in Device |-> "idle"] /\ op = [d \in Device |-> SetAddress] /\ driven = {} /\ ops = 0
  /\ td = [d \in Device |-> <<>>] /\ storage = [d \in Device |-> {}] /\ heap = {}
  /\ next = [q \in QH |-> 0] /\ SetupAsyncList /\ walk = Head0 /\ busy = FALSE /\ late = {}
  /\ toggle = [x \in Device \X {"in", "out"} |-> [host |-> 0, device |-> 0, failed |-> FALSE]]

\* A transfer is asked for.  Its queue head is made when it is the first.
Call(d, o) ==
  /\ at[d] = "idle" /\ Current(d)
  /\ IF Probing THEN o = Head(script) /\ ops' = ops
     ELSE d \in driven /\ ops < MaxOps /\ ops' = ops + 1
  /\ op' = [op EXCEPT ![d] = o]
  /\ at' = [at EXCEPT ![d] = IF link[<<d, o.ep>>] = <<>> THEN "new" ELSE "build"]
  /\ UNCHANGED <<toProbe, script, driven, td, storage, heap, next, link, walk, busy, late, toggle>>
RefuseBulk(d, n) ==
  /\ at[d] = "idle" /\ ~Probing /\ d \in driven /\ ops < MaxOps /\ (n = 0 \/ Refused(n))
  /\ ops' = ops + 1
  /\ UNCHANGED <<toProbe, script, driven, at, op, td, storage, heap, next, link, walk, busy, late, toggle>>
\* GetDescriptor of a configuration that is too long: descriptor and
\* request are freed again, the buffer of the request is not.
RefuseDescriptor(d) ==
  /\ at[d] = "idle" /\ ~Probing /\ d \in driven /\ ops < MaxOps /\ ~SetupAllocBuffer(5 * PageSize)
  /\ ops' = ops + 1
  /\ heap' = heap \cup {<<d, "lost", 1>>}
  /\ UNCHANGED <<toProbe, script, driven, at, op, td, storage, next, link, walk, busy, late, toggle>>

\* CreateDeviceQueueHead and AddAsyncQueueHead: the new queue head gets its
\* link ...
FaultyLinkNew(d) ==      \* the two writes are swapped
  /\ at[d] = "new"
  /\ link' = [link EXCEPT ![Head0] = Queue(d)]
  /\ heap' = heap \cup IF IsBulk(op[d]) THEN BulkBlocks(d, op[d].ep) ELSE {}
  /\ at' = [at EXCEPT ![d] = "link"]
  /\ UNCHANGED <<toProbe, script, driven, op, ops, td, storage, next, walk, busy, late, toggle>>
LinkNew(d) ==
  /\ at[d] = "new"
  /\ link' = [link EXCEPT ![Queue(d)] = link[Head0]]
  /\ heap' = heap \cup IF IsBulk(op[d]) THEN BulkBlocks(d, op[d].ep) ELSE {}
  /\ at' = [at EXCEPT ![d] = "link"]
  /\ UNCHANGED <<toProbe, script, driven, op, ops, td, storage, next, walk, busy, late, toggle>>
\* ... and becomes the one after the head.
AddAsyncQueueHead(d) ==
  /\ at[d] = "link"
  /\ link' = [link EXCEPT ![Head0] = Queue(d)]
  /\ at' = [at EXCEPT ![d] = "build"]
  /\ UNCHANGED <<toProbe, script, driven, op, ops, td, storage, heap, next, walk, busy, late, toggle>>

\* Marks the directions whose toggles may differ from now on: that of a bulk
\* transfer that fails, and that of an endpoint that is cleared when the
\* toggle is set: ClearHaltEndPoint does not reset the one of the host.
Doubtful(d) ==
  CASE IsBulk(op[d]) -> [toggle EXCEPT ![Queue(d)].failed = TRUE]
    [] op[d].name = "ClearHaltIn" -> [toggle EXCEPT ![<<d, "in">>].failed = @ \/ toggle[<<d, "in">>].host # 0]
    [] op[d].name = "ClearHaltOut" -> [toggle EXCEPT ![<<d, "out">>].failed = @ \/ toggle[<<d, "out">>].host # 0]
    [] OTHER -> toggle

\* Descriptors are made (control) or cleared (bulk), linked, and given to
\* the controller.
FaultyBuild(d) ==      \* the toggle flips once for each descriptor
  /\ at[d] = "build"
  /\ td' = [td EXCEPT ![d] = [i \in 1 .. op[d].n |-> "active"]]
  /\ storage' = [storage EXCEPT ![d] = IF IsBulk(op[d]) THEN {} ELSE StorageList(d, op[d])]
  /\ heap' = heap \cup Used(d, op[d])
  /\ next' = [next EXCEPT ![Queue(d)] = 1]
  /\ late' = late \ {d}
  /\ toggle' = IF IsBulk(op[d]) THEN [toggle EXCEPT ![Queue(d)].host = (@ + TDs(op[d].size)) % 2] ELSE Doubtful(d)
  /\ at' = [at EXCEPT ![d] = "poll"]
  /\ UNCHANGED <<toProbe, script, driven, op, ops, link, walk, busy>>
Build(d) ==
  /\ at[d] = "build"
  /\ td' = [td EXCEPT ![d] = [i \in 1 .. op[d].n |-> "active"]]
  /\ storage' = [storage EXCEPT ![d] = IF IsBulk(op[d]) THEN {} ELSE StorageList(d, op[d])]
  /\ heap' = heap \cup Used(d, op[d])
  /\ next' = [next EXCEPT ![Queue(d)] = 1]
  /\ late' = late \ {d}
  /\ toggle' = IF IsBulk(op[d]) THEN [toggle EXCEPT ![Queue(d)].host = (@ + Flips(op[d].size)) % 2] ELSE Doubtful(d)
  /\ at' = [at EXCEPT ![d] = "poll"]
  /\ UNCHANGED <<toProbe, script, driven, op, ops, link, walk, busy>>

-----------------------------------------------------------------------------
(* The controller walks the list and does the descriptors of a queue head; *)
(* a transaction that fails halts the queue head.                          *)

Walk ==
  /\ ~busy /\ walk' = link[walk]
  /\ UNCHANGED <<toProbe, script, driven, at, op, ops, td, storage, heap, next, link, busy, late, toggle>>
Start ==
  /\ ~busy /\ next[walk] # 0
  /\ busy' = TRUE
  /\ UNCHANGED <<toProbe, script, driven, at, op, ops, td, storage, heap, next, link, walk, late, toggle>>
\* The descriptor is written back.  The transaction may have been given up.
Sent(d) ==
  IF IsBulk(op[d]) THEN [toggle EXCEPT ![Queue(d)].device = (@ + Packets(Bytes(op[d].size, next[walk]))) % 2]
  ELSE IF op[d].name \in {"ClearHaltIn", "ClearHaltOut"} /\ next[walk] = op[d].n
  THEN [toggle EXCEPT ![<<d, IF op[d].name = "ClearHaltIn" THEN "in" ELSE "out">>].device = 0]
  ELSE toggle
Complete(ok) ==
  /\ busy
  /\ busy' = FALSE
  /\ LET d == walk[1] IN
     IF next[walk] = 0 THEN UNCHANGED <<td, next, toggle>>
     ELSE /\ td' = [td EXCEPT ![d][next[walk]] = IF ok THEN "done" ELSE "error"]
          /\ next' = [next EXCEPT ![walk] = IF ok /\ @ < Len(td[d]) THEN @ + 1 ELSE 0]
          /\ toggle' = IF ok THEN Sent(d) ELSE toggle
  /\ UNCHANGED <<toProbe, script, driven, at, op, ops, storage, heap, link, walk, late>>

-----------------------------------------------------------------------------
\* PollWait: all descriptors done ...
FaultyPollDone(d) ==      \* looks only whether the queue head is through
  /\ at[d] = "poll" /\ next[Queue(d)] = 0
  /\ at' = [at EXCEPT ![d] = "result"]
  /\ UNCHANGED <<toProbe, script, driven, op, ops, td, storage, heap, next, link, walk, busy, late, toggle>>
PollDone(d) ==
  /\ at[d] = "poll" /\ next[Queue(d)] = 0 /\ \A i \in DOMAIN td[d] : td[d][i] = "done"
  /\ at' = [at EXCEPT ![d] = "result"]
  /\ UNCHANGED <<toProbe, script, driven, op, ops, td, storage, heap, next, link, walk, busy, late, toggle>>
\* ... or ten seconds are over.  The queue head of a bulk transfer is left
\* as it is, the one of a control transfer cleaned.
PollTimeout(d) ==
  /\ at[d] = "poll"
  /\ at' = [at EXCEPT ![d] = IF IsBulk(op[d]) THEN "done" ELSE "clear"]
  /\ late' = late \cup {d}
  /\ toggle' = Doubtful(d)
  /\ UNCHANGED <<toProbe, script, driven, op, ops, td, storage, heap, next, link, walk, busy>>
\* The result is copied out of the buffer.
ReadResult(d) ==
  /\ at[d] = "result"
  /\ at' = [at EXCEPT ![d] = "clear"]
  /\ UNCHANGED <<toProbe, script, driven, op, ops, td, storage, heap, next, link, walk, busy, late, toggle>>
\* EHCIDataHandler_CleanAysncQueueHead, then the storage list (Clear).
CleanQueueHead(d) ==
  /\ at[d] = "clear"
  /\ next' = [next EXCEPT ![Queue(d)] = 0]
  /\ at' = [at EXCEPT ![d] = IF IsBulk(op[d]) THEN "done" ELSE "free"]
  /\ UNCHANGED <<toProbe, script, driven, op, ops, td, storage, heap, link, walk, busy, late, toggle>>
FaultyClear(d) ==      \* the buffers stay
  /\ at[d] = "free"
  /\ heap' = heap \ {b \in storage[d] : b[2] = "td"} /\ storage' = [storage EXCEPT ![d] = {}]
  /\ td' = [td EXCEPT ![d] = <<>>]
  /\ at' = [at EXCEPT ![d] = "done"]
  /\ UNCHANGED <<toProbe, script, driven, op, ops, next, link, walk, busy, late, toggle>>
Clear(d) ==
  /\ at[d] = "free"
  /\ heap' = heap \ storage[d] /\ storage' = [storage EXCEPT ![d] = {}]
  /\ td' = [td EXCEPT ![d] = <<>>]
  /\ at' = [at EXCEPT ![d] = "done"]
  /\ UNCHANGED <<toProbe, script, driven, op, ops, next, link, walk, busy, late, toggle>>

\* Back in the caller.  A transfer of the constructor that failed ends it,
\* unless it is for a string: Probe goes on with the next port, the queue
\* head stays in the list, and no driver uses the device.
Rest(d) == IF d \notin late THEN Tail(script)
           ELSE IF op[d].skip = AllStrings THEN AddDevice
           ELSE SubSeq(script, op[d].skip + 1, Len(script))
Fatal(d) == d \in late /\ op[d].skip = 0
Return(d) ==
  /\ at[d] = "done"
  /\ at' = [at EXCEPT ![d] = "idle"]
  /\ IF ~Probing THEN UNCHANGED <<toProbe, script, driven>>
     ELSE IF Fatal(d) \/ Rest(d) = <<>>
     THEN /\ toProbe' = Tail(toProbe)
          /\ \E ok \in BOOLEAN : script' = Enumeration(ok)
          /\ driven' = IF Fatal(d) THEN driven ELSE driven \cup {d}
     ELSE script' = Rest(d) /\ UNCHANGED <<toProbe, driven>>
  /\ UNCHANGED <<op, ops, td, storage, heap, next, link, walk, busy, late, toggle>>

StorageTransfer ==
  {GetMaxLun, CommandReset, ClearHaltEndPoint("in"), ClearHaltEndPoint("out")}
  \cup {BulkRead(n) : n \in {m \in Length : m > 0 /\ ~Refused(m)}}
  \cup {BulkWrite(n) : n \in {m \in Length : m > 0 /\ ~Refused(m)}}
Next ==
  \/ \E d \in Device :
       \/ \E o \in IF Probing THEN {Head(script)} ELSE StorageTransfer : Call(d, o)
       \/ \E n \in Length : RefuseBulk(d, n)
       \/ RefuseDescriptor(d)
       \/ LinkNew(d) \/ AddAsyncQueueHead(d) \/ Build(d)
       \/ PollDone(d) \/ PollTimeout(d) \/ ReadResult(d) \/ CleanQueueHead(d) \/ Clear(d) \/ Return(d)
  \/ Walk \/ Start \/ \E ok \in BOOLEAN : Complete(ok)
Spec == Init /\ [][Next]_vars

-----------------------------------------------------------------------------
TypeOK ==
  /\ DOMAIN link = QH /\ next \in [QH -> 0 .. MaxTD] /\ late \subseteq Device
  /\ \A x \in DOMAIN toggle : toggle[x].host \in {0, 1} /\ toggle[x].device \in {0, 1}

\* The controller always finds its way back to the head, while queue heads
\* are added: the list is a ring at every step.
ListIsRing ==
  LET ring == {q \in QH : link[q] # <<>>} IN
  /\ walk \in ring
  /\ \A q \in ring : link[q] \in ring
  /\ \A q \in ring : Cardinality({r \in ring : link[r] = q /\ \A d \in Device : at[d] = "link" => r # Queue(d)}) <= 1

\* The controller works only on descriptors that are in use, and a result is
\* read from a buffer that is in use and was filled; a transaction that was
\* given up while a descriptor was under way is the exception.
ResultThere ==
  /\ \A d \in Device : \A e \in {"control", "in", "out"} :
       next[<<d, e>>] # 0 /\ d \notin late => Used(d, op[d]) \subseteq heap
  /\ \A d \in Device : at[d] = "result" =>
       Used(d, op[d]) \subseteq heap /\ \A i \in DOMAIN td[d] : td[d][i] = "done"

\* Between transfers only the descriptors of bulk transfers are left, and
\* the buffers of requests that were refused.
NothingLeft ==
  \A d \in Device : at[d] = "idle" =>
    \A b \in heap : b[1] = d => b[2] \in {"in", "out", "lost"}

\* The toggles of host and device agree until a bulk transfer fails or an
\* endpoint is cleared whose toggle is set.
TogglesAgree ==
  \A d \in Device, e \in {"in", "out"} :
    (at[d] \notin {"poll", "build"} \/ op[d].ep # e) /\ ~toggle[<<d, e>>].failed /\ d \notin late
      => toggle[<<d, e>>].host = toggle[<<d, e>>].device

\* The pages of a buffer hold every byte of it, once (checked for all small
\* buffers); SetupAllocBuffer lets nothing through that does not fit.
PagesCover ==
  \A address \in 0 .. 2 * PageSize, size \in 1 .. 5 * PageSize :
    LET p == BufferPages(address, size)
        bytes(i) == IF i = 1 THEN PageSize - (address % PageSize) ELSE PageSize IN
    /\ SetupAllocBuffer(size) => p # <<>>
    /\ p # <<>> => \A b \in 0 .. size - 1 :
         Cardinality({i \in DOMAIN p : address + b \in p[i] .. p[i] + bytes(i) - 1}) = 1
=============================================================================
