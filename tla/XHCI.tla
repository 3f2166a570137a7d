--------------------------------- MODULE XHCI ---------------------------------
(***************************************************************************)
(* The xHCI host controller (drivers/usb/xhci) in interrupt mode: transfer *)
(* rings whose slots change hands by a cycle bit, the command ring, the    *)
(* event ring that the interrupt handler drains, and the processes that    *)
(* wait for the event of their own transfer.  One processor: a process     *)
(* makes no step while the handler runs, the controller does.              *)
(*                                                                         *)
(* A definition named Faulty... is the one after it with a single fault.   *)
(***************************************************************************)
EXTENDS Integers, FiniteSets, SequencesExt

CONSTANTS
  Disk, Keyboard,       \* attached devices
  Port,                 \* the devices in the order of their ports
  Configured,           \* devices that have their configuration already
  RingSize,             \* TRANSFER_RING_SIZE, the last slot is a link
  EventSize,            \* ERST_SIZE
  PageSize,
  Length,               \* lengths of bulk transfers, in bytes
  MaxOps, MaxKeys,      \* bounds: bulk transfers, reports asked for
  MaxErrors             \* bound: transfers that fail

VARIABLES
  boot,                 \* bringing up: stage, controller runs, firmware owns it
  toProbe, script,      \* devices not found yet, requests the first one still makes
  driven,               \* devices with a driver
  at, op, ops, keys,    \* what each device's driver does
  ring, cmd,            \* transfer rings, command ring
  hc, halted, errors,   \* the controller's place in each of them
  pending,              \* slots given to the controller and not done yet
  event, produced,      \* event ring as the controller fills it, its place there
  eventDQ, eventCycle,  \* the handler's place
  unread,               \* events written and not read yet
  busyBit, status, msi, \* event handler busy, event interrupt, message sent
  irq, lost,            \* where the handler is; an interrupt was cleared unseen
  results               \* _eventResults: slot -> who waits, and what arrived
ctl == <<boot, toProbe, script, driven, at, op, ops, keys>>
hcv == <<hc, halted, errors, pending>>
evv == <<event, produced, unread>>
irqv == <<eventDQ, eventCycle, busyBit, status, msi, irq, lost>>
vars == <<ctl, ring, cmd, hcv, evv, irqv, results>>

Device == Disk \cup Keyboard
Command == <<"command", "command">>
Rings == (Device \X {"control"}) \cup (Disk \X {"in", "out"}) \cup (Keyboard \X {"interrupt"})
Waits == Device      \* each device has one process that waits at a time
NoEvent == "none"
XHCIAssumption ==
  /\ Range(Port) = Device /\ RingSize \in Nat /\ RingSize > 3 /\ EventSize \in Nat /\ EventSize > 1 /\ PageSize > 0

-----------------------------------------------------------------------------
(* Requests.  A control transfer has a setup and a status slot, and one    *)
(* for each packet of data (one here).                                     *)

Cmd(name) == [name |-> name, ring |-> "command", n |-> 1]
EnableSlot        == Cmd("EnableSlot")
AddressDevice     == Cmd("AddressDevice")
EvaluateContext   == Cmd("EvaluateContext")
ConfigureEndPoint == Cmd("ConfigureEndPoint")
SetupTransfer(name, data) ==
  [name |-> name, ring |-> "control", n |-> IF data THEN 3 ELSE 2]
GetDeviceDescriptor == <<SetupTransfer("GetDescriptor", TRUE)>>
GetStringDescriptorZero == <<SetupTransfer("GetDescriptor", TRUE), SetupTransfer("GetDescriptor", TRUE)>>
GetDeviceStringDesc == <<SetupTransfer("GetDescriptor", TRUE)>>
GetConfigDescriptor == <<SetupTransfer("GetDescriptor", TRUE), SetupTransfer("GetDescriptor", TRUE)>>
GetConfigValue      == SetupTransfer("GetConfigValue", TRUE)
SetConfiguration(d) == <<GetConfigValue>> \o IF d \in Configured THEN <<>> ELSE <<SetupTransfer("SetConfiguration", FALSE)>>
GetMaxLun         == SetupTransfer("GetMaxLun", TRUE)
CommandReset      == SetupTransfer("CommandReset", FALSE)
ClearHaltEndPoint == SetupTransfer("ClearHaltEndPoint", FALSE)
SetIdle           == SetupTransfer("SetIdle", FALSE)

\* Constructor of XHCIDevice, and what the driver that is found asks for.
NewDevice(d) ==
  <<EnableSlot, AddressDevice>> \o GetDeviceDescriptor \o GetStringDescriptorZero \o GetDeviceStringDesc
  \o GetConfigDescriptor \o <<EvaluateContext, ConfigureEndPoint>> \o SetConfiguration(d)
AddDevice(d) == IF d \in Disk THEN <<CommandReset, ClearHaltEndPoint, ClearHaltEndPoint>> ELSE <<SetIdle>>

\* AddDataTRB: one slot for each page that the buffer touches; fewer are
\* never counted than are used.
RequiredSlots(address, len) ==
  LET startAlign == address % PageSize = 0
      endAlign == (address + len) % PageSize = 0 IN
  len \div PageSize +
  (IF ~startAlign
   THEN IF ~endAlign /\ address \div PageSize # (address + len) \div PageSize THEN 2 ELSE 1
   ELSE IF ~endAlign THEN 1 ELSE 0)
Parts(address, len) == Cardinality({b \div PageSize : b \in address .. address + len - 1})
\* The buffer of a disk starts at a page.
AddDataTRB(e, len) ==
  [name |-> IF e = "in" THEN "BulkRead" ELSE "BulkWrite", ring |-> e, n |-> Parts(0, len), need |-> RequiredSlots(0, len)]

-----------------------------------------------------------------------------
(* A transfer ring as the driver keeps it.  A slot is [cycle, ioc].        *)

NewRing == [slot |-> [i \in 0 .. RingSize - 1 |-> [cycle |-> FALSE, ioc |-> FALSE]],
            enq |-> 0, cycle |-> TRUE, free |-> RingSize - 1, dq |-> 0]
\* NextTRB and what is written to the slot.  The link gets its cycle bit
\* when the slot after it is needed.  The count of free slots wraps.
FaultyNextTRB(r, ioc) ==      \* the cycle bit stays on wrapping
  LET wrap == r.enq = RingSize - 1
      linked == IF wrap THEN [r.slot EXCEPT ![r.enq].cycle = r.cycle] ELSE r.slot
      i == IF wrap THEN 0 ELSE r.enq IN
  [slot |-> [linked EXCEPT ![i] = [cycle |-> r.cycle, ioc |-> ioc]], enq |-> i + 1, cycle |-> r.cycle,
   free |-> r.free - 1, dq |-> r.dq]
NextTRB(r, ioc) ==
  LET wrap == r.enq = RingSize - 1
      linked == IF wrap THEN [r.slot EXCEPT ![r.enq].cycle = r.cycle] ELSE r.slot
      i == IF wrap THEN 0 ELSE r.enq
      c == IF wrap THEN ~r.cycle ELSE r.cycle IN
  [slot |-> [linked EXCEPT ![i] = [cycle |-> c, ioc |-> ioc]], enq |-> i + 1, cycle |-> c,
   free |-> r.free - 1, dq |-> r.dq]
Fill(r, n) == FoldLeft(LAMBDA acc, i : NextTRB(acc, i = n), r, [i \in 1 .. n |-> i])
\* The slots that n requests take, in order.
Taken(r, n) == [i \in 1 .. n |-> (IF r.enq + i - 1 >= RingSize - 1 THEN r.enq + i - RingSize ELSE r.enq + i - 1)]
FaultyUpdateDeEnQPtr(r, cur) ==      \* the wrap counts the link as well
  [r EXCEPT !.free = @ + (IF cur < r.dq THEN RingSize - r.dq + cur + 1 ELSE cur - r.dq + 1),
            !.dq = (cur + 1) % (RingSize - 1)]
UpdateDeEnQPtr(r, cur) ==
  [r EXCEPT !.free = @ + (IF cur < r.dq THEN RingSize - r.dq + cur ELSE cur - r.dq + 1),
            !.dq = (cur + 1) % (RingSize - 1)]

\* The slots that the controller, from its place on, finds handed to it.
Follow(slot, place) ==
  IF place.idx = RingSize - 1 /\ slot[place.idx].cycle = place.cycle
  THEN [idx |-> 0, cycle |-> ~place.cycle] ELSE place
Handed(slot, place) ==
  LET walk[n \in 0 .. RingSize] ==
        IF n = 0 THEN [p |-> Follow(slot, place), seen |-> <<>>]
        ELSE LET w == walk[n - 1] IN
             IF w.p.idx < RingSize - 1 /\ slot[w.p.idx].cycle = w.p.cycle
             THEN [p |-> Follow(slot, [w.p EXCEPT !.idx = @ + 1]), seen |-> Append(w.seen, w.p.idx)] ELSE w
  IN walk[RingSize].seen

-----------------------------------------------------------------------------
Init ==
  /\ boot \in [stage : {"Stop"}, running : BOOLEAN, bios : BOOLEAN]
  /\ toProbe = Port /\ script = NewDevice(Port[1]) \o AddDevice(Port[1]) /\ driven = {}
  /\ at = [d \in Waits |-> "idle"] /\ op = [d \in Waits |-> EnableSlot] /\ ops = 0 /\ keys = 0
  /\ ring = [r \in Rings |-> NewRing] /\ cmd = [pcs |-> TRUE, slot |-> FALSE, link |-> FALSE]
  /\ hc = [r \in Rings \cup {Command} |-> [idx |-> 0, cycle |-> TRUE]] /\ halted = {} /\ errors = 0
  /\ pending = [r \in Rings |-> <<>>]
  /\ event = [i \in 0 .. EventSize - 1 |-> [cycle |-> FALSE, of |-> NoEvent, ok |-> FALSE]]
  /\ produced = [idx |-> 0, cycle |-> TRUE] /\ unread = <<>>
  /\ eventDQ = 0 /\ eventCycle = TRUE /\ busyBit = FALSE /\ status = FALSE /\ msi = FALSE
  /\ irq = "idle" /\ lost = FALSE /\ results = <<>>

Probing == toProbe # <<>>
Running == irq = "idle" /\ boot.stage = "Up"
Place(d) == IF op[d].ring = "command" THEN <<Command, 0>> ELSE <<<<d, op[d].ring>>, ring[<<d, op[d].ring>>].enq - 1>>
With(f, k, v) == [x \in DOMAIN f \cup {k} |-> IF x = k THEN v ELSE f[x]]
Without(f, k) == [x \in DOMAIN f \ {k} |-> f[x]]

\* The constructor of XHCIController and Start.  Every step waits for a bit
\* of the controller and throws when it does not come.
Stage(from, to, b) ==
  /\ boot.stage = from
  /\ \/ boot' = [b EXCEPT !.stage = to]
     \/ boot' = [boot EXCEPT !.stage = "Failed"]
  /\ UNCHANGED <<toProbe, script, driven, at, op, ops, keys, ring, cmd, hcv, evv, irqv, results>>
Stop == Stage("Stop", "HCReset", [boot EXCEPT !.running = FALSE])
HCReset == ~boot.running /\ Stage("HCReset", "Handoff", boot)
FaultyBiosToOSHandoff == Stage("Handoff", "SetUp", boot)      \* its answer is not waited for
BiosToOSHandoff == Stage("Handoff", "SetUp", [boot EXCEPT !.bios = FALSE])
\* MaxSlotsEnabled throws when the controller runs; then the pages of the
\* context table and the scratch pads, and the two rings.
SetUp == Stage("SetUp", IF boot.running THEN "Failed" ELSE "Run", boot)
Run == Stage("Run", "Up", [boot EXCEPT !.running = TRUE])
BringUp == Stop \/ HCReset \/ BiosToOSHandoff \/ SetUp \/ Run

\* Probe passes by a port without protocol, power or device, or that stays
\* disabled after its reset.
NextPort ==
  /\ toProbe' = Tail(toProbe)
  /\ script' = IF Len(toProbe) = 1 THEN <<>> ELSE NewDevice(toProbe[2]) \o AddDevice(toProbe[2])
SkipPort ==
  /\ Running /\ Probing /\ Head(script) = EnableSlot /\ at[Head(toProbe)] = "idle"
  /\ NextPort
  /\ UNCHANGED <<boot, driven, at, op, ops, keys, ring, cmd, hcv, evv, irqv, results>>

\* A request is put on its ring: a command as the only one, with the link
\* after it (Apply) ...
Apply(d) ==
  /\ cmd' = [pcs |-> ~cmd.pcs, slot |-> cmd.pcs, link |-> cmd.pcs]
  /\ UNCHANGED <<ring, pending>>
\* ... a transfer slot after slot.  The control ring is never found full.
Enqueue(r, n) ==
  /\ ring' = [ring EXCEPT ![r] = Fill(@, n)]
  /\ pending' = [pending EXCEPT ![r] = @ \o Taken(ring[r], n)]
  /\ UNCHANGED cmd
\* The driver puts its request on the ring; nothing is due before the
\* doorbell, but the controller may already be looking at this ring.
Put(d, o) ==
  /\ Running /\ at[d] = "idle"
  /\ IF Probing THEN Head(toProbe) = d /\ o = Head(script) /\ ops' = ops
     ELSE d \in driven \cap Disk /\ ops < MaxOps /\ ops' = ops + 1
  /\ o.ring \in {"in", "out"} => o.need <= ring[<<d, o.ring>>].free
  /\ IF o.ring = "command" THEN Apply(d) ELSE Enqueue(<<d, o.ring>>, o.n)
  /\ op' = [op EXCEPT ![d] = o]
  /\ at' = [at EXCEPT ![d] = "register"]
  /\ UNCHANGED <<boot, toProbe, script, driven, keys, hc, halted, errors, evv, irqv, results>>
\* "Transfer Ring is Full": only after transfers that failed.
RingFull(d, o) ==
  /\ Running /\ at[d] = "idle" /\ ~Probing /\ d \in driven /\ ops < MaxOps
  /\ o.need > ring[<<d, o.ring>>].free
  /\ ops' = ops + 1
  /\ UNCHANGED <<boot, toProbe, script, driven, at, op, keys, ring, cmd, hcv, evv, irqv, results>>

\* RegisterForWaitedEventResult, with interrupts disabled, then the doorbell
\* (the controller starts at a ring when its doorbell was rung).
FaultyRegister(d) ==      \* the doorbell is rung without
  /\ Running /\ at[d] = "register"
  /\ at' = [at EXCEPT ![d] = "wait"]
  /\ UNCHANGED <<boot, toProbe, script, driven, op, ops, keys, ring, cmd, hcv, evv, irqv, results>>
RegisterForWaitedEventResult(d) ==
  /\ Running /\ at[d] = "register"
  /\ results' = With(results, Place(d), [who |-> d, kind |-> "waited", got |-> NoEvent])
  /\ at' = [at EXCEPT ![d] = "wait"]
  /\ UNCHANGED <<boot, toProbe, script, driven, op, ops, keys, ring, cmd, hcv, evv, irqv>>
Rung(r) == IF r = Command THEN \E d \in Waits : at[d] = "wait" /\ op[d].ring = "command"
           ELSE r[2] = "interrupt" \/ (at[r[1]] = "wait" /\ op[r[1]].ring = r[2])

\* USBKeyboard asks for the next report when a slot is free: put, registered
\* and rung, the timed task being the only one that does.
ReceiveInterruptData(k) ==
  LET r == <<k, "interrupt">> IN
  /\ Running /\ k \in driven /\ keys < MaxKeys /\ ring[r].free > 0
  /\ keys' = keys + 1
  /\ Enqueue(r, 1)
  /\ results' = With(results, <<r, Taken(ring[r], 1)[1]>>, [who |-> k, kind |-> "interrupt", got |-> NoEvent])
  /\ UNCHANGED <<boot, toProbe, script, driven, at, op, ops, hc, halted, errors, evv, irqv>>

\* Woken by EventCompleted: ConsumeEventResult, then the result is looked at.
Ok(d) == results[Place(d)].got = "ok"
WaitForEvent(d) ==
  /\ Running /\ at[d] = "wait" /\ Place(d) \in DOMAIN results /\ results[Place(d)].got # NoEvent
  /\ results' = Without(results, Place(d))
  /\ at' = [at EXCEPT ![d] = "idle"]
  /\ ring' = IF Ok(d) /\ op[d].ring \in {"in", "out"}
             THEN [ring EXCEPT ![Place(d)[1]] = UpdateDeEnQPtr(@, Place(d)[2])] ELSE ring
  \* Probe ends at the first request that fails, for all ports that follow.
  /\ IF ~Probing THEN UNCHANGED <<toProbe, script, driven>>
     ELSE IF ~Ok(d) THEN toProbe' = <<>> /\ script' = <<>> /\ UNCHANGED driven
     ELSE IF Len(script) > 1 THEN script' = Tail(script) /\ UNCHANGED <<toProbe, driven>>
     ELSE NextPort /\ driven' = driven \cup {d}
  /\ UNCHANGED <<boot, op, ops, keys, cmd, hcv, evv, irqv>>

-----------------------------------------------------------------------------
(* The controller (external).  It writes events while there is room.       *)

Room == Len(unread) < EventSize - 1
Publish(of, ok) ==
  /\ event' = [event EXCEPT ![produced.idx] = [cycle |-> produced.cycle, of |-> of, ok |-> ok]]
  /\ produced' = IF produced.idx = EventSize - 1 THEN [idx |-> 0, cycle |-> ~produced.cycle]
                 ELSE [produced EXCEPT !.idx = @ + 1]
  /\ unread' = Append(unread, [of |-> of, ok |-> ok])
DoCommand ==
  /\ Rung(Command) /\ cmd.slot = hc[Command].cycle /\ Room
  /\ \E ok \in BOOLEAN :
       /\ ok \/ errors < MaxErrors
       /\ Publish(<<Command, 0>>, ok) /\ errors' = IF ok THEN errors ELSE errors + 1
  /\ hc' = [hc EXCEPT ![Command].cycle = IF cmd.link = @ THEN ~@ ELSE @]
  /\ UNCHANGED <<ctl, ring, cmd, halted, pending, irqv, results>>
\* A slot that fails makes an event of its own and halts the end point; no
\* request that the driver makes restarts it.
DoSlot(r, ok) ==
  LET p == Follow(ring[r].slot, hc[r])
      s == ring[r].slot[p.idx] IN
  /\ r \notin halted /\ Rung(r)
  /\ p.idx < RingSize - 1 /\ s.cycle = p.cycle
  /\ ok \/ errors < MaxErrors
  /\ hc' = [hc EXCEPT ![r] = [p EXCEPT !.idx = @ + 1]]
  /\ pending' = [pending EXCEPT ![r] = IF @ = <<>> THEN @ ELSE Tail(@)]
  /\ IF ok /\ ~s.ioc THEN UNCHANGED evv ELSE Room /\ Publish(<<r, p.idx>>, ok)
  /\ errors' = IF ok THEN errors ELSE errors + 1
  /\ halted' = IF ok THEN halted ELSE halted \cup {r}
  /\ UNCHANGED <<ctl, ring, cmd, irqv, results>>
\* An interrupt is raised for events not acknowledged yet.
Interrupt ==
  /\ unread # <<>> /\ ~busyBit
  /\ busyBit' = TRUE /\ status' = TRUE /\ msi' = TRUE
  /\ UNCHANGED <<ctl, ring, cmd, hcv, evv, eventDQ, eventCycle, irq, lost, results>>

-----------------------------------------------------------------------------
\* NotifyEvent: nothing is looked at when the status has not changed.
NotifyEvent ==
  /\ msi /\ irq = "idle"
  /\ msi' = FALSE
  /\ irq' = IF status THEN "events" ELSE "idle"
  /\ UNCHANGED <<ctl, ring, cmd, hcv, evv, eventDQ, eventCycle, busyBit, status, lost, results>>
\* A report is taken at once, and its slot is free again; one that failed
\* keeps its entry and its slot.
ConsumeReport(of, ok) ==
  IF ~ok THEN UNCHANGED <<results, ring>>
  ELSE /\ results' = Without(results, of)
       /\ ring' = [ring EXCEPT ![of[1]] = UpdateDeEnQPtr(@, of[2])]
\* A waiting process is woken; an event nobody asked for is printed.
PublishEventResult(of, ok) ==
  IF of \notin DOMAIN results THEN UNCHANGED <<results, ring>>
  ELSE IF results[of].kind = "waited"
  THEN results' = [results EXCEPT ![of].got = IF ok THEN "ok" ELSE "error"] /\ UNCHANGED ring
  ELSE ConsumeReport(of, ok)
\* NotifyEvents, once round: the cycle bit is toggled at the last event,
\* which is published; the dequeue pointer is written.
FaultyNotifyEvents ==      \* the cycle bit is never toggled
  /\ irq = "events" /\ event[eventDQ].cycle = eventCycle
  /\ PublishEventResult(event[eventDQ].of, event[eventDQ].ok)
  /\ eventCycle' = eventCycle
  /\ eventDQ' = (eventDQ + 1) % EventSize /\ busyBit' = FALSE
  /\ unread' = IF unread = <<>> THEN unread ELSE Tail(unread)
  /\ UNCHANGED <<ctl, cmd, hcv, event, produced, status, msi, irq, lost>>
NotifyEvents ==
  /\ irq = "events" /\ event[eventDQ].cycle = eventCycle
  /\ PublishEventResult(event[eventDQ].of, event[eventDQ].ok)
  /\ eventCycle' = IF eventDQ = EventSize - 1 THEN ~eventCycle ELSE eventCycle
  /\ eventDQ' = (eventDQ + 1) % EventSize /\ busyBit' = FALSE
  /\ unread' = IF unread = <<>> THEN unread ELSE Tail(unread)
  /\ UNCHANGED <<ctl, cmd, hcv, event, produced, status, msi, irq, lost>>
Drained ==
  /\ irq = "events" /\ event[eventDQ].cycle # eventCycle
  /\ irq' = "clear"
  /\ UNCHANGED <<ctl, ring, cmd, hcv, evv, eventDQ, eventCycle, busyBit, status, msi, lost, results>>
\* Then the status is cleared: an interrupt raised since the last event was
\* read finds nothing changed, and none follows it.
Clear ==
  /\ irq = "clear"
  /\ status' = FALSE /\ irq' = "idle"
  /\ lost' = (lost \/ busyBit)
  /\ UNCHANGED <<ctl, ring, cmd, hcv, evv, eventDQ, eventCycle, busyBit, msi, results>>

Bulk == {AddDataTRB(e, n) : e \in {"in", "out"}, n \in Length}
Requests(d) == IF Probing THEN {Head(script)} ELSE Bulk
Next ==
  \/ BringUp \/ SkipPort
  \/ \E d \in Waits :
       \/ \E o \in Requests(d) : Put(d, o)
       \/ RegisterForWaitedEventResult(d) \/ WaitForEvent(d)
  \/ \E d \in Disk : \E o \in Bulk : RingFull(d, o)
  \/ \E k \in Keyboard : ReceiveInterruptData(k)
  \/ DoCommand \/ (\E r \in Rings, ok \in BOOLEAN : DoSlot(r, ok))
  \/ Interrupt \/ NotifyEvent \/ NotifyEvents \/ Drained \/ Clear
Spec == Init /\ [][Next]_vars

-----------------------------------------------------------------------------
TypeOK ==
  /\ \A r \in Rings : ring[r].enq \in 0 .. RingSize - 1 /\ ring[r].dq \in 0 .. RingSize - 2
  /\ eventDQ \in 0 .. EventSize - 1 /\ halted \subseteq Rings /\ Len(unread) < EventSize
  /\ irq \in {"idle", "events", "clear"}

\* The controller runs, for the kernel alone, before it is given a request.
UpWhenUsed ==
  (\E d \in Waits : at[d] # "idle") \/ boot.stage = "Up" => boot = [stage |-> "Up", running |-> TRUE, bios |-> FALSE]

\* The controller is handed exactly what was put on a ring and is not done,
\* in that order: no slot is done twice, skipped, or written again before.
RingsAgree ==
  /\ \A r \in Rings : Handed(ring[r].slot, hc[r]) = pending[r]
  /\ (cmd.slot = hc[Command].cycle) =>
       \E d \in Waits : op[d].ring = "command" /\ at[d] \in {"register", "wait"}

\* On the rings that count their free slots none is counted twice: those
\* free, those with the controller and those whose event was not seen yet
\* are all there are.
SlotsCounted ==
  \A r \in Rings : r[2] # "control" =>
    /\ ring[r].free \in 0 .. RingSize - 1
    /\ (ring[r].free + ring[r].enq - ring[r].dq) % (RingSize - 1) = 0
    /\ Len(pending[r]) <= RingSize - 1 - ring[r].free

\* The handler reads every event once, in the order of the controller.
EventsInOrder ==
  \A i \in 1 .. EventSize :
    LET j == eventDQ + i - 1
        e == event[j % EventSize] IN
    IF i <= Len(unread)
    THEN e.of = unread[i].of /\ e.ok = unread[i].ok /\ e.cycle = (IF j < EventSize THEN eventCycle ELSE ~eventCycle)
    ELSE i < EventSize => e.cycle = (IF j < EventSize THEN ~eventCycle ELSE eventCycle)

\* A process that waits will be woken by the event of its own request: the
\* request is with the controller, or its event is on the way or has come.
\* The exceptions are an end point that was halted, by a slot before the
\* last or in an earlier transfer, and an interrupt that was cleared unseen.
WaiterServed ==
  \A d \in Waits : at[d] = "wait" =>
    \/ Place(d) \in DOMAIN results /\
         \/ results[Place(d)].got # NoEvent
         \/ \E i \in DOMAIN unread : unread[i].of = Place(d)
         \/ op[d].ring # "command" /\ Place(d)[2] \in Range(pending[Place(d)[1]])
         \/ op[d].ring = "command" /\ cmd.slot = hc[Command].cycle
    \/ Place(d)[1] \in halted
\* Events that are waiting are announced, unless an interrupt was lost.
EventsAnnounced ==
  unread # <<>> /\ irq = "idle" /\ ~lost => ~busyBit \/ (msi /\ status)
\* RequiredSlots counts enough (checked for all small buffers).
SlotsSuffice ==
  \A address \in 0 .. 2 * PageSize, len \in 1 .. 3 * PageSize :
    Parts(address, len) <= RequiredSlots(address, len)
=============================================================================
