---------------------------------- MODULE ATA ----------------------------------
(***************************************************************************)
(* The IDE driver (drivers/ide): the controller is found and its ports are *)
(* probed and configured in order, then processes read and write sectors:  *)
(* a transfer is cut into commands, a command is programmed into the task  *)
(* file of the channel, which its two ports share, and its data moves by   *)
(* programmed I/O or by bus-master DMA, with a fall back from one to the   *)
(* other. The device side is the drive as the driver uses it.              *)
(***************************************************************************)
EXTENDS Integers, Sequences, FiniteSets, SequencesExt

CONSTANTS Port,        \* the ports, in order: <<[channel, attached: what may be there]>>
          Client,      \* processes that use a disk
          Disk,        \* Disk[c]: the port of a client's disk
          Chunk,       \* sectors of one command (16 KB)
          Count,       \* sectors a client asks for
          Start,       \* sectors it starts at
          Byte,        \* values of a register
          MaxErrors,   \* errors of the drives (bound)
          MaxOps,      \* transfers (bound)
          NONE

VARIABLES controller,  \* the mode found for the controller
          boot,        \* the step of the initialisation
          device,      \* device[p]: what was found on a port
          speed,       \* uiCurrentSpeed
          lock,        \* the raw disks that are locked
          at, op,      \* where a client is, and in which transfer
          regs,        \* the task file of a channel
          act,         \* the command its drive executes
          irq,         \* interrupts signalled on a line and not consumed
          mixed,       \* the locks of clients whose commands overlapped on a channel
          errors, ops

vars == <<controller, boot, device, speed, lock, at, op, regs, act, irq, mixed, errors, ops>>

Ports    == 1 .. Len(Port)
Channels == {Port[p].channel : p \in Ports}
Line     == {"primary", "secondary"}
Channel(p) == Port[p].channel

-------------------------------------------------------------------------------
(* Initialisation. A controller in legacy mode has a line for each channel; in native mode
   one for both, and DMA only when that line is 14. *)
Modes == {[mode |-> "legacy", dma |-> d] : d \in BOOLEAN} \cup {[mode |-> "native", dma |-> d] : d \in BOOLEAN}
Raises(ch) == IF controller.mode = "legacy" /\ ch = 1 THEN "secondary" ELSE "primary"

Init ==
  /\ controller = NONE /\ boot = <<"enable", 0>>
  /\ device = [p \in Ports |-> "unknown"] /\ speed = [p \in Ports |-> "pio"]
  /\ lock = {}
  /\ at = [c \in Client |-> "idle"] /\ op = [c \in Client |-> NONE]
  /\ regs = [ch \in Channels |-> NONE] /\ act = [ch \in Channels |-> NONE]
  /\ irq = [l \in Line |-> 0] /\ mixed = {} /\ errors = 0 /\ ops = 0

Clients == <<lock, at, op, regs, act, mixed, errors, ops>>

(* EnableDisabledController and CheckControllerMode: without DMA no handler is registered. *)
EnableController ==
  /\ boot[1] = "enable"
  /\ \/ controller' \in Modes /\ boot' = <<"probe", 1>>
     \/ controller' = NONE /\ boot' = <<"failed", 0>>
  /\ UNCHANGED <<device, speed, irq>> /\ UNCHANGED Clients

(* GetHDInterruptNo: the line depends on the kind of the device, not on its channel. *)
GetHDInterruptNo(kind) == IF kind = "atapi" THEN "secondary" ELSE "primary"
Registered(line) == controller.dma /\ (line = "primary" \/ controller.mode = "legacy")

Step(phase, p, next) == IF p < Len(Port) THEN <<phase, p + 1>> ELSE <<next, 1>>

(* Probe: reset, classify, IDENTIFY and wait for the interrupt of it. The wait does not end
   when the drive raises the other line; it has no meaning when no handler is registered. *)
Probe ==
  /\ boot[1] = "probe"
  /\ LET p == boot[2] IN \E kind \in Port[p].attached : LET line == GetHDInterruptNo(kind) IN
     \/ /\ kind = "none" \/ errors < MaxErrors
        /\ device' = [device EXCEPT ![p] = IF kind = "none" THEN "none" ELSE "unknown"]
        /\ boot' = Step("probe", p, "configure")
        /\ errors' = IF kind = "none" THEN errors ELSE errors + 1
        /\ UNCHANGED irq
     \/ /\ kind # "none"
        /\ irq' = IF Raises(Channel(p)) = line THEN irq ELSE [irq EXCEPT ![Raises(Channel(p))] = @ + 1]
        /\ IF ~Registered(line) THEN boot' = <<"undefined", p>> /\ UNCHANGED device
           ELSE IF Raises(Channel(p)) # line /\ irq[line] = 0
           THEN boot' = <<"hung", p>> /\ UNCHANGED device
           ELSE device' = [device EXCEPT ![p] = kind] /\ boot' = Step("probe", p, "configure")
        /\ UNCHANGED errors
  /\ UNCHANGED <<controller, speed, lock, at, op, regs, act, mixed, ops>>

(* ConfigureDrive: the highest speed that both the port and the drive support; no port
   supports more than plain DMA. *)
Common(portSpeeds, driveSpeeds) == IF "dma" \in portSpeeds \cap driveSpeeds THEN "dma" ELSE "pio"
ConfigureDrive ==
  /\ boot[1] = "configure"
  /\ \E portSpeeds, driveSpeeds \in {{"pio"}, {"pio", "dma"}} :
       speed' = [speed EXCEPT ![boot[2]] =
                   IF device[boot[2]] \in {"ata", "atapi"} THEN Common(portSpeeds, driveSpeeds) ELSE "pio"]
  /\ boot' = Step("configure", boot[2], "ready")
  /\ UNCHANGED <<controller, device, irq>> /\ UNCHANGED Clients

-------------------------------------------------------------------------------
(* Transfers. The raw disk has a mutex; a drive of a disk calls the driver without it. *)
Lock(c) == IF op[c].raw THEN {Disk[c]} ELSE {}
InCommand(c) == at[c] \in {"select", "program", "put", "data", "dma", "wait"}
Goto(c, s) == at' = [at EXCEPT ![c] = s]
Booted == <<controller, boot, device>>

FaultyNextCommand(c) ==  \* the disk is unlocked after each command
  /\ at[c] = "chunk"
  /\ IF op[c].moved = op[c].count
     THEN Goto(c, "ok") /\ UNCHANGED <<op, mixed>>
     ELSE /\ op' = [op EXCEPT ![c].len = 1, ![c].done = 0, ![c].tries = 0]
          /\ mixed' = mixed \cup {<<Lock(c), Lock(d)>> : d \in {e \in Client \ {c} :
                                                   InCommand(e) /\ Channel(Disk[e]) = Channel(Disk[c])}}
          /\ Goto(c, "select")
  /\ lock' = lock \ Lock(c)
  /\ UNCHANGED <<Booted, speed, regs, act, irq, errors, ops>>
Read(c) == \E start \in Start, count \in Count, write, raw \in BOOLEAN :
  /\ boot[1] = "ready" /\ device[Disk[c]] = "ata"
  /\ at[c] = "idle" /\ ops < MaxOps /\ (raw => Disk[c] \notin lock)
  /\ lock' = lock \cup (IF raw THEN {Disk[c]} ELSE {})
  /\ op' = [op EXCEPT ![c] = [start |-> start, count |-> count, write |-> write, raw |-> raw, sector |-> start,
                              moved |-> 0, len |-> 0, done |-> 0, tries |-> 0, log |-> <<>>]]
  /\ ops' = ops + 1 /\ Goto(c, "chunk")
  /\ UNCHANGED <<Booted, speed, regs, act, irq, mixed, errors>>

(* The loop of ATADrive_Read and ATADrive_Write: the next command, or the end. *)
Shorter(a, b) == IF a < b THEN a ELSE b
NextCommand(c) ==
  /\ at[c] = "chunk"
  /\ IF op[c].moved = op[c].count
     THEN /\ Goto(c, "ok") /\ lock' = lock \ Lock(c)
          /\ UNCHANGED <<op, mixed>>
     ELSE /\ op' = [op EXCEPT ![c].len = Shorter(Chunk, op[c].count - op[c].moved), ![c].done = 0, ![c].tries = 0]
          /\ mixed' = mixed \cup {<<Lock(c), Lock(d)>> : d \in {e \in Client \ {c} :
                                                   InCommand(e) /\ Channel(Disk[e]) = Channel(Disk[c])}}
          /\ Goto(c, "select") /\ UNCHANGED lock
  /\ UNCHANGED <<Booted, speed, regs, act, irq, errors, ops>>

Fail(c) == Goto(c, "failed") /\ lock' = lock \ Lock(c)

(* PortSelect, once the channel is not busy. *)
FaultyRegisters(sector) == [low |-> sector % Byte, mid |-> (sector \div Byte) % Byte, high |-> 0, top |-> 0]
Registers(sector) ==
  [low |-> sector % Byte, mid |-> (sector \div Byte) % Byte,
   high |-> (sector \div (Byte * Byte)) % Byte, top |-> (sector \div (Byte * Byte * Byte)) % Byte]
Address(r) == r.low + Byte * (r.mid + Byte * (r.high + Byte * r.top))

PortSelect(c) ==
  /\ at[c] = "select" /\ act[Channel(Disk[c])] = NONE
  /\ regs' = [regs EXCEPT ![Channel(Disk[c])] = [dev |-> Disk[c], count |-> 0, lba |-> Registers(0)]]
  /\ Goto(c, "program")
  /\ UNCHANGED <<Booted, speed, lock, op, act, irq, mixed, errors, ops>>

WriteRegisters(c) ==
  /\ at[c] = "program"
  /\ regs' = [regs EXCEPT ![Channel(Disk[c])].count = op[c].len,
                          ![Channel(Disk[c])].lba = Registers(op[c].sector)]
  /\ Goto(c, "put")
  /\ UNCHANGED <<Booted, speed, lock, op, act, irq, mixed, errors, ops>>

(* The wait for BUSY to clear times out. *)
IOWait(c) ==
  /\ at[c] \in {"select", "put", "data"} /\ errors < MaxErrors
  /\ errors' = errors + 1 /\ Fail(c)
  /\ act' = [act EXCEPT ![Channel(Disk[c])] = NONE]
  /\ UNCHANGED <<Booted, speed, op, regs, irq, mixed, ops>>

(* The command register starts the drive that is selected. *)
ExecuteATACommand(c) ==
  LET ch == Channel(Disk[c])  dma == speed[Disk[c]] = "dma" IN
  /\ at[c] = "put"
  /\ act' = [act EXCEPT ![ch] = [dev |-> regs[ch].dev, next |-> Address(regs[ch].lba),
                                 left |-> regs[ch].count, write |-> op[c].write, dma |-> dma]]
  /\ Goto(c, IF dma THEN "dma" ELSE "data")
  /\ UNCHANGED <<Booted, speed, lock, op, regs, irq, mixed, errors, ops>>

(* What moved: sector by sector, from or to which drive. *)
Moved(a, n) == [i \in 1 .. n |-> <<a.dev, a.next + i - 1>>]

EndCommand(c, o) == [o EXCEPT !.sector = @ + 1, !.moved = @ + o.len]

(* IORead and IOWrite move one sector for each DRQ. *)
IOTransfer(c) ==
  LET ch == Channel(Disk[c])  a == act[ch] IN
  /\ at[c] = "data" /\ a # NONE
  /\ LET o == [op[c] EXCEPT !.log = @ \o Moved(a, 1), !.done = @ + 1] IN
     IF o.done = o.len
     THEN op' = [op EXCEPT ![c] = EndCommand(c, o)] /\ Goto(c, "chunk")
     ELSE op' = [op EXCEPT ![c] = o] /\ UNCHANGED at
  /\ act' = [act EXCEPT ![ch] = IF a.left <= 1 THEN NONE ELSE [a EXCEPT !.next = @ + 1, !.left = @ - 1]]
  /\ UNCHANGED <<Booted, speed, lock, regs, irq, mixed, errors, ops>>

(* StartDMA: the bus master is started and the interrupt awaited. *)
StartDMA(c) ==
  /\ at[c] = "dma" /\ Goto(c, "wait")
  /\ UNCHANGED <<Booted, speed, lock, op, regs, act, irq, mixed, errors, ops>>

(* The drive and the bus master move the data of the command, or fail; either way the
   channel raises its line (external). *)
DeviceDMA(ch) ==
  /\ act[ch] # NONE /\ act[ch].dma
  /\ \E c \in Client : at[c] = "wait" /\ Channel(Disk[c]) = ch
  /\ irq' = [irq EXCEPT ![Raises(ch)] = @ + 1]
  /\ act' = [act EXCEPT ![ch] = NONE]
  /\ LET c == CHOOSE d \in Client : at[d] = "wait" /\ Channel(Disk[d]) = ch IN
     \/ op' = [op EXCEPT ![c].log = @ \o Moved(act[ch], act[ch].left), ![c].done = act[ch].left]
        /\ UNCHANGED errors
     \/ errors < MaxErrors /\ errors' = errors + 1 /\ UNCHANGED op
  /\ UNCHANGED <<Booted, speed, lock, at, regs, mixed, ops>>

(* Woken: success ends the command; a failed transfer is started again, three times, and
   then the command is repeated by programmed I/O. *)
FaultyWoken(c) ==  \* the status of the bus master is not looked at
  /\ at[c] = "wait" /\ irq["primary"] > 0
  /\ irq' = [irq EXCEPT !["primary"] = @ - 1]
  /\ op' = [op EXCEPT ![c] = EndCommand(c, @)] /\ Goto(c, "chunk")
  /\ UNCHANGED <<Booted, speed, lock, regs, act, mixed, errors, ops>>
Woken(c) ==
  /\ at[c] = "wait" /\ irq["primary"] > 0
  /\ irq' = [irq EXCEPT !["primary"] = @ - 1]
  /\ IF op[c].done = op[c].len
     THEN op' = [op EXCEPT ![c] = EndCommand(c, @)] /\ Goto(c, "chunk") /\ UNCHANGED speed
     ELSE IF op[c].tries < 2
     THEN op' = [op EXCEPT ![c].tries = @ + 1] /\ Goto(c, "dma") /\ UNCHANGED speed
     ELSE /\ speed' = [speed EXCEPT ![Disk[c]] = "pio"]
          /\ op' = [op EXCEPT ![c].tries = 0] /\ Goto(c, "select")
  /\ UNCHANGED <<Booted, lock, regs, act, mixed, errors, ops>>

Return(c) ==
  /\ at[c] \in {"ok", "failed"} /\ Goto(c, "idle") /\ op' = [op EXCEPT ![c] = NONE]
  /\ UNCHANGED <<Booted, speed, lock, regs, act, irq, mixed, errors, ops>>

(* What the drives do once commands overlapped is left open: nothing follows. *)
Next ==
  \/ EnableController \/ Probe \/ ConfigureDrive
  \/ mixed = {} /\ \E c \in Client :
                       \/ Read(c) \/ NextCommand(c) \/ PortSelect(c) \/ WriteRegisters(c) \/ IOWait(c)
                       \/ ExecuteATACommand(c) \/ IOTransfer(c) \/ StartDMA(c) \/ Woken(c) \/ Return(c)
  \/ mixed = {} /\ \E ch \in Channels : DeviceDMA(ch)
Spec == Init /\ [][Next]_vars

-------------------------------------------------------------------------------
(* Types of the driver's state (ATADeviceController.h). *)
TypeOK ==
  /\ device \in [Ports -> {"unknown", "none", "ata", "atapi"}] /\ speed \in [Ports -> {"pio", "dma"}]
  /\ at \in [Client -> {"idle", "chunk", "select", "program", "put", "data", "dma", "wait", "ok", "failed"}]
  /\ \A l \in Line : irq[l] \in 0 .. MaxOps + Len(Port) + MaxErrors

(* A transfer of one command that is reported as done moved exactly its sectors, in order,
   of its own disk, whether by DMA, by programmed I/O or by the one after the other,
   provided no other command overlapped it on the channel (ATADrive.cpp:22-109,
   ATACommandManager.cpp:26-180). *)
SectorsRight ==
  \A c \in Client : at[c] = "ok" /\ op[c].count <= Chunk /\ mixed = {} =>
    op[c].log = [i \in 1 .. op[c].count |-> <<Disk[c], op[c].start + i - 1>>]

(* Commands overlap on a channel only when two clients hold no lock in common: a raw disk's
   mutex keeps its own clients apart, nothing keeps apart a drive's, or those of the two
   disks of a channel (DeviceDrive.cpp:230-252 and 704-734). *)
MixedOnlyUnlocked ==
  \A pair \in mixed : pair[1] \cap pair[2] = {}

(* A client that waits for the interrupt of a transfer gets it as long as no transfer
   failed: its drive is still at work, or the line has been raised
   (ATAPortOperation.cpp:135-165). After a failed one it waits for an interrupt that cannot
   come: the fall back to programmed I/O is not reached. *)
InterruptComes ==
  \A c \in Client : at[c] = "wait" /\ errors = 0 /\ mixed = {} =>
    act[Channel(Disk[c])] # NONE \/ irq["primary"] > 0
=============================================================================
