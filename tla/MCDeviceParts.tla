---------------------------- MODULE MCDeviceParts ----------------------------
(***************************************************************************)
(* The drivers, side by side: a behaviour is one of one of them.  They     *)
(* share the variables v1, v2, ...; each says below which of its own they  *)
(* stand for, and the ones it does not need are NONE.                      *)
(***************************************************************************)
EXTENDS Integers, Sequences, TLC

CONSTANTS NONE,
  dev1, dev2,  \* processes and devices
  aux,         \* the task that frees UHCI frames; the EHCI's own queue head
  kbd          \* a keyboard

(* An ATA disk alone on its channel, and two ports with either kind.       *)
PortDef == <<[channel |-> 0, attached |-> {"ata"}], [channel |-> 1, attached |-> {"none", "ata", "atapi"}]>>
DiskDef == [i \in {dev1, dev2} |-> 1]

(* What arrives from the network: a DHCP answer, and packets that some     *)
(* handler refuses.                                                        *)
Answer == [error |-> FALSE, len |-> 60, type |-> "ipv4", ip |-> <<1, 3, 2, 0>>, proto |-> "udp",
           pseudo |-> <<1, 2>>, udp |-> <<2, 0, 0, 1>>, udpSum |-> 1, ports |-> <<68, 67>>, dhcp |-> 300]
FrameDef ==
  [i \in {"dhcp", "error", "short", "arp", "ipx", "badip", "tcp", "badudp", "udp", "nosum", "cut"} |->
    CASE i = "dhcp" -> Answer
      [] i = "error" -> [Answer EXCEPT !.error = TRUE]
      [] i = "short" -> [Answer EXCEPT !.len = 14]
      [] i \in {"arp", "ipx"} -> [Answer EXCEPT !.type = i]
      [] i = "badip" -> [Answer EXCEPT !.ip = <<1, 3, 2, 1>>]
      [] i = "tcp" -> [Answer EXCEPT !.proto = i]
      [] i = "badudp" -> [Answer EXCEPT !.udp = <<2, 0, 1, 1>>]
      [] i = "udp" -> [Answer EXCEPT !.ports = <<68, 99>>, !.udp = <<2, 0, 0>>, !.pseudo = <<1, 3>>]
      [] i = "nosum" -> [Answer EXCEPT !.udp = <<0>>, !.udpSum = 0]
      [] i = "cut" -> [Answer EXCEPT !.dhcp = 100]]

VARIABLES part,
  v1, v2, v3, v4, v5, v6, v7, v8, v9, v10, v11, v12, v13, v14, v15, v16, v17, v18, v19, v20, v21,
  v22, v23, v24, v25

U == INSTANCE UHCI WITH
  Driver <- {dev1, dev2}, Prober <- dev1, Cleaner <- aux, NFrames <- 16, MaxPacket <- 2, MaxTD <- 2,
  Length <- {2, 5}, MaxOps <- 1,
  busy <- v1, woken <- v2, at <- v3, frame <- v4, op <- v5, ops <- v6, entry <- v7, live <- v8,
  local <- v9, queue <- v10, dropped <- v11, script <- v12, toggle <- v13
E == INSTANCE EHCI WITH
  Device <- {dev1, dev2}, Reclaim <- aux, PageSize <- 4, MaxPacket <- 2, MaxTD <- 4,
  Length <- {0, 5, 9}, MaxOps <- 1,
  toProbe <- v1, script <- v2, at <- v3, op <- v4, driven <- v5, ops <- v6, td <- v7, storage <- v8,
  heap <- v9, next <- v10, link <- v11, walk <- v12, busy <- v13, late <- v14, toggle <- v15
X == INSTANCE XHCI WITH
  Disk <- {dev2}, Keyboard <- {kbd}, Port <- <<dev2, kbd>>, Configured <- {kbd}, RingSize <- 4,
  EventSize <- 3, PageSize <- 2, Length <- {3}, MaxOps <- 2, MaxKeys <- 4, MaxErrors <- 1,
  boot <- v1, toProbe <- v2, script <- v3, driven <- v4, at <- v5, op <- v6, ops <- v7, keys <- v8,
  ring <- v9, cmd <- v10, hc <- v11, halted <- v12, errors <- v13, pending <- v14, event <- v15,
  produced <- v16, eventDQ <- v17, eventCycle <- v18, unread <- v19, busyBit <- v20, status <- v21,
  msi <- v22, irq <- v23, lost <- v24, results <- v25
M == INSTANCE MassStorage WITH
  Sectors <- {1, 3, 5}, MaxRead <- 2, MaxWrite <- 4, MaxFailures <- 2,
  caller <- v1, at <- v2, sense <- v3, saved <- v4, cmd <- v5, result <- v6, dev <- v7, doubt <- v8,
  own <- v9, start <- v10, left <- v11, moved <- v12, want <- v13, capacity <- v14, failures <- v15
A == INSTANCE ATA WITH
  Port <- PortDef, Client <- {dev1, dev2}, Disk <- DiskDef, Chunk <- 2, Count <- {2, 3},
  Start <- {13}, Byte <- 2, MaxErrors <- 1, MaxOps <- 2,
  controller <- v1, boot <- v2, device <- v3, speed <- v4, lock <- v5, at <- v6, op <- v7,
  regs <- v8, act <- v9, irq <- v10, mixed <- v11, errors <- v12, ops <- v13
K == INSTANCE USBKeyboard WITH
  Slots <- 2, SlotLen <- 4, ReportLen <- 8, PageSize <- 4096, Letter <- {4}, Digit <- {5},
  SessionKey <- {7}, CapsLock <- 6, MaxHeld <- 2, MaxMoves <- 3,
  interface <- v1, bound <- v2, down <- v3, mods <- v4, changed <- v5, memory <- v6, next <- v7,
  asked <- v8, filled <- v9, reported <- v10, torn <- v11, pressed <- v12, flags <- v13,
  typed <- v14, expected <- v15, session <- v16, moves <- v17
P == INSTANCE PS2 WITH
  ShiftKey <- {"ls"}, CapsLock <- "cl", Letter <- "a", Function <- "f", MaxKeys <- 3, MaxMoves <- 1,
  QueueSize <- 2,
  at <- v1, device <- v2, broken <- v3, cfg <- v4, want <- v5, good <- v6, id <- v7, drivers <- v8,
  reply <- v9, out <- v10, scanning <- v11, held <- v12, caps <- v13, keys <- v14, moves <- v15,
  flags <- v16, packet <- v17, queue <- v18, typed <- v19, pointer <- v20, expected <- v21,
  disturbed <- v22
N == INSTANCE Network WITH
  RxSize <- 3, TxSize <- 2, Kind <- {"dhcp", "error"}, Frame <- FrameDef, Byte <- 4,
  MaxPackets <- 4, MaxSends <- 2, MaxErrors <- 1,
  card <- v1, word <- v2, irq <- v3, devices <- v4, rx <- v5, causes <- v6, isr <- v7, hand <- v8,
  left <- v9, arrived <- v10, handled <- v11, kinds <- v12, tx <- v13, sender <- v14,
  sending <- v15, live <- v16, sent <- v17, errors <- v18

ASSUME PartsAssumption == U!UHCIAssumption /\ E!EHCIAssumption /\ X!XHCIAssumption

Rest22 == <<v23, v24, v25>>
None22 == v23 = NONE /\ v24 = NONE /\ v25 = NONE
Rest18 == <<v19, v20, v21, v22, Rest22>>
None18 == v19 = NONE /\ v20 = NONE /\ v21 = NONE /\ v22 = NONE /\ None22
Rest17 == <<v18, Rest18>>
None17 == v18 = NONE /\ None18
Rest15 == <<v16, v17, Rest17>>
None15 == v16 = NONE /\ v17 = NONE /\ None17
Rest13 == <<v14, v15, Rest15>>
None13 == v14 = NONE /\ v15 = NONE /\ None15

Init ==
  \/ part = "uhci" /\ U!Init /\ None13
  \/ part = "ehci" /\ E!Init /\ None15
  \/ part = "xhci" /\ X!Init
  \/ part = "storage" /\ M!Init /\ None15
  \/ part = "ata" /\ A!Init /\ None13
  \/ part = "keyboard" /\ K!Init /\ None17
  \/ part = "ps2" /\ P!Init /\ None22
  \/ part = "network" /\ N!Init /\ None18
Next ==
  /\ UNCHANGED part
  /\ \/ part = "uhci" /\ U!Next /\ UNCHANGED Rest13
     \/ part = "ehci" /\ E!Next /\ UNCHANGED Rest15
     \/ part = "xhci" /\ X!Next
     \/ part = "storage" /\ M!Next /\ UNCHANGED Rest15
     \/ part = "ata" /\ A!Next /\ UNCHANGED Rest13
     \/ part = "keyboard" /\ K!Next /\ UNCHANGED Rest17
     \/ part = "ps2" /\ P!Next /\ UNCHANGED Rest22
     \/ part = "network" /\ N!Next /\ UNCHANGED Rest18
Spec == Init /\ [][Next]_<<part, v1, v2, v3, v4, v5, v6, v7, v8, v9, v10, v11, v12, v13, Rest13>>

\* USB host controllers: what is queued for the controller belongs to one
\* transfer, results are there when a driver reads them, nothing stays behind
\* when it is done, data toggles agree, event and transfer rings never overrun.
TransfersTracked ==
  /\ part = "uhci" =>
       /\ U!TypeOK /\ U!LockHeld /\ U!FrameOwnedOnce /\ U!ResultThere /\ U!NothingLeft
       /\ U!TogglesAgree
  /\ part = "ehci" =>
       /\ E!TypeOK /\ E!ListIsRing /\ E!ResultThere /\ E!NothingLeft /\ E!TogglesAgree
       /\ E!PagesCover
  /\ part = "xhci" =>
       /\ X!TypeOK /\ X!UpWhenUsed /\ X!RingsAgree /\ X!SlotsCounted /\ X!EventsInOrder
       /\ X!WaiterServed /\ X!EventsAnnounced /\ X!SlotsSuffice
\* Disks: a command and its status belong together, each sector asked for is
\* transferred once, registers of two requests mix only where a drive is used
\* without its lock.
SectorsTransferred ==
  /\ part = "storage" =>
       /\ M!TypeOK /\ M!InPhase /\ M!StatusOwn /\ M!SectorsOnce /\ M!CommandKept
       /\ M!LengthsAgree
  /\ part = "ata" =>
       A!TypeOK /\ A!SectorsRight /\ A!MixedOnlyUnlocked /\ A!InterruptComes
\* Keyboards and mouse: what is typed is what was pressed, in order, and a
\* packet of the mouse is put together from one movement.
InputAsMade ==
  /\ part = "keyboard" =>
       K!TypeOK /\ K!BoundToKeyboard /\ K!SlotsInRing /\ K!ReportsRead
  /\ part = "ps2" =>
       P!TypeOK /\ P!SetUp /\ P!KeysAsTyped /\ P!PacketsWhole /\ P!QueueInOrder
\* Network: a packet is handled once, whole and in order, none waits without
\* an interrupt to come, what is sent leaves once, checksums and dispatch
\* agree with the packet's contents.
PacketsHandled ==
  part = "network" =>
    /\ N!TypeOK /\ N!PacketsWhole /\ N!NothingWaits /\ N!SentOnce
    /\ N!ChecksumsAgree /\ N!Dispatched
=============================================================================
