-------------------------------- MODULE Network --------------------------------
(***************************************************************************)
(* The network: the E1000 driver with its two rings of descriptors         *)
(* (drivers/net/e1000), which the card works on while the driver does, the *)
(* handlers that a packet goes through (drivers/net/protocol) and their    *)
(* checksums (drivers/net/NetworkUtil.cpp). The interrupt handler receives,*)
(* the console sends. A ring position counts from 0.                       *)
(***************************************************************************)
EXTENDS Integers, Sequences, FiniteSets, SequencesExt, FiniteSetsExt

CONSTANTS RxSize, TxSize,  \* NUM_OF_DESC of each ring
          Kind, Frame,     \* Frame[kind]: what arrives: [error, len, type, ip, proto, udp, ports, dhcp]
          Byte,            \* values of a byte
          MaxPackets, MaxSends, MaxErrors

VARIABLES card,    \* how far Initialize is: "off", "failed", "words", "rings" or "on"
          word,    \* words read from the EEPROM
          irq,     \* the line has its handler
          devices, \* the length of NetworkManager's list
          rx,      \* [head, tail, index, done, error, buf]
          causes,  \* the card's interrupt cause register
          isr, hand, left,  \* where the handler is; the packet it holds; descriptors still owned when it broke off
          arrived, handled, \* packets by number: how many came; [number, to] in the order of handling
          kinds,   \* kinds[n]: what packet n is
          tx,      \* [head, tail, index, done, buf]
          sender, sending,  \* where the console is; the number of the packet it sends
          live, sent,       \* the buffers that exist; what left the card
          errors
vars == <<card, word, irq, devices, rx, causes, isr, hand, left, arrived, handled, kinds, tx, sender, sending, live, sent, errors>>
-------------------------------------------------------------------------------
(* Checksums: words of two bytes in the order of memory, an odd byte last; what overflows a
   word is added at its other end. *)
Word == Byte * Byte
FaultyAddForChecksum(bytes, init) ==  \* the odd byte is forgotten
  init + FoldLeft(LAMBDA s, i : s + bytes[2 * i - 1] + Byte * bytes[2 * i], 0, [i \in 1 .. Len(bytes) \div 2 |-> i])
AddForChecksum(bytes, init) ==
  init + FoldLeft(LAMBDA s, i : s + bytes[2 * i - 1] + Byte * bytes[2 * i], 0, [i \in 1 .. Len(bytes) \div 2 |-> i])
       + IF Len(bytes) % 2 = 1 THEN Last(bytes) ELSE 0
Carried[s \in 0 .. 16 * Word] == IF s < Word THEN s ELSE Carried[(s % Word) + (s \div Word)]
CalculateChecksum(bytes, init) == Carried[AddForChecksum(bytes, init)]
VerifyChecksum(bytes, init) == CalculateChecksum(bytes, init) = Word - 1

(* The handlers a frame gets to: EthernetHandler, ARPHandler, IPV4Handler, UDP4Handler and
   DHCPHandler; "thrown" when one of them throws. A UDP sum of 0 is not verified. *)
MIN_ETHERNET_PACKET_LEN == 15
DHCP_HEADER_SIZE == 236
Dhcp(f) == IF f.dhcp < DHCP_HEADER_SIZE THEN "thrown" ELSE "dhcp"
UdpVerified(f) == f.udpSum # 0 => VerifyChecksum(f.udp, AddForChecksum(f.pseudo, 0))
Udp(f) ==
  IF ~UdpVerified(f) THEN "thrown"
  ELSE IF f.ports \in {<<67, 68>>, <<68, 67>>} THEN Dhcp(f) ELSE "udp"
Ipv4(f) == IF ~VerifyChecksum(f.ip, 0) THEN "thrown" ELSE IF f.proto = "udp" THEN Udp(f) ELSE "ipv4"
Process(f) ==
  IF f.len < MIN_ETHERNET_PACKET_LEN THEN "thrown"
  ELSE IF f.type = "arp" THEN "arp" ELSE IF f.type = "ipv4" THEN Ipv4(f) ELSE "ignored"
-------------------------------------------------------------------------------
Init ==
  /\ card = "off" /\ word = 0 /\ irq = FALSE /\ devices = 0
  /\ rx = [head |-> 0, tail |-> 0, index |-> 0, done |-> [i \in 0 .. RxSize - 1 |-> FALSE],
           error |-> [i \in 0 .. RxSize - 1 |-> FALSE], buf |-> [i \in 0 .. RxSize - 1 |-> 0]]
  /\ causes = {} /\ isr = "idle" /\ hand = [at |-> 0, packet |-> 0, announced |-> 0] /\ left = FALSE
  /\ arrived = 0 /\ handled = <<>> /\ kinds = <<>>
  /\ tx = [head |-> 0, tail |-> 0, index |-> 0, done |-> [i \in 0 .. TxSize - 1 |-> TRUE], buf |-> [i \in 0 .. TxSize - 1 |-> 0]]
  /\ sender = "idle" /\ sending = 0 /\ live = {} /\ sent = <<>> /\ errors = 0

receiving == <<rx, isr, hand, left, arrived, handled, kinds>>
transmitting == <<tx, sender, sending, live, sent>>

(* The command that probes finds the card; a device that failed before is deleted first. *)
Create ==
  /\ card \in {"off", "failed"} /\ sender = "idle"
  /\ card' = "words" /\ word' = 0 /\ irq' = TRUE
  /\ UNCHANGED <<devices, causes, errors, receiving, transmitting>>
readEEPROM ==
  /\ card = "words" /\ word < 3
  /\ \/ word' = word + 1 /\ UNCHANGED <<card, errors>>
     \/ errors < MaxErrors /\ errors' = errors + 1 /\ card' = "failed" /\ UNCHANGED word
  /\ UNCHANGED <<irq, devices, causes, receiving, transmitting>>
(* Causes from before are read away, then the rings are set up; the card receives from here. *)
Rings ==
  /\ card = "words" /\ word = 3
  /\ card' = "rings" /\ causes' = {}
  /\ rx' = [rx EXCEPT !.head = 0, !.tail = RxSize - 1, !.index = 0]
  /\ tx' = [tx EXCEPT !.head = 0, !.tail = 0, !.index = 0]
  /\ UNCHANGED <<word, irq, devices, isr, hand, left, arrived, handled, kinds, sender, sending, live, sent, errors>>
Enable ==
  /\ card = "rings" /\ card' = "on" /\ devices' = devices + 1
  /\ UNCHANGED <<word, irq, causes, errors, receiving, transmitting>>

(* The card: a packet goes into the descriptor at its head, unless that is the tail. *)
Active == card \in {"rings", "on"}
Arrive(k) ==
  /\ Active /\ arrived < MaxPackets
  /\ arrived' = arrived + 1 /\ kinds' = Append(kinds, k)
  /\ IF rx.head = rx.tail THEN causes' = causes \cup {"overrun"} /\ UNCHANGED rx
     ELSE /\ rx' = [rx EXCEPT !.buf[rx.head] = arrived + 1, !.done[rx.head] = TRUE,
                              !.error[rx.head] = Frame[k].error, !.head = (@ + 1) % RxSize]
          /\ causes' = causes \cup {"receive"}
  /\ UNCHANGED <<card, word, irq, devices, isr, hand, left, handled, errors, transmitting>>
Transmit ==
  /\ Active /\ tx.head # tx.tail
  /\ sent' = Append(sent, IF tx.buf[tx.head] \in live THEN tx.buf[tx.head] ELSE 0)
  /\ tx' = [tx EXCEPT !.done[tx.head] = TRUE, !.head = (@ + 1) % TxSize]
  /\ causes' = causes \cup {"transmit"}
  /\ UNCHANGED <<card, word, irq, devices, sender, sending, live, errors, receiving>>

(* NotifyEvent: reading the causes clears them; only a receive cause starts the loop. *)
NotifyEvent ==
  /\ card = "on" /\ irq /\ isr = "idle" /\ causes # {}
  /\ isr' = IF "receive" \in causes THEN "next" ELSE "idle"
  /\ left' = (left /\ "receive" \notin causes) /\ causes' = {}
  /\ UNCHANGED <<card, word, irq, devices, rx, hand, arrived, handled, kinds, errors, transmitting>>

(* GetNextPacket gives the descriptor back, but the card stops before the tail. A packet with
   an error ends the loop like an empty ring does. *)
FaultyGetNextPacket ==  \* the tail is the next descriptor
  /\ isr = "next"
  /\ IF rx.done[rx.index]
     THEN /\ rx' = [rx EXCEPT !.done[rx.index] = FALSE, !.tail = (rx.index + 1) % RxSize, !.index = (@ + 1) % RxSize]
          /\ isr' = IF rx.error[rx.index] THEN "idle" ELSE "copy"
          /\ left' = rx.error[rx.index]
          /\ hand' = [at |-> rx.index, packet |-> 0, announced |-> rx.buf[rx.index]]
     ELSE isr' = "idle" /\ UNCHANGED <<rx, left, hand>>
  /\ UNCHANGED <<card, word, irq, devices, causes, arrived, handled, kinds, errors, transmitting>>
GetNextPacket ==
  /\ isr = "next"
  /\ IF rx.done[rx.index]
     THEN /\ rx' = [rx EXCEPT !.done[rx.index] = FALSE, !.tail = rx.index, !.index = (@ + 1) % RxSize]
          /\ isr' = IF rx.error[rx.index] THEN "idle" ELSE "copy"
          /\ left' = rx.error[rx.index]
          /\ hand' = [at |-> rx.index, packet |-> 0, announced |-> rx.buf[rx.index]]
     ELSE isr' = "idle" /\ UNCHANGED <<rx, left, hand>>
  /\ UNCHANGED <<card, word, irq, devices, causes, arrived, handled, kinds, errors, transmitting>>
RawNetPacket ==
  /\ isr = "copy" /\ isr' = "process" /\ hand' = [hand EXCEPT !.packet = rx.buf[hand.at]]
  /\ UNCHANGED <<card, word, irq, devices, rx, causes, left, arrived, handled, kinds, errors, transmitting>>
FaultyProcessRxQueue ==  \* one packet per interrupt
  /\ isr = "process" /\ isr' = "idle"
  /\ handled' = Append(handled, [number |-> hand.packet, to |-> Process(Frame[kinds[hand.packet]])])
  /\ UNCHANGED <<card, word, irq, devices, rx, causes, left, hand, arrived, kinds, errors, transmitting>>
ProcessRxQueue ==  \* what a handler throws is caught
  /\ isr = "process" /\ isr' = "next"
  /\ handled' = Append(handled, [number |-> hand.packet, to |-> Process(Frame[kinds[hand.packet]])])
  /\ UNCHANGED <<card, word, irq, devices, rx, causes, left, hand, arrived, kinds, errors, transmitting>>

(* A console command sends: the packet is built in a new buffer, its address goes into the
   descriptor, the tail moves, the sender waits for the card and frees the buffer. *)
ARPing ==
  /\ devices > 0 /\ sender = "idle" /\ sending < MaxSends
  /\ sending' = sending + 1 /\ live' = live \cup {sending + 1} /\ sender' = "fill"
  /\ UNCHANGED <<card, word, irq, devices, causes, tx, sent, errors, receiving>>
Fill ==
  /\ sender = "fill" /\ sender' = "post"
  /\ tx' = [tx EXCEPT !.buf[tx.index] = sending, !.done[tx.index] = FALSE]
  /\ UNCHANGED <<card, word, irq, devices, causes, sending, live, sent, errors, receiving>>
Post ==
  /\ sender = "post" /\ sender' = "wait"
  /\ tx' = [tx EXCEPT !.index = (@ + 1) % TxSize, !.tail = (tx.index + 1) % TxSize]
  /\ UNCHANGED <<card, word, irq, devices, causes, sending, live, sent, errors, receiving>>
FaultySent ==  \* the buffer is freed without waiting
  /\ sender = "wait" /\ sender' = "idle" /\ live' = live \ {sending}
  /\ UNCHANGED <<card, word, irq, devices, causes, tx, sending, sent, errors, receiving>>
Sent ==
  /\ sender = "wait" /\ tx.done[(tx.index + TxSize - 1) % TxSize]
  /\ sender' = "idle" /\ live' = live \ {sending}
  /\ UNCHANGED <<card, word, irq, devices, causes, tx, sending, sent, errors, receiving>>

Next == \/ Create \/ readEEPROM \/ Rings \/ Enable \/ (\E k \in Kind : Arrive(k)) \/ Transmit
        \/ NotifyEvent \/ GetNextPacket \/ RawNetPacket \/ ProcessRxQueue
        \/ ARPing \/ Fill \/ Post \/ Sent
Spec == Init /\ [][Next]_vars
-------------------------------------------------------------------------------
(* Types of the driver's and the card's state. *)
TypeOK ==
  /\ card \in {"off", "failed", "words", "rings", "on"} /\ word \in 0 .. 3 /\ irq \in BOOLEAN /\ devices \in 0 .. 1
  /\ {rx.head, rx.tail, rx.index} \subseteq 0 .. RxSize - 1 /\ {tx.head, tx.tail, tx.index} \subseteq 0 .. TxSize - 1
  /\ causes \subseteq {"receive", "transmit", "overrun"} /\ isr \in {"idle", "next", "copy", "process"}
  /\ arrived = Len(kinds) /\ sending \in 0 .. MaxSends /\ live \subseteq 1 .. MaxSends /\ left \in BOOLEAN

(* The packets are handled in the order of their arrival, each once and with the contents
   the descriptor announced, although the descriptor is back with the card when its buffer
   is copied and the card receives all the while (E1000NICDevice.cpp:297-317). *)
PacketsWhole ==
  /\ isr = "process" => hand.packet = hand.announced
  /\ \A i, j \in 1 .. Len(handled) : i < j => handled[i].number < handled[j].number
  /\ \A i \in 1 .. Len(handled) : handled[i].number > 0 /\ ~Frame[kinds[handled[i].number]].error

(* With no interrupt pending nothing waits in the ring, except behind a packet with an error:
   reading the causes away races with the arrival of packets (E1000NICDevice.cpp:139-172). *)
NothingWaits == card = "on" /\ isr = "idle" /\ causes = {} /\ ~left => \A i \in 0 .. RxSize - 1 : ~rx.done[i]

(* What leaves the card is what the console sent, once and in order, from buffers that exist
   (E1000NICDevice.cpp:358-371). *)
SentOnce ==
  /\ sent = [i \in 1 .. Len(sent) |-> i] /\ Len(sent) <= sending
  /\ sender = "idle" => Len(sent) = sending /\ live = {}

(* Every string of up to four bytes passes exactly when its 16-bit words, the first byte of each
   the higher one and an odd byte padded below, add up to all ones with the carries added in; and a
   sum may be taken in two parts of which the first has an even length (NetworkUtil.cpp:35-55). *)
Strings == UNION {[1 .. n -> 0 .. Byte - 1] : n \in 1 .. 4}
BigEndian(bytes) ==
  FoldLeft(LAMBDA s, i : s + IF i % 2 = 1 THEN Byte * bytes[i] ELSE bytes[i], 0, [i \in 1 .. Len(bytes) |-> i])
ChecksumsAgree ==
  \A b \in Strings :
    /\ VerifyChecksum(b, 0) <=> BigEndian(b) > 0 /\ BigEndian(b) % (Word - 1) = 0
    /\ Len(b) > 2 => AddForChecksum(SubSeq(b, 3, Len(b)), AddForChecksum(SubSeq(b, 1, 2), 0)) = AddForChecksum(b, 0)

(* A frame gets to a handler behind a checksum only when the bytes it covers are sound, and a
   sound one gets to the handler of its kind (protocol/EthernetHandler.cpp:36-47 and below). *)
Sound(bytes) == BigEndian(bytes) > 0 /\ BigEndian(bytes) % (Word - 1) = 0
Dispatched ==
  \A k \in DOMAIN Frame :
    LET f == Frame[k]  to == Process(f)
        udp == f.len >= MIN_ETHERNET_PACKET_LEN /\ f.type = "ipv4" /\ Sound(f.ip) /\ f.proto = "udp" IN
    /\ to \in {"udp", "dhcp"} => udp /\ (f.udpSum = 0 \/ Sound(f.pseudo \o f.udp))
    /\ udp /\ (f.udpSum = 0 \/ Sound(f.pseudo \o f.udp)) =>
         to = IF f.ports \notin {<<67, 68>>, <<68, 67>>} THEN "udp" ELSE IF f.dhcp < DHCP_HEADER_SIZE THEN "thrown" ELSE "dhcp"
================================================================================
