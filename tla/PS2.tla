--------------------------------- MODULE PS2 ---------------------------------
(***************************************************************************)
(* The PS/2 controller, the two devices behind it and the console that     *)
(* reads the keys: PS2Controller.cpp sets both ports up by a dialogue over *)
(* one output buffer that the controller, the keyboard and the mouse       *)
(* share; afterwards the two interrupt handlers empty that buffer, the     *)
(* keyboard's decodes scan codes into the queue of KeyboardHandler, the    *)
(* mouse's collects packets of three bytes.                                *)
(***************************************************************************)
EXTENDS Integers, Sequences, FiniteSets, SequencesExt

CONSTANTS ShiftKey,     \* the two shift keys
          CapsLock,     \* the caps lock key
          Letter,       \* a letter key
          Function,     \* one of F1..F8
          MaxKeys,      \* key presses and releases (bound)
          MaxMoves,     \* mouse packets (bound)
          QueueSize,    \* characters the queue holds (1024 in the code)
          NONE

VARIABLES at,        \* where PS2Controller::Initialize is
          device,    \* what is plugged into port 1 and port 2
          broken,    \* what fails its test: a port, or the controller (0)
          cfg,       \* the ports that are on, the interrupts that are enabled
          want,      \* `status': the interrupts Initialize will enable
          good,      \* the ports that passed their test
          id,        \* the identification byte read last
          drivers,   \* the drivers instantiated
          reply,     \* bytes on their way: from the controller (0) and the ports
          out,       \* the output buffer
          scanning,  \* devices that report their input
          held,      \* the keys that are down
          caps,      \* caps lock as the user sees it
          keys, moves,   \* events so far
          flags,     \* _isShiftKey, _isCapsLock of the keyboard driver
          packet,    \* _packetData up to _dataCounter
          queue, typed, pointer,  \* the queue, what was put in it, the moves done
          expected,  \* the characters a user expects
          disturbed  \* some input byte was read by Initialize, or lost

vars == <<at, device, broken, cfg, want, good, id, drivers, reply, out, scanning, held, caps,
          keys, moves, flags, packet, queue, typed, pointer, expected, disturbed>>
hardware == <<device, broken>>
user     == <<held, caps, keys, moves, expected>>
driver   == <<flags, packet, queue, typed, pointer>>

Port == 1 .. 2
Key  == ShiftKey \cup {CapsLock, Letter, Function}

Init ==
  /\ at = <<"start">>
  /\ device \in {<<"keyboard", "mouse">>, <<"keyboard", NONE>>, <<"mouse", "keyboard">>}
  /\ broken \in {{}, {0}, {1}, {2}, {1, 2}}
  /\ cfg = [on |-> Port, irq |-> {1}]
  /\ want = {} /\ good = {} /\ id = NONE /\ drivers = {}
  /\ reply = [s \in 0 .. 2 |-> <<>>] /\ out = NONE
  /\ scanning = {p \in Port : device[p] = "keyboard"}
  /\ held = {} /\ caps = FALSE /\ keys = 0 /\ moves = 0
  /\ flags = [shift |-> FALSE, caps |-> FALSE]
  /\ packet = <<>> /\ queue = <<>> /\ typed = <<>> /\ pointer = <<>>
  /\ expected = <<>> /\ disturbed = FALSE

IsInput(b) == b.kind \in {"key", "move"}
Answer(s, x) == [from |-> s, kind |-> "answer", val |-> x]
Is(b, x) == b.kind = "answer" /\ b.val = x
Say(s, bytes) == reply' = [reply EXCEPT ![s] = @ \o bytes]

(***************************************************************************)
(* One read of the dialogue. WaitForRead gives up when nothing comes.      *)
(***************************************************************************)
Deliverable == {s \in 0 .. 2 : reply[s] # <<>> /\ (s = 0 \/ s \in cfg.on)}
ReceiveData(step) == /\ at = step /\ out # NONE
                     /\ out' = NONE
                     /\ disturbed' = (disturbed \/ IsInput(out))
WaitForReadFails(step) == at = step /\ out = NONE /\ Deliverable = {}
Goto(step) == at' = step

(* ClearOutputBuffer reads until the buffer stays empty: whatever is on its way is thrown
   away. *)
ClearOutputBuffer ==
  /\ out' = NONE
  /\ reply' = [s \in 0 .. 2 |-> IF s \in Deliverable THEN <<>> ELSE reply[s]]
  /\ disturbed' = (\/ disturbed
                   \/ out # NONE /\ IsInput(out)
                   \/ \E s \in Deliverable : \E b \in ToSet(reply[s]) : IsInput(b))

(* Lines 45-54: interrupts masked, both ports off, the buffer drained. *)
Quieten ==
  /\ Goto(<<"config">>) /\ at = <<"start">>
  /\ cfg' = [cfg EXCEPT !.on = {}]
  /\ out' = NONE
  /\ disturbed' = (out # NONE /\ IsInput(out))
  /\ UNCHANGED <<hardware, want, good, id, drivers, reply, scanning, user, driver>>

(* Lines 54-76: the new configuration has no interrupt, but clearing bits 4 and 5 switches
   both ports on again; the self test is started. *)
Configure ==
  /\ at = <<"config">> /\ Goto(<<"selftest">>)
  /\ cfg' = [on |-> Port, irq |-> {}]
  /\ Say(0, <<Answer(0, IF 0 \in broken THEN "FC" ELSE "55")>>)
  /\ UNCHANGED <<hardware, want, good, id, drivers, out, scanning, user, driver, disturbed>>

SelfTested ==
  /\ ReceiveData(<<"selftest">>)
  /\ Goto(IF Is(out, "55") THEN <<"test", 1>> ELSE <<"failed">>)
  /\ UNCHANGED <<hardware, cfg, want, good, id, drivers, reply, scanning, user, driver>>

(* Lines 99-105. (The second look at the configuration, lines 85-97, decides a variable that
   is not used again; it leaves port 2 off.) *)
TestPort(p) ==
  /\ at = <<"test", p>> /\ Goto(<<"tested", p>>)
  /\ cfg' = [cfg EXCEPT !.on = @ \ {2}]
  /\ Say(0, <<Answer(0, IF p \in broken THEN "01" ELSE "00")>>)
  /\ UNCHANGED <<hardware, want, good, id, drivers, out, scanning, user, driver, disturbed>>

PortTested(p) ==
  /\ ReceiveData(<<"tested", p>>)
  /\ good' = (IF Is(out, "00") THEN good \cup {p} ELSE good)
  /\ Goto(IF p = 1 THEN <<"test", 2>>
          ELSE IF good' = {} THEN <<"failed">> ELSE <<"port", 1>>)
  /\ UNCHANGED <<hardware, cfg, want, id, drivers, reply, scanning, user, driver>>

(***************************************************************************)
(* Lines 111-156: one port. It is switched on, its device silenced,        *)
(* identified and set reporting; the driver for what it is gets created.   *)
(***************************************************************************)
AfterPort(p) == IF p = 1 THEN <<"clear">> ELSE <<"enable">>
FaultyEnablePort(p) ==
  /\ at = <<"port", p>>
  /\ IF p \in good
     THEN /\ want' = {p} /\ cfg' = [cfg EXCEPT !.on = @ \cup {p}]
          /\ Goto(<<"send", "F5", p>>)
     ELSE /\ Goto(AfterPort(p)) /\ UNCHANGED <<want, cfg>>
  /\ UNCHANGED <<hardware, good, id, drivers, reply, out, scanning, user, driver, disturbed>>
EnablePort(p) ==
  /\ at = <<"port", p>>
  /\ IF p \in good
     THEN /\ want' = want \cup {p} /\ cfg' = [cfg EXCEPT !.on = @ \cup {p}]
          /\ Goto(<<"send", "F5", p>>)
     ELSE /\ Goto(AfterPort(p)) /\ UNCHANGED <<want, cfg>>
  /\ UNCHANGED <<hardware, good, id, drivers, reply, out, scanning, user, driver, disturbed>>

Identity(p) == IF device[p] = "keyboard" THEN <<Answer(p, "AB"), Answer(p, "83")>>
               ELSE <<Answer(p, "00")>>
(* What the device on port p says to a command, and what the command does to it. *)
SendCommand(c, p) ==
  /\ at = <<"send", c, p>> /\ Goto(<<"ack", c, p>>)
  /\ IF device[p] = NONE THEN UNCHANGED <<reply, scanning>>
     ELSE /\ Say(p, <<Answer(p, "FA")>> \o (IF c = "F2" THEN Identity(p) ELSE <<>>))
          /\ scanning' = (CASE c = "F5" -> scanning \ {p}
                            [] c = "F4" -> scanning \cup {p}
                            [] OTHER -> scanning)
  /\ UNCHANGED <<hardware, cfg, want, good, id, drivers, out, user, driver, disturbed>>

WaitForAck(c, p) ==
  /\ ReceiveData(<<"ack", c, p>>)
  /\ Goto(IF ~Is(out, "FA") THEN <<"failed">>
          ELSE CASE c = "F5" -> <<"send", "F2", p>> [] c = "F2" -> <<"id", p>>
                 [] OTHER -> <<"driver", p>>)
  /\ UNCHANGED <<hardware, cfg, want, good, id, drivers, reply, scanning, user, driver>>

Identify(p) ==
  /\ ReceiveData(<<"id", p>>) /\ Goto(<<"id2", p>>)
  /\ id' = (IF out.kind = "answer" THEN out.val ELSE NONE)
  /\ UNCHANGED <<hardware, cfg, want, good, drivers, reply, scanning, user, driver>>

(* The second byte may be missing. *)
Identify2(p) ==
  /\ Goto(<<"send", "F4", p>>)
  /\ \/ ReceiveData(<<"id2", p>>)
     \/ WaitForReadFails(<<"id2", p>>) /\ UNCHANGED <<out, disturbed>>
  /\ UNCHANGED <<hardware, cfg, want, good, id, drivers, reply, scanning, user, driver>>

(* InitDriver; the keyboard driver's constructor reads the data port once. *)
InitDriver(p) ==
  /\ at = <<"driver", p>> /\ Goto(AfterPort(p))
  /\ drivers' = drivers \cup (CASE id = "AB" -> {"keyboard"}
                                [] id = "00" -> {"mouse"}
                                [] OTHER -> {})
  /\ IF id = "AB" /\ out # NONE
     THEN out' = NONE /\ disturbed' = (disturbed \/ IsInput(out))
     ELSE UNCHANGED <<out, disturbed>>
  /\ UNCHANGED <<hardware, cfg, want, good, id, reply, scanning, user, driver>>

ClearBetween ==
  /\ at = <<"clear">> /\ Goto(<<"port", 2>>)
  /\ ClearOutputBuffer
  /\ UNCHANGED <<hardware, cfg, want, good, id, drivers, scanning, user, driver>>

(* Lines 158-160. *)
EnableIRQs ==
  /\ at = <<"enable">> /\ Goto(<<"done">>)
  /\ cfg' = [on |-> Port, irq |-> want]
  /\ UNCHANGED <<hardware, want, good, id, drivers, reply, out, scanning, user, driver, disturbed>>

(* Every other read throws when nothing comes; the constructor reports the failure. *)
GiveUp ==
  /\ at[1] \in {"selftest", "tested", "ack", "id"}
  /\ WaitForReadFails(at) /\ Goto(<<"failed">>)
  /\ UNCHANGED <<hardware, cfg, want, good, id, drivers, reply, out, scanning, user, driver,
                 disturbed>>

(***************************************************************************)
(* The hardware: one byte at a time reaches the output buffer.             *)
(***************************************************************************)
Deliver(s) ==
  /\ out = NONE /\ s \in Deliverable
  /\ out' = Head(reply[s])
  /\ reply' = [reply EXCEPT ![s] = Tail(@)]
  /\ UNCHANGED <<at, hardware, cfg, want, good, id, drivers, scanning, user, driver, disturbed>>

(***************************************************************************)
(* The user. A key sends its scan code, with bit 7 set when it is let go.  *)
(* Holding both shift keys is left out: letting one go clears the flag.    *)
(***************************************************************************)
Shifted(k, shift, lock) == IF k = Letter THEN shift # lock ELSE shift
Press(p, k) ==
  /\ device[p] = "keyboard" /\ p \in scanning /\ keys < MaxKeys
  /\ k \in ShiftKey => held \cap ShiftKey \subseteq {k}
  /\ keys' = keys + 1
  /\ held' = (IF k \in held THEN held \ {k} ELSE held \cup {k})
  /\ caps' = (IF k = CapsLock /\ k \notin held THEN ~caps ELSE caps)
  /\ expected' = (IF k \in held \/ k \in ShiftKey \cup {CapsLock} THEN expected
                  ELSE Append(expected, <<k, Shifted(k, held \cap ShiftKey # {}, caps)>>))
  /\ Say(p, <<[from |-> p, kind |-> "key", val |-> k, up |-> k \in held]>>)
  /\ UNCHANGED <<at, hardware, cfg, want, good, id, drivers, out, scanning, moves, driver, disturbed>>

Move(p) ==
  /\ device[p] = "mouse" /\ p \in scanning /\ moves < MaxMoves
  /\ moves' = moves + 1
  /\ Say(p, [i \in 1 .. 3 |-> [from |-> p, kind |-> "move", val |-> moves', byte |-> i]])
  /\ UNCHANGED <<at, hardware, cfg, want, good, id, drivers, out, scanning, held, caps, keys, expected,
                 driver, disturbed>>

(***************************************************************************)
(* PS2KeyboardDriver::Decode and Process.                                  *)
(***************************************************************************)
FaultyDecodedFlags(b, f) == [shift |-> IF b.val \in ShiftKey THEN TRUE ELSE f.shift,
                             caps  |-> IF b.val = CapsLock THEN ~f.caps ELSE f.caps]
DecodedFlags(b, f) == [shift |-> IF b.val \in ShiftKey THEN ~b.up ELSE f.shift,
                       caps  |-> IF b.val = CapsLock /\ ~b.up THEN ~f.caps ELSE f.caps]
Decode(b, f) == IF b.up \/ b.val \in ShiftKey \cup {CapsLock} THEN NONE
                ELSE <<b.val, Shifted(b.val, f.shift, f.caps)>>
(* A character that is no session key goes to the queue, which drops it when it is full. *)
PutToQueueBuffer(c) ==
  IF c = NONE THEN UNCHANGED <<queue, typed>>
  ELSE /\ typed' = Append(typed, c)
       /\ queue' = (IF c[1] # Function /\ Len(queue) < QueueSize THEN Append(queue, c) ELSE queue)

(* An interrupt may come while the byte in the buffer is the other device's: bit 5 of the
   status says whose it is, and the handler leaves the other's alone. *)
ForKeyboard(b) == b.from # 2
KeyboardInterrupt ==
  /\ "keyboard" \in drivers /\ cfg.irq # {} /\ out # NONE
  /\ ForKeyboard(out)
  /\ out' = NONE
  /\ IF out.kind = "key"
     THEN flags' = DecodedFlags(out, flags) /\ PutToQueueBuffer(Decode(out, flags))
     ELSE UNCHANGED <<flags, queue, typed>>
  /\ UNCHANGED <<at, hardware, cfg, want, good, id, drivers, reply, scanning, user, packet, pointer,
                 disturbed>>

(* PS2MouseDriver::Process: every third byte completes a packet; a first byte without bit 3
   makes it skip the packet, not the byte. *)
Complete(p) == \A i \in 1 .. 3 : p[i].kind = "move" /\ p[i].byte = i /\ p[i].val = p[1].val
FaultyForMouse(b) == TRUE
ForMouse(b) == b.from = 2
MouseInterrupt ==
  /\ "mouse" \in drivers /\ cfg.irq # {} /\ out # NONE
  /\ ForMouse(out)
  /\ out' = NONE
  /\ LET got == Append(packet, out) IN
     /\ packet' = (IF Len(got) = 3 THEN <<>> ELSE got)
     /\ pointer' = (IF Len(got) # 3 THEN pointer
                    ELSE Append(pointer, IF Complete(got) THEN got[1].val ELSE 0))
  /\ UNCHANGED <<at, hardware, cfg, want, good, id, drivers, reply, scanning, user, flags, queue, typed,
                 disturbed>>

(* KeyboardHandler::GetFromQueueBuffer, called by the console and by programs. *)
GetFromQueueBuffer ==
  /\ queue # <<>>
  /\ queue' = Tail(queue)
  /\ UNCHANGED <<at, hardware, cfg, want, good, id, drivers, reply, out, scanning, user, flags, packet,
                 typed, pointer, disturbed>>

Initialize ==
  \/ Quieten \/ Configure \/ SelfTested \/ ClearBetween \/ EnableIRQs \/ GiveUp
  \/ \E p \in Port : \/ TestPort(p) \/ PortTested(p) \/ EnablePort(p) \/ Identify(p)
                     \/ Identify2(p) \/ InitDriver(p)
                     \/ \E c \in {"F5", "F2", "F4"} : SendCommand(c, p) \/ WaitForAck(c, p)
Next == \/ Initialize
        \/ \E s \in 0 .. 2 : Deliver(s)
        \/ \E p \in Port : Move(p) \/ \E k \in Key : Press(p, k)
        \/ KeyboardInterrupt \/ MouseInterrupt \/ GetFromQueueBuffer

Spec == Init /\ [][Next]_vars

-------------------------------------------------------------------------------
(* Types (PS2Controller.h, PS2KeyboardDriver.h, PS2MouseDriver.h). *)
TypeOK ==
  /\ cfg.on \subseteq Port /\ cfg.irq \subseteq Port /\ want \subseteq Port /\ good \subseteq Port
  /\ drivers \subseteq {"keyboard", "mouse"} /\ scanning \subseteq Port /\ held \subseteq Key
  /\ Len(queue) <= QueueSize /\ Len(packet) <= 2 /\ {caps, disturbed} \subseteq BOOLEAN

(* As long as no input got into the dialogue, Initialize fails only for a fault of the
   hardware, and once it is done every port that passed its test interrupts and has the
   driver of the device it holds (PS2Controller.cpp:99-171). *)
Failing(p) == p \notin broken /\ device[p] = NONE
SetUp ==
  ~disturbed =>
    /\ at = <<"failed">> => \/ 0 \in broken \/ Port \subseteq broken
                            \/ \E p \in Port : Failing(p)
    /\ at = <<"done">> => /\ cfg.irq = Port \ broken
                          /\ drivers = {device[p] : p \in Port \ broken}

(* Without disturbance, the characters decoded are those the user typed, in that order, up to
   those still on their way; the handlers expect the keyboard on port 1 (PS2KeyboardDriver.cpp:114-176). *)
OnTheirWay == {p \in Port : device[p] = "keyboard" /\ (reply[p] # <<>> \/ (out # NONE /\ out.from = p))}
KeysAsTyped ==
  ~disturbed /\ device[1] = "keyboard" =>
                /\ typed = SubSeq(expected, 1, Len(typed))
                /\ OnTheirWay = {} => typed = expected

(* Without disturbance, every packet the mouse driver completes is one the mouse sent, and
   they come in order: the two handlers never take each other's bytes
   (PS2MouseDriver.cpp:72-117, PS2KeyboardDriver.cpp:33-35). *)
PacketsWhole == ~disturbed /\ device[1] = "keyboard" => pointer = [i \in 1 .. Len(pointer) |-> i]

(* The queue holds the latest characters in order; nothing is lost from it unless it is full
   (KeyboardHandler.cpp:44-56). *)
QueueInOrder ==
  Len(typed) <= QueueSize =>
    LET chars == SelectSeq(typed, LAMBDA c : c[1] # Function)
    IN queue = SubSeq(chars, Len(chars) - Len(queue) + 1, Len(chars))
=============================================================================
