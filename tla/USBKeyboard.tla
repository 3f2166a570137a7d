----------------------------- MODULE USBKeyboard -----------------------------
(***************************************************************************)
(* The USB keyboard driver (USBKeyboard.cpp). Every 50 ms a timer asks the *)
(* controller for one more report, into the next slot of a page; the       *)
(* controller fills the slots as the keyboard reports what is held, and    *)
(* its interrupt thread hands the filled slots to Handle, which finds the  *)
(* keys that are new, decodes them and puts the characters in the          *)
(* keyboard's queue, or switches the session. The address handed out for   *)
(* slot i is &_reports[i], the address of a pointer: slots are SlotLen     *)
(* bytes apart and a report has ReportLen bytes, so that neighbouring      *)
(* reports overlap.                                                        *)
(***************************************************************************)
EXTENDS Integers, Sequences, FiniteSets, SequencesExt

CONSTANTS Slots,       \* GetInterruptQueueSize
          SlotLen,     \* bytes between two slots (4)
          ReportLen,   \* bytes of a report (8)
          PageSize,
          Letter,      \* raw codes of keys that map to letters
          Digit,       \* raw codes of keys whose shifted form ignores caps lock
          SessionKey,  \* raw codes of F1..F8
          CapsLock,    \* raw code of caps lock
          MaxHeld,     \* keys held at once (bound)
          MaxMoves,    \* changes of what is held (bound)
          NONE

VARIABLES interface,   \* what the interfaces of the device are
          bound,       \* the interface the driver works with, or NONE, or "refused"
          down, mods,  \* what the keyboard sees: the keys held, in order; shift and ctrl
          changed,     \* the keyboard has something to report
          memory,      \* the bytes of the page
          next,        \* _currentReportIndex
          asked,       \* slots the controller is to fill
          filled,      \* slots it has filled, waiting for Handle
          reported,    \* what it reported, for those slots
          torn,        \* some slot was written between its report and its handling
          pressed,     \* _pressedKeys
          flags,       \* _isShiftKey, _isCtrlKey, _isCapsLock
          typed,       \* what was put in the keyboard queue
          expected,    \* what the reports handled mean
          session,     \* SessionManager_List and which session is in front
          moves

vars == <<interface, bound, down, mods, changed, memory, next, asked, filled, reported, torn,
          pressed, flags, typed, expected, session, moves>>

Key == Letter \cup Digit \cup SessionKey \cup {CapsLock}
Cells == 0 .. Slots * SlotLen + ReportLen
KeyCells == 2 .. ReportLen - 1

-------------------------------------------------------------------------------
(* Binding: USBController::FindDriver asks AddDevice, which looks for the first interface of
   a keyboard and insists that it is a boot interface. *)
FaultyIsKeyboard(i) == i.class = "hid"
IsKeyboard(i) == i.class = "hid" /\ i.protocol = "keyboard"
MatchingInterfaceIndex(is) ==
  LET found == {n \in DOMAIN is : IsKeyboard(is[n])}
  IN IF found = {} THEN 0 ELSE CHOOSE n \in found : \A m \in found : n <= m

Interface == [class : {"hid", "disk"}, protocol : {"keyboard", "mouse"}, boot : BOOLEAN]
NoFlags == [shift |-> FALSE, ctrl |-> FALSE, caps |-> FALSE]

Init ==
  /\ interface \in {<<i>> : i \in Interface} \cup
                   {<<i, [class |-> "hid", protocol |-> "keyboard", boot |-> b]>> :
                      i \in Interface, b \in BOOLEAN}
  /\ bound = NONE
  /\ down = <<>> /\ mods = {} /\ changed = FALSE
  /\ memory = [c \in Cells |-> 0]
  /\ next = 0 /\ asked = <<>> /\ filled = <<>> /\ reported = <<>> /\ torn = FALSE
  /\ pressed = {} /\ flags = NoFlags /\ typed = <<>> /\ expected = [keys |-> {}, caps |-> FALSE, chars |-> <<>>]
  /\ session = [list |-> [k \in SessionKey |-> NONE], front |-> NONE] /\ moves = 0

(* A device that throws is not taken. The constructor checks that the reports fit the page
   and starts the timer. *)
FindDriver ==
  /\ bound = NONE
  /\ LET n == MatchingInterfaceIndex(interface) IN
     bound' = (IF n # 0 /\ interface[n].boot /\ Slots * ReportLen <= PageSize THEN n ELSE 0)
  /\ UNCHANGED <<interface, down, mods, changed, memory, next, asked, filled, reported, torn, pressed,
                 flags, typed, expected, session, moves>>
Running == bound \notin {NONE, 0}

(* TimerTrigger: the controller takes the request unless Slots of them are outstanding;
   only then does the index advance. *)
FaultyTimerTrigger ==
  /\ Running
  /\ asked' = (IF Len(asked) + Len(filled) < Slots THEN Append(asked, next) ELSE asked)
  /\ next' = (next + 1) % Slots
  /\ UNCHANGED <<interface, bound, down, mods, changed, memory, filled, reported, torn, pressed, flags,
                 typed, expected, session, moves>>
TimerTrigger ==
  /\ Running
  /\ Len(asked) + Len(filled) < Slots
  /\ asked' = Append(asked, next)
  /\ next' = (next + 1) % Slots
  /\ UNCHANGED <<interface, bound, down, mods, changed, memory, filled, reported, torn, pressed, flags,
                 typed, expected, session, moves>>

(* The controller fills the oldest slot when the keyboard has something new. *)
Report(ks, ms) == [c \in 0 .. ReportLen - 1 |->
                     CASE c = 0 -> IF "ctrl" \in ms /\ "shift" \in ms THEN 3
                                   ELSE IF "ctrl" \in ms THEN 1 ELSE IF "shift" \in ms THEN 2 ELSE 0
                       [] c \in KeyCells /\ c - 1 <= Len(ks) -> ks[c - 1]
                       [] OTHER -> 0]
CellsOf(slot) == slot * SlotLen .. slot * SlotLen + ReportLen - 1
FillSlot ==
  /\ Running /\ asked # <<>> /\ changed
  /\ LET slot == Head(asked) IN
     LET now == [c \in Cells |-> IF c \in CellsOf(slot) THEN Report(down, mods)[c - slot * SlotLen]
                                 ELSE memory[c]]
     IN /\ memory' = now
        /\ filled' = Append(filled, slot)
        /\ torn' = (torn \/ \E s \in ToSet(filled) : \E c \in CellsOf(s) : now[c] # memory[c])
  /\ asked' = Tail(asked)
  /\ reported' = Append(reported, <<down, mods>>)
  /\ changed' = FALSE
  /\ UNCHANGED <<interface, bound, down, mods, next, pressed, flags, typed, expected, session, moves>>

(* The keyboard: keys go down and up, the modifiers change. *)
KeyMoves ==
  /\ Running /\ moves < MaxMoves
  /\ \/ \E k \in Key \ ToSet(down) : Len(down) < MaxHeld /\ down' = Append(down, k) /\ mods' = mods
     \/ \E k \in ToSet(down) : down' = SelectSeq(down, LAMBDA x : x # k) /\ mods' = mods
     \/ mods' \in SUBSET {"shift", "ctrl"} \ {mods} /\ down' = down
  /\ changed' = TRUE /\ moves' = moves + 1
  /\ UNCHANGED <<interface, bound, memory, next, asked, filled, reported, torn, pressed, flags, typed,
                 expected, session>>

-------------------------------------------------------------------------------
(* Handle. A report's keys end at the first zero byte. *)
KeysIn(slot, mem) ==
  LET at(i) == mem[slot * SlotLen + 1 + i]
      n == CHOOSE m \in 0 .. ReportLen - 2 :
             (\A i \in 1 .. m : at(i) # 0) /\ (m < ReportLen - 2 => at(m + 1) = 0)
  IN [i \in 1 .. n |-> at(i)]
FaultyProcessSpecialKeys(b, f) == [f EXCEPT !.shift = @ \/ b \in {2, 3}, !.ctrl = b \in {1, 3}]
ProcessSpecialKeys(b, f) == [f EXCEPT !.shift = b \in {2, 3}, !.ctrl = b \in {1, 3}]
(* Decode: caps lock turns letters round, and is no character. A control character is the
   character moved up by CTRL_VALUE. *)
Decode(k, f) == <<k, IF k \in Letter THEN f.shift # f.caps ELSE f.shift, f.ctrl>>
(* Process, for the keys of one report: the state is what the decoder and the queue have. *)
Process(s, k) ==
  IF k = CapsLock THEN [s EXCEPT !.flags.caps = ~@]
  ELSE IF k \in SessionKey /\ ~s.flags.ctrl THEN [s EXCEPT !.switch = k]
  ELSE [s EXCEPT !.typed = Append(@, Decode(k, s.flags))]
FaultyStillPressed(old, keys) == old
StillPressed(old, keys) == old \cap ToSet(keys)
Fresh(old, keys) == SelectSeq(keys, LAMBDA k : k \notin old)
(* SessionManager_SwitchToSession: the first switch creates the session. *)
SwitchToSession(ss, k) == IF k = NONE THEN ss
                          ELSE [list |-> [ss.list EXCEPT ![k] = "login"],
                                front |-> IF ss.list[k] = NONE THEN ss.front ELSE k]
(* What a report means: the keys it adds, in its order, under its modifiers. *)
Means(e, r) ==
  LET f == [shift |-> "shift" \in r[2], ctrl |-> "ctrl" \in r[2], caps |-> e.caps]
      fin == FoldLeft(Process, [flags |-> f, typed |-> e.chars, switch |-> NONE], Fresh(e.keys, r[1]))
  IN [keys |-> ToSet(r[1]), caps |-> fin.flags.caps, chars |-> fin.typed]

Handle ==
  /\ filled # <<>>
  /\ LET slot == Head(filled)
         keys == KeysIn(slot, memory)
         f    == ProcessSpecialKeys(memory[slot * SlotLen], flags)
         kept == StillPressed(pressed, keys)
         done == FoldLeft(Process, [flags |-> f, typed |-> typed, switch |-> NONE],
                          SelectSeq(Fresh(kept, keys), LAMBDA k : k \in Key))
     IN /\ pressed' = kept \cup ToSet(keys)
        /\ flags' = done.flags
        /\ typed' = done.typed
        /\ session' = SwitchToSession(session, done.switch)
  /\ filled' = Tail(filled) /\ reported' = Tail(reported)
  /\ expected' = Means(expected, Head(reported))
  /\ UNCHANGED <<interface, bound, down, mods, changed, memory, next, asked, torn, moves>>

Next == FindDriver \/ TimerTrigger \/ FillSlot \/ KeyMoves \/ Handle
Spec == Init /\ [][Next]_vars

-------------------------------------------------------------------------------
(* Types (USBKeyboard.h). *)
TypeOK ==
  /\ bound \in {NONE} \cup 0 .. Len(interface) /\ ToSet(down) \subseteq Key /\ mods \subseteq {"shift", "ctrl"}
  /\ next \in 0 .. Slots - 1 /\ ToSet(asked \o filled) \subseteq 0 .. Slots - 1
  /\ Len(reported) = Len(filled) /\ flags \in [{"shift", "ctrl", "caps"} -> BOOLEAN]

(* The driver is bound to a boot keyboard interface, and a keyboard is refused only if its
   first keyboard interface is not one (USBKeyboard.cpp:190-217). *)
BoundToKeyboard ==
  /\ Running => interface[bound] = [class |-> "hid", protocol |-> "keyboard", boot |-> TRUE]
  /\ bound = 0 => \/ \A n \in DOMAIN interface : ~IsKeyboard(interface[n])
                  \/ \E n \in DOMAIN interface :
                       IsKeyboard(interface[n]) /\ ~interface[n].boot

(* A slot is asked for once: no two outstanding requests share a slot, and they are in the
   order of the ring (USBKeyboard.cpp:312-316). *)
SlotsInRing ==
  \A i \in 1 .. Len(filled \o asked) :
    (filled \o asked)[i] = (next + Slots - Len(filled \o asked) + i - 1) % Slots

(* As long as no report was overwritten by its neighbour before it was handled, the driver's
   keys, modifiers and characters are those the keyboard reported: each key once per press
   (USBKeyboard.cpp:232-273 and 318-348). *)
ReportsRead ==
  ~torn => /\ typed = expected.chars
           /\ pressed = expected.keys
           /\ flags.caps = expected.caps

=============================================================================
