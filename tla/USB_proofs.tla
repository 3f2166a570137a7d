------------------------------ MODULE USB_proofs ------------------------------
(***************************************************************************)
(* Proofs about the USB host controllers.  UHCI, for any drivers, frames,  *)
(* packets and transfers: who holds the lock and the frames, what hangs on *)
(* them, and the toggles.  XHCI: the event ring, the interrupts and the    *)
(* bringing up.                                                            *)
(***************************************************************************)
EXTENDS UHCI, ListLemmas, FiniteSetTheorems

-----------------------------------------------------------------------------
(***************************************************************************)
(* The inductive invariant.  Held are the places of a process that has a   *)
(* frame; from InUse on its entry is set.                                  *)
(***************************************************************************)
InUse == {"poll", "read", "clean", "free"}
Held == InUse \cup {"found", "build"}
AtLock == {"idle", "wait", "inside"}
Part == {"qh", "td1", "td2", "td3", "request", "buffer"}
Toggles == [host : 0 .. 1, device : 0 .. 1, failed : BOOLEAN]

Types ==
  /\ busy \in BOOLEAN /\ woken \in BOOLEAN
  /\ at \in [Process -> Held \cup AtLock]
  /\ at[Cleaner] \in AtLock \cup {"free"} /\ \A p \in Driver : at[p] # "free"
  /\ frame \in [Process -> 0 .. NFrames] /\ \A p \in Process : frame[p] # 0 <=> at[p] \in Held
  /\ op \in [Process -> Transfer] /\ script \in Seq(Transfer)
  /\ entry \in [Frame -> {"free", "taken", "set"}]
  /\ live \in [Frame -> SUBSET Part] /\ local = live
  /\ queue \in Seq(Frame) /\ dropped \subseteq Frame
  /\ toggle \in Toggles

\* As long as no waiter came in, who is inside is alone and has the lock.
LockRight ==
  /\ busy => Inside # {}
  /\ ~woken => \A p, q \in Inside : p = q /\ busy

\* A frame that is not free has one holder: a process, a place in the queue,
\* or the dropped ones; its entry says how far the holder is.
FramesRight ==
  /\ \A p, q \in Process : frame[p] = frame[q] /\ frame[p] # 0 => p = q
  /\ \A p \in Process : /\ at[p] = "found" => entry[frame[p]] = "free"
                        /\ at[p] = "build" => entry[frame[p]] = "taken"
                        /\ at[p] \in InUse => entry[frame[p]] = "set"
  /\ \A i, j \in DOMAIN queue : queue[i] = queue[j] => i = j
  /\ \A f \in Range(queue) : entry[f] = "set" /\ f \notin dropped /\ \A p \in Process : frame[p] # f
  /\ \A f \in dropped : entry[f] = "set" /\ \A p \in Process : frame[p] # f
  /\ \A f \in Frame : entry[f] # "free" =>
       f \in Range(queue) \/ f \in dropped \/ \E p \in Process : frame[p] = f
  /\ \A f \in Frame : entry[f] # "set" => live[f] = {}
  /\ \A p \in Driver : at[p] \in {"poll", "read"} => op[p].made \subseteq live[frame[p]]

\* Bulk transfers under way of an odd number of packets: the driver has counted
\* them, the device not yet.
Odd == {p \in Process : at[p] = "poll" /\ IsBulk(op[p]) /\ Packets(op[p].size) % 2 = 1}
TogglesRight == ~toggle.failed => toggle.host = (toggle.device + Cardinality(Odd)) % 2

IInv == Types /\ LockRight /\ (~woken => FramesRight) /\ TogglesRight

-----------------------------------------------------------------------------
(* Transfers, processes and queues.                                        *)

\* What hangs on a frame for a transfer is what the cleaner will free.
LEMMA TransferFacts ==
  ASSUME UHCIAssumption, NEW o \in Transfer
  PROVE  o.size \in Nat /\ o.made \subseteq Part /\ Listed(o) = o.made
<1>1. \A n \in Length : n \in Nat
  BY DEF UHCIAssumption
<1>2. CASE \E name, data : data \in BOOLEAN /\ name \notin {"BulkRead", "BulkWrite"} /\ o = Control(name, data)
  <2>1. PICK name, data : data \in BOOLEAN /\ name \notin {"BulkRead", "BulkWrite"} /\ o = Control(name, data)
    BY <1>2
  <2>2. o.size = 0 /\ o.name = name
        /\ o.made = {"qh", "td1", "td2", "request"} \cup (IF data THEN {"td3", "buffer"} ELSE {})
    BY <2>1 DEF Control
  <2>3. o.made \subseteq Part
    BY <2>2 DEF Part
  <2> QED
    BY <2>1, <2>2, <2>3 DEF Listed, IsBulk
<1>3. CASE \E n \in Length : o = BulkRead(n) \/ o = BulkWrite(n)
  BY <1>1, <1>3 DEF BulkRead, BulkWrite, Listed, IsBulk, Part
<1>4. \/ \E n \in Length : o = BulkRead(n) \/ o = BulkWrite(n)
      \/ o \in {GetMaxLun, CommandReset, ClearHaltEndPoint, GetDescriptor, SetAddress, GetConfiguration,
                SetConfiguration}
  BY DEF Transfer
<1>5. o \in {GetMaxLun, CommandReset, ClearHaltEndPoint, GetDescriptor, SetAddress, GetConfiguration,
             SetConfiguration}
        => \E name, data : data \in BOOLEAN /\ name \notin {"BulkRead", "BulkWrite"} /\ o = Control(name, data)
  BY DEF GetMaxLun, CommandReset, ClearHaltEndPoint, GetDescriptor, SetAddress, GetConfiguration,
         SetConfiguration
<1> QED
  BY <1>2, <1>3, <1>4, <1>5

LEMMA PacketsType ==
  ASSUME UHCIAssumption, NEW n \in Nat
  PROVE  Packets(n) \in Nat
<1>1. MaxPacket \in Nat /\ MaxPacket > 0
  BY DEF UHCIAssumption
<1>2. n \div MaxPacket \in Nat
  BY <1>1
<1> QED
  BY <1>2 DEF Packets

LEMMA ScriptType ==
  ASSUME NEW configured \in BOOLEAN, NEW supported \in BOOLEAN
  PROVE  Enumeration(configured, supported) \in Seq(Transfer)
<1>1. /\ GetDescriptor \in Transfer /\ SetAddress \in Transfer /\ GetConfiguration \in Transfer
      /\ SetConfiguration \in Transfer
  BY DEF Transfer
<1>2. /\ <<SetAddress>> \in Seq(Transfer) /\ <<GetConfiguration>> \in Seq(Transfer)
      /\ GetDeviceDescriptor \in Seq(Transfer) /\ GetConfigDescriptor \in Seq(Transfer)
      /\ GetStringDescriptorZero \in Seq(Transfer)
  BY <1>1 DEF GetDeviceDescriptor, GetConfigDescriptor, GetStringDescriptorZero
<1>3. CheckConfiguration(configured) \in Seq(Transfer)
  BY <1>1 DEF CheckConfiguration
<1>4. GetDeviceStringDesc(supported) \in Seq(Transfer)
  BY <1>1 DEF GetDeviceStringDesc
<1> QED
  BY <1>2, <1>3, <1>4 DEF Enumeration

LEMMA ProcessFacts ==
  ASSUME UHCIAssumption
  PROVE  /\ Driver \subseteq Process /\ Cleaner \in Process /\ Cleaner \notin Driver
         /\ \A p \in Process : p \in Driver \/ p = Cleaner
         /\ IsFiniteSet(Process)
         /\ \A S \in SUBSET Process : IsFiniteSet(S) /\ Cardinality(S) \in Nat
<1>1. IsFiniteSet(Process)
  BY FS_AddElement DEF UHCIAssumption, Process
<1> QED
  BY <1>1, FS_Subset, FS_CardinalityType DEF UHCIAssumption, Process

LEMMA FrameFacts ==
  ASSUME UHCIAssumption
  PROVE  /\ NFrames \in Nat /\ 0 \notin Frame /\ Frame \subseteq Nat
         /\ \A f \in 0 .. NFrames : f # 0 => f \in Frame
BY DEF UHCIAssumption, Frame

\* Who is where decides about the lock.
LEMMA InsideIs ==
  ASSUME Types, NEW p \in Process
  PROVE  p \in Inside <=> at[p] \in {"inside", "found"}
BY DEF Inside

\* Where a process stands, from its types.
LEMMA PlaceFacts ==
  ASSUME UHCIAssumption, Types, NEW p \in Process
  PROVE  /\ at[p] \in Held \cup AtLock /\ frame[p] \in 0 .. NFrames /\ op[p] \in Transfer
         /\ at[p] \in Held => frame[p] \in Frame
         /\ at[p] \notin Held => frame[p] = 0
         /\ p = Cleaner => at[p] \in AtLock \cup {"free"}
         /\ at[p] = "free" => p = Cleaner
BY ProcessFacts, FrameFacts DEF Types

\* The two ends of a queue without repetitions.
LEMMA QueueEnds ==
  ASSUME NEW S, NEW q \in Seq(S), \A i, j \in DOMAIN q : q[i] = q[j] => i = j
  PROVE  /\ \A f \in S \ Range(q) :
              /\ Append(q, f) \in Seq(S) /\ Range(Append(q, f)) = Range(q) \cup {f}
              /\ \A i, j \in DOMAIN Append(q, f) : Append(q, f)[i] = Append(q, f)[j] => i = j
         /\ q # <<>> =>
              /\ Tail(q) \in Seq(S) /\ Head(q) \in Range(q) /\ Range(Tail(q)) = Range(q) \ {Head(q)}
              /\ \A i, j \in DOMAIN Tail(q) : Tail(q)[i] = Tail(q)[j] => i = j
         /\ Range(q) \subseteq S
<1>1. /\ Len(q) \in Nat /\ DOMAIN q = 1 .. Len(q) /\ \A i \in 1 .. Len(q) : q[i] \in S
      /\ Range(q) = {q[i] : i \in 1 .. Len(q)}
  BY DEF Range
<1>2. ASSUME NEW f \in S, f \notin Range(q)
      PROVE  /\ Append(q, f) \in Seq(S) /\ Range(Append(q, f)) = Range(q) \cup {f}
             /\ \A i, j \in DOMAIN Append(q, f) : Append(q, f)[i] = Append(q, f)[j] => i = j
  <2> DEFINE z == Append(q, f)
  <2>1. z \in Seq(S) /\ Len(z) = Len(q) + 1 /\ DOMAIN z = 1 .. Len(q) + 1
    BY <1>1
  <2>2. (\A i \in 1 .. Len(q) : z[i] = q[i]) /\ z[Len(q) + 1] = f
    BY <1>1
  <2>3. \A i \in 1 .. Len(q) + 1 : i \in 1 .. Len(q) \/ i = Len(q) + 1
    BY <1>1
  <2>4. Len(q) + 1 \in 1 .. Len(q) + 1 /\ \A i \in 1 .. Len(q) : i \in 1 .. Len(q) + 1
    BY <1>1
  <2> HIDE DEF z
  <2>5. Range(z) = {z[i] : i \in 1 .. Len(q) + 1}
    BY <2>1 DEF Range
  <2>6. Range(z) = Range(q) \cup {f}
    BY <1>1, <2>2, <2>3, <2>4, <2>5
  <2>7. ASSUME NEW i \in 1 .. Len(q) + 1, NEW j \in 1 .. Len(q) + 1, z[i] = z[j]
        PROVE  i = j
    BY <1>1, <1>2, <2>2, <2>3, <2>7
  <2> QED
    BY <2>1, <2>6, <2>7 DEF z
<1>3. ASSUME q # <<>>
      PROVE  /\ Tail(q) \in Seq(S) /\ Head(q) \in Range(q) /\ Range(Tail(q)) = Range(q) \ {Head(q)}
             /\ \A i, j \in DOMAIN Tail(q) : Tail(q)[i] = Tail(q)[j] => i = j
  <2> DEFINE z == Tail(q)
  <2>1. Len(q) > 0 /\ 1 \in 1 .. Len(q) /\ Head(q) = q[1]
    BY <1>1, <1>3
  <2>2. /\ z \in Seq(S) /\ Len(z) = Len(q) - 1 /\ DOMAIN z = 1 .. Len(q) - 1
        /\ \A i \in 1 .. Len(q) - 1 : z[i] = q[i + 1]
    BY <1>1, <1>3, <2>1
  <2> HIDE DEF z
  <2>3. \A i \in 1 .. Len(q) - 1 : i + 1 \in 1 .. Len(q) /\ i + 1 # 1
    BY <1>1
  <2>4. \A i \in 1 .. Len(q) : i # 1 => i - 1 \in 1 .. Len(q) - 1 /\ i - 1 + 1 = i
    BY <1>1
  <2>5. Range(z) = {z[i] : i \in 1 .. Len(q) - 1}
    BY <2>2 DEF Range
  <2>6. Range(z) \subseteq Range(q) \ {q[1]}
    <3> SUFFICES ASSUME NEW i \in 1 .. Len(q) - 1
                 PROVE  z[i] \in Range(q) \ {q[1]}
      BY <2>5
    <3>1. z[i] = q[i + 1] /\ q[i + 1] # q[1]
      BY <1>1, <2>1, <2>2, <2>3
    <3> QED
      BY <1>1, <2>3, <3>1
  <2>7. Range(q) \ {q[1]} \subseteq Range(z)
    <3> SUFFICES ASSUME NEW i \in 1 .. Len(q), q[i] # q[1]
                 PROVE  q[i] \in Range(z)
      BY <1>1
    <3>1. i # 1
      OBVIOUS
    <3>2. z[i - 1] = q[i - 1 + 1]
      BY <2>2, <2>4, <3>1
    <3> QED
      BY <2>4, <2>5, <3>1, <3>2
  <2>8. ASSUME NEW i \in 1 .. Len(q) - 1, NEW j \in 1 .. Len(q) - 1, z[i] = z[j]
        PROVE  i = j
    <3>1. i + 1 = j + 1
      BY <1>1, <2>2, <2>3, <2>8
    <3> QED
      BY <3>1
  <2>9. Head(q) \in Range(q)
    BY <1>1, <2>1
  <2> QED
    BY <2>1, <2>2, <2>6, <2>7, <2>8, <2>9 DEF z
<1> QED
  BY <1>1, <1>2, <1>3

-----------------------------------------------------------------------------
(* Steps: types, lock and toggles.                                         *)

\* A step that moves one process.
LEMMA TypesMove ==
  ASSUME UHCIAssumption, Types, NEW p \in Process, NEW x \in Held \cup AtLock, NEW f \in 0 .. NFrames,
         at' = [at EXCEPT ![p] = x], frame' = [frame EXCEPT ![p] = f],
         f # 0 <=> x \in Held, x = "free" => p = Cleaner, p = Cleaner => x \in AtLock \cup {"free"},
         busy' \in BOOLEAN, woken' \in BOOLEAN, op' \in [Process -> Transfer], script' \in Seq(Transfer),
         entry' \in [Frame -> {"free", "taken", "set"}], live' \in [Frame -> SUBSET Part], local' = live',
         queue' \in Seq(Frame), dropped' \subseteq Frame, toggle' \in Toggles
  PROVE  Types'
<1>1. at' \in [Process -> Held \cup AtLock] /\ frame' \in [Process -> 0 .. NFrames]
  BY DEF Types
<1>2. \A q \in Process : at'[q] = (IF q = p THEN x ELSE at[q]) /\ frame'[q] = (IF q = p THEN f ELSE frame[q])
  BY DEF Types
<1>3. at'[Cleaner] \in AtLock \cup {"free"} /\ \A q \in Driver : at'[q] # "free"
  BY <1>2, ProcessFacts DEF Types
<1>4. \A q \in Process : frame'[q] # 0 <=> at'[q] \in Held
  BY <1>2 DEF Types
<1> QED
  BY <1>1, <1>3, <1>4 DEF Types, Held, InUse, AtLock, Part, Toggles

LEMMA SameFrame ==
  ASSUME Types, NEW p \in Process
  PROVE  frame = [frame EXCEPT ![p] = frame[p]]
BY DEF Types

\* Coming to the lock, staying where one is towards it, leaving it.
LEMMA LockEnter ==
  ASSUME Types, LockRight, NEW p \in Process, at[p] \notin {"inside", "found"}, Lock(p), UNCHANGED woken
  PROVE  LockRight'
<1>1. CASE busy
  <2>1. busy' = busy /\ Inside' = Inside
    BY <1>1 DEF Lock, Inside, Types
  <2> QED
    BY <2>1 DEF LockRight
<1>2. CASE ~busy
  <2>1. busy' = TRUE /\ Inside' = Inside \cup {p}
    BY <1>2 DEF Lock, Inside, Types
  <2>2. ~woken => Inside = {}
    BY <1>2 DEF LockRight
  <2> QED
    BY <2>1, <2>2 DEF LockRight
<1> QED
  BY <1>1, <1>2

LEMMA LockStay ==
  ASSUME Types, LockRight, UNCHANGED <<busy, woken>>, Inside' = Inside
  PROVE  LockRight'
BY DEF LockRight

LEMMA LockLeave ==
  ASSUME Types, LockRight, NEW p \in Process, at[p] \in {"inside", "found"}, NEW x,
         x \notin {"inside", "found"}, at' = [at EXCEPT ![p] = x], busy' = FALSE, UNCHANGED woken
  PROVE  LockRight'
<1>1. p \in Inside /\ Inside' = Inside \ {p}
  BY DEF Inside, Types
<1>2. ~woken => Inside' = {}
  BY <1>1 DEF LockRight
<1> QED
  BY <1>2 DEF LockRight

\* The toggles and the transfers they are compared with stay.
LEMMA TogglesStay ==
  ASSUME TogglesRight, UNCHANGED toggle, Odd' = Odd
  PROVE  TogglesRight'
BY DEF TogglesRight

LEMMA OddStays ==
  ASSUME Types, NEW p \in Process, NEW x, at' = [at EXCEPT ![p] = x], at[p] # "poll", x # "poll",
         \A q \in Process : q # p => op'[q] = op[q]
  PROVE  Odd' = Odd
<1>1. \A q \in Process : at'[q] = IF q = p THEN x ELSE at[q]
  BY DEF Types
<1>2. \A q \in Process :
        (at'[q] = "poll" /\ IsBulk(op'[q]) /\ Packets(op'[q].size) % 2 = 1)
          <=> (at[q] = "poll" /\ IsBulk(op[q]) /\ Packets(op[q].size) % 2 = 1)
  BY <1>1
<1>3. Odd' = {q \in Process : at'[q] = "poll" /\ IsBulk(op'[q]) /\ Packets(op'[q].size) % 2 = 1}
  BY DEF Odd, IsBulk, Packets
<1> QED
  BY <1>2, <1>3 DEF Odd

-----------------------------------------------------------------------------
(* Steps: who holds the frames.                                            *)

\* A step that moves processes only where no frame is concerned.
LEMMA FramesCalm ==
  ASSUME UHCIAssumption, Types, FramesRight, UNCHANGED <<frame, entry, live, queue, dropped>>,
         \A p \in Process : /\ at'[p] \in {"found", "build"} => at'[p] = at[p]
                            /\ at'[p] \in InUse => at[p] \in InUse
                            /\ at'[p] \in {"poll", "read"} => at[p] \in {"poll", "read"} /\ op'[p] = op[p]
  PROVE  FramesRight'
<1>1. \A p \in Process : /\ at'[p] = "found" => entry[frame[p]] = "free"
                         /\ at'[p] = "build" => entry[frame[p]] = "taken"
                         /\ at'[p] \in InUse => entry[frame[p]] = "set"
  BY DEF FramesRight
<1>2. \A p \in Driver : at'[p] \in {"poll", "read"} => op'[p].made \subseteq live[frame[p]]
  BY ProcessFacts DEF FramesRight
<1> QED
  BY <1>1, <1>2 DEF FramesRight, InUse

LEMMA ScanFrameFrames ==
  ASSUME UHCIAssumption, Types, LockRight, FramesRight, ~woken, NEW p \in Process, at[p] = "inside",
         NEW f \in Frame, entry[f] = "free",
         at' = [at EXCEPT ![p] = "found"], frame' = [frame EXCEPT ![p] = f],
         UNCHANGED <<op, entry, live, queue, dropped>>
  PROVE  FramesRight'
<1>1. \A q \in Process : at'[q] = (IF q = p THEN "found" ELSE at[q]) /\ frame'[q] = (IF q = p THEN f ELSE frame[q])
  BY DEF Types
<1>2. \A q \in Process : q # p => frame[q] # f
  <2> SUFFICES ASSUME NEW q \in Process, q # p, frame[q] = f
               PROVE  FALSE
    OBVIOUS
  <2>1. at[q] \in Held
    BY FrameFacts DEF Types
  <2>2. at[q] = "found"
    BY <2>1 DEF FramesRight, Held
  <2> QED
    BY <2>2 DEF LockRight, Inside
<1>3. f # 0
  BY FrameFacts
<1>4. \A q, r \in Process : frame'[q] = frame'[r] /\ frame'[q] # 0 => q = r
  BY <1>1, <1>2 DEF FramesRight
<1>5. \A q \in Process : /\ at'[q] = "found" => entry[frame'[q]] = "free"
                         /\ at'[q] = "build" => entry[frame'[q]] = "taken"
                         /\ at'[q] \in InUse => entry[frame'[q]] = "set"
  BY <1>1 DEF FramesRight, InUse
<1>6. f \notin Range(queue) /\ f \notin dropped
  BY DEF FramesRight
<1>7. /\ \A g \in Range(queue) : \A q \in Process : frame'[q] # g
      /\ \A g \in dropped : \A q \in Process : frame'[q] # g
  BY <1>1, <1>6 DEF FramesRight
<1>8. \A g \in Frame : entry[g] # "free" =>
        g \in Range(queue) \/ g \in dropped \/ \E q \in Process : frame'[q] = g
  <2> SUFFICES ASSUME NEW g \in Frame, entry[g] # "free", NEW q \in Process, frame[q] = g
               PROVE  frame'[q] = g
    BY DEF FramesRight
  <2>1. q # p
    BY FrameFacts DEF Types, Held, InUse
  <2> QED
    BY <1>1, <2>1
<1>9. \A q \in Driver : at'[q] \in {"poll", "read"} => op[q].made \subseteq live[frame'[q]]
  BY <1>1, ProcessFacts DEF FramesRight
<1> QED
  BY <1>4, <1>5, <1>7, <1>8, <1>9 DEF FramesRight, InUse

LEMMA TakeFrameFrames ==
  ASSUME UHCIAssumption, Types, FramesRight, NEW p \in Process, at[p] = "found",
         at' = [at EXCEPT ![p] = "build"], entry' = [entry EXCEPT ![frame[p]] = "taken"],
         UNCHANGED <<frame, op, live, queue, dropped>>
  PROVE  FramesRight'
<1> DEFINE f == frame[p]
<1>1. f \in Frame /\ f # 0 /\ entry[f] = "free"
  BY PlaceFacts, FrameFacts DEF Held, FramesRight
<1>2. \A q \in Process : at'[q] = IF q = p THEN "build" ELSE at[q]
  BY DEF Types
<1>3. \A g \in Frame : entry'[g] = IF g = f THEN "taken" ELSE entry[g]
  BY DEF Types
<1>4. \A q \in Process : q # p => frame[q] # f
  BY <1>1 DEF FramesRight
<1>5. \A q \in Process : at[q] \in Held => frame[q] \in Frame
  BY PlaceFacts
<1>6. \A q \in Process : /\ at'[q] = "found" => entry'[frame[q]] = "free"
                         /\ at'[q] = "build" => entry'[frame[q]] = "taken"
                         /\ at'[q] \in InUse => entry'[frame[q]] = "set"
  BY <1>1, <1>2, <1>3, <1>4, <1>5 DEF FramesRight, InUse, Held
<1>7. f \notin Range(queue) /\ f \notin dropped /\ Range(queue) \subseteq Frame /\ dropped \subseteq Frame
  BY <1>1, QueueEnds DEF FramesRight, Types
<1>8. \A g \in Range(queue) \cup dropped : entry'[g] = "set"
  BY <1>3, <1>7 DEF FramesRight
<1>9. \A g \in Frame : entry'[g] # "free" =>
        g \in Range(queue) \/ g \in dropped \/ \E q \in Process : frame[q] = g
  BY <1>3 DEF FramesRight
<1>10. \A g \in Frame : entry'[g] # "set" => live[g] = {}
  BY <1>1, <1>3 DEF FramesRight
<1>11. \A q \in Driver : at'[q] \in {"poll", "read"} => op[q].made \subseteq live[frame[q]]
  BY <1>2, ProcessFacts DEF FramesRight
<1> QED
  BY <1>6, <1>8, <1>9, <1>10, <1>11 DEF FramesRight, InUse

LEMMA SetEntryFrames ==
  ASSUME UHCIAssumption, Types, FramesRight, NEW p \in Process, at[p] = "build",
         at' = [at EXCEPT ![p] = "poll"], entry' = [entry EXCEPT ![frame[p]] = "set"],
         live' = [live EXCEPT ![frame[p]] = @ \cup op[p].made],
         UNCHANGED <<frame, op, queue, dropped>>
  PROVE  FramesRight'
<1> DEFINE f == frame[p]
<1>1. f \in Frame /\ f # 0 /\ entry[f] = "taken"
  BY PlaceFacts, FrameFacts DEF Held, FramesRight
<1>2. \A q \in Process : at'[q] = IF q = p THEN "poll" ELSE at[q]
  BY DEF Types
<1>3. \A g \in Frame : entry'[g] = (IF g = f THEN "set" ELSE entry[g])
                       /\ live'[g] = (IF g = f THEN live[g] \cup op[p].made ELSE live[g])
  BY DEF Types
<1>4. \A q \in Process : q # p => frame[q] # f
  BY <1>1 DEF FramesRight
<1>5. \A q \in Process : at[q] \in Held => frame[q] \in Frame
  BY PlaceFacts
<1>6. \A q \in Process : /\ at'[q] = "found" => entry'[frame[q]] = "free"
                         /\ at'[q] = "build" => entry'[frame[q]] = "taken"
                         /\ at'[q] \in InUse => entry'[frame[q]] = "set"
  BY <1>1, <1>2, <1>3, <1>4, <1>5 DEF FramesRight, InUse, Held
<1>7. Range(queue) \subseteq Frame /\ dropped \subseteq Frame
  BY QueueEnds DEF FramesRight, Types
<1>8. \A g \in Range(queue) \cup dropped : entry'[g] = "set"
  BY <1>3, <1>7 DEF FramesRight
<1>9. \A g \in Frame : entry'[g] # "free" =>
        g \in Range(queue) \/ g \in dropped \/ \E q \in Process : frame[q] = g
  BY <1>3 DEF FramesRight
<1>10. \A g \in Frame : entry'[g] # "set" => live'[g] = {}
  BY <1>3 DEF FramesRight
<1>11. \A q \in Driver : at'[q] \in {"poll", "read"} => op[q].made \subseteq live'[frame[q]]
  <2> SUFFICES ASSUME NEW q \in Driver, at'[q] \in {"poll", "read"}
               PROVE  op[q].made \subseteq live'[frame[q]]
    OBVIOUS
  <2>1. CASE q = p
    <3>1. live'[f] = live[f] \cup op[p].made
      BY <1>1, <1>3
    <3> QED
      BY <2>1, <3>1
  <2>2. CASE q # p
    <3>1. at[q] \in {"poll", "read"} /\ q \in Process
      BY <1>2, <2>2, ProcessFacts
    <3>2. frame[q] \in Frame /\ frame[q] # f
      BY <1>4, <1>5, <2>2, <3>1 DEF Held, InUse
    <3>3. live'[frame[q]] = live[frame[q]]
      BY <1>3, <3>2
    <3> QED
      BY <3>1, <3>3 DEF FramesRight
  <2> QED
    BY <2>1, <2>2
<1> QED
  BY <1>6, <1>8, <1>9, <1>10, <1>11 DEF FramesRight, InUse

LEMMA CleanFrameFrames ==
  ASSUME UHCIAssumption, Types, FramesRight, NEW p \in Process, at[p] = "clean",
         at' = [at EXCEPT ![p] = "idle"], frame' = [frame EXCEPT ![p] = 0],
         IF LastOfProbe(p) THEN queue' = <<>> /\ dropped' = dropped \cup ToSet(queue) \cup {frame[p]}
         ELSE Push(p),
         UNCHANGED <<op, entry, live>>
  PROVE  FramesRight' /\ queue' \in Seq(Frame) /\ dropped' \subseteq Frame
<1> DEFINE f == frame[p]
<1>1. f \in Frame /\ f # 0 /\ entry[f] = "set"
  BY PlaceFacts, FrameFacts DEF Held, InUse, FramesRight
<1>2. \A q \in Process : at'[q] = (IF q = p THEN "idle" ELSE at[q]) /\ frame'[q] = (IF q = p THEN 0 ELSE frame[q])
  BY DEF Types
<1>3. \A q \in Process : q # p => frame[q] # f
  BY <1>1 DEF FramesRight
<1>4. f \notin Range(queue) /\ f \notin dropped /\ dropped \subseteq Frame /\ queue \in Seq(Frame)
  BY <1>1 DEF FramesRight, Types
<1>5. \A i, j \in DOMAIN queue : queue[i] = queue[j] => i = j
  BY DEF FramesRight
<1>6. ToSet(queue) = Range(queue) /\ Range(queue) \subseteq Frame
  BY <1>4, <1>5, QueueEnds DEF ToSet, Range
\* The frame goes to the queue or to the dropped ones, and the queue to either.
<1>7. /\ queue' \in Seq(Frame) /\ dropped' \subseteq Frame
      /\ \A i, j \in DOMAIN queue' : queue'[i] = queue'[j] => i = j
      /\ Range(queue') \cup dropped' = Range(queue) \cup dropped \cup {f}
      /\ \A g \in Range(queue') : g \notin dropped'
  <2>1. CASE queue' = <<>> /\ dropped' = dropped \cup ToSet(queue) \cup {f}
    <3>1. queue' \in Seq(Frame) /\ DOMAIN queue' = {} /\ Range(queue') = {}
      BY <2>1 DEF Range
    <3> QED
      BY <1>1, <1>4, <1>6, <2>1, <3>1
  <2>2. CASE queue' = queue /\ dropped' = dropped \cup {f}
    <3>1. \A g \in Range(queue) : g \notin dropped
      BY DEF FramesRight
    <3> QED
      BY <1>1, <1>4, <1>5, <2>2, <3>1
  <2>3. CASE queue' = Append(queue, f) /\ dropped' = dropped
    <3>1. /\ queue' \in Seq(Frame) /\ Range(queue') = Range(queue) \cup {f}
          /\ \A i, j \in DOMAIN queue' : queue'[i] = queue'[j] => i = j
      BY <1>1, <1>4, <1>5, <2>3, QueueEnds
    <3>2. \A g \in Range(queue) : g \notin dropped
      BY DEF FramesRight
    <3> QED
      BY <1>4, <2>3, <3>1, <3>2
  <2> QED
    BY <2>1, <2>2, <2>3 DEF Push
<1>8. \A g \in Range(queue) \cup dropped : entry[g] = "set" /\ \A q \in Process : frame[q] # g
  BY DEF FramesRight
<1>9. \A g \in Range(queue') \cup dropped' : entry[g] = "set" /\ \A q \in Process : frame'[q] # g
  <2> SUFFICES ASSUME NEW g \in Range(queue) \cup dropped \cup {f}
               PROVE  entry[g] = "set" /\ \A q \in Process : frame'[q] # g
    BY <1>7
  <2>1. g \in Frame /\ g # 0
    BY <1>1, <1>4, <1>6, FrameFacts
  <2> QED
    BY <1>1, <1>2, <1>3, <1>8, <2>1
<1>10. \A g \in Frame : entry[g] # "free" =>
        g \in Range(queue') \/ g \in dropped' \/ \E q \in Process : frame'[q] = g
  <2> SUFFICES ASSUME NEW g \in Frame, entry[g] # "free", g \notin Range(queue) \cup dropped \cup {f}
               PROVE  \E q \in Process : frame'[q] = g
    BY <1>7
  <2>1. PICK q \in Process : frame[q] = g
    BY DEF FramesRight
  <2> QED
    BY <1>2, <2>1
<1>11. \A q, r \in Process : frame'[q] = frame'[r] /\ frame'[q] # 0 => q = r
  BY <1>2 DEF FramesRight
<1>12. \A q \in Process : /\ at'[q] = "found" => entry[frame'[q]] = "free"
                          /\ at'[q] = "build" => entry[frame'[q]] = "taken"
                          /\ at'[q] \in InUse => entry[frame'[q]] = "set"
  BY <1>2 DEF FramesRight, InUse
<1>13. \A q \in Driver : at'[q] \in {"poll", "read"} => op[q].made \subseteq live[frame'[q]]
  BY <1>2, ProcessFacts DEF FramesRight
<1>14. \A g \in Frame : entry[g] # "set" => live[g] = {}
  BY DEF FramesRight
<1> QED
  BY <1>7, <1>9, <1>10, <1>11, <1>12, <1>13, <1>14 DEF FramesRight, InUse

LEMMA NextFrameFrames ==
  ASSUME UHCIAssumption, Types, FramesRight, at[Cleaner] = "inside", queue # <<>>,
         at' = [at EXCEPT ![Cleaner] = "free"], frame' = [frame EXCEPT ![Cleaner] = Head(queue)],
         queue' = Tail(queue), UNCHANGED <<op, entry, live, dropped>>
  PROVE  FramesRight'
<1> DEFINE f == Head(queue)
<1>1. queue \in Seq(Frame) /\ \A i, j \in DOMAIN queue : queue[i] = queue[j] => i = j
  BY DEF Types, FramesRight
<1>2. /\ f \in Range(queue) /\ Range(queue') = Range(queue) \ {f} /\ Range(queue) \subseteq Frame
      /\ \A i, j \in DOMAIN queue' : queue'[i] = queue'[j] => i = j
  BY <1>1, QueueEnds
<1>3. f \in Frame /\ f # 0 /\ entry[f] = "set" /\ f \notin dropped /\ \A q \in Process : frame[q] # f
  BY <1>2, FrameFacts DEF FramesRight
<1>4. Cleaner \in Process /\ frame[Cleaner] = 0
  BY ProcessFacts, PlaceFacts DEF Held, InUse
<1>5. \A q \in Process : /\ at'[q] = (IF q = Cleaner THEN "free" ELSE at[q])
                         /\ frame'[q] = (IF q = Cleaner THEN f ELSE frame[q])
  BY DEF Types
<1>6. \A q, r \in Process : frame'[q] = frame'[r] /\ frame'[q] # 0 => q = r
  BY <1>3, <1>5 DEF FramesRight
<1>7. \A q \in Process : /\ at'[q] = "found" => entry[frame'[q]] = "free"
                         /\ at'[q] = "build" => entry[frame'[q]] = "taken"
                         /\ at'[q] \in InUse => entry[frame'[q]] = "set"
  BY <1>3, <1>5 DEF FramesRight, InUse
<1>8. /\ \A g \in Range(queue') : entry[g] = "set" /\ g \notin dropped /\ \A q \in Process : frame'[q] # g
      /\ \A g \in dropped : entry[g] = "set" /\ \A q \in Process : frame'[q] # g
  BY <1>2, <1>3, <1>5 DEF FramesRight
<1>9. \A g \in Frame : entry[g] # "free" =>
        g \in Range(queue') \/ g \in dropped \/ \E q \in Process : frame'[q] = g
  <2> SUFFICES ASSUME NEW g \in Frame, entry[g] # "free", g \notin Range(queue'), g \notin dropped
               PROVE  \E q \in Process : frame'[q] = g
    OBVIOUS
  <2>1. CASE g = f
    BY <1>4, <1>5, <2>1
  <2>2. CASE g # f
    <3>1. PICK q \in Process : frame[q] = g
      BY <1>2, <2>2 DEF FramesRight
    <3>2. q # Cleaner
      BY <1>4, <3>1, FrameFacts
    <3> QED
      BY <1>5, <3>1, <3>2
  <2> QED
    BY <2>1, <2>2
<1>10. \A q \in Driver : at'[q] \in {"poll", "read"} => op[q].made \subseteq live[frame'[q]]
  BY <1>5, ProcessFacts DEF FramesRight
<1>11. \A g \in Frame : entry[g] # "set" => live[g] = {}
  BY DEF FramesRight
<1> QED
  BY <1>2, <1>6, <1>7, <1>8, <1>9, <1>10, <1>11 DEF FramesRight, InUse

LEMMA ReleaseFrames ==
  ASSUME UHCIAssumption, Types, FramesRight, at[Cleaner] = "free", NEW x \in {"wait", "inside"},
         at' = [at EXCEPT ![Cleaner] = x], frame' = [frame EXCEPT ![Cleaner] = 0],
         live' = [live EXCEPT ![frame[Cleaner]] = {}], entry' = [entry EXCEPT ![frame[Cleaner]] = "free"],
         UNCHANGED <<op, queue, dropped>>
  PROVE  FramesRight'
<1> DEFINE f == frame[Cleaner]
<1>1. Cleaner \in Process /\ f \in Frame /\ f # 0
  BY ProcessFacts, PlaceFacts, FrameFacts DEF Held, InUse
<1>2. \A q \in Process : /\ at'[q] = (IF q = Cleaner THEN x ELSE at[q])
                         /\ frame'[q] = (IF q = Cleaner THEN 0 ELSE frame[q])
  BY DEF Types
<1>3. \A g \in Frame : entry'[g] = (IF g = f THEN "free" ELSE entry[g])
                       /\ live'[g] = (IF g = f THEN {} ELSE live[g])
  BY DEF Types
<1>4. \A q \in Process : q # Cleaner => frame[q] # f
  BY <1>1 DEF FramesRight
<1>5. f \notin Range(queue) /\ f \notin dropped /\ Range(queue) \subseteq Frame /\ dropped \subseteq Frame
  BY <1>1, QueueEnds DEF FramesRight, Types
<1>6. \A q \in Process : q # Cleaner /\ at[q] \in Held =>
        frame[q] \in Frame /\ entry'[frame[q]] = entry[frame[q]] /\ live'[frame[q]] = live[frame[q]]
  BY <1>3, <1>4, PlaceFacts
<1>7. \A q, r \in Process : frame'[q] = frame'[r] /\ frame'[q] # 0 => q = r
  BY <1>2 DEF FramesRight
<1>8. \A q \in Process : /\ at'[q] = "found" => entry'[frame'[q]] = "free"
                         /\ at'[q] = "build" => entry'[frame'[q]] = "taken"
                         /\ at'[q] \in InUse => entry'[frame'[q]] = "set"
  BY <1>2, <1>6 DEF FramesRight, InUse, Held
<1>9. \A g \in Range(queue) \cup dropped : g \in Frame /\ entry'[g] = "set" /\ \A q \in Process : frame'[q] # g
  <2> SUFFICES ASSUME NEW g \in Range(queue) \cup dropped
               PROVE  g \in Frame /\ entry'[g] = "set" /\ \A q \in Process : frame'[q] # g
    OBVIOUS
  <2>1. g \in Frame /\ g # f /\ g # 0 /\ entry[g] = "set" /\ \A q \in Process : frame[q] # g
    BY <1>5, FrameFacts DEF FramesRight
  <2> QED
    BY <1>2, <1>3, <2>1
<1>10. \A g \in Frame : entry'[g] # "free" =>
        g \in Range(queue) \/ g \in dropped \/ \E q \in Process : frame'[q] = g
  <2> SUFFICES ASSUME NEW g \in Frame, entry'[g] # "free", g \notin Range(queue) \cup dropped
               PROVE  \E q \in Process : frame'[q] = g
    OBVIOUS
  <2>1. g # f /\ entry[g] # "free"
    BY <1>3
  <2>2. PICK q \in Process : frame[q] = g
    BY <2>1 DEF FramesRight
  <2> QED
    BY <1>2, <2>1, <2>2
<1>11. \A g \in Frame : entry'[g] # "set" => live'[g] = {}
  BY <1>3 DEF FramesRight
<1>12. \A q \in Driver : at'[q] \in {"poll", "read"} => op[q].made \subseteq live'[frame'[q]]
  <2> SUFFICES ASSUME NEW q \in Driver, at'[q] \in {"poll", "read"}
               PROVE  op[q].made \subseteq live'[frame'[q]]
    OBVIOUS
  <2>1. q \in Process /\ q # Cleaner
    BY ProcessFacts
  <2>2. at[q] \in {"poll", "read"} /\ frame'[q] = frame[q]
    BY <1>2, <2>1
  <2>3. live'[frame[q]] = live[frame[q]]
    BY <1>6, <2>1, <2>2 DEF Held, InUse
  <2> QED
    BY <2>2, <2>3 DEF FramesRight
<1>13. \A g \in Range(queue) : g \notin dropped
  BY DEF FramesRight
<1>14. \A i, j \in DOMAIN queue : queue[i] = queue[j] => i = j
  BY DEF FramesRight
<1> QED
  BY <1>7, <1>8, <1>9, <1>10, <1>11, <1>12, <1>13, <1>14 DEF FramesRight, InUse

-----------------------------------------------------------------------------
(* Steps: the toggles.                                                     *)

\* The host counts the packets of a transfer when it links them to the frame.
LEMMA LinkToggles ==
  ASSUME UHCIAssumption, Types, TogglesRight, NEW p \in Process, at[p] = "build",
         at' = [at EXCEPT ![p] = "poll"], op' = op,
         toggle' = IF IsBulk(op[p]) THEN [toggle EXCEPT !.host = (@ + Packets(op[p].size)) % 2] ELSE toggle
  PROVE  TogglesRight' /\ toggle' \in Toggles
<1> DEFINE n == Packets(op[p].size)
           odd == IsBulk(op[p]) /\ n % 2 = 1
<1>1. n \in Nat
  BY PlaceFacts, TransferFacts, PacketsType
<1>2. Odd' = Odd \cup (IF odd THEN {p} ELSE {}) /\ p \notin Odd
  <2>1. \A q \in Process : at'[q] = IF q = p THEN "poll" ELSE at[q]
    BY DEF Types
  <2>2. Odd' = {q \in Process : at'[q] = "poll" /\ IsBulk(op[q]) /\ Packets(op[q].size) % 2 = 1}
    BY DEF Odd, IsBulk, Packets
  <2>3. p \notin Odd
    BY DEF Odd
  <2>4. ASSUME NEW q \in Process
        PROVE  (at'[q] = "poll" /\ IsBulk(op[q]) /\ Packets(op[q].size) % 2 = 1)
                 <=> q \in Odd \cup (IF odd THEN {p} ELSE {})
    BY <2>1, <2>3 DEF Odd
  <2>5. Odd' \subseteq Process /\ Odd \cup (IF odd THEN {p} ELSE {}) \subseteq Process
    BY <2>2 DEF Odd
  <2> QED
    BY <2>2, <2>3, <2>4, <2>5
<1>3. Odd \subseteq Process
  BY DEF Odd
<1>4. IsFiniteSet(Odd) /\ Cardinality(Odd) \in Nat
  BY <1>3, ProcessFacts
<1>5. /\ ~odd => Cardinality(Odd') = Cardinality(Odd)
      /\ odd => Cardinality(Odd') = Cardinality(Odd) + 1
  <2>1. ASSUME ~odd PROVE Odd' = Odd
    BY <1>2, <2>1
  <2>2. ASSUME odd PROVE Odd' = Odd \cup {p}
    BY <1>2, <2>2
  <2> HIDE DEF odd
  <2> QED
    BY <1>2, <1>4, <2>1, <2>2, FS_AddElement
<1>6. toggle.host \in 0 .. 1 /\ toggle.device \in 0 .. 1 /\ toggle.failed \in BOOLEAN
      /\ toggle = [host |-> toggle.host, device |-> toggle.device, failed |-> toggle.failed]
  BY DEF Types, Toggles
<1>7. CASE ~IsBulk(op[p])
  <2>1. toggle' = toggle /\ Cardinality(Odd') = Cardinality(Odd)
    BY <1>5, <1>7
  <2> QED
    BY <2>1 DEF TogglesRight, Types
<1>8. CASE IsBulk(op[p])
  <2> HIDE DEF n
  <2>1. toggle' = [toggle EXCEPT !.host = (toggle.host + n) % 2]
    BY <1>8 DEF n
  <2>2. toggle' = [host |-> (toggle.host + n) % 2, device |-> toggle.device, failed |-> toggle.failed]
    BY <1>6, <2>1
  <2>3. (toggle.host + n) % 2 \in 0 .. 1
    BY <1>1, <1>6
  <2>4. toggle' \in Toggles
    BY <1>6, <2>2, <2>3 DEF Toggles
  <2>5. ASSUME ~toggle.failed
        PROVE  (toggle.host + n) % 2 = (toggle.device + Cardinality(Odd')) % 2
    <3>1. PICK c \in Nat : c = Cardinality(Odd)
      BY <1>4
    <3>2. toggle.host = (toggle.device + c) % 2
      BY <2>5, <3>1 DEF TogglesRight
    <3>3. Cardinality(Odd') = c + (n % 2)
      <4>1. n % 2 = 1 \/ n % 2 = 0
        BY <1>1
      <4>2. CASE n % 2 = 1
        BY <1>5, <1>8, <3>1, <4>2
      <4>3. CASE n % 2 = 0
        BY <1>5, <1>8, <3>1, <4>3
      <4> QED
        BY <4>1, <4>2, <4>3
    <3>4. PICK d \in Nat : d = toggle.device
      BY <1>6
    <3>5. (((d + c) % 2) + n) % 2 = (d + (c + (n % 2))) % 2
      BY <1>1
    <3> QED
      BY <3>2, <3>3, <3>4, <3>5
  <2>6. TogglesRight'
    BY <2>2, <2>5 DEF TogglesRight
  <2> QED
    BY <2>4, <2>6
<1> QED
  BY <1>7, <1>8

\* The device counts them when it did them; ClearHalt resets both sides.
LEMMA PollToggles ==
  ASSUME UHCIAssumption, Types, TogglesRight, NEW p \in Process, PollWait(p)
  PROVE  TogglesRight' /\ toggle' \in Toggles
<1> DEFINE n == Packets(op[p].size)
           odd == IsBulk(op[p]) /\ n % 2 = 1
<1>1. n \in Nat /\ at[p] = "poll" /\ p \in Driver
  BY PlaceFacts, TransferFacts, PacketsType, ProcessFacts DEF PollWait, AtLock
<1>2. Odd' = Odd \ {p} /\ (p \in Odd <=> odd)
  <2>1. \A q \in Process : at'[q] = IF q = p THEN "read" ELSE at[q]
    BY DEF Types, PollWait
  <2>2. Odd' = {q \in Process : at'[q] = "poll" /\ IsBulk(op[q]) /\ Packets(op[q].size) % 2 = 1}
    BY DEF Odd, IsBulk, Packets, PollWait
  <2>3. p \in Odd <=> odd
    BY <1>1 DEF Odd
  <2>4. ASSUME NEW q \in Process
        PROVE  (at'[q] = "poll" /\ IsBulk(op[q]) /\ Packets(op[q].size) % 2 = 1) <=> q \in Odd \ {p}
    BY <2>1 DEF Odd
  <2>5. Odd' \subseteq Process /\ Odd \ {p} \subseteq Process
    BY <2>2 DEF Odd
  <2> QED
    BY <2>2, <2>3, <2>4, <2>5
<1>3. Odd \subseteq Process
  BY DEF Odd
<1>4. IsFiniteSet(Odd) /\ Cardinality(Odd) \in Nat
  BY <1>3, ProcessFacts
<1>5. /\ ~odd => Odd' = Odd
      /\ odd => Cardinality(Odd') + 1 = Cardinality(Odd) /\ Cardinality(Odd') \in Nat
  <2>1. ~odd => Odd' = Odd
    BY <1>2
  <2>2. ASSUME odd PROVE Cardinality(Odd') + 1 = Cardinality(Odd) /\ Cardinality(Odd') \in Nat
    <3>1. IsFiniteSet(Odd') /\ p \notin Odd' /\ Odd' \cup {p} = Odd
      BY <1>2, <1>3, <2>2, ProcessFacts
    <3>2. Cardinality(Odd') \in Nat
      BY <3>1, FS_CardinalityType
    <3> QED
      BY <3>1, <3>2, FS_AddElement
  <2> QED
    BY <2>1, <2>2
<1>6. toggle.host \in 0 .. 1 /\ toggle.device \in 0 .. 1 /\ toggle.failed \in BOOLEAN
      /\ toggle = [host |-> toggle.host, device |-> toggle.device, failed |-> toggle.failed]
  BY DEF Types, Toggles
<1>7. PICK ok \in BOOLEAN, sent \in 0 .. n :
        /\ ok => sent = n
        /\ toggle' = CASE IsBulk(op[p]) -> [toggle EXCEPT !.device = (@ + sent) % 2, !.failed = @ \/ ~ok]
                       [] op[p].name = "ClearHalt" ->
                            [host |-> 0, device |-> IF ok THEN 0 ELSE toggle.device,
                             failed |-> ~ok \/ Overtaken(p)]
                       [] OTHER -> toggle
  BY DEF PollWait
<1>8. CASE IsBulk(op[p])
  <2>1. toggle' = [toggle EXCEPT !.device = (@ + sent) % 2, !.failed = @ \/ ~ok]
    BY <1>7, <1>8 DEF IsBulk
  <2>2. toggle' = [host |-> toggle.host, device |-> (toggle.device + sent) % 2, failed |-> toggle.failed \/ ~ok]
    BY <1>6, <2>1
  <2>3. (toggle.device + sent) % 2 \in 0 .. 1
    BY <1>1, <1>6
  <2>4. toggle' \in Toggles
    BY <1>6, <2>2, <2>3 DEF Toggles
  <2>5. ASSUME ~(toggle.failed \/ ~ok)
        PROVE  toggle.host = (((toggle.device + sent) % 2) + Cardinality(Odd')) % 2
    <3>1. sent = n /\ ~toggle.failed
      BY <1>7, <2>5
    <3>2. PICK c \in Nat : c = Cardinality(Odd)
      BY <1>4
    <3>3. PICK d \in Nat : d = toggle.device
      BY <1>6
    <3>4. toggle.host = (d + c) % 2
      BY <3>1, <3>2, <3>3 DEF TogglesRight
    <3>5. CASE odd
      <4>1. PICK e \in Nat : e = Cardinality(Odd') /\ c = e + 1
        BY <1>5, <3>2, <3>5
      <4>2. PICK m \in Nat : m = n /\ m % 2 = 1
        BY <1>1, <3>5
      <4>3. (d + (e + 1)) % 2 = (((d + m) % 2) + e) % 2
        BY <4>2
      <4> QED
        BY <3>1, <3>3, <3>4, <4>1, <4>2, <4>3
    <3>6. CASE ~odd
      <4>1. PICK m \in Nat : m = n /\ m % 2 = 0
        BY <1>1, <1>8, <3>6
      <4>2. (d + c) % 2 = (((d + m) % 2) + c) % 2
        BY <4>1
      <4> QED
        BY <1>5, <3>1, <3>2, <3>3, <3>4, <3>6, <4>1, <4>2
    <3> QED
      BY <3>5, <3>6
  <2>6. TogglesRight'
    BY <2>2, <2>5 DEF TogglesRight
  <2> QED
    BY <2>4, <2>6
<1>9. CASE ~IsBulk(op[p]) /\ op[p].name = "ClearHalt"
  <2>1. toggle' = [host |-> 0, device |-> IF ok THEN 0 ELSE toggle.device, failed |-> ~ok \/ Overtaken(p)]
    BY <1>7, <1>9
  <2>2. toggle' \in Toggles
    BY <1>6, <2>1 DEF Toggles, Overtaken
  <2>3. ASSUME ok, ~Overtaken(p)
        PROVE  Odd' = {}
    <3> SUFFICES ASSUME NEW q \in Odd, q # p
                 PROVE  FALSE
      BY <1>2
    <3>1. at[q] = "poll" /\ IsBulk(op[q]) /\ q \in Process
      BY DEF Odd
    <3>2. q \in Driver
      BY <3>1, PlaceFacts, ProcessFacts DEF AtLock
    <3> QED
      BY <2>3, <3>1, <3>2 DEF Overtaken
  <2>4. ASSUME ok, ~Overtaken(p)
        PROVE  toggle'.host = (toggle'.device + Cardinality(Odd')) % 2
    <3>1. toggle'.host = 0 /\ toggle'.device = 0
      BY <2>1, <2>4
    <3>2. Cardinality(Odd') = 0
      BY <2>3, <2>4, FS_EmptySet
    <3> QED
      BY <3>1, <3>2
  <2>5. toggle'.failed <=> ~ok \/ Overtaken(p)
    BY <2>1
  <2>6. TogglesRight'
    BY <2>4, <2>5 DEF TogglesRight
  <2> QED
    BY <2>2, <2>6
<1>10. CASE ~IsBulk(op[p]) /\ op[p].name # "ClearHalt"
  <2>1. toggle' = toggle /\ Odd' = Odd
    BY <1>5, <1>7, <1>10
  <2> QED
    BY <2>1, TogglesStay DEF Types
<1> QED
  BY <1>8, <1>9, <1>10

-----------------------------------------------------------------------------
(* Every action keeps the invariant.                                       *)

\* A step that only moves a process, and perhaps gives it its next transfer.
LEMMA CalmMove ==
  ASSUME UHCIAssumption, Types, TogglesRight, ~woken => FramesRight, NEW p \in Process, NEW x \in Held \cup AtLock,
         at' = [at EXCEPT ![p] = x], at[p] \in Held <=> x \in Held, at[p] # "poll", x # "poll",
         x = "free" => p = Cleaner, p = Cleaner => x \in AtLock \cup {"free"},
         x \in {"found", "build"} => x = at[p], x \in InUse => at[p] \in InUse,
         x = "read" => at[p] = "read",
         NEW o \in Transfer, op' = [op EXCEPT ![p] = o], x \in {"poll", "read"} => o = op[p],
         busy' \in BOOLEAN, woken' \in BOOLEAN, ~woken' => ~woken, UNCHANGED <<frame, listVars, script, toggle>>
  PROVE  Types' /\ TogglesRight' /\ (~woken' => FramesRight')
<1>1. /\ frame[p] \in 0 .. NFrames
      /\ frame[p] # 0 <=> x \in Held
      /\ frame' = [frame EXCEPT ![p] = frame[p]]
  BY DEF Types
<1>2. op' \in [Process -> Transfer] /\ \A q \in Process : q # p => op'[q] = op[q]
  BY DEF Types
<1>3. /\ script' \in Seq(Transfer) /\ entry' \in [Frame -> {"free", "taken", "set"}]
      /\ live' \in [Frame -> SUBSET Part] /\ local' = live' /\ queue' \in Seq(Frame)
      /\ dropped' \subseteq Frame /\ toggle' \in Toggles
  BY DEF Types, listVars
<1>4. Types'
  BY <1>1, <1>2, <1>3, TypesMove
<1>5. Odd' = Odd
  BY <1>2, OddStays
<1>6. TogglesRight'
  BY <1>5, TogglesStay
<1>7. \A q \in Process : /\ at'[q] = (IF q = p THEN x ELSE at[q])
                         /\ op'[q] = (IF q = p THEN o ELSE op[q])
  BY DEF Types
<1>8. \A q \in Process : /\ at'[q] \in {"found", "build"} => at'[q] = at[q]
                         /\ at'[q] \in InUse => at[q] \in InUse
                         /\ at'[q] \in {"poll", "read"} => at[q] \in {"poll", "read"} /\ op'[q] = op[q]
  BY <1>7
<1>9. ~woken' => FramesRight'
  BY <1>8, FramesCalm DEF listVars
<1> QED
  BY <1>4, <1>6, <1>9

LEMMA SameTransfer ==
  ASSUME Types, NEW p \in Process
  PROVE  op[p] \in Transfer /\ op = [op EXCEPT ![p] = op[p]]
BY DEF Types

\* What Lock does to the one that comes.
LEMMA LockMoves ==
  ASSUME Types, NEW p \in Process, Lock(p)
  PROVE  busy' \in BOOLEAN /\ \E x \in {"wait", "inside"} : at' = [at EXCEPT ![p] = x]
BY DEF Lock, Types

LEMMA WakeStep ==
  ASSUME UHCIAssumption, IInv, NEW p \in Process, Wake(p)
  PROVE  IInv'
<1> USE DEF IInv
<1>1. at[p] = "wait" /\ at' = [at EXCEPT ![p] = "inside"] /\ busy' = FALSE /\ woken' = TRUE
      /\ UNCHANGED <<frame, op, listVars, script, toggle>>
  BY DEF Wake, Types
<1>2. op[p] \in Transfer /\ op' = [op EXCEPT ![p] = op[p]]
  BY <1>1, SameTransfer
<1>3. Types' /\ TogglesRight' /\ (~woken' => FramesRight')
  BY <1>1, <1>2, CalmMove DEF Held, InUse, AtLock
<1>4. LockRight'
  BY <1>1 DEF LockRight
<1> QED
  BY <1>3, <1>4

LEMMA CallStep ==
  ASSUME UHCIAssumption, IInv, NEW p \in Driver, NEW o \in Transfer, Call(p, o)
  PROVE  IInv'
<1> USE DEF IInv
<1>1. p \in Process /\ p # Cleaner
  BY ProcessFacts
<1>2. at[p] = "idle" /\ Lock(p) /\ op' = [op EXCEPT ![p] = o]
      /\ UNCHANGED <<woken, frame, listVars, script, toggle>>
  BY DEF Call
<1>3. PICK x \in {"wait", "inside"} : at' = [at EXCEPT ![p] = x] /\ busy' \in BOOLEAN
  BY <1>1, <1>2, LockMoves
<1>4. woken' \in BOOLEAN
  BY <1>2 DEF Types
<1>5. Types' /\ TogglesRight' /\ (~woken' => FramesRight')
  BY <1>1, <1>2, <1>3, <1>4, CalmMove DEF Held, InUse, AtLock
<1>6. LockRight'
  BY <1>1, <1>2, LockEnter
<1> QED
  BY <1>5, <1>6

\* A step that changes nothing the invariant is about.
LEMMA SameStep ==
  ASSUME IInv, UNCHANGED <<busy, woken, at, frame, op, listVars, script, toggle>>
  PROVE  IInv'
<1>1. Types'
  BY DEF IInv, Types, listVars
<1>2. LockRight'
  BY DEF IInv, LockRight, Inside
<1>3. FramesRight => FramesRight'
  BY DEF FramesRight, listVars
<1>4. Odd' = Odd
  BY DEF Odd, IsBulk, Packets
<1>5. TogglesRight'
  BY <1>4, TogglesStay DEF IInv
<1> QED
  BY <1>1, <1>2, <1>3, <1>5 DEF IInv

LEMMA ScanFrameStep ==
  ASSUME UHCIAssumption, IInv, NEW p \in Process, ScanFrame(p)
  PROVE  IInv'
<1> USE DEF IInv
<1> DEFINE free == {f \in Frame : entry[f] = "free"}
<1>1. at[p] = "inside" /\ p # Cleaner /\ UNCHANGED <<woken, op, listVars, script, toggle>>
  BY ProcessFacts DEF ScanFrame
<1>2. busy \in BOOLEAN /\ woken \in BOOLEAN /\ woken' = woken
  BY <1>1 DEF Types
<1>3. op[p] \in Transfer /\ op' = [op EXCEPT ![p] = op[p]]
  BY <1>1, SameTransfer
<1>4. CASE free = {}
  <2>1. at' = [at EXCEPT ![p] = "idle"] /\ busy' = FALSE /\ frame' = frame
    BY <1>4 DEF ScanFrame
  <2>2. /\ busy' \in BOOLEAN /\ woken' \in BOOLEAN /\ (~woken' => ~woken)
        /\ UNCHANGED <<frame, listVars, script, toggle>>
    <3>1. busy' \in BOOLEAN /\ woken' \in BOOLEAN
      BY <1>2, <2>1
    <3>2. ~woken' => ~woken
      BY <1>2
    <3>3. UNCHANGED <<frame, listVars, script, toggle>>
      BY <1>1, <2>1
    <3> QED
      BY <3>1, <3>2, <3>3
  <2>3. Types' /\ TogglesRight' /\ (~woken' => FramesRight')
    BY <1>1, <1>3, <2>1, <2>2, CalmMove DEF Held, InUse, AtLock
  <2>4. LockRight'
    BY <1>1, <2>1, LockLeave
  <2> QED
    BY <2>3, <2>4
<1>5. CASE free # {}
  <2> DEFINE f == CHOOSE f \in free : \A g \in free : f <= g
  <2>1. at' = [at EXCEPT ![p] = "found"] /\ busy' = busy /\ frame' = [frame EXCEPT ![p] = f]
    BY <1>5 DEF ScanFrame
  <2>2. f \in free
    <3>1. free \subseteq Nat
      BY FrameFacts
    <3>2. \E g \in free : \A h \in free : g <= h
      BY <1>5, <3>1, LeastNat
    <3> QED
      BY <3>2
  <2> HIDE DEF f
  <2>3. f \in Frame /\ entry[f] = "free" /\ f # 0 /\ f \in 0 .. NFrames
    BY <2>2, FrameFacts DEF Frame
  <2>4. /\ script' \in Seq(Transfer) /\ entry' \in [Frame -> {"free", "taken", "set"}]
        /\ live' \in [Frame -> SUBSET Part] /\ local' = live' /\ queue' \in Seq(Frame)
        /\ dropped' \subseteq Frame /\ toggle' \in Toggles /\ op' \in [Process -> Transfer]
    BY <1>1 DEF Types, listVars
  <2>5. Types'
    BY <1>1, <1>2, <2>1, <2>3, <2>4, TypesMove DEF Held, InUse
  <2>6. TogglesRight'
    <3>1. Odd' = Odd
      BY <1>1, <2>1, OddStays
    <3> QED
      BY <1>1, <3>1, TogglesStay
  <2>7. LockRight'
    <3>1. Inside' = Inside
      BY <1>1, <2>1 DEF Inside, Types
    <3> QED
      BY <1>1, <2>1, <3>1, LockStay
  <2>8. ~woken => FramesRight'
    BY <1>1, <2>1, <2>3, ScanFrameFrames DEF listVars
  <2> QED
    BY <1>2, <2>5, <2>6, <2>7, <2>8
<1> QED
  BY <1>4, <1>5

LEMMA TakeFrameStep ==
  ASSUME UHCIAssumption, IInv, NEW p \in Process, TakeFrame(p)
  PROVE  IInv'
<1> USE DEF IInv
<1>1. /\ at[p] = "found" /\ at' = [at EXCEPT ![p] = "build"] /\ busy' = FALSE
      /\ entry' = [entry EXCEPT ![frame[p]] = "taken"]
      /\ UNCHANGED <<woken, frame, op, ops, live, local, queue, dropped, script, toggle>>
  BY DEF TakeFrame
<1>2. p # Cleaner /\ frame[p] # 0 /\ frame[p] \in 0 .. NFrames /\ frame' = [frame EXCEPT ![p] = frame[p]]
  BY <1>1, FrameFacts, PlaceFacts, SameFrame DEF Held, AtLock
<1>3. /\ busy' \in BOOLEAN /\ woken' \in BOOLEAN /\ op' \in [Process -> Transfer]
      /\ script' \in Seq(Transfer) /\ entry' \in [Frame -> {"free", "taken", "set"}]
      /\ live' \in [Frame -> SUBSET Part] /\ local' = live' /\ queue' \in Seq(Frame)
      /\ dropped' \subseteq Frame /\ toggle' \in Toggles
  BY <1>1 DEF Types
<1>4. Types'
  BY <1>1, <1>2, <1>3, TypesMove DEF Held, InUse
<1>5. LockRight'
  BY <1>1, LockLeave
<1>6. ~woken => FramesRight'
  BY <1>1, TakeFrameFrames
<1>7. Odd' = Odd
  BY <1>1, OddStays
<1>8. TogglesRight'
  BY <1>1, <1>7, TogglesStay
<1> QED
  BY <1>1, <1>4, <1>5, <1>6, <1>8

LEMMA SetFrameListEntryStep ==
  ASSUME UHCIAssumption, IInv, NEW p \in Process, SetFrameListEntry(p)
  PROVE  IInv'
<1> USE DEF IInv
<1>1. /\ at[p] = "build" /\ at' = [at EXCEPT ![p] = "poll"]
      /\ entry' = [entry EXCEPT ![frame[p]] = "set"]
      /\ live' = [live EXCEPT ![frame[p]] = @ \cup op[p].made]
      /\ toggle' = IF IsBulk(op[p]) THEN [toggle EXCEPT !.host = (@ + Packets(op[p].size)) % 2] ELSE toggle
      /\ UNCHANGED <<busy, woken, frame, op, ops, queue, dropped, script>>
  BY DEF SetFrameListEntry
<1>2. p # Cleaner /\ frame[p] # 0 /\ frame[p] \in 0 .. NFrames /\ frame' = [frame EXCEPT ![p] = frame[p]]
  BY <1>1, FrameFacts, PlaceFacts, SameFrame DEF Held, AtLock
<1>3. op[p].made \subseteq Part /\ Listed(op[p]) = op[p].made
  BY PlaceFacts, TransferFacts
<1>4. live' \in [Frame -> SUBSET Part] /\ local' = live'
  <2>1. local' = [local EXCEPT ![frame[p]] = @ \cup op[p].made]
    BY <1>3 DEF SetFrameListEntry
  <2>2. local = live /\ live \in [Frame -> SUBSET Part]
    BY DEF Types
  <2> QED
    BY <1>1, <1>3, <2>1, <2>2
<1>5. TogglesRight' /\ toggle' \in Toggles
  BY <1>1, LinkToggles
<1>6. /\ busy' \in BOOLEAN /\ woken' \in BOOLEAN /\ op' \in [Process -> Transfer]
      /\ script' \in Seq(Transfer) /\ entry' \in [Frame -> {"free", "taken", "set"}]
      /\ queue' \in Seq(Frame) /\ dropped' \subseteq Frame
  BY <1>1 DEF Types
<1>7. Types'
  BY <1>1, <1>2, <1>4, <1>5, <1>6, TypesMove DEF Held, InUse
<1>8. Inside' = Inside
  BY <1>1 DEF Inside, Types
<1>9. LockRight'
  BY <1>1, <1>8, LockStay
<1>10. ~woken => FramesRight'
  BY <1>1, SetEntryFrames
<1> QED
  BY <1>1, <1>5, <1>7, <1>9, <1>10

LEMMA PollWaitStep ==
  ASSUME UHCIAssumption, IInv, NEW p \in Process, PollWait(p)
  PROVE  IInv'
<1> USE DEF IInv
<1>1. /\ at[p] = "poll" /\ at' = [at EXCEPT ![p] = "read"]
      /\ UNCHANGED <<busy, woken, frame, op, ops, listVars, script>>
  BY DEF PollWait
<1>2. p # Cleaner /\ frame[p] # 0 /\ frame[p] \in 0 .. NFrames /\ frame' = [frame EXCEPT ![p] = frame[p]]
  BY <1>1, FrameFacts, PlaceFacts, SameFrame DEF Held, InUse, AtLock
<1>3. TogglesRight' /\ toggle' \in Toggles
  BY PollToggles
<1>4. /\ busy' \in BOOLEAN /\ woken' \in BOOLEAN /\ op' \in [Process -> Transfer]
      /\ script' \in Seq(Transfer) /\ entry' \in [Frame -> {"free", "taken", "set"}]
      /\ live' \in [Frame -> SUBSET Part] /\ local' = live' /\ queue' \in Seq(Frame) /\ dropped' \subseteq Frame
  BY <1>1 DEF Types, listVars
<1>5. Types'
  BY <1>1, <1>2, <1>3, <1>4, TypesMove DEF Held, InUse
<1>6. Inside' = Inside
  BY <1>1 DEF Inside, Types
<1>7. LockRight'
  BY <1>1, <1>6, LockStay
<1>8. \A q \in Process : /\ at'[q] \in {"found", "build"} => at'[q] = at[q]
                         /\ at'[q] \in InUse => at[q] \in InUse
                         /\ at'[q] \in {"poll", "read"} => at[q] \in {"poll", "read"} /\ op'[q] = op[q]
  BY <1>1 DEF Types, InUse
<1>9. ~woken => FramesRight'
  BY <1>1, <1>8, FramesCalm DEF listVars
<1> QED
  BY <1>1, <1>3, <1>5, <1>7, <1>9

LEMMA ReadResultStep ==
  ASSUME UHCIAssumption, IInv, NEW p \in Process, ReadResult(p)
  PROVE  IInv'
<1> USE DEF IInv
<1>1. /\ at[p] = "read" /\ at' = [at EXCEPT ![p] = "clean"]
      /\ UNCHANGED <<busy, woken, frame, op, ops, listVars, script, toggle>>
  BY DEF ReadResult
<1>2. op[p] \in Transfer /\ op' = [op EXCEPT ![p] = op[p]]
  BY <1>1, SameTransfer
<1>3. p # Cleaner /\ busy' \in BOOLEAN /\ woken' \in BOOLEAN
  BY <1>1, PlaceFacts DEF Types, AtLock
<1>4. ~woken' => ~woken
  BY <1>1
<1>5. Types' /\ TogglesRight' /\ (~woken' => FramesRight')
  BY <1>1, <1>2, <1>3, <1>4, CalmMove DEF Held, InUse, AtLock
<1>6. Inside' = Inside
  BY <1>1 DEF Inside, Types
<1>7. LockRight'
  BY <1>1, <1>6, LockStay
<1> QED
  BY <1>5, <1>7

LEMMA CleanFrameStep ==
  ASSUME UHCIAssumption, IInv, NEW p \in Process, CleanFrame(p)
  PROVE  IInv'
<1> USE DEF IInv
<1>1. /\ at[p] = "clean" /\ at' = [at EXCEPT ![p] = "idle"] /\ frame' = [frame EXCEPT ![p] = 0]
      /\ IF LastOfProbe(p) THEN queue' = <<>> /\ dropped' = dropped \cup ToSet(queue) \cup {frame[p]}
         ELSE Push(p)
      /\ UNCHANGED <<busy, woken, op, ops, entry, live, local, toggle>>
  BY DEF CleanFrame
<1>2. script' \in Seq(Transfer)
  <2>1. script' = script \/ (script # <<>> /\ script' = Tail(script))
    BY DEF CleanFrame, Probing
  <2>2. script \in Seq(Transfer)
    BY DEF Types
  <2> QED
    BY <2>1, <2>2
\* Also after a waiter came in the queue and the dropped frames are frames.
<1>3. queue' \in Seq(Frame) /\ dropped' \subseteq Frame
  <2>1. frame[p] \in Frame
    BY <1>1, PlaceFacts DEF Held, InUse
  <2>2. queue \in Seq(Frame) /\ dropped \subseteq Frame /\ ToSet(queue) \subseteq Frame
    BY DEF Types, ToSet
  <2>3. \/ queue' = <<>> /\ dropped' = dropped \cup ToSet(queue) \cup {frame[p]}
        \/ queue' = queue /\ dropped' = dropped \cup {frame[p]}
        \/ queue' = Append(queue, frame[p]) /\ dropped' = dropped
    BY <1>1 DEF Push
  <2>4. queue' \in Seq(Frame)
    <3>1. queue' = <<>> \/ queue' = queue \/ queue' = Append(queue, frame[p])
      BY <2>3
    <3>2. <<>> \in Seq(Frame) /\ Append(queue, frame[p]) \in Seq(Frame)
      BY <2>1, <2>2
    <3> QED
      BY <2>2, <3>1, <3>2
  <2>5. dropped' \subseteq Frame
    BY <2>1, <2>2, <2>3
  <2> QED
    BY <2>4, <2>5
<1>4. /\ busy' \in BOOLEAN /\ woken' \in BOOLEAN /\ op' \in [Process -> Transfer]
      /\ entry' \in [Frame -> {"free", "taken", "set"}]
      /\ live' \in [Frame -> SUBSET Part] /\ local' = live' /\ toggle' \in Toggles
  BY <1>1 DEF Types
<1>5. 0 \in 0 .. NFrames
  BY FrameFacts
<1>6. Types'
  BY <1>1, <1>2, <1>3, <1>4, <1>5, TypesMove DEF Held, InUse, AtLock
<1>7. Inside' = Inside
  BY <1>1 DEF Inside, Types
<1>8. LockRight'
  BY <1>1, <1>7, LockStay
<1>9. ~woken => FramesRight'
  BY <1>1, CleanFrameFrames
<1>10. Odd' = Odd
  BY <1>1, OddStays
<1>11. TogglesRight'
  BY <1>1, <1>10, TogglesStay
<1> QED
  BY <1>1, <1>6, <1>8, <1>9, <1>11

LEMMA TimerTriggerStep ==
  ASSUME UHCIAssumption, IInv, TimerTrigger
  PROVE  IInv'
<1> USE DEF IInv
<1>1. Cleaner \in Process
  BY ProcessFacts
<1>2. at[Cleaner] = "idle" /\ Lock(Cleaner) /\ UNCHANGED <<woken, frame, op, ops, listVars, script, toggle>>
  BY DEF TimerTrigger
<1>3. PICK x \in {"wait", "inside"} : at' = [at EXCEPT ![Cleaner] = x] /\ busy' \in BOOLEAN
  BY <1>1, <1>2, LockMoves
<1>4. op[Cleaner] \in Transfer /\ op' = [op EXCEPT ![Cleaner] = op[Cleaner]]
  BY <1>1, <1>2, SameTransfer
<1>5. woken' \in BOOLEAN
  BY <1>2 DEF Types
<1>6. ~woken' => ~woken
  BY <1>2
<1>7. Types' /\ TogglesRight' /\ (~woken' => FramesRight')
  BY <1>1, <1>2, <1>3, <1>4, <1>5, <1>6, CalmMove DEF Held, InUse, AtLock
<1>8. LockRight'
  BY <1>1, <1>2, LockEnter
<1> QED
  BY <1>7, <1>8

LEMMA GetNextFrameToCleanStep ==
  ASSUME UHCIAssumption, IInv, GetNextFrameToClean
  PROVE  IInv'
<1> USE DEF IInv
<1>1. Cleaner \in Process
  BY ProcessFacts
<1>2. at[Cleaner] = "inside" /\ busy' = FALSE
      /\ UNCHANGED <<woken, op, ops, entry, live, local, dropped, script, toggle>>
  BY DEF GetNextFrameToClean
<1>3. busy' \in BOOLEAN /\ woken' \in BOOLEAN
  BY <1>2 DEF Types
<1>4. ~woken' => ~woken
  BY <1>2
<1>5. CASE queue = <<>>
  <2>1. at' = [at EXCEPT ![Cleaner] = "idle"] /\ UNCHANGED <<frame, queue>>
    BY <1>5 DEF GetNextFrameToClean
  <2>2. UNCHANGED <<frame, listVars, script, toggle>>
    BY <1>2, <2>1 DEF listVars
  <2>3. op[Cleaner] \in Transfer /\ op' = [op EXCEPT ![Cleaner] = op[Cleaner]]
    BY <1>1, <1>2, SameTransfer
  <2>4. Types' /\ TogglesRight' /\ (~woken' => FramesRight')
    BY <1>1, <1>2, <1>3, <1>4, <2>1, <2>2, <2>3, CalmMove DEF Held, InUse, AtLock
  <2>5. LockRight'
    BY <1>1, <1>2, <2>1, LockLeave
  <2> QED
    BY <2>4, <2>5
<1>6. CASE queue # <<>>
  <2>1. /\ at' = [at EXCEPT ![Cleaner] = "free"] /\ frame' = [frame EXCEPT ![Cleaner] = Head(queue)]
        /\ queue' = Tail(queue)
    BY <1>6 DEF GetNextFrameToClean
  <2>2. queue \in Seq(Frame)
    BY DEF Types
  <2>3. Head(queue) \in Frame /\ queue' \in Seq(Frame)
    BY <1>6, <2>1, <2>2
  <2>4. Head(queue) # 0 /\ Head(queue) \in 0 .. NFrames
    BY <2>3, FrameFacts DEF Frame
  <2>5. /\ op' \in [Process -> Transfer] /\ script' \in Seq(Transfer)
        /\ entry' \in [Frame -> {"free", "taken", "set"}]
        /\ live' \in [Frame -> SUBSET Part] /\ local' = live' /\ dropped' \subseteq Frame /\ toggle' \in Toggles
    BY <1>2 DEF Types
  <2>6. Types'
    BY <1>1, <1>3, <2>1, <2>3, <2>4, <2>5, TypesMove DEF Held, InUse
  <2>7. LockRight'
    BY <1>1, <1>2, <2>1, LockLeave
  <2>8. ~woken => FramesRight'
    BY <1>2, <1>6, <2>1, NextFrameFrames
  <2>9. Odd' = Odd
    BY <1>1, <1>2, <2>1, OddStays
  <2>10. TogglesRight'
    BY <1>2, <2>9, TogglesStay
  <2> QED
    BY <1>4, <2>6, <2>7, <2>8, <2>10
<1> QED
  BY <1>5, <1>6

LEMMA ReleaseFrameResourceStep ==
  ASSUME UHCIAssumption, IInv, ReleaseFrameResource
  PROVE  IInv'
<1> USE DEF IInv
<1> DEFINE f == frame[Cleaner]
<1>1. Cleaner \in Process
  BY ProcessFacts
<1>2. /\ at[Cleaner] = "free" /\ Lock(Cleaner) /\ frame' = [frame EXCEPT ![Cleaner] = 0]
      /\ live' = [live EXCEPT ![f] = @ \ local[f]] /\ local' = [local EXCEPT ![f] = {}]
      /\ entry' = [entry EXCEPT ![f] = "free"]
      /\ UNCHANGED <<woken, op, ops, queue, dropped, script, toggle>>
  BY DEF ReleaseFrameResource
\* All that hangs on the frame is on its list.
<1>3. local = live /\ live \in [Frame -> SUBSET Part]
  BY DEF Types
<1>4. live' = [live EXCEPT ![f] = {}] /\ local' = live' /\ live' \in [Frame -> SUBSET Part]
  <2>1. live[f] \ local[f] = {}
    BY <1>3
  <2> QED
    BY <1>2, <1>3, <2>1
<1>5. PICK x \in {"wait", "inside"} : at' = [at EXCEPT ![Cleaner] = x] /\ busy' \in BOOLEAN
  BY <1>1, <1>2, LockMoves
<1>6. /\ woken' \in BOOLEAN /\ op' \in [Process -> Transfer] /\ script' \in Seq(Transfer)
      /\ entry' \in [Frame -> {"free", "taken", "set"}]
      /\ queue' \in Seq(Frame) /\ dropped' \subseteq Frame /\ toggle' \in Toggles
  BY <1>2 DEF Types
<1>7. 0 \in 0 .. NFrames
  BY FrameFacts
<1>8. Types'
  BY <1>1, <1>2, <1>4, <1>5, <1>6, <1>7, TypesMove DEF Held, InUse, AtLock
<1>9. LockRight'
  BY <1>1, <1>2, LockEnter
<1>10. ~woken => FramesRight'
  BY <1>2, <1>4, <1>5, ReleaseFrames
<1>11. Odd' = Odd
  BY <1>1, <1>2, <1>5, OddStays
<1>12. TogglesRight'
  BY <1>2, <1>11, TogglesStay
<1> QED
  BY <1>2, <1>8, <1>9, <1>10, <1>12

-----------------------------------------------------------------------------
(* The invariant, and what follows from it.                                *)

LEMMA InitInv == ASSUME UHCIAssumption, Init PROVE IInv
<1>1. Types
  <2>1. 0 \in 0 .. NFrames /\ GetMaxLun \in Transfer /\ Cleaner \in Process
    BY FrameFacts, ProcessFacts DEF Transfer
  <2>2. script \in Seq(Transfer)
    BY ScriptType DEF Init
  <2>3. toggle \in Toggles
    BY DEF Init, Toggles
  <2>4. queue \in Seq(Frame) /\ dropped \subseteq Frame
    BY DEF Init
  <2>5. \A p \in Process : at[p] = "idle" /\ frame[p] = 0
    BY DEF Init
  <2>6. /\ at \in [Process -> Held \cup AtLock] /\ frame \in [Process -> 0 .. NFrames]
        /\ op \in [Process -> Transfer]
    BY <2>1 DEF Init, AtLock
  <2>7. /\ entry \in [Frame -> {"free", "taken", "set"}] /\ live \in [Frame -> SUBSET Part] /\ local = live
        /\ busy \in BOOLEAN /\ woken \in BOOLEAN
    BY DEF Init
  <2>8. at[Cleaner] \in AtLock \cup {"free"} /\ \A p \in Driver : at[p] # "free"
    BY <2>1, <2>5, ProcessFacts DEF AtLock
  <2>9. \A p \in Process : frame[p] # 0 <=> at[p] \in Held
    BY <2>5 DEF Held, InUse
  <2> QED
    BY <2>2, <2>3, <2>4, <2>6, <2>7, <2>8, <2>9 DEF Types
<1>2. LockRight
  <2>1. Inside = {} /\ busy = FALSE
    BY DEF Init, Inside
  <2> QED
    BY <2>1 DEF LockRight
<1>3. FramesRight
  <2>1. \A p \in Process : at[p] = "idle" /\ frame[p] = 0
    BY DEF Init
  <2>2. DOMAIN queue = {} /\ Range(queue) = {} /\ dropped = {}
    BY DEF Init, Range
  <2>3. \A f \in Frame : entry[f] = "free" /\ live[f] = {}
    BY DEF Init
  <2>4. \A p \in Driver : at[p] = "idle"
    BY <2>1, ProcessFacts
  <2> QED
    BY <2>1, <2>2, <2>3, <2>4 DEF FramesRight, InUse
<1>4. TogglesRight
  <2>1. Odd = {} /\ toggle.host = 0 /\ toggle.device = 0
    BY DEF Init, Odd
  <2>2. Cardinality(Odd) = 0
    BY <2>1, FS_EmptySet
  <2> QED
    BY <2>1, <2>2 DEF TogglesRight
<1> QED
  BY <1>1, <1>2, <1>3, <1>4 DEF IInv

LEMMA NextStep == ASSUME UHCIAssumption, IInv, [Next]_vars PROVE IInv'
<1>1. ASSUME NEW p \in Process, Step(p)
      PROVE  IInv'
  BY <1>1, WakeStep, ScanFrameStep, TakeFrameStep, SetFrameListEntryStep, PollWaitStep, ReadResultStep,
     CleanFrameStep DEF Step
<1>2. ASSUME NEW p \in Driver, NEW o \in IF Probing THEN {Head(script)} ELSE StorageTransfer, Call(p, o)
      PROVE  IInv'
  <2>1. script \in Seq(Transfer)
    BY DEF IInv, Types
  <2>2. o \in Transfer
    BY <2>1 DEF Probing, StorageTransfer
  <2> QED
    BY <1>2, <2>2, CallStep
<1>3. ASSUME NEW p \in Driver, NEW n \in Length, RefuseBulk(p, n)
      PROVE  IInv'
  BY <1>3, SameStep DEF RefuseBulk
<1>4. CASE TimerTrigger \/ GetNextFrameToClean \/ ReleaseFrameResource
  BY <1>4, TimerTriggerStep, GetNextFrameToCleanStep, ReleaseFrameResourceStep
<1>5. CASE UNCHANGED vars
  BY <1>5, SameStep DEF vars, listVars
<1> QED
  BY <1>1, <1>2, <1>3, <1>4, <1>5 DEF Next

LEMMA InvHolds == ASSUME UHCIAssumption PROVE Spec => []IInv
<1>1. Init => IInv
  BY InitInv
<1>2. IInv /\ [Next]_vars => IInv'
  BY NextStep
<1> QED
  BY <1>1, <1>2, PTL DEF Spec

\* Every variable keeps its type: of whatever length a transfer is and however
\* many wait for the lock, a process has a frame of the list or none, and only
\* frames of the list are queued for the cleaner.
THEOREM UHCITypes == ASSUME UHCIAssumption PROVE Spec => []TypeOK
<1>1. IInv => TypeOK
  BY QueueEnds DEF IInv, Types, TypeOK, Range
<1> QED
  BY <1>1, InvHolds, PTL

\* RESOURCE_UHCI_FRM_BUF is never left busy with nobody inside, on the way out
\* of GetNextFreeFrame without a frame too, and two processes are inside only
\* after a waiter came in, which returns from Lock without taking the lock.
THEOREM LockIsHeld == ASSUME UHCIAssumption PROVE Spec => []LockHeld
<1>1. ASSUME IInv
      PROVE  LockHeld
  <2>1. busy => Inside # {}
    BY <1>1 DEF IInv, LockRight
  <2>2. Inside \subseteq Process
    BY DEF Inside
  <2>3. ASSUME ~woken
        PROVE  ~(Cardinality(Inside) > 1)
    <3>1. CASE Inside = {}
      BY <3>1, FS_EmptySet
    <3>2. CASE Inside # {}
      <4>1. PICK p : Inside = {p}
        BY <1>1, <2>3, <3>2 DEF IInv, LockRight
      <4>2. Cardinality(Inside) = 1
        BY <4>1, FS_Singleton
      <4> QED
        BY <4>2
    <3> QED
      BY <3>1, <3>2
  <2> QED
    BY <2>1, <2>3 DEF LockHeld
<1> QED
  BY <1>1, InvHolds, PTL

\* As long as no waiter came in, every frame has exactly one owner: the free
\* list, one process, one place in the queue of the cleaner, or it is dropped.
\* Two transfers never share a frame, and none is freed twice or under way.
THEOREM FramesOwnedOnce == ASSUME UHCIAssumption PROVE Spec => []FrameOwnedOnce
<1>1. ASSUME IInv, ~woken, NEW f \in Frame
      PROVE  Cardinality(Using(f)) + Cardinality({i \in DOMAIN queue : queue[i] = f})
             + (IF f \in dropped THEN 1 ELSE 0) + (IF entry[f] = "free" THEN 1 ELSE 0) = 1
  <2> DEFINE queued == {i \in DOMAIN queue : queue[i] = f}
  <2>1. Types /\ FramesRight
    BY <1>1 DEF IInv
  <2>2. f # 0
    BY FrameFacts
  <2>3. \A p \in Process : frame[p] = f => at[p] \in Held
    BY <2>1, <2>2 DEF Types
  <2>4. f \notin Range(queue) => queued = {}
    BY DEF Range
  <2>5. CASE entry[f] = "free"
    <3>1. f \notin Range(queue) /\ f \notin dropped
      BY <2>1, <2>5 DEF FramesRight
    <3>2. Using(f) = {}
      BY <2>1, <2>3, <2>5 DEF FramesRight, Using, Held
    <3> QED
      BY <2>4, <2>5, <3>1, <3>2, FS_EmptySet
  <2>6. CASE f \in Range(queue)
    <3>1. entry[f] # "free" /\ f \notin dropped /\ \A p \in Process : frame[p] # f
      BY <2>1, <2>6 DEF FramesRight
    <3>2. Using(f) = {}
      BY <3>1 DEF Using
    <3>3. PICK i \in DOMAIN queue : queue[i] = f
      BY <2>6 DEF Range
    <3>4. queued = {i}
      BY <2>1, <3>3 DEF FramesRight
    <3>5. Cardinality(queued) = 1
      BY <3>4, FS_Singleton
    <3> QED
      BY <3>1, <3>2, <3>5, FS_EmptySet
  <2>7. CASE f \in dropped
    <3>1. entry[f] # "free" /\ f \notin Range(queue) /\ \A p \in Process : frame[p] # f
      BY <2>1, <2>7 DEF FramesRight
    <3>2. Using(f) = {}
      BY <3>1 DEF Using
    <3> QED
      BY <2>4, <2>7, <3>1, <3>2, FS_EmptySet
  <2>8. CASE entry[f] # "free" /\ \E p \in Process : frame[p] = f
    <3>1. PICK p \in Process : frame[p] = f
      BY <2>8
    <3>2. f \notin Range(queue) /\ f \notin dropped
      BY <2>1, <3>1 DEF FramesRight
    <3>3. at[p] \notin {"inside", "found"}
      BY <2>1, <2>3, <2>8, <3>1 DEF FramesRight, Held, InUse
    <3>4. Using(f) = {p}
      BY <2>1, <2>2, <3>1, <3>3 DEF FramesRight, Using
    <3>5. Cardinality(Using(f)) = 1
      BY <3>4, FS_Singleton
    <3> QED
      BY <2>4, <2>8, <3>2, <3>5, FS_EmptySet
  <2> QED
    BY <2>1, <2>5, <2>6, <2>7, <2>8 DEF FramesRight
<1>2. IInv => FrameOwnedOnce
  BY <1>1 DEF FrameOwnedOnce
<1> QED
  BY <1>2, InvHolds, PTL

\* As long as no waiter came in, the buffers and descriptors of a transfer are
\* there until its result was read: the cleaner never frees them before.
THEOREM ResultsThere == ASSUME UHCIAssumption PROVE Spec => []ResultThere
<1>1. IInv => ResultThere
  BY DEF IInv, FramesRight, ResultThere
<1> QED
  BY <1>1, InvHolds, PTL

\* As long as no waiter came in, a frame given out has nothing left on it of an
\* earlier transfer: all that a transfer makes is on the list of its frame.
THEOREM FramesClean == ASSUME UHCIAssumption PROVE Spec => []NothingLeft
<1>1. IInv => NothingLeft
  BY DEF IInv, Types, FramesRight, NothingLeft
<1> QED
  BY <1>1, InvHolds, PTL

\* With no transfer under way the toggles of driver and device agree, unless a
\* transfer failed since the endpoint was cleared, or it was cleared under one.
THEOREM TogglesRightly == ASSUME UHCIAssumption PROVE Spec => []TogglesAgree
<1>1. ASSUME IInv, Polling = {}, ~toggle.failed
      PROVE  toggle.host = toggle.device
  <2>1. Types /\ TogglesRight
    BY <1>1 DEF IInv
  <2>2. Odd = {}
    <3> SUFFICES ASSUME NEW p \in Odd
                 PROVE  FALSE
      OBVIOUS
    <3>1. p \in Process /\ at[p] = "poll" /\ IsBulk(op[p])
      BY DEF Odd
    <3>2. p \in Driver
      BY <2>1, <3>1, PlaceFacts, ProcessFacts DEF AtLock
    <3> QED
      BY <1>1, <3>1, <3>2 DEF Polling
  <2>3. toggle.host = (toggle.device + 0) % 2
    BY <1>1, <2>1, <2>2, FS_EmptySet DEF TogglesRight
  <2>4. toggle.device \in 0 .. 1
    BY <2>1 DEF Types, Toggles
  <2> QED
    BY <2>3, <2>4
<1>2. IInv => TogglesAgree
  BY <1>1 DEF TogglesAgree
<1> QED
  BY <1>2, InvHolds, PTL

\* As long as no waiter came in, the queue has room when a transfer ends, so
\* CleanFrame never loses the frame it should name to the cleaner.
QueueHasRoom == ~woken => \A p \in Process : at[p] = "clean" => Len(queue) < NFrames
THEOREM QueueNeverFull == ASSUME UHCIAssumption PROVE Spec => []QueueHasRoom
<1>1. ASSUME IInv, ~woken, NEW p \in Process, at[p] = "clean"
      PROVE  Len(queue) < NFrames
  <2> DEFINE D == 1 .. Len(queue)
             R == Frame \ {frame[p]}
  <2>1. Types /\ FramesRight
    BY <1>1 DEF IInv
  <2>2. queue \in Seq(Frame) /\ Len(queue) \in Nat /\ DOMAIN queue = D
    BY <2>1 DEF Types
  <2>3. frame[p] \in Frame
    BY <1>1, <2>1, PlaceFacts DEF Held, InUse
  <2>4. \A i \in D : queue[i] \in R
    BY <1>1, <2>1, <2>2 DEF FramesRight, Range
  <2>5. queue \in [D -> R] /\ IsInjective(queue)
    BY <2>1, <2>2, <2>4 DEF FramesRight, IsInjective
  <2>6. queue \in Injection(D, R)
    BY <2>5 DEF Injection
  <2>7. NFrames \in Nat /\ IsFiniteSet(Frame) /\ Cardinality(Frame) = NFrames
    BY FrameFacts, FS_Interval DEF Frame, UHCIAssumption
  <2>8. IsFiniteSet(R) /\ Cardinality(R) = NFrames - 1
    BY <2>3, <2>7, FS_RemoveElement
  <2>9. Cardinality(D) = Len(queue)
    BY <2>2, FS_Interval
  <2> HIDE DEF D, R
  <2>10. Cardinality(D) <= Cardinality(R)
    BY <2>6, <2>8, FS_Injection
  <2> QED
    BY <2>2, <2>7, <2>8, <2>9, <2>10
<1>2. IInv => QueueHasRoom
  BY <1>1 DEF QueueHasRoom
<1> QED
  BY <1>2, InvHolds, PTL

-----------------------------------------------------------------------------
(***************************************************************************)
(* XHCI: the event ring, the interrupts and the bringing up, for any rings *)
(* and devices.  The names XHCI shares with UHCI are the same variables; a *)
(* behaviour of the one is none of the other.                              *)
(***************************************************************************)
CONSTANTS Disk, Keyboard, Port, Configured, RingSize, EventSize, PageSize, MaxKeys, MaxErrors
VARIABLES boot, toProbe, driven, keys, ring, cmd, hc, halted, errors, pending, event, produced,
          eventDQ, eventCycle, unread, busyBit, status, msi, irq, lost, results
X == INSTANCE XHCI

Source == (X!Rings \cup {X!Command}) \X Int
EventTypes ==
  /\ hc \in [X!Rings \cup {X!Command} -> [idx : 0 .. RingSize - 1, cycle : BOOLEAN]]
  /\ event \in [0 .. EventSize - 1 -> [cycle : BOOLEAN, of : Source \cup {X!NoEvent}, ok : BOOLEAN]]
  /\ unread \in Seq([of : Source, ok : BOOLEAN]) /\ Len(unread) < EventSize
  /\ eventDQ \in 0 .. EventSize - 1 /\ eventCycle \in BOOLEAN

\* The i-th slot from the handler's place on, and whether the ring's end lies
\* before it.
Slot(i) == IF eventDQ + i - 1 < EventSize THEN eventDQ + i - 1 ELSE eventDQ + i - 1 - EventSize
Lap(i) == eventDQ + i - 1 >= EventSize
\* The controller is as far behind the handler's place as there are events
\* unread; those have the handler's cycle bit, all other slots not.
RingRight ==
  /\ produced.idx = Slot(Len(unread) + 1)
  /\ produced.cycle = IF Lap(Len(unread) + 1) THEN ~eventCycle ELSE eventCycle
  /\ produced = [idx |-> produced.idx, cycle |-> produced.cycle]
  /\ \A i \in 1 .. Len(unread) :
       /\ event[Slot(i)].of = unread[i].of /\ event[Slot(i)].ok = unread[i].ok
       /\ event[Slot(i)].cycle = IF Lap(i) THEN ~eventCycle ELSE eventCycle
  /\ \A i \in Len(unread) + 1 .. EventSize :
       event[Slot(i)].cycle = IF Lap(i) THEN eventCycle ELSE ~eventCycle

\* Who waits for the interrupt handler is announced, unless it was lost.
Announced == busyBit /\ irq = "idle" /\ ~lost => msi /\ status

\* Where the controller stands while it is brought up.
BootRight ==
  /\ boot \in [stage : {"Stop", "HCReset", "Handoff", "SetUp", "Run", "Up", "Failed"},
               running : BOOLEAN, bios : BOOLEAN]
  /\ boot.stage \in {"SetUp", "Run", "Up"} => ~boot.bios
  /\ boot.stage = "Up" => boot.running
  /\ DOMAIN at = X!Waits /\ \A d \in X!Waits : at[d] # "idle" => boot.stage = "Up"

EventInv == EventTypes /\ RingRight

LEMMA SlotFacts ==
  ASSUME X!XHCIAssumption, EventTypes
  PROVE  /\ EventSize \in Nat /\ EventSize > 1 /\ Len(unread) \in Nat /\ Len(unread) + 1 \in 1 .. EventSize
         /\ \A i \in 1 .. EventSize : Slot(i) \in 0 .. EventSize - 1
         /\ \A i, j \in 1 .. EventSize : Slot(i) = Slot(j) => i = j
         /\ \A i \in 1 .. EventSize : (eventDQ + i - 1) % EventSize = Slot(i)
<1>1. EventSize \in Nat /\ EventSize > 1 /\ Len(unread) \in Nat /\ Len(unread) < EventSize /\ eventDQ \in 0 .. EventSize - 1
  BY DEF X!XHCIAssumption, EventTypes
<1>2. \A i \in 1 .. EventSize : Slot(i) \in 0 .. EventSize - 1
  BY <1>1 DEF Slot
<1>3. \A i, j \in 1 .. EventSize : Slot(i) = Slot(j) => i = j
  BY <1>1 DEF Slot
<1>4. \A i \in 1 .. EventSize : (eventDQ + i - 1) % EventSize = Slot(i)
  <2> SUFFICES ASSUME NEW i \in 1 .. EventSize
               PROVE  (eventDQ + i - 1) % EventSize = Slot(i)
    OBVIOUS
  <2>1. CASE eventDQ + i - 1 < EventSize
    BY <1>1, <2>1 DEF Slot
  <2>2. CASE eventDQ + i - 1 >= EventSize
    BY <1>1, <2>2 DEF Slot
  <2> QED
    BY <1>1, <2>1, <2>2
<1> QED
  BY <1>1, <1>2, <1>3, <1>4

\* The controller writes an event: never over one that was not read.
LEMMA PublishStep ==
  ASSUME X!XHCIAssumption, EventInv, X!Room, NEW of \in Source, NEW ok \in BOOLEAN, X!Publish(of, ok),
         UNCHANGED <<eventDQ, eventCycle>>
  PROVE  /\ RingRight' /\ unread' \in Seq([of : Source, ok : BOOLEAN]) /\ Len(unread') < EventSize
         /\ event' \in [0 .. EventSize - 1 -> [cycle : BOOLEAN, of : Source \cup {X!NoEvent}, ok : BOOLEAN]]
<1> DEFINE n == Len(unread)
           s == produced.idx
<1>1. /\ EventTypes /\ RingRight /\ EventSize \in Nat /\ EventSize > 1 /\ n \in Nat /\ n < EventSize - 1
      /\ eventDQ \in 0 .. EventSize - 1 /\ eventCycle \in BOOLEAN
  BY SlotFacts DEF EventInv, EventTypes, X!Room
<1>2. s = Slot(n + 1) /\ s \in 0 .. EventSize - 1 /\ produced.cycle \in BOOLEAN
      /\ produced.cycle = (IF Lap(n + 1) THEN ~eventCycle ELSE eventCycle)
  BY <1>1, SlotFacts DEF RingRight
<1>3. /\ event' = [event EXCEPT ![s] = [cycle |-> produced.cycle, of |-> of, ok |-> ok]]
      /\ unread' = Append(unread, [of |-> of, ok |-> ok])
      /\ produced' = IF s = EventSize - 1 THEN [idx |-> 0, cycle |-> ~produced.cycle]
                     ELSE [produced EXCEPT !.idx = s + 1]
  BY DEF X!Publish
<1>4. /\ event' \in [0 .. EventSize - 1 -> [cycle : BOOLEAN, of : Source \cup {X!NoEvent}, ok : BOOLEAN]]
      /\ event'[s] = [cycle |-> produced.cycle, of |-> of, ok |-> ok]
      /\ \A k \in 0 .. EventSize - 1 : k # s => event'[k] = event[k]
  BY <1>1, <1>2, <1>3 DEF EventTypes
<1>5. /\ unread' \in Seq([of : Source, ok : BOOLEAN]) /\ Len(unread') = n + 1
      /\ unread'[n + 1] = [of |-> of, ok |-> ok] /\ \A i \in 1 .. n : unread'[i] = unread[i]
  BY <1>1, <1>3 DEF EventTypes
<1>6. \A i \in 1 .. EventSize : Slot(i)' = Slot(i) /\ (Lap(i)' <=> Lap(i))
  BY DEF Slot, Lap
<1>7. \A i \in 1 .. EventSize : i # n + 1 => Slot(i) \in 0 .. EventSize - 1 /\ Slot(i) # s
  BY <1>1, <1>2, SlotFacts
<1>8. n + 2 \in 1 .. EventSize /\ Len(unread') + 1 = n + 2
  BY <1>1, <1>5
<1>9. produced'.idx = Slot(n + 2) /\ produced' = [idx |-> produced'.idx, cycle |-> produced'.cycle]
      /\ produced'.cycle = IF Lap(n + 2) THEN ~eventCycle ELSE eventCycle
  <2>1. produced = [idx |-> s, cycle |-> produced.cycle]
    BY <1>1 DEF RingRight
  <2>2. CASE s = EventSize - 1
    <3>1. produced' = [idx |-> 0, cycle |-> ~produced.cycle]
      BY <1>3, <2>2
    <3>2. Slot(n + 2) = 0 /\ Lap(n + 2) /\ ~Lap(n + 1)
      BY <1>1, <1>2, <2>2 DEF Slot, Lap
    <3> QED
      BY <1>2, <3>1, <3>2
  <2>3. CASE s # EventSize - 1
    <3>1. produced' = [idx |-> s + 1, cycle |-> produced.cycle]
      BY <1>3, <2>1, <2>3
    <3>2. Slot(n + 2) = s + 1 /\ (Lap(n + 2) <=> Lap(n + 1))
      BY <1>1, <1>2, <2>3 DEF Slot, Lap
    <3> QED
      BY <1>2, <3>1, <3>2
  <2> QED
    BY <2>2, <2>3
<1>10. \A i \in 1 .. n + 1 :
         /\ event'[Slot(i)].of = unread'[i].of /\ event'[Slot(i)].ok = unread'[i].ok
         /\ event'[Slot(i)].cycle = IF Lap(i) THEN ~eventCycle ELSE eventCycle
  <2> SUFFICES ASSUME NEW i \in 1 .. n + 1
               PROVE  /\ event'[Slot(i)].of = unread'[i].of /\ event'[Slot(i)].ok = unread'[i].ok
                      /\ event'[Slot(i)].cycle = IF Lap(i) THEN ~eventCycle ELSE eventCycle
    OBVIOUS
  <2>1. CASE i = n + 1
    BY <1>2, <1>4, <1>5, <2>1
  <2>2. CASE i # n + 1
    <3>1. i \in 1 .. n /\ i \in 1 .. EventSize
      BY <1>1, <2>2
    <3>2. event'[Slot(i)] = event[Slot(i)] /\ unread'[i] = unread[i]
      BY <1>4, <1>5, <1>7, <2>2, <3>1
    <3> QED
      BY <1>1, <3>1, <3>2 DEF RingRight
  <2> QED
    BY <2>1, <2>2
<1>11. \A i \in n + 2 .. EventSize : event'[Slot(i)].cycle = IF Lap(i) THEN eventCycle ELSE ~eventCycle
  <2> SUFFICES ASSUME NEW i \in n + 2 .. EventSize
               PROVE  event'[Slot(i)].cycle = IF Lap(i) THEN eventCycle ELSE ~eventCycle
    OBVIOUS
  <2>1. i \in n + 1 .. EventSize /\ i \in 1 .. EventSize /\ i # n + 1
    BY <1>1
  <2>2. event'[Slot(i)] = event[Slot(i)]
    BY <1>4, <1>7, <2>1
  <2> QED
    BY <1>1, <2>1, <2>2 DEF RingRight
<1>12. RingRight'
  <2> USE DEF RingRight
  <2>1. (produced.idx = Slot(Len(unread) + 1))'
    BY <1>8, <1>9 DEF Slot
  <2>2. (produced.cycle = IF Lap(Len(unread) + 1) THEN ~eventCycle ELSE eventCycle)'
    BY <1>8, <1>9 DEF Lap
  <2>3. (\A i \in 1 .. Len(unread) :
           /\ event[Slot(i)].of = unread[i].of /\ event[Slot(i)].ok = unread[i].ok
           /\ event[Slot(i)].cycle = IF Lap(i) THEN ~eventCycle ELSE eventCycle)'
    BY <1>5, <1>10 DEF Slot, Lap
  <2>4. (\A i \in Len(unread) + 1 .. EventSize :
           event[Slot(i)].cycle = IF Lap(i) THEN eventCycle ELSE ~eventCycle)'
    BY <1>5, <1>8, <1>11 DEF Slot, Lap
  <2> QED
    BY <1>9, <2>1, <2>2, <2>3, <2>4
<1> QED
  BY <1>1, <1>4, <1>5, <1>12

\* The handler reads an event: there is one, and it is the first unread.
LEMMA ReadStep ==
  ASSUME X!XHCIAssumption, EventInv, X!NotifyEvents
  PROVE  EventInv'
<1>0. PICK n \in Nat : n = Len(unread)
  BY SlotFacts DEF EventInv
<1>1. /\ EventTypes /\ RingRight /\ EventSize \in Nat /\ EventSize > 1 /\ n \in Nat /\ n < EventSize
      /\ eventDQ \in 0 .. EventSize - 1 /\ eventCycle \in BOOLEAN
  BY <1>0, SlotFacts DEF EventInv, EventTypes
<1>2. /\ event[eventDQ].cycle = eventCycle /\ eventDQ' = (eventDQ + 1) % EventSize
      /\ eventCycle' = (IF eventDQ = EventSize - 1 THEN ~eventCycle ELSE eventCycle)
      /\ unread' = (IF unread = <<>> THEN unread ELSE Tail(unread))
      /\ UNCHANGED <<hc, event, produced>>
  BY DEF X!NotifyEvents, X!hcv
<1>3. Slot(1) = eventDQ /\ ~Lap(1)
  BY <1>1 DEF Slot, Lap
<1>4. unread # <<>>
  <2> SUFFICES ASSUME unread = <<>>
               PROVE  FALSE
    OBVIOUS
  <2>1. n = 0 /\ 1 \in n + 1 .. EventSize
    BY <1>0, <1>1
  <2>2. event[Slot(1)].cycle = IF Lap(1) THEN eventCycle ELSE ~eventCycle
    BY <1>0, <1>1, <2>1 DEF RingRight
  <2> QED
    BY <1>1, <1>2, <1>3, <2>2
<1>5. /\ unread' \in Seq([of : Source, ok : BOOLEAN]) /\ n > 0 /\ Len(unread') = n - 1
      /\ \A i \in 1 .. n - 1 : unread'[i] = unread[i + 1]
  BY <1>0, <1>1, <1>2, <1>4 DEF EventTypes
<1>6. eventDQ' = (IF eventDQ = EventSize - 1 THEN 0 ELSE eventDQ + 1) /\ eventDQ' \in 0 .. EventSize - 1
  <2>1. CASE eventDQ = EventSize - 1
    BY <1>1, <1>2, <2>1
  <2>2. CASE eventDQ # EventSize - 1
    BY <1>1, <1>2, <2>2
  <2> QED
    BY <2>1, <2>2
<1>7. EventTypes'
  <2>1. eventCycle' \in BOOLEAN
    BY <1>1, <1>2
  <2>2. Len(unread') < EventSize
    BY <1>1, <1>5
  <2> QED
    BY <1>1, <1>2, <1>5, <1>6, <2>1, <2>2 DEF EventTypes
\* What was the next place is the first now; the bit changes at the ring's end.
<1>8. \A i \in 1 .. EventSize - 1 :
        Slot(i)' = Slot(i + 1) /\ (Lap(i)' <=> (Lap(i + 1) /\ eventDQ # EventSize - 1))
  <2> SUFFICES ASSUME NEW i \in 1 .. EventSize - 1
               PROVE  Slot(i)' = Slot(i + 1) /\ (Lap(i)' <=> (Lap(i + 1) /\ eventDQ # EventSize - 1))
    OBVIOUS
  <2>1. CASE eventDQ = EventSize - 1
    BY <1>1, <1>6, <2>1 DEF Slot, Lap
  <2>2. CASE eventDQ # EventSize - 1
    BY <1>1, <1>6, <2>2 DEF Slot, Lap
  <2> QED
    BY <2>1, <2>2
<1>9. \A i \in 1 .. EventSize - 1 :
        /\ (IF Lap(i)' THEN ~eventCycle' ELSE eventCycle') = (IF Lap(i + 1) THEN ~eventCycle ELSE eventCycle)
        /\ (IF Lap(i)' THEN eventCycle' ELSE ~eventCycle') = (IF Lap(i + 1) THEN eventCycle ELSE ~eventCycle)
  <2> SUFFICES ASSUME NEW i \in 1 .. EventSize - 1
               PROVE
        /\ (IF Lap(i)' THEN ~eventCycle' ELSE eventCycle') = (IF Lap(i + 1) THEN ~eventCycle ELSE eventCycle)
        /\ (IF Lap(i)' THEN eventCycle' ELSE ~eventCycle') = (IF Lap(i + 1) THEN eventCycle ELSE ~eventCycle)
    OBVIOUS
  <2>1. CASE eventDQ = EventSize - 1
    <3>1. ~Lap(i)' /\ Lap(i + 1) /\ eventCycle' = ~eventCycle
      BY <1>1, <1>2, <1>8, <2>1 DEF Lap
    <3> QED
      BY <1>1, <3>1
  <2>2. CASE eventDQ # EventSize - 1
    <3>1. (Lap(i)' <=> Lap(i + 1)) /\ eventCycle' = eventCycle
      BY <1>1, <1>2, <1>8, <2>2
    <3> QED
      BY <3>1
  <2> QED
    BY <2>1, <2>2
<1>10. n \in 1 .. EventSize - 1 /\ Len(unread') + 1 = n
  BY <1>1, <1>5
<1>11. (produced.idx = Slot(Len(unread) + 1))'
  <2>1. Slot(n)' = Slot(n + 1)
    BY <1>8, <1>10
  <2> QED
    BY <1>0, <1>1, <1>2, <1>10, <2>1 DEF RingRight, Slot
<1>12. (produced.cycle = IF Lap(Len(unread) + 1) THEN ~eventCycle ELSE eventCycle)'
  <2>1. (IF Lap(n)' THEN ~eventCycle' ELSE eventCycle') = (IF Lap(n + 1) THEN ~eventCycle ELSE eventCycle)
    BY <1>9, <1>10
  <2>2. produced.cycle = (IF Lap(n + 1) THEN ~eventCycle ELSE eventCycle)
    BY <1>0, <1>1 DEF RingRight
  <2> QED
    BY <1>2, <1>10, <2>1, <2>2 DEF Lap
<1>13. \A i \in 1 .. n - 1 :
         /\ event'[Slot(i)'].of = unread'[i].of /\ event'[Slot(i)'].ok = unread'[i].ok
         /\ event'[Slot(i)'].cycle = IF Lap(i)' THEN ~eventCycle' ELSE eventCycle'
  <2> SUFFICES ASSUME NEW i \in 1 .. n - 1
               PROVE  /\ event'[Slot(i)'].of = unread'[i].of /\ event'[Slot(i)'].ok = unread'[i].ok
                      /\ event'[Slot(i)'].cycle = IF Lap(i)' THEN ~eventCycle' ELSE eventCycle'
    OBVIOUS
  <2>1. i + 1 \in 1 .. n /\ i \in 1 .. EventSize - 1
    BY <1>1
  <2>2. /\ event[Slot(i + 1)].of = unread[i + 1].of /\ event[Slot(i + 1)].ok = unread[i + 1].ok
        /\ event[Slot(i + 1)].cycle = IF Lap(i + 1) THEN ~eventCycle ELSE eventCycle
    BY <1>0, <1>1, <2>1 DEF RingRight
  <2>3. Slot(i)' = Slot(i + 1) /\ unread'[i] = unread[i + 1] /\ event' = event
    BY <1>2, <1>5, <1>8, <2>1
  <2>4. (IF Lap(i)' THEN ~eventCycle' ELSE eventCycle') = (IF Lap(i + 1) THEN ~eventCycle ELSE eventCycle)
    BY <1>9, <2>1
  <2> QED
    BY <2>2, <2>3, <2>4
<1>14. \A i \in n .. EventSize : event'[Slot(i)'].cycle = IF Lap(i)' THEN eventCycle' ELSE ~eventCycle'
  <2> SUFFICES ASSUME NEW i \in n .. EventSize
               PROVE  event'[Slot(i)'].cycle = IF Lap(i)' THEN eventCycle' ELSE ~eventCycle'
    OBVIOUS
  <2>1. CASE i = EventSize
    <3>1. Slot(i)' = eventDQ
      BY <1>1, <1>6, <2>1 DEF Slot
    <3>2. (IF Lap(i)' THEN eventCycle' ELSE ~eventCycle') = eventCycle
      <4>1. CASE eventDQ = EventSize - 1
        <5>1. ~Lap(i)' /\ eventCycle' = ~eventCycle
          BY <1>1, <1>2, <1>6, <2>1, <4>1 DEF Lap
        <5> QED
          BY <1>1, <5>1
      <4>2. CASE eventDQ # EventSize - 1
        <5>1. Lap(i)' /\ eventCycle' = eventCycle
          BY <1>1, <1>2, <1>6, <2>1, <4>2 DEF Lap
        <5> QED
          BY <5>1
      <4> QED
        BY <4>1, <4>2
    <3> QED
      BY <1>2, <3>1, <3>2
  <2>2. CASE i # EventSize
    <3>1. i \in 1 .. EventSize - 1 /\ i + 1 \in n + 1 .. EventSize
      BY <1>1, <1>5, <2>2
    <3>2. event[Slot(i + 1)].cycle = IF Lap(i + 1) THEN eventCycle ELSE ~eventCycle
      BY <1>0, <1>1, <3>1 DEF RingRight
    <3>3. Slot(i)' = Slot(i + 1) /\ event' = event
      BY <1>2, <1>8, <3>1
    <3>4. (IF Lap(i)' THEN eventCycle' ELSE ~eventCycle') = (IF Lap(i + 1) THEN eventCycle ELSE ~eventCycle)
      BY <1>9, <3>1
    <3> QED
      BY <3>2, <3>3, <3>4
  <2> QED
    BY <2>1, <2>2
<1>15. RingRight'
  <2>1. (produced = [idx |-> produced.idx, cycle |-> produced.cycle])'
    BY <1>1, <1>2 DEF RingRight
  <2>2. (\A i \in 1 .. Len(unread) :
           /\ event[Slot(i)].of = unread[i].of /\ event[Slot(i)].ok = unread[i].ok
           /\ event[Slot(i)].cycle = IF Lap(i) THEN ~eventCycle ELSE eventCycle)'
    BY <1>5, <1>13 DEF Slot, Lap
  <2>3. (\A i \in Len(unread) + 1 .. EventSize :
           event[Slot(i)].cycle = IF Lap(i) THEN eventCycle ELSE ~eventCycle)'
    BY <1>10, <1>14 DEF Slot, Lap
  <2> QED
    BY <1>11, <1>12, <2>1, <2>2, <2>3 DEF RingRight
<1> QED
  BY <1>7, <1>15 DEF EventInv

LEMMA CommandStep ==
  ASSUME X!XHCIAssumption, EventInv, X!DoCommand
  PROVE  EventInv'
<1>1. EventTypes /\ X!Room /\ UNCHANGED <<eventDQ, eventCycle>>
  BY DEF EventInv, X!DoCommand, X!irqv
<1>2. PICK ok \in BOOLEAN : X!Publish(<<X!Command, 0>>, ok)
  BY DEF X!DoCommand
<1>3. <<X!Command, 0>> \in Source
  BY DEF Source
<1>4. /\ RingRight' /\ unread' \in Seq([of : Source, ok : BOOLEAN]) /\ Len(unread') < EventSize
      /\ event' \in [0 .. EventSize - 1 -> [cycle : BOOLEAN, of : Source \cup {X!NoEvent}, ok : BOOLEAN]]
  BY <1>1, <1>2, <1>3, PublishStep
<1>5. hc' \in [X!Rings \cup {X!Command} -> [idx : 0 .. RingSize - 1, cycle : BOOLEAN]]
  <2>1. PICK c \in BOOLEAN : hc' = [hc EXCEPT ![X!Command].cycle = c]
    <3>1. hc[X!Command].cycle \in BOOLEAN
      BY <1>1 DEF EventTypes
    <3> QED
      BY <3>1 DEF X!DoCommand
  <2> QED
    BY <1>1, <2>1 DEF EventTypes
<1> QED
  BY <1>1, <1>4, <1>5 DEF EventInv, EventTypes

\* A transfer slot makes an event or none.
LEMMA SlotStep ==
  ASSUME X!XHCIAssumption, EventInv, NEW r \in X!Rings, NEW ok \in BOOLEAN, X!DoSlot(r, ok)
  PROVE  EventInv'
<1> DEFINE p == X!Follow(ring[r].slot, hc[r])
<1>1. /\ EventTypes /\ RingRight /\ UNCHANGED <<eventDQ, eventCycle>>
      /\ RingSize \in Nat /\ RingSize > 3
  BY DEF EventInv, X!DoSlot, X!irqv, X!XHCIAssumption
<1>2. p \in [idx : 0 .. RingSize - 1, cycle : BOOLEAN]
  <2>1. hc[r] \in [idx : 0 .. RingSize - 1, cycle : BOOLEAN]
    BY <1>1 DEF EventTypes
  <2>2. 0 \in 0 .. RingSize - 1
    BY <1>1
  <2>3. p = hc[r] \/ \E c \in BOOLEAN : p = [idx |-> 0, cycle |-> c]
    BY DEF X!Follow
  <2> HIDE DEF p
  <2>4. CASE p = hc[r]
    BY <2>1, <2>4
  <2>5. CASE \E c \in BOOLEAN : p = [idx |-> 0, cycle |-> c]
    BY <2>2, <2>5
  <2> QED
    BY <2>3, <2>4, <2>5
<1>3. p.idx < RingSize - 1 /\ hc' = [hc EXCEPT ![r] = [p EXCEPT !.idx = @ + 1]]
  BY DEF X!DoSlot
<1>4. hc' \in [X!Rings \cup {X!Command} -> [idx : 0 .. RingSize - 1, cycle : BOOLEAN]]
  <2> HIDE DEF p
  <2>1. [p EXCEPT !.idx = @ + 1] \in [idx : 0 .. RingSize - 1, cycle : BOOLEAN]
    BY <1>1, <1>2, <1>3
  <2> QED
    BY <1>1, <1>3, <2>1 DEF EventTypes
<1>5. CASE UNCHANGED <<event, produced, unread>>
  BY <1>1, <1>4, <1>5 DEF EventInv, EventTypes, RingRight, Slot, Lap
<1>6. CASE X!Room /\ X!Publish(<<r, p.idx>>, ok)
  <2>1. <<r, p.idx>> \in Source
    BY <1>1, <1>2 DEF Source
  <2>2. /\ RingRight' /\ unread' \in Seq([of : Source, ok : BOOLEAN]) /\ Len(unread') < EventSize
        /\ event' \in [0 .. EventSize - 1 -> [cycle : BOOLEAN, of : Source \cup {X!NoEvent}, ok : BOOLEAN]]
    BY <1>1, <1>6, <2>1, PublishStep
  <2> QED
    BY <1>1, <1>4, <2>2 DEF EventInv, EventTypes
<1>7. UNCHANGED <<event, produced, unread>> \/ (X!Room /\ X!Publish(<<r, p.idx>>, ok))
  BY DEF X!DoSlot, X!evv
<1> QED
  BY <1>5, <1>6, <1>7

LEMMA EventInit == ASSUME X!XHCIAssumption, X!Init PROVE EventInv
<1>1. /\ EventSize \in Nat /\ EventSize > 1 /\ RingSize \in Nat /\ RingSize > 3
      /\ produced = [idx |-> 0, cycle |-> TRUE] /\ unread = <<>> /\ eventDQ = 0 /\ eventCycle = TRUE
      /\ event = [i \in 0 .. EventSize - 1 |-> [cycle |-> FALSE, of |-> X!NoEvent, ok |-> FALSE]]
      /\ hc = [r \in X!Rings \cup {X!Command} |-> [idx |-> 0, cycle |-> TRUE]]
  BY DEF X!XHCIAssumption, X!Init
<1>2. EventTypes
  BY <1>1 DEF EventTypes
<1>3. RingRight
  <2>1. \A i \in 1 .. EventSize : Slot(i) \in 0 .. EventSize - 1 /\ ~Lap(i)
    BY <1>1 DEF Slot, Lap
  <2>2. Slot(1) = 0 /\ ~Lap(1) /\ Len(unread) = 0
    BY <1>1 DEF Slot, Lap
  <2>3. produced.idx = Slot(Len(unread) + 1) /\ produced.cycle = IF Lap(Len(unread) + 1) THEN ~eventCycle ELSE eventCycle
    BY <1>1, <2>2
  <2>4. produced = [idx |-> produced.idx, cycle |-> produced.cycle]
    BY <1>1
  <2>5. 1 .. Len(unread) = {} /\ Len(unread) + 1 .. EventSize = 1 .. EventSize
    BY <1>1, <2>2
  <2>6. \A i \in 1 .. EventSize : event[Slot(i)].cycle = IF Lap(i) THEN eventCycle ELSE ~eventCycle
    BY <1>1, <2>1
  <2> QED
    BY <2>3, <2>4, <2>5, <2>6 DEF RingRight
<1> QED
  BY <1>2, <1>3 DEF EventInv

LEMMA EventStep == ASSUME X!XHCIAssumption, EventInv, [X!Next]_X!vars PROVE EventInv'
<1>1. CASE UNCHANGED <<hc, event, produced, unread, eventDQ, eventCycle>>
  BY <1>1 DEF EventInv, EventTypes, RingRight, Slot, Lap
<1>2. CASE X!BringUp \/ X!SkipPort
  BY <1>1, <1>2 DEF X!BringUp, X!Stop, X!HCReset, X!BiosToOSHandoff, X!SetUp, X!Run, X!Stage, X!SkipPort, X!hcv, X!evv, X!irqv
<1>3. CASE \E d \in X!Waits : \E o \in X!Requests(d) : X!Put(d, o)
  BY <1>1, <1>3 DEF X!Put, X!evv, X!irqv
<1>4. CASE \E d \in X!Waits : X!RegisterForWaitedEventResult(d) \/ X!WaitForEvent(d)
  BY <1>1, <1>4 DEF X!RegisterForWaitedEventResult, X!WaitForEvent, X!hcv, X!evv, X!irqv
<1>5. CASE \/ \E d \in Disk, o \in X!Bulk : X!RingFull(d, o)
           \/ \E k \in Keyboard : X!ReceiveInterruptData(k)
  BY <1>1, <1>5 DEF X!RingFull, X!ReceiveInterruptData, X!hcv, X!evv, X!irqv
<1>6. CASE X!Interrupt \/ X!NotifyEvent \/ X!Drained \/ X!Clear
  BY <1>1, <1>6 DEF X!Interrupt, X!NotifyEvent, X!Drained, X!Clear, X!hcv, X!evv
<1>7. CASE UNCHANGED X!vars
  BY <1>1, <1>7 DEF X!vars, X!hcv, X!evv, X!irqv
<1> QED
  BY <1>2, <1>3, <1>4, <1>5, <1>6, <1>7, CommandStep, SlotStep, ReadStep DEF X!Next

\* Who is waiting for the handler stays announced: a message that is taken
\* up starts the handler, and what is cleared unseen is lost.
LEMMA AnnouncedStep == ASSUME Announced, [X!Next]_X!vars PROVE Announced'
<1>1. CASE UNCHANGED <<busyBit, status, msi, irq, lost>>
  BY <1>1 DEF Announced
<1>2. CASE X!BringUp \/ X!SkipPort
  BY <1>1, <1>2 DEF X!BringUp, X!Stop, X!HCReset, X!BiosToOSHandoff, X!SetUp, X!Run, X!Stage, X!SkipPort, X!irqv
<1>3. CASE \E d \in X!Waits : \E o \in X!Requests(d) : X!Put(d, o)
  BY <1>1, <1>3 DEF X!Put, X!irqv
<1>4. CASE \E d \in X!Waits : X!RegisterForWaitedEventResult(d) \/ X!WaitForEvent(d)
  BY <1>1, <1>4 DEF X!RegisterForWaitedEventResult, X!WaitForEvent, X!irqv
<1>5. CASE \/ \E d \in Disk, o \in X!Bulk : X!RingFull(d, o)
           \/ \E k \in Keyboard : X!ReceiveInterruptData(k)
  BY <1>1, <1>5 DEF X!RingFull, X!ReceiveInterruptData, X!irqv
<1>6. CASE X!DoCommand \/ \E r \in X!Rings, ok \in BOOLEAN : X!DoSlot(r, ok)
  BY <1>1, <1>6 DEF X!DoCommand, X!DoSlot, X!irqv
<1>7. CASE X!Interrupt
  BY <1>7 DEF X!Interrupt, Announced
<1>8. CASE X!NotifyEvent
  BY <1>8 DEF X!NotifyEvent, Announced
<1>9. CASE X!NotifyEvents
  BY <1>9 DEF X!NotifyEvents, Announced
<1>10. CASE X!Drained
  BY <1>10 DEF X!Drained, Announced
<1>11. CASE X!Clear
  BY <1>11 DEF X!Clear, Announced
<1>12. CASE UNCHANGED X!vars
  BY <1>1, <1>12 DEF X!vars, X!irqv
<1> QED
  BY <1>2, <1>3, <1>4, <1>5, <1>6, <1>7, <1>8, <1>9, <1>10, <1>11, <1>12 DEF X!Next

LEMMA BootStep == ASSUME BootRight, [X!Next]_X!vars PROVE BootRight'
<1>0. /\ boot \in [stage : {"Stop", "HCReset", "Handoff", "SetUp", "Run", "Up", "Failed"},
                   running : BOOLEAN, bios : BOOLEAN]
      /\ DOMAIN at = X!Waits /\ \A d \in X!Waits : at[d] # "idle" => boot.stage = "Up"
  BY DEF BootRight
<1>1. CASE UNCHANGED <<boot, at>>
  BY <1>1 DEF BootRight
<1>2. CASE X!BringUp
  <2>1. at' = at /\ boot.stage # "Up" /\ DOMAIN at = X!Waits
    BY <1>0, <1>2 DEF X!BringUp, X!Stop, X!HCReset, X!BiosToOSHandoff, X!SetUp, X!Run, X!Stage
  <2>2. CASE boot' = [boot EXCEPT !.stage = "Failed"]
    BY <1>0, <2>1, <2>2 DEF BootRight
  <2>3. CASE X!Stop /\ boot' # [boot EXCEPT !.stage = "Failed"]
    BY <1>0, <2>1, <2>3 DEF BootRight, X!Stop, X!Stage
  <2>4. CASE X!HCReset /\ boot' # [boot EXCEPT !.stage = "Failed"]
    BY <1>0, <2>1, <2>4 DEF BootRight, X!HCReset, X!Stage
  <2>5. CASE X!BiosToOSHandoff /\ boot' # [boot EXCEPT !.stage = "Failed"]
    BY <1>0, <2>1, <2>5 DEF BootRight, X!BiosToOSHandoff, X!Stage
  <2>6. CASE X!SetUp /\ boot' # [boot EXCEPT !.stage = "Failed"]
    BY <1>0, <2>1, <2>6 DEF BootRight, X!SetUp, X!Stage
  <2>7. CASE X!Run /\ boot' # [boot EXCEPT !.stage = "Failed"]
    BY <1>0, <2>1, <2>7 DEF BootRight, X!Run, X!Stage
  <2> QED
    BY <1>2, <2>2, <2>3, <2>4, <2>5, <2>6, <2>7 DEF X!BringUp
<1>3. CASE boot' = boot /\ boot.stage = "Up" /\ DOMAIN at' = X!Waits
  BY <1>3 DEF BootRight
<1>4. CASE \E d \in X!Waits : \E o \in X!Requests(d) : X!Put(d, o)
  BY <1>0, <1>3, <1>4 DEF X!Put, X!Running
<1>5. CASE \E d \in X!Waits : X!RegisterForWaitedEventResult(d) \/ X!WaitForEvent(d)
  BY <1>0, <1>3, <1>5 DEF X!RegisterForWaitedEventResult, X!WaitForEvent, X!Running
<1>6. CASE \/ X!SkipPort \/ \E d \in Disk, o \in X!Bulk : X!RingFull(d, o)
           \/ \E k \in Keyboard : X!ReceiveInterruptData(k)
  BY <1>1, <1>6 DEF X!SkipPort, X!RingFull, X!ReceiveInterruptData
<1>7. CASE X!DoCommand \/ \E r \in X!Rings, ok \in BOOLEAN : X!DoSlot(r, ok)
  BY <1>1, <1>7 DEF X!DoCommand, X!DoSlot, X!ctl
<1>8. CASE X!Interrupt \/ X!NotifyEvent \/ X!NotifyEvents \/ X!Drained \/ X!Clear
  BY <1>1, <1>8 DEF X!Interrupt, X!NotifyEvent, X!NotifyEvents, X!Drained, X!Clear, X!ctl
<1>9. CASE UNCHANGED X!vars
  BY <1>1, <1>9 DEF X!vars, X!ctl
<1> QED
  BY <1>2, <1>4, <1>5, <1>6, <1>7, <1>8, <1>9 DEF X!Next

\* The interrupt handler of the xHCI controller (NotifyEvents) reads the
\* events that the controller writes once each and in their order, whenever
\* the ring wraps: a slot's cycle bit is the handler's exactly when the slot
\* holds an event not yet read.
THEOREM EventsRead == ASSUME X!XHCIAssumption PROVE X!Spec => []X!EventsInOrder
<1>1. EventInv => X!EventsInOrder
  <2> SUFFICES ASSUME EventInv, NEW i \in 1 .. EventSize
               PROVE  LET j == eventDQ + i - 1
                          e == event[j % EventSize] IN
                      IF i <= Len(unread)
                      THEN e.of = unread[i].of /\ e.ok = unread[i].ok /\ e.cycle = (IF j < EventSize THEN eventCycle ELSE ~eventCycle)
                      ELSE i < EventSize => e.cycle = (IF j < EventSize THEN ~eventCycle ELSE eventCycle)
    BY DEF X!EventsInOrder
  <2>1. /\ EventSize \in Nat /\ Len(unread) \in Nat /\ eventDQ \in 0 .. EventSize - 1 /\ RingRight
        /\ (eventDQ + i - 1) % EventSize = Slot(i)
    BY SlotFacts DEF EventInv, EventTypes
  <2>2. Lap(i) <=> ~(eventDQ + i - 1 < EventSize)
    BY <2>1 DEF Lap
  <2>3. CASE i <= Len(unread)
    <3>1. i \in 1 .. Len(unread)
      BY <2>1, <2>3
    <3>2. /\ event[Slot(i)].of = unread[i].of /\ event[Slot(i)].ok = unread[i].ok
          /\ event[Slot(i)].cycle = IF Lap(i) THEN ~eventCycle ELSE eventCycle
      BY <2>1, <3>1 DEF RingRight
    <3> QED
      BY <2>1, <2>2, <2>3, <3>2
  <2>4. CASE ~(i <= Len(unread))
    <3>1. i \in Len(unread) + 1 .. EventSize
      BY <2>1, <2>4
    <3>2. event[Slot(i)].cycle = IF Lap(i) THEN eventCycle ELSE ~eventCycle
      BY <2>1, <3>1 DEF RingRight
    <3> QED
      BY <2>1, <2>2, <2>4, <3>2
  <2> QED
    BY <2>3, <2>4
<1> QED
  BY <1>1, EventInit, EventStep, PTL DEF X!Spec

\* An event that waits while the handler is not running has its interrupt
\* pending with the status set, so NotifyEvent will look at the ring; the one
\* exception is an interrupt whose status NotifyEvents cleared unseen.
THEOREM EventsSeen == X!Spec => []X!EventsAnnounced
<1>1. X!Init => Announced
  BY DEF X!Init, Announced
<1>2. Announced => X!EventsAnnounced
  BY DEF Announced, X!EventsAnnounced
<1> QED
  BY <1>1, <1>2, AnnouncedStep, PTL DEF X!Spec

\* No driver gives the controller a request before the firmware has let go
\* of it and it runs (the constructor of XHCIController and Start), whichever
\* of their steps fails.
THEOREM UsedWhenUp == X!Spec => []X!UpWhenUsed
<1>1. X!Init => BootRight
  BY DEF X!Init, BootRight
<1>2. BootRight => X!UpWhenUsed
  BY DEF BootRight, X!UpWhenUsed
<1> QED
  BY <1>1, <1>2, BootStep, PTL DEF X!Spec

===============================================================================
