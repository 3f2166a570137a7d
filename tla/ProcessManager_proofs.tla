------------------------ MODULE ProcessManager_proofs ------------------------
(***************************************************************************)
(* Proofs about ProcessManager for any number of processes, any capacity   *)
(* of the map and any set of kernel calls: the inductive invariant, the    *)
(* steps that keep it, and the properties that follow.                     *)
(***************************************************************************)
EXTENDS ProcessManager, ListLemmas, FiniteSetTheorems, TLAPS

(***************************************************************************)
(* The inductive invariant.  Gone are the states of ids that stand for no  *)
(* scheduled object, Early the stages of a creation before its process can *)
(* run.                                                                    *)
(***************************************************************************)
Runnable == Waiting \cup {"RUN"}
Gone == {"UNUSED", "NEW", "DELETED"}
Early == {"begun", "linked", "threadBegun"}

\* Ids that were not handed out are nowhere.
Fresh ==
  /\ \A p \in Pid : p >= nextPid =>
       status[p] = "UNUSED" /\ p \notin processMap /\ p \notin held
  /\ \A p \in Pid : mainThread[p] = p \/ mainThread[p] < nextPid

\* A process in the making is new, in no table, and made by one creator.
Makes ==
  /\ \A s \in Pid : making[s].stage # "none" =>
       making[s].pid \in Pid /\ making[s].pid < nextPid
  /\ \A s \in Pid : making[s].stage \in Early =>
       LET c == making[s].pid IN
       /\ status[c] = "NEW" /\ c \notin processMap
       /\ (c \in held) <=> (making[s].stage = "linked")
       /\ IsThread(c) <=> (making[s].stage = "threadBegun")
  /\ \A s \in Pid : making[s].stage = "threadAttached" =>
       status[making[s].pid] \notin {"UNUSED", "NEW"}
  /\ \A s, r \in Pid :
       /\ making[s].stage \in Early /\ making[r].stage \in Early
       /\ making[s].pid = making[r].pid
       => s = r

\* The scheduler's list holds main processes, those of a main process its
\* threads, each once.
Lists ==
  /\ Distinct(schedulerList)
  /\ \A m \in Elems(schedulerList) :
       status[m] \notin Gone /\ m \in processMap /\ ~IsThread(m)
  /\ \A m \in Pid : Distinct(threadList[m])
  /\ \A m \in Pid : \A t \in Elems(threadList[m]) :
       status[t] \notin Gone /\ mainThread[t] = m /\ IsThread(t)
  /\ \A m \in Pid :
       nextThread[m] <= Len(threadList[m]) \/ status[m] \in Finished \cup {"DELETED"}

Memory == \A p \in Pid : status[p] \in Runnable => p \in held

\* Between dispatch and return the iterator stays at the main process of the
\* dispatched one.
Cpu ==
  mode # "scheduler" =>
    /\ schedulerIt <= Len(schedulerList) /\ schedulerList[schedulerIt] = mainThread[current]
    /\ current \in held
    /\ status[current] \in Runnable \cup {"TERMINATED"}
    /\ mode = "process" => status[current] = "RUN"

IInv == TypeOK /\ Fresh /\ Makes /\ Lists /\ Memory /\ Cpu

LEMMA PidFinite == IsFiniteSet(Pid)
BY NPidAssumption, FS_Interval DEF Pid

LEMMA PidIsNat == Pid \subseteq Nat /\ 0 \in Pid /\ NO_PROCESS_ID \notin Pid
BY NPidAssumption DEF Pid, NO_PROCESS_ID

-----------------------------------------------------------------------------
(* forSchedule: what it erases, keeps and picks.                           *)

LEMMA ForSchedule ==
  ASSUME TypeOK, Lists, NEW m \in Pid, status[m] \notin Gone
  PROVE  /\ Erased(m) \subseteq Elems(threadList[m])
         /\ Picked(m) \in {m} \cup Elems(threadList[m])
         /\ Picked(m) # m => status[Picked(m)] # "RELEASED"
         /\ \A t \in Erased(m) : status[t] = "RELEASED"
         /\ Kept(m) \in Seq(Pid) /\ Distinct(Kept(m))
         /\ Elems(Kept(m)) \subseteq Elems(threadList[m]) \ Erased(m)
         /\ NextThread(m) \in Nat
         /\ NextThread(m) <= Len(Kept(m)) \/ status[m] \in Finished
<1> DEFINE s == threadList[m]
           n == Len(s)
           i == nextThread[m]
           k == Passed(m)
           live == {j \in 0 .. n - 1 : status[Visited(m, j)] # "RELEASED"}
           At(j) == IF i + j > n THEN i + j - n ELSE i + j
<1>1. s \in Seq(Pid) /\ n \in Nat /\ i \in Nat /\ DOMAIN s = 1 .. n
  BY DEF TypeOK
<1>2. Distinct(s)
  BY DEF Lists
<1>3. CASE AtMain(m)
  <2>1. k = 0 /\ Erased(m) = {} /\ Kept(m) = s /\ Picked(m) = m
    BY <1>3 DEF Passed, Erased, Kept, Picked, ToMain
  <2>2. NextThread(m) \in Nat /\ (NextThread(m) <= n \/ status[m] \in Finished)
    BY <1>1, <1>3, <2>1 DEF NextThread, ToMain, END
  <2> QED
    BY <1>1, <1>2, <2>1, <2>2
<1>4. CASE ~AtMain(m)
  <2>1. i \in 1 .. n
    BY <1>1, <1>4 DEF AtMain, Lists, Gone, Finished, END
  <2>2. ASSUME NEW j \in Int PROVE Visited(m, j) = s[At(j)]
    BY <1>1 DEF Visited
  <2>3. ASSUME NEW j \in 0 .. n - 1 PROVE At(j) \in 1 .. n
    BY <1>1, <2>1
  <2> HIDE DEF At
  <2>4. live \in SUBSET Nat
    BY <1>1
  <2>5. /\ k \in 0 .. n
        /\ k < n => k \in live
        /\ \A j \in 0 .. k - 1 : j \notin live
    <3>1. CASE live = {}
      BY <1>1, <1>4, <3>1 DEF Passed
    <3>2. CASE live # {}
      <4>1. k = Min(live)
        BY <1>4, <3>2 DEF Passed
      <4> HIDE DEF live, k
      <4>2. k \in live /\ \A j \in live : k <= j
        BY <2>4, <3>2, <4>1, MinIsLeast
      <4> USE DEF live
      <4>3. k \in 0 .. n - 1
        BY <4>2
      <4> QED
        BY <1>1, <4>2, <4>3
    <3> QED
      BY <3>1, <3>2
  <2>6. \A j \in 0 .. k - 1 : status[s[At(j)]] = "RELEASED"
    BY <1>1, <2>2, <2>5
  <2>7. Erased(m) = {s[At(j)] : j \in 0 .. k - 1}
    BY <1>1, <2>2, <2>5 DEF Erased
  <2> HIDE DEF live, k
  <2>8. Erased(m) \subseteq Elems(s) /\ \A t \in Erased(m) : status[t] = "RELEASED"
    <3> SUFFICES ASSUME NEW t \in Erased(m) PROVE t \in Elems(s) /\ status[t] = "RELEASED"
      OBVIOUS
    <3>1. PICK j \in 0 .. k - 1 : t = s[At(j)]
      BY <2>7
    <3>2. At(j) \in 1 .. n
      BY <1>1, <2>3, <2>5
    <3> QED
      BY <1>1, <2>6, <3>1, <3>2 DEF Elems
  <2>9. /\ Picked(m) \in {m} \cup Elems(s)
        /\ Picked(m) # m => status[Picked(m)] # "RELEASED"
    <3>1. CASE k = n
      BY <3>1 DEF Picked, ToMain, k
    <3>2. CASE k # n
      <4>1. k \in 0 .. n - 1 /\ k \in live
        BY <1>1, <2>5, <3>2
      <4>2. Picked(m) = Visited(m, k)
        BY <1>4, <3>2 DEF Picked, ToMain, k
      <4>3. Visited(m, k) \in Elems(s)
        BY <1>1, <2>2, <2>3, <4>1 DEF Elems
      <4> QED
        BY <4>1, <4>2, <4>3 DEF live
    <3> QED
      BY <3>1, <3>2
  <2> DEFINE e == i + k
             Kpt == Kept(m)
             Good(pos) ==
               /\ pos \in [1 .. n - k -> 1 .. n]
               /\ \A x \in 1 .. n - k : Kpt[x] = s[pos[x]]
               /\ \A x, y \in 1 .. n - k : pos[x] = pos[y] => x = y
               /\ \A x \in 1 .. n - k, j \in 0 .. k - 1 : pos[x] # At(j)
  <2>10. Kpt \in Seq(Pid) /\ Len(Kpt) = n - k /\ \E pos : Good(pos)
    <3>1. k \in Nat /\ k <= n /\ e \in Nat
      BY <1>1, <2>5
    <3>2. CASE k = 0
      <4>1. Kpt = s
        BY <3>2 DEF Kept, k
      <4>2. Good([x \in 1 .. n |-> x])
        BY <1>1, <3>2, <4>1
      <4>3. \E pos : Good(pos)
        BY <4>2
      <4> QED
        BY <1>1, <3>2, <4>1, <4>3
    <3>3. CASE k # 0 /\ e <= n + 1
      <4> DEFINE a == SubSeq(s, 1, i - 1)
                 b == SubSeq(s, e, n)
      <4>1. Kpt = a \o b
        BY <3>3 DEF Kept, k
      <4>2. a \in Seq(Pid) /\ Len(a) = i - 1 /\ \A x \in 1 .. i - 1 : a[x] = s[x]
        BY <1>1, <2>1
      <4>3. b \in Seq(Pid) /\ Len(b) = n - e + 1 /\ \A x \in 1 .. n - e + 1 : b[x] = s[e + x - 1]
        <5>1. \A x \in e .. n : s[x] \in Pid
          BY <1>1, <2>1, <3>1
        <5>2. e \in Int /\ n \in Int /\ (IF e <= n THEN TRUE ELSE n - e + 1 = 0)
          BY <1>1, <3>1, <3>3
        <5> QED
          BY <5>1, <5>2, SubSeqProperties
      <4> HIDE DEF a, b
      <4>4. /\ Kpt \in Seq(Pid) /\ Len(Kpt) = n - k
            /\ \A x \in 1 .. n - k : Kpt[x] = IF x <= i - 1 THEN a[x] ELSE b[x - (i - 1)]
        <5>1. Len(a) + Len(b) = n - k
          <6>1. \A x, y, z \in Int : x - 1 + (z - (x + y) + 1) = z - y
            OBVIOUS
          <6> QED
            BY SMTT(30), <1>1, <3>1, <4>2, <4>3, <6>1
        <5> QED
          BY SMTT(30), <4>1, <4>2, <4>3, <5>1, ConcatProperties
      <4> DEFINE pos == [x \in 1 .. n - k |-> IF x < i THEN x ELSE x + k]
      <4>5. ASSUME NEW x \in 1 .. n - k PROVE Kpt[x] = s[pos[x]]
        <5>1. CASE x < i
          BY <1>1, <2>1, <4>2, <4>4, <5>1
        <5>2. CASE ~ (x < i)
          <6>1. x - (i - 1) \in 1 .. n - e + 1 /\ e + (x - (i - 1)) - 1 = x + k
            BY SMTT(30), <1>1, <2>1, <3>1, <5>2
          <6>2. Kpt[x] = b[x - (i - 1)]
            BY <1>1, <2>1, <4>4, <5>2
          <6> QED
            BY <4>3, <5>2, <6>1, <6>2
        <5> QED
          BY <5>1, <5>2
      <4>6. pos \in [1 .. n - k -> 1 .. n]
        BY <1>1, <2>1, <3>1, <3>3
      <4>7. \A x, y \in 1 .. n - k : pos[x] = pos[y] => x = y
        BY <1>1, <2>1, <3>1, <3>3
      <4>8. ASSUME NEW x \in 1 .. n - k, NEW j \in 0 .. k - 1 PROVE pos[x] # At(j)
        <5>1. At(j) = i + j /\ i + j < i + k
          BY <1>1, <2>1, <3>1, <3>3 DEF At
        <5>2. pos[x] < i \/ pos[x] >= i + k
          BY <1>1, <2>1, <3>1
        <5> QED
          BY <1>1, <2>1, <3>1, <5>1, <5>2
      <4> HIDE DEF pos
      <4>9. Good(pos)
        BY <4>5, <4>6, <4>7, <4>8
      <4> QED
        BY <4>4, <4>9
    <3>4. CASE k # 0 /\ e > n + 1
      <4>1. Kpt = SubSeq(s, e - n, i - 1)
        <5>1. ~ (e <= n + 1)
          BY <1>1, <3>1, <3>4
        <5> QED
          BY <3>4, <5>1 DEF Kept, k
      <4>2. /\ Kpt \in Seq(Pid) /\ Len(Kpt) = n - k
            /\ \A x \in 1 .. n - k : Kpt[x] = s[(e - n) + x - 1]
        <5>1. \A x \in e - n .. i - 1 : s[x] \in Pid
          BY <1>1, <2>1, <3>1, <3>4
        <5>2. i - 1 - (e - n) + 1 = n - k /\ e - n \in Int /\ i - 1 \in Int
          BY SMTT(30), <1>1, <3>1
        <5>3. IF e - n <= i - 1 THEN TRUE ELSE n - k = 0
          BY <1>1, <2>1, <3>1, <3>4
        <5> QED
          BY <4>1, <5>1, <5>2, <5>3, SubSeqProperties
      <4> DEFINE pos == [x \in 1 .. n - k |-> (e - n) + x - 1]
      <4>3. pos \in [1 .. n - k -> 1 .. n]
        BY SMTT(30), <1>1, <2>1, <3>1, <3>4
      <4>4. \A x, y \in 1 .. n - k : pos[x] = pos[y] => x = y
        BY SMTT(30), <1>1, <2>1, <3>1, <3>4
      <4>5. \A x \in 1 .. n - k : Kpt[x] = s[pos[x]]
        BY <4>2
      <4>6. ASSUME NEW x \in 1 .. n - k, NEW j \in 0 .. k - 1 PROVE pos[x] # At(j)
        <5>1. At(j) >= i \/ At(j) < e - n
          BY SMTT(30), <1>1, <2>1, <3>1, <3>4 DEF At
        <5>2. pos[x] < i /\ pos[x] >= e - n /\ pos[x] \in Int
          <6>1. pos[x] = (e - n) + x - 1 /\ x \in Int /\ x >= 1 /\ x <= n - k
            BY <1>1, <3>1
          <6> QED
            BY SMTT(30), <1>1, <2>1, <3>1, <6>1
        <5> QED
          BY <1>1, <2>1, <3>1, <5>1, <5>2 DEF At
      <4> HIDE DEF pos
      <4>7. Good(pos)
        BY <4>3, <4>4, <4>5, <4>6
      <4> QED
        BY <4>2, <4>7
    <3>5. e <= n + 1 \/ e > n + 1
      BY <1>1, <3>1
    <3> HIDE DEF Good, Kpt, e
    <3> QED
      BY <3>2, <3>3, <3>4, <3>5
  <2>11. PICK pos : Good(pos)
    BY <2>10
  <2> HIDE DEF Kpt, e
  <2>12. DOMAIN Kpt = 1 .. n - k
    BY <1>1, <2>5, <2>10
  <2>13. Elems(Kpt) \subseteq Elems(s)
    BY <1>1, <2>11, <2>12 DEF Elems
  <2>14. Elems(Kpt) \cap Erased(m) = {}
    <3> SUFFICES ASSUME NEW x \in 1 .. n - k, NEW j \in 0 .. k - 1,
                        Kpt[x] = s[At(j)]
                 PROVE  FALSE
      BY <2>7, <2>12 DEF Elems
    <3>1. j \in 0 .. n - 1
      BY <1>1, <2>5
    <3>2. At(j) \in DOMAIN s /\ pos[x] \in DOMAIN s /\ s[At(j)] = s[pos[x]]
      BY <1>1, <2>3, <2>11, <3>1
    <3> QED
      BY <1>2, <2>11, <3>2 DEF Distinct
  <2>15. Distinct(Kpt)
    <3> SUFFICES ASSUME NEW x \in 1 .. n - k, NEW y \in 1 .. n - k, Kpt[x] = Kpt[y]
                 PROVE  x = y
      BY <2>12 DEF Distinct
    <3>1. s[pos[x]] = s[pos[y]] /\ pos[x] \in DOMAIN s /\ pos[y] \in DOMAIN s
      BY <1>1, <2>11
    <3> QED
      BY <1>2, <2>11, <3>1 DEF Distinct
  <2>16. NextThread(m) \in Nat /\ (NextThread(m) <= n - k \/ status[m] \in Finished)
    <3>1. Kpt = <<>> <=> n - k = 0
      BY <2>10
    <3> QED
      BY <1>1, <2>1, <2>5, <2>10, <3>1 DEF NextThread, ToMain, END, k, Kpt
  <2> QED
    BY <2>8, <2>9, <2>10, <2>13, <2>14, <2>15, <2>16 DEF Kpt
<1> QED
  BY <1>3, <1>4
-----------------------------------------------------------------------------
(* The initial state.                                                      *)

LEMMA InitIInv == Init => IInv
<1> SUFFICES ASSUME Init PROVE IInv
  OBVIOUS
<1>1. 0 \in Pid
  BY NPidAssumption DEF Pid
<1>2. <<0>> \in Seq(Pid) /\ <<>> \in Seq(Pid)
  BY <1>1
<1>3. NewInfo \in StateInfo /\ NotMaking \in Making
  BY BoundAssumption DEF NewInfo, StateInfo, NotMaking, Making, Stage
<1>4. TypeOK
  <2>1. nextPid \in 0 .. NPid /\ processMap \subseteq Pid /\ held \subseteq Pid
    BY <1>1, NPidAssumption DEF Init
  <2>2. schedulerList \in Seq(Pid) /\ schedulerIt \in 1 .. Len(schedulerList) + 1
    BY <1>2 DEF Init
  <2>3. /\ status \in [Pid -> Status]
        /\ parent \in [Pid -> Pid \cup {NO_PROCESS_ID}]
        /\ children \in [Pid -> SUBSET Pid]
        /\ mainThread \in [Pid -> Pid]
    BY DEF Init, Status
  <2>4. threadList \in [Pid -> Seq(Pid)] /\ nextThread \in [Pid -> Nat]
    BY <1>2 DEF Init, END
  <2>5. /\ group \in [Pid -> Pid] /\ groupSize \in [Pid -> Int]
        /\ fgList \in [Pid -> Seq(Pid)] /\ fgGroup \in Pid
    BY <1>1, <1>2 DEF Init
  <2>6. info \in [Pid -> StateInfo] /\ making \in [Pid -> Making]
    BY <1>3 DEF Init
  <2>7. /\ current \in Pid /\ mode \in {"scheduler", "process", "switching"}
        /\ contextSwitch \in BOOLEAN
        /\ irqCount \in [Irq -> 0 .. MaxSignal] /\ resourceList \in [Resource -> BOOLEAN]
    BY <1>1, BoundAssumption DEF Init
  <2> QED
    BY <2>1, <2>2, <2>3, <2>4, <2>5, <2>6, <2>7 DEF TypeOK
<1>5. Fresh
  BY DEF Init, Fresh, Pid
<1>6. Makes
  BY DEF Init, Makes, NotMaking, Early
<1>7. Lists
  <2>1. Elems(<<0>>) = {0} /\ Distinct(<<0>>) /\ Elems(<<>>) = {} /\ Distinct(<<>>)
    BY DEF Elems, Distinct
  <2>2. /\ schedulerList = <<0>> /\ processMap = {0} /\ status[0] = "RUN" /\ mainThread[0] = 0
        /\ \A m \in Pid : threadList[m] = <<>> /\ nextThread[m] = 0
    BY <1>1 DEF Init, END
  <2> QED
    BY <2>1, <2>2 DEF Lists, Gone, IsThread
<1>8. Memory
  BY DEF Init, Memory, Runnable, Waiting
<1>9. Cpu
  BY <1>1 DEF Init, Cpu, Runnable
<1> QED
  BY <1>4, <1>5, <1>6, <1>7, <1>8, <1>9 DEF IInv

-----------------------------------------------------------------------------
(* Steps that change nothing but the state information of processes, the   *)
(* interrupt counts, the resources and the foreground group.               *)

coreVars == <<nextPid, schedulerIt, status, held, making, treeVars, group, groupSize,
              fgList, listVars, cpuVars>>

LEMMA QuietStep ==
  ASSUME IInv, UNCHANGED coreVars,
         info' \in [Pid -> StateInfo], fgGroup' \in Pid,
         irqCount' \in [Irq -> 0 .. MaxSignal], resourceList' \in [Resource -> BOOLEAN]
  PROVE  IInv'
<1> USE DEF coreVars, treeVars, listVars, cpuVars
<1>1. TypeOK'
  BY DEF IInv, TypeOK
<1>2. Fresh' /\ Makes' /\ Memory' /\ Cpu'
  BY DEF IInv, Fresh, Makes, Memory, Cpu, IsThread
<1>3. Lists'
  BY DEF IInv, Lists, IsThread
<1> QED
  BY <1>1, <1>2, <1>3 DEF IInv

LEMMA InfoType ==
  ASSUME NEW i \in StateInfo
  PROVE  /\ \A t \in 0 .. MaxSleep : [i EXCEPT !.sleep = t] \in StateInfo
         /\ \A l \in Irq : [i EXCEPT !.irq = l] \in StateInfo
         /\ \A c \in Pid \cup {NO_PROCESS_ID} : [i EXCEPT !.child = c] \in StateInfo
         /\ \A r \in Resource \cup {RESOURCE_NIL} : [i EXCEPT !.resource = r] \in StateInfo
         /\ \A e \in BOOLEAN : [i EXCEPT !.event = e] \in StateInfo
         /\ \A e \in BOOLEAN : [i EXCEPT !.service = e] \in StateInfo
BY DEF StateInfo

LEMMA InterruptStep ==
  ASSUME IInv, Interrupt
  PROVE  IInv'
<1> USE DEF KeepProcessor, coreVars, lineVars, groupVars, cpuVars
<1>0. /\ info \in [Pid -> StateInfo] /\ fgGroup \in Pid /\ group \in [Pid -> Pid]
      /\ irqCount \in [Irq -> 0 .. MaxSignal] /\ resourceList \in [Resource -> BOOLEAN]
      /\ MaxSignal \in Nat /\ MaxSleep \in Nat
  BY BoundAssumption DEF IInv, TypeOK
<1>1. ASSUME NEW q \in Pid, EventCompleted(q) PROVE IInv'
  <2>1. info' \in [Pid -> StateInfo]
    <3>1. [info[q] EXCEPT !.event = TRUE] \in StateInfo
      BY <1>0, InfoType
    <3>2. info' = [info EXCEPT ![q] = [info[q] EXCEPT !.event = TRUE]]
      BY <1>1 DEF EventCompleted
    <3> QED
      BY <1>0, <3>1, <3>2
  <2> QED
    BY <1>0, <1>1, <2>1, QuietStep DEF EventCompleted
<1>2. ASSUME NEW i \in Irq, SignalIrq(i) PROVE IInv'
  <2>1. irqCount' \in [Irq -> 0 .. MaxSignal]
    BY <1>0, <1>2 DEF SignalIrq
  <2> QED
    BY <1>0, <1>2, <2>1, QuietStep DEF SignalIrq
<1>3. CASE ClockTick
  <2>1. info' \in [Pid -> StateInfo]
    <3> SUFFICES ASSUME NEW q \in Pid
                 PROVE  [info[q] EXCEPT !.sleep = IF @ > 0 THEN @ - 1 ELSE 0] \in StateInfo
      BY <1>3 DEF ClockTick
    <3>1. info[q].sleep \in 0 .. MaxSleep
      BY <1>0 DEF StateInfo
    <3>2. (IF info[q].sleep > 0 THEN info[q].sleep - 1 ELSE 0) \in 0 .. MaxSleep
      BY <1>0, <3>1
    <3> QED
      BY <1>0, <3>2, InfoType
  <2> QED
    BY <1>0, <1>3, <2>1, QuietStep DEF ClockTick
<1>4. ASSUME NEW q \in Pid, SwitchToFG(q) PROVE IInv'
  <2>1. fgGroup' \in Pid
    BY <1>0, <1>4 DEF SwitchToFG
  <2> QED
    BY <1>0, <1>4, <2>1, QuietStep DEF SwitchToFG
<1> QED
  BY <1>1, <1>2, <1>3, <1>4 DEF Interrupt

\* QuietStep once more, for the two calls that leave the caller running.
LEMMA KeepingCallStep ==
  ASSUME IInv, NEW p \in Pid,
         \/ \E r \in Resource, busy \in BOOLEAN : SetResourceBusy(p, r, busy)
         \/ \E q \in Pid : WakeUpFromKSWait(p, q)
  PROVE  IInv'
<1> USE DEF KeepProcessor, coreVars, lineVars, groupVars, cpuVars
<1>0. /\ info \in [Pid -> StateInfo] /\ fgGroup \in Pid
      /\ irqCount \in [Irq -> 0 .. MaxSignal] /\ resourceList \in [Resource -> BOOLEAN]
  BY DEF IInv, TypeOK
<1>1. ASSUME NEW r \in Resource, NEW busy \in BOOLEAN, SetResourceBusy(p, r, busy) PROVE IInv'
  <2>1. resourceList' \in [Resource -> BOOLEAN]
    BY <1>0, <1>1 DEF SetResourceBusy
  <2> QED
    BY <1>0, <1>1, <2>1, QuietStep DEF SetResourceBusy
<1>2. ASSUME NEW q \in Pid, WakeUpFromKSWait(p, q) PROVE IInv'
  <2>1. info' \in [Pid -> StateInfo]
    <3>1. [info[q] EXCEPT !.service = TRUE] \in StateInfo
      BY <1>0, InfoType
    <3>2. info' = [info EXCEPT ![q] = [info[q] EXCEPT !.service = TRUE]]
      BY <1>2 DEF WakeUpFromKSWait
    <3> QED
      BY <1>0, <3>1, <3>2
  <2> QED
    BY <1>0, <1>2, <2>1, QuietStep DEF WakeUpFromKSWait
<1> QED
  BY <1>1, <1>2

-----------------------------------------------------------------------------
(* Steps that leave the processor.                                         *)

\* A process of the map may change its status, as long as what it is
\* afterwards can be in the lists.
LEMMA StatusMove ==
  ASSUME IInv, NEW q \in processMap, NEW st \in Waiting \cup {"TERMINATED"},
         st \in Waiting => status[q] = "RUN",
         status' = [status EXCEPT ![q] = st],
         UNCHANGED <<nextPid, held, making, treeVars, listVars>>
  PROVE  status' \in [Pid -> Status] /\ Fresh' /\ Makes' /\ Lists' /\ Memory'
<1> USE DEF treeVars, listVars
<1>1. q \in Pid /\ processMap \subseteq Pid /\ status \in [Pid -> Status]
  BY DEF IInv, TypeOK
<1>2. \A x \in Pid : status'[x] = IF x = q THEN st ELSE status[x]
  BY <1>1
<1>3. st \notin Gone /\ st \in Status
  BY DEF Waiting, Gone, Status, Finished
<1>4. status' \in [Pid -> Status]
  BY <1>1, <1>3
<1>5. Fresh'
  BY <1>1, <1>2 DEF IInv, Fresh
<1>6. Makes'
  <2>1. st \notin {"UNUSED", "NEW"}
    BY <1>3 DEF Gone
  <2>2. \A s \in Pid : making[s].stage \in Early => making[s].pid # q
    BY DEF IInv, Makes
  <2>3. \A s \in Pid : making[s].stage # "none" => making[s].pid \in Pid
    BY DEF IInv, Makes
  <2>4. "none" \notin Early
    BY DEF Early
  <2> QED
    BY <1>2, <2>1, <2>2, <2>3, <2>4 DEF IInv, Makes, IsThread
<1>7. Lists'
  <2>1. schedulerList \in Seq(Pid) /\ threadList \in [Pid -> Seq(Pid)]
    BY DEF IInv, TypeOK
  <2>2. Elems(schedulerList) \subseteq Pid /\ \A m \in Pid : Elems(threadList[m]) \subseteq Pid
    BY <2>1 DEF Elems
  <2>3. \A m \in Pid : status[m] \in Finished \cup {"DELETED"}
                       => status'[m] \in Finished \cup {"DELETED"}
    BY <1>1, <1>2, <1>3 DEF Finished, Waiting
  <2> QED
    BY <1>2, <1>3, <2>2, <2>3 DEF IInv, Lists, IsThread
<1>8. Memory'
  BY <1>1, <1>2 DEF IInv, Memory, Runnable, Waiting
<1> QED
  BY <1>4, <1>5, <1>6, <1>7, <1>8

LEMMA LeaveStep ==
  ASSUME IInv, NEW flag \in BOOLEAN, mode = "process", LeaveProcessor(flag), UNCHANGED lineVars,
         info' \in [Pid -> StateInfo],
         \/ UNCHANGED status
         \/ \E q \in processMap, st \in Waiting \cup {"TERMINATED"} :
              /\ st \in Waiting => q = current
              /\ status' = [status EXCEPT ![q] = st]
  PROVE  IInv'
<1> USE DEF LeaveProcessor, treeVars, groupVars, listVars, lineVars
<1>1. status' \in [Pid -> Status] /\ Fresh' /\ Makes' /\ Lists' /\ Memory'
  <2>1. CASE UNCHANGED status
    BY <2>1 DEF IInv, TypeOK, Fresh, Makes, Lists, Memory, IsThread
  <2>2. CASE \E q \in processMap, st \in Waiting \cup {"TERMINATED"} :
              /\ st \in Waiting => q = current
              /\ status' = [status EXCEPT ![q] = st]
    BY <2>2, StatusMove DEF IInv, Cpu
  <2> QED
    BY <2>1, <2>2
<1>2. TypeOK'
  BY <1>1 DEF IInv, TypeOK
<1>3. status'[current] \in Runnable \cup {"TERMINATED"}
  <2>1. status[current] = "RUN" /\ status \in [Pid -> Status] /\ current \in Pid
    BY DEF IInv, Cpu, TypeOK
  <2> QED
    BY <2>1 DEF Runnable
<1>4. Cpu'
  BY <1>3 DEF IInv, Cpu
<1> QED
  BY <1>1, <1>2, <1>4 DEF IInv

LEMMA WaitingStep ==
  ASSUME IInv, NEW p \in Pid, Wait(p)
  PROVE  IInv'
<1>1. info \in [Pid -> StateInfo] /\ processMap \subseteq Pid
  BY DEF IInv, TypeOK
<1>2. ASSUME NEW call, NEW newStatus \in Waiting, NEW newInfo \in StateInfo,
             StartWait(p, call, newStatus, newInfo)
      PROVE  IInv'
  <2>1. info' \in [Pid -> StateInfo]
    BY <1>1, <1>2 DEF StartWait
  <2>2. /\ mode = "process" /\ LeaveProcessor(TRUE) /\ UNCHANGED lineVars
        /\ p \in processMap /\ p = current
        /\ status' = [status EXCEPT ![p] = newStatus]
    BY <1>2 DEF StartWait, Running
  <2> QED
    BY <2>1, <2>2, LeaveStep
<1>3. /\ \A t \in 1 .. MaxSleep : [info[p] EXCEPT !.sleep = t] \in StateInfo
      /\ \A i \in Irq : [info[p] EXCEPT !.irq = i] \in StateInfo
      /\ \A c \in Pid : [info[p] EXCEPT !.child = c] \in StateInfo
      /\ \A r \in Resource : [info[p] EXCEPT !.resource = r] \in StateInfo
      /\ [info[p] EXCEPT !.service = FALSE] \in StateInfo
      /\ info[p] \in StateInfo
  <2>1. 1 .. MaxSleep \subseteq 0 .. MaxSleep
    BY BoundAssumption
  <2> QED
    BY <1>1, <2>1, InfoType
<1> QED
  BY <1>2, <1>3 DEF Wait, Sleep, WaitOnInterrupt, WaitForEvent, WaitOnChild, WaitOnResource,
     WaitOnKernelService, Waiting

LEMMA LeavingStep ==
  ASSUME IInv,
         \/ Preempt
         \/ \E p \in Pid : Exit(p) \/ \E q \in Pid : Kill(p, q)
  PROVE  IInv'
<1>1. info \in [Pid -> StateInfo]
  BY DEF IInv, TypeOK
<1>2. CASE Preempt
  BY <1>1, <1>2, LeaveStep DEF Preempt
<1>3. ASSUME NEW p \in Pid, Exit(p) PROVE IInv'
  BY <1>1, <1>3, LeaveStep DEF Exit, Running
<1>4. ASSUME NEW p \in Pid, NEW q \in Pid, Kill(p, q) PROVE IInv'
  <2>1. "TERMINATED" \notin Waiting
    BY DEF Waiting
  <2> QED
    BY <1>1, <1>4, <2>1, LeaveStep DEF Kill, Running
<1> QED
  BY <1>2, <1>3, <1>4

-----------------------------------------------------------------------------
(* Creation.                                                               *)

\* The base class constructor: the new id is the first that was not used.
LEMMA ConstructStep ==
  ASSUME IInv, NEW p \in Pid, Running(p), nextPid < NPid,
         NEW par \in Pid \cup {NO_PROCESS_ID}, NEW main \in Pid, NEW fg \in BOOLEAN,
         Construct(nextPid, par, main, fg),
         NEW st \in {"begun", "threadBegun"}, NEW client \in Pid \cup {NO_PROCESS_ID},
         making' = [making EXCEPT ![p] = [stage |-> st, pid |-> nextPid, client |-> client]],
         st = "begun" => main = nextPid,
         st = "threadBegun" => main < nextPid,
         UNCHANGED <<schedulerIt, held, info, children, listVars, lineVars, cpuVars>>
  PROVE  IInv'
<1> DEFINE c == nextPid
           g == IF par \notin processMap THEN c ELSE group[par]
<1> USE DEF listVars, lineVars, cpuVars
<1>1. c \in Pid /\ c \in Nat /\ NPid \in Nat
  BY NPidAssumption DEF IInv, TypeOK, Pid
<1>2. g \in Pid
  BY <1>1, NPidAssumption DEF IInv, TypeOK, Pid, NO_PROCESS_ID
<1>3. /\ nextPid' = c + 1 /\ c \notin processMap /\ c \notin held /\ status[c] = "UNUSED"
      /\ \A x \in Pid : status'[x] = IF x = c THEN "NEW" ELSE status[x]
      /\ \A x \in Pid : mainThread'[x] = IF x = c THEN main ELSE mainThread[x]
      /\ \A x \in Pid : making'[x] = IF x = p THEN [stage |-> st, pid |-> c, client |-> client]
                                     ELSE making[x]
  BY <1>1 DEF IInv, TypeOK, Fresh, Construct
<1>4. TypeOK'
  <2>1. nextPid' \in 0 .. NPid
    BY <1>1, <1>3
  <2>2. /\ status' \in [Pid -> Status] /\ parent' \in [Pid -> Pid \cup {NO_PROCESS_ID}]
        /\ mainThread' \in [Pid -> Pid] /\ group' \in [Pid -> Pid]
        /\ fgGroup' \in Pid
    BY <1>1, <1>2 DEF IInv, TypeOK, Construct, Status
  <2>3. groupSize' \in [Pid -> Int]
    <3>1. groupSize \in [Pid -> Int] /\ groupSize' = [groupSize EXCEPT ![g] = groupSize[g] + 1]
      BY DEF IInv, TypeOK, Construct
    <3>2. groupSize[g] + 1 \in Int
      BY <1>2, <3>1
    <3> QED
      BY <3>1, <3>2
  <2>4. fgList' \in [Pid -> Seq(Pid)]
    <3>1. fgList \in [Pid -> Seq(Pid)] /\ <<c>> \in Seq(Pid)
      BY <1>1 DEF IInv, TypeOK
    <3>2. <<c>> \o fgList[g] \in Seq(Pid)
      BY <1>2, <3>1, ConcatProperties
    <3> QED
      BY <1>2, <3>1, <3>2 DEF Construct
  <2>5. making' \in [Pid -> Making]
    BY <1>1, <1>3 DEF IInv, TypeOK, Making, Stage
  <2> QED
    BY <2>1, <2>2, <2>3, <2>4, <2>5 DEF IInv, TypeOK
<1>5. Fresh'
  <2>1. ASSUME NEW x \in Pid, x >= nextPid'
        PROVE  status'[x] = "UNUSED" /\ x \notin processMap' /\ x \notin held'
    <3>1. x # c /\ x >= nextPid
      BY <1>1, <1>3, <2>1 DEF Pid
    <3> QED
      BY <1>3, <3>1 DEF IInv, Fresh
  <2>2. ASSUME NEW x \in Pid PROVE mainThread'[x] = x \/ mainThread'[x] < nextPid'
    <3>1. mainThread[x] \in Nat /\ main \in Nat
      BY PidIsNat DEF IInv, TypeOK
    <3>2. mainThread[x] = x \/ mainThread[x] < nextPid
      BY DEF IInv, Fresh
    <3> QED
      BY <1>1, <1>3, <3>1, <3>2
  <2> QED
    BY <2>1, <2>2 DEF Fresh
<1>6. Makes'
  <2>1. making[p].stage = "none"
    BY DEF Running, NotMaking
  <2>2. \A s \in Pid : making[s].stage # "none" => making[s].pid # c /\ making[s].pid \in Pid
    BY <1>1 DEF IInv, Makes, Pid
  <2>3. making'[p].stage \in Early /\ making'[p].pid = c /\ making'[p].stage = st /\ st # "linked"
        /\ st # "none"
    BY <1>3 DEF Early
  <2>4. "none" \notin Early
    BY DEF Early
  <2>5. \A s \in Pid : making'[s].stage # "none" =>
          making'[s].pid \in Pid /\ making'[s].pid < nextPid'
    BY <1>1, <1>3, <2>3 DEF IInv, Makes, Pid
  <2>6. ASSUME NEW s \in Pid, making'[s].stage \in Early
        PROVE  LET x == making'[s].pid IN
               /\ status'[x] = "NEW" /\ x \notin processMap'
               /\ (x \in held') <=> (making'[s].stage = "linked")
               /\ (mainThread'[x] # x) <=> (making'[s].stage = "threadBegun")
    <3>1. CASE s = p
      BY <1>1, <1>3, <2>3, <3>1
    <3>2. CASE s # p
      BY <1>3, <2>2, <2>4, <2>6, <3>2 DEF IInv, Makes, IsThread
    <3> QED
      BY <3>1, <3>2
  <2>7. \A s, r \in Pid :
          /\ making'[s].stage \in Early /\ making'[r].stage \in Early
          /\ making'[s].pid = making'[r].pid
          => s = r
    BY <1>3, <2>2, <2>3, <2>4 DEF IInv, Makes
  <2>8. \A s \in Pid : making'[s].stage = "threadAttached" =>
          status'[making'[s].pid] \notin {"UNUSED", "NEW"}
    BY <1>3, <2>2, <2>3 DEF IInv, Makes, Early
  <2> QED
    BY <2>5, <2>6, <2>7, <2>8 DEF Makes, IsThread
<1>7. Lists'
  <2>1. schedulerList \in Seq(Pid) /\ threadList \in [Pid -> Seq(Pid)]
    BY DEF IInv, TypeOK
  <2>2. \A m \in Elems(schedulerList) : m \in Pid /\ m # c
    BY <1>3, <2>1 DEF IInv, Lists, Elems, Gone
  <2>3. \A m \in Pid : \A t \in Elems(threadList[m]) : t \in Pid /\ t # c
    BY <1>3, <2>1 DEF IInv, Lists, Elems, Gone
  <2>4. Distinct(schedulerList) /\ \A m \in Pid : Distinct(threadList[m])
    BY DEF IInv, Lists
  <2>5. \A m \in Elems(schedulerList) : status'[m] \notin Gone /\ m \in processMap' /\ mainThread'[m] = m
    BY <1>3, <2>2 DEF IInv, Lists, IsThread
  <2>6. \A m \in Pid : \A t \in Elems(threadList[m]) :
          status'[t] \notin Gone /\ mainThread'[t] = m /\ mainThread'[t] # t
    BY <1>3, <2>3 DEF IInv, Lists, IsThread
  <2>7. \A m \in Pid : nextThread[m] <= Len(threadList[m]) \/ status'[m] \in Finished \cup {"DELETED"}
    BY <1>3 DEF IInv, Lists, Finished
  <2> QED
    BY <2>4, <2>5, <2>6, <2>7 DEF Lists, IsThread
<1>8. Memory'
  BY <1>1, <1>3 DEF IInv, Memory, Runnable, Waiting
<1>9. Cpu'
  BY <1>1, <1>3 DEF IInv, Cpu, TypeOK, Runnable, Waiting
<1> QED
  BY <1>4, <1>5, <1>6, <1>7, <1>8, <1>9 DEF IInv

LEMMA BeginStep ==
  ASSUME IInv, NEW p \in Pid,
         \/ \E par \in ParentChoices(p), fg \in FGChoices : BeginProcess(p, par, fg)
         \/ \E q \in ThreadClients(p) : BeginThread(p, q)
  PROVE  IInv'
<1>1. nextPid \in Nat /\ mainThread \in [Pid -> Pid]
  BY DEF IInv, TypeOK
<1>2. ASSUME NEW par \in ParentChoices(p), NEW fg \in FGChoices, BeginProcess(p, par, fg)
      PROVE  IInv'
  <2>1. par \in Pid \cup {NO_PROCESS_ID} /\ fg \in BOOLEAN
    BY FGAssumption DEF ParentChoices
  <2>2. nextPid < NPid /\ nextPid \in Pid
    BY <1>1, <1>2, NPidAssumption DEF BeginProcess, Pid
  <2> QED
    BY <1>2, <2>1, <2>2, ConstructStep DEF BeginProcess
<1>3. ASSUME NEW q \in ThreadClients(p), BeginThread(p, q) PROVE IInv'
  <2>1. q \in Pid /\ q \in processMap
    BY DEF ThreadClients, Serves
  <2>2. nextPid < NPid /\ nextPid \in Pid
    BY <1>1, <1>3, NPidAssumption DEF BeginThread, Pid
  <2>3. mainThread[q] \in Pid /\ mainThread[q] < nextPid
    BY <1>1, <2>1 DEF IInv, Fresh, Pid
  <2> QED
    BY <1>3, <2>1, <2>2, <2>3, ConstructStep DEF BeginThread
<1> QED
  BY <1>2, <1>3

\* What is known of a process c in the making: no list has it, and no other
\* creator.
LEMMA InTheMaking ==
  ASSUME IInv, NEW p \in Pid, making[p].stage \in Early
  PROVE  LET c == making[p].pid IN
         /\ c \in Pid /\ c < nextPid /\ status[c] = "NEW" /\ c \notin processMap
         /\ c \notin Elems(schedulerList) /\ \A m \in Pid : c \notin Elems(threadList[m])
         /\ \A r \in Pid : making[r].stage \in Early /\ making[r].pid = c => r = p
         /\ mode # "scheduler" => c # current
<1>1. "none" \notin Early
  BY DEF Early
<1>2. LET c == making[p].pid IN
      /\ c \in Pid /\ c < nextPid /\ status[c] = "NEW" /\ c \notin processMap
      /\ \A r \in Pid : making[r].stage \in Early /\ making[r].pid = c => r = p
  BY <1>1 DEF IInv, Makes
<1>3. LET c == making[p].pid IN
      c \notin Elems(schedulerList) /\ \A m \in Pid : c \notin Elems(threadList[m])
  BY <1>2 DEF IInv, Lists, Gone
<1>4. LET c == making[p].pid IN mode # "scheduler" => c # current
  BY <1>2 DEF IInv, Cpu, Runnable, Waiting
<1> QED
  BY <1>2, <1>3, <1>4

LEMMA MakesKept ==
  ASSUME IInv, NEW p \in Pid, making[p].stage \in Early, NEW mk \in Making,
         making' = [making EXCEPT ![p] = mk],
         \A x \in Pid : x # making[p].pid =>
           /\ status'[x] = status[x] /\ (x \in held' <=> x \in held)
           /\ (x \in processMap' <=> x \in processMap),
         \/ mk.stage = "none"
         \/ /\ mk.stage = "threadAttached" /\ mk.pid = making[p].pid
            /\ status'[mk.pid] \notin {"UNUSED", "NEW"}
         \/ /\ mk.stage = "linked" /\ mk.pid = making[p].pid /\ making[p].stage = "begun"
            /\ status'[mk.pid] = "NEW" /\ mk.pid \in held' /\ mk.pid \notin processMap',
         UNCHANGED <<nextPid, mainThread>>
  PROVE  Makes'
<1> DEFINE c == making[p].pid
<1>1. making \in [Pid -> Making] /\ "none" \notin Early /\ "threadAttached" \notin Early
  BY DEF IInv, TypeOK, Early
<1>2. \A s \in Pid : making'[s] = IF s = p THEN mk ELSE making[s]
  BY <1>1
<1>3. c \in Pid /\ c < nextPid
      /\ \A r \in Pid : making[r].stage \in Early /\ making[r].pid = c => r = p
  BY InTheMaking
<1>4. \A s \in Pid : making'[s].stage # "none" =>
        making'[s].pid \in Pid /\ making'[s].pid < nextPid'
  BY <1>1, <1>2, <1>3 DEF IInv, Makes
<1>5. ASSUME NEW s \in Pid, making'[s].stage \in Early
      PROVE  LET x == making'[s].pid IN
             /\ status'[x] = "NEW" /\ x \notin processMap'
             /\ (x \in held') <=> (making'[s].stage = "linked")
             /\ (mainThread'[x] # x) <=> (making'[s].stage = "threadBegun")
  <2>1. CASE s = p
    <3>1. (mainThread[c] # c) <=> (making[p].stage = "threadBegun")
      BY DEF IInv, Makes, IsThread
    <3> QED
      BY <1>1, <1>2, <1>5, <2>1, <3>1
  <2>2. CASE s # p
    <3>1. making[s].stage \in Early /\ making'[s] = making[s] /\ making[s].pid # c
          /\ making[s].pid \in Pid
      BY <1>1, <1>2, <1>3, <1>5, <2>2 DEF IInv, Makes
    <3> QED
      BY <3>1 DEF IInv, Makes, IsThread
  <2> QED
    BY <2>1, <2>2
<1>6. \A s, r \in Pid :
        /\ making'[s].stage \in Early /\ making'[r].stage \in Early
        /\ making'[s].pid = making'[r].pid
        => s = r
  BY <1>1, <1>2, <1>3 DEF IInv, Makes
<1>7. ASSUME NEW s \in Pid, making'[s].stage = "threadAttached"
      PROVE  status'[making'[s].pid] \notin {"UNUSED", "NEW"}
  <2>1. CASE s = p
    BY <1>2, <1>7, <2>1
  <2>2. CASE s # p
    <3>1. making'[s] = making[s] /\ making[s].pid \in Pid
          /\ status[making[s].pid] \notin {"UNUSED", "NEW"}
      BY <1>2, <1>7, <2>2 DEF IInv, Makes
    <3>2. status[c] = "NEW"
      BY InTheMaking
    <3> QED
      BY <3>1, <3>2
  <2> QED
    BY <2>1, <2>2
<1> QED
  BY <1>4, <1>5, <1>6, <1>7 DEF Makes, IsThread

LEMMA FailStep ==
  ASSUME IInv, NEW p \in Pid, FailCreation(p)
  PROVE  IInv'
<1> DEFINE c == making[p].pid
<1> USE DEF treeVars, groupVars, listVars, lineVars, cpuVars
<1>1. making[p].stage \in Early /\ NotMaking \in Making /\ NotMaking.stage = "none"
  BY DEF FailCreation, Early, NotMaking, Making, Stage
<1>2. /\ c \in Pid /\ status[c] = "NEW"
      /\ c \notin Elems(schedulerList) /\ (\A m \in Pid : c \notin Elems(threadList[m]))
      /\ c # current /\ c < nextPid
  BY <1>1, InTheMaking DEF FailCreation
<1>3. /\ status \in [Pid -> Status] /\ status' = [status EXCEPT ![c] = "DELETED"]
      /\ making' = [making EXCEPT ![p] = NotMaking] /\ making \in [Pid -> Making]
      /\ UNCHANGED <<nextPid, processMap, held, mainThread, schedulerList, threadList, nextThread>>
  BY DEF FailCreation, IInv, TypeOK
<1>4. \A x \in Pid : status'[x] = IF x = c THEN "DELETED" ELSE status[x]
  BY <1>2, <1>3
<1>5. TypeOK'
  <2>1. status' \in [Pid -> Status] /\ making' \in [Pid -> Making]
    BY <1>1, <1>3 DEF Status
  <2> QED
    BY <2>1 DEF FailCreation, IInv, TypeOK
<1>6. Fresh'
  BY <1>2, <1>3, <1>4, PidIsNat DEF IInv, Fresh, TypeOK
<1>7. Makes'
  BY <1>1, <1>3, <1>4, MakesKept
<1>8. Lists'
  <2>1. schedulerList \in Seq(Pid) /\ threadList \in [Pid -> Seq(Pid)]
    BY DEF IInv, TypeOK
  <2>2. Elems(schedulerList) \subseteq Pid /\ \A m \in Pid : Elems(threadList[m]) \subseteq Pid
    BY <2>1 DEF Elems
  <2> QED
    BY <1>2, <1>3, <1>4, <2>2 DEF IInv, Lists, IsThread
<1>9. Memory'
  BY <1>3, <1>4 DEF IInv, Memory, Runnable, Waiting
<1>10. Cpu'
  BY <1>2, <1>3, <1>4 DEF IInv, Cpu, FailCreation, TypeOK
<1> QED
  BY <1>5, <1>6, <1>7, <1>8, <1>9, <1>10 DEF IInv

LEMMA LinkStep ==
  ASSUME IInv, NEW p \in Pid, LinkProcess(p)
  PROVE  IInv'
<1> DEFINE c == making[p].pid
           mk == [making[p] EXCEPT !.stage = "linked"]
<1> USE DEF groupVars, listVars, lineVars, cpuVars
<1>1. making[p].stage \in Early /\ making[p].stage = "begun"
  BY DEF LinkProcess, Early
<1>2. c \in Pid /\ status[c] = "NEW" /\ c \notin processMap /\ c < nextPid
  BY <1>1, InTheMaking
<1>3. /\ making \in [Pid -> Making] /\ making' = [making EXCEPT ![p] = mk]
      /\ mk \in Making /\ mk.stage = "linked" /\ mk.pid = c
      /\ held' = held \cup {c}
      /\ UNCHANGED <<nextPid, status, mainThread, processMap>>
  BY DEF LinkProcess, IInv, TypeOK, Making, Stage
<1>4. TypeOK'
  <2>1. making' \in [Pid -> Making] /\ held' \subseteq Pid
    BY <1>2, <1>3 DEF IInv, TypeOK
  <2>2. children' \in [Pid -> SUBSET Pid]
    BY <1>2 DEF LinkProcess, IInv, TypeOK
  <2> QED
    BY <2>1, <2>2 DEF LinkProcess, IInv, TypeOK
<1>5. Fresh'
  BY <1>2, <1>3, PidIsNat DEF IInv, Fresh, TypeOK
<1>6. Makes'
  <2>1. \A x \in Pid : x # making[p].pid =>
          /\ status'[x] = status[x] /\ (x \in held' <=> x \in held)
          /\ (x \in processMap' <=> x \in processMap)
    BY <1>3
  <2>2. status'[mk.pid] = "NEW" /\ mk.pid \in held' /\ mk.pid \notin processMap'
    BY <1>2, <1>3
  <2> QED
    BY <1>1, <1>3, <2>1, <2>2, MakesKept
<1>7. Lists' /\ Memory' /\ Cpu'
  BY <1>3 DEF LinkProcess, IInv, Lists, Memory, Cpu, IsThread
<1> QED
  BY <1>4, <1>5, <1>6, <1>7 DEF IInv

LEMMA AppendDistinct ==
  ASSUME NEW S, NEW s \in Seq(S), NEW x \in S, Distinct(s), x \notin Elems(s)
  PROVE  /\ Append(s, x) \in Seq(S) /\ Len(Append(s, x)) = Len(s) + 1
         /\ Distinct(Append(s, x))
         /\ Elems(Append(s, x)) = Elems(s) \cup {x}
         /\ \A i \in 1 .. Len(s) : Append(s, x)[i] = s[i]
<1>1. DOMAIN s = 1 .. Len(s) /\ Len(s) \in Nat
  OBVIOUS
<1>2. /\ Append(s, x) \in Seq(S) /\ Len(Append(s, x)) = Len(s) + 1
      /\ DOMAIN Append(s, x) = 1 .. Len(s) + 1
      /\ \A i \in 1 .. Len(s) + 1 : Append(s, x)[i] = IF i = Len(s) + 1 THEN x ELSE s[i]
  OBVIOUS
<1>3. Distinct(Append(s, x))
  <2> SUFFICES ASSUME NEW i \in 1 .. Len(s) + 1, NEW j \in 1 .. Len(s) + 1,
                      Append(s, x)[i] = Append(s, x)[j]
               PROVE  i = j
    BY <1>2 DEF Distinct
  <2>1. \A k \in 1 .. Len(s) : s[k] # x
    BY <1>1 DEF Elems
  <2> QED
    BY <1>1, <1>2, <2>1 DEF Distinct
<1>4. Elems(Append(s, x)) = Elems(s) \cup {x}
  BY <1>1, <1>2 DEF Elems
<1> QED
  BY <1>1, <1>2, <1>3, <1>4

LEMMA PublishStep ==
  ASSUME IInv, NEW p \in Pid, PublishProcess(p)
  PROVE  IInv'
<1> DEFINE c == making[p].pid
<1> USE DEF treeVars, groupVars, lineVars, cpuVars
<1>1. making[p].stage \in Early /\ NotMaking \in Making /\ NotMaking.stage = "none"
  BY DEF PublishProcess, Early, NotMaking, Making, Stage
<1>2. /\ c \in Pid /\ status[c] = "NEW" /\ c < nextPid
      /\ c \notin Elems(schedulerList) /\ (\A m \in Pid : c \notin Elems(threadList[m]))
      /\ c # current
  BY <1>1, InTheMaking DEF PublishProcess
<1>3. c \in held /\ mainThread[c] = c
  BY <1>1 DEF PublishProcess, IInv, Makes, IsThread
<1>4. /\ status \in [Pid -> Status] /\ making \in [Pid -> Making] /\ processMap \subseteq Pid
      /\ schedulerList \in Seq(Pid) /\ threadList \in [Pid -> Seq(Pid)]
      /\ making' = [making EXCEPT ![p] = NotMaking]
      /\ UNCHANGED <<nextPid, held, mainThread, threadList, nextThread, schedulerIt, current, mode>>
  BY DEF PublishProcess, IInv, TypeOK
<1>5. Elems(schedulerList) \subseteq Pid /\ \A m \in Pid : Elems(threadList[m]) \subseteq Pid
  BY <1>4 DEF Elems
<1>6. CASE MapFull
  <2>1. UNCHANGED <<processMap, schedulerList, status>>
    BY <1>6 DEF PublishProcess
  <2>2. making' \in [Pid -> Making]
    BY <1>1, <1>4
  <2>3. TypeOK'
    BY <2>1, <2>2 DEF PublishProcess, IInv, TypeOK
  <2>4. Makes'
    BY <1>1, <1>4, <2>1, MakesKept
  <2>5. Fresh' /\ Lists' /\ Memory' /\ Cpu'
    BY <1>4, <2>1 DEF IInv, Fresh, Lists, Memory, Cpu, IsThread
  <2> QED
    BY <2>3, <2>4, <2>5 DEF IInv
<1>7. CASE ~MapFull
  <2>1. /\ processMap' = processMap \cup {c}
        /\ schedulerList' = Append(schedulerList, c)
        /\ status' = [status EXCEPT ![c] = "RUN"]
    BY <1>7 DEF PublishProcess
  <2>2. \A x \in Pid : status'[x] = IF x = c THEN "RUN" ELSE status[x]
    BY <1>4, <2>1
  <2>3. /\ schedulerList' \in Seq(Pid) /\ Len(schedulerList') = Len(schedulerList) + 1
        /\ Distinct(schedulerList') /\ Elems(schedulerList') = Elems(schedulerList) \cup {c}
        /\ \A i \in 1 .. Len(schedulerList) : schedulerList'[i] = schedulerList[i]
    BY <1>2, <1>4, <2>1, AppendDistinct DEF IInv, Lists
  <2>4. TypeOK'
    <3>1. making' \in [Pid -> Making] /\ status' \in [Pid -> Status] /\ processMap' \subseteq Pid
      BY <1>1, <1>2, <1>4, <2>1 DEF Status
    <3>2. schedulerIt' \in 1 .. Len(schedulerList') + 1
      BY <1>4, <2>3 DEF IInv, TypeOK
    <3> QED
      BY <2>3, <3>1, <3>2 DEF PublishProcess, IInv, TypeOK
  <2>5. Makes'
    BY <1>1, <1>4, <2>1, <2>2, MakesKept
  <2>6. Fresh'
    BY <1>2, <1>4, <2>1, <2>2, PidIsNat DEF IInv, Fresh, TypeOK
  <2>7. Lists'
    <3>1. \A m \in Elems(schedulerList') :
            status'[m] \notin Gone /\ m \in processMap' /\ mainThread'[m] = m
      BY <1>3, <1>4, <1>5, <2>1, <2>2, <2>3 DEF IInv, Lists, Gone, IsThread
    <3>2. ASSUME NEW m \in Pid, NEW t \in Elems(threadList[m])
          PROVE  status'[t] \notin Gone /\ mainThread'[t] = m /\ mainThread'[t] # t
      <4>1. t \in Pid /\ t # c
        BY <1>2, <1>5
      <4> QED
        BY <1>4, <2>2, <4>1 DEF IInv, Lists, IsThread
    <3>3. ASSUME NEW m \in Pid
          PROVE  nextThread[m] <= Len(threadList[m])
                 \/ status'[m] \in Finished \cup {"DELETED"}
      <4>1. status[m] \in Finished \cup {"DELETED"} => status'[m] = status[m]
        BY <1>2, <2>2 DEF Finished
      <4> QED
        BY <4>1 DEF IInv, Lists
    <3> QED
      BY <1>4, <2>3, <3>1, <3>2, <3>3 DEF IInv, Lists, IsThread
  <2>8. Memory'
    BY <1>3, <1>4, <2>2 DEF IInv, Memory
  <2>9. Cpu'
    <3> SUFFICES ASSUME mode # "scheduler" PROVE Cpu'
      BY <1>4 DEF Cpu
    <3>1. /\ schedulerIt \in 1 .. Len(schedulerList) /\ schedulerList[schedulerIt] = mainThread[current]
          /\ Len(schedulerList) \in Nat /\ current \in Pid
      BY DEF IInv, Cpu, TypeOK
    <3>2. status'[current] = status[current]
      BY <1>2, <2>2, <3>1
    <3>3. schedulerIt' <= Len(schedulerList') /\ schedulerList'[schedulerIt'] = mainThread'[current']
      BY <1>4, <2>3, <3>1
    <3> QED
      BY <1>4, <3>2, <3>3 DEF IInv, Cpu
  <2> QED
    BY <2>4, <2>5, <2>6, <2>7, <2>8, <2>9 DEF IInv
<1> QED
  BY <1>6, <1>7

LEMMA AttachStep ==
  ASSUME IInv, NEW p \in Pid, AttachThread(p)
  PROVE  IInv'
<1> DEFINE c == making[p].pid
           m == mainThread[c]
           mk == [making[p] EXCEPT !.stage = "threadAttached"]
<1> USE DEF treeVars, groupVars, lineVars, cpuVars
<1>1. making[p].stage \in Early /\ making[p].stage = "threadBegun"
  BY DEF AttachThread, Early
<1>2. /\ c \in Pid /\ status[c] = "NEW" /\ c < nextPid
      /\ c \notin Elems(schedulerList) /\ (\A x \in Pid : c \notin Elems(threadList[x]))
      /\ c # current
  BY <1>1, InTheMaking DEF AttachThread
<1>3. /\ status \in [Pid -> Status] /\ making \in [Pid -> Making]
      /\ threadList \in [Pid -> Seq(Pid)] /\ schedulerList \in Seq(Pid)
      /\ mainThread \in [Pid -> Pid]
      /\ making' = [making EXCEPT ![p] = mk] /\ mk \in Making
      /\ mk.stage = "threadAttached" /\ mk.pid = c
      /\ held' = held \cup {c}
      /\ threadList' = [threadList EXCEPT ![m] = Append(threadList[m], c)]
      /\ status' = [status EXCEPT ![c] = "RUN"]
      /\ UNCHANGED <<nextPid, mainThread, processMap, schedulerList, nextThread, schedulerIt,
                     current, mode>>
  BY DEF AttachThread, IInv, TypeOK, Making, Stage
<1>4. m \in Pid /\ m # c
  BY <1>1, <1>2, <1>3 DEF IInv, Makes, IsThread
<1>5. \A x \in Pid : status'[x] = IF x = c THEN "RUN" ELSE status[x]
  BY <1>2, <1>3
<1>6. /\ threadList'[m] \in Seq(Pid) /\ Len(threadList'[m]) = Len(threadList[m]) + 1
      /\ Distinct(threadList'[m]) /\ Elems(threadList'[m]) = Elems(threadList[m]) \cup {c}
  BY <1>2, <1>3, <1>4, AppendDistinct DEF IInv, Lists
<1>7. Elems(schedulerList) \subseteq Pid /\ \A x \in Pid : Elems(threadList[x]) \subseteq Pid
  BY <1>3 DEF Elems
<1>8. \A x \in Pid : x # m => threadList'[x] = threadList[x]
  BY <1>3, <1>4
<1>9. TypeOK'
  <2>1. making' \in [Pid -> Making] /\ status' \in [Pid -> Status] /\ held' \subseteq Pid
    BY <1>2, <1>3 DEF IInv, TypeOK, Status
  <2>2. threadList' \in [Pid -> Seq(Pid)]
    BY <1>3, <1>4, <1>6
  <2> QED
    BY <2>1, <2>2 DEF AttachThread, IInv, TypeOK
<1>10. Fresh'
  BY <1>2, <1>3, <1>5, PidIsNat DEF IInv, Fresh, TypeOK
<1>11. Makes'
  <2>1. \A x \in Pid : x # making[p].pid =>
          /\ status'[x] = status[x] /\ (x \in held' <=> x \in held)
          /\ (x \in processMap' <=> x \in processMap)
    BY <1>3, <1>5
  <2>2. status'[mk.pid] \notin {"UNUSED", "NEW"}
    BY <1>2, <1>3, <1>5
  <2> QED
    BY <1>1, <1>3, <2>1, <2>2, MakesKept
<1>12. Lists'
  <2>1. \A x \in Elems(schedulerList) :
          status'[x] \notin Gone /\ x \in processMap' /\ mainThread'[x] = x
    BY <1>2, <1>3, <1>5, <1>7 DEF IInv, Lists, IsThread
  <2>2. \A x \in Pid : Distinct(threadList'[x])
    BY <1>6, <1>8 DEF IInv, Lists
  <2>3. ASSUME NEW x \in Pid, NEW t \in Elems(threadList'[x])
        PROVE  status'[t] \notin Gone /\ mainThread'[t] = x /\ mainThread'[t] # t
    <3>1. CASE t = c
      <4>1. x = m
        BY <1>2, <1>8, <3>1
      <4> QED
        BY <1>2, <1>3, <1>4, <1>5, <3>1, <4>1 DEF Gone
    <3>2. CASE t # c
      <4>1. t \in Elems(threadList[x]) /\ t \in Pid
        BY <1>6, <1>7, <1>8, <2>3, <3>2
      <4> QED
        BY <1>3, <1>5, <3>2, <4>1 DEF IInv, Lists, IsThread
    <3> QED
      BY <3>1, <3>2
  <2>4. \A x \in Pid : nextThread[x] <= Len(threadList'[x])
                       \/ status'[x] \in Finished \cup {"DELETED"}
    <3>1. \A x \in Pid : nextThread[x] \in Nat /\ Len(threadList[x]) \in Nat
      BY <1>3 DEF IInv, TypeOK
    <3>2. \A x \in Pid : Len(threadList'[x]) >= Len(threadList[x])
      BY <1>6, <1>8, <3>1
    <3>3. \A x \in Pid : Len(threadList'[x]) \in Nat
      BY <1>6, <1>8, <3>1
    <3> QED
      BY <1>2, <1>5, <3>1, <3>2, <3>3 DEF IInv, Lists, Finished
  <2> QED
    BY <1>3, <2>1, <2>2, <2>3, <2>4 DEF IInv, Lists, IsThread
<1>13. Memory'
  BY <1>3, <1>5 DEF IInv, Memory
<1>14. Cpu'
  BY <1>2, <1>3, <1>5 DEF IInv, Cpu, TypeOK
<1> QED
  BY <1>9, <1>10, <1>11, <1>12, <1>13, <1>14 DEF IInv

LEMMA PublishThreadStep ==
  ASSUME IInv, NEW p \in Pid, PublishThread(p)
  PROVE  IInv'
<1> DEFINE c == making[p].pid
<1> USE DEF treeVars, groupVars, lineVars, cpuVars
<1>1. making[p].stage = "threadAttached" /\ "threadAttached" \notin Early /\ "none" \notin Early
      /\ NotMaking \in Making /\ NotMaking.stage = "none"
  BY DEF PublishThread, Early, NotMaking, Making, Stage
<1>2. c \in Pid /\ c < nextPid
  BY <1>1 DEF IInv, Makes
<1>3. /\ making \in [Pid -> Making] /\ processMap \subseteq Pid
      /\ making' = [making EXCEPT ![p] = NotMaking]
      /\ processMap' \in {processMap, processMap \cup {c}}
      /\ UNCHANGED <<nextPid, status, held, mainThread, schedulerList, threadList, nextThread>>
  BY DEF PublishThread, IInv, TypeOK
<1>4. TypeOK'
  <2>1. making' \in [Pid -> Making] /\ processMap' \subseteq Pid
    BY <1>1, <1>2, <1>3
  <2> QED
    BY <2>1 DEF PublishThread, IInv, TypeOK
<1>5. Fresh'
  <2>1. \A x \in Pid : x >= nextPid => x \notin processMap'
    <3>1. \A x \in processMap' : x \in processMap \/ x = c
      BY <1>3
    <3>2. nextPid \in Int /\ Pid \subseteq Int
      BY PidIsNat DEF IInv, TypeOK
    <3> QED
      BY <1>2, <3>1, <3>2 DEF IInv, Fresh
  <2> QED
    BY <1>3, <2>1 DEF IInv, Fresh
<1>6. Makes'
  <2>1. status[c] # "NEW"
    BY <1>1 DEF IInv, Makes
  <2>2. \A s \in Pid : making'[s] = IF s = p THEN NotMaking ELSE making[s]
    BY <1>3
  <2>3. \A s \in Pid : making[s].stage \in Early => status[making[s].pid] = "NEW"
    BY DEF IInv, Makes
  <2>4. \A s \in Pid : making[s].stage \in Early => making[s].pid \notin processMap'
    BY <1>3, <2>1, <2>3 DEF IInv, Makes
  <2> QED
    BY <1>1, <1>3, <2>2, <2>4 DEF IInv, Makes, IsThread
<1>7. Lists' /\ Memory' /\ Cpu'
  BY <1>3 DEF PublishThread, IInv, Lists, Memory, Cpu, IsThread
<1> QED
  BY <1>4, <1>5, <1>6, <1>7 DEF IInv

-----------------------------------------------------------------------------
(* Dispatch, passing over, and the end of a process.                       *)

LEMMA EraseAt ==
  ASSUME NEW S, NEW s \in Seq(S), NEW k \in 1 .. Len(s), Distinct(s)
  PROVE  /\ RemoveAt(s, k) \in Seq(S) /\ Len(RemoveAt(s, k)) = Len(s) - 1
         /\ Distinct(RemoveAt(s, k))
         /\ Elems(RemoveAt(s, k)) = Elems(s) \ {s[k]}
<1> DEFINE r == RemoveAt(s, k)
           n == Len(s)
<1>1. /\ r \in Seq(S) /\ Len(r) = n - 1
      /\ \A i \in 1 .. n - 1 : r[i] = IF i < k THEN s[i] ELSE s[i + 1]
  BY RemoveAtProperties
<1>2. n \in Nat /\ DOMAIN s = 1 .. n /\ DOMAIN r = 1 .. n - 1
  BY <1>1
<1> HIDE DEF r
<1>3. Distinct(r)
  <2> SUFFICES ASSUME NEW i \in 1 .. n - 1, NEW j \in 1 .. n - 1, r[i] = r[j] PROVE i = j
    BY <1>2 DEF Distinct
  <2> DEFINE at(x) == IF x < k THEN x ELSE x + 1
  <2>1. at(i) \in 1 .. n /\ at(j) \in 1 .. n /\ s[at(i)] = s[at(j)]
    BY <1>1, <1>2
  <2>2. at(i) = at(j)
    BY <1>2, <2>1 DEF Distinct
  <2> QED
    BY <1>2, <2>2
<1>4. ASSUME NEW x \in Elems(r) PROVE x \in Elems(s) \ {s[k]}
  <2>1. PICK i \in 1 .. n - 1 : x = r[i]
    BY <1>2 DEF Elems
  <2> DEFINE j == IF i < k THEN i ELSE i + 1
  <2>2. j \in 1 .. n /\ j # k /\ x = s[j]
    BY <1>1, <1>2, <2>1
  <2> QED
    BY <1>2, <2>2 DEF Distinct, Elems
<1>5. ASSUME NEW x \in Elems(s), x # s[k] PROVE x \in Elems(r)
  <2>1. PICK j \in 1 .. n : x = s[j]
    BY <1>2 DEF Elems
  <2> DEFINE i == IF j < k THEN j ELSE j - 1
  <2>2. i \in 1 .. n - 1 /\ x = r[i]
    BY <1>1, <1>2, <1>5, <2>1
  <2> QED
    BY <1>2, <2>2 DEF Elems
<1> QED
  BY <1>1, <1>3, <1>4, <1>5 DEF r

LEMMA RemovedType ==
  ASSUME NEW S, NEW s \in Seq(S), NEW x
  PROVE  Removed(s, x) \in Seq(S)
<1>1. CASE x \in Elems(s)
  <2>1. IndexIn(s, x) \in 1 .. Len(s)
    BY <1>1 DEF Elems, IndexIn
  <2> QED
    BY <1>1, <2>1, RemoveAtProperties DEF Removed
<1> QED
  BY <1>1 DEF Removed

\* What steps that end lives, and start none, keep of the creations.
LEMMA LifeStep ==
  ASSUME IInv, status' \in [Pid -> Status],
         UNCHANGED <<nextPid, making, mainThread>>,
         processMap' \subseteq processMap, held' \subseteq held,
         \A x \in Pid : \/ status'[x] = status[x]
                        \/ /\ status'[x] \notin {"UNUSED", "NEW"}
                           /\ x \in processMap \/ status[x] \notin {"UNUSED", "NEW"},
         \A x \in held \ held' : status[x] # "NEW"
  PROVE  Fresh' /\ Makes'
<1>1. Fresh'
  BY DEF IInv, Fresh
<1>2. \A s \in Pid : making[s].stage # "none" => making[s].pid \in Pid
  BY DEF IInv, Makes
<1>3. "none" \notin Early
  BY DEF Early
<1>4. ASSUME NEW s \in Pid, making[s].stage \in Early
      PROVE  LET c == making[s].pid IN
             /\ status'[c] = "NEW" /\ c \notin processMap'
             /\ (c \in held') <=> (making[s].stage = "linked")
             /\ IsThread(c) <=> (making[s].stage = "threadBegun")
  BY <1>2, <1>3, <1>4 DEF IInv, Makes
<1>5. \A s \in Pid : making[s].stage = "threadAttached" =>
        status'[making[s].pid] \notin {"UNUSED", "NEW"}
  BY <1>2 DEF IInv, Makes
<1>6. Makes'
  BY <1>4, <1>5 DEF IInv, Makes, IsThread
<1> QED
  BY <1>1, <1>6

\* The process the scheduler is at, and the one it picks.
LEMMA AtSchedule ==
  ASSUME IInv, schedulerList # <<>>
  PROVE  LET m == schedulerList[NextIt]
             p == Picked(m)
         IN /\ NextIt \in 1 .. Len(schedulerList)
            /\ m \in Pid /\ m \in Elems(schedulerList) /\ m \in processMap
            /\ status[m] \notin Gone /\ ~IsThread(m)
            /\ p \in Pid /\ p \in {m} \cup Elems(threadList[m]) /\ mainThread[p] = m
            /\ status[p] \notin Gone
            /\ IsThread(p) <=> p # m
            /\ \A t \in Erased(m) : /\ t \in Elems(threadList[m]) /\ t \in Pid
                                    /\ mainThread[t] = m /\ IsThread(t)
                                    /\ status[t] = "RELEASED"
<1> DEFINE m == schedulerList[NextIt]
           p == Picked(m)
<1>1. schedulerList \in Seq(Pid) /\ schedulerIt \in 1 .. Len(schedulerList) + 1
      /\ threadList \in [Pid -> Seq(Pid)]
  BY DEF IInv, TypeOK
<1>2. NextIt \in 1 .. Len(schedulerList)
  BY <1>1 DEF NextIt
<1>3. m \in Pid /\ m \in Elems(schedulerList)
  BY <1>1, <1>2 DEF Elems
<1>4. status[m] \notin Gone /\ m \in processMap /\ ~IsThread(m)
  BY <1>3 DEF IInv, Lists
<1>5. Elems(threadList[m]) \subseteq Pid
  BY <1>1, <1>3 DEF Elems
<1>6. \A t \in Elems(threadList[m]) : status[t] \notin Gone /\ mainThread[t] = m /\ IsThread(t)
  BY <1>3 DEF IInv, Lists
<1>7. /\ Erased(m) \subseteq Elems(threadList[m]) /\ \A t \in Erased(m) : status[t] = "RELEASED"
      /\ p \in {m} \cup Elems(threadList[m])
  BY <1>3, <1>4, ForSchedule DEF IInv
<1> QED
  BY <1>2, <1>3, <1>4, <1>5, <1>6, <1>7 DEF IsThread

\* The thread lists after forSchedule, whatever it does with the picked one,
\* as long as no list entry is deleted by that.
LEMMA ThreadLists ==
  ASSUME IInv, schedulerList # <<>>,
         NEW m, m = schedulerList[NextIt],
         threadList' = [threadList EXCEPT ![m] = Kept(m)],
         nextThread' = [nextThread EXCEPT ![m] = NextThread(m)],
         mainThread' = mainThread,
         \A t \in Pid : IsThread(t) /\ t \notin Erased(m) /\ status[t] \notin Gone
                        => status'[t] \notin Gone,
         \A x \in Pid : status[x] \in Finished \cup {"DELETED"}
                        => status'[x] \in Finished \cup {"DELETED"}
  PROVE  /\ threadList' \in [Pid -> Seq(Pid)] /\ nextThread' \in [Pid -> Nat]
         /\ \A x \in Pid : Distinct(threadList'[x])
         /\ \A x \in Pid : \A t \in Elems(threadList'[x]) :
              status'[t] \notin Gone /\ mainThread'[t] = x /\ mainThread'[t] # t
         /\ \A x \in Pid : nextThread'[x] <= Len(threadList'[x])
                           \/ status'[x] \in Finished \cup {"DELETED"}
<1>0. threadList \in [Pid -> Seq(Pid)] /\ nextThread \in [Pid -> Nat]
  BY DEF IInv, TypeOK
<1>1. /\ threadList \in [Pid -> Seq(Pid)] /\ nextThread \in [Pid -> Nat]
      /\ \A x \in Pid : Elems(threadList[x]) \subseteq Pid
  BY <1>0 DEF Elems
<1>2. m \in Pid /\ status[m] \notin Gone
      /\ \A t \in Erased(m) : t \in Pid /\ mainThread[t] = m
  BY AtSchedule
<1>3. /\ Kept(m) \in Seq(Pid) /\ Distinct(Kept(m))
      /\ Elems(Kept(m)) \subseteq Elems(threadList[m]) \ Erased(m)
      /\ NextThread(m) \in Nat
      /\ NextThread(m) <= Len(Kept(m)) \/ status[m] \in Finished
  BY <1>2, ForSchedule DEF IInv
<1>4. \A x \in Pid : threadList'[x] = IF x = m THEN Kept(m) ELSE threadList[x]
  BY <1>1, <1>2
<1>5. \A x \in Pid : nextThread'[x] = IF x = m THEN NextThread(m) ELSE nextThread[x]
  BY <1>1, <1>2
<1>6. threadList' \in [Pid -> Seq(Pid)] /\ nextThread' \in [Pid -> Nat]
  BY <1>1, <1>2, <1>3
<1>7. \A x \in Pid : Distinct(threadList'[x])
  BY <1>3, <1>4 DEF IInv, Lists
<1>8. ASSUME NEW x \in Pid, NEW t \in Elems(threadList'[x])
      PROVE  status'[t] \notin Gone /\ mainThread'[t] = x /\ mainThread'[t] # t
  <2>1. t \in Elems(threadList[x]) /\ t \in Pid
    BY <1>1, <1>3, <1>4, <1>8
  <2>2. status[t] \notin Gone /\ mainThread[t] = x /\ IsThread(t)
    BY <2>1 DEF IInv, Lists
  <2>3. t \notin Erased(m)
    BY <1>2, <1>3, <1>4, <1>8, <2>2
  <2> QED
    BY <2>1, <2>2, <2>3 DEF IsThread
<1>9. \A x \in Pid : nextThread'[x] <= Len(threadList'[x])
                     \/ status'[x] \in Finished \cup {"DELETED"}
  BY <1>3, <1>4, <1>5 DEF IInv, Lists
<1> QED
  BY <1>6, <1>7, <1>8, <1>9

LEMMA PassOverStep ==
  ASSUME IInv, Schedule, PassOver(schedulerList[NextIt], Picked(schedulerList[NextIt]))
  PROVE  IInv'
<1> DEFINE m == schedulerList[NextIt]
           p == Picked(m)
           it == NextIt
           released == Reaped(p) = "RELEASED"
           erase == released /\ ~IsThread(p)
<1> USE DEF groupVars
<1>1. /\ it \in 1 .. Len(schedulerList)
      /\ m \in Pid /\ m \in Elems(schedulerList) /\ m \in processMap
      /\ status[m] \notin Gone /\ ~IsThread(m)
      /\ p \in Pid /\ mainThread[p] = m /\ status[p] \notin Gone
      /\ IsThread(p) <=> p # m
      /\ \A t \in Erased(m) : t \in Pid /\ mainThread[t] = m /\ IsThread(t) /\ status[t] = "RELEASED"
  BY AtSchedule DEF Schedule
<1>2. /\ status \in [Pid -> Status] /\ schedulerList \in Seq(Pid) /\ processMap \subseteq Pid
      /\ threadList' = [threadList EXCEPT ![m] = Kept(m)]
      /\ nextThread' = [nextThread EXCEPT ![m] = NextThread(m)]
      /\ current' = p /\ mode = "scheduler" /\ mode' = mode
      /\ UNCHANGED <<nextPid, parent, mainThread, held, making, groupVars, resourceList,
                     info, children, irqCount, contextSwitch>>
  BY DEF IInv, TypeOK, Schedule, PassOver
<1>3. /\ status' = [q \in Pid |-> IF q \in Erased(m) \/ (q = p /\ erase) THEN "DELETED"
                                  ELSE IF q = p THEN Reaped(p) ELSE status[q]]
      /\ Advance(p, it, released, Erased(m))
  BY DEF PassOver
<1>4. Reaped(p) \in {"RELEASED", status[p]}
  BY DEF Reaped
<1> HIDE DEF m, p, it, released
<1>5. \A x \in Pid : status'[x] = IF x \in Erased(m) \/ (x = p /\ erase) THEN "DELETED"
                                  ELSE IF x = p THEN Reaped(p) ELSE status[x]
  BY <1>3
<1>6. status' \in [Pid -> Status]
  <2>1. \A x \in Pid : status'[x] \in Status
    BY <1>1, <1>2, <1>4, <1>5 DEF Status, Finished
  <2> QED
    BY <1>3, <2>1
<1>7. \A x \in Pid : status'[x] = status[x] \/ (status[x] \notin Gone /\ status'[x] \notin {"UNUSED", "NEW"})
  BY <1>1, <1>4, <1>5 DEF Gone
<1>8. processMap' \subseteq processMap
  BY <1>3 DEF Advance
<1>9. Fresh' /\ Makes'
  BY <1>2, <1>6, <1>7, <1>8, LifeStep DEF Gone
<1>10. /\ threadList' \in [Pid -> Seq(Pid)] /\ nextThread' \in [Pid -> Nat]
       /\ \A x \in Pid : Distinct(threadList'[x])
       /\ \A x \in Pid : \A t \in Elems(threadList'[x]) :
            status'[t] \notin Gone /\ mainThread'[t] = x /\ mainThread'[t] # t
       /\ \A x \in Pid : nextThread'[x] <= Len(threadList'[x])
                         \/ status'[x] \in Finished \cup {"DELETED"}
  <2>1. \A t \in Pid : IsThread(t) /\ t \notin Erased(m) /\ status[t] \notin Gone
                       => status'[t] \notin Gone
    BY <1>4, <1>5 DEF Gone
  <2>2. \A x \in Pid : status[x] \in Finished \cup {"DELETED"}
                       => status'[x] \in Finished \cup {"DELETED"}
    BY <1>4, <1>5 DEF Finished
  <2> QED
    BY <1>2, <2>1, <2>2, ThreadLists DEF Schedule, m
<1>11. /\ schedulerList' \in Seq(Pid) /\ Distinct(schedulerList')
       /\ schedulerIt' \in 1 .. Len(schedulerList') + 1
       /\ Elems(schedulerList') = IF erase THEN Elems(schedulerList) \ {m} ELSE Elems(schedulerList)
       /\ processMap' = processMap \ (IF erase THEN {p} \cup Erased(m) ELSE Erased(m))
  <2>1. Distinct(schedulerList) /\ schedulerList[it] = m
    BY DEF IInv, Lists, m, it
  <2>2. CASE erase
    <3>1. schedulerList' = RemoveAt(schedulerList, it) /\ schedulerIt' = it
          /\ processMap' = processMap \ ({p} \cup Erased(m))
      BY <1>3, <2>2 DEF Advance
    <3>2. /\ schedulerList' \in Seq(Pid) /\ Len(schedulerList') = Len(schedulerList) - 1
          /\ Distinct(schedulerList') /\ Elems(schedulerList') = Elems(schedulerList) \ {m}
      <4>1. it \in 1 .. Len(schedulerList)
        BY <1>1
      <4> QED
        BY <1>2, <2>1, <3>1, <4>1, EraseAt
    <3>3. it \in 1 .. Len(schedulerList') + 1
      BY <1>1, <1>2, <3>2
    <3> QED
      BY <2>2, <3>1, <3>2, <3>3
  <2>3. CASE ~erase
    <3>1. schedulerList' = schedulerList /\ schedulerIt' = it + 1 /\ processMap' = processMap \ Erased(m)
      BY <1>3, <2>3 DEF Advance
    <3>2. it + 1 \in 1 .. Len(schedulerList) + 1
      BY <1>1, <1>2
    <3> QED
      BY <1>2, <2>1, <2>3, <3>1, <3>2
  <2> QED
    BY <2>2, <2>3
<1>12. ASSUME NEW x \in Elems(schedulerList')
       PROVE  status'[x] \notin Gone /\ x \in processMap' /\ mainThread'[x] = x
  <2>1. x \in Elems(schedulerList) /\ x \in Pid /\ (erase => x # p)
    <3>1. Elems(schedulerList) \subseteq Pid
      BY <1>2 DEF Elems
    <3>2. erase => p = m
      BY <1>1
    <3> HIDE DEF erase
    <3> QED
      BY <1>11, <1>12, <3>1, <3>2
  <2>2. status[x] \notin Gone /\ x \in processMap /\ mainThread[x] = x
    BY <2>1 DEF IInv, Lists, IsThread
  <2>3. x \notin Erased(m)
    BY <1>1, <2>2 DEF IsThread
  <2>4. status'[x] \in {status[x], "RELEASED"}
    BY <1>4, <1>5, <2>1, <2>3
  <2> QED
    BY <1>2, <1>11, <2>1, <2>2, <2>3, <2>4 DEF Gone
<1>13. Lists'
  BY <1>10, <1>11, <1>12 DEF Lists, IsThread
<1>14. Memory'
  BY <1>2, <1>4, <1>5 DEF IInv, Memory, Runnable, Waiting
<1>15. Cpu'
  BY <1>2 DEF Cpu
<1>16. TypeOK'
  <2>1. processMap' \subseteq Pid
    BY <1>2, <1>8
  <2> QED
    BY <1>1, <1>2, <1>6, <1>10, <1>11, <2>1 DEF IInv, TypeOK
<1> QED
  BY <1>9, <1>13, <1>14, <1>15, <1>16 DEF IInv

LEMMA DispatchStep ==
  ASSUME IInv, Schedule, Dispatch(schedulerList[NextIt], Picked(schedulerList[NextIt]))
  PROVE  IInv'
<1> DEFINE m == schedulerList[NextIt]
           p == Picked(m)
           c == info[p].child
           joined == status[p] = "WAIT_CHILD" /\ ~ChildGone(p)
<1> USE DEF groupVars
<1>1. /\ NextIt \in 1 .. Len(schedulerList)
      /\ m \in Pid /\ m \in Elems(schedulerList) /\ m \in processMap
      /\ status[m] \notin Gone /\ ~IsThread(m)
      /\ p \in Pid /\ mainThread[p] = m /\ status[p] \notin Gone
      /\ \A t \in Erased(m) : t \in Pid /\ mainThread[t] = m /\ IsThread(t) /\ status[t] = "RELEASED"
  BY AtSchedule DEF Schedule
<1>2. /\ status \in [Pid -> Status] /\ schedulerList \in Seq(Pid) /\ processMap \subseteq Pid
      /\ info \in [Pid -> StateInfo] /\ children \in [Pid -> SUBSET Pid]
      /\ irqCount \in [Irq -> 0 .. MaxSignal]
      /\ threadList' = [threadList EXCEPT ![m] = Kept(m)]
      /\ nextThread' = [nextThread EXCEPT ![m] = NextThread(m)]
      /\ current' = p /\ mode = "scheduler" /\ mode' = "process" /\ contextSwitch' = FALSE
      /\ processMap' = processMap \ Erased(m) /\ schedulerIt' = NextIt
      /\ schedulerList' = schedulerList
      /\ UNCHANGED <<nextPid, parent, mainThread, held, making, groupVars, resourceList>>
  BY DEF IInv, TypeOK, Schedule, Dispatch
<1>3. /\ MayRun(p)
      /\ status' = [q \in Pid |-> IF q \in Erased(m) THEN "DELETED"
                                  ELSE IF q = p THEN "RUN"
                                  ELSE IF status[p] = "WAIT_CHILD" /\ q = c /\ ~ChildGone(p)
                                       THEN "RELEASED" ELSE status[q]]
      /\ info' = [info EXCEPT ![p] = Resumed(p)]
      /\ children' = IF status[p] = "WAIT_CHILD" THEN [children EXCEPT ![p] = children[p] \ {c}]
                     ELSE children
      /\ irqCount' = Consume(p)
  BY DEF Dispatch
<1>4. status[p] \in Runnable /\ p \in held /\ p \notin Erased(m)
  BY <1>1, <1>3 DEF MayRun, Runnable, Waiting, IInv, Memory
<1> HIDE DEF m, p
<1>5. \A x \in Pid : status'[x] = IF x \in Erased(m) THEN "DELETED"
                                  ELSE IF x = p THEN "RUN"
                                  ELSE IF joined /\ x = c THEN "RELEASED" ELSE status[x]
  BY <1>3
<1>6. joined => c \in processMap
  BY DEF ChildGone
<1>7. status' \in [Pid -> Status]
  <2>1. \A x \in Pid : status'[x] \in Status
    BY <1>2, <1>5 DEF Status, Finished
  <2> QED
    BY <1>3, <2>1
<1>8. Fresh' /\ Makes'
  <2>1. \A x \in Pid : \/ status'[x] = status[x]
                       \/ /\ status'[x] \notin {"UNUSED", "NEW"}
                          /\ x \in processMap \/ status[x] \notin {"UNUSED", "NEW"}
    BY <1>1, <1>5, <1>6 DEF Gone
  <2> QED
    BY <1>2, <1>7, <2>1, LifeStep
<1>9. /\ threadList' \in [Pid -> Seq(Pid)] /\ nextThread' \in [Pid -> Nat]
      /\ \A x \in Pid : Distinct(threadList'[x])
      /\ \A x \in Pid : \A t \in Elems(threadList'[x]) :
           status'[t] \notin Gone /\ mainThread'[t] = x /\ mainThread'[t] # t
      /\ \A x \in Pid : nextThread'[x] <= Len(threadList'[x])
                        \/ status'[x] \in Finished \cup {"DELETED"}
  <2>1. \A t \in Pid : IsThread(t) /\ t \notin Erased(m) /\ status[t] \notin Gone
                       => status'[t] \notin Gone
    BY <1>5 DEF Gone
  <2>2. \A x \in Pid : status[x] \in Finished \cup {"DELETED"}
                       => status'[x] \in Finished \cup {"DELETED"}
    BY <1>4, <1>5 DEF Finished, Runnable, Waiting
  <2> QED
    BY <1>2, <2>1, <2>2, ThreadLists DEF Schedule, m
<1>10. Lists'
  <2>1. Elems(schedulerList) \subseteq Pid
    BY <1>2 DEF Elems
  <2>2. ASSUME NEW x \in Elems(schedulerList)
        PROVE  status'[x] \notin Gone /\ x \in processMap' /\ mainThread'[x] = x
    <3>1. x \in Pid /\ status[x] \notin Gone /\ x \in processMap /\ mainThread[x] = x
      BY <2>1 DEF IInv, Lists, IsThread
    <3>2. x \notin Erased(m)
      BY <1>1, <3>1 DEF IsThread
    <3> QED
      BY <1>2, <1>5, <3>1, <3>2 DEF Gone
  <2> QED
    BY <1>2, <1>9, <2>2 DEF IInv, Lists, IsThread
<1>11. Memory'
  BY <1>2, <1>4, <1>5 DEF IInv, Memory, Runnable, Waiting
<1>12. Cpu'
  <2>1. schedulerList'[schedulerIt'] = mainThread'[current']
    BY <1>1, <1>2 DEF m
  <2>2. status'[p] = "RUN"
    BY <1>1, <1>4, <1>5
  <2> QED
    BY <1>1, <1>2, <1>4, <2>1, <2>2 DEF Cpu, Runnable
<1>13. TypeOK'
  <2>1. processMap' \subseteq Pid /\ schedulerIt' \in 1 .. Len(schedulerList') + 1
    BY <1>1, <1>2
  <2>2. info' \in [Pid -> StateInfo]
    <3>1. Resumed(p) \in StateInfo
      BY <1>1, <1>2, InfoType DEF Resumed
    <3> QED
      BY <1>1, <1>2, <1>3, <3>1
  <2>3. children' \in [Pid -> SUBSET Pid]
    BY <1>1, <1>2, <1>3
  <2>4. irqCount' \in [Irq -> 0 .. MaxSignal]
    <3> DEFINE i == info[p].irq
    <3>1. CASE status[p] = "WAIT_INT" /\ i \in Irq
      <4>1. irqCount[i] > 0 /\ irqCount' = [irqCount EXCEPT ![i] = irqCount[i] - 1]
        BY <1>3, <3>1 DEF MayRun, Consume
      <4>2. irqCount[i] - 1 \in 0 .. MaxSignal
        BY <1>2, <3>1, <4>1, BoundAssumption
      <4> QED
        BY <1>2, <4>1, <4>2
    <3>2. CASE status[p] = "WAIT_INT" /\ i \notin Irq
      BY <1>2, <1>3, <3>2 DEF Consume
    <3>3. CASE status[p] # "WAIT_INT"
      BY <1>2, <1>3, <3>3 DEF Consume
    <3> QED
      BY <3>1, <3>2, <3>3
  <2> QED
    BY <1>1, <1>2, <1>7, <1>9, <2>1, <2>2, <2>3, <2>4 DEF IInv, TypeOK
<1> QED
  BY <1>8, <1>10, <1>11, <1>12, <1>13 DEF IInv

\* The end of the process that gave the processor back.
LEMMA DestroyStep ==
  ASSUME IInv, mode = "switching", Destroy(current), mode' = "scheduler",
         UNCHANGED <<nextPid, mainThread, info, making, nextThread, group, fgGroup,
                     current, contextSwitch, lineVars>>
  PROVE  IInv'
<1> DEFINE p == current
           released == parent[p] = NO_PROCESS_ID
           erase == released /\ ~IsThread(p)
           deleted == Threads(p) \cup (IF erase THEN {p} ELSE {})
           heir == IF Heirless(p) THEN p ELSE parent[p]
<1> USE DEF lineVars
<1>1. /\ p \in Pid /\ status \in [Pid -> Status] /\ schedulerList \in Seq(Pid)
      /\ processMap \subseteq Pid /\ threadList \in [Pid -> Seq(Pid)]
      /\ parent \in [Pid -> Pid \cup {NO_PROCESS_ID}] /\ children \in [Pid -> SUBSET Pid]
      /\ group \in [Pid -> Pid] /\ groupSize \in [Pid -> Int] /\ fgList \in [Pid -> Seq(Pid)]
      /\ schedulerIt \in 1 .. Len(schedulerList) + 1 /\ held \subseteq Pid
  BY DEF IInv, TypeOK
<1>2. /\ schedulerIt \in 1 .. Len(schedulerList) /\ schedulerList[schedulerIt] = mainThread[p]
      /\ status[p] \in Runnable \cup {"TERMINATED"}
  BY <1>1 DEF IInv, Cpu
<1>3. /\ status' = [q \in Pid |->
           IF q \in deleted THEN "DELETED"
           ELSE IF q = p THEN IF released THEN "RELEASED" ELSE "TERMINATED"
           ELSE IF q \in DeadKids(p) THEN "RELEASED" ELSE status[q]]
      /\ parent' = [q \in Pid |-> IF q \in Redirected(p) THEN heir ELSE parent[q]]
      /\ children' = [q \in Pid |->
           children[q] \cup (IF q = heir THEN Redirected(p) ELSE {})
                       \cup (IF q = p THEN ThreadKids(p) ELSE {})]
      /\ held' = held \ Destroyed(p)
      /\ groupSize' = [g \in Pid |->
           groupSize[g] - Cardinality({q \in Destroyed(p) : group[q] = g})]
      /\ fgList' = RemoveFromFGProcessList(p)
      /\ threadList' = IF IsThread(p) THEN threadList ELSE [threadList EXCEPT ![p] = <<>>]
      /\ Advance(p, schedulerIt, released, Threads(p))
  BY DEF Destroy
<1>4. \A t \in Threads(p) : /\ t \in Pid /\ status[t] \notin Gone /\ mainThread[t] = p
                            /\ IsThread(t) /\ t # p /\ ~IsThread(p)
  <2>1. Threads(p) = IF IsThread(p) THEN {} ELSE Elems(threadList[p])
    BY DEF Threads
  <2>2. Elems(threadList[p]) \subseteq Pid
    BY <1>1 DEF Elems
  <2> QED
    BY <1>1, <2>1, <2>2 DEF IInv, Lists, IsThread
<1>5. /\ Destroyed(p) \subseteq {p} \cup Threads(p) /\ p \in Destroyed(p)
      /\ Redirected(p) \subseteq processMap /\ ThreadKids(p) \subseteq processMap
      /\ \A x \in DeadKids(p) : status[x] = "TERMINATED"
  BY DEF Destroyed, Redirected, ThreadKids, KidsOf, DeadKids
<1> HIDE DEF p, released, heir
<1>6. \A x \in Pid : status'[x] = IF x \in deleted THEN "DELETED"
           ELSE IF x = p THEN IF released THEN "RELEASED" ELSE "TERMINATED"
           ELSE IF x \in DeadKids(p) THEN "RELEASED" ELSE status[x]
  BY <1>3
<1>7. status' \in [Pid -> Status]
  <2>1. \A x \in Pid : status'[x] \in Status
    BY <1>1, <1>6 DEF Status, Finished
  <2> QED
    BY <1>3, <2>1
<1>8. \A x \in Pid : status'[x] = status[x]
                     \/ (status[x] \notin {"UNUSED", "NEW"} /\ status'[x] \notin {"UNUSED", "NEW"})
  BY <1>2, <1>4, <1>5, <1>6 DEF Gone, Runnable, Waiting
<1>9. Fresh' /\ Makes'
  <2>1. processMap' \subseteq processMap /\ held' \subseteq held
    BY <1>3 DEF Advance
  <2>2. \A x \in held \ held' : status[x] # "NEW"
    BY <1>2, <1>3, <1>4, <1>5 DEF Gone, Runnable, Waiting
  <2> QED
    BY <1>7, <1>8, <2>1, <2>2, LifeStep
<1>10. /\ schedulerList' \in Seq(Pid) /\ Distinct(schedulerList')
       /\ schedulerIt' \in 1 .. Len(schedulerList') + 1
       /\ Elems(schedulerList') = IF erase THEN Elems(schedulerList) \ {p} ELSE Elems(schedulerList)
       /\ processMap' = processMap \ (IF erase THEN {p} \cup Threads(p) ELSE Threads(p))
  <2>1. Distinct(schedulerList)
    BY DEF IInv, Lists
  <2>2. CASE erase
    <3>1. schedulerList' = RemoveAt(schedulerList, schedulerIt) /\ schedulerIt' = schedulerIt
          /\ processMap' = processMap \ ({p} \cup Threads(p))
      BY <1>3, <2>2 DEF Advance
    <3>2. schedulerList[schedulerIt] = p
      BY <1>2, <2>2 DEF IsThread
    <3>3. /\ schedulerList' \in Seq(Pid) /\ Len(schedulerList') = Len(schedulerList) - 1
          /\ Distinct(schedulerList') /\ Elems(schedulerList') = Elems(schedulerList) \ {p}
      BY ZenonT(60), <1>1, <1>2, <2>1, <3>1, <3>2, EraseAt
    <3>4. schedulerIt \in 1 .. Len(schedulerList') + 1
      BY <1>1, <1>2, <3>3
    <3> QED
      BY <2>2, <3>1, <3>3, <3>4
  <2>3. CASE ~erase
    <3>1. /\ schedulerList' = schedulerList /\ schedulerIt' = schedulerIt + 1
          /\ processMap' = processMap \ Threads(p)
      BY <1>3, <2>3 DEF Advance
    <3>2. schedulerIt + 1 \in 1 .. Len(schedulerList) + 1
      BY SMTT(30), <1>1, <1>2
    <3> QED
      BY <1>1, <2>1, <2>3, <3>1, <3>2
  <2> QED
    BY <2>2, <2>3
<1>11. ASSUME NEW x \in Elems(schedulerList')
       PROVE  status'[x] \notin Gone /\ x \in processMap' /\ mainThread'[x] = x
  <2>1. x \in Elems(schedulerList) /\ x \in Pid /\ (erase => x # p)
    <3>1. Elems(schedulerList) \subseteq Pid
      BY <1>1 DEF Elems
    <3> HIDE DEF erase
    <3> QED
      BY <1>10, <1>11, <3>1
  <2>2. status[x] \notin Gone /\ x \in processMap /\ mainThread[x] = x
    BY <2>1 DEF IInv, Lists, IsThread
  <2>3. x \notin Threads(p)
    BY <1>4, <2>2 DEF IsThread
  <2>4. status'[x] \in {status[x], "RELEASED", "TERMINATED"}
    BY <1>6, <2>1, <2>3
  <2> QED
    BY <1>10, <2>1, <2>2, <2>3, <2>4 DEF Gone
<1>12. \A x \in Pid : threadList'[x] = IF x = p /\ ~IsThread(p) THEN <<>> ELSE threadList[x]
  BY <1>1, <1>3
<1>13. ASSUME NEW x \in Pid, NEW t \in Elems(threadList'[x])
       PROVE  status'[t] \notin Gone /\ mainThread'[t] = x /\ mainThread'[t] # t
  <2>1. t \in Elems(threadList[x]) /\ t \in Pid /\ (x = p => IsThread(p))
    <3>1. Elems(threadList[x]) \subseteq Pid
      BY <1>1 DEF Elems
    <3>2. t \notin Elems(<<>>)
      BY DEF Elems
    <3> QED
      BY <1>12, <1>13, <3>1, <3>2
  <2>2. status[t] \notin Gone /\ mainThread[t] = x /\ IsThread(t)
    BY <2>1 DEF IInv, Lists
  <2>3. t \notin deleted
    BY <1>4, <2>1, <2>2
  <2>4. status'[t] \in {status[t], "RELEASED", "TERMINATED"}
    BY <1>6, <2>1, <2>3
  <2> QED
    BY <2>2, <2>4 DEF Gone, IsThread
<1>14. \A x \in Pid : Distinct(threadList'[x])
  <2>1. Distinct(<<>>)
    BY DEF Distinct
  <2> QED
    BY <1>12, <2>1 DEF IInv, Lists
<1>15. ASSUME NEW x \in Pid
       PROVE  nextThread'[x] <= Len(threadList'[x]) \/ status'[x] \in Finished \cup {"DELETED"}
  <2>1. CASE x = p
    BY <1>6, <2>1 DEF Finished
  <2>2. CASE x # p
    <3>1. status[x] \in Finished \cup {"DELETED"} => status'[x] \in Finished \cup {"DELETED"}
      BY <1>6, <2>2 DEF Finished
    <3> QED
      BY <1>12, <2>2, <3>1 DEF IInv, Lists
  <2> QED
    BY <2>1, <2>2
<1>16. Lists'
  BY <1>10, <1>11, <1>13, <1>14, <1>15 DEF Lists, IsThread
<1>17. Memory'
  BY <1>3, <1>5, <1>6 DEF IInv, Memory, Runnable, Waiting
<1>18. Cpu'
  BY DEF Cpu
<1>19. TypeOK'
  <2>1. processMap' \subseteq Pid /\ held' \subseteq Pid
    BY <1>1, <1>3, <1>10
  <2>2. heir \in Pid
    BY <1>1 DEF heir, Heirless
  <2>3. parent' \in [Pid -> Pid \cup {NO_PROCESS_ID}] /\ children' \in [Pid -> SUBSET Pid]
    BY <1>1, <1>3, <1>5, <2>2
  <2>4. groupSize' \in [Pid -> Int]
    <3>1. ASSUME NEW g \in Pid
          PROVE  Cardinality({q \in Destroyed(p) : group[q] = g}) \in Nat
      <4>1. {q \in Destroyed(p) : group[q] = g} \subseteq Pid
        BY <1>1, <1>4, <1>5
      <4> QED
        BY <4>1, PidFinite, FS_Subset, FS_CardinalityType
    <3>2. ASSUME NEW g \in Pid
          PROVE  groupSize[g] - Cardinality({q \in Destroyed(p) : group[q] = g}) \in Int
      <4>1. \A x \in Int, y \in Nat : x - y \in Int
        OBVIOUS
      <4>2. groupSize[g] \in Int
        BY <1>1
      <4> QED
        BY <3>1, <4>1, <4>2
    <3>3. groupSize' = [g \in Pid |->
            groupSize[g] - Cardinality({q \in Destroyed(p) : group[q] = g})]
      BY <1>3
    <3> QED
      BY <3>2, <3>3
  <2>5. fgList' \in [Pid -> Seq(Pid)]
    <3>1. fgList' = [fgList EXCEPT ![group[p]] = Removed(fgList[group[p]], p)]
      BY <1>3 DEF RemoveFromFGProcessList
    <3>2. Removed(fgList[group[p]], p) \in Seq(Pid)
      BY <1>1, RemovedType
    <3> QED
      BY <1>1, <3>1, <3>2
  <2>6. threadList' \in [Pid -> Seq(Pid)]
    BY <1>1, <1>3
  <2> QED
    BY <1>7, <1>10, <2>1, <2>3, <2>4, <2>5, <2>6 DEF IInv, TypeOK
<1> QED
  BY <1>9, <1>16, <1>17, <1>18, <1>19 DEF IInv

LEMMA SwitchBackStep ==
  ASSUME IInv, SwitchBack
  PROVE  IInv'
<1>1. CASE ~contextSwitch \/ status[current] = "TERMINATED"
  BY <1>1, DestroyStep DEF SwitchBack
<1>2. CASE ~(~contextSwitch \/ status[current] = "TERMINATED")
  <2>1. /\ schedulerList' = schedulerList /\ processMap' = processMap
        /\ schedulerIt' = schedulerIt + 1 /\ mode = "switching" /\ mode' = "scheduler"
        /\ UNCHANGED <<status, parent, children, held, groupSize, fgList, threadList,
                       nextPid, mainThread, info, making, nextThread, group, fgGroup,
                       current, contextSwitch, lineVars>>
    BY <1>2 DEF SwitchBack, Advance
  <2>2. schedulerIt + 1 \in 1 .. Len(schedulerList) + 1
    BY <2>1 DEF IInv, Cpu, TypeOK
  <2>3. TypeOK'
    BY <2>1, <2>2 DEF IInv, TypeOK, lineVars
  <2>4. Fresh' /\ Makes' /\ Lists' /\ Memory' /\ Cpu'
    BY <2>1 DEF IInv, Fresh, Makes, Lists, Memory, Cpu, IsThread
  <2> QED
    BY <2>3, <2>4 DEF IInv
<1> QED
  BY <1>1, <1>2

LEMMA NextIInv == IInv /\ [Next]_vars => IInv'
<1> SUFFICES ASSUME IInv, [Next]_vars PROVE IInv'
  OBVIOUS
<1>1. CASE Schedule
  BY <1>1, PassOverStep, DispatchStep DEF Schedule
<1>2. CASE SwitchBack
  BY <1>2, SwitchBackStep
<1>3. ASSUME NEW p \in Pid, Call(p) PROVE IInv'
  <2>1. CASE Creation(p)
    BY <2>1, BeginStep, FailStep, LinkStep, PublishStep, AttachStep, PublishThreadStep DEF Creation
  <2>2. CASE Wait(p)
    BY <2>2, WaitingStep
  <2>3. CASE Exit(p) \/ \E q \in Pid : Kill(p, q)
    BY <2>3, LeavingStep
  <2>4. CASE \/ \E r \in Resource, busy \in BOOLEAN : SetResourceBusy(p, r, busy)
             \/ \E q \in Pid : WakeUpFromKSWait(p, q)
    BY <2>4, KeepingCallStep
  <2> QED
    BY <1>3, <2>1, <2>2, <2>3, <2>4 DEF Call
<1>4. CASE Preempt
  BY <1>4, LeavingStep
<1>5. CASE Interrupt
  BY <1>5, InterruptStep
<1>6. CASE UNCHANGED vars
  <2>1. UNCHANGED coreVars /\ UNCHANGED <<info, fgGroup, irqCount, resourceList>>
    BY <1>6 DEF vars, coreVars, treeVars, groupVars, listVars, lineVars, cpuVars
  <2>2. /\ info' \in [Pid -> StateInfo] /\ fgGroup' \in Pid
        /\ irqCount' \in [Irq -> 0 .. MaxSignal] /\ resourceList' \in [Resource -> BOOLEAN]
    BY <2>1 DEF IInv, TypeOK
  <2> QED
    BY <2>1, <2>2, QuietStep
<1> QED
  BY <1>1, <1>2, <1>3, <1>4, <1>5, <1>6 DEF Next

THEOREM Invariance == Spec => []IInv
BY InitIInv, NextIInv, PTL DEF Spec

-----------------------------------------------------------------------------
(* What the invariant says.                                                *)

\* Every variable stays in the range the code gives it: the iterator of
\* StartScheduler within the list or at its end, every id one that was
\* handed out or -1, no count of a line below zero.
THEOREM TypeCorrect == Spec => []TypeOK
<1>1. IInv => TypeOK
  BY DEF IInv
<1> QED
  BY <1>1, Invariance, PTL

\* StartScheduler and forSchedule never follow an iterator to a deleted
\* process or thread, and visit nobody twice, whatever ends, fails or is
\* killed between two rounds.
THEOREM ListsStayLive == Spec => []ListsHoldLiveObjects
<1>1. IInv => ListsHoldLiveObjects
  <2> SUFFICES ASSUME IInv PROVE ListsHoldLiveObjects
    OBVIOUS
  <2>1. schedulerList \in Seq(Pid)
    BY DEF IInv, TypeOK
  <2>2. Elems(schedulerList) \subseteq Pid
    BY <2>1 DEF Elems
  <2> QED
    BY <2>2 DEF IInv, Lists, ListsHoldLiveObjects, Exists, Gone
<1> QED
  BY <1>1, Invariance, PTL

-----------------------------------------------------------------------------
(* The map's capacity.                                                     *)

MapInv == IsFiniteSet(processMap) /\ ProcessMapBounded

\* The steps that may add a process, and those that may only remove some.
MapGrowsByOne ==
  ~MapFull /\ \E c : processMap' = processMap \cup {c}
MapShrinks == processMap' \subseteq processMap

LEMMA InitMap == Init => MapInv
<1> SUFFICES ASSUME Init PROVE MapInv
  OBVIOUS
<1>1. processMap = {0}
  BY DEF Init
<1>2. IsFiniteSet({0}) /\ Cardinality({0}) = 1
  BY FS_Singleton
<1>3. Cardinality(processMap) = 1
  BY <1>1, <1>2
<1>4. 1 <= MAX_NO_PROCESS
  BY MaxAssumption
<1> QED
  BY <1>1, <1>2, <1>3, <1>4 DEF MapInv, ProcessMapBounded

LEMMA GrowStep == MapInv /\ MapGrowsByOne => MapInv'
<1> SUFFICES ASSUME MapInv, MapGrowsByOne PROVE MapInv'
  OBVIOUS
<1>1. PICK c : processMap' = processMap \cup {c}
  BY DEF MapGrowsByOne
<1>2. Cardinality(processMap) \in Nat
  BY FS_CardinalityType DEF MapInv
<1>3. IsFiniteSet(processMap') /\ Cardinality(processMap') <= Cardinality(processMap) + 1
  BY <1>1, <1>2, FS_AddElement DEF MapInv
<1>4. Cardinality(processMap') \in Nat
  BY <1>3, FS_CardinalityType
<1> QED
  BY <1>2, <1>3, <1>4, MaxAssumption DEF MapGrowsByOne, MapFull, MapInv, ProcessMapBounded

LEMMA ShrinkStep == MapInv /\ MapShrinks => MapInv'
<1> SUFFICES ASSUME MapInv, MapShrinks PROVE MapInv'
  OBVIOUS
<1>1. IsFiniteSet(processMap') /\ Cardinality(processMap') <= Cardinality(processMap)
  BY FS_Subset DEF MapInv, MapShrinks
<1>2. Cardinality(processMap) \in Nat /\ Cardinality(processMap') \in Nat
  BY <1>1, FS_CardinalityType DEF MapInv
<1> QED
  BY <1>1, <1>2, MaxAssumption DEF MapInv, ProcessMapBounded

LEMMA AdvanceShrinks ==
  ASSUME NEW p, NEW it, NEW released, NEW gone, Advance(p, it, released, gone)
  PROVE  MapShrinks
BY DEF Advance, MapShrinks

LEMMA CreationMap ==
  ASSUME NEW p \in Pid, Creation(p)
  PROVE  MapGrowsByOne \/ MapShrinks
<1>1. ASSUME NEW par, NEW fg, BeginProcess(p, par, fg) PROVE MapShrinks
  BY <1>1 DEF BeginProcess, listVars, MapShrinks
<1>2. ASSUME NEW q, BeginThread(p, q) PROVE MapShrinks
  BY <1>2 DEF BeginThread, listVars, MapShrinks
<1>3. CASE FailCreation(p) \/ LinkProcess(p) \/ AttachThread(p)
  BY <1>3 DEF FailCreation, LinkProcess, AttachThread, listVars, MapShrinks
<1>4. CASE PublishProcess(p) \/ PublishThread(p)
  BY <1>4 DEF PublishProcess, PublishThread, MapShrinks, MapGrowsByOne
<1> QED
  BY <1>1, <1>2, <1>3, <1>4 DEF Creation

LEMMA WaitMap ==
  ASSUME NEW p \in Pid, Wait(p)
  PROVE  MapShrinks
<1>1. ASSUME NEW call, NEW newStatus, NEW newInfo, StartWait(p, call, newStatus, newInfo)
      PROVE  MapShrinks
  BY <1>1 DEF StartWait, LeaveProcessor, listVars, MapShrinks
<1> QED
  BY <1>1 DEF Wait, Sleep, WaitOnInterrupt, WaitForEvent, WaitOnChild, WaitOnResource,
     WaitOnKernelService

LEMMA NextMap == MapInv /\ [Next]_vars => MapInv'
<1> SUFFICES ASSUME MapInv, [Next]_vars PROVE MapGrowsByOne \/ MapShrinks
  BY GrowStep, ShrinkStep
<1>1. CASE Schedule
  <2>1. ASSUME NEW m, NEW p, PassOver(m, p) PROVE MapShrinks
    BY <2>1, AdvanceShrinks DEF PassOver
  <2>2. ASSUME NEW m, NEW p, Dispatch(m, p) PROVE MapShrinks
    BY <2>2 DEF Dispatch, MapShrinks
  <2> QED
    BY <1>1, <2>1, <2>2 DEF Schedule
<1>2. CASE SwitchBack
  BY <1>2, AdvanceShrinks DEF SwitchBack, Destroy
<1>3. CASE Preempt
  BY <1>3 DEF Preempt, LeaveProcessor, listVars, MapShrinks
<1>4. ASSUME NEW p \in Pid, Call(p) PROVE MapGrowsByOne \/ MapShrinks
  <2>1. CASE Creation(p) \/ Wait(p)
    BY <2>1, CreationMap, WaitMap
  <2>2. CASE Exit(p) \/ \E q \in Pid : Kill(p, q)
    BY <2>2 DEF Exit, Kill, LeaveProcessor, listVars, MapShrinks
  <2>3. CASE \/ \E r \in Resource, busy \in BOOLEAN : SetResourceBusy(p, r, busy)
             \/ \E q \in Pid : WakeUpFromKSWait(p, q)
    BY <2>3 DEF SetResourceBusy, WakeUpFromKSWait, KeepProcessor, listVars, MapShrinks
  <2> QED
    BY <1>4, <2>1, <2>2, <2>3 DEF Call
<1>5. CASE Interrupt
  BY <1>5 DEF Interrupt, EventCompleted, SignalIrq, ClockTick, SwitchToFG, KeepProcessor,
     listVars, MapShrinks
<1>6. CASE UNCHANGED vars
  BY <1>6 DEF vars, listVars, MapShrinks
<1> QED
  BY <1>1, <1>2, <1>3, <1>4, <1>5, <1>6 DEF Next

\* AddToProcessMap keeps _processMap within MAX_NO_PROCESS, whichever
\* creations fail, overlap or are preempted.
THEOREM MapStaysBounded == Spec => []ProcessMapBounded
<1>1. MapInv => ProcessMapBounded
  BY DEF MapInv
<1> QED
  BY <1>1, InitMap, NextMap, PTL DEF Spec

-----------------------------------------------------------------------------
(* The kinds of step, by what they do to the lives, the memory and the     *)
(* groups of the processes.                                                *)

userVars == <<nextPid, held, mainThread, group, groupSize, fgList>>

Quiet == UNCHANGED <<status, userVars>> /\ \A i \in Irq : irqCount'[i] >= irqCount[i]

\* A process starts to wait, or is killed.
Moves ==
  \E q \in processMap, st \in Waiting \cup {"TERMINATED"} :
    /\ st \in Waiting => status[q] = "RUN"
    /\ st = "TERMINATED" => "kill" \in Calls
    /\ status' = [status EXCEPT ![q] = st]
    /\ UNCHANGED <<userVars, irqCount>>

\* The constructor gives out an id and counts it into a group.
Founds(c) ==
  /\ c = nextPid /\ nextPid' = nextPid + 1
  /\ status' = [status EXCEPT ![c] = "NEW"]
  /\ \E g \in Pid, main \in Pid, fg \in BOOLEAN :
       /\ group' = [group EXCEPT ![c] = g]
       /\ groupSize' = [groupSize EXCEPT ![g] = groupSize[g] + 1]
       /\ mainThread' = [mainThread EXCEPT ![c] = main]
       /\ fgList' = [fgList EXCEPT ![g] = IF fg THEN <<c>> \o fgList[g] ELSE fgList[g]]
       /\ fg => main = c
  /\ UNCHANGED <<held, irqCount>>

\* The other steps of a creation: c gets its memory, may run, or is given up.
Fills(c) ==
  /\ c < nextPid /\ status[c] = "NEW"
  /\ \E st \in {"NEW", "RUN", "DELETED"} :
       /\ status' = [status EXCEPT ![c] = st]
       /\ IF st = "DELETED" THEN "fail" \in Calls /\ c \notin held /\ UNCHANGED held
                            ELSE held' = held \cup {c}
  /\ UNCHANGED <<nextPid, mainThread, group, groupSize, fgList, irqCount>>

\* A round of the scheduler ends no life but finished ones.
Rounds ==
  /\ \A x \in Pid : \/ status'[x] = status[x]
                    \/ status[x] \in Finished /\ status'[x] \in {"RELEASED", "DELETED"}
                    \/ status[x] \in Runnable /\ status'[x] = "RUN"
  /\ UNCHANGED userVars

\* What Destroy takes from the process that gave the processor back and
\* from its threads.
Ends ==
  LET p == current
      D == Destroyed(p)
  IN
  /\ p \in Pid /\ p \in held /\ p \in D /\ D \subseteq held
  /\ \A t \in Threads(p) : /\ t \in Pid /\ IsThread(t) /\ status[t] \notin Gone
                           /\ t \in D \/ status[t] \in Finished
  /\ \A x \in Pid :
       IF x = p \/ x \in Threads(p)
       THEN status'[x] \in Finished \cup {"DELETED"}
       ELSE status'[x] = status[x] \/ (status[x] = "TERMINATED" /\ status'[x] = "RELEASED")
  /\ D \subseteq {p} \cup Threads(p)
  /\ held' = held \ D
  /\ groupSize' = [g \in Pid |-> groupSize[g] - Cardinality({q \in D : group[q] = g})]
  /\ fgList' = RemoveFromFGProcessList(p)
  /\ UNCHANGED <<nextPid, mainThread, group, irqCount>>

LEMMA RoundsKind ==
  ASSUME IInv, Schedule
  PROVE  Rounds
<1> DEFINE m == schedulerList[NextIt]
           p == Picked(m)
<1>1. /\ p \in Pid /\ status[p] \notin Gone
      /\ \A t \in Erased(m) : status[t] = "RELEASED"
  BY AtSchedule DEF Schedule
<1>2. status \in [Pid -> Status] /\ UNCHANGED userVars
  BY DEF IInv, TypeOK, Schedule, userVars, groupVars
<1>3. PassOver(m, p) \/ Dispatch(m, p)
  BY DEF Schedule
<1> HIDE DEF m, p
<1>4. ASSUME PassOver(m, p), NEW x \in Pid
      PROVE  status'[x] = status[x]
             \/ (status[x] \in Finished /\ status'[x] \in {"RELEASED", "DELETED"})
  BY <1>1, <1>2, <1>4 DEF PassOver, Reaped, Finished
<1>5. ASSUME Dispatch(m, p), NEW x \in Pid
      PROVE  \/ status'[x] = status[x]
             \/ status[x] \in Finished /\ status'[x] \in {"RELEASED", "DELETED"}
             \/ status[x] \in Runnable /\ status'[x] = "RUN"
  <2>1. status[p] \in Runnable
    BY <1>5 DEF Dispatch, MayRun, Runnable, Waiting
  <2>2. status[p] = "WAIT_CHILD" /\ ~ChildGone(p) => status[info[p].child] = "TERMINATED"
    BY <1>5 DEF Dispatch, MayRun, ChildTerminated
  <2> QED
    BY <1>1, <1>2, <1>5, <2>1, <2>2 DEF Dispatch, Finished
<1> QED
  BY <1>2, <1>3, <1>4, <1>5 DEF Rounds

LEMMA EndsKind ==
  ASSUME IInv, SwitchBack, Destroy(current)
  PROVE  Ends
<1> DEFINE p == current
<1>1. /\ p \in Pid /\ p \in held /\ status \in [Pid -> Status] /\ threadList \in [Pid -> Seq(Pid)]
  BY DEF IInv, TypeOK, Cpu, SwitchBack
<1>2. \A t \in Threads(p) : t \in Pid /\ IsThread(t) /\ status[t] \notin Gone
  <2>1. Elems(threadList[p]) \subseteq Pid
    BY <1>1 DEF Elems
  <2> QED
    BY <1>1, <2>1 DEF IInv, Lists, Threads
<1>3. Destroyed(p) = {p} \cup {t \in Threads(p) : status[t] \notin Finished}
  BY DEF Destroyed
<1>4. Destroyed(p) \subseteq held
  <2>1. ASSUME NEW t \in Threads(p), status[t] \notin Finished PROVE t \in held
    <3>1. status[t] \in Runnable
      BY <1>1, <1>2, <2>1 DEF Status, Gone, Runnable
    <3> QED
      BY <1>2, <3>1 DEF IInv, Memory
  <2> QED
    BY <1>1, <1>3, <2>1
<1>5. ASSUME NEW x \in Pid
      PROVE  IF x = p \/ x \in Threads(p)
             THEN status'[x] \in Finished \cup {"DELETED"}
             ELSE status'[x] = status[x] \/ (status[x] = "TERMINATED" /\ status'[x] = "RELEASED")
  <2>1. x \in DeadKids(p) => status[x] = "TERMINATED"
    BY DEF DeadKids
  <2> QED
    BY <2>1 DEF Destroy, Finished
<1>6. /\ held' = held \ Destroyed(p)
      /\ groupSize' = [g \in Pid |-> groupSize[g] - Cardinality({q \in Destroyed(p) : group[q] = g})]
      /\ fgList' = RemoveFromFGProcessList(p)
      /\ UNCHANGED <<nextPid, mainThread, group, irqCount>>
  BY DEF Destroy, SwitchBack, lineVars
<1> QED
  BY <1>1, <1>2, <1>3, <1>4, <1>5, <1>6 DEF Ends

LEMMA CreationKind ==
  ASSUME IInv, NEW p \in Pid, Creation(p)
  PROVE  Quiet \/ \E c \in Pid : Founds(c) \/ Fills(c)
<1> USE DEF treeVars, groupVars, listVars, lineVars, cpuVars
<1>0. /\ nextPid \in Nat /\ status \in [Pid -> Status] /\ mainThread \in [Pid -> Pid]
      /\ group \in [Pid -> Pid] /\ irqCount \in [Irq -> 0 .. MaxSignal] /\ MaxSignal \in Nat
  BY SMTT(30), BoundAssumption DEF IInv, TypeOK
<1>1. ASSUME NEW par, NEW main \in Pid, NEW fg \in BOOLEAN, Construct(nextPid, par, main, fg),
             nextPid < NPid, par \in Pid \cup {NO_PROCESS_ID}, fg => main = nextPid,
             UNCHANGED <<held, irqCount>>
      PROVE  nextPid \in Pid /\ Founds(nextPid)
  <2> DEFINE g == IF par \notin processMap THEN nextPid ELSE group[par]
  <2>1. nextPid \in Pid
    BY <1>0, <1>1, NPidAssumption DEF Pid
  <2>2. g \in Pid
    BY <1>0, <2>1 DEF IInv, TypeOK
  <2>3. /\ nextPid' = nextPid + 1 /\ status' = [status EXCEPT ![nextPid] = "NEW"]
        /\ group' = [group EXCEPT ![nextPid] = g]
        /\ groupSize' = [groupSize EXCEPT ![g] = groupSize[g] + 1]
        /\ mainThread' = [mainThread EXCEPT ![nextPid] = main]
        /\ fgList' = [fgList EXCEPT ![g] = IF fg THEN <<nextPid>> \o fgList[g] ELSE fgList[g]]
    BY <1>1 DEF Construct
  <2> HIDE DEF g
  <2> QED
    BY <1>1, <2>1, <2>2, <2>3 DEF Founds
<1>2. ASSUME NEW par \in ParentChoices(p), NEW fg \in FGChoices, BeginProcess(p, par, fg)
      PROVE  \E c \in Pid : Founds(c)
  <2>1. par \in Pid \cup {NO_PROCESS_ID} /\ fg \in BOOLEAN
    BY FGAssumption DEF ParentChoices
  <2>2. nextPid < NPid /\ nextPid \in Pid
    BY <1>0, <1>2, NPidAssumption DEF BeginProcess, Pid
  <2> QED
    BY <1>1, <1>2, <2>1, <2>2 DEF BeginProcess
<1>3. ASSUME NEW q \in ThreadClients(p), BeginThread(p, q) PROVE \E c \in Pid : Founds(c)
  <2>1. mainThread[q] \in Pid
    BY <1>0 DEF ThreadClients, Serves
  <2> QED
    BY <1>1, <1>3, <2>1 DEF BeginThread
<1>4. CASE FailCreation(p)
  <2>1. making[p].stage \in Early /\ making[p].stage # "linked"
    BY <1>4 DEF FailCreation, Early
  <2>2. making[p].pid \in Pid /\ making[p].pid \notin held
    BY <2>1, InTheMaking DEF IInv, Makes
  <2> QED
    BY <1>4, <2>1, <2>2, InTheMaking DEF FailCreation, Fills
<1>5. CASE LinkProcess(p)
  <2>1. making[p].stage \in Early
    BY <1>5 DEF LinkProcess, Early
  <2>2. status' = [status EXCEPT ![making[p].pid] = "NEW"]
    BY <1>0, <1>5, <2>1, InTheMaking DEF LinkProcess
  <2> QED
    BY <1>5, <2>1, <2>2, InTheMaking DEF LinkProcess, Fills
<1>6. CASE PublishProcess(p)
  <2>1. making[p].stage \in Early /\ making[p].stage = "linked"
    BY <1>6 DEF PublishProcess, Early
  <2>2. making[p].pid \in held
    BY <2>1 DEF IInv, Makes
  <2>3. held' = held \cup {making[p].pid} /\ UNCHANGED <<userVars, irqCount>>
    BY <1>6, <2>2 DEF PublishProcess, userVars
  <2>4. UNCHANGED status \/ status' = [status EXCEPT ![making[p].pid] = "RUN"]
    BY <1>6 DEF PublishProcess
  <2>5. CASE UNCHANGED status
    BY <1>0, <2>3, <2>5 DEF Quiet, userVars
  <2>6. CASE status' = [status EXCEPT ![making[p].pid] = "RUN"]
    BY <2>1, <2>3, <2>6, InTheMaking DEF Fills, userVars
  <2> QED
    BY <2>4, <2>5, <2>6
<1>7. CASE AttachThread(p)
  <2>1. making[p].stage \in Early
    BY <1>7 DEF AttachThread, Early
  <2> QED
    BY <1>7, <2>1, InTheMaking DEF AttachThread, Fills
<1>8. CASE PublishThread(p)
  BY <1>0, <1>8 DEF PublishThread, Quiet, userVars
<1> QED
  BY <1>2, <1>3, <1>4, <1>5, <1>6, <1>7, <1>8 DEF Creation

LEMMA StepKinds ==
  ASSUME IInv, [Next]_vars
  PROVE  \/ Quiet \/ Moves \/ \E c \in Pid : Founds(c) \/ Fills(c)
         \/ (Schedule /\ Rounds) \/ Ends
<1> USE DEF treeVars, groupVars, listVars, lineVars, cpuVars, userVars
<1>0. /\ irqCount \in [Irq -> 0 .. MaxSignal] /\ MaxSignal \in Nat
      /\ mode = "process" => status[current] = "RUN"
  BY BoundAssumption DEF IInv, TypeOK, Cpu
<1>1. CASE Schedule
  BY <1>1, RoundsKind
<1>2. CASE SwitchBack
  <2>1. CASE Destroy(current)
    BY <1>2, <2>1, EndsKind
  <2>2. CASE ~Destroy(current)
    <3>1. UNCHANGED <<status, userVars, irqCount>>
      BY <1>2, <2>2 DEF SwitchBack
    <3> QED
      BY <1>0, <3>1 DEF Quiet
  <2> QED
    BY <2>1, <2>2
<1>3. CASE Preempt
  BY <1>0, <1>3 DEF Preempt, LeaveProcessor, Quiet
<1>4. ASSUME NEW p \in Pid, Call(p)
      PROVE  Quiet \/ Moves \/ \E c \in Pid : Founds(c) \/ Fills(c)
  <2>1. CASE Creation(p)
    BY <2>1, CreationKind
  <2>2. ASSUME NEW call, NEW newStatus \in Waiting, NEW newInfo,
               StartWait(p, call, newStatus, newInfo)
        PROVE  Moves
    BY <1>0, <2>2 DEF StartWait, LeaveProcessor, Running, Moves, Waiting
  <2>3. CASE Wait(p)
    BY <2>2, <2>3 DEF Wait, Sleep, WaitOnInterrupt, WaitForEvent, WaitOnChild, WaitOnResource,
       WaitOnKernelService, Waiting
  <2>4. CASE Exit(p)
    BY <1>0, <2>4 DEF Exit, LeaveProcessor, Quiet
  <2>5. ASSUME NEW q \in Pid, Kill(p, q) PROVE Moves
    <3>1. q \in processMap /\ "kill" \in Calls /\ "TERMINATED" \notin Waiting
          /\ status' = [status EXCEPT ![q] = "TERMINATED"] /\ UNCHANGED <<userVars, irqCount>>
      BY <2>5 DEF Kill, LeaveProcessor, Waiting
    <3> QED
      BY <3>1 DEF Moves
  <2>6. CASE \/ \E r \in Resource, busy \in BOOLEAN : SetResourceBusy(p, r, busy)
             \/ \E q \in Pid : WakeUpFromKSWait(p, q)
    BY <1>0, <2>6 DEF SetResourceBusy, WakeUpFromKSWait, KeepProcessor, Quiet
  <2> QED
    BY <1>4, <2>1, <2>3, <2>4, <2>5, <2>6 DEF Call
<1>5. CASE Interrupt
  <2>1. ASSUME NEW i \in Irq, SignalIrq(i) PROVE Quiet
    <3>1. UNCHANGED <<status, userVars>> /\ irqCount' = [irqCount EXCEPT ![i] = irqCount[i] + 1]
      BY <2>1 DEF SignalIrq, KeepProcessor
    <3>2. irqCount[i] + 1 >= irqCount[i]
      BY <1>0
    <3> QED
      BY <1>0, <3>1, <3>2 DEF Quiet
  <2>2. CASE \/ \E q \in Pid : EventCompleted(q)
             \/ ClockTick
             \/ \E p \in Pid : SwitchToFG(p)
    BY <1>0, <2>2 DEF EventCompleted, ClockTick, SwitchToFG, KeepProcessor, Quiet
  <2> QED
    BY <1>5, <2>1, <2>2 DEF Interrupt
<1>6. CASE UNCHANGED vars
  BY <1>0, <1>6 DEF vars, Quiet
<1> QED
  BY <1>1, <1>2, <1>3, <1>4, <1>5, <1>6 DEF Next

-----------------------------------------------------------------------------
(* Memory.                                                                 *)

\* The processor is given only to a process that has its stack and address
\* space and is not deleted, whatever is killed or fails (DoContextSwitch).
THEOREM RunningIsBacked == Spec => []RunningOwnsMemory
<1>1. IInv => RunningOwnsMemory
  BY DEF IInv, Cpu, RunningOwnsMemory, Exists, Runnable, Waiting
<1> QED
  BY <1>1, Invariance, PTL

\* Ended processes have nothing, those of a killed server included until
\* they are destroyed: this part holds where nobody is killed.
EndedHoldsNothing ==
  \A p \in Pid : status[p] \in Finished \cup {"DELETED"} => p \notin held

LEMMA NextEnded ==
  ASSUME "kill" \notin Calls, IInv, EndedHoldsNothing, [Next]_vars
  PROVE  EndedHoldsNothing'
<1>1. status \in [Pid -> Status] /\ held \subseteq Pid
  BY DEF IInv, TypeOK
<1>2. CASE Quiet
  BY <1>2 DEF Quiet, userVars, EndedHoldsNothing
<1>3. CASE Moves
  BY <1>1, <1>3 DEF Moves, userVars, EndedHoldsNothing, Waiting, Finished
<1>4. ASSUME NEW c \in Pid, Founds(c) PROVE EndedHoldsNothing'
  BY <1>1, <1>4 DEF Founds, EndedHoldsNothing, Finished
<1>5. ASSUME NEW c \in Pid, Fills(c) PROVE EndedHoldsNothing'
  BY <1>1, <1>5 DEF Fills, EndedHoldsNothing, Finished
<1>6. CASE Rounds
  BY <1>1, <1>6 DEF Rounds, userVars, EndedHoldsNothing, Finished, Runnable, Waiting
<1>7. CASE Ends
  BY <1>1, <1>7 DEF Ends, EndedHoldsNothing, Finished
<1> QED
  BY <1>2, <1>3, <1>4, <1>5, <1>6, <1>7, StepKinds

\* A process has its stack and address space for as long as it may run and
\* no longer: Destroy and DestroyThreads give back what the loader took.  A
\* server that is killed is released without Destroy, and so is left out.
THEOREM MemoryIsReturned ==
  ASSUME "kill" \notin Calls
  PROVE  Spec => []MemoryFollowsLife
<1>1. Init => EndedHoldsNothing
  BY DEF Init, EndedHoldsNothing, Finished
<1>2. IInv /\ EndedHoldsNothing /\ [Next]_vars => EndedHoldsNothing'
  BY NextEnded
<1>3. EndedHoldsNothing => ReleasedHoldsNothing
  BY DEF EndedHoldsNothing, ReleasedHoldsNothing, Finished
<1>4. RunningOwnsMemory /\ ReleasedHoldsNothing => MemoryFollowsLife
  BY DEF MemoryFollowsLife
<1> QED
  BY <1>1, <1>2, <1>3, <1>4, Invariance, RunningIsBacked, PTL DEF Spec

-----------------------------------------------------------------------------
(* The shared groups.                                                      *)

Users(g) == {p \in Pid : group[p] = g /\ (status[p] = "NEW" \/ p \in held)}

LEMMA UsersFinite ==
  ASSUME NEW S \in SUBSET Pid
  PROVE  IsFiniteSet(S) /\ Cardinality(S) \in Nat
BY PidFinite, FS_Subset, FS_CardinalityType

\* The count may stay while users leave, and grows with the users.
LEMMA NextGroups ==
  ASSUME IInv, GroupOutlivesUsers, [Next]_vars
  PROVE  GroupOutlivesUsers'
<1>1. /\ status \in [Pid -> Status] /\ held \subseteq Pid /\ nextPid \in Nat
      /\ group \in [Pid -> Pid] /\ groupSize \in [Pid -> Int]
  BY DEF IInv, TypeOK
<1>2. \A g \in Pid : groupSize[g] >= Cardinality(Users(g))
  BY DEF GroupOutlivesUsers, Users
<1>3. \A g \in Pid : Users(g) \subseteq Pid
  BY DEF Users
<1> SUFFICES ASSUME NEW g \in Pid PROVE groupSize'[g] >= Cardinality(Users(g)')
  BY DEF GroupOutlivesUsers, Users
<1>4. Cardinality(Users(g)) \in Nat /\ IsFiniteSet(Users(g))
  BY <1>3, UsersFinite
<1>5. ASSUME UNCHANGED groupSize, Users(g)' \subseteq Users(g)
      PROVE  groupSize'[g] >= Cardinality(Users(g)')
  <2>1. Cardinality(Users(g)') <= Cardinality(Users(g)) /\ Cardinality(Users(g)') \in Nat
    BY <1>3, <1>4, <1>5, FS_Subset, UsersFinite
  <2> QED
    BY <1>1, <1>2, <1>4, <1>5, <2>1
<1>6. CASE Quiet
  BY <1>5, <1>6 DEF Quiet, userVars, Users
<1>7. CASE Moves
  BY <1>1, <1>5, <1>7 DEF Moves, userVars, Users, Waiting
<1>8. ASSUME NEW c \in Pid, Founds(c) PROVE groupSize'[g] >= Cardinality(Users(g)')
  <2>1. c \notin held /\ status[c] # "NEW"
    BY <1>1, <1>8, PidIsNat DEF Founds, IInv, Fresh
  <2>2. PICK h \in Pid : /\ group' = [group EXCEPT ![c] = h]
                         /\ groupSize' = [groupSize EXCEPT ![h] = groupSize[h] + 1]
    BY <1>8 DEF Founds
  <2>3. Users(g)' \subseteq IF g = h THEN Users(g) \cup {c} ELSE Users(g)
    BY <1>1, <1>8, <2>2 DEF Founds, Users
  <2>4. c \notin Users(g)
    BY <2>1 DEF Users
  <2>5. CASE g = h
    <3>1. IsFiniteSet(Users(g) \cup {c})
          /\ Cardinality(Users(g) \cup {c}) = Cardinality(Users(g)) + 1
      BY <1>4, <2>4, FS_AddElement
    <3>2. Cardinality(Users(g)') <= Cardinality(Users(g)) + 1
      BY <2>3, <2>5, <3>1, FS_Subset
    <3>3. groupSize'[g] = groupSize[g] + 1
      BY <1>1, <2>2, <2>5
    <3>4. Users(g)' \subseteq Pid
      BY DEF Users
    <3>5. Cardinality(Users(g)') \in Nat /\ groupSize[g] \in Int
      BY <1>1, <3>4, UsersFinite
    <3> QED
      BY <1>2, <1>4, <3>2, <3>3, <3>5
  <2>6. CASE g # h
    <3>1. Cardinality(Users(g)') <= Cardinality(Users(g)) /\ Cardinality(Users(g)') \in Nat
      BY <1>3, <1>4, <2>3, <2>6, FS_Subset, UsersFinite
    <3>2. groupSize'[g] = groupSize[g]
      BY <1>1, <2>2, <2>6
    <3> QED
      BY <1>1, <1>2, <1>4, <3>1, <3>2
  <2> QED
    BY <2>5, <2>6
<1>9. ASSUME NEW c \in Pid, Fills(c) PROVE groupSize'[g] >= Cardinality(Users(g)')
  BY <1>1, <1>5, <1>9 DEF Fills, Users
<1>10. CASE Rounds
  BY <1>1, <1>5, <1>10 DEF Rounds, userVars, Users
<1>11. CASE Ends
  <2> DEFINE D == Destroyed(current)
             L == {q \in D : group[q] = g}
  <2>1. D \subseteq held /\ held' = held \ D /\ group' = group
        /\ groupSize'[g] = groupSize[g] - Cardinality(L)
    BY <1>11 DEF Ends
  <2>2. \A x \in Pid : status'[x] = "NEW" => status[x] = "NEW" /\ x \notin D
    BY <1>11 DEF Ends, Finished
  <2> HIDE DEF D
  <2>3. L \subseteq Users(g) /\ Users(g)' \subseteq Users(g) \ L
    BY <1>1, <2>1, <2>2 DEF Users
  <2> HIDE DEF L
  <2>4. /\ IsFiniteSet(L) /\ Cardinality(L) \in Nat
        /\ IsFiniteSet(Users(g) \ L)
        /\ Cardinality(Users(g) \ L) = Cardinality(Users(g)) - Cardinality(L)
    <3>1. IsFiniteSet(L) /\ Cardinality(L) \in Nat
      BY <1>3, <2>3, UsersFinite
    <3>2. IsFiniteSet(Users(g) \ L)
          /\ Cardinality(Users(g) \ L) = Cardinality(Users(g)) - Cardinality(Users(g) \cap L)
      BY <1>4, FS_Difference
    <3>3. Users(g) \cap L = L
      BY <2>3
    <3> QED
      BY <3>1, <3>2, <3>3
  <2>5. Cardinality(Users(g)') <= Cardinality(Users(g) \ L) /\ Cardinality(Users(g)') \in Nat
    BY <1>3, <2>3, <2>4, FS_Subset, UsersFinite
  <2> QED
    BY <1>1, <1>2, <1>4, <2>1, <2>4, <2>5
<1> QED
  BY <1>6, <1>7, <1>8, <1>9, <1>10, <1>11, StepKinds

\* A process group is not deleted while a process or a creation in progress
\* uses it, for every order of creations, failures and ends.
THEOREM GroupsAreKept == Spec => []GroupOutlivesUsers
<1>1. Init => GroupOutlivesUsers
  <2> SUFFICES ASSUME Init, NEW g \in Pid PROVE groupSize[g] >= Cardinality(Users(g))
    BY DEF GroupOutlivesUsers, Users
  <2>1. Users(g) = IF g = 0 THEN {0} ELSE {}
    BY PidIsNat DEF Init, Users
  <2>2. Cardinality({0}) = 1 /\ Cardinality({}) = 0
    BY FS_Singleton, FS_EmptySet
  <2> QED
    BY <2>1, <2>2 DEF Init
<1> QED
  BY <1>1, NextGroups, Invariance, PTL DEF Spec

-----------------------------------------------------------------------------
(* The foreground lists.                                                   *)

LEMMA RemovedProperties ==
  ASSUME NEW S, NEW s \in Seq(S), NEW x, Distinct(s)
  PROVE  Distinct(Removed(s, x)) /\ Elems(Removed(s, x)) = Elems(s) \ {x}
<1>1. CASE x \in Elems(s)
  <2>1. IndexIn(s, x) \in 1 .. Len(s) /\ s[IndexIn(s, x)] = x
    BY <1>1 DEF Elems, IndexIn
  <2> QED
    BY <1>1, <2>1, EraseAt DEF Removed
<1>2. CASE x \notin Elems(s)
  BY <1>2 DEF Removed
<1> QED
  BY <1>1, <1>2

LEMMA PushFront ==
  ASSUME NEW S, NEW s \in Seq(S), NEW x \in S, Distinct(s), x \notin Elems(s)
  PROVE  Distinct(<<x>> \o s) /\ Elems(<<x>> \o s) = {x} \cup Elems(s)
<1> DEFINE r == <<x>> \o s
           n == Len(s)
<1>1. n \in Nat /\ DOMAIN s = 1 .. n
  OBVIOUS
<1>2. /\ r \in Seq(S) /\ Len(r) = n + 1
      /\ \A i \in 1 .. n + 1 : r[i] = IF i = 1 THEN x ELSE s[i - 1]
  <2>1. <<x>> \in Seq(S) /\ Len(<<x>>) = 1 /\ <<x>>[1] = x
    OBVIOUS
  <2> QED
    BY <1>1, <2>1, ConcatProperties
<1>3. DOMAIN r = 1 .. n + 1
  BY <1>2
<1> HIDE DEF r
<1>4. Distinct(r)
  <2> SUFFICES ASSUME NEW i \in 1 .. n + 1, NEW j \in 1 .. n + 1, r[i] = r[j] PROVE i = j
    BY <1>3 DEF Distinct
  <2>1. \A k \in 1 .. n : s[k] # x
    BY <1>1 DEF Elems
  <2>2. ASSUME NEW k \in 1 .. n + 1, k # 1
        PROVE  k - 1 \in 1 .. n /\ r[k] = s[k - 1] /\ r[k] # x
    BY <1>1, <1>2, <2>1, <2>2
  <2>3. r[1] = x
    BY <1>1, <1>2
  <2>4. CASE i = 1 \/ j = 1
    BY <2>2, <2>3, <2>4
  <2>5. CASE i # 1 /\ j # 1
    <3>1. i - 1 = j - 1
      BY <1>1, <2>2, <2>5 DEF Distinct
    <3> QED
      BY <1>1, <3>1
  <2> QED
    BY <2>4, <2>5
<1>5. Elems(r) \subseteq {x} \cup Elems(s)
  BY <1>1, <1>2, <1>3 DEF Elems
<1>6. ASSUME NEW y \in {x} \cup Elems(s) PROVE y \in Elems(r)
  <2>1. CASE y = x
    BY <1>1, <1>2, <1>3, <2>1 DEF Elems
  <2>2. CASE y \in Elems(s)
    <3>1. PICK k \in 1 .. n : y = s[k]
      BY <1>1, <2>2 DEF Elems
    <3>2. k + 1 \in 1 .. n + 1 /\ r[k + 1] = y
      BY <1>1, <1>2, <3>1
    <3> QED
      BY <1>3, <3>2 DEF Elems
  <2> QED
    BY <2>1, <2>2
<1> QED
  BY <1>4, <1>5, <1>6 DEF r

\* Nobody is on the list of another group, twice on one, or there after its
\* end; threads are on none.
ListedInGroup(x, g) ==
  /\ x \in Pid /\ x < nextPid /\ group[x] = g /\ ~IsThread(x)
  /\ Exists(x) /\ status[x] \notin Finished
Foreground ==
  \A g \in Pid : Distinct(fgList[g]) /\ \A x \in Elems(fgList[g]) : ListedInGroup(x, g)

LEMMA NextForeground ==
  ASSUME {"kill", "fail"} \cap Calls = {}, IInv, Foreground, [Next]_vars
  PROVE  Foreground'
<1>1. /\ status \in [Pid -> Status] /\ nextPid \in Nat /\ mainThread \in [Pid -> Pid]
      /\ group \in [Pid -> Pid] /\ fgList \in [Pid -> Seq(Pid)]
  BY DEF IInv, TypeOK
<1> SUFFICES ASSUME NEW g \in Pid
             PROVE  Distinct(fgList'[g]) /\ \A x \in Elems(fgList'[g]) : ListedInGroup(x, g)'
  BY DEF Foreground
<1>2. Distinct(fgList[g]) /\ \A x \in Elems(fgList[g]) : ListedInGroup(x, g)
  BY DEF Foreground
<1>3. CASE Quiet
  BY <1>2, <1>3 DEF Quiet, userVars, ListedInGroup, IsThread, Exists
<1>4. CASE Moves
  BY <1>1, <1>2, <1>4 DEF Moves, userVars, ListedInGroup, IsThread, Exists, Waiting, Finished
<1>5. ASSUME NEW c \in Pid, Founds(c)
      PROVE  Distinct(fgList'[g]) /\ \A x \in Elems(fgList'[g]) : ListedInGroup(x, g)'
  <2>1. PICK h \in Pid, main \in Pid, fg \in BOOLEAN :
          /\ group' = [group EXCEPT ![c] = h]
          /\ mainThread' = [mainThread EXCEPT ![c] = main]
          /\ fgList' = [fgList EXCEPT ![h] = IF fg THEN <<c>> \o fgList[h] ELSE fgList[h]]
          /\ fg => main = c
    BY <1>5 DEF Founds
  <2>2. c = nextPid /\ nextPid' = nextPid + 1 /\ status' = [status EXCEPT ![c] = "NEW"]
    BY <1>5 DEF Founds
  <2>3. ASSUME NEW x, ListedInGroup(x, g) PROVE ListedInGroup(x, g)' /\ x # c
    <3>1. x \in Pid /\ x \in Nat /\ x < nextPid /\ x # c
      BY <1>1, <2>2, <2>3, PidIsNat DEF ListedInGroup
    <3>2. group'[x] = group[x] /\ mainThread'[x] = mainThread[x] /\ status'[x] = status[x]
      BY <1>1, <2>1, <2>2, <3>1
    <3> QED
      BY <1>1, <2>2, <2>3, <3>1, <3>2 DEF ListedInGroup, IsThread, Exists
  <2>4. CASE g = h /\ fg
    <3>1. fgList'[g] = <<c>> \o fgList[g]
      BY <1>1, <2>1, <2>4
    <3>2. c \notin Elems(fgList[g])
      BY <1>2, <2>3
    <3>3. Distinct(fgList'[g]) /\ Elems(fgList'[g]) = {c} \cup Elems(fgList[g])
      BY <1>1, <1>2, <3>1, <3>2, PushFront
    <3>4. ListedInGroup(c, g)'
      BY <1>1, <2>1, <2>2, <2>4 DEF ListedInGroup, IsThread, Exists, Finished
    <3> QED
      BY <1>2, <2>3, <3>3, <3>4
  <2>5. CASE ~ (g = h /\ fg)
    <3>1. fgList'[g] = fgList[g]
      BY <1>1, <2>1, <2>5
    <3> QED
      BY <1>2, <2>3, <3>1
  <2> QED
    BY <2>4, <2>5
<1>6. ASSUME NEW c \in Pid, Fills(c)
      PROVE  Distinct(fgList'[g]) /\ \A x \in Elems(fgList'[g]) : ListedInGroup(x, g)'
  BY <1>1, <1>2, <1>6 DEF Fills, ListedInGroup, IsThread, Exists, Finished
<1>7. CASE Rounds
  BY <1>1, <1>2, <1>7 DEF Rounds, userVars, ListedInGroup, IsThread, Exists, Finished
<1>8. CASE Ends
  <2> DEFINE p == current
  <2>1. /\ p \in Pid /\ fgList' = [fgList EXCEPT ![group[p]] = Removed(fgList[group[p]], p)]
        /\ UNCHANGED <<nextPid, mainThread, group>>
        /\ \A t \in Threads(p) : IsThread(t)
        /\ \A x \in Pid : ~ (x = p \/ x \in Threads(p)) =>
             status'[x] = status[x] \/ (status[x] = "TERMINATED" /\ status'[x] = "RELEASED")
    BY <1>8 DEF Ends, RemoveFromFGProcessList
  <2> HIDE DEF p
  <2>2. Distinct(fgList'[g]) /\ Elems(fgList'[g]) \subseteq Elems(fgList[g])
        /\ p \notin Elems(fgList'[g])
    <3>1. CASE g = group[p]
      <4>1. fgList'[g] = Removed(fgList[g], p)
        BY <1>1, <2>1, <3>1
      <4> QED
        BY <1>1, <1>2, <4>1, RemovedProperties
    <3>2. CASE g # group[p]
      <4>1. fgList'[g] = fgList[g]
        BY <1>1, <2>1, <3>2
      <4> QED
        BY <1>2, <3>2, <4>1 DEF ListedInGroup
    <3> QED
      BY <3>1, <3>2
  <2>3. ASSUME NEW x \in Elems(fgList'[g]) PROVE ListedInGroup(x, g)'
    <3>1. ListedInGroup(x, g) /\ x # p
      BY <1>2, <2>2
    <3>2. status'[x] = status[x]
      BY <2>1, <3>1 DEF ListedInGroup, Finished
    <3> QED
      BY <2>1, <3>1, <3>2 DEF ListedInGroup, IsThread, Exists
  <2> QED
    BY <2>2, <2>3
<1> QED
  BY <1>3, <1>4, <1>5, <1>6, <1>7, <1>8, StepKinds

\* The keystrokes of a session go to a process that has not ended: Destroy
\* takes every process off the list of its group.  Two ends that do not go
\* through Destroy are left out, a killed server and a creation that fails.
THEOREM ForegroundStaysAlive ==
  ASSUME {"kill", "fail"} \cap Calls = {}
  PROVE  Spec => []ForegroundAlive
<1>1. Init => Foreground
  <2> SUFFICES ASSUME Init, NEW g \in Pid
               PROVE  Distinct(fgList[g]) /\ \A x \in Elems(fgList[g]) : ListedInGroup(x, g)
    BY DEF Foreground
  <2>1. CASE g = 0
    BY <2>1, PidIsNat DEF Init, Distinct, Elems, ListedInGroup, IsThread, Exists, Finished
  <2>2. CASE g # 0
    BY <2>2 DEF Init, Distinct, Elems
  <2> QED
    BY <2>1, <2>2
<1>2. IInv /\ Foreground /\ [Next]_vars => Foreground'
  BY NextForeground
<1>3. IInv /\ Foreground => ForegroundAlive
  <2> SUFFICES ASSUME IInv, Foreground, NEW g \in Pid, fgList[g] # <<>>
               PROVE  Exists(Head(fgList[g])) /\ status[Head(fgList[g])] \notin Finished
    BY DEF ForegroundAlive
  <2>1. fgList[g] \in Seq(Pid)
    BY DEF IInv, TypeOK
  <2>2. Head(fgList[g]) \in Elems(fgList[g])
    BY <2>1 DEF Elems
  <2> QED
    BY <2>2 DEF Foreground, ListedInGroup
<1> QED
  BY <1>1, <1>2, <1>3, Invariance, PTL DEF Spec

-----------------------------------------------------------------------------
(* Steps that wake a process.                                              *)

\* Only the scheduler ends a wait, and it does so for the process it picks.
LEMMA WakingStep ==
  ASSUME IInv, [Next]_vars, NEW p \in Pid, status[p] \in Waiting, status'[p] = "RUN"
  PROVE  /\ Schedule /\ p = Picked(schedulerList[NextIt])
         /\ Dispatch(schedulerList[NextIt], p)
<1>1. status \in [Pid -> Status]
  BY DEF IInv, TypeOK
<1>2. Schedule
  <2>1. ~Quiet /\ ~Moves /\ ~Ends
    BY <1>1 DEF Quiet, Moves, Ends, Finished, Waiting
  <2>2. \A c \in Pid : ~Founds(c) /\ ~Fills(c)
    BY <1>1 DEF Founds, Fills, Waiting
  <2> QED
    BY <2>1, <2>2, StepKinds
<1> DEFINE m == schedulerList[NextIt]
           q == Picked(m)
<1>3. q \in Pid
  BY <1>2, AtSchedule DEF Schedule
<1>4. PassOver(m, q) \/ Dispatch(m, q)
  BY <1>2 DEF Schedule
<1> HIDE DEF m, q
<1>5. ASSUME PassOver(m, q) PROVE FALSE
  <2>1. q = p
    BY <1>5 DEF PassOver, Waiting
  <2>2. Reaped(p) = status[p]
    BY DEF Reaped, Waiting
  <2> QED
    BY <1>5, <2>1, <2>2 DEF PassOver, Waiting
<1>6. ASSUME Dispatch(m, q) PROVE p = q
  BY <1>6 DEF Dispatch, Waiting
<1> QED
  BY <1>2, <1>4, <1>5, <1>6 DEF m, q

\* WaitOnChild returns when the child is gone, not the caller's, or
\* finished, and never before.
THEOREM WaitsJoin == Spec => WaitOnChildJoins
<1>1. IInv /\ [Next]_vars =>
        \A p \in Pid : status[p] = "WAIT_CHILD" /\ status'[p] = "RUN" =>
          LET c == info[p].child IN
          c \in processMap /\ parent[c] = p => status[c] \in Finished
  <2> SUFFICES ASSUME IInv, [Next]_vars, NEW p \in Pid,
                      status[p] = "WAIT_CHILD", status'[p] = "RUN"
               PROVE  LET c == info[p].child IN
                      c \in processMap /\ parent[c] = p => status[c] \in Finished
    OBVIOUS
  <2>1. MayRun(p)
    BY WakingStep DEF Waiting, Dispatch
  <2> QED
    BY <2>1 DEF MayRun, ChildGone, ChildTerminated, Finished
<1> QED
  BY <1>1, Invariance, PTL DEF Spec, WaitOnChildJoins

\* An interrupt wakes one waiter, and no signal is lost: Consume takes one
\* from the count for the process that runs, and nothing else takes any.
THEOREM InterruptsAreCounted == Spec => InterruptsWakeOne
<1>1. ASSUME IInv, [Next]_vars, NEW i \in Irq
      PROVE  IF Woken(i) = {} THEN irqCount'[i] >= irqCount[i]
             ELSE irqCount'[i] = irqCount[i] - Cardinality(Woken(i))
  <2>1. irqCount \in [Irq -> 0 .. MaxSignal] /\ MaxSignal \in Nat /\ irqCount[i] \in Int
    BY <1>1, BoundAssumption DEF IInv, TypeOK
  <2>2. ASSUME Schedule, NEW m, NEW q \in Pid, m = schedulerList[NextIt], q = Picked(m), Dispatch(m, q)
        PROVE  IF Woken(i) = {} THEN irqCount'[i] >= irqCount[i]
               ELSE irqCount'[i] = irqCount[i] - Cardinality(Woken(i))
    <3>1. Woken(i) \subseteq {q}
      BY <1>1, <2>2, WakingStep DEF Woken, Waiting
    <3>2. irqCount' = Consume(q) /\ MayRun(q)
      BY <2>2 DEF Dispatch
    <3>3. CASE Woken(i) = {q}
      <4>1. status[q] = "WAIT_INT" /\ info[q].irq = i
        BY <3>3 DEF Woken
      <4>2. irqCount'[i] = irqCount[i] - 1
        BY <2>1, <3>2, <4>1 DEF Consume
      <4>3. Cardinality(Woken(i)) = 1
        BY <3>3, FS_Singleton
      <4> QED
        BY <3>3, <4>2, <4>3
    <3>4. CASE Woken(i) = {}
      <4>1. q \notin Erased(m)
        <5>1. status[q] \in Runnable
          BY <3>2 DEF MayRun, Runnable, Waiting
        <5>2. \A t \in Erased(m) : status[t] = "RELEASED"
          BY <1>1, <2>2, AtSchedule DEF Schedule
        <5> QED
          BY <5>1, <5>2 DEF Runnable, Waiting
      <4>2. status'[q] = "RUN"
        BY <2>2, <4>1 DEF Dispatch
      <4>3. ~ (status[q] = "WAIT_INT" /\ info[q].irq = i)
        BY <3>4, <4>2 DEF Woken
      <4>4. irqCount'[i] = irqCount[i]
        BY <2>1, <3>2, <4>3 DEF Consume
      <4> QED
        BY <2>1, <3>4, <4>4
    <3> QED
      BY <3>1, <3>3, <3>4
  <2>3. ASSUME ~ (Schedule /\ Dispatch(schedulerList[NextIt], Picked(schedulerList[NextIt])))
        PROVE  Woken(i) = {}
    BY <1>1, <2>3, WakingStep DEF Woken, Waiting
  <2>4. CASE Schedule
    <3>1. CASE Dispatch(schedulerList[NextIt], Picked(schedulerList[NextIt]))
      <4>1. Picked(schedulerList[NextIt]) \in Pid
        BY <1>1, <2>4, AtSchedule DEF Schedule
      <4> QED
        BY <2>2, <2>4, <3>1, <4>1
    <3>2. CASE PassOver(schedulerList[NextIt], Picked(schedulerList[NextIt]))
               /\ ~Dispatch(schedulerList[NextIt], Picked(schedulerList[NextIt]))
      <4>1. irqCount' = irqCount
        BY <3>2 DEF PassOver
      <4> QED
        BY <2>1, <2>3, <3>2, <4>1
    <3> QED
      BY <2>4, <3>1, <3>2 DEF Schedule
  <2>5. CASE ~Schedule
    <3>1. irqCount'[i] >= irqCount[i]
      <4>1. Quiet \/ UNCHANGED irqCount
        BY <1>1, <2>5, StepKinds DEF Moves, Founds, Fills, Ends
      <4> QED
        BY <2>1, <4>1 DEF Quiet
    <3> QED
      BY <2>3, <2>5, <3>1
  <2> QED
    BY <2>4, <2>5
<1>2. IInv /\ [Next]_vars =>
        \A i \in Irq : IF Woken(i) = {} THEN irqCount'[i] >= irqCount[i]
                       ELSE irqCount'[i] = irqCount[i] - Cardinality(Woken(i))
  BY <1>1
<1> QED
  BY <1>2, Invariance, PTL DEF Spec, InterruptsWakeOne

-----------------------------------------------------------------------------
(* FamilyIntact, for any number of processes, where no threads are created *)
(* and no server is killed.  With threads it does not hold: they are       *)
(* destroyed with their main process while a creation on their behalf is   *)
(* under way.                                                              *)

\* Nobody has threads.
Flat == \A p \in Pid : mainThread[p] = p /\ threadList[p] = <<>> /\ nextThread[p] = END

\* The list and the map hold the same processes.
Mapped == processMap = Elems(schedulerList)

Live(p) == p \in processMap /\ status[p] \notin Finished

\* The parent of a process in the making lives: it is the creator, which
\* runs, or a client that waits for its service.
Client(s) ==
  LET c == making[s].pid
      q == making[s].client
  IN /\ making[s].stage \in {"begun", "linked"}
     /\ parent[c] = q
     /\ q # NO_PROCESS_ID =>
          /\ q \in processMap
          /\ IF q = s THEN status[q] = "RUN"
             ELSE status[q] = "WAIT_KERNEL_SERVICE" /\ ~info[q].service
          /\ making[s].stage = "linked" => c \in children[q]
Clients == \A s \in Pid : making[s].stage # "none" => Client(s)

\* In the scheduler's list a parent comes before its children, and a
\* released child is one that the iterator meets before its parent.
Before(p, c) ==
  \A i, j \in DOMAIN schedulerList : schedulerList[i] = p /\ schedulerList[j] = c => i < j
Between(p, c) ==
  \A i, j \in DOMAIN schedulerList : schedulerList[i] = p /\ schedulerList[j] = c =>
    IF mode = "scheduler" THEN i < schedulerIt /\ schedulerIt <= j
                          ELSE i <= schedulerIt /\ schedulerIt < j

\* What holds for every process of the map and its parent.
Child(c) ==
  IF parent[c] = NO_PROCESS_ID THEN status[c] \notin Finished
  ELSE /\ parent[c] \in processMap /\ Before(parent[c], c)
       /\ IF status[c] = "RELEASED" THEN Between(parent[c], c)
          ELSE Live(parent[c]) /\ c \in children[parent[c]]
Kin == \A c \in processMap : Child(c)

\* Those a process that lives has for its children are its own.
Own(p, c) ==
  /\ c < nextPid
  /\ c \in processMap \/ status[c] = "NEW" => parent[c] = p
  /\ c \in processMap => status[c] # "RELEASED"
Kids ==
  /\ \A p \in Pid : Live(p) => \A c \in children[p] : Own(p, c)
  /\ \A p \in Pid : status[p] \in {"UNUSED", "NEW"} => children[p] = {}

\* Who gives the processor back to end is a child, runs, and is not in the
\* middle of a creation.
Leaving ==
  /\ mode # "scheduler" => status[current] \in Runnable
  /\ mode = "switching" /\ ~contextSwitch =>
       parent[current] # NO_PROCESS_ID /\ making[current].stage = "none" /\ status[current] = "RUN"

FInv == Flat /\ Mapped /\ Clients /\ Kin /\ Kids /\ Leaving

LEMMA InitFamily == Init => FInv
<1> SUFFICES ASSUME Init PROVE FInv
  OBVIOUS
<1>1. Elems(schedulerList) = {0} /\ 0 \in Pid
  BY PidIsNat DEF Init, Elems
<1>2. Flat /\ Mapped /\ Clients /\ Leaving
  BY <1>1 DEF Init, Flat, Mapped, Clients, Leaving, NotMaking, Runnable
<1>3. Kin /\ Kids
  BY <1>1 DEF Init, Kin, Child, Kids, Finished
<1> QED
  BY <1>2, <1>3 DEF FInv

\* The family property from the invariant.
LEMMA FamilyFromInvariant == IInv /\ FInv => FamilyIntact
<1> SUFFICES ASSUME IInv, FInv PROVE FamilyIntact
  OBVIOUS
<1>1. processMap \subseteq Pid
  BY DEF IInv, TypeOK
<1>2. \A m \in processMap : Exists(m)
  BY DEF FInv, Mapped, IInv, Lists, Exists, Gone
<1>3. ParentExists
  BY <1>2 DEF FInv, Kin, Child, ParentExists
<1>4. ZombieHasParent
  BY <1>1 DEF FInv, Kin, Child, Live, ZombieHasParent, Finished
<1> QED
  BY <1>3, <1>4 DEF FamilyIntact

-----------------------------------------------------------------------------
(* Steps that neither create nor end a process.                            *)

LEMMA StillStep ==
  ASSUME IInv, FInv,
         UNCHANGED <<nextPid, treeVars, listVars, making, schedulerIt, current>>,
         mode' = mode \/ (mode = "process" /\ mode' = "switching"),
         \A x \in Pid : \/ status'[x] = status[x]
                        \/ /\ x = current /\ making[x].stage = "none"
                           /\ status[x] = "RUN" /\ status'[x] \in Waiting,
         \A s \in Pid : making[s].stage # "none" /\ making[s].client \in Pid =>
           info'[making[s].client].service = info[making[s].client].service,
         mode' = "switching" /\ ~contextSwitch' =>
           parent[current] # NO_PROCESS_ID /\ making[current].stage = "none"
           /\ status'[current] = "RUN"
  PROVE  FInv'
<1> USE DEF treeVars, listVars
<1>1. processMap \subseteq Pid /\ current \in Pid /\ parent \in [Pid -> Pid \cup {NO_PROCESS_ID}]
      /\ children \in [Pid -> SUBSET Pid]
  BY DEF IInv, TypeOK
<1>2. Flat' /\ Mapped'
  BY DEF FInv, Flat, Mapped
<1>3. \A x \in Pid : /\ status'[x] \in Finished <=> status[x] \in Finished
                     /\ status'[x] = "RELEASED" <=> status[x] = "RELEASED"
                     /\ status'[x] = "NEW" <=> status[x] = "NEW"
                     /\ status'[x] = "UNUSED" <=> status[x] = "UNUSED"
  BY DEF Finished, Waiting
<1>4. Clients'
  <2> SUFFICES ASSUME NEW s \in Pid, making[s].stage # "none" PROVE Client(s)'
    BY DEF Clients
  <2>1. Client(s)
    BY DEF FInv, Clients
  <2>2. making[s].client # NO_PROCESS_ID => status'[making[s].client] = status[making[s].client]
    BY <1>1, <2>1 DEF Client
  <2> QED
    BY <1>1, <2>1, <2>2 DEF Client
<1>5. Kin'
  <2> SUFFICES ASSUME NEW c \in processMap PROVE Child(c)'
    BY DEF Kin
  <2>1. Child(c) /\ c \in Pid /\ (parent[c] # NO_PROCESS_ID => parent[c] \in Pid)
    BY <1>1 DEF FInv, Kin
  <2>2. \A p : Before(p, c) => Before(p, c)'
    BY DEF Before
  <2>3. \A p : Between(p, c) => Between(p, c)'
    BY DEF Between
  <2> QED
    BY <1>3, <2>1, <2>2, <2>3 DEF Child, Live
<1>6. Kids'
  BY <1>1, <1>3 DEF FInv, Kids, Live, Own
<1>7. Leaving'
  <2>1. mode' # "scheduler" => mode # "scheduler"
    OBVIOUS
  <2>2. mode' # "scheduler" => status'[current] \in Runnable
    BY <1>1, <2>1 DEF FInv, Leaving, Runnable
  <2> QED
    BY <2>2 DEF Leaving
<1> QED
  BY <1>2, <1>4, <1>5, <1>6, <1>7 DEF FInv

LEMMA QuietCalls ==
  ASSUME "kill" \notin Calls, IInv, FInv,
         \/ Preempt \/ Interrupt
         \/ \E p \in Pid :
              \/ Wait(p) \/ Exit(p) \/ \E q \in Pid : Kill(p, q)
              \/ \E r \in Resource, busy \in BOOLEAN : SetResourceBusy(p, r, busy)
              \/ \E q \in Pid : WakeUpFromKSWait(p, q)
  PROVE  FInv'
<1> USE DEF LeaveProcessor, KeepProcessor, cpuVars
<1>1. /\ info \in [Pid -> StateInfo] /\ status \in [Pid -> Status]
      /\ mode = "process" => status[current] = "RUN"
      /\ mode = "switching" /\ ~contextSwitch =>
           parent[current] # NO_PROCESS_ID /\ making[current].stage = "none" /\ status[current] = "RUN"
  BY DEF IInv, TypeOK, Cpu, FInv, Leaving
<1>2. CASE Preempt
  BY <1>2, StillStep DEF Preempt
<1>3. ASSUME NEW p \in Pid, Exit(p) PROVE FInv'
  BY <1>1, <1>3, StillStep DEF Exit, Running, NotMaking
<1>4. ASSUME NEW p \in Pid, NEW call, NEW newStatus \in Waiting, NEW newInfo,
             StartWait(p, call, newStatus, newInfo)
      PROVE  FInv'
  <2>1. /\ mode = "process" /\ mode' = "switching" /\ contextSwitch' = TRUE /\ p = current
        /\ making[p].stage = "none" /\ status[p] = "RUN"
        /\ info' = [info EXCEPT ![p] = newInfo] /\ status' = [status EXCEPT ![p] = newStatus]
        /\ UNCHANGED <<nextPid, treeVars, listVars, making, schedulerIt, current>>
    BY <1>1, <1>4 DEF StartWait, Running, NotMaking
  <2>2. ASSUME NEW s \in Pid, making[s].stage # "none", making[s].client \in Pid
        PROVE  making[s].client # p
    <3>1. CASE making[s].client = s
      BY <2>1, <2>2, <3>1
    <3>2. CASE making[s].client # s
      <4>1. status[making[s].client] = "WAIT_KERNEL_SERVICE"
        BY <2>2, <3>2, PidIsNat DEF FInv, Clients, Client
      <4> QED
        BY <2>1, <4>1
    <3> QED
      BY <3>1, <3>2
  <2>3. \A x \in Pid : x # p => status'[x] = status[x] /\ info'[x] = info[x]
    BY <1>1, <2>1
  <2>4. status'[p] \in Waiting
    BY <1>1, <2>1
  <2> QED
    BY <2>1, <2>2, <2>3, <2>4, StillStep
<1>5. ASSUME NEW p \in Pid, Wait(p) PROVE FInv'
  BY <1>4, <1>5 DEF Wait, Sleep, WaitOnInterrupt, WaitForEvent, WaitOnChild, WaitOnResource,
     WaitOnKernelService, Waiting
<1>6. ASSUME UNCHANGED <<nextPid, treeVars, listVars, making, schedulerIt, status, cpuVars>>,
             \A s \in Pid : making[s].stage # "none" /\ making[s].client \in Pid =>
               info'[making[s].client].service = info[making[s].client].service
      PROVE  FInv'
  BY <1>1, <1>6, StillStep
<1>7. ASSUME NEW p \in Pid, NEW r \in Resource, NEW busy \in BOOLEAN, SetResourceBusy(p, r, busy)
      PROVE  FInv'
  BY <1>6, <1>7 DEF SetResourceBusy
<1>8. ASSUME NEW p \in Pid, NEW q \in Pid, WakeUpFromKSWait(p, q) PROVE FInv'
  <2>1. \A s \in Pid : making[s].client # q
    BY <1>8 DEF WakeUpFromKSWait, Serves
  <2>2. \A x \in Pid : x # q => info'[x] = info[x]
    BY <1>1, <1>8 DEF WakeUpFromKSWait
  <2> QED
    BY <1>6, <1>8, <2>1, <2>2 DEF WakeUpFromKSWait
<1>9. CASE Interrupt
  <2>1. ASSUME NEW q \in Pid, EventCompleted(q) PROVE FInv'
    <3>1. \A x \in Pid : info'[x].service = info[x].service
      <4>1. info' = [info EXCEPT ![q] = [info[q] EXCEPT !.event = TRUE]]
        BY <2>1 DEF EventCompleted
      <4>2. [info[q] EXCEPT !.event = TRUE].service = info[q].service
        BY <1>1 DEF StateInfo
      <4> QED
        BY <1>1, <4>1, <4>2
    <3> QED
      BY <1>6, <2>1, <3>1 DEF EventCompleted
  <2>2. ASSUME NEW i \in Irq, SignalIrq(i) PROVE FInv'
    BY <1>6, <2>2 DEF SignalIrq
  <2>3. CASE ClockTick
    <3>1. \A x \in Pid : info'[x].service = info[x].service
      BY <1>1, <2>3 DEF ClockTick, StateInfo
    <3> QED
      BY <1>6, <2>3, <3>1 DEF ClockTick
  <2>4. ASSUME NEW p \in Pid, SwitchToFG(p) PROVE FInv'
    BY <1>6, <2>4 DEF SwitchToFG
  <2> QED
    BY <1>9, <2>1, <2>2, <2>3, <2>4 DEF Interrupt
<1>10. ASSUME NEW p \in Pid, NEW q \in Pid, Kill(p, q) PROVE FInv'
  BY <1>10 DEF Kill
<1> QED
  BY <1>2, <1>3, <1>5, <1>7, <1>8, <1>9, <1>10

-----------------------------------------------------------------------------
(* Creation.                                                               *)

\* The constructor: the new process is in nobody's way yet.
LEMMA BeginFamily ==
  ASSUME IInv, FInv, NEW p \in Pid, NEW par \in ParentChoices(p), NEW fg \in FGChoices,
         BeginProcess(p, par, fg)
  PROVE  FInv'
<1> DEFINE c == nextPid
<1> USE DEF listVars, cpuVars
<1>1. /\ processMap \subseteq Pid /\ parent \in [Pid -> Pid \cup {NO_PROCESS_ID}]
      /\ children \in [Pid -> SUBSET Pid] /\ status \in [Pid -> Status]
      /\ making \in [Pid -> Making] /\ mainThread \in [Pid -> Pid] /\ nextPid \in Nat
      /\ threadList \in [Pid -> Seq(Pid)] /\ current \in Pid
  BY DEF IInv, TypeOK
<1>2. c \in Pid
  BY <1>1, NPidAssumption DEF BeginProcess, Pid
<1>3. c \notin processMap /\ status[c] = "UNUSED"
  BY <1>1, <1>2 DEF IInv, Fresh
<1>4. /\ nextPid' = nextPid + 1 /\ making[p].stage = "none" /\ mode = "process" /\ current = p
      /\ \A x \in Pid : status'[x] = IF x = c THEN "NEW" ELSE status[x]
      /\ \A x \in Pid : parent'[x] = IF x = c THEN par ELSE parent[x]
      /\ \A x \in Pid : mainThread'[x] = IF x = c THEN c ELSE mainThread[x]
      /\ \A x \in Pid : making'[x] = IF x = p THEN [stage |-> "begun", pid |-> c, client |-> par]
                                     ELSE making[x]
      /\ UNCHANGED <<children, processMap, schedulerList, schedulerIt, threadList, nextThread,
                     info, mode, current, contextSwitch>>
  BY <1>1, <1>2 DEF BeginProcess, Construct, Running, NotMaking
<1>5. Flat' /\ Mapped'
  BY <1>4 DEF FInv, Flat, Mapped
<1>6. /\ par # NO_PROCESS_ID => par \in processMap
      /\ par # NO_PROCESS_ID => IF par = p THEN status[par] = "RUN"
                                ELSE status[par] = "WAIT_KERNEL_SERVICE" /\ ~info[par].service
  <2>1. p \in processMap /\ status[p] = "RUN"
    <3>1. /\ schedulerIt \in 1 .. Len(schedulerList) /\ schedulerList[schedulerIt] = mainThread[p]
          /\ status[p] = "RUN" /\ schedulerList \in Seq(Pid)
      BY <1>4 DEF IInv, Cpu, TypeOK
    <3>2. schedulerList[schedulerIt] \in Elems(schedulerList)
      BY <3>1 DEF Elems
    <3>3. mainThread[p] = p
      BY DEF FInv, Flat
    <3> QED
      BY <3>1, <3>2, <3>3 DEF FInv, Mapped
  <2> QED
    BY <2>1 DEF ParentChoices, Serves
<1>7. Clients'
  <2> SUFFICES ASSUME NEW s \in Pid, making'[s].stage # "none" PROVE Client(s)'
    BY DEF Clients
  <2>1. CASE s = p
    <3>1. making'[s] = [stage |-> "begun", pid |-> c, client |-> par]
      BY <1>4, <2>1
    <3>2. par # NO_PROCESS_ID => par # c /\ par \in Pid
      BY <1>1, <1>3, <1>6
    <3>3. parent'[c] = par /\ (par # NO_PROCESS_ID => status'[par] = status[par])
      BY <1>2, <1>4, <3>2
    <3> QED
      BY <1>4, <1>6, <2>1, <3>1, <3>3 DEF Client
  <2>2. CASE s # p
    <3>1. making'[s] = making[s] /\ making[s].stage # "none"
      BY <1>4, <2>2
    <3>2. making[s].pid \in Pid /\ making[s].pid # c
      BY <1>1, <3>1 DEF IInv, Makes, Pid
    <3>3. Client(s)
      BY <3>1 DEF FInv, Clients
    <3>4. making[s].client # NO_PROCESS_ID => making[s].client \in Pid /\ making[s].client # c
      BY <1>1, <1>3, <3>3 DEF Client
    <3> QED
      BY <1>4, <3>1, <3>2, <3>3, <3>4 DEF Client
  <2> QED
    BY <2>1, <2>2
<1>8. Kin'
  <2> SUFFICES ASSUME NEW x \in processMap PROVE Child(x)'
    BY <1>4 DEF Kin
  <2>1. Child(x) /\ x \in Pid /\ x # c
    BY <1>1, <1>3 DEF FInv, Kin
  <2>2. parent'[x] = parent[x] /\ status'[x] = status[x]
    BY <1>4, <2>1
  <2>3. parent[x] \in processMap => parent[x] \in Pid /\ parent[x] # c
    BY <1>1, <1>3
  <2> QED
    BY <1>4, <2>1, <2>2, <2>3 DEF Child, Live, Before, Between
<1>9. Kids'
  <2>1. ASSUME NEW q \in Pid, Live(q)', NEW x \in children[q] PROVE Own(q, x)'
    <3>1. q # c /\ Live(q) /\ Own(q, x) /\ x \in Pid
      BY <1>1, <1>3, <1>4, <2>1 DEF Live, FInv, Kids
    <3>2. x # c
      BY <1>1, <3>1 DEF Own, Pid
    <3> QED
      BY <1>1, <1>4, <3>1, <3>2, PidIsNat DEF Own
  <2>2. \A q \in Pid : status'[q] \in {"UNUSED", "NEW"} => children[q] = {}
    BY <1>3, <1>4 DEF FInv, Kids
  <2> QED
    BY <1>4, <2>1, <2>2 DEF Kids
<1>10. Leaving'
  BY <1>2, <1>3, <1>4 DEF FInv, Leaving, Runnable, Waiting
<1> QED
  BY <1>5, <1>7, <1>8, <1>9, <1>10 DEF FInv

\* The running process is the one the iterator stands at.
LEMMA WhoRuns ==
  ASSUME IInv, FInv, mode # "scheduler"
  PROVE  /\ schedulerIt \in DOMAIN schedulerList /\ schedulerList[schedulerIt] = current
         /\ current \in processMap
         /\ mode = "process" => status[current] = "RUN"
<1>1. /\ schedulerIt \in 1 .. Len(schedulerList) /\ schedulerList[schedulerIt] = mainThread[current]
      /\ mode = "process" => status[current] = "RUN"
      /\ schedulerList \in Seq(Pid) /\ current \in Pid
  BY DEF IInv, Cpu, TypeOK
<1>2. schedulerList[schedulerIt] \in Elems(schedulerList)
  BY <1>1 DEF Elems
<1>3. mainThread[current] = current
  BY <1>1 DEF FInv, Flat
<1> QED
  BY <1>1, <1>2, <1>3 DEF FInv, Mapped

\* What every step of a creation has in common.
LEMMA MidCreation ==
  ASSUME IInv, FInv, NEW p \in Pid, making[p].stage \in {"begun", "linked"}
  PROVE  /\ making[p].pid \in Pid /\ making[p].pid \notin processMap
         /\ making[p].pid < nextPid /\ status[making[p].pid] = "NEW"
         /\ Client(p)
         /\ processMap \subseteq Pid /\ \A x \in processMap : status[x] \notin Gone
         /\ NotMaking.stage = "none" /\ making \in [Pid -> Making]
         /\ status \in [Pid -> Status] /\ children \in [Pid -> SUBSET Pid]
BY DEF IInv, Makes, Early, TypeOK, Lists, FInv, Clients, Mapped, NotMaking

LEMMA FailFamily ==
  ASSUME IInv, FInv, NEW p \in Pid, FailCreation(p)
  PROVE  FInv'
<1> DEFINE c == making[p].pid
<1> USE DEF listVars, cpuVars, treeVars
<1>1. making[p].stage \in {"begun", "linked"}
  BY DEF FailCreation, FInv, Clients, Client
<1>2. /\ c \in Pid /\ c \notin processMap /\ status[c] = "NEW" /\ processMap \subseteq Pid
      /\ \A x \in processMap : status[x] \notin Gone
  BY <1>1, MidCreation
<1>3. /\ mode = "process" /\ NotMaking.stage = "none"
      /\ \A x \in Pid : status'[x] = IF x = c THEN "DELETED" ELSE status[x]
      /\ \A x \in Pid : making'[x] = IF x = p THEN NotMaking ELSE making[x]
      /\ UNCHANGED <<nextPid, parent, children, processMap, schedulerList, schedulerIt, mainThread,
                     threadList, nextThread, info, mode, current, contextSwitch>>
  BY <1>1, <1>2, MidCreation DEF FailCreation
<1> HIDE DEF c
<1>4. Flat' /\ Mapped' /\ Leaving'
  BY <1>2, <1>3, WhoRuns DEF FInv, Flat, Mapped, Leaving, Runnable, Gone
<1>5. Clients'
  <2> SUFFICES ASSUME NEW s \in Pid, making'[s].stage # "none" PROVE Client(s)'
    BY DEF Clients
  <2>1. making'[s] = making[s] /\ Client(s)
    BY <1>3 DEF FInv, Clients
  <2>2. making[s].client # NO_PROCESS_ID =>
          making[s].client \in Pid /\ status'[making[s].client] = status[making[s].client]
    BY <1>2, <1>3, <2>1 DEF Client
  <2> QED
    BY <1>3, <2>1, <2>2 DEF Client
<1>6. Kin'
  BY <1>2, <1>3 DEF FInv, Kin, Child, Live, Before, Between
<1>7. Kids'
  <2>1. children \in [Pid -> SUBSET Pid]
    BY DEF IInv, TypeOK
  <2> QED
    BY <1>2, <1>3, <2>1 DEF FInv, Kids, Live, Own
<1> QED
  BY <1>4, <1>5, <1>6, <1>7 DEF FInv

LEMMA LinkFamily ==
  ASSUME IInv, FInv, NEW p \in Pid, LinkProcess(p)
  PROVE  FInv'
<1> DEFINE c == making[p].pid
           q == making[p].client
<1> USE DEF listVars, cpuVars
<1>1. making[p].stage = "begun"
  BY DEF LinkProcess
<1>2. /\ c \in Pid /\ c \notin processMap /\ c < nextPid /\ Client(p) /\ processMap \subseteq Pid
      /\ \A x \in processMap : status[x] \notin Gone
  BY <1>1, MidCreation
<1>3. parent[c] = q /\ (q # NO_PROCESS_ID => q \in processMap)
  BY <1>2 DEF Client
<1>4. /\ mode = "process"
      /\ \A x \in Pid : children'[x] = children[x] \cup (IF x = q THEN {c} ELSE {})
      /\ \A x \in Pid : /\ making'[x].pid = making[x].pid /\ making'[x].client = making[x].client
                        /\ making'[x].stage = IF x = p THEN "linked" ELSE making[x].stage
      /\ UNCHANGED <<nextPid, status, parent, processMap, schedulerList, schedulerIt, mainThread,
                     threadList, nextThread, info, mode, current, contextSwitch>>
  <2>1. making' = [making EXCEPT ![p] = [making[p] EXCEPT !.stage = "linked"]]
    BY DEF LinkProcess
  <2>2. making[p] \in Making
    BY <1>1, MidCreation
  <2>3. [making[p] EXCEPT !.stage = "linked"]
          = [stage |-> "linked", pid |-> making[p].pid, client |-> making[p].client]
    BY <2>2 DEF Making
  <2>4. children' = IF q \in processMap THEN [children EXCEPT ![q] = children[q] \cup {c}]
                    ELSE children
    BY <1>3 DEF LinkProcess
  <2>5. q \in Pid => q \in processMap
    BY <1>3, PidIsNat
  <2> QED
    BY <1>1, <1>2, <2>1, <2>3, <2>4, <2>5, MidCreation DEF LinkProcess
<1> HIDE DEF c, q
<1>5. Flat' /\ Mapped' /\ Leaving'
  BY <1>4, WhoRuns DEF FInv, Flat, Mapped, Leaving, Runnable
<1>6. Clients'
  <2> SUFFICES ASSUME NEW s \in Pid, making'[s].stage # "none" PROVE Client(s)'
    BY DEF Clients
  <2>1. CASE s = p
    BY <1>2, <1>3, <1>4, <2>1 DEF Client, c, q
  <2>2. CASE s # p
    <3>1. Client(s)
      BY <1>4, <2>2 DEF FInv, Clients
    <3> QED
      BY <1>2, <1>4, <2>2, <3>1 DEF Client
  <2> QED
    BY <2>1, <2>2
<1>7. Kin'
  BY <1>2, <1>4 DEF FInv, Kin, Child, Live, Before, Between
<1>8. Kids'
  <2>1. ASSUME NEW x \in Pid, Live(x)', NEW y \in children'[x] PROVE Own(x, y)'
    <3>1. Live(x)
      BY <1>4, <2>1 DEF Live
    <3>2. y \in children[x] \/ (x = q /\ y = c)
      BY <1>4, <2>1
    <3>3. Own(x, y)
      BY <1>2, <1>3, <3>1, <3>2 DEF FInv, Kids, Own
    <3> QED
      BY <1>4, <3>3 DEF Own
  <2>2. ASSUME NEW x \in Pid, status[x] \in {"UNUSED", "NEW"} PROVE children'[x] = {}
    BY <1>2, <1>3, <1>4, <2>2, PidIsNat DEF FInv, Kids, Gone
  <2> QED
    BY <1>4, <2>1, <2>2 DEF Kids
<1> QED
  BY <1>5, <1>6, <1>7, <1>8 DEF FInv

LEMMA PublishFamily ==
  ASSUME IInv, FInv, NEW p \in Pid, PublishProcess(p)
  PROVE  FInv'
<1>0. PICK c, q : c = making[p].pid /\ q = making[p].client
  OBVIOUS
<1> USE DEF treeVars, cpuVars
<1>1. making[p].stage = "linked"
  BY DEF PublishProcess
<1>2. /\ c \in Pid /\ c \notin processMap /\ c < nextPid /\ status[c] = "NEW"
      /\ children \in [Pid -> SUBSET Pid]
      /\ Client(p) /\ processMap \subseteq Pid /\ \A x \in processMap : status[x] \notin Gone
  BY <1>0, <1>1, MidCreation
<1>3. /\ parent[c] = q
      /\ q # NO_PROCESS_ID => /\ q \in processMap /\ c \in children[q]
                              /\ status[q] \in {"RUN", "WAIT_KERNEL_SERVICE"}
  BY <1>0, <1>1, <1>2 DEF Client
<1>4. /\ mode = "process" /\ NotMaking.stage = "none"
      /\ \A x \in Pid : making'[x] = IF x = p THEN NotMaking ELSE making[x]
      /\ UNCHANGED <<nextPid, parent, children, schedulerIt, mainThread,
                     threadList, nextThread, info, mode, current, contextSwitch>>
  BY <1>0, <1>1, MidCreation DEF PublishProcess
<1>5. \/ UNCHANGED <<processMap, schedulerList, status>>
      \/ /\ processMap' = processMap \cup {c} /\ schedulerList' = Append(schedulerList, c)
         /\ \A x \in Pid : status'[x] = IF x = c THEN "RUN" ELSE status[x]
  BY <1>0, <1>1, MidCreation DEF PublishProcess
<1>6. /\ schedulerList \in Seq(Pid) /\ Distinct(schedulerList) /\ Len(schedulerList) \in Nat
      /\ DOMAIN schedulerList = 1 .. Len(schedulerList)
      /\ processMap = Elems(schedulerList) /\ schedulerIt <= Len(schedulerList) /\ schedulerIt \in Nat
  BY <1>4 DEF IInv, TypeOK, Lists, FInv, Mapped, Cpu
<1>7. /\ Elems(Append(schedulerList, c)) = processMap \cup {c}
      /\ Len(Append(schedulerList, c)) = Len(schedulerList) + 1
      /\ DOMAIN Append(schedulerList, c) = 1 .. Len(schedulerList) + 1
      /\ \A i \in 1 .. Len(schedulerList) : Append(schedulerList, c)[i] = schedulerList[i]
      /\ \A i \in 1 .. Len(schedulerList) : schedulerList[i] \in processMap
      /\ \A i \in DOMAIN Append(schedulerList, c) :
           Append(schedulerList, c)[i] # c => i \in DOMAIN schedulerList
  <2>1. c \notin Elems(schedulerList)
    BY <1>2, <1>6
  <2>2. /\ Append(schedulerList, c) \in Seq(Pid)
        /\ Len(Append(schedulerList, c)) = Len(schedulerList) + 1
        /\ Elems(Append(schedulerList, c)) = Elems(schedulerList) \cup {c}
        /\ \A i \in 1 .. Len(schedulerList) : Append(schedulerList, c)[i] = schedulerList[i]
    BY <1>2, <1>6, <2>1, AppendDistinct
  <2>3. DOMAIN Append(schedulerList, c) = 1 .. Len(schedulerList) + 1
    BY <2>2
  <2>4. Append(schedulerList, c)[Len(schedulerList) + 1] = c
    BY <1>6
  <2>5. \A i \in 1 .. Len(schedulerList) : schedulerList[i] \in Elems(schedulerList)
    BY <1>6 DEF Elems
  <2>6. \A i \in DOMAIN Append(schedulerList, c) :
           Append(schedulerList, c)[i] # c => i \in DOMAIN schedulerList
    <3>1. \A i \in 1 .. Len(schedulerList) + 1 :
            i # Len(schedulerList) + 1 => i \in 1 .. Len(schedulerList)
      BY <1>6
    <3> QED
      BY <1>6, <2>3, <2>4, <3>1
  <2> QED
    BY <1>6, <2>2, <2>3, <2>5, <2>6
<1>8. Flat' /\ Leaving'
  <2>1. status'[current] = "RUN"
    BY <1>2, <1>4, <1>5, WhoRuns
  <2> QED
    BY <1>4, <2>1 DEF FInv, Flat, Leaving, Runnable
<1>9. Mapped'
  BY <1>5, <1>6, <1>7 DEF Mapped
<1>10. Clients'
  <2> SUFFICES ASSUME NEW s \in Pid, making'[s].stage # "none" PROVE Client(s)'
    BY DEF Clients
  <2>1. making'[s] = making[s] /\ Client(s)
    BY <1>4 DEF FInv, Clients
  <2>2. making[s].client # NO_PROCESS_ID =>
          /\ making[s].client \in Pid /\ making[s].client \in processMap'
          /\ status'[making[s].client] = status[making[s].client]
    BY <1>2, <1>5, <2>1 DEF Client
  <2> QED
    BY <1>4, <2>1, <2>2 DEF Client
<1>11. Kin'
  <2>1. CASE UNCHANGED <<processMap, schedulerList, status>>
    BY <1>4, <2>1 DEF FInv, Kin, Child, Live, Before, Between
  <2>2. CASE /\ processMap' = processMap \cup {c} /\ schedulerList' = Append(schedulerList, c)
             /\ \A x \in Pid : status'[x] = IF x = c THEN "RUN" ELSE status[x]
    <3>1. ASSUME NEW x \in processMap PROVE Child(x)'
      <4>1. Child(x) /\ x \in Pid /\ x # c /\ (parent[x] # NO_PROCESS_ID /\ Child(x) => parent[x] \in processMap)
        BY <1>2 DEF FInv, Kin, Child
      <4>2. ASSUME NEW y \in processMap, Before(y, x) PROVE Before(y, x)'
        <5>1. y # c
          BY <1>2
        <5> QED
          BY <1>6, <1>7, <2>2, <4>1, <4>2, <5>1 DEF Before
      <4>3. ASSUME NEW y \in processMap, Between(y, x) PROVE Between(y, x)'
        <5>1. y # c
          BY <1>2
        <5> QED
          BY <1>4, <1>6, <1>7, <2>2, <4>1, <4>3, <5>1 DEF Between
      <4>4. \A y \in processMap : status'[y] = status[y]
        BY <1>2, <2>2
      <4> QED
        BY <1>4, <2>2, <4>1, <4>2, <4>3, <4>4 DEF Child, Live
    <3>2. Child(c)'
      <4>1. status'[c] = "RUN" /\ parent'[c] = q
        BY <1>2, <1>3, <1>4, <2>2
      <4>2. CASE q = NO_PROCESS_ID
        BY <4>1, <4>2 DEF Child, Finished
      <4>3. CASE q # NO_PROCESS_ID
        <5>1. q \in Pid /\ q # c /\ status'[q] = status[q]
          BY <1>2, <1>3, <2>2, <4>3
        <5>2. Before(q, c)'
          <6> SUFFICES ASSUME NEW i \in DOMAIN schedulerList', NEW j \in DOMAIN schedulerList',
                              schedulerList'[i] = q, schedulerList'[j] = c
                       PROVE  i < j
            BY DEF Before
          <6>1. i \in 1 .. Len(schedulerList)
            BY <1>6, <1>7, <2>2, <5>1
          <6>2. j \notin 1 .. Len(schedulerList) /\ j \in 1 .. Len(schedulerList) + 1
            BY <1>2, <1>7, <2>2
          <6> QED
            BY <1>6, <6>1, <6>2
        <5> QED
          BY <1>3, <1>4, <2>2, <4>1, <4>3, <5>1, <5>2 DEF Child, Live, Finished
      <4> QED
        BY <4>2, <4>3
    <3> QED
      BY <2>2, <3>1, <3>2 DEF Kin
  <2> QED
    BY <1>5, <2>1, <2>2
<1>12. Kids'
  <2>1. ASSUME NEW x \in Pid, Live(x)', NEW y \in children[x] PROVE Own(x, y)'
    <3>1. children[c] = {}
      BY <1>2 DEF FInv, Kids
    <3>2. Live(x) /\ Own(x, y)
      BY <1>2, <1>5, <2>1, <3>1 DEF Live, FInv, Kids
    <3> QED
      BY <1>2, <1>4, <1>5, <3>2 DEF Own
  <2>2. ASSUME NEW x \in Pid, status'[x] \in {"UNUSED", "NEW"} PROVE children[x] = {}
    BY <1>5, <2>2 DEF FInv, Kids
  <2> QED
    BY <1>4, <2>1, <2>2 DEF Kids
<1> QED
  BY <1>8, <1>9, <1>10, <1>11, <1>12 DEF FInv

-----------------------------------------------------------------------------
(* The scheduler.                                                          *)

\* Without threads forSchedule is about the main process only.
LEMMA FlatForSchedule ==
  ASSUME FInv, NEW m \in Pid
  PROVE  Erased(m) = {} /\ Kept(m) = threadList[m] /\ Picked(m) = m /\ NextThread(m) = nextThread[m]
<1>1. nextThread[m] = END /\ threadList[m] = <<>>
  BY DEF FInv, Flat
<1>2. AtMain(m) /\ Passed(m) = 0
  BY <1>1 DEF AtMain, Passed
<1>3. Erased(m) = {}
  <2>1. 0 .. Passed(m) - 1 = {}
    BY <1>2
  <2> QED
    BY <2>1 DEF Erased
<1> QED
  BY <1>1, <1>2, <1>3 DEF Kept, Picked, ToMain, NextThread

\* Where the scheduler stands, and what it does to the tables.
LEMMA FlatSchedule ==
  ASSUME IInv, FInv, Schedule
  PROVE  LET m == schedulerList[NextIt]
         IN /\ m \in Pid /\ m \in processMap /\ Picked(m) = m /\ Erased(m) = {}
            /\ ~IsThread(m) /\ status[m] \notin Gone
            /\ mode = "scheduler" /\ NextIt \in DOMAIN schedulerList
            /\ current' = m
            /\ UNCHANGED <<nextPid, parent, mainThread, making, threadList, nextThread>>
            /\ PassOver(m, m) \/ Dispatch(m, m)
<1> DEFINE m == schedulerList[NextIt]
<1>1. NextIt \in 1 .. Len(schedulerList) /\ m \in Pid /\ m \in processMap
      /\ ~IsThread(m) /\ status[m] \notin Gone
  BY AtSchedule DEF Schedule
<1>2. /\ Erased(m) = {} /\ Kept(m) = threadList[m] /\ Picked(m) = m
      /\ NextThread(m) = nextThread[m]
  BY <1>1, FlatForSchedule
<1>3. schedulerList \in Seq(Pid) /\ threadList \in [Pid -> Seq(Pid)] /\ nextThread \in [Pid -> Nat]
  BY DEF IInv, TypeOK
<1>4. /\ threadList' = [threadList EXCEPT ![m] = threadList[m]]
      /\ nextThread' = [nextThread EXCEPT ![m] = nextThread[m]]
      /\ current' = m /\ mode = "scheduler" /\ (PassOver(m, m) \/ Dispatch(m, m))
      /\ UNCHANGED <<nextPid, parent, mainThread, making>>
  BY <1>2 DEF Schedule
<1> HIDE DEF m
<1>5. threadList' = threadList /\ nextThread' = nextThread
  BY <1>3, <1>4
<1> QED
  BY <1>1, <1>2, <1>3, <1>4, <1>5 DEF m

\* A released child that is still listed: the iterator has passed its parent
\* and not yet wrapped around, and it does not stand at the parent.
LEMMA StillListed ==
  ASSUME IInv, FInv, mode = "scheduler", NEW x \in processMap, parent[x] # NO_PROCESS_ID,
         status[x] = "RELEASED"
  PROVE  /\ NextIt = schedulerIt
         /\ \A i, j \in DOMAIN schedulerList :
              schedulerList[i] = parent[x] /\ schedulerList[j] = x => i < schedulerIt /\ schedulerIt <= j
         /\ \A i \in DOMAIN schedulerList : schedulerList[i] = parent[x] => i < schedulerIt
<1>1. Between(parent[x], x) /\ parent[x] \in processMap
  BY DEF FInv, Kin, Child
<1>2. schedulerList \in Seq(Pid) /\ DOMAIN schedulerList = 1 .. Len(schedulerList)
      /\ Len(schedulerList) \in Nat /\ schedulerIt \in Int
  BY DEF IInv, TypeOK
<1>3. PICK i \in DOMAIN schedulerList : schedulerList[i] = parent[x]
  BY <1>1 DEF FInv, Mapped, Elems
<1>4. PICK j \in DOMAIN schedulerList : schedulerList[j] = x
  BY DEF FInv, Mapped, Elems
<1>5. schedulerIt <= j
  BY <1>1, <1>3, <1>4 DEF Between
<1>6. NextIt = schedulerIt
  BY <1>2, <1>5 DEF NextIt
<1> QED
  BY <1>1, <1>4, <1>6 DEF Between

LEMMA PassOverFamily ==
  ASSUME IInv, FInv, Schedule, PassOver(schedulerList[NextIt], schedulerList[NextIt])
  PROVE  FInv'
<1>0. PICK m, k : m = schedulerList[NextIt] /\ k = NextIt
  OBVIOUS
<1>1. /\ m \in Pid /\ m \in processMap /\ Erased(m) = {} /\ ~IsThread(m) /\ status[m] \notin Gone
      /\ mode = "scheduler" /\ k \in DOMAIN schedulerList /\ schedulerList[k] = m
      /\ UNCHANGED <<nextPid, parent, mainThread, making, threadList, nextThread>>
  BY <1>0, FlatSchedule
<1>2. /\ processMap \subseteq Pid /\ children \in [Pid -> SUBSET Pid] /\ schedulerList \in Seq(Pid)
      /\ DOMAIN schedulerList = 1 .. Len(schedulerList) /\ Len(schedulerList) \in Nat
      /\ schedulerIt \in Int /\ Distinct(schedulerList) /\ processMap = Elems(schedulerList)
      /\ k \in Int
  <2>1. /\ processMap \subseteq Pid /\ children \in [Pid -> SUBSET Pid] /\ schedulerList \in Seq(Pid)
        /\ Distinct(schedulerList) /\ processMap = Elems(schedulerList)
    BY DEF IInv, TypeOK, Lists, FInv, Mapped
  <2>2. DOMAIN schedulerList = 1 .. Len(schedulerList) /\ Len(schedulerList) \in Nat
    BY <2>1
  <2>3. schedulerIt \in Int
    BY <2>2 DEF IInv, TypeOK
  <2>4. k \in Int
    BY <1>1, <2>2
  <2> QED
    BY <2>1, <2>2, <2>3, <2>4
<1>3. /\ UNCHANGED <<info, children, mode, contextSwitch>>
      /\ \A x \in Pid : status'[x] = IF x = m /\ Reaped(m) = "RELEASED" THEN "DELETED"
                                     ELSE IF x = m THEN Reaped(m) ELSE status[x]
      /\ IF Reaped(m) = "RELEASED"
         THEN /\ schedulerList' = RemoveAt(schedulerList, k)
              /\ processMap' = processMap \ {m} /\ schedulerIt' = k
         ELSE /\ processMap' = processMap /\ schedulerIt' = k + 1 /\ schedulerList' = schedulerList
  BY <1>0, <1>1 DEF PassOver, Advance
<1>4. Flat' /\ Leaving'
  BY <1>1, <1>3 DEF FInv, Flat, Leaving
<1>5. CASE Reaped(m) # "RELEASED"
  <2>1. status[m] # "RELEASED" /\ \A x \in Pid : status'[x] = status[x]
    BY <1>3, <1>5 DEF Reaped
  <2>2. Mapped'
    BY <1>3, <1>5 DEF FInv, Mapped
  <2>3. Clients'
    <3> SUFFICES ASSUME NEW s \in Pid, making'[s].stage # "none" PROVE Client(s)'
      BY DEF Clients
    <3>1. Client(s) /\ making'[s] = making[s]
      BY <1>1 DEF FInv, Clients
    <3>2. making[s].client # NO_PROCESS_ID => making[s].client \in Pid
      BY <1>2, <3>1 DEF Client
    <3> QED
      BY <1>1, <1>3, <1>5, <2>1, <3>1, <3>2 DEF Client
  <2>4. Kin'
    <3> SUFFICES ASSUME NEW x \in processMap PROVE Child(x)'
      BY <1>3, <1>5 DEF Kin
    <3>1. Child(x)
      BY DEF FInv, Kin
    <3>2. ASSUME parent[x] # NO_PROCESS_ID, status[x] = "RELEASED" PROVE Between(parent[x], x)'
      <4>1. x # m
        BY <2>1, <3>2
      <4> QED
        BY <1>0, <1>1, <1>2, <1>3, <1>5, <3>2, <4>1, StillListed DEF Between
    <3>3. \A y : Before(y, x) => Before(y, x)'
      BY <1>3, <1>5 DEF Before
    <3> QED
      BY <1>1, <1>2, <1>3, <1>5, <2>1, <3>1, <3>2, <3>3 DEF Child, Live
  <2>5. Kids'
    BY <1>1, <1>2, <1>3, <1>5, <2>1 DEF FInv, Kids, Live, Own
  <2> QED
    BY <1>4, <2>2, <2>3, <2>4, <2>5 DEF FInv
<1>6. CASE Reaped(m) = "RELEASED"
  <2>1. /\ status[m] \in Finished
        /\ \A x \in Pid : status'[x] = IF x = m THEN "DELETED" ELSE status[x]
    BY <1>3, <1>6 DEF Reaped, Finished
  <2>2. ASSUME NEW x \in processMap PROVE parent[x] # m
    <3> SUFFICES ASSUME parent[x] = m PROVE FALSE
      OBVIOUS
    <3>1. m # NO_PROCESS_ID /\ Child(x)
      BY <1>1, PidIsNat DEF FInv, Kin
    <3>2. status[x] = "RELEASED"
      BY <2>1, <3>1 DEF Child, Live
    <3>3. NextIt = schedulerIt /\ k < schedulerIt
      BY <1>1, <3>1, <3>2, StillListed
    <3> QED
      BY <1>0, <1>2, <3>3
  <2> DEFINE l == RemoveAt(schedulerList, k)
             f(i) == IF i < k THEN i ELSE i + 1
  <2>3. /\ Len(l) = Len(schedulerList) - 1 /\ DOMAIN l = 1 .. Len(schedulerList) - 1
        /\ Elems(l) = Elems(schedulerList) \ {m}
        /\ \A i \in DOMAIN l : /\ l[i] = schedulerList[f(i)]
                               /\ f(i) \in DOMAIN schedulerList /\ f(i) # k
    <3>1. k \in 1 .. Len(schedulerList)
      BY <1>1, <1>2
    <3>2. /\ l \in Seq(Pid) /\ Len(l) = Len(schedulerList) - 1
          /\ Elems(l) = Elems(schedulerList) \ {schedulerList[k]}
      BY <1>2, <3>1, EraseAt
    <3>3. \A i \in 1 .. Len(schedulerList) - 1 : l[i] = IF i < k THEN schedulerList[i] ELSE schedulerList[i + 1]
      BY <1>2, <3>1, RemoveAtProperties
    <3> HIDE DEF l
    <3>4. DOMAIN l = 1 .. Len(schedulerList) - 1
      BY <3>2
    <3>5. \A i \in 1 .. Len(schedulerList) - 1 : f(i) \in 1 .. Len(schedulerList) /\ f(i) # k
      BY <1>2, <3>1
    <3> QED
      BY <1>1, <1>2, <3>2, <3>3, <3>4, <3>5
  <2>4. schedulerList' = l /\ processMap' = processMap \ {m} /\ schedulerIt' = k
    BY <1>3, <1>6
  <2> HIDE DEF l
  <2>5. Mapped'
    BY <1>2, <2>3, <2>4 DEF Mapped
  <2>6. Clients'
    <3> SUFFICES ASSUME NEW s \in Pid, making'[s].stage # "none" PROVE Client(s)'
      BY DEF Clients
    <3>1. Client(s) /\ making'[s] = making[s]
      BY <1>1 DEF FInv, Clients
    <3>2. making[s].client # NO_PROCESS_ID => making[s].client \in Pid /\ making[s].client # m
      BY <1>2, <2>1, <3>1 DEF Client, Finished
    <3> QED
      BY <1>1, <1>3, <2>1, <2>4, <3>1, <3>2 DEF Client
  <2>7. Kin'
    <3> SUFFICES ASSUME NEW x \in processMap, x # m PROVE Child(x)'
      BY <2>4 DEF Kin
    <3>1. Child(x) /\ x \in Pid /\ parent[x] # m
      BY <1>2, <2>2 DEF FInv, Kin
    <3>2. \A y : Before(y, x) => Before(y, x)'
      <4> SUFFICES ASSUME NEW y, Before(y, x), NEW i \in DOMAIN l, NEW j \in DOMAIN l, l[i] = y, l[j] = x
                   PROVE  i < j
        BY <2>4 DEF Before
      <4>1. f(i) < f(j)
        BY <2>3 DEF Before
      <4> QED
        BY <1>2, <2>3, <4>1
    <3>3. ASSUME parent[x] # NO_PROCESS_ID, status[x] = "RELEASED" PROVE Between(parent[x], x)'
      <4> SUFFICES ASSUME NEW i \in DOMAIN l, NEW j \in DOMAIN l, l[i] = parent[x], l[j] = x
                   PROVE  i < k /\ k <= j
        BY <1>1, <1>3, <2>4 DEF Between
      <4>1. f(i) < schedulerIt /\ schedulerIt <= f(j) /\ k = schedulerIt
        BY <1>0, <1>1, <2>3, <3>3, StillListed
      <4> QED
        BY <1>2, <2>3, <4>1
    <3>4. status'[x] = status[x] /\ parent'[x] = parent[x]
          /\ \A y \in processMap \ {m} : status'[y] = status[y]
      BY <1>1, <1>2, <2>1, <3>1
    <3> QED
      BY <1>3, <2>4, <3>1, <3>2, <3>3, <3>4 DEF Child, Live
  <2>8. Kids'
    BY <1>1, <1>2, <1>3, <2>1, <2>4 DEF FInv, Kids, Live, Own
  <2> QED
    BY <1>4, <2>5, <2>6, <2>7, <2>8 DEF FInv
<1> QED
  BY <1>5, <1>6

LEMMA DispatchFamily ==
  ASSUME IInv, FInv, Schedule, Dispatch(schedulerList[NextIt], schedulerList[NextIt])
  PROVE  FInv'
<1>0. PICK m, k, c : m = schedulerList[NextIt] /\ k = NextIt /\ c = info[m].child
  OBVIOUS
<1> DEFINE joined == status[m] = "WAIT_CHILD" /\ ~ChildGone(m)
<1>1. /\ m \in Pid /\ m \in processMap /\ Erased(m) = {} /\ status[m] \notin Gone
      /\ mode = "scheduler" /\ k \in DOMAIN schedulerList /\ schedulerList[k] = m /\ current' = m
      /\ UNCHANGED <<nextPid, parent, mainThread, making, threadList, nextThread>>
  BY <1>0, FlatSchedule
<1>2. /\ processMap \subseteq Pid /\ children \in [Pid -> SUBSET Pid] /\ info \in [Pid -> StateInfo]
      /\ DOMAIN schedulerList = 1 .. Len(schedulerList) /\ Len(schedulerList) \in Nat
      /\ schedulerIt \in Int /\ Distinct(schedulerList) /\ processMap = Elems(schedulerList)
      /\ k \in Int
  <2>1. /\ processMap \subseteq Pid /\ children \in [Pid -> SUBSET Pid] /\ schedulerList \in Seq(Pid)
        /\ Distinct(schedulerList) /\ processMap = Elems(schedulerList)
        /\ info \in [Pid -> StateInfo]
    BY DEF IInv, TypeOK, Lists, FInv, Mapped
  <2>2. DOMAIN schedulerList = 1 .. Len(schedulerList) /\ Len(schedulerList) \in Nat
    BY <2>1
  <2>3. schedulerIt \in Int
    BY <2>2 DEF IInv, TypeOK
  <2>4. k \in Int
    BY <1>1, <2>2
  <2> QED
    BY <2>1, <2>2, <2>3, <2>4
<1>3. /\ MayRun(m)
      /\ \A x \in Pid : status'[x] = IF x = m THEN "RUN"
                                     ELSE IF joined /\ x = c THEN "RELEASED" ELSE status[x]
      /\ \A x \in Pid : x # m => info'[x] = info[x]
      /\ \A x \in Pid : children'[x] = IF x = m /\ status[m] = "WAIT_CHILD"
                                       THEN children[m] \ {c} ELSE children[x]
      /\ processMap' = processMap /\ schedulerList' = schedulerList /\ schedulerIt' = k
      /\ mode' = "process"
  <2>1. /\ status' = [q \in Pid |-> IF q \in Erased(m) THEN "DELETED" ELSE IF q = m THEN "RUN"
              ELSE IF status[m] = "WAIT_CHILD" /\ q = c /\ ~ChildGone(m) THEN "RELEASED"
              ELSE status[q]]
        /\ info' = [info EXCEPT ![m] = Resumed(m)]
        /\ children' = IF status[m] = "WAIT_CHILD" THEN [children EXCEPT ![m] = children[m] \ {c}]
                       ELSE children
        /\ MayRun(m) /\ processMap' = processMap \ Erased(m)
        /\ schedulerList' = schedulerList /\ schedulerIt' = k /\ mode' = "process"
    BY <1>0 DEF Dispatch
  <2> QED
    BY <1>1, <1>2, <2>1
<1>4. status[m] \in Runnable
  BY <1>3 DEF MayRun, Runnable, Waiting
<1>5. joined => /\ c \in processMap /\ parent[c] = m /\ status[c] = "TERMINATED" /\ c # m
                /\ status[m] = "WAIT_CHILD"
  BY <1>0, <1>3, <1>4 DEF MayRun, ChildGone, ChildTerminated, Runnable, Waiting
<1>6. c \in processMap /\ parent[c] = m /\ status[m] = "WAIT_CHILD" => joined
  BY <1>0 DEF ChildGone
<1> HIDE DEF joined
<1>7. Flat' /\ Mapped' /\ Leaving'
  BY <1>1, <1>3 DEF FInv, Flat, Mapped, Leaving, Runnable
<1>8. Clients'
  <2> SUFFICES ASSUME NEW s \in Pid, making'[s].stage # "none" PROVE Client(s)'
    BY DEF Clients
  <2>1. Client(s) /\ making'[s] = making[s]
    BY <1>1 DEF FInv, Clients
  <2>2. CASE making[s].client = NO_PROCESS_ID
    BY <1>1, <2>1, <2>2 DEF Client
  <2>3. CASE making[s].client # NO_PROCESS_ID
    <3>1. PICK q \in Pid : q = making[s].client
      BY <1>2, <2>1, <2>3 DEF Client
    <3>2. ~joined \/ q # c
      BY <1>5, <2>1, <2>3, <3>1 DEF Client
    <3>3. CASE q = m
      <4>1. q = s /\ status[q] = "RUN"
        BY <1>3, <2>1, <2>3, <3>1, <3>3 DEF Client, MayRun
      <4> QED
        BY <1>1, <1>3, <2>1, <2>3, <3>1, <3>3, <4>1 DEF Client
    <3>4. CASE q # m
      <4>1. status'[q] = status[q] /\ info'[q] = info[q] /\ children'[q] = children[q]
        BY <1>3, <3>2, <3>4
      <4> QED
        BY <1>1, <1>3, <2>1, <2>3, <3>1, <4>1 DEF Client
    <3> QED
      BY <3>3, <3>4
  <2> QED
    BY <2>2, <2>3
<1>9. Kin'
  <2> SUFFICES ASSUME NEW x \in processMap PROVE Child(x)'
    BY <1>3 DEF Kin
  <2>1. Child(x) /\ x \in Pid /\ parent'[x] = parent[x]
    BY <1>1, <1>2 DEF FInv, Kin
  <2>2. \A y : Before(y, x) => Before(y, x)'
    BY <1>3 DEF Before
  <2>3. CASE parent[x] = NO_PROCESS_ID
    <3>1. ~joined \/ x # c
      BY <1>1, <1>5, <2>3, PidIsNat
    <3> QED
      BY <1>3, <1>4, <2>1, <2>3, <3>1 DEF Child, Finished
  <2>4. CASE parent[x] # NO_PROCESS_ID /\ joined /\ x = c
    <3>1. Between(m, x)'
      <4> SUFFICES ASSUME NEW i \in DOMAIN schedulerList, NEW j \in DOMAIN schedulerList,
                          schedulerList[i] = m, schedulerList[j] = x
                   PROVE  i <= k /\ k < j
        BY <1>3 DEF Between
      <4>1. i < j /\ i = k
        BY <1>1, <1>2, <1>5, <2>1, <2>4, PidIsNat DEF Child, Before, Distinct
      <4> QED
        BY <1>2, <4>1
    <3>2. status'[x] = "RELEASED" /\ parent[x] = m
      BY <1>3, <1>5, <2>1, <2>4
    <3> QED
      BY <1>3, <2>1, <2>2, <2>4, <3>1, <3>2 DEF Child
  <2>5. CASE parent[x] # NO_PROCESS_ID /\ status[x] = "RELEASED" /\ x # m /\ ~(joined /\ x = c)
    <3>1. Between(parent[x], x)'
      <4> SUFFICES ASSUME NEW i \in DOMAIN schedulerList, NEW j \in DOMAIN schedulerList,
                          schedulerList[i] = parent[x], schedulerList[j] = x
                   PROVE  i <= k /\ k < j
        BY <1>1, <1>3 DEF Between
      <4>1. i < k /\ k <= j /\ j # k
        BY <1>0, <1>1, <2>5, StillListed
      <4> QED
        BY <1>2, <4>1
    <3>2. status'[x] = "RELEASED"
      BY <1>3, <2>1, <2>5
    <3> QED
      BY <1>3, <2>1, <2>2, <2>5, <3>1, <3>2 DEF Child
  <2>6. CASE parent[x] # NO_PROCESS_ID /\ (status[x] # "RELEASED" \/ x = m) /\ ~(joined /\ x = c)
    <3>1. status[x] # "RELEASED" /\ status'[x] # "RELEASED"
      BY <1>3, <1>4, <2>1, <2>6 DEF Runnable, Waiting
    <3>2. Live(parent[x]) /\ x \in children[parent[x]] /\ parent[x] \in processMap
      BY <2>1, <2>6, <3>1 DEF Child
    <3>3. Live(parent[x])'
      BY <1>2, <1>3, <1>5, <2>1, <3>2 DEF Live, Finished
    <3>4. x \in children'[parent[x]]
      BY <1>2, <1>3, <1>6, <2>6, <3>2
    <3> QED
      BY <1>3, <2>1, <2>2, <2>6, <3>1, <3>2, <3>3, <3>4 DEF Child
  <2> QED
    BY <1>5, <2>3, <2>4, <2>5, <2>6
<1>10. Kids'
  <2>1. ASSUME NEW y \in Pid, Live(y)', NEW x \in children'[y] PROVE Own(y, x)'
    <3>1. Live(y) /\ x \in children[y] /\ x \in Pid
      BY <1>2, <1>3, <1>4, <1>5, <2>1 DEF Live, Finished, Runnable, Waiting
    <3>2. Own(y, x)
      BY <3>1 DEF FInv, Kids
    <3>3. ~joined \/ x # c
      BY <1>3, <1>5, <2>1, <3>1, <3>2 DEF Own
    <3>4. status'[x] = status[x] \/ (x = m /\ status'[x] = "RUN")
      BY <1>3, <3>1, <3>3
    <3>5. status'[x] = "NEW" => status[x] = "NEW"
      BY <3>4
    <3>6. parent'[x] = parent[x] /\ nextPid' = nextPid
      BY <1>1
    <3>7. x < nextPid'
      BY <3>2, <3>6 DEF Own
    <3>8. (x \in processMap \/ status[x] = "NEW" => parent[x] = y)
          /\ (x \in processMap => status[x] # "RELEASED")
      BY <3>2 DEF Own
    <3>9. processMap' = processMap
      BY <1>3
    <3>10. x \in processMap' \/ status'[x] = "NEW" => parent'[x] = y
      BY <3>5, <3>6, <3>8, <3>9
    <3>11. x \in processMap' => status'[x] # "RELEASED"
      BY <3>4, <3>8, <3>9
    <3> QED
      BY <3>7, <3>10, <3>11 DEF Own
  <2>2. ASSUME NEW y \in Pid, status'[y] \in {"UNUSED", "NEW"} PROVE children'[y] = {}
    <3>1. status[y] \in {"UNUSED", "NEW"}
      BY <1>3, <2>2
    <3>2. children[y] = {}
      BY <3>1 DEF FInv, Kids
    <3> QED
      BY <1>3, <3>2
  <2> QED
    BY <2>1, <2>2 DEF Kids
<1> QED
  BY <1>7, <1>8, <1>9, <1>10 DEF FInv

LEMMA ScheduleFamily == IInv /\ FInv /\ Schedule => FInv'
BY FlatSchedule, PassOverFamily, DispatchFamily

-----------------------------------------------------------------------------
(* The end of a process.                                                   *)

\* A process that asked for a context switch goes on later: the iterator
\* moves past it.
LEMMA YieldFamily ==
  ASSUME IInv, FInv, mode # "scheduler", mode' = "scheduler", schedulerIt' = schedulerIt + 1,
         UNCHANGED <<nextPid, processMap, schedulerList, status, treeVars, threadList, nextThread,
                     info, making>>
  PROVE  FInv'
<1> USE DEF treeVars
<1>1. processMap \subseteq Pid /\ Len(schedulerList) \in Nat /\ DOMAIN schedulerList = 1 .. Len(schedulerList)
  <2>1. processMap \subseteq Pid /\ schedulerList \in Seq(Pid)
    BY DEF IInv, TypeOK
  <2> QED
    BY <2>1
<1>2. schedulerIt \in Int
  BY <1>1 DEF IInv, TypeOK
<1>3. Flat' /\ Mapped' /\ Leaving' /\ Clients' /\ Kids'
  BY DEF FInv, Flat, Mapped, Leaving, Clients, Client, Kids, Live, Own
<1>4. Kin'
  <2> SUFFICES ASSUME NEW x \in processMap PROVE Child(x)'
    BY DEF Kin
  <2>1. Child(x)
    BY DEF FInv, Kin
  <2>2. \A y : Before(y, x) => Before(y, x)'
    BY DEF Before
  <2>3. \A y : Between(y, x) => Between(y, x)'
    BY <1>1, <1>2 DEF Between
  <2> QED
    BY <2>1, <2>2, <2>3 DEF Child, Live
<1> QED
  BY <1>3, <1>4 DEF FInv

\* A process that ends leaves its children to its parent, which lives.
LEMMA DestroyFamily ==
  ASSUME IInv, FInv, SwitchBack, ~contextSwitch
  PROVE  FInv'
<1>0. PICK p, h, k, D, R : /\ p = current /\ h = parent[p] /\ k = schedulerIt
                           /\ D = DeadKids(p) /\ R = Redirected(p)
  OBVIOUS
<1>1. /\ processMap \subseteq Pid /\ children \in [Pid -> SUBSET Pid] /\ schedulerList \in Seq(Pid)
      /\ Distinct(schedulerList) /\ processMap = Elems(schedulerList) /\ p \in Pid
      /\ \A x \in processMap : status[x] \notin Gone
      /\ threadList \in [Pid -> Seq(Pid)]
  BY <1>0 DEF IInv, TypeOK, Lists, FInv, Mapped
<1>2. DOMAIN schedulerList = 1 .. Len(schedulerList) /\ Len(schedulerList) \in Nat
  BY <1>1
<1>3. k \in DOMAIN schedulerList /\ schedulerList[k] = p /\ p \in processMap /\ k \in Int
      /\ mode = "switching"
  BY <1>0, <1>2, WhoRuns DEF SwitchBack
<1>4. /\ status[p] = "RUN" /\ making[p].stage = "none" /\ h # NO_PROCESS_ID
      /\ threadList[p] = <<>> /\ mainThread[p] = p
  BY <1>0, <1>1, <1>3 DEF FInv, Flat, Leaving
<1>5. /\ h \in processMap /\ Before(h, p) /\ Live(h) /\ p \in children[h] /\ h # p
  <2>1. Child(p)
    BY <1>3 DEF FInv, Kin
  <2>2. h \in processMap /\ Before(h, p) /\ Live(h) /\ p \in children[h]
    BY <1>0, <1>4, <2>1 DEF Child
  <2>3. ~ Before(p, p)
    BY <1>3 DEF Before
  <2> QED
    BY <2>2, <2>3
<1>6. /\ Threads(p) = {} /\ Destroyed(p) = {p} /\ ~Heirless(p) /\ ThreadKids(p) = {}
      /\ D = {x \in children[p] \cap processMap : status[x] = "TERMINATED"}
      /\ R = (children[p] \cap processMap) \ D
  <2>1. Threads(p) = {} /\ Destroyed(p) = {p} /\ ~Heirless(p)
    BY <1>0, <1>4, <1>5 DEF Threads, Destroyed, Heirless, Elems
  <2>2. KidsOf({p}) = children[p] \cap processMap /\ KidsOf({}) = {}
    BY DEF KidsOf
  <2> QED
    BY <1>0, <2>1, <2>2 DEF ThreadKids, DeadKids, Redirected
<1>7. /\ \A x \in Pid : status'[x] = IF x = p THEN "TERMINATED" ELSE IF x \in D THEN "RELEASED" ELSE status[x]
      /\ \A x \in Pid : parent'[x] = IF x \in R THEN h ELSE parent[x]
      /\ \A x \in Pid : children'[x] = children[x] \cup (IF x = h THEN R ELSE {})
      /\ threadList' = threadList /\ schedulerList' = schedulerList /\ processMap' = processMap
      /\ schedulerIt' = k + 1 /\ mode' = "scheduler"
      /\ UNCHANGED <<nextPid, mainThread, info, making, nextThread>>
  <2>1. Destroy(p) /\ mode' = "scheduler"
        /\ UNCHANGED <<nextPid, mainThread, info, making, nextThread>>
    BY <1>0 DEF SwitchBack
  <2>2. /\ status' = [q \in Pid |-> IF q = p THEN "TERMINATED"
                                    ELSE IF q \in D THEN "RELEASED" ELSE status[q]]
        /\ parent' = [q \in Pid |-> IF q \in R THEN h ELSE parent[q]]
        /\ children' = [q \in Pid |-> children[q] \cup (IF q = h THEN R ELSE {})
                                                  \cup (IF q = p THEN {} ELSE {})]
        /\ threadList' = [threadList EXCEPT ![p] = <<>>]
        /\ Advance(p, k, FALSE, {})
    BY <1>0, <1>4, <1>6, <2>1 DEF Destroy, IsThread
  <2>3. threadList' = threadList
    BY <1>1, <1>4, <2>2
  <2> QED
    BY <2>1, <2>2, <2>3 DEF Advance
<1>8. ASSUME NEW x \in children[p] \cap processMap
      PROVE  x \in Pid /\ x < nextPid /\ parent[x] = p /\ status[x] # "RELEASED" /\ x # p /\ Before(p, x)
  <2>1. Live(p)
    BY <1>3, <1>4 DEF Live, Finished
  <2>2. Own(p, x) /\ Child(x)
    BY <1>1, <1>8, <2>1 DEF FInv, Kids, Kin
  <2>3. p # NO_PROCESS_ID /\ parent[p] # p
    BY <1>0, <1>1, <1>5, PidIsNat
  <2> QED
    BY <1>1, <1>8, <2>2, <2>3 DEF Own, Child
<1>9. Flat' /\ Mapped' /\ Leaving'
  BY <1>7 DEF FInv, Flat, Mapped, Leaving
<1>10. Clients'
  <2> SUFFICES ASSUME NEW s \in Pid, making'[s].stage # "none" PROVE Client(s)'
    BY DEF Clients
  <2>1. Client(s) /\ making'[s] = making[s] /\ s # p
    BY <1>4, <1>7 DEF FInv, Clients
  <2>2. making[s].pid \in Pid /\ making[s].pid \notin processMap
    BY <1>7, <2>1, MidCreation DEF Client
  <2>3. parent'[making[s].pid] = parent[making[s].pid]
    BY <1>6, <1>7, <2>2
  <2>4. CASE making[s].client = NO_PROCESS_ID
    BY <1>7, <2>1, <2>3, <2>4 DEF Client
  <2>5. CASE making[s].client # NO_PROCESS_ID
    <3>1. PICK q \in Pid : q = making[s].client /\ q \in processMap
      BY <1>1, <2>1, <2>5 DEF Client
    <3>2. q # p /\ q \notin D
      BY <1>4, <1>6, <2>1, <2>5, <3>1 DEF Client
    <3>3. status'[q] = status[q] /\ children[q] \subseteq children'[q]
      BY <1>7, <3>2
    <3> QED
      BY <1>7, <2>1, <2>3, <2>5, <3>1, <3>3 DEF Client
  <2> QED
    BY <2>4, <2>5
<1>11. Live(h)' /\ h \in Pid
  BY <1>1, <1>5, <1>6, <1>7 DEF Live, Finished
<1>12. Kin'
  <2> SUFFICES ASSUME NEW x \in processMap PROVE Child(x)'
    BY <1>7 DEF Kin
  <2>1. Child(x) /\ x \in Pid
    BY <1>1 DEF FInv, Kin
  <2>2. \A y : Before(y, x) => Before(y, x)'
    BY <1>7 DEF Before
  <2>3. CASE x = p
    <3>1. parent'[x] = h /\ status'[x] = "TERMINATED" /\ x \in children'[h]
      BY <1>0, <1>1, <1>5, <1>7, <2>3
    <3> QED
      BY <1>4, <1>5, <1>7, <1>11, <2>2, <2>3, <3>1 DEF Child
  <2>4. CASE x \in R
    <3>1. /\ parent'[x] = h /\ status'[x] = status[x] /\ x \in children'[h]
          /\ status[x] # "RELEASED" /\ Before(p, x)
      BY <1>6, <1>7, <1>8, <1>11, <2>1, <2>4
    <3>2. Before(h, x)
      <4> SUFFICES ASSUME NEW i \in DOMAIN schedulerList, NEW j \in DOMAIN schedulerList,
                          schedulerList[i] = h, schedulerList[j] = x
                   PROVE  i < j
        BY DEF Before
      <4>1. i < k /\ k < j
        BY <1>3, <1>5, <3>1 DEF Before
      <4> QED
        BY <1>2, <1>3, <4>1
    <3> QED
      BY <1>4, <1>5, <1>7, <1>11, <2>2, <3>1, <3>2 DEF Child
  <2>5. CASE x \in D
    <3>1. /\ parent[x] = p /\ parent'[x] = p /\ status'[x] = "RELEASED" /\ Before(p, x)
          /\ p # NO_PROCESS_ID
      BY <1>1, <1>6, <1>7, <1>8, <2>1, <2>5, PidIsNat
    <3>2. Between(p, x)'
      <4> SUFFICES ASSUME NEW i \in DOMAIN schedulerList, NEW j \in DOMAIN schedulerList,
                          schedulerList[i] = p, schedulerList[j] = x
                   PROVE  i < k + 1 /\ k + 1 <= j
        BY <1>7 DEF Between
      <4>1. i < j /\ i = k
        BY <1>1, <1>3, <3>1 DEF Before, Distinct
      <4> QED
        BY <1>2, <4>1
    <3> QED
      BY <1>3, <1>7, <2>2, <3>1, <3>2 DEF Child
  <2>6. CASE x # p /\ x \notin R /\ x \notin D
    <3>1. parent'[x] = parent[x] /\ status'[x] = status[x]
      BY <1>7, <2>1, <2>6
    <3>2. ASSUME NEW y \in processMap, Live(y), x \in children[y]
          PROVE  Live(y)' /\ x \in children'[y]
      <4>1. y \in Pid /\ y # p /\ y \notin D
        BY <1>1, <1>6, <2>6, <3>2 DEF Live, Finished
      <4> QED
        BY <1>7, <3>2, <4>1 DEF Live
    <3>3. \A y : Between(y, x) => Between(y, x)'
      <4> SUFFICES ASSUME NEW y, NEW i \in DOMAIN schedulerList, NEW j \in DOMAIN schedulerList,
                          i <= k, k < j
                   PROVE  i < k + 1 /\ k + 1 <= j
        BY <1>0, <1>3, <1>7 DEF Between
      <4> QED
        BY <1>2, <1>3
    <3> QED
      BY <1>7, <2>1, <2>2, <3>1, <3>2, <3>3 DEF Child
  <2> QED
    BY <2>3, <2>4, <2>5, <2>6
<1>13. Kids'
  <2>1. ASSUME NEW y \in Pid, Live(y)', NEW x \in children'[y] PROVE Own(y, x)'
    <3>1. y # p /\ Live(y)
      BY <1>7, <2>1 DEF Live, Finished
    <3>2. CASE x \in R /\ y = h
      <4>1. /\ x \in Pid /\ x < nextPid /\ parent'[x] = h /\ status'[x] = status[x]
            /\ status[x] # "RELEASED"
        BY <1>6, <1>7, <1>8, <3>2
      <4> QED
        BY <1>7, <3>2, <4>1 DEF Own
    <3>3. CASE x \in children[y] /\ ~(x \in R /\ y = h)
      <4>1. Own(y, x) /\ x \in Pid
        BY <1>1, <3>1, <3>3 DEF FInv, Kids
      <4>2. x \notin R /\ x \notin D
        BY <1>6, <1>8, <3>1, <4>1 DEF Own
      <4>3. parent'[x] = parent[x] /\ (status'[x] = status[x] \/ status'[x] = "TERMINATED")
        BY <1>7, <4>1, <4>2
      <4> QED
        BY <1>7, <4>1, <4>3 DEF Own
    <3> QED
      BY <1>7, <2>1, <3>2, <3>3
  <2>2. ASSUME NEW y \in Pid, status'[y] \in {"UNUSED", "NEW"} PROVE children'[y] = {}
    <3>1. status[y] \in {"UNUSED", "NEW"}
      BY <1>7, <2>2
    <3>2. children[y] = {} /\ y # h
      BY <1>1, <1>5, <3>1 DEF FInv, Kids, Gone
    <3> QED
      BY <1>7, <3>2
  <2> QED
    BY <2>1, <2>2 DEF Kids
<1> QED
  BY <1>9, <1>10, <1>12, <1>13 DEF FInv

LEMMA SwitchBackFamily ==
  ASSUME IInv, FInv, SwitchBack
  PROVE  FInv'
<1>1. mode = "switching" /\ status[current] # "TERMINATED"
  BY DEF SwitchBack, FInv, Leaving, Runnable, Waiting
<1>2. CASE contextSwitch
  <2>1. Advance(current, schedulerIt, FALSE, {})
        /\ UNCHANGED <<status, parent, children, threadList>>
        /\ mode' = "scheduler" /\ UNCHANGED <<nextPid, mainThread, info, making, nextThread>>
    BY <1>1, <1>2 DEF SwitchBack
  <2>2. processMap' = processMap /\ schedulerList' = schedulerList /\ schedulerIt' = schedulerIt + 1
    BY <2>1 DEF Advance
  <2> QED
    BY <1>1, <2>1, <2>2, YieldFamily DEF treeVars
<1>3. CASE ~contextSwitch
  BY <1>3, DestroyFamily
<1> QED
  BY <1>2, <1>3

-----------------------------------------------------------------------------
LEMMA NextFamily ==
  ASSUME {"thread", "kill"} \cap Calls = {}, IInv, FInv, [Next]_vars
  PROVE  FInv'
<1>1. "thread" \notin Calls /\ "kill" \notin Calls
  OBVIOUS
<1>2. ASSUME NEW p \in Pid, Creation(p) PROVE FInv'
  <2>1. \A s \in Pid : making[s].stage \notin {"threadBegun", "threadAttached"}
    BY DEF FInv, Clients, Client
  <2>2. ~ AttachThread(p) /\ ~ PublishThread(p) /\ ThreadClients(p) = {}
    BY <1>1, <2>1 DEF AttachThread, PublishThread, ThreadClients
  <2> QED
    BY <1>2, <2>2, BeginFamily, FailFamily, LinkFamily, PublishFamily DEF Creation
<1>3. CASE UNCHANGED vars
  <2>1. /\ UNCHANGED <<nextPid, treeVars, listVars, making, schedulerIt, current, status, info>>
        /\ mode' = mode /\ contextSwitch' = contextSwitch
    BY <1>3 DEF vars, cpuVars
  <2> QED
    BY <2>1, StillStep DEF FInv, Leaving
<1>4. CASE Next
  <2>1. ASSUME NEW p \in Pid, Call(p) PROVE FInv'
    BY <1>1, <1>2, <2>1, QuietCalls DEF Call
  <2> QED
    BY <1>1, <1>4, <2>1, ScheduleFamily, SwitchBackFamily, QuietCalls DEF Next
<1> QED
  BY <1>3, <1>4

(***************************************************************************)
(* FamilyIntact: whatever order parents and children end in, no process    *)
(* is left with a parent that is gone, and no zombie without a living      *)
(* parent that knows it (SchedulableProcess::Destroy).                     *)
(***************************************************************************)
THEOREM FamilyStaysIntact ==
  ASSUME {"thread", "kill"} \cap Calls = {}
  PROVE  Spec => []FamilyIntact
<1>1. IInv /\ FInv /\ [Next]_vars => FInv'
  BY NextFamily
<1>2. IInv /\ FInv => FamilyIntact
  BY FamilyFromInvariant
<1> QED
  BY <1>1, <1>2, InitFamily, Invariance, PTL DEF Spec

=============================================================================
