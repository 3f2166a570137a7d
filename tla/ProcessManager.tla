---------------------------- MODULE ProcessManager ----------------------------
(***************************************************************************)
(* The process table and the round-robin scheduler of the kernel:          *)
(* process/ProcessManager.cpp, SchedulableProcess.cpp,                     *)
(* AutonomousProcess.cpp, Thread.cpp, ProcessGroup.cpp.                    *)
(*                                                                         *)
(* One processor.  Control alternates between the scheduler loop and the   *)
(* process it dispatched; a kernel call is a sequence of steps between     *)
(* which the PIT may take the processor away (PIT_Handler), unless the     *)
(* code holds a ProcessSwitchLock, in which case the calls under the lock  *)
(* are one step.                                                           *)
(*                                                                         *)
(* A definition named Faulty... is the one after it with a single fault;   *)
(* no specification uses it, it shows what the properties would catch.     *)
(***************************************************************************)
EXTENDS Integers, Sequences, FiniteSets, SequencesExt

CONSTANTS
  NPid,            \* process ids the instance may hand out (_nextPid is bounded by it)
  MAX_NO_PROCESS,  \* capacity of _processMap
  Irq,             \* interrupt lines a process can wait on
  KEYBOARD_IRQ,    \* the line that only wakes the foreground process
  Resource,        \* RESOURCE_KEYS other than RESOURCE_NIL
  MaxSleep,        \* longest Sleep() of the instance, in clock ticks
  MaxSignal,       \* bound on the interrupts counted and not consumed
  Calls,           \* the kernel calls the processes of the instance make
  FGChoices        \* the values isFGProcess takes at creation

Pid == 0 .. NPid - 1
NO_PROCESS_ID == -1
RESOURCE_NIL == "nil"
NO_IRQ == "no_irq"
END == 0                   \* end() of a list
UpanixKernelPID == 0       \* "kerparent", set by UpanixMain_KernelProcess

ASSUME NPidAssumption == NPid \in Nat \ {0}
ASSUME MaxAssumption == MAX_NO_PROCESS \in Nat \ {0}
ASSUME BoundAssumption == MaxSleep \in Nat /\ MaxSignal \in Nat
ASSUME LineAssumption == NO_IRQ \notin Irq /\ RESOURCE_NIL \notin Resource
ASSUME FGAssumption == FGChoices \subseteq BOOLEAN

VARIABLES
  nextPid,       \* SchedulableProcess::_nextPid
  processMap,    \* keys of _processMap
  schedulerList, \* _processSchedulerList, process ids
  schedulerIt,   \* position of the iterator of StartScheduler
  status,        \* PROCESS_STATUS; "UNUSED" before the id is handed out, "DELETED" after delete
  parent,        \* _parentProcessID
  children,      \* _childProcessIDs
  mainThread,    \* _mainThreadID
  threadList,    \* _threadSchedulerList of an autonomous process
  nextThread,    \* _nextThreadIt, a position of threadList or END
  held,          \* processes whose stack and address space are allocated
  group,         \* _processGroup, named by the process that founded it
  groupSize,     \* _iProcessCount of each group
  fgList,        \* _fgProcessList of each group
  fgGroup,       \* ProcessGroup::_fgProcessGroup
  info,          \* ProcessStateInfo
  making,        \* the creation a process is in the middle of
  current,       \* _currentProcessID
  mode,          \* who has the processor
  contextSwitch, \* PIT Process_bContextSwitch
  irqCount,      \* interrupts signalled and not consumed, per line
  resourceList   \* _resourceList, TRUE is busy

treeVars  == <<parent, children, mainThread>>
groupVars == <<group, groupSize, fgList, fgGroup>>
listVars  == <<processMap, schedulerList, threadList, nextThread>>
lineVars  == <<irqCount, resourceList>>
cpuVars   == <<current, mode, contextSwitch>>
vars == <<nextPid, schedulerIt, status, held, info, making,
          treeVars, groupVars, listVars, lineVars, cpuVars>>

Elems(s) == {s[i] : i \in DOMAIN s}
Distinct(s) == \A i, j \in DOMAIN s : s[i] = s[j] => i = j
IndexIn(s, x) == CHOOSE i \in DOMAIN s : s[i] = x
Removed(s, x) == IF x \in Elems(s) THEN RemoveAt(s, IndexIn(s, x)) ELSE s

Waiting == {"WAIT_SLEEP", "WAIT_INT", "WAIT_EVENT", "WAIT_CHILD",
            "WAIT_RESOURCE", "WAIT_KERNEL_SERVICE"}
Finished == {"TERMINATED", "RELEASED"}
Status == Waiting \cup Finished \cup {"UNUSED", "NEW", "RUN", "DELETED"}

StateInfo == [sleep: 0 .. MaxSleep, irq: Irq \cup {NO_IRQ},
              child: Pid \cup {NO_PROCESS_ID},
              resource: Resource \cup {RESOURCE_NIL},
              event: BOOLEAN, service: BOOLEAN]
NewInfo == [sleep |-> 0, irq |-> NO_IRQ, child |-> NO_PROCESS_ID,
            resource |-> RESOURCE_NIL, event |-> FALSE, service |-> FALSE]

\* The steps of ProcessManager::CreateKernelProcess, Create and CreateThreadTask.
Stage == {"none", "begun", "linked", "threadBegun", "threadAttached"}
Making == [stage: Stage, pid: Pid \cup {NO_PROCESS_ID}, client: Pid \cup {NO_PROCESS_ID}]
NotMaking == [stage |-> "none", pid |-> NO_PROCESS_ID, client |-> NO_PROCESS_ID]

IsThread(p) == mainThread[p] # p      \* isChildThread()

-----------------------------------------------------------------------------
(* The root process is created and dispatched before any other exists.     *)

Init ==
  /\ nextPid = 1
  /\ processMap = {0} /\ schedulerList = <<0>> /\ schedulerIt = 1
  /\ status = [p \in Pid |-> IF p = 0 THEN "RUN" ELSE "UNUSED"]
  /\ parent = [p \in Pid |-> NO_PROCESS_ID]
  /\ children = [p \in Pid |-> {}]
  /\ mainThread = [p \in Pid |-> p]
  /\ threadList = [p \in Pid |-> <<>>]
  /\ nextThread = [p \in Pid |-> END]
  /\ held = {0}
  /\ group = [p \in Pid |-> p]
  /\ groupSize = [g \in Pid |-> IF g = 0 THEN 1 ELSE 0]
  /\ fgList = [g \in Pid |-> IF g = 0 THEN <<0>> ELSE <<>>]
  /\ fgGroup = 0
  /\ info = [p \in Pid |-> NewInfo]
  /\ making = [p \in Pid |-> NotMaking]
  /\ current = 0 /\ mode = "process" /\ contextSwitch = FALSE
  /\ irqCount = [i \in Irq |-> 0]
  /\ resourceList = [r \in Resource |-> FALSE]

-----------------------------------------------------------------------------
(* Creation.  The parent is the creator itself, nobody (a session), or a   *)
(* client that waits for a kernel service, a child of the root, to create  *)
(* on its behalf; threads create, and are created, only that way.           *)

Running(p) == mode = "process" /\ current = p /\ making[p] = NotMaking
Serves(p, q) == /\ parent[p] = UpanixKernelPID
                /\ q \in processMap /\ status[q] = "WAIT_KERNEL_SERVICE"
                /\ ~info[q].service
                /\ \A s \in Pid : making[s].client # q

ParentChoices(p) ==
  (IF "spawn" \in Calls /\ ~IsThread(p) THEN {p} ELSE {})
    \cup (IF "session" \in Calls THEN {NO_PROCESS_ID} ELSE {})
    \cup (IF "exec" \in Calls THEN {q \in Pid : Serves(p, q)} ELSE {})

ThreadClients(p) == IF "thread" \in Calls THEN {q \in Pid : Serves(p, q)} ELSE {}

\* SchedulableProcess constructor: the id, the parent's group or a new one,
\* the group count and the foreground list.
Construct(c, par, main, fg) ==
  LET orphan == par \notin processMap
      g      == IF orphan THEN c ELSE group[par]
  IN /\ nextPid' = nextPid + 1
     /\ status' = [status EXCEPT ![c] = "NEW"]
     /\ parent' = [parent EXCEPT ![c] = par]
     /\ mainThread' = [mainThread EXCEPT ![c] = main]
     /\ group' = [group EXCEPT ![c] = g]
     /\ groupSize' = [groupSize EXCEPT ![g] = @ + 1]
     /\ fgList' = [fgList EXCEPT ![g] = IF fg THEN <<c>> \o @ ELSE @]
     /\ fgGroup' = IF orphan /\ fg THEN c ELSE fgGroup

BeginProcess(p, par, fg) ==
  LET c == nextPid IN
  /\ Running(p) /\ c < NPid
  /\ Construct(c, par, c, fg)
  /\ making' = [making EXCEPT ![p] = [stage |-> "begun", pid |-> c, client |-> par]]
  /\ UNCHANGED <<schedulerIt, held, info, children, listVars, lineVars, cpuVars>>

\* UserProcess::Load or AllocateAddressSpace throws: Create reports -1 and
\* the half-built object is destroyed.
FailCreation(p) ==
  LET c == making[p].pid IN
  /\ "fail" \in Calls
  /\ mode = "process" /\ current = p /\ making[p].stage \in {"begun", "threadBegun"}
  /\ status' = [status EXCEPT ![c] = "DELETED"]
  /\ making' = [making EXCEPT ![p] = NotMaking]
  /\ UNCHANGED <<nextPid, schedulerIt, held, info, treeVars, groupVars,
                 listVars, lineVars, cpuVars>>

FaultyLinkUnknown(p) ==        \* without addChildProcessID
  /\ mode = "process" /\ current = p /\ making[p].stage = "begun"
  /\ held' = held \cup {making[p].pid}
  /\ making' = [making EXCEPT ![p].stage = "linked"]
  /\ UNCHANGED <<nextPid, schedulerIt, status, info, treeVars,
                 groupVars, listVars, lineVars, cpuVars>>
\* The rest of the KernelProcess and UserProcess constructors.
LinkProcess(p) ==
  LET c == making[p].pid
      par == parent[c]
  IN
  /\ mode = "process" /\ current = p /\ making[p].stage = "begun"
  /\ held' = held \cup {c}
  /\ children' = IF par \in processMap
                 THEN [children EXCEPT ![par] = @ \cup {c}] ELSE children
  /\ making' = [making EXCEPT ![p].stage = "linked"]
  /\ UNCHANGED <<nextPid, schedulerIt, status, info, parent, mainThread,
                 groupVars, listVars, lineVars, cpuVars>>

FaultyMapFull == Cardinality(processMap) > MAX_NO_PROCESS
MapFull == Cardinality(processMap) + 1 > MAX_NO_PROCESS

\* AddToSchedulerList; AddToProcessMap throws when the map is full, after
\* the owning pointer was released.
PublishProcess(p) ==
  LET c == making[p].pid IN
  /\ mode = "process" /\ current = p /\ making[p].stage = "linked"
  /\ making' = [making EXCEPT ![p] = NotMaking]
  /\ IF MapFull
     THEN UNCHANGED <<processMap, schedulerList, status>>
     ELSE /\ processMap' = processMap \cup {c}
          /\ schedulerList' = Append(schedulerList, c)
          /\ status' = [status EXCEPT ![c] = "RUN"]
  /\ UNCHANGED <<nextPid, schedulerIt, held, info, treeVars, groupVars,
                 threadList, nextThread, lineVars, cpuVars>>

\* GetThreadParentProcess, then the Thread constructor.
BeginThread(p, q) ==
  LET c == nextPid IN
  /\ Running(p) /\ c < NPid
  /\ Construct(c, mainThread[q], mainThread[q], FALSE)
  /\ making' = [making EXCEPT ![p] = [stage |-> "threadBegun", pid |-> c, client |-> q]]
  /\ UNCHANGED <<schedulerIt, held, info, children, listVars, lineVars, cpuVars>>

FaultyAttachThread(p) ==       \* runnable before it has a stack
  LET c == making[p].pid IN
  /\ mode = "process" /\ current = p /\ making[p].stage = "threadBegun"
  /\ threadList' = [threadList EXCEPT ![mainThread[c]] = Append(@, c)]
  /\ status' = [status EXCEPT ![c] = "RUN"]
  /\ making' = [making EXCEPT ![p].stage = "threadAttached"]
  /\ UNCHANGED <<nextPid, schedulerIt, held, info, treeVars, groupVars,
                 processMap, schedulerList, nextThread, lineVars, cpuVars>>
\* The stack is allocated and addToThreadScheduler makes the thread runnable.
AttachThread(p) ==
  LET c == making[p].pid
      m == mainThread[c]
  IN
  /\ mode = "process" /\ current = p /\ making[p].stage = "threadBegun"
  /\ held' = held \cup {c}
  /\ threadList' = [threadList EXCEPT ![m] = Append(@, c)]
  /\ status' = [status EXCEPT ![c] = "RUN"]
  /\ making' = [making EXCEPT ![p].stage = "threadAttached"]
  /\ UNCHANGED <<nextPid, schedulerIt, info, treeVars, groupVars,
                 processMap, schedulerList, nextThread, lineVars, cpuVars>>

\* AddToProcessMap of a thread that may already be scheduled.
PublishThread(p) ==
  /\ mode = "process" /\ current = p /\ making[p].stage = "threadAttached"
  /\ making' = [making EXCEPT ![p] = NotMaking]
  /\ processMap' = IF MapFull THEN processMap ELSE processMap \cup {making[p].pid}
  /\ UNCHANGED <<nextPid, schedulerIt, status, held, info, treeVars, groupVars,
                 schedulerList, threadList, nextThread, lineVars, cpuVars>>

-----------------------------------------------------------------------------
(* Kernel calls of the running process that end its time slice.            *)

\* ProcessManager_Yield and PIT_Handler both set the context switch flag;
\* a preempted process may be in the middle of a creation.
LeaveProcessor(flag) ==
  /\ mode' = "switching"
  /\ contextSwitch' = flag
  /\ UNCHANGED <<nextPid, schedulerIt, held, making, current,
                 treeVars, groupVars, listVars>>

Preempt ==
  /\ mode = "process"
  /\ LeaveProcessor(TRUE)
  /\ UNCHANGED <<status, info, lineVars>>

\* UpanixMain_KernelProcess and SessionManager_StartSession never return.
Exit(p) ==
  /\ "exit" \in Calls
  /\ Running(p) /\ parent[p] # NO_PROCESS_ID
  /\ LeaveProcessor(FALSE)
  /\ UNCHANGED <<status, info, lineVars>>

\* A wait writes the ProcessStateInfo, then the status, then yields, with
\* task switching disabled; GetCurrentPAS needs p in the map.
StartWait(p, call, newStatus, newInfo) ==
  /\ call \in Calls
  /\ Running(p) /\ p \in processMap
  /\ info' = [info EXCEPT ![p] = newInfo]
  /\ status' = [status EXCEPT ![p] = newStatus]
  /\ LeaveProcessor(TRUE)
  /\ UNCHANGED lineVars

Sleep(p, t) ==
  StartWait(p, "sleep", "WAIT_SLEEP", [info[p] EXCEPT !.sleep = t])
WaitOnInterrupt(p, i) ==
  StartWait(p, "interrupt", "WAIT_INT", [info[p] EXCEPT !.irq = i])
WaitForEvent(p) ==
  StartWait(p, "event", "WAIT_EVENT", info[p])
WaitOnChild(p, c) ==
  /\ c < MAX_NO_PROCESS
  /\ StartWait(p, "wait", "WAIT_CHILD", [info[p] EXCEPT !.child = c])
WaitOnResource(p, r) ==
  /\ resourceList[r]
  /\ StartWait(p, "resource", "WAIT_RESOURCE", [info[p] EXCEPT !.resource = r])
WaitOnKernelService(p) ==
  StartWait(p, "service", "WAIT_KERNEL_SERVICE", [info[p] EXCEPT !.service = FALSE])

\* Called by KernelService::Stop for a server, which is a child of the root.
Kill(p, q) ==
  /\ "kill" \in Calls
  /\ Running(p) /\ q \in processMap /\ parent[q] = UpanixKernelPID
  /\ status' = [status EXCEPT ![q] = "TERMINATED"]
  /\ LeaveProcessor(TRUE)
  /\ UNCHANGED <<info, lineVars>>

-----------------------------------------------------------------------------
(* Calls that leave the caller running, and the interrupt handlers.        *)

KeepProcessor == UNCHANGED <<nextPid, schedulerIt, status, held, making,
                             treeVars, groupVars, listVars, cpuVars>>

SetResourceBusy(p, r, busy) ==
  /\ "resource" \in Calls
  /\ Running(p) /\ resourceList[r] # busy
  /\ resourceList' = [resourceList EXCEPT ![r] = busy]
  /\ UNCHANGED <<info, irqCount>>
  /\ KeepProcessor

WakeUpFromKSWait(p, q) ==
  /\ "service" \in Calls
  /\ Running(p) /\ Serves(p, q)
  /\ info' = [info EXCEPT ![q].service = TRUE]
  /\ UNCHANGED lineVars
  /\ KeepProcessor

\* EventCompleted is called by the interrupt handler of a device.
EventCompleted(q) ==
  /\ "event" \in Calls
  /\ q \in processMap /\ ~info[q].event
  /\ info' = [info EXCEPT ![q].event = TRUE]
  /\ UNCHANGED lineVars
  /\ KeepProcessor

SignalIrq(i) ==
  /\ "interrupt" \in Calls
  /\ irqCount[i] < MaxSignal
  /\ irqCount' = [irqCount EXCEPT ![i] = @ + 1]
  /\ UNCHANGED <<info, resourceList>>
  /\ KeepProcessor

\* One tick of the PIT clock, seen as the time every sleeper has left.
ClockTick ==
  /\ \E q \in Pid : info[q].sleep > 0
  /\ info' = [q \in Pid |-> [info[q] EXCEPT !.sleep = IF @ > 0 THEN @ - 1 ELSE 0]]
  /\ UNCHANGED lineVars
  /\ KeepProcessor

\* KeyboardHandler: a function key shows the group of a session.
SwitchToFG(p) ==
  /\ "session" \in Calls
  /\ p \in processMap /\ parent[p] = NO_PROCESS_ID /\ fgGroup # group[p]
  /\ fgGroup' = group[p]
  /\ UNCHANGED <<nextPid, schedulerIt, status, held, info, making, treeVars,
                 group, groupSize, fgList, listVars, lineVars, cpuVars>>

-----------------------------------------------------------------------------
(* AutonomousProcess::forSchedule: the main process, or its next thread    *)
(* after the released threads in the way are erased.                       *)

AtMain(m) == status[m] \in Finished \/ nextThread[m] = END

\* The k-th thread from the iterator on, first those behind it, then from begin().
Visited(m, k) ==
  LET i == nextThread[m] + k
      n == Len(threadList[m])
  IN threadList[m][IF i > n THEN i - n ELSE i]
\* How many released threads come before the first that is not.
Passed(m) ==
  LET n    == Len(threadList[m])
      live == {k \in 0 .. n - 1 : status[Visited(m, k)] # "RELEASED"}
  IN IF AtMain(m) THEN 0 ELSE IF live = {} THEN n ELSE Min(live)
Erased(m) == {Visited(m, k) : k \in 0 .. Passed(m) - 1}
Kept(m) ==
  LET s == threadList[m]
      n == Len(s)
      i == nextThread[m] + Passed(m)     \* one after the last erased
  IN IF Passed(m) = 0 THEN s
     ELSE IF i <= n + 1 THEN SubSeq(s, 1, nextThread[m] - 1) \o SubSeq(s, i, n)
     ELSE SubSeq(s, i - n, nextThread[m] - 1)
ToMain(m) == AtMain(m) \/ Passed(m) = Len(threadList[m])
Picked(m) == IF ToMain(m) THEN m ELSE Visited(m, Passed(m))
\* Behind the picked thread in the list that is left.
NextThread(m) ==
  LET i == IF nextThread[m] + Passed(m) <= Len(threadList[m]) THEN nextThread[m] + 1 ELSE 2
  IN IF status[m] \in Finished THEN nextThread[m]
     ELSE IF ToMain(m) THEN IF Kept(m) = <<>> THEN END ELSE 1
     ELSE IF i > Len(Kept(m)) THEN END ELSE i

(* The switch statement of DoContextSwitch.                                *)

ChildGone(p) == LET c == info[p].child IN c \notin processMap \/ parent[c] # p
FaultyChildBlocked(p) == status[info[p].child] # "RUN"
FaultyChildReleased(p) == status[info[p].child] = "RELEASED"
ChildTerminated(p) == status[info[p].child] = "TERMINATED"
IsForeground(p) ==
  /\ fgList[group[p]] # <<>> /\ Head(fgList[group[p]]) = p
  /\ fgGroup = group[p]

MayRun(p) ==
  \/ status[p] = "RUN"
  \/ status[p] = "WAIT_SLEEP" /\ info[p].sleep = 0
  \/ /\ status[p] = "WAIT_INT"
     /\ irqCount[info[p].irq] > 0
     /\ info[p].irq = KEYBOARD_IRQ => IsForeground(p)
  \/ status[p] = "WAIT_EVENT" /\ info[p].event
  \/ status[p] = "WAIT_CHILD" /\ (ChildGone(p) \/ ChildTerminated(p))
  \/ status[p] = "WAIT_RESOURCE" /\ ~resourceList[info[p].resource]
  \/ status[p] = "WAIT_KERNEL_SERVICE" /\ info[p].service

\* What the status case resets before the process runs.
Resumed(p) ==
  CASE status[p] = "WAIT_EVENT" -> [info[p] EXCEPT !.event = FALSE]
    [] status[p] = "WAIT_CHILD" -> [info[p] EXCEPT !.child = NO_PROCESS_ID]
    [] status[p] = "WAIT_RESOURCE" -> [info[p] EXCEPT !.resource = RESOURCE_NIL]
    [] status[p] = "WAIT_KERNEL_SERVICE" -> [info[p] EXCEPT !.service = FALSE]
    [] OTHER -> info[p]

\* A terminated child of the root is released without being waited for.
Reaped(p) == IF status[p] = "TERMINATED" /\ parent[p] = UpanixKernelPID
             THEN "RELEASED" ELSE status[p]

\* StartScheduler after DoContextSwitch: the iterator moves on, a released
\* autonomous process leaves the list and the map and is deleted.  gone are
\* the threads forSchedule erased.
FaultyNextIt == 1
NextIt == IF schedulerIt > Len(schedulerList) THEN 1 ELSE schedulerIt
FaultyAdvanceSkips(p, it, released, gone) ==   \* moves on past an erased entry
  /\ schedulerList' = IF released /\ ~IsThread(p)
                      THEN RemoveAt(schedulerList, it) ELSE schedulerList
  /\ processMap' = processMap \ (gone \cup (IF released /\ ~IsThread(p) THEN {p} ELSE {}))
  /\ schedulerIt' = it + 1
FaultyAdvanceKeeps(p, it, released, gone) ==   \* without the erase
  /\ processMap' = processMap \ (gone \cup (IF released /\ ~IsThread(p) THEN {p} ELSE {}))
  /\ schedulerIt' = it + 1
  /\ UNCHANGED schedulerList
Advance(p, it, released, gone) ==
  IF released /\ ~IsThread(p)
  THEN /\ schedulerList' = RemoveAt(schedulerList, it)
       /\ processMap' = processMap \ ({p} \cup gone)
       /\ schedulerIt' = it
  ELSE /\ processMap' = processMap \ gone
       /\ schedulerIt' = it + 1
       /\ UNCHANGED schedulerList

\* The picked process does not run this time round.
PassOver(m, p) ==
  LET after == Reaped(p)
      gone  == Erased(m)
  IN
  /\ ~MayRun(p)
  /\ status' = [q \in Pid |->
       IF q \in gone \/ (q = p /\ after = "RELEASED" /\ ~IsThread(p)) THEN "DELETED"
       ELSE IF q = p THEN after ELSE status[q]]
  /\ Advance(p, NextIt, after = "RELEASED", gone)
  /\ UNCHANGED <<info, children, irqCount, mode, contextSwitch>>

\* IRQ::Consume of the interrupt p waited for.
FaultyConsume(p) ==
  IF status[p] = "WAIT_INT" THEN [irqCount EXCEPT ![info[p].irq] = 0] ELSE irqCount
Consume(p) ==
  IF status[p] = "WAIT_INT" THEN [irqCount EXCEPT ![info[p].irq] = @ - 1] ELSE irqCount

\* The picked process is loaded and gets the processor; a terminated child
\* it waited for is released.
Dispatch(m, p) ==
  LET joins == status[p] = "WAIT_CHILD"
      c     == info[p].child
      gone  == Erased(m)
  IN
  /\ MayRun(p)
  /\ status' = [q \in Pid |->
       IF q \in gone THEN "DELETED"
       ELSE IF q = p THEN "RUN"
       ELSE IF joins /\ q = c /\ ~ChildGone(p) THEN "RELEASED" ELSE status[q]]
  /\ info' = [info EXCEPT ![p] = Resumed(p)]
  /\ children' = IF joins THEN [children EXCEPT ![p] = @ \ {c}] ELSE children
  /\ irqCount' = Consume(p)
  /\ processMap' = processMap \ gone
  /\ mode' = "process" /\ contextSwitch' = FALSE
  /\ schedulerIt' = NextIt
  /\ UNCHANGED schedulerList

Schedule ==
  /\ mode = "scheduler" /\ schedulerList # <<>>
  /\ LET m == schedulerList[NextIt]
         p == Picked(m)
     IN /\ threadList' = [threadList EXCEPT ![m] = Kept(m)]
        /\ nextThread' = [nextThread EXCEPT ![m] = NextThread(m)]
        /\ current' = p
        /\ PassOver(m, p) \/ Dispatch(m, p)
  /\ UNCHANGED <<nextPid, parent, mainThread, held, making, groupVars, resourceList>>

-----------------------------------------------------------------------------
(* SchedulableProcess::Destroy of p, with the threads it destroys first.   *)

Threads(p) == IF IsThread(p) THEN {} ELSE Elems(threadList[p])
FaultyDestroyed(p) == {p} \cup Threads(p)
Destroyed(p) == {p} \cup {t \in Threads(p) : status[t] \notin Finished}
KidsOf(S) == (UNION {children[q] : q \in S}) \cap processMap
FaultyDeadKids(p) == KidsOf(Destroyed(p))
DeadKids(p) == {c \in KidsOf(Destroyed(p)) : status[c] = "TERMINATED"}
\* Children of the threads go to p first, then with p's own to p's parent.
ThreadKids(p) == KidsOf(Destroyed(p) \ {p}) \ DeadKids(p)
Heirless(p) == parent[p] \notin processMap
FaultyRedirected(p) == ThreadKids(p)
Redirected(p) == IF Heirless(p) THEN ThreadKids(p) ELSE KidsOf(Destroyed(p)) \ DeadKids(p)
FaultyRemoveFromFG(p) == fgList
RemoveFromFGProcessList(p) == [fgList EXCEPT ![group[p]] = Removed(@, p)]

Destroy(p) ==
  LET heir     == IF Heirless(p) THEN p ELSE parent[p]
      released == parent[p] = NO_PROCESS_ID
      deleted  == Threads(p) \cup (IF released /\ ~IsThread(p) THEN {p} ELSE {})
  IN
  /\ status' = [q \in Pid |->
       IF q \in deleted THEN "DELETED"
       ELSE IF q = p THEN IF released THEN "RELEASED" ELSE "TERMINATED"
       ELSE IF q \in DeadKids(p) THEN "RELEASED" ELSE status[q]]
  /\ parent' = [q \in Pid |-> IF q \in Redirected(p) THEN heir ELSE parent[q]]
  /\ children' = [q \in Pid |->
       children[q] \cup (IF q = heir THEN Redirected(p) ELSE {})
                   \cup (IF q = p THEN ThreadKids(p) ELSE {})]
  /\ held' = held \ Destroyed(p)
  /\ groupSize' = [g \in Pid |->
       groupSize[g] - Cardinality({q \in Destroyed(p) : group[q] = g})]
  /\ fgList' = RemoveFromFGProcessList(p)
  /\ threadList' = IF IsThread(p) THEN threadList ELSE [threadList EXCEPT ![p] = <<>>]
  /\ Advance(p, schedulerIt, released, Threads(p))

\* DoContextSwitch after the process gave the processor back: it ends if it
\* did not ask for a context switch or was terminated meanwhile.
SwitchBack ==
  LET p == current IN
  /\ mode = "switching"
  /\ IF ~contextSwitch \/ status[p] = "TERMINATED"
     THEN Destroy(p)
     ELSE /\ Advance(p, schedulerIt, FALSE, {})
          /\ UNCHANGED <<status, parent, children, held, groupSize, fgList, threadList>>
  /\ mode' = "scheduler"
  /\ UNCHANGED <<nextPid, mainThread, info, making, nextThread, group, fgGroup,
                 current, contextSwitch, lineVars>>

-----------------------------------------------------------------------------
Creation(p) ==
  \/ \E par \in ParentChoices(p), fg \in FGChoices : BeginProcess(p, par, fg)
  \/ \E q \in ThreadClients(p) : BeginThread(p, q)
  \/ FailCreation(p)
  \/ LinkProcess(p)
  \/ PublishProcess(p)
  \/ AttachThread(p)
  \/ PublishThread(p)

Wait(p) ==
  \/ \E t \in 1 .. MaxSleep : Sleep(p, t)
  \/ \E i \in Irq : WaitOnInterrupt(p, i)
  \/ WaitForEvent(p)
  \/ \E c \in Pid : WaitOnChild(p, c)
  \/ \E r \in Resource : WaitOnResource(p, r)
  \/ WaitOnKernelService(p)

Call(p) ==
  \/ Creation(p)
  \/ Wait(p)
  \/ Exit(p)
  \/ \E q \in Pid : Kill(p, q)
  \/ \E r \in Resource, busy \in BOOLEAN : SetResourceBusy(p, r, busy)
  \/ \E q \in Pid : WakeUpFromKSWait(p, q)

Interrupt ==
  \/ \E q \in Pid : EventCompleted(q)
  \/ \E i \in Irq : SignalIrq(i)
  \/ ClockTick
  \/ \E p \in Pid : SwitchToFG(p)

Next ==
  \/ Schedule
  \/ SwitchBack
  \/ Preempt
  \/ \E p \in Pid : Call(p)
  \/ Interrupt

\* The scheduler loop never blocks and the PIT interrupts every process.
Fairness == WF_vars(Schedule) /\ WF_vars(SwitchBack) /\ WF_vars(Preempt)

Spec == Init /\ [][Next]_vars
FairSpec == Spec /\ Fairness
-----------------------------------------------------------------------------
(* Properties                                                              *)

TypeOK ==
  /\ nextPid \in 0 .. NPid
  /\ processMap \subseteq Pid
  /\ schedulerList \in Seq(Pid)
  /\ schedulerIt \in 1 .. Len(schedulerList) + 1
  /\ status \in [Pid -> Status]
  /\ parent \in [Pid -> Pid \cup {NO_PROCESS_ID}]
  /\ children \in [Pid -> SUBSET Pid]
  /\ mainThread \in [Pid -> Pid]
  /\ threadList \in [Pid -> Seq(Pid)]
  /\ nextThread \in [Pid -> Nat]
  /\ held \subseteq Pid
  /\ group \in [Pid -> Pid]
  /\ groupSize \in [Pid -> Int]
  /\ fgList \in [Pid -> Seq(Pid)]
  /\ fgGroup \in Pid
  /\ info \in [Pid -> StateInfo]
  /\ making \in [Pid -> Making]
  /\ current \in Pid
  /\ mode \in {"scheduler", "process", "switching"}
  /\ contextSwitch \in BOOLEAN
  /\ irqCount \in [Irq -> 0 .. MaxSignal]
  /\ resourceList \in [Resource -> BOOLEAN]

Exists(p) == status[p] \notin {"UNUSED", "DELETED"}

\* The processor is never given to a process whose stack and address space
\* are already back in the free pool, nor to a deleted one (DoContextSwitch
\* after Destroy and DestroyThreads).
RunningOwnsMemory ==
  mode # "scheduler" => current \in held /\ Exists(current)

\* The stack and the address space of a released process have been given
\* back (SchedulableProcess rule 6: what a terminated process leaves).
ReleasedHoldsNothing ==
  \A p \in Pid : status[p] \in {"RELEASED", "DELETED"} => p \notin held

\* Both: memory is there as long as a process may run, and not longer.
MemoryFollowsLife == RunningOwnsMemory /\ ReleasedHoldsNothing

\* StartScheduler and forSchedule dereference what the lists hold: no list
\* entry of the scheduler, or of a listed process, is a deleted object, and
\* no process is listed twice.
ListsHoldLiveObjects ==
  /\ Distinct(schedulerList)
  /\ \A m \in Elems(schedulerList) :
       /\ Exists(m) /\ m \in processMap
       /\ Distinct(threadList[m])
       /\ \A t \in Elems(threadList[m]) : Exists(t) /\ mainThread[t] = m

\* The shared process group is not deleted while a process uses it: its
\* count never drops below the number of its users ("managed like a
\* shared_ptr").  Failed creations leave it too high, never too low.
GroupOutlivesUsers ==
  \A g \in Pid : groupSize[g] >= Cardinality({p \in Pid :
                    group[p] = g /\ (status[p] = "NEW" \/ p \in held)})

\* Destroy redirects the children of a process that ends: no process in the
\* map has a deleted process for its parent.  One created on behalf of a
\* thread may, because threads are destroyed while they wait.
ParentExists ==
  \A p \in processMap :
    LET par == parent[p] IN
    par # NO_PROCESS_ID /\ ~IsThread(par) => Exists(par)

\* A terminated process is a zombie somebody can still release: its parent
\* is alive and knows it as a child, or as one of its threads.
ZombieHasParent ==
  \A z \in processMap :
    status[z] = "TERMINATED" =>
      LET p == parent[z] IN
      /\ p \in processMap /\ status[p] \notin Finished
      /\ z \in children[p] \cup Elems(threadList[p])

\* Both: no family loses a member that somebody still has to answer for,
\* in whatever order parents, children and threads end (Destroy).
FamilyIntact == ParentExists /\ ZombieHasParent

\* Exit and DestroyThreads leave no thread behind: the threads of a main
\* process that ended are gone (rule 6b).
NoThreadOutlivesMain ==
  \A t \in processMap : IsThread(t) => status[mainThread[t]] \notin {"TERMINATED", "RELEASED", "DELETED"}

\* The process that gets the keystrokes of a session is one that can still
\* read them: the head of a foreground list has not ended (Destroy takes the
\* process off the list of its group).
ForegroundAlive ==
  \A g \in Pid : fgList[g] # <<>> =>
    Exists(Head(fgList[g])) /\ status[Head(fgList[g])] \notin Finished

\* No interrupt is lost and none wakes two processes: a count drops by one
\* for every waiter that runs, and by nothing else (IRQ::Consume).
Woken(i) == {p \in Pid : status[p] = "WAIT_INT" /\ status'[p] = "RUN" /\ info[p].irq = i}
InterruptsWakeOne ==
  [][\A i \in Irq : IF Woken(i) = {} THEN irqCount'[i] >= irqCount[i]
                     ELSE irqCount'[i] = irqCount[i] - Cardinality(Woken(i))]_vars

\* The process map never holds more than MAX_NO_PROCESS processes, whoever
\* creates them and whatever failed before (AddToProcessMap).
ProcessMapBounded == Cardinality(processMap) <= MAX_NO_PROCESS

\* WaitOnChild returns only when the child it names is not a running child
\* of the caller any more.
WaitOnChildJoins ==
  [][\A p \in Pid : status[p] = "WAIT_CHILD" /\ status'[p] = "RUN" =>
       LET c == info[p].child IN
       c \in processMap /\ parent[c] = p => status[c] \in Finished]_vars

\* No process in the run state is starved by the round robin over the
\* processes and their threads.
Listed(p) == p \in Elems(schedulerList)
             \/ (mainThread[p] \in Elems(schedulerList) /\ p \in Elems(threadList[mainThread[p]]))
RoundRobinIsFair ==
  \A p \in Pid : (status[p] = "RUN" /\ Listed(p))
                 ~> ((current = p /\ mode = "process") \/ status[p] # "RUN" \/ ~Listed(p))

\* A wait ends once what it waits for happened: a sleeper, a process whose
\* event or service completed, a parent whose child ended, runs again.
HasHappened(p) ==
  /\ Listed(p)
  /\ \/ status[p] = "WAIT_SLEEP" /\ info[p].sleep = 0
     \/ status[p] = "WAIT_EVENT" /\ info[p].event
     \/ status[p] = "WAIT_CHILD" /\ status[info[p].child] \in Finished \cup {"DELETED"}
     \/ status[p] = "WAIT_KERNEL_SERVICE" /\ info[p].service
WaitEnds == \A p \in Pid : HasHappened(p) ~> (status[p] \notin Waiting \/ ~Listed(p))

\* Both: a wait ends when what it waits for happened, and that of a parent
\* not before.
WaitsEndRightly == WaitEnds /\ WaitOnChildJoins
=============================================================================
