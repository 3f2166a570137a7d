---------------------------- MODULE KernelService ----------------------------
(***************************************************************************)
(* The kernel service: processes queue requests (loading a program or a    *)
(* DLL, creating a thread, filling a page after a fault) and sleep; server *)
(* processes take them from the queue, execute them with the client's      *)
(* process group, and wake the client.  kernel/KernelService.cpp, with the *)
(* two ProcessManager calls it waits and wakes with.                       *)
(*                                                                         *)
(* Every step is one the PIT may preempt after.  A page fault is handled   *)
(* with interrupts off, so its request and its wait are one step.          *)
(*                                                                         *)
(* A definition named Faulty... is the one after it with a single fault;   *)
(* no specification uses it, it shows what the properties would catch.     *)
(***************************************************************************)
EXTENDS Sequences, FiniteSets, Naturals

CONSTANTS
  Client,     \* the processes and threads that call the service
  Exiting,    \* clients that are main processes and may exit
  ThreadsOf,  \* the clients that are threads of each of them
  Server,     \* the server processes Spawn creates
  Stoppable,  \* servers that Stop may be called for
  Faults,     \* clients that enter through a page fault
  OWN         \* the process group a server is created with

NONE == "none"

ASSUME ClientAssumption ==
  /\ Exiting \subseteq Client /\ ThreadsOf \in [Exiting -> SUBSET Client]
  /\ Faults \subseteq Client
  /\ OWN \notin Client /\ NONE \notin Client
ASSUME ServerAssumption == Stoppable \subseteq Server

VARIABLES
  client,     \* where each client stands
  complete,   \* ProcessStateInfo::KernelServiceComplete of each client
  qRequest,   \* m_qRequest; a client has at most one request
  executed,   \* clients whose request object holds its result
  stage,      \* how far each server is in its loop
  request,    \* the request a server has taken, by its client
  group       \* the process group of each server, named by the client it is borrowed from

vars == <<client, complete, qRequest, executed, stage, request, group>>

serverVars == <<stage, request, group>>

Requests == {qRequest[i] : i \in DOMAIN qRequest}

Init ==
  /\ client = [c \in Client |-> "running"]
  /\ complete = [c \in Client |-> FALSE]
  /\ qRequest = <<>>
  /\ executed = {}
  /\ stage = [s \in Server |-> "absent"]
  /\ request = [s \in Server |-> NONE]
  /\ group = [s \in Server |-> OWN]

-----------------------------------------------------------------------------
(* The clients: Request... is AddRequest, WaitOnKernelService, and, once   *)
(* woken, reading and deleting the request.                                *)

AddRequest(c) ==
  /\ client[c] = "running" /\ c \notin Faults
  /\ qRequest' = Append(qRequest, c)
  /\ client' = [client EXCEPT ![c] = "requested"]
  /\ UNCHANGED <<complete, executed, serverVars>>

WaitOnKernelService(c) ==
  /\ client[c] = "requested"
  /\ complete' = [complete EXCEPT ![c] = FALSE]
  /\ client' = [client EXCEPT ![c] = "waiting"]
  /\ UNCHANGED <<qRequest, executed, serverVars>>

FaultyPageFault(c) ==
  /\ client[c] = "running" /\ c \in Faults
  /\ qRequest' = Append(qRequest, c)
  /\ client' = [client EXCEPT ![c] = "requested"]
  /\ UNCHANGED <<complete, executed, serverVars>>
PageFault(c) ==
  /\ client[c] = "running" /\ c \in Faults
  /\ qRequest' = Append(qRequest, c)
  /\ complete' = [complete EXCEPT ![c] = FALSE]
  /\ client' = [client EXCEPT ![c] = "waiting"]
  /\ UNCHANGED <<executed, serverVars>>

FaultyReturn(c) ==               \* does not wait for the answer
  /\ client[c] = "waiting"
  /\ client' = [client EXCEPT ![c] = "running"]
  /\ executed' = executed \ {c}
  /\ UNCHANGED <<complete, qRequest, serverVars>>
\* The scheduler finds the wait over; the request is deleted.
Return(c) ==
  /\ client[c] = "waiting" /\ complete[c]
  /\ complete' = [complete EXCEPT ![c] = FALSE]
  /\ client' = [client EXCEPT ![c] = "running"]
  /\ executed' = executed \ {c}
  /\ UNCHANGED <<qRequest, serverVars>>

\* A main process ends and destroys its threads, whatever they wait for
\* (SchedulableProcess::Destroy).
Exit(m) ==
  /\ m \in Exiting /\ client[m] = "running"
  /\ client' = [c \in Client |-> IF c \in {m} \cup ThreadsOf[m] THEN "gone" ELSE client[c]]
  /\ UNCHANGED <<complete, qRequest, executed, serverVars>>

-----------------------------------------------------------------------------
(* The servers.                                                            *)

Spawn(s) ==
  /\ stage[s] = "absent"
  /\ stage' = [stage EXCEPT ![s] = "listening"]
  /\ UNCHANGED <<client, complete, qRequest, executed, request, group>>

\* The server is killed wherever it is.
Stop(s) ==
  /\ s \in Stoppable /\ stage[s] \notin {"absent", "stopped", "lost"}
  /\ stage' = [stage EXCEPT ![s] = "stopped"]
  /\ UNCHANGED <<client, complete, qRequest, executed, request, group>>

FaultyGetRequest(s) ==           \* front without pop_front
  /\ stage[s] = "listening" /\ qRequest # <<>>
  /\ request' = [request EXCEPT ![s] = Head(qRequest)]
  /\ stage' = [stage EXCEPT ![s] = "taken"]
  /\ UNCHANGED <<client, complete, qRequest, executed, group>>
\* With an empty queue the server sleeps and tries again.
GetRequest(s) ==
  /\ stage[s] = "listening" /\ qRequest # <<>>
  /\ request' = [request EXCEPT ![s] = Head(qRequest)]
  /\ qRequest' = Tail(qRequest)
  /\ stage' = [stage EXCEPT ![s] = "taken"]
  /\ UNCHANGED <<client, complete, executed, group>>

\* GetAddressSpace(...).value() throws for a client that is gone, and Server
\* does not catch.
BorrowGroup(s) ==
  /\ stage[s] = "taken"
  /\ IF client[request[s]] # "gone"
     THEN /\ group' = [group EXCEPT ![s] = request[s]]
          /\ stage' = [stage EXCEPT ![s] = "executing"]
     ELSE /\ stage' = [stage EXCEPT ![s] = "lost"]
          /\ UNCHANGED group
  /\ UNCHANGED <<client, complete, qRequest, executed, request>>

Complete(s) ==
  /\ executed' = executed \cup {request[s]}
  /\ stage' = [stage EXCEPT ![s] = "executed"]
FaultyExecute(s) ==              \* keeps the group it borrowed
  /\ stage[s] = "executing"
  /\ Complete(s)
  /\ UNCHANGED <<client, complete, qRequest, request, group>>
\* CopyDiskDrive, in the request to load a program, throws as well when the
\* client went away since.
Execute(s) ==
  /\ stage[s] = "executing"
  /\ \/ Complete(s) /\ group' = [group EXCEPT ![s] = OWN]
     \/ /\ client[request[s]] = "gone"
        /\ stage' = [stage EXCEPT ![s] = "lost"]
        /\ UNCHANGED <<executed, group>>
  /\ UNCHANGED <<client, complete, qRequest, request>>

FaultyWakeUp(s) ==               \* wakes before it executes
  /\ stage[s] = "executing"
  /\ complete' = [complete EXCEPT ![request[s]] = TRUE]
  /\ stage' = [stage EXCEPT ![s] = "listening"]
  /\ request' = [request EXCEPT ![s] = NONE]
  /\ UNCHANGED <<client, qRequest, executed, group>>
WakeUpFromKSWait(s) ==
  /\ stage[s] = "executed"
  /\ complete' = IF client[request[s]] = "gone" THEN complete
                 ELSE [complete EXCEPT ![request[s]] = TRUE]
  /\ stage' = [stage EXCEPT ![s] = "listening"]
  /\ request' = [request EXCEPT ![s] = NONE]
  /\ UNCHANGED <<client, qRequest, executed, group>>

-----------------------------------------------------------------------------
ClientStep(c) ==
  AddRequest(c) \/ WaitOnKernelService(c) \/ PageFault(c) \/ Return(c) \/ Exit(c)
ServerStep(s) == GetRequest(s) \/ BorrowGroup(s) \/ Execute(s) \/ WakeUpFromKSWait(s)

Next ==
  \/ \E c \in Client : ClientStep(c)
  \/ \E s \in Server : Spawn(s) \/ Stop(s) \/ ServerStep(s)

\* The round robin runs every process that can run; UpanixMain spawns the servers.
Fairness ==
  /\ \A c \in Client : WF_vars(WaitOnKernelService(c)) /\ WF_vars(Return(c))
  /\ \A s \in Server : WF_vars(Spawn(s)) /\ WF_vars(ServerStep(s))

Spec == Init /\ [][Next]_vars
FairSpec == Spec /\ Fairness

-----------------------------------------------------------------------------
(* Properties                                                              *)

Serving(s) == stage[s] \in {"taken", "executing", "executed"}

TypeOK ==
  /\ client \in [Client -> {"running", "requested", "waiting", "gone"}]
  /\ complete \in [Client -> BOOLEAN]
  /\ qRequest \in Seq(Client)
  /\ executed \subseteq Client
  /\ stage \in [Server -> {"absent", "listening", "taken", "executing", "executed",
                            "stopped", "lost"}]
  /\ request \in [Server -> Client \cup {NONE}]
  /\ group \in [Server -> Client \cup {OWN}]
  /\ \A s \in Server : group[s] \in {OWN, request[s]}

\* A request is in one hand only: once in the queue or with one server,
\* never both nor twice (the client deletes it after one wake-up).
OneHand ==
  /\ \A i, j \in DOMAIN qRequest : qRequest[i] = qRequest[j] => i = j
  /\ \A s, t \in Server : Serving(s) /\ Serving(t) /\ request[s] = request[t] => s = t
  /\ \A s \in Server : Serving(s) => request[s] \notin Requests

\* A client that can return finds the result of its request: nothing wakes
\* it before its own request was executed.
AnswerBeforeReturn ==
  \A c \in Client : client[c] = "waiting" /\ complete[c] => c \in executed

\* A request the client has deleted is in no queue and no server.
NoRequestOutlivesItsCall ==
  \A c \in Client : client[c] = "running" =>
    c \notin Requests /\ \A s \in Server : Serving(s) => request[s] # c

\* Every call of the service returns, unless its client is destroyed.
CallReturns ==
  \A c \in Client : (client[c] \in {"requested", "waiting"}) ~> (client[c] \in {"running", "gone"})

\* A page fault is answered: the handler queues and waits with interrupts
\* off, so that no answer is lost, unless a server ends in the middle.
FaultReturns ==
  \A c \in Faults : (client[c] = "waiting") ~>
    \/ client[c] \in {"running", "gone"}
    \/ \E s \in Server : stage[s] \in {"stopped", "lost"}

Phase(c) == IF client[c] = "gone" THEN "gone"
            ELSE IF client[c] = "running" THEN "idle"
            ELSE IF c \in executed THEN "served" ELSE "asked"
RR == INSTANCE RequestReply WITH phase <- [c \in Client |-> Phase(c)]

\* The service implements request and reply: served once, returned after.
ServesOnce == RR!Spec
=============================================================================
