------------------------- MODULE KernelService_proofs -------------------------
(***************************************************************************)
(* Proofs about KernelService for any number of clients and servers: its   *)
(* type invariant, the invariants of the request queue, and that it        *)
(* implements RequestReply.                                                *)
(***************************************************************************)
EXTENDS KernelService, TLAPS

InService(c) == \E s \in Server : Serving(s) /\ request[s] = c

\* The queue holds no client twice, and no two servers hold the same one.
QueueDistinct == \A i, j \in DOMAIN qRequest : qRequest[i] = qRequest[j] => i = j
ServersDistinct ==
  \A s, t \in Server : Serving(s) /\ Serving(t) /\ request[s] = request[t] => s = t

\* A server has a request exactly while it serves, and a borrowed group only
\* while it executes or was stopped or lost.
ServerInv ==
  \A s \in Server :
    /\ Serving(s) => request[s] \in Client
    /\ stage[s] \in {"absent", "listening", "taken", "executed"} => group[s] = OWN
    /\ stage[s] = "executed" => request[s] \in executed

\* A client that is not in a call, or whose call is about to return, has no
\* request anywhere.
ClientInv ==
  \A c \in Client :
    /\ client[c] = "running" => c \notin executed
    /\ client[c] = "running" \/ (client[c] = "waiting" /\ complete[c]) =>
         c \notin Requests /\ ~InService(c)

IInv == TypeOK /\ OneHand /\ AnswerBeforeReturn /\ ServerInv /\ ClientInv

-----------------------------------------------------------------------------
\* Sequences without repetition stay so when a new element is appended.
LEMMA AppendDistinct ==
  ASSUME NEW S, NEW q \in Seq(S), NEW c \in S,
         \A i, j \in DOMAIN q : q[i] = q[j] => i = j,
         \A i \in DOMAIN q : q[i] # c
  PROVE  /\ Append(q, c) \in Seq(S)
         /\ \A i, j \in DOMAIN Append(q, c) : Append(q, c)[i] = Append(q, c)[j] => i = j
         /\ \A d : (\E i \in DOMAIN Append(q, c) : Append(q, c)[i] = d)
                   <=> d = c \/ \E i \in DOMAIN q : q[i] = d
<1> DEFINE r == Append(q, c)
<1>1. r \in Seq(S) /\ Len(r) = Len(q) + 1 /\ DOMAIN r = 1 .. Len(q) + 1
  OBVIOUS
<1>2. \A i \in 1 .. Len(q) : r[i] = q[i]
  OBVIOUS
<1>3. r[Len(q) + 1] = c /\ DOMAIN q = 1 .. Len(q) /\ Len(q) \in Nat
  OBVIOUS
<1>4. \A i \in DOMAIN r : i \in DOMAIN q \/ i = Len(q) + 1
  BY <1>1, <1>3
<1> HIDE DEF r
<1>5. \A i, j \in DOMAIN r : r[i] = r[j] => i = j
  BY <1>2, <1>3, <1>4
<1>6. \A d : (\E i \in DOMAIN r : r[i] = d) <=> d = c \/ \E i \in DOMAIN q : q[i] = d
  BY <1>1, <1>2, <1>3, <1>4
<1> QED
  BY <1>1, <1>5, <1>6 DEF r

\* The head of such a sequence is not in its tail, and the tail is distinct.
LEMMA TailDistinct ==
  ASSUME NEW S, NEW q \in Seq(S), q # <<>>,
         \A i, j \in DOMAIN q : q[i] = q[j] => i = j
  PROVE  /\ Head(q) \in S /\ Tail(q) \in Seq(S)
         /\ \E i \in DOMAIN q : q[i] = Head(q)
         /\ \A i \in DOMAIN Tail(q) : Tail(q)[i] # Head(q)
         /\ \A i, j \in DOMAIN Tail(q) : Tail(q)[i] = Tail(q)[j] => i = j
         /\ \A d : (\E i \in DOMAIN Tail(q) : Tail(q)[i] = d) => \E i \in DOMAIN q : q[i] = d
<1> DEFINE r == Tail(q)
<1>1. Len(q) \in Nat \ {0} /\ DOMAIN q = 1 .. Len(q)
  OBVIOUS
<1>2. Head(q) = q[1] /\ Head(q) \in S /\ 1 \in DOMAIN q
  BY <1>1
<1>3. r \in Seq(S) /\ DOMAIN r = 1 .. Len(q) - 1
  BY <1>1
<1>4. \A i \in DOMAIN r : r[i] = q[i + 1] /\ i + 1 \in DOMAIN q /\ i + 1 # 1
  BY <1>1, <1>3
<1>5. \A i, j \in DOMAIN r : i \in Nat /\ j \in Nat /\ (i + 1 = j + 1 => i = j)
  BY <1>3
<1> HIDE DEF r
<1>6. \A i \in DOMAIN r : r[i] # Head(q)
  BY <1>2, <1>4
<1>7. \A i, j \in DOMAIN r : r[i] = r[j] => i = j
  BY <1>4, <1>5
<1> QED
  BY <1>2, <1>3, <1>4, <1>6, <1>7 DEF r

-----------------------------------------------------------------------------
LEMMA InitIInv == Init => IInv
BY ClientAssumption
DEF Init, IInv, TypeOK, OneHand, AnswerBeforeReturn, ServerInv, ClientInv,
    Requests, InService, Serving

\* A call adds the client to the end of the queue, with it running or not.
LEMMA EnterStep ==
  ASSUME IInv, NEW c \in Client, client[c] = "running",
         qRequest' = Append(qRequest, c),
         client' \in [Client -> {"running", "requested", "waiting", "gone"}],
         complete' \in [Client -> BOOLEAN],
         client'[c] \in {"requested", "waiting"},
         client'[c] = "waiting" => ~complete'[c],
         \A d \in Client : d # c => client'[d] = client[d] /\ complete'[d] = complete[d],
         UNCHANGED <<executed, serverVars>>
  PROVE  IInv'
<1>1. c \notin Requests /\ ~InService(c) /\ qRequest \in Seq(Client)
  BY DEF IInv, TypeOK, ClientInv
<1>2. QueueDistinct
  BY DEF IInv, OneHand, QueueDistinct
<1>3. /\ qRequest' \in Seq(Client) /\ QueueDistinct'
      /\ \A d : d \in Requests' <=> d = c \/ d \in Requests
  BY <1>1, <1>2, AppendDistinct DEF QueueDistinct, Requests
<1>4. TypeOK'
  BY <1>3 DEF IInv, TypeOK, serverVars
<1>5. OneHand'
  BY <1>1, <1>3 DEF IInv, OneHand, QueueDistinct, InService, Serving, serverVars
<1>6. AnswerBeforeReturn'
  BY DEF IInv, AnswerBeforeReturn
<1>7. ServerInv'
  BY DEF IInv, ServerInv, Serving, serverVars
<1>8. ClientInv'
  BY <1>3 DEF IInv, ClientInv, InService, Serving, serverVars
<1> QED
  BY <1>4, <1>5, <1>6, <1>7, <1>8 DEF IInv

LEMMA NextIInv == IInv /\ [Next]_vars => IInv'
<1> SUFFICES ASSUME IInv, [Next]_vars PROVE IInv'
  OBVIOUS
<1> USE ClientAssumption
<1>1. ASSUME NEW c \in Client, AddRequest(c) PROVE IInv'
  BY <1>1, EnterStep DEF AddRequest, IInv, TypeOK
<1>2. ASSUME NEW c \in Client, PageFault(c) PROVE IInv'
  BY <1>2, EnterStep DEF PageFault, IInv, TypeOK
<1>3. ASSUME NEW c \in Client, WaitOnKernelService(c) PROVE IInv'
  BY <1>3 DEF WaitOnKernelService, IInv, TypeOK, OneHand, AnswerBeforeReturn,
     ServerInv, ClientInv, Requests, InService, Serving, serverVars
<1>4. ASSUME NEW c \in Client, Return(c) PROVE IInv'
  <2>1. TypeOK' /\ OneHand' /\ AnswerBeforeReturn'
    BY <1>4 DEF Return, IInv, TypeOK, OneHand, AnswerBeforeReturn,
       Requests, Serving, serverVars
  <2>2. c \notin Requests /\ ~InService(c)
    BY <1>4 DEF Return, IInv, ClientInv
  <2>3. ServerInv'
    BY <1>4, <2>2 DEF Return, IInv, TypeOK, ServerInv, InService, Serving, serverVars
  <2>4. ClientInv'
    BY <1>4, <2>2 DEF Return, IInv, TypeOK, ClientInv, Requests, InService, Serving, serverVars
  <2> QED
    BY <2>1, <2>3, <2>4 DEF IInv
<1>5. ASSUME NEW m \in Client, Exit(m) PROVE IInv'
  BY <1>5 DEF Exit, IInv, TypeOK, OneHand, AnswerBeforeReturn,
     ServerInv, ClientInv, Requests, InService, Serving, serverVars
<1>6. ASSUME NEW s \in Server, Spawn(s) \/ Stop(s) PROVE IInv'
  BY <1>6 DEF Spawn, Stop, IInv, TypeOK, OneHand, AnswerBeforeReturn,
     ServerInv, ClientInv, Requests, InService, Serving
<1>7. ASSUME NEW s \in Server, GetRequest(s) PROVE IInv'
  <2> DEFINE c == Head(qRequest)
  <2>1. /\ c \in Requests /\ c \in Client /\ qRequest' \in Seq(Client)
        /\ c \notin Requests' /\ Requests' \subseteq Requests /\ QueueDistinct'
    BY <1>7, TailDistinct DEF GetRequest, IInv, TypeOK, OneHand, Requests, QueueDistinct
  <2>2. /\ request' = [request EXCEPT ![s] = c]
        /\ stage' = [stage EXCEPT ![s] = "taken"]
        /\ stage[s] = "listening"
        /\ UNCHANGED <<client, complete, executed, group>>
    BY <1>7 DEF GetRequest
  <2> HIDE DEF c
  <2>3. TypeOK' /\ AnswerBeforeReturn'
    BY <2>1, <2>2 DEF IInv, TypeOK, AnswerBeforeReturn, ServerInv
  <2>4. OneHand'
    BY <2>1, <2>2 DEF IInv, TypeOK, OneHand, QueueDistinct, Serving
  <2>5. ServerInv'
    BY <2>1, <2>2 DEF IInv, TypeOK, ServerInv, Serving
  <2>6. ClientInv'
    BY <2>1, <2>2 DEF IInv, TypeOK, ClientInv, InService, Serving
  <2> QED
    BY <2>3, <2>4, <2>5, <2>6 DEF IInv
<1>8. ASSUME NEW s \in Server, BorrowGroup(s) PROVE IInv'
  BY <1>8 DEF BorrowGroup, IInv, TypeOK, OneHand, AnswerBeforeReturn,
     ServerInv, ClientInv, Requests, InService, Serving
<1>9. ASSUME NEW s \in Server, Execute(s) PROVE IInv'
  <2>1. ~\E c \in Client : c = request[s] /\ client[c] = "running"
    BY <1>9 DEF Execute, IInv, ClientInv, InService, Serving
  <2> QED
    BY <1>9, <2>1 DEF Execute, Complete, IInv, TypeOK, OneHand, AnswerBeforeReturn,
       ServerInv, ClientInv, Requests, InService, Serving
<1>10. ASSUME NEW s \in Server, WakeUpFromKSWait(s) PROVE IInv'
  <2> DEFINE c == request[s]
  <2>1. /\ c \in Client /\ c \in executed /\ c \notin Requests /\ group[s] = OWN
        /\ \A t \in Server : Serving(t) /\ request[t] = c => t = s
    BY <1>10 DEF WakeUpFromKSWait, IInv, OneHand, ServerInv, Serving
  <2>2. TypeOK' /\ OneHand' /\ AnswerBeforeReturn' /\ ServerInv'
    BY <1>10, <2>1 DEF WakeUpFromKSWait, IInv, TypeOK, OneHand, AnswerBeforeReturn,
       ServerInv, Requests, Serving
  <2>3. ClientInv'
    BY <1>10, <2>1 DEF WakeUpFromKSWait, IInv, TypeOK, ClientInv, Requests, InService, Serving
  <2> QED
    BY <2>2, <2>3 DEF IInv
<1>11. CASE UNCHANGED vars
  BY <1>11 DEF vars, IInv, TypeOK, OneHand, AnswerBeforeReturn,
     ServerInv, ClientInv, Requests, InService, Serving, serverVars
<1> QED
  BY <1>1, <1>2, <1>3, <1>4, <1>5, <1>6, <1>7, <1>8, <1>9, <1>10, <1>11
  DEF Next, ClientStep, ServerStep

\* The inductive invariant.
THEOREM Inductive == Spec => []IInv
<1> QED
  BY InitIInv, NextIInv, PTL DEF Spec

\* Every variable keeps its type, and a server's group is its own or the one
\* of the request it has (KernelService::Server sets and resets it).
THEOREM TypeCorrect == Spec => []TypeOK
<1>1. IInv => TypeOK
  BY DEF IInv
<1> QED
  BY <1>1, Inductive, PTL

\* A request is in one hand only: AddRequest, GetRequest and the servers
\* neither duplicate it nor hand it out twice.
THEOREM RequestsInOneHand == Spec => []OneHand
<1>1. IInv => OneHand
  BY DEF IInv
<1> QED
  BY <1>1, Inductive, PTL

\* A client that WaitOnKernelService lets return has its request executed.
THEOREM AnswersComeFirst == Spec => []AnswerBeforeReturn
<1>1. IInv => AnswerBeforeReturn
  BY DEF IInv
<1> QED
  BY <1>1, Inductive, PTL

\* What the client has deleted is in no queue and no server: a server never
\* touches the memory of a request after its client returned.
THEOREM NoDanglingRequest == Spec => []NoRequestOutlivesItsCall
<1>1. IInv => NoRequestOutlivesItsCall
  BY DEF IInv, ClientInv, NoRequestOutlivesItsCall, InService
<1> QED
  BY <1>1, Inductive, PTL

-----------------------------------------------------------------------------
(* Refinement of RequestReply.                                             *)

LEMMA InitRefines == Init => RR!Init
BY DEF Init, RR!Init, Phase

LEMMA StepRefines == IInv /\ [Next]_vars => [RR!Next]_[c \in Client |-> Phase(c)]
<1> DEFINE phase == [c \in Client |-> Phase(c)]
<1> SUFFICES ASSUME IInv, [Next]_vars PROVE RR!Next \/ phase' = phase
  BY DEF RR!Next
<1> USE ClientAssumption DEF RR!Move
<1>1. ASSUME NEW c \in Client, AddRequest(c) \/ PageFault(c) PROVE RR!Ask(c)
  <2>1. /\ client[c] = "running" /\ UNCHANGED executed
        /\ client \in [Client -> {"running", "requested", "waiting", "gone"}]
        /\ \/ client' = [client EXCEPT ![c] = "requested"]
           \/ client' = [client EXCEPT ![c] = "waiting"]
    BY <1>1 DEF AddRequest, PageFault, IInv, TypeOK, serverVars
  <2>2. c \notin executed
    BY <2>1 DEF IInv, ClientInv
  <2> QED
    BY ZenonT(60), <2>1, <2>2 DEF RR!Ask, Phase
<1>2. ASSUME NEW c \in Client, WaitOnKernelService(c) PROVE phase' = phase
  BY <1>2 DEF WaitOnKernelService, Phase, IInv, TypeOK
<1>3. ASSUME NEW c \in Client, Return(c) PROVE RR!Return(c)
  BY <1>3 DEF Return, RR!Return, Phase, IInv, TypeOK, AnswerBeforeReturn
<1>4. ASSUME NEW m \in Client, Exit(m) PROVE RR!Vanish({m} \cup ThreadsOf[m])
  BY <1>4 DEF Exit, RR!Vanish, Phase, IInv, TypeOK
<1>5. ASSUME NEW s \in Server, Execute(s) PROVE RR!Serve(request[s]) \/ phase' = phase
  <2>1. request[s] \in Client /\ client[request[s]] # "running" /\ UNCHANGED client
    BY <1>5 DEF Execute, IInv, ServerInv, ClientInv, InService, Serving
  <2>2. CASE UNCHANGED executed \/ request[s] \in executed \/ client[request[s]] = "gone"
    BY <1>5, <2>1, <2>2 DEF Execute, Complete, Phase
  <2>3. CASE executed' = executed \cup {request[s]} /\ request[s] \notin executed
             /\ client[request[s]] # "gone"
    BY <2>1, <2>3 DEF RR!Serve, Phase
  <2> QED
    BY <1>5, <2>2, <2>3 DEF Execute, Complete
<1>6. ASSUME NEW s \in Server,
             Spawn(s) \/ Stop(s) \/ GetRequest(s) \/ BorrowGroup(s) \/ WakeUpFromKSWait(s)
      PROVE  phase' = phase
  BY <1>6 DEF Spawn, Stop, GetRequest, BorrowGroup, WakeUpFromKSWait, Phase
<1>7. CASE UNCHANGED vars
  BY <1>7 DEF vars, Phase
<1>8. \A s \in Server : Execute(s) => request[s] \in Client
  BY DEF Execute, IInv, ServerInv, Serving
<1>9. \A m \in Client : Exit(m) => {m} \cup ThreadsOf[m] \in SUBSET Client
  BY DEF Exit
<1> HIDE DEF phase
<1> QED
  BY <1>1, <1>2, <1>3, <1>4, <1>5, <1>6, <1>7, <1>8, <1>9
  DEF Next, ClientStep, ServerStep, RR!Next

\* Whatever the interleaving of clients and servers, a call is served at
\* most once and returns only after it was served.
THEOREM Refinement == Spec => ServesOnce
<1> QED
  BY InitRefines, StepRefines, Inductive, PTL DEF Spec, ServesOnce, RR!Spec
=============================================================================
