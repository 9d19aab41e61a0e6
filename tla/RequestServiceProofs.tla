------------------------- MODULE RequestServiceProofs -------------------------
(***************************************************************************)
(* What TLAPS proves of RequestService, for every set of servers and of    *)
(* clients: it implements Replication, so that what is proved there holds  *)
(* of the whole system, and no packet is carried out twice.                *)
(***************************************************************************)
EXTENDS RequestService, ReplicationProofs

\* update_state takes every int: the theorems are about instances of
\* Replication whose Sums and Seqns do.
AnyCall == Int \subseteq Sums /\ Int \subseteq Seqns
-------------------------------------------------------------------------------
(* The types of this module.                                                *)

LEMMA RestRequests ==
  ASSUME requests \in [Server -> Seq(Request)], NEW s \in Server, requests[s] # <<>>
  PROVE  /\ Head(requests[s]) \in Request
         /\ [requests EXCEPT ![s] = Tail(@)] \in [Server -> Seq(Request)]
<1>1. requests[s] \in Seq(Request)
  OBVIOUS
<1> QED
  BY <1>1, HeadTailProperties

LEMMA AnswerType ==
  ASSUME IInv, ServiceTypeOK, NEW s \in Server, NEW status \in {0, 1},
         service[s] \in Working, Answer(s, status)
  PROVE  /\ replies' \in [Client -> Seq(Reply)]
         /\ service' \in [Server -> {Idle} \cup Working]
<1> DEFINE q == service[s].request
           r == [server |-> s, seqn |-> q.seqn, value |-> rm[s].current_sum, status |-> status]
<1>1. q \in Request /\ rm[s].current_sum \in Int
  BY DEF Working, IInv, Manager
<1>2. r \in Reply /\ q.from \in Client
  BY <1>1 DEF Reply, Request
<1>3. replies' = [replies EXCEPT ![q.from] = Append(@, r)]
      /\ service' = [service EXCEPT ![s] = Idle]
  BY DEF Answer
<1>4. Append(replies[q.from], r) \in Seq(Reply)
  BY <1>2 DEF ServiceTypeOK
<1> QED
  BY <1>2, <1>3, <1>4 DEF ServiceTypeOK

\* A client that stands at, sends to server and has shown a sum, is a client.
LEMMA ClientAtType ==
  ASSUME ServiceTypeOK, NEW c \in Client, NEW at \in {"ready", "waiting", "searching"},
         NEW server \in Server \cup {NoServer}, NEW shown \in Nat,
         client' = [client EXCEPT ![c] = [@ EXCEPT !.at = at, !.server = server,
                                                   !.shown = shown]]
  PROVE  client' \in [Client -> ClientState]
<1>1. client[c] \in ClientState /\ client \in [Client -> ClientState]
  BY DEF ServiceTypeOK
<1>2. [client[c] EXCEPT !.at = at, !.server = server, !.shown = shown] \in ClientState
  BY <1>1 DEF ClientState
<1> QED
  BY <1>1, <1>2

LEMMA SendType ==
  ASSUME ServiceTypeOK, NEW c \in Client, NEW s \in Server \cup {NoServer},
         NEW number \in Int, NEW again \in BOOLEAN,
         again \/ client[c].adds < MAX_ADDS, SendTo(c, s, number, again), up \subseteq Server
  PROVE  /\ requests' \in [Server -> Seq(Request)]
         /\ client' \in [Client -> ClientState]
<1> DEFINE q == [from |-> c, seqn |-> client[c].seqn, value |-> number]
<1>1. client[c] \in ClientState
  BY DEF ServiceTypeOK
<1>2. q \in Request
  BY <1>1 DEF Request, ClientState
<1>3. requests' \in [Server -> Seq(Request)]
  <2>1. CASE Serving(s)
    <3>1. requests' = [requests EXCEPT ![s] = Append(@, q)]
      BY <2>1 DEF SendTo
    <3>2. Append(requests[s], q) \in Seq(Request)
      BY <2>1, <1>2 DEF ServiceTypeOK, Serving
    <3> HIDE DEF q
    <3> QED
      BY <3>1, <3>2 DEF ServiceTypeOK
  <2>2. CASE ~Serving(s)
    BY <2>2 DEF SendTo, ServiceTypeOK
  <2> QED
    BY <2>1, <2>2
<1>4. client' \in [Client -> ClientState]
  <2> DEFINE n == IF again THEN client[c].adds ELSE client[c].adds + 1
             K == [at |-> "waiting", server |-> s, number |-> number, again |-> again,
                   seqn |-> client[c].seqn + 1, adds |-> n, shown |-> client[c].shown]
  <2>1. client' = [client EXCEPT ![c] = K]
    BY DEF SendTo
  <2>2. n \in 0..MAX_ADDS /\ client[c].seqn + 1 \in Nat /\ client[c].shown \in Nat
    BY <1>1, ClientAssumption DEF ClientState
  <2> HIDE DEF n
  <2>3. K \in ClientState
    BY <2>2 DEF ClientState
  <2> HIDE DEF K
  <2> QED
    BY <2>1, <2>3 DEF ServiceTypeOK
<1> QED
  BY <1>3, <1>4

LEMMA ClientType ==
  ASSUME IInv, ServiceTypeOK, NEW c \in Client, ClientStep(c)
  PROVE  ServiceTypeOK'
<1>1. client[c] \in ClientState /\ up \subseteq Server
  BY DEF ServiceTypeOK, IInv
<1>2. CASE Connect(c)
  <2>1. UNCHANGED <<requests, service, replies, log>>
    BY <1>2 DEF Connect
  <2>2. PICK s \in Server :
          client' = [client EXCEPT ![c] = [@ EXCEPT !.at = "ready", !.server = s]]
    BY <1>1, <1>2 DEF Connect, ServiceTypeOK
  <2>3. client' \in [Client -> ClientState]
    <3>1. [client[c] EXCEPT !.at = "ready", !.server = s] \in ClientState
      BY <1>1 DEF ClientState
    <3> QED
      BY <2>2, <3>1 DEF ServiceTypeOK
  <2> QED
    BY <2>1, <2>3 DEF ServiceTypeOK
<1>3. CASE Add(c)
  <2>1. PICK number \in Numbers : SendTo(c, client[c].server, number, FALSE)
    BY <1>3 DEF Add
  <2>2. UNCHANGED <<service, replies, log>> /\ client[c].adds < MAX_ADDS
    BY <1>3 DEF Add
  <2>3. number \in Int /\ client[c].server \in Server \cup {NoServer}
    BY <1>1, ClientAssumption DEF ClientState
  <2> QED
    BY <1>1, <2>1, <2>2, <2>3, SendType DEF ServiceTypeOK
<1>4. CASE TakeReply(c) \/ TimeOut(c)
  <2>1. UNCHANGED <<requests, service, log>>
    BY <1>4 DEF TakeReply, TimeOut
  <2>2. replies' \in [Client -> Seq(Reply)]
    <3>1. replies[c] \in Seq(Reply)
      BY DEF ServiceTypeOK
    <3>2. replies[c] # <<>> => Tail(replies[c]) \in Seq(Reply)
      BY <3>1, HeadTailProperties
    <3> QED
      BY <1>4, <3>2 DEF TakeReply, TimeOut, ServiceTypeOK
  <2>3. PICK from \in Server \cup {NoServer}, seqn \in Nat :
          \E result : Afterwards(c, result, from, seqn)
    <3>1. CASE TimeOut(c)
      <4>1. Afterwards(c, -2, client[c].server, 0) /\ client[c].server \in Server \cup {NoServer}
        BY <1>1, <3>1 DEF TimeOut, ClientState
      <4> QED
        BY <4>1
    <3>2. CASE TakeReply(c)
      <4> DEFINE r == Head(replies[c])
      <4>1. replies[c] \in Seq(Reply) /\ replies[c] # <<>>
        BY <3>2 DEF TakeReply, ServiceTypeOK
      <4>2. r \in Reply
        BY <4>1, HeadTailProperties
      <4>3. r.server \in Server /\ r.seqn \in Nat
        BY <4>2 DEF Reply
      <4>4. Afterwards(c, IF r.status = 1 THEN -2 ELSE r.value, r.server, r.seqn)
        BY <3>2 DEF TakeReply
      <4> QED
        BY <4>3, <4>4
    <3> QED
      BY <1>4, <3>1, <3>2
  <2>4. client' \in [Client -> ClientState]
    <3>1. PICK at \in {"ready", "searching"}, shown \in Nat :
            client' = [client EXCEPT ![c] = [@ EXCEPT !.at = at, !.server = from,
                                                      !.shown = shown]]
      <4>1. client \in [Client -> ClientState] /\ client[c].shown \in Nat
        BY <1>1 DEF ServiceTypeOK, ClientState
      <4>2. PICK result : Afterwards(c, result, from, seqn)
        BY <2>3
      <4> DEFINE place == IF result = -2 /\ ~client[c].again THEN "searching" ELSE "ready"
                 last == IF result < 0 THEN client[c].shown ELSE seqn
      <4>3. client' = [client EXCEPT ![c] = [@ EXCEPT !.at = place, !.server = from,
                                                      !.shown = last]]
        BY <4>1, <4>2 DEF Afterwards, ClientState
      <4>4. place \in {"ready", "searching"} /\ last \in Nat
        BY <2>3, <4>1
      <4> HIDE DEF place, last
      <4> QED
        BY <4>3, <4>4
    <3> QED
      BY <2>3, <3>1, ClientAtType
  <2> QED
    BY <2>1, <2>2, <2>4 DEF ServiceTypeOK
<1>5. CASE Search(c)
  <2>1. UNCHANGED <<service, replies, log>>
    BY <1>5 DEF Search
  <2>2. ASSUME NEW s \in Server, SendTo(c, s, client[c].number, TRUE)
        PROVE  ServiceTypeOK'
    <3>1. client[c].number \in Int
      BY <1>1 DEF ClientState
    <3> QED
      BY <1>1, <2>1, <2>2, <3>1, SendType DEF ServiceTypeOK
  <2>3. ASSUME client' = [client EXCEPT ![c].at = "ready"], UNCHANGED requests
        PROVE  ServiceTypeOK'
    <3>1. client' \in [Client -> ClientState]
      BY <1>1, <2>3 DEF ClientState, ServiceTypeOK
    <3> QED
      BY <2>1, <2>3, <3>1 DEF ServiceTypeOK
  <2> QED
    BY <1>5, <2>2, <2>3 DEF Search
<1> QED
  BY <1>2, <1>3, <1>4, <1>5 DEF ClientStep

LEMMA TotalType ==
  ASSUME ServiceTypeOK PROVE Total \in Int
<1> DEFINE T == [from: Client, seqn: Nat, total: Int]
<1>1. log \in Seq(T)
  BY DEF ServiceTypeOK
<1>2. log # <<>> => log[Len(log)] \in T
  <2> HIDE DEF T
  <2> QED
    BY <1>1, LenProperties
<1> QED
  BY <1>2 DEF Total

LEMMA RequestType ==
  ASSUME IInv, ServiceTypeOK, NEW s \in Server, RequestStep(s)
  PROVE  ServiceTypeOK'
<1>1. service[s].at # "receive" => service[s] \in Working
  BY DEF ServiceTypeOK, Idle
<1>2. CASE ReceiveRequest(s)
  <2>1. UNCHANGED <<client, replies, log>> /\ requests[s] # <<>>
        /\ requests' = [requests EXCEPT ![s] = Tail(@)]
    BY <1>2 DEF ReceiveRequest
  <2>2. /\ Head(requests[s]) \in Request
        /\ requests' \in [Server -> Seq(Request)]
    BY <2>1, RestRequests DEF ServiceTypeOK
  <2>3. service' \in [Server -> {Idle} \cup Working]
    BY <1>2, <2>2 DEF ReceiveRequest, ServiceTypeOK, Working
  <2> QED
    BY <2>1, <2>2, <2>3 DEF ServiceTypeOK
<1>3. CASE Refuse(s)
  <2>1. UNCHANGED <<requests, client, log>> /\ Answer(s, 1) /\ service[s] \in Working
    BY <1>1, <1>3 DEF Refuse
  <2> QED
    BY <2>1, AnswerType DEF ServiceTypeOK
<1>4. CASE AnswerRequest(s)
  <2>1. UNCHANGED <<requests, client, log>> /\ Answer(s, 0) /\ service[s] \in Working
    BY <1>1, <1>4 DEF AnswerRequest
  <2> QED
    BY <2>1, AnswerType DEF ServiceTypeOK
<1>5. CASE ReadSum(s)
  <2>1. UNCHANGED <<requests, client, replies, log>> /\ service[s] \in Working
        /\ service' = [service EXCEPT ![s] = [@ EXCEPT !.at = "update",
                                                       !.sum = rm[s].current_sum]]
    BY <1>1, <1>5 DEF ReadSum
  <2>2. rm[s].current_sum \in Int
    BY DEF IInv, Manager
  <2>3. [service[s] EXCEPT !.at = "update", !.sum = rm[s].current_sum] \in Working
    BY <2>1, <2>2 DEF Working
  <2> QED
    BY <2>1, <2>3 DEF ServiceTypeOK
<1>6. CASE Update(s)
  <2> DEFINE q == service[s].request
             done == [from |-> q.from, seqn |-> q.seqn, total |-> Total + q.value]
  <2>1. UNCHANGED <<requests, client, replies>> /\ service[s] \in Working
        /\ service' = [service EXCEPT ![s] = [@ EXCEPT !.at = "answer"]]
        /\ log' = Append(log, done)
    BY <1>1, <1>6 DEF Update
  <2>2. service' \in [Server -> {Idle} \cup Working]
    BY <2>1 DEF ServiceTypeOK, Working
  <2>3. Total \in Int
    BY TotalType
  <2>4. done \in [from: Client, seqn: Nat, total: Int]
    BY <2>1, <2>3 DEF Working, Request
  <2>5. log' \in Seq([from: Client, seqn: Nat, total: Int])
    BY <2>1, <2>4 DEF ServiceTypeOK
  <2> QED
    BY <2>1, <2>2, <2>5 DEF ServiceTypeOK
<1> QED
  BY <1>2, <1>3, <1>4, <1>5, <1>6 DEF RequestStep

LEMMA CrashType ==
  ASSUME ServiceTypeOK, NEW s \in Server, CrashServer(s) PROVE ServiceTypeOK'
<1>1. <<>> \in Seq(Request)
  OBVIOUS
<1> QED
  BY <1>1 DEF CrashServer, ServiceTypeOK

LEMMA LosePacketType ==
  ASSUME ServiceTypeOK, LosePacket PROVE ServiceTypeOK'
<1>1. ASSUME NEW s \in Server, requests[s] # <<>>,
             requests' = [requests EXCEPT ![s] = Tail(@)], UNCHANGED replies
      PROVE  ServiceTypeOK'
  <2>1. requests' \in [Server -> Seq(Request)]
    BY <1>1, RestRequests DEF ServiceTypeOK
  <2> QED
    BY <1>1, <2>1 DEF LosePacket, ServiceTypeOK
<1>2. ASSUME NEW c \in Client, replies[c] # <<>>,
             replies' = [replies EXCEPT ![c] = Tail(@)], UNCHANGED requests
      PROVE  ServiceTypeOK'
  <2>1. replies[c] \in Seq(Reply)
    BY DEF ServiceTypeOK
  <2>2. replies' \in [Client -> Seq(Reply)]
    BY <1>2, <2>1, HeadTailProperties DEF ServiceTypeOK
  <2> QED
    BY <1>2, <2>2 DEF LosePacket, ServiceTypeOK
<1> QED
  BY <1>1, <1>2 DEF LosePacket

LEMMA ServiceType ==
  ASSUME IInv, ServiceTypeOK, [ServiceNext]_allvars PROVE ServiceTypeOK'
<1>1. CASE ManagerStep \/ UNCHANGED allvars
  BY <1>1 DEF ManagerStep, svars, allvars, ServiceTypeOK
<1> QED
  BY <1>1, RequestType, CrashType, ClientType, LosePacketType DEF ServiceNext
-------------------------------------------------------------------------------
(* The whole system implements Replication.                                 *)

\* Nothing is asked of a server whose threads have not been created yet.
BusyServes ==
  \A s \in Server : requests[s] # <<>> \/ service[s].at # "receive" => Serving(s)

LEMMA ManagerServes ==
  ASSUME IInv, ManagerStep, NEW s \in Server, Serving(s) PROVE Serving(s)'
<1>1. receiver \in [Server -> {"none", "ready", "elect", "sleep"}]
  BY DEF IInv
<1>2. ASSUME NEW t \in Server, StartStep(t) PROVE Serving(s)'
  BY <1>1, <1>2 DEF StartStep, Start, SendJoinRequest, CreateThreads, Serving
<1>3. ASSUME NEW t \in Server, ReceiverElection(t) \/ ReceiverWakes(t) PROVE Serving(s)'
  BY <1>1, <1>3 DEF ReceiverElection, ReceiverWakes, AfterElection, Serving, Unbounded
<1>4. ASSUME NEW t \in Server, HandleStartElection(t) PROVE Serving(s)'
  BY <1>1, <1>4 DEF HandleStartElection, Serving, Unbounded
<1>5. ASSUME NEW t \in Server,
             \/ HandleHeartbeat(t) \/ HandleJoinRequest(t) \/ HandleReplicaList(t)
             \/ HandleStateUpdate(t) \/ HandleStateAck(t) \/ HandleElectionResponse(t)
             \/ HandleVictory(t) \/ HandleVictoryAck(t)
      PROVE  UNCHANGED <<up, receiver>>
  BY <1>5 DEF HandleHeartbeat, HandleJoinRequest, HandleReplicaList, HandleStateUpdate,
              HandleStateAck, HandleElectionResponse, HandleVictory, HandleVictoryAck, Unbounded
<1>6. ASSUME NEW t \in Server,
             \/ BeginCheck(t) \/ CheckPrimary(t) \/ CheckerElection(t) \/ CheckerWakes(t)
             \/ SendHeartbeats(t) \/ Lose(t) \/ Tick
      PROVE  UNCHANGED <<up, receiver>>
  BY <1>6 DEF BeginCheck, CheckPrimary, CheckerElection, CheckerWakes, SendHeartbeats, Lose,
              Tick, Unbounded
<1>7. CASE UNCHANGED <<up, receiver>>
  BY <1>7 DEF Serving
<1> QED
  BY <1>2, <1>3, <1>4, <1>5, <1>6, <1>7 DEF ManagerStep, ThreadStep, Receive

LEMMA BusyNext ==
  ASSUME IInv, ServiceTypeOK, BusyServes, [ServiceNext]_allvars PROVE BusyServes'
<1> SUFFICES ASSUME NEW s \in Server, (requests[s] # <<>> \/ service[s].at # "receive")'
             PROVE  Serving(s)'
  BY DEF BusyServes
<1>1. CASE ManagerStep
  <2>1. UNCHANGED <<requests, service>>
    BY <1>1 DEF ManagerStep, svars
  <2> QED
    BY <1>1, <2>1, ManagerServes DEF BusyServes
<1>2. ASSUME NEW t \in Server, CrashServer(t) PROVE Serving(s)'
  <2>1. t # s
    BY <1>2 DEF CrashServer, ServiceTypeOK, Idle
  <2>2. requests'[s] = requests[s] /\ service'[s] = service[s]
    BY <1>2, <2>1 DEF CrashServer, ServiceTypeOK
  <2>3. Serving(s)
    BY <2>2 DEF BusyServes
  <2> QED
    BY <1>2, <2>1, <2>3 DEF CrashServer, Crash, Serving, IInv
<1>3. CASE UNCHANGED <<up, receiver>> /\ Serving(s)
  BY <1>3 DEF Serving
<1>4. ASSUME NEW t \in Server, RequestStep(t) PROVE UNCHANGED <<up, receiver>> /\ Serving(s)
  <2>1. UNCHANGED <<up, receiver>>
    BY <1>4 DEF RequestStep, ReceiveRequest, Refuse, ReadSum, Update, CallWith, UpdateState,
                AnswerRequest, vars
  <2>2. /\ requests[t] # <<>> \/ service[t].at # "receive"
        /\ \A u \in Server \ {t} : requests'[u] = requests[u] /\ service'[u] = service[u]
    BY <1>4 DEF RequestStep, ReceiveRequest, Refuse, ReadSum, Update, AnswerRequest, Answer,
                ServiceTypeOK
  <2> QED
    BY <2>1, <2>2 DEF BusyServes
<1>5. ASSUME NEW c \in Client, ClientStep(c) PROVE UNCHANGED <<up, receiver>> /\ Serving(s)
  <2>1. UNCHANGED <<up, receiver, service>>
    BY <1>5 DEF ClientStep, Connect, Add, TakeReply, TimeOut, Search, vars
  <2>2. \/ UNCHANGED requests
        \/ \E t, number, again : SendTo(c, t, number, again)
    BY <1>5 DEF ClientStep, Connect, Add, TakeReply, TimeOut, Search
  <2>3. ASSUME NEW t, NEW number, NEW again, SendTo(c, t, number, again), requests[s] = <<>>,
               requests'[s] # <<>>
        PROVE  Serving(s)
    BY <2>3 DEF SendTo, ServiceTypeOK
  <2> QED
    BY <2>1, <2>2, <2>3 DEF BusyServes
<1>6. CASE LosePacket
  <2>1. UNCHANGED <<up, receiver, service>>
    BY <1>6 DEF LosePacket, vars
  <2>2. requests'[s] # <<>> => requests[s] # <<>>
    BY <1>6 DEF LosePacket, ServiceTypeOK
  <2> QED
    BY <1>3, <2>1, <2>2 DEF BusyServes
<1>7. CASE UNCHANGED allvars
  BY <1>3, <1>7 DEF allvars, vars, svars, BusyServes
<1> QED
  BY <1>1, <1>2, <1>3, <1>4, <1>5, <1>6, <1>7 DEF ServiceNext

LEMMA StepImplements ==
  ASSUME AnyCall, IInv, ServiceTypeOK, BusyServes, [ServiceNext]_allvars PROVE [Next]_vars
<1>1. CASE UNCHANGED vars
  BY <1>1
<1>2. CASE ManagerStep
  BY <1>2 DEF ManagerStep, Next
<1>3. ASSUME NEW s \in Server, CrashServer(s) PROVE Next
  BY <1>3 DEF CrashServer, Next
<1>4. ASSUME NEW s \in Server, Update(s) PROVE Next
  <2> DEFINE q == service[s].request
             new_sum == service[s].sum + q.value
  <2>1. CallWith(s, new_sum, q.seqn) /\ service[s].at = "update"
    BY <1>4 DEF Update
  <2>2. service[s] \in Working
    BY <2>1 DEF ServiceTypeOK, Idle
  <2>3. q \in Request /\ service[s].sum \in Int
    BY <2>2 DEF Working
  <2>4. new_sum \in Sums /\ q.seqn \in Seqns
    BY <2>3 DEF Request, AnyCall
  <2>5. Serving(s)
    BY <2>1 DEF BusyServes
  <2> QED
    BY <2>1, <2>4, <2>5 DEF CallUpdateState, Next
<1>5. ASSUME NEW s \in Server, RequestStep(s), ~Update(s) PROVE UNCHANGED vars
  BY <1>5 DEF RequestStep, ReceiveRequest, Refuse, ReadSum, AnswerRequest
<1>6. ASSUME NEW c \in Client, ClientStep(c) PROVE UNCHANGED vars
  BY <1>6 DEF ClientStep, Connect, Add, TakeReply, TimeOut, Search
<1>7. CASE LosePacket
  BY <1>7 DEF LosePacket
<1>8. CASE UNCHANGED allvars
  BY <1>8 DEF allvars
<1> QED
  BY <1>1, <1>2, <1>3, <1>4, <1>5, <1>6, <1>7, <1>8 DEF ServiceNext

ServiceInv == IInv /\ ServiceTypeOK /\ BusyServes

\* It holds whichever servers are started first.
LEMMA ServiceInvBegin ==
  ASSUME NEW Up \in SUBSET Server, Begin(Up), NoRequests PROVE ServiceInv
<1>1. IInv
  BY BeginIInv
<1>2. NewClient \in ClientState
  BY ClientAssumption DEF NewClient, ClientState
<1>3. \A S : <<>> \in Seq(S)
  OBVIOUS
<1>4. ServiceTypeOK
  BY <1>2, <1>3 DEF NoRequests, ServiceTypeOK
<1>5. BusyServes
  BY DEF NoRequests, BusyServes, Idle
<1> QED
  BY <1>1, <1>4, <1>5 DEF ServiceInv

LEMMA ServiceInvInit == ServiceInit => ServiceInv
BY ServiceInvBegin DEF ServiceInit, Init

LEMMA ServiceInvNext ==
  ASSUME AnyCall PROVE ServiceInv /\ [ServiceNext]_allvars => ServiceInv' /\ [Next]_vars
<1> SUFFICES ASSUME ServiceInv, [ServiceNext]_allvars PROVE ServiceInv' /\ [Next]_vars
  OBVIOUS
<1>1. [Next]_vars
  BY StepImplements DEF ServiceInv
<1>2. IInv'
  BY <1>1, NextIInv DEF ServiceInv
<1> QED
  BY <1>1, <1>2, ServiceType, BusyNext DEF ServiceInv

\* In every reachable state all variables of both modules have their types.
THEOREM ServiceTypeCorrect == ASSUME AnyCall PROVE ServiceSpec => []ServiceTypeOK
<1>1. ServiceInv => ServiceTypeOK
  BY DEF ServiceInv
<1> QED
  BY <1>1, ServiceInvInit, ServiceInvNext, PTL DEF ServiceSpec

\* What clients and request threads do to the manager is a step of Replication
\* or none, so that the theorems about it carry over.
LEMMA ImplementsReplication == ASSUME AnyCall PROVE ServiceSpec => Spec
<1>1. ServiceInit => Init
  BY DEF ServiceInit
<1> QED
  BY <1>1, ServiceInvInit, ServiceInvNext, PTL DEF ServiceSpec, Spec

\* For one: with clients and request threads no server holds a torn state.
COROLLARY ServiceUntorn == ASSUME AnyCall PROVE ServiceSpec => []NoTornState
BY ImplementsReplication, StateUntorn, PTL
-------------------------------------------------------------------------------
(* No packet is carried out twice.  A packet is in a socket, then held by a *)
(* request thread, then in the log: never in two of these places, and       *)
(* always numbered below what its client sends next.                        *)

Name(x) == <<x.from, x.seqn>>

Below(x) == x.seqn < client[x.from].seqn

Holds(s) == service[s].at \in {"read", "update"}

AllBelow ==
  /\ \A s \in Server : \A i \in DOMAIN requests[s] : Below(requests[s][i])
  /\ \A s \in Server : Holds(s) => Below(service[s].request)
  /\ \A k \in DOMAIN log : Below(log[k])

QueuedOnce ==
  \A s, t \in Server : \A i \in DOMAIN requests[s], j \in DOMAIN requests[t] :
    Name(requests[s][i]) = Name(requests[t][j]) => s = t /\ i = j

HeldOnce ==
  \A s \in Server : Holds(s) =>
    /\ \A t \in Server : \A j \in DOMAIN requests[t] :
         Name(service[s].request) # Name(requests[t][j])
    /\ \A t \in Server :
         Holds(t) /\ Name(service[s].request) = Name(service[t].request) => s = t

LoggedOnce ==
  \A k \in DOMAIN log :
    /\ \A t \in Server : \A j \in DOMAIN requests[t] : Name(log[k]) # Name(requests[t][j])
    /\ \A t \in Server : Holds(t) => Name(log[k]) # Name(service[t].request)
    /\ \A j \in DOMAIN log : Name(log[j]) = Name(log[k]) => j = k

OnceInv == ServiceTypeOK /\ AllBelow /\ QueuedOnce /\ HeldOnce /\ LoggedOnce

\* A step that at most takes packets away: d[t] of the socket of t, from its
\* head; an emptied socket has no packet left to say anything about.
Taken(d) ==
  /\ d \in [Server -> {0, 1}]
  /\ \A t \in Server : \A j \in DOMAIN requests'[t] :
       /\ j \in Nat
       /\ j + d[t] \in DOMAIN requests[t]
       /\ requests'[t][j] = requests[t][j + d[t]]

\* What a thread still holds after a step it held before.
Kept(s) == Holds(s)' => Holds(s) /\ service'[s].request = service[s].request

LEMMA PacketTypes ==
  ASSUME ServiceTypeOK
  PROVE  /\ \A t \in Server : \A j \in DOMAIN requests[t] : j \in Nat /\ requests[t][j] \in Request
         /\ \A s \in Server : Holds(s) => service[s].request \in Request
         /\ \A k \in DOMAIN log : k \in Nat /\ log[k].from \in Client /\ log[k].seqn \in Nat
<1>1. ASSUME NEW t \in Server, NEW j \in DOMAIN requests[t]
      PROVE  j \in Nat /\ requests[t][j] \in Request
  <2>1. requests[t] \in Seq(Request)
    BY DEF ServiceTypeOK
  <2> QED
    BY <2>1
<1>2. ASSUME NEW s \in Server, Holds(s) PROVE service[s].request \in Request
  BY <1>2 DEF ServiceTypeOK, Working, Idle, Holds
<1>3. ASSUME NEW k \in DOMAIN log
      PROVE  k \in Nat /\ log[k].from \in Client /\ log[k].seqn \in Nat
  <2> DEFINE T == [from: Client, seqn: Nat, total: Int]
  <2>1. log \in Seq(T)
    BY DEF ServiceTypeOK
  <2>2. k \in Nat /\ log[k] \in T
    <3> HIDE DEF T
    <3> QED
      BY <2>1
  <2> QED
    BY <2>2
<1> QED
  BY <1>1, <1>2, <1>3

LEMMA NothingSent ==
  ASSUME OnceInv, ServiceTypeOK', NEW d, Taken(d),
         \A c \in Client : client'[c].seqn = client[c].seqn,
         \A s \in Server : Kept(s), log' = log
  PROVE  OnceInv'
<1>1. ASSUME NEW x, x.from \in Client, Below(x)
      PROVE  x.seqn < client'[x.from].seqn
  BY <1>1 DEF Below
<1>2. AllBelow'
  <2>1. ASSUME NEW s \in Server, NEW j \in DOMAIN requests'[s]
        PROVE  requests'[s][j].seqn < client'[requests'[s][j].from].seqn
    <3> DEFINE x == requests[s][j + d[s]]
    <3>1. j + d[s] \in DOMAIN requests[s] /\ requests'[s][j] = x
      BY <2>1 DEF Taken
    <3>2. x.from \in Client /\ Below(x)
      BY <3>1, PacketTypes DEF OnceInv, AllBelow, Request
    <3> QED
      BY <1>1, <3>1, <3>2
  <2>2. ASSUME NEW s \in Server, Holds(s)'
        PROVE  service'[s].request.seqn < client'[service'[s].request.from].seqn
    <3> DEFINE x == service[s].request
    <3>1. Holds(s) /\ service'[s].request = x
      BY <2>2 DEF Kept
    <3>2. x.from \in Client /\ Below(x)
      BY <3>1, PacketTypes DEF OnceInv, AllBelow, Request
    <3> QED
      BY <1>1, <3>1, <3>2
  <2>3. ASSUME NEW k \in DOMAIN log
        PROVE  log[k].seqn < client'[log[k].from].seqn
    BY <1>1, <2>3, PacketTypes DEF OnceInv, AllBelow
  <2> QED
    BY <2>1, <2>2, <2>3 DEF AllBelow, Below
<1>3. QueuedOnce'
  <2> SUFFICES ASSUME NEW s \in Server, NEW t \in Server,
                      NEW i \in DOMAIN requests'[s], NEW j \in DOMAIN requests'[t],
                      Name(requests'[s][i]) = Name(requests'[t][j])
               PROVE  s = t /\ i = j
    BY DEF QueuedOnce, Name
  <2>1. /\ i \in Nat /\ j \in Nat /\ d[s] \in {0, 1}
        /\ i + d[s] \in DOMAIN requests[s] /\ j + d[t] \in DOMAIN requests[t]
        /\ Name(requests[s][i + d[s]]) = Name(requests[t][j + d[t]])
    BY DEF Taken
  <2>2. s = t /\ i + d[s] = j + d[t]
    BY <2>1 DEF OnceInv, QueuedOnce
  <2> QED
    BY <2>1, <2>2
<1>4. HeldOnce'
  <2> SUFFICES ASSUME NEW s \in Server, Holds(s)', NEW t \in Server
               PROVE  /\ \A j \in DOMAIN requests'[t] :
                           Name(service'[s].request) # Name(requests'[t][j])
                      /\ Holds(t)' /\ Name(service'[s].request) = Name(service'[t].request)
                           => s = t
    BY DEF HeldOnce, Name
  <2>1. Holds(s) /\ service'[s].request = service[s].request /\ Kept(t)
    BY DEF Kept
  <2>2. ASSUME NEW j \in DOMAIN requests'[t]
        PROVE  Name(service'[s].request) # Name(requests'[t][j])
    BY <2>1 DEF OnceInv, HeldOnce, Taken
  <2> QED
    BY <2>1, <2>2 DEF OnceInv, HeldOnce, Kept
<1>5. LoggedOnce'
  <2> SUFFICES ASSUME NEW k \in DOMAIN log
               PROVE  /\ \A t \in Server : \A j \in DOMAIN requests'[t] :
                           Name(log[k]) # Name(requests'[t][j])
                      /\ \A t \in Server : Holds(t)' =>
                           Name(log[k]) # Name(service'[t].request)
                      /\ \A j \in DOMAIN log : Name(log[j]) = Name(log[k]) => j = k
    BY DEF LoggedOnce, Name
  <2> QED
    BY DEF OnceInv, LoggedOnce, Taken, Kept
<1> QED
  BY <1>2, <1>3, <1>4, <1>5 DEF OnceInv

LEMMA NoneTaken ==
  ASSUME ServiceTypeOK, requests' = requests PROVE Taken([t \in Server |-> 0])
BY PacketTypes DEF Taken

LEMMA AllTaken ==
  ASSUME ServiceTypeOK, NEW s \in Server, requests' = [requests EXCEPT ![s] = <<>>]
  PROVE  Taken([t \in Server |-> 0])
<1>1. requests'[s] = <<>> /\ \A t \in Server \ {s} : requests'[t] = requests[t]
  BY DEF ServiceTypeOK
<1> QED
  BY <1>1, PacketTypes DEF Taken

LEMMA HeadTaken ==
  ASSUME ServiceTypeOK, NEW s \in Server, requests[s] # <<>>,
         requests' = [requests EXCEPT ![s] = Tail(@)]
  PROVE  Taken([t \in Server |-> IF t = s THEN 1 ELSE 0])
<1>1. requests'[s] = Tail(requests[s]) /\ \A t \in Server \ {s} : requests'[t] = requests[t]
  BY DEF ServiceTypeOK
<1>2. requests[s] \in Seq(Request)
  BY DEF ServiceTypeOK
<1>3. ASSUME NEW j \in DOMAIN Tail(requests[s])
      PROVE  /\ j \in Nat /\ j + 1 \in DOMAIN requests[s]
             /\ Tail(requests[s])[j] = requests[s][j + 1]
  BY <1>2, <1>3
<1> DEFINE d == [t \in Server |-> IF t = s THEN 1 ELSE 0]
<1>4. ASSUME NEW t \in Server, NEW j \in DOMAIN requests'[t]
      PROVE  /\ j \in Nat
             /\ j + d[t] \in DOMAIN requests[t]
             /\ requests'[t][j] = requests[t][j + d[t]]
  <2>1. CASE t = s
    BY <1>1, <1>3, <1>4, <2>1
  <2>2. CASE t # s
    BY <1>1, <1>4, <2>2, PacketTypes
  <2> QED
    BY <2>1, <2>2
<1>5. d \in [Server -> {0, 1}]
  OBVIOUS
<1> QED
  BY <1>4, <1>5 DEF Taken

LEMMA ReceiveOnce ==
  ASSUME OnceInv, ServiceTypeOK', NEW s \in Server, ReceiveRequest(s) PROVE OnceInv'
<1> DEFINE q == Head(requests[s])
           d == [t \in Server |-> IF t = s THEN 1 ELSE 0]
<1>1. /\ requests[s] # <<>> /\ UNCHANGED <<client, log>>
      /\ requests' = [requests EXCEPT ![s] = Tail(@)]
      /\ \A t \in Server \ {s} : service'[t] = service[t]
      /\ service'[s].request = q /\ ~Holds(s)
  BY DEF ReceiveRequest, OnceInv, ServiceTypeOK, Holds
<1>2. Taken(d)
  BY <1>1, HeadTaken DEF OnceInv
<1>3. q = requests[s][1] /\ 1 \in DOMAIN requests[s]
  <2>1. requests[s] \in Seq(Request)
    BY DEF OnceInv, ServiceTypeOK
  <2> QED
    BY <1>1, <2>1
<1>4. ASSUME NEW t \in Server, NEW j \in DOMAIN requests'[t]
      PROVE  /\ j + d[t] \in DOMAIN requests[t] /\ j \in Nat /\ d[t] \in {0, 1}
             /\ requests'[t][j] = requests[t][j + d[t]]
             /\ t = s => j + d[t] # 1
  <2>1. t = s => j # 0
    BY <1>1, <1>4 DEF OnceInv, ServiceTypeOK
  <2> QED
    BY <1>2, <1>4, <2>1 DEF Taken
<1> HIDE DEF d
<1>5. AllBelow'
  <2>1. ASSUME NEW t \in Server, NEW j \in DOMAIN requests'[t] PROVE Below(requests'[t][j])
    BY <1>4 DEF OnceInv, AllBelow
  <2>2. ASSUME NEW t \in Server, Holds(t)' PROVE Below(service'[t].request)
    BY <1>1, <1>3, <2>2 DEF OnceInv, AllBelow, Holds
  <2>3. ASSUME NEW k \in DOMAIN log PROVE Below(log[k])
    BY DEF OnceInv, AllBelow
  <2> QED
    BY <1>1, <2>1, <2>2, <2>3 DEF AllBelow, Below
<1>6. QueuedOnce'
  <2> SUFFICES ASSUME NEW u \in Server, NEW t \in Server,
                      NEW i \in DOMAIN requests'[u], NEW j \in DOMAIN requests'[t],
                      Name(requests'[u][i]) = Name(requests'[t][j])
               PROVE  u = t /\ i = j
    BY DEF QueuedOnce, Name
  <2>1. u = t /\ i + d[u] = j + d[t]
    BY <1>4 DEF OnceInv, QueuedOnce
  <2> QED
    BY <1>4, <2>1
<1>7. ASSUME NEW t \in Server, NEW j \in DOMAIN requests'[t]
      PROVE  Name(q) # Name(requests'[t][j])
  BY <1>3, <1>4 DEF OnceInv, QueuedOnce
<1>8. ASSUME NEW t \in Server \ {s}, Holds(t)
      PROVE  Name(q) # Name(service[t].request)
  BY <1>3, <1>8 DEF OnceInv, HeldOnce
<1>9. HeldOnce'
  <2> SUFFICES ASSUME NEW u \in Server, Holds(u)', NEW t \in Server
               PROVE  /\ \A j \in DOMAIN requests'[t] :
                           Name(service'[u].request) # Name(requests'[t][j])
                      /\ Holds(t)' /\ Name(service'[u].request) = Name(service'[t].request)
                           => u = t
    BY DEF HeldOnce, Name
  <2>1. ASSUME NEW v \in Server \ {s}, Holds(v)' PROVE Holds(v)
    BY <1>1, <2>1 DEF Holds
  <2>2. CASE u = s
    BY <1>1, <1>7, <1>8, <2>1, <2>2
  <2>3. CASE u # s
    <3>1. ASSUME NEW j \in DOMAIN requests'[t]
          PROVE  Name(service'[u].request) # Name(requests'[t][j])
      BY <1>1, <1>4, <2>1, <2>3 DEF OnceInv, HeldOnce
    <3>2. CASE t = s
      BY <1>1, <1>8, <2>1, <2>3, <3>1, <3>2
    <3>3. CASE t # s
      BY <1>1, <2>1, <2>3, <3>1, <3>3 DEF OnceInv, HeldOnce
    <3> QED
      BY <3>2, <3>3
  <2> QED
    BY <2>2, <2>3
<1>10. LoggedOnce'
  <2> SUFFICES ASSUME NEW k \in DOMAIN log
               PROVE  /\ \A t \in Server : \A j \in DOMAIN requests'[t] :
                           Name(log[k]) # Name(requests'[t][j])
                      /\ \A t \in Server : Holds(t)' =>
                           Name(log[k]) # Name(service'[t].request)
                      /\ \A j \in DOMAIN log : Name(log[j]) = Name(log[k]) => j = k
    BY <1>1 DEF LoggedOnce, Name
  <2>1. Name(log[k]) # Name(q)
    BY <1>3 DEF OnceInv, LoggedOnce
  <2>2. ASSUME NEW t \in Server, Holds(t)' PROVE Name(log[k]) # Name(service'[t].request)
    BY <1>1, <2>1, <2>2 DEF OnceInv, LoggedOnce, Holds
  <2> QED
    BY <1>4, <2>2 DEF OnceInv, LoggedOnce
<1> QED
  BY <1>5, <1>6, <1>9, <1>10 DEF OnceInv

LEMMA UpdateOnce ==
  ASSUME OnceInv, ServiceTypeOK', NEW s \in Server, Update(s) PROVE OnceInv'
<1> DEFINE q == service[s].request
           n == Len(log) + 1
<1>1. /\ UNCHANGED <<requests, client>> /\ Holds(s) /\ ~Holds(s)'
      /\ \A t \in Server \ {s} : service'[t] = service[t]
  BY DEF Update, OnceInv, ServiceTypeOK, Holds
<1>2. \A t \in Server : Kept(t)
  BY <1>1 DEF Kept, Holds
<1>3. /\ Len(log) \in Nat /\ DOMAIN log = 1..Len(log) /\ DOMAIN log' = 1..n
      /\ \A k \in DOMAIN log : log'[k] = log[k]
      /\ log'[n].from = q.from /\ log'[n].seqn = q.seqn
  <2> DEFINE T == [from: Client, seqn: Nat, total: Int]
             x == [from |-> q.from, seqn |-> q.seqn, total |-> Total + q.value]
  <2>1. log \in Seq(T) /\ log' = Append(log, x)
    BY DEF OnceInv, ServiceTypeOK, Update
  <2>2. x.from = q.from /\ x.seqn = q.seqn
    OBVIOUS
  <2> HIDE DEF T, x, q
  <2> QED
    BY <2>1, <2>2
<1>4. Name(log'[n]) = Name(q)
  BY <1>3 DEF Name
<1>5. ASSUME NEW k \in DOMAIN log' PROVE k = n \/ (k \in DOMAIN log /\ log'[k] = log[k])
  BY <1>3, <1>5
<1> HIDE DEF n
<1>6. AllBelow'
  <2>1. ASSUME NEW t \in Server, Holds(t)'
        PROVE  service'[t].request.seqn < client[service'[t].request.from].seqn
    BY <1>2, <2>1 DEF OnceInv, AllBelow, Kept, Below
  <2>2. ASSUME NEW k \in DOMAIN log' PROVE log'[k].seqn < client[log'[k].from].seqn
    BY <1>1, <1>3, <1>5, <2>2 DEF OnceInv, AllBelow, Below
  <2> QED
    BY <1>1, <2>1, <2>2 DEF OnceInv, AllBelow, Below
<1>7. QueuedOnce'
  BY <1>1 DEF OnceInv, QueuedOnce, Name
<1>8. HeldOnce'
  BY <1>1, <1>2 DEF OnceInv, HeldOnce, Kept, Name
<1>9. LoggedOnce'
  <2> SUFFICES ASSUME NEW k \in DOMAIN log'
               PROVE  /\ \A t \in Server : \A j \in DOMAIN requests[t] :
                           Name(log'[k]) # Name(requests[t][j])
                      /\ \A t \in Server : Holds(t)' =>
                           Name(log'[k]) # Name(service'[t].request)
                      /\ \A j \in DOMAIN log' : Name(log'[j]) = Name(log'[k]) => j = k
    BY <1>1 DEF LoggedOnce, Name
  <2>1. CASE k = n
    <3>1. \A t \in Server : Holds(t)' => Name(q) # Name(service'[t].request)
      BY <1>1, <1>2 DEF OnceInv, HeldOnce, Kept
    <3>2. \A j \in DOMAIN log : Name(log[j]) # Name(q)
      BY <1>1 DEF OnceInv, LoggedOnce
    <3> QED
      BY <1>1, <1>4, <1>5, <2>1, <3>1, <3>2 DEF OnceInv, HeldOnce
  <2>2. CASE k # n
    <3>1. k \in DOMAIN log /\ log'[k] = log[k]
      BY <1>5, <2>2
    <3>2. \A t \in Server : Holds(t)' => Name(log[k]) # Name(service'[t].request)
      BY <1>2, <3>1 DEF OnceInv, LoggedOnce, Kept
    <3>3. Name(log[k]) # Name(q)
      BY <1>1, <3>1 DEF OnceInv, LoggedOnce
    <3> QED
      BY <1>4, <1>5, <3>1, <3>2, <3>3 DEF OnceInv, LoggedOnce
  <2> QED
    BY <2>1, <2>2
<1> QED
  BY <1>6, <1>7, <1>8, <1>9 DEF OnceInv

LEMMA SendOnce ==
  ASSUME OnceInv, ServiceTypeOK', NEW c \in Client, NEW server, NEW number, NEW again,
         SendTo(c, server, number, again), UNCHANGED <<service, log>>, up \subseteq Server
  PROVE  OnceInv'
<1> DEFINE q == [from |-> c, seqn |-> client[c].seqn, value |-> number]
<1>1. /\ client'[c].seqn = client[c].seqn + 1 /\ client[c].seqn \in Nat
      /\ \A b \in Client \ {c} : client'[b] = client[b]
  BY DEF SendTo, OnceInv, ServiceTypeOK, ClientState
<1>2. ASSUME NEW x, x.from \in Client, x.seqn \in Nat, Below(x)
      PROVE  x.seqn < client'[x.from].seqn /\ Name(x) # Name(q)
  BY <1>1, <1>2 DEF Below, Name
<1>3. q.seqn < client'[q.from].seqn
  BY <1>1
<1> HIDE DEF q
<1>4. ASSUME NEW t \in Server, NEW j \in DOMAIN requests[t]
      PROVE  /\ requests[t][j].seqn < client'[requests[t][j].from].seqn
             /\ Name(requests[t][j]) # Name(q)
  BY <1>2, PacketTypes DEF OnceInv, AllBelow, Request
<1>5. ASSUME NEW t \in Server, Holds(t)
      PROVE  /\ service[t].request.seqn < client'[service[t].request.from].seqn
             /\ Name(service[t].request) # Name(q)
  BY <1>2, <1>5, PacketTypes DEF OnceInv, AllBelow, Request
<1>6. ASSUME NEW k \in DOMAIN log
      PROVE  /\ log[k].seqn < client'[log[k].from].seqn
             /\ Name(log[k]) # Name(q)
  BY <1>2, PacketTypes DEF OnceInv, AllBelow
<1>7. ASSUME NEW t \in Server, NEW j \in DOMAIN requests'[t]
      PROVE  \/ j \in DOMAIN requests[t] /\ requests'[t][j] = requests[t][j]
             \/ t = server /\ j = Len(requests[server]) + 1 /\ requests'[t][j] = q
  <2>1. CASE t = server /\ Serving(server)
    <3>1. requests[t] \in Seq(Request) /\ requests'[t] = Append(requests[t], q)
      BY <2>1 DEF OnceInv, ServiceTypeOK, SendTo, q
    <3> QED
      BY <1>7, <2>1, <3>1
  <2>2. CASE ~(t = server /\ Serving(server))
    BY <1>7, <2>2 DEF OnceInv, ServiceTypeOK, SendTo
  <2> QED
    BY <2>1, <2>2
<1>8. AllBelow'
  <2>1. ASSUME NEW t \in Server, NEW j \in DOMAIN requests'[t]
        PROVE  requests'[t][j].seqn < client'[requests'[t][j].from].seqn
    BY <1>3, <1>4, <1>7
  <2> QED
    BY <1>5, <1>6, <2>1 DEF AllBelow, Below, Holds
<1>9. QueuedOnce'
  <2> SUFFICES ASSUME NEW s \in Server, NEW t \in Server,
                      NEW i \in DOMAIN requests'[s], NEW j \in DOMAIN requests'[t],
                      Name(requests'[s][i]) = Name(requests'[t][j])
               PROVE  s = t /\ i = j
    BY DEF QueuedOnce, Name
  <2> QED
    BY <1>4, <1>7 DEF OnceInv, QueuedOnce
<1>10. HeldOnce'
  <2> SUFFICES ASSUME NEW s \in Server, Holds(s)
               PROVE  /\ \A t \in Server : \A j \in DOMAIN requests'[t] :
                           Name(service[s].request) # Name(requests'[t][j])
                      /\ \A t \in Server :
                           Holds(t) /\ Name(service[s].request) = Name(service[t].request)
                             => s = t
    BY DEF HeldOnce, Name, Holds
  <2> QED
    BY <1>5, <1>7 DEF OnceInv, HeldOnce
<1>11. LoggedOnce'
  <2> SUFFICES ASSUME NEW k \in DOMAIN log
               PROVE  /\ \A t \in Server : \A j \in DOMAIN requests'[t] :
                           Name(log[k]) # Name(requests'[t][j])
                      /\ \A t \in Server : Holds(t) => Name(log[k]) # Name(service[t].request)
                      /\ \A j \in DOMAIN log : Name(log[j]) = Name(log[k]) => j = k
    BY DEF LoggedOnce, Name, Holds
  <2> QED
    BY <1>6, <1>7 DEF OnceInv, LoggedOnce
<1> QED
  BY <1>8, <1>9, <1>10, <1>11 DEF OnceInv

LEMMA ClientOnce ==
  ASSUME OnceInv, ServiceTypeOK', NEW c \in Client, ClientStep(c), up \subseteq Server
  PROVE  OnceInv'
<1>1. UNCHANGED <<service, log>>
  BY DEF ClientStep, Connect, Add, TakeReply, TimeOut, Search
<1>2. ASSUME NEW server, NEW number, NEW again, SendTo(c, server, number, again)
      PROVE  OnceInv'
  BY <1>1, <1>2, SendOnce
<1>3. ASSUME UNCHANGED requests, \A b \in Client : client'[b].seqn = client[b].seqn
      PROVE  OnceInv'
  <2>1. Taken([t \in Server |-> 0])
    BY <1>3, NoneTaken DEF OnceInv
  <2>2. \A s \in Server : Kept(s)
    BY <1>1 DEF Kept, Holds
  <2> QED
    BY <1>1, <1>3, <2>1, <2>2, NothingSent
<1>4. /\ client \in [Client -> ClientState]
      /\ client[c] \in ClientState
  BY DEF OnceInv, ServiceTypeOK
<1>5. CASE Connect(c)
  <2>1. UNCHANGED requests /\ \A b \in Client : client'[b].seqn = client[b].seqn
    BY <1>4, <1>5 DEF Connect, ClientState
  <2> QED
    BY <1>3, <2>1
<1>6. CASE TakeReply(c) \/ TimeOut(c)
  <2>1. PICK result, from, seqn : Afterwards(c, result, from, seqn)
    BY <1>6 DEF TakeReply, TimeOut
  <2>2. PICK at, shown : client' = [client EXCEPT ![c].server = from, ![c].at = at,
                                                  ![c].shown = shown]
    <3> DEFINE shown == IF result < 0 THEN client[c].shown ELSE seqn
    <3>1. \E at : client' = [client EXCEPT ![c].server = from, ![c].at = at,
                                           ![c].shown = shown]
      BY <1>4, <2>1 DEF Afterwards
    <3> QED
      BY <3>1, Zenon
  <2>3. \A b \in Client : client'[b].seqn = client[b].seqn
    BY <1>4, <2>2 DEF ClientState
  <2>4. UNCHANGED requests
    BY <1>6 DEF TakeReply, TimeOut
  <2> QED
    BY <1>3, <2>3, <2>4
<1>7. CASE Search(c)
  <2>1. CASE UNCHANGED requests /\ client' = [client EXCEPT ![c].at = "ready"]
    <3>1. \A b \in Client : client'[b].seqn = client[b].seqn
      BY <1>4, <2>1 DEF ClientState
    <3> QED
      BY <1>3, <2>1, <3>1
  <2> QED
    BY <1>2, <1>7, <2>1 DEF Search
<1> QED
  BY <1>2, <1>5, <1>6, <1>7 DEF ClientStep, Add

LEMMA OnceNext ==
  ASSUME ServiceInv, OnceInv, [ServiceNext]_allvars, ServiceTypeOK' PROVE OnceInv'
<1>1. ASSUME UNCHANGED <<client, log>>, requests' = requests,
             \A s \in Server : Kept(s)
      PROVE  OnceInv'
  BY <1>1, NoneTaken, NothingSent DEF OnceInv
<1>2. CASE ManagerStep \/ UNCHANGED allvars
  <2>1. UNCHANGED svars
    BY <1>2 DEF ManagerStep, allvars
  <2> QED
    BY <1>1, <2>1 DEF svars, Kept, Holds
<1>3. ASSUME NEW s \in Server, Refuse(s) \/ ReadSum(s) \/ AnswerRequest(s)
      PROVE  OnceInv'
  <2>1. UNCHANGED <<client, log>> /\ requests' = requests
    BY <1>3 DEF Refuse, ReadSum, AnswerRequest
  <2>2. CASE service' = [service EXCEPT ![s] = Idle]
    <3>1. \A t \in Server : Kept(t)
      BY <2>2 DEF Kept, Holds, Idle, OnceInv, ServiceTypeOK
    <3> QED
      BY <1>1, <2>1, <3>1
  <2>3. CASE ReadSum(s)
    <3>1. service[s] \in Working /\ service \in [Server -> {Idle} \cup Working]
      BY <2>3 DEF ReadSum, Idle, OnceInv, ServiceTypeOK
    <3>2. /\ Holds(s) /\ service'[s].request = service[s].request
          /\ \A t \in Server \ {s} : service'[t] = service[t]
      BY <2>3, <3>1 DEF ReadSum, Holds, Working
    <3>3. \A t \in Server : Kept(t)
      BY <3>2 DEF Kept, Holds
    <3> QED
      BY <1>1, <2>1, <3>3
  <2> QED
    BY <1>3, <2>2, <2>3 DEF Refuse, AnswerRequest, Answer
<1>4. ASSUME NEW s \in Server, RequestStep(s) PROVE OnceInv'
  BY <1>3, <1>4, ReceiveOnce, UpdateOnce DEF RequestStep
<1>5. ASSUME NEW s \in Server, CrashServer(s) PROVE OnceInv'
  <2>1. UNCHANGED <<client, log>> /\ requests' = [requests EXCEPT ![s] = <<>>]
        /\ service' = [service EXCEPT ![s] = Idle]
    BY <1>5 DEF CrashServer
  <2>2. \A t \in Server : Kept(t)
    BY <2>1 DEF Kept, Holds, Idle, OnceInv, ServiceTypeOK
  <2>3. Taken([t \in Server |-> 0])
    BY <2>1, AllTaken DEF OnceInv
  <2> QED
    BY <2>1, <2>2, <2>3, NothingSent
<1>6. CASE LosePacket
  <2>1. UNCHANGED <<service, client, log>>
    BY <1>6 DEF LosePacket
  <2>2. \A t \in Server : Kept(t)
    BY <2>1 DEF Kept, Holds
  <2>3. ASSUME NEW s \in Server, requests[s] # <<>>,
               requests' = [requests EXCEPT ![s] = Tail(@)]
        PROVE  OnceInv'
    BY <2>1, <2>2, <2>3, HeadTaken, NothingSent DEF OnceInv
  <2> QED
    BY <1>1, <1>6, <2>1, <2>2, <2>3 DEF LosePacket
<1>7. up \subseteq Server
  BY DEF ServiceInv, IInv
<1> QED
  BY <1>2, <1>4, <1>5, <1>6, <1>7, ClientOnce DEF ServiceNext

\* No packet is carried out twice, on any number of servers and clients: every
\* packet is numbered anew, and a request thread forgets what it has answered.
THEOREM NoPacketTwice == ASSUME AnyCall PROVE ServiceSpec => []OncePerSeqn
<1>1. ServiceInit => OnceInv
  <2> SUFFICES ASSUME ServiceInit PROVE OnceInv
    OBVIOUS
  <2>1. ServiceTypeOK
    BY ServiceInvInit DEF ServiceInv
  <2>2. /\ \A s \in Server : requests[s] = <<>> /\ ~Holds(s)
        /\ log = <<>>
    BY DEF ServiceInit, NoRequests, Holds, Idle
  <2> QED
    BY <2>1, <2>2 DEF OnceInv, AllBelow, QueuedOnce, HeldOnce, LoggedOnce
<1>2. ServiceInv /\ OnceInv /\ [ServiceNext]_allvars /\ ServiceInv' => OnceInv'
  BY OnceNext DEF ServiceInv
<1>3. OnceInv => OncePerSeqn
  BY DEF OnceInv, LoggedOnce, OncePerSeqn, Name
<1> QED
  BY <1>1, <1>2, <1>3, ServiceInvInit, ServiceInvNext, PTL DEF ServiceSpec
===============================================================================
