----------------------------- MODULE RequestService -----------------------------
(***************************************************************************)
(* Clients, the request threads of the servers (server_prot.c, client.c)   *)
(* and, beneath them, the replication manager.  A request thread asks the  *)
(* manager three times for one request, and takes its mutex anew each      *)
(* time; the threads of Replication run between any two of these calls.    *)
(*                                                                         *)
(* A client sends one request at a time, waits a second for an answer, and *)
(* when none comes, or a refusal, discovers a server and sends the number  *)
(* once more.  Its requests are numbered, but nobody compares the numbers. *)
(***************************************************************************)
EXTENDS Replication

CONSTANTS
  Client,     \* the client processes
  Numbers,    \* what a user may ask to have added
  MAX_ADDS    \* bound: numbers one client is asked to add

ASSUME ClientAssumption == Numbers \subseteq Int /\ MAX_ADDS \in Nat

VARIABLES
  requests,  \* requests[s]: REQ packets waiting in the request socket of s
  service,   \* service[s]: the request thread of s
  client,    \* client[c]: the client c
  replies,   \* replies[c]: REQ_ACK packets waiting in the socket of c
  log        \* history: the requests carried out, each with the running total

svars == <<requests, service, client, replies, log>>

allvars == <<vars, svars>>
-------------------------------------------------------------------------------
NoServer == -1

Request == [from: Client, seqn: Nat, value: Int]

Reply == [server: Server, seqn: Nat, value: Int, status: {0, 1}]

\* at is where the thread stands: before recvfrom, before its first call of
\* get_current_sum, of update_state, or of get_current_sum for the answer.
Idle == [at |-> "receive"]

Working == [at: {"refuse", "read", "update", "answer"}, request: Request, sum: Int]

\* again: whether this is the second send_request for the number.
\* shown: history, the number of the request whose sum was printed last.
ClientState ==
  [at: {"unconnected", "ready", "waiting", "searching"}, server: Server \cup {NoServer},
   number: Int, again: BOOLEAN, seqn: Nat, adds: 0..MAX_ADDS, shown: Nat]

NewClient ==
  [at |-> "unconnected", server |-> NoServer, number |-> 0, again |-> FALSE,
   seqn |-> 1, adds |-> 0, shown |-> 0]

Total == IF log = <<>> THEN 0 ELSE log[Len(log)].total
-------------------------------------------------------------------------------
(* The request thread.                                                      *)

ReceiveUnchecked(s) ==
  /\ s \in up
  /\ service[s].at = "receive"
  /\ requests[s] # <<>>
  /\ requests' = [requests EXCEPT ![s] = Tail(@)]
  /\ service' = [service EXCEPT ![s] =
                   [at |-> "read", request |-> Head(requests[s]), sum |-> 0]]
  /\ UNCHANGED <<vars, client, replies, log>>

\* A packet is taken and is_primary read, which takes no mutex.
ReceiveRequest(s) ==
  /\ s \in up
  /\ service[s].at = "receive"
  /\ requests[s] # <<>>
  /\ requests' = [requests EXCEPT ![s] = Tail(@)]
  /\ service' = [service EXCEPT ![s] =
                   [at |-> IF rm[s].is_primary THEN "read" ELSE "refuse",
                    request |-> Head(requests[s]), sum |-> 0]]
  /\ UNCHANGED <<vars, client, replies, log>>

AnswerWithOldSum(s, status) ==
  LET q == service[s].request IN
  /\ replies' = [replies EXCEPT ![q.from] =
                   Append(@, [server |-> s, seqn |-> q.seqn,
                              value |-> service[s].sum, status |-> status])]
  /\ service' = [service EXCEPT ![s] = Idle]

AnswerTwice(s, status) ==
  LET q == service[s].request
      r == [server |-> s, seqn |-> q.seqn, value |-> rm[s].current_sum, status |-> status]
  IN  /\ replies' = [replies EXCEPT ![q.from] = @ \o <<r, r>>]
      /\ service' = [service EXCEPT ![s] = Idle]

Answer(s, status) ==
  LET q == service[s].request IN
  /\ replies' = [replies EXCEPT ![q.from] =
                   Append(@, [server |-> s, seqn |-> q.seqn,
                              value |-> rm[s].current_sum, status |-> status])]
  /\ service' = [service EXCEPT ![s] = Idle]

Refuse(s) ==
  /\ s \in up /\ service[s].at = "refuse"
  /\ Answer(s, 1)
  /\ UNCHANGED <<vars, requests, client, log>>

ReadSum(s) ==
  /\ s \in up /\ service[s].at = "read"
  /\ service' = [service EXCEPT ![s].at = "update", ![s].sum = rm[s].current_sum]
  /\ UNCHANGED <<vars, requests, client, replies, log>>

Update(s) ==
  /\ s \in up /\ service[s].at = "update"
  /\ LET q == service[s].request
     IN  /\ CallWith(s, service[s].sum + q.value, q.seqn)
         /\ log' = Append(log, [from |-> q.from, seqn |-> q.seqn, total |-> Total + q.value])
  /\ service' = [service EXCEPT ![s].at = "answer"]
  /\ UNCHANGED <<requests, client, replies>>

AnswerAsReplica(s) ==
  /\ s \in up /\ service[s].at = "answer"
  /\ Answer(s, IF rm[s].is_primary THEN 0 ELSE 2)
  /\ UNCHANGED <<vars, requests, client, log>>

AnswerRequest(s) ==
  /\ s \in up /\ service[s].at = "answer"
  /\ Answer(s, 0)
  /\ UNCHANGED <<vars, requests, client, log>>

RequestStep(s) ==
  ReceiveRequest(s) \/ Refuse(s) \/ ReadSum(s) \/ Update(s) \/ AnswerRequest(s)
-------------------------------------------------------------------------------
(* The client.                                                              *)

\* discover_server asks the ports in ascending order and takes the first that
\* answers within a second; every server does whose threads have been created,
\* the primary or not, unless a datagram is lost.
Discovered(s) == Serving(s) /\ (Lossy \/ \A t \in Server : Serving(t) => s <= t)

NothingFound == Lossy \/ \A s \in Server : ~Serving(s)

SendsSameSeqn(c, s, number, again) ==
  /\ requests' = IF Serving(s)
                 THEN [requests EXCEPT ![s] =
                         Append(@, [from |-> c, value |-> number,
                                    seqn |-> client[c].seqn - (IF again THEN 1 ELSE 0)])]
                 ELSE requests
  /\ client' = [client EXCEPT ![c] =
                  [at |-> "waiting", server |-> s, number |-> number, again |-> again,
                   seqn |-> @.seqn + 1, adds |-> IF again THEN @.adds ELSE @.adds + 1,
                   shown |-> @.shown]]

\* send_request up to its recvfrom: the packet, numbered, to the server.
SendTo(c, s, number, again) ==
  /\ requests' = IF Serving(s)
                 THEN [requests EXCEPT ![s] =
                         Append(@, [from |-> c, seqn |-> client[c].seqn, value |-> number])]
                 ELSE requests
  /\ client' = [client EXCEPT ![c] =
                  [at |-> "waiting", server |-> s, number |-> number, again |-> again,
                   seqn |-> @.seqn + 1, adds |-> IF again THEN @.adds ELSE @.adds + 1,
                   shown |-> @.shown]]

Connect(c) ==
  /\ client[c].at = "unconnected"
  /\ \E s \in Server :
       /\ Discovered(s)
       /\ client' = [client EXCEPT ![c].at = "ready", ![c].server = s]
  /\ UNCHANGED <<vars, requests, service, replies, log>>

Add(c) ==
  /\ client[c].at = "ready"
  /\ client[c].adds < MAX_ADDS
  /\ \E number \in Numbers : SendTo(c, client[c].server, number, FALSE)
  /\ UNCHANGED <<vars, service, replies, log>>

\* What RunClient does next when send_request has returned result; from is
\* where a later request is sent, seqn the number in the answer if there is one.
Afterwards(c, result, from, seqn) ==
  client' = [client EXCEPT ![c].server = from,
                           ![c].at = IF result = -2 /\ ~client[c].again
                                     THEN "searching" ELSE "ready",
                           ![c].shown = IF result < 0 THEN @ ELSE seqn]

\* recvfrom overwrites the server's address with that of the sender, and the
\* sequence number of the answer is not looked at.
TakeReply(c) ==
  /\ client[c].at = "waiting"
  /\ replies[c] # <<>>
  /\ LET r == Head(replies[c])
     IN Afterwards(c, IF r.status = 1 THEN -2 ELSE r.value, r.server, r.seqn)
  /\ replies' = [replies EXCEPT ![c] = Tail(@)]
  /\ UNCHANGED <<vars, requests, service, log>>

TimeOut(c) ==
  /\ client[c].at = "waiting"
  /\ replies[c] = <<>>
  /\ Afterwards(c, -2, client[c].server, 0)
  /\ UNCHANGED <<vars, requests, service, replies, log>>

\* The number is sent once more to the server discovered, or given up.
Search(c) ==
  /\ client[c].at = "searching"
  /\ \/ \E s \in Server : Discovered(s) /\ SendTo(c, s, client[c].number, TRUE)
     \/ /\ NothingFound
        /\ client' = [client EXCEPT ![c].at = "ready"]
        /\ UNCHANGED requests
  /\ UNCHANGED <<vars, service, replies, log>>

ClientStep(c) == Connect(c) \/ Add(c) \/ TakeReply(c) \/ TimeOut(c) \/ Search(c)
-------------------------------------------------------------------------------
(* The whole system.  A process that dies loses its request socket too.     *)
LosePacket ==
  /\ Lossy
  /\ \/ \E s \in Server : /\ requests[s] # <<>>
                          /\ requests' = [requests EXCEPT ![s] = Tail(@)]
                          /\ UNCHANGED replies
     \/ \E c \in Client : /\ replies[c] # <<>>
                          /\ replies' = [replies EXCEPT ![c] = Tail(@)]
                          /\ UNCHANGED requests
  /\ UNCHANGED <<vars, service, client, log>>

CrashServer(s) ==
  /\ Crash(s)
  /\ requests' = [requests EXCEPT ![s] = <<>>]
  /\ service' = [service EXCEPT ![s] = Idle]
  /\ UNCHANGED <<client, replies, log>>

ManagerStep ==
  /\ \/ \E s \in Server : StartStep(s) \/ ThreadStep(s) \/ Lose(s)
     \/ Tick
  /\ UNCHANGED svars

NoRequests ==
  /\ requests = [s \in Server |-> <<>>]
  /\ service = [s \in Server |-> Idle]
  /\ client = [c \in Client |-> NewClient]
  /\ replies = [c \in Client |-> <<>>]
  /\ log = <<>>

ServiceInit == Init /\ NoRequests

ServiceNext ==
  \/ ManagerStep
  \/ \E s \in Server : CrashServer(s) \/ RequestStep(s)
  \/ \E c \in Client : ClientStep(c)
  \/ LosePacket

ServiceSpec == ServiceInit /\ [][ServiceNext]_allvars

\* The same where the primary was started before everything else.
PrimaryFirstInit == PrimaryFirst /\ NoRequests

PrimaryFirstSpec == PrimaryFirstInit /\ [][ServiceNext]_allvars
-------------------------------------------------------------------------------
(* Properties.                                                              *)

\* Every variable of this module has its type.
ServiceTypeOK ==
  /\ requests \in [Server -> Seq(Request)]
  /\ service \in [Server -> {Idle} \cup Working]
  /\ client \in [Client -> ClientState]
  /\ replies \in [Client -> Seq(Reply)]
  /\ log \in Seq([from: Client, seqn: Nat, total: Int])

\* The first primary has not been restarted and nobody else has claimed its
\* role.
OnePrimary == claimed = {PRIMARY_PORT} /\ starts[PRIMARY_PORT] = 1

\* While the first primary is the only one, its sum is the sum of all numbers
\* carried out, although it is read and written under two locks.
SumIsTotal ==
  OnePrimary /\ PRIMARY_PORT \in up => rm[PRIMARY_PORT].current_sum = Total

\* While the first primary is the only one, an answer that reports success
\* carries the running total of the very request it names, not one of another
\* moment.
ReplyCounts ==
  OnePrimary =>
    \A c \in Client : \A i \in DOMAIN replies[c] :
      replies[c][i].status = 0 =>
        \E k \in DOMAIN log : /\ log[k].from = c
                            /\ log[k].seqn = replies[c][i].seqn
                            /\ log[k].total = replies[c][i].value

\* While the first primary is the only one, the answers still to come to a
\* client are for later requests than the one whose sum it printed last: an
\* answer that came too late is taken for that of the next request, but the
\* totals a client sees only go forward, and none is printed twice.
ShownInOrder ==
  OnePrimary =>
    \A c \in Client : \A i \in DOMAIN replies[c] :
      replies[c][i].status = 0 => client[c].shown < replies[c][i].seqn

\* A packet is carried out at most once, by one server only, whatever fails
\* and however often the client repeats the number (which it does under a new
\* sequence number, so that the number itself may count twice).
OncePerSeqn ==
  \A j, k \in DOMAIN log :
    log[j].from = log[k].from /\ log[j].seqn = log[k].seqn => j = k

\* Where no datagram is lost and there is one client, a replica that has got a
\* state from the only primary and has no update left to read holds the sum
\* of that primary, however it was restarted ("propaga atualizacao para
\* replicas").
InSync ==
  OnePrimary /\ PRIMARY_PORT \in up =>
    \A r \in up :
      /\ rm[r].received_initial_state
      /\ \A i \in DOMAIN queue[r] : queue[r][i].type # "STATE_UPDATE"
      => rm[r].current_sum = rm[PRIMARY_PORT].current_sum

\* The requests of c whose success has been reported, and 0.
Answered(c) ==
  {client[c].shown}
    \cup {replies[c][i].seqn : i \in {j \in DOMAIN replies[c] : replies[c][j].status = 0}}

\* If this step makes s the first one to take over, and s has got a state and
\* read every update, it holds the total of a request no older than any answered.
KeepsAnswers(s) ==
  /\ OnePrimary /\ TakesOver(s) /\ rm[s].received_initial_state
  /\ \A i \in DOMAIN queue[s] : queue[s][i].type # "STATE_UPDATE"
  => \A c \in Client : \A n \in Answered(c) \ {0} :
       \E k \in DOMAIN log : /\ log[k].from = c /\ log[k].seqn >= n
                             /\ log[k].total = rm[s].current_sum

\* Where no datagram is lost and there is one client, the server that takes
\* over from the first primary keeps what was answered ("propaga atualizacao
\* para replicas").  Nothing is said of the request the primary had in hand
\* when it died, which may have reached some replicas only.
HeirKeepsAnswers == [][\A s \in Server : KeepsAnswers(s)]_allvars

\* Only a primary carries out requests (request_service verifies that it is
\* the primary before it updates the state).
PrimaryUpdates ==
  [][\A s \in Server : service[s].at = "update" /\ service'[s].at = "answer"
       => rm[s].is_primary]_allvars
===============================================================================
