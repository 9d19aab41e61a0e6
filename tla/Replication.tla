------------------------------ MODULE Replication ------------------------------
(***************************************************************************)
(* The replication manager of the adder service (replication.c): joining,  *)
(* heartbeats, the bully-style election and the propagation of the sum.    *)
(*                                                                         *)
(* Every server is a process on one host.  Its port is its id, and its     *)
(* three threads share the struct rm: the receiver (one handler per        *)
(* message type), the primary checker (only where the server was started   *)
(* as a replica) and the heartbeat thread (only where it was started as    *)
(* the primary).  The request thread of server_prot.c enters through       *)
(* update_state; here it is any call, module RequestService says which.    *)
(***************************************************************************)
EXTENDS Integers, Sequences, FiniteSets

CONSTANTS
  Server,          \* the ports servers are started on, which are their ids
  PRIMARY_PORT,    \* the port whose server starts as the primary
  MAX_REPLICAS,    \* capacity of rm.replicas
  REPLICA_TIMEOUT, \* a heartbeat this old still stops an election
  PRIMARY_TIMEOUT, \* a heartbeat this old still shows a live primary
  BURST,           \* copies of a message "sent several times"
  Sums, Seqns      \* what the caller of update_state may pass

CONSTANTS
  RCVBUF,          \* bound: datagrams the kernel holds for one socket
  MAX_HEARTBEATS,  \* bound: unread heartbeats of one sender in one socket
  MAX_STARTS,      \* bound: how often one server is started
  MAX_UPDATES,     \* bound: different states passed to update_state
  Lossy            \* whether a datagram may vanish although there was room

ASSUME ServerAssumption ==
  Server \subseteq Nat /\ IsFiniteSet(Server) /\ PRIMARY_PORT \in Server
ASSUME TimeoutAssumption ==
  /\ REPLICA_TIMEOUT \in Nat /\ PRIMARY_TIMEOUT \in Nat
  /\ REPLICA_TIMEOUT <= PRIMARY_TIMEOUT
ASSUME BoundAssumption ==
  /\ MAX_REPLICAS \in Nat \ {0} /\ BURST \in Nat \ {0} /\ RCVBUF \in Nat \ {0}
  /\ MAX_HEARTBEATS \in Nat /\ MAX_STARTS \in Nat /\ MAX_UPDATES \in Nat
  /\ Lossy \in BOOLEAN
ASSUME CallAssumption == Sums \subseteq Int /\ Seqns \subseteq Int

VARIABLES
  up,        \* the servers whose process runs
  rm,        \* rm[s]: the replication_manager of s
  queue,     \* queue[s]: datagrams waiting in the replication socket of s
  receiver,  \* receiver[s]: where the receiver thread of s is
  checker,   \* checker[s]: where the primary checker thread of s is
  joins,     \* joins[s]: copies of its JOIN_REQUEST that s is still to send
  starts,    \* bound: how often each server has been started
  updates,   \* history: the states (sum, seqn) passed to update_state
  claimed    \* history: servers that have been primary at some time

vars == <<up, rm, queue, receiver, checker, joins, starts, updates, claimed>>
-------------------------------------------------------------------------------
(* replica_info.  last_heartbeat is kept as its age, which saturates just   *)
(* past PRIMARY_TIMEOUT because it is only ever compared with the timeouts. *)
(* repl_addr says whether addr is the replication socket of the replica;    *)
(* the only other value stored there is its discovery port, whose service   *)
(* drops what is not a client's DESC packet.                                *)
EXPIRED == PRIMARY_TIMEOUT + 1

Entry == [listed: BOOLEAN, is_alive: BOOLEAN, age: 0..EXPIRED,
          repl_addr: BOOLEAN, state_confirmed: BOOLEAN]

NoEntry == [listed |-> FALSE, is_alive |-> FALSE, age |-> 0,
            repl_addr |-> FALSE, state_confirmed |-> FALSE]

NoReplicas == [r \in Server |-> NoEntry]

FreshEntry(addressed, confirmed) ==
  [listed |-> TRUE, is_alive |-> TRUE, age |-> 0,
   repl_addr |-> addressed, state_confirmed |-> confirmed]

Manager == [is_primary: BOOLEAN, primary_id: Server,
            current_sum: Int, last_seqn: Int,
            received_initial_state: BOOLEAN, election_in_progress: BOOLEAN,
            replicas: [Server -> Entry]]

(* replica_message; a field no receiver of the type reads stays zero.       *)
MessageType == {"HEARTBEAT", "JOIN_REQUEST", "STATE_UPDATE", "STATE_ACK",
                "REPLICA_LIST_UPDATE", "START_ELECTION", "ELECTION_RESPONSE",
                "VICTORY", "VICTORY_ACK"}

Message == [type: MessageType, replica_id: Server,
            current_sum: Int, last_seqn: Int, replicas: [Server -> Entry]]

Plain(type, s) ==
  [type |-> type, replica_id |-> s, current_sum |-> 0, last_seqn |-> 0,
   replicas |-> NoReplicas]

WithState(type, s) ==
  [Plain(type, s) EXCEPT !.current_sum = rm[s].current_sum,
                         !.last_seqn = rm[s].last_seqn]

WithList(s, R) == [Plain("REPLICA_LIST_UPDATE", s) EXCEPT !.replicas = R]

Listed(R) == {r \in Server : R[r].listed}

\* Whom a message sent to every listed address of D really reaches.
Addressed(R, D) == {r \in D \cap Listed(R) : R[r].repl_addr}

\* The copies sent in a row by a thread that holds the mutex all the while.
Burst(m) == [i \in 1..BURST |-> m]

To(D, ms) == [d \in Server |-> IF d \in D THEN ms ELSE <<>>]

\* sendto on the loopback: in order into the socket of a running process, and
\* dropped when that socket is full.
Deliver(q, out) ==
  [d \in Server |->
     IF d \notin up \/ out[d] = <<>> THEN q[d]
     ELSE IF Len(q[d]) + Len(out[d]) <= RCVBUF THEN q[d] \o out[d]
     ELSE SubSeq(q[d] \o out[d], 1, RCVBUF)]
-------------------------------------------------------------------------------
(* Start and end of a process.                                              *)

BootLeaderless(s) ==
  [is_primary |-> s = PRIMARY_PORT,
   primary_id |-> IF s = PRIMARY_PORT THEN s ELSE 0,
   current_sum |-> 0, last_seqn |-> 0,
   received_initial_state |-> s = PRIMARY_PORT, election_in_progress |-> FALSE,
   replicas |-> [NoReplicas EXCEPT ![PRIMARY_PORT] =
                   FreshEntry(TRUE, s = PRIMARY_PORT)]]

\* rm after init_replication_manager: the primary lists itself, a replica
\* lists the primary.
Boot(s) ==
  [is_primary |-> s = PRIMARY_PORT, primary_id |-> PRIMARY_PORT,
   current_sum |-> 0, last_seqn |-> 0,
   received_initial_state |-> s = PRIMARY_PORT, election_in_progress |-> FALSE,
   replicas |-> [NoReplicas EXCEPT ![PRIMARY_PORT] =
                   FreshEntry(TRUE, s = PRIMARY_PORT)]]

CheckerAlways(s) == "ready"

\* primary_check_service is created only by a server started as a replica,
\* heartbeat_service only by one started as the primary.
CheckerStart(s) == IF s = PRIMARY_PORT THEN "none" ELSE "ready"

HasHeartbeatThread(s) == s = PRIMARY_PORT

\* init_replication_manager, up to the bind of the socket.
Start(s) ==
  /\ s \notin up
  /\ starts[s] < MAX_STARTS
  /\ up' = up \cup {s}
  /\ rm' = [rm EXCEPT ![s] = Boot(s)]
  /\ joins' = [joins EXCEPT ![s] = IF s = PRIMARY_PORT THEN 0 ELSE BURST]
  /\ starts' = [starts EXCEPT ![s] = @ + 1]
  /\ claimed' = IF s = PRIMARY_PORT THEN claimed \cup {s} ELSE claimed
  /\ UNCHANGED <<queue, receiver, checker, updates>>

\* One copy of the JOIN_REQUEST.  No mutex is held, and the primary may handle
\* it, or s may die, before the next one is sent.
SendJoinRequest(s) ==
  /\ s \in up /\ joins[s] > 0
  /\ queue' = Deliver(queue, To({PRIMARY_PORT}, <<Plain("JOIN_REQUEST", s)>>))
  /\ joins' = [joins EXCEPT ![s] = @ - 1]
  /\ UNCHANGED <<up, rm, receiver, checker, starts, updates, claimed>>

\* The threads are created when the last copy has been sent.
CreateThreads(s) ==
  /\ s \in up /\ joins[s] = 0 /\ receiver[s] = "none"
  /\ receiver' = [receiver EXCEPT ![s] = "ready"]
  /\ checker' = [checker EXCEPT ![s] = CheckerStart(s)]
  /\ UNCHANGED <<up, rm, queue, joins, starts, updates, claimed>>

StartStep(s) == Start(s) \/ SendJoinRequest(s) \/ CreateThreads(s)

\* The request and discovery threads are created after those of the manager.
Serving(s) == s \in up /\ receiver[s] # "none"

\* The process dies; its memory and its socket are gone.
Crash(s) ==
  /\ s \in up
  /\ up' = up \ {s}
  /\ rm' = [rm EXCEPT ![s] = Boot(s)]
  /\ queue' = [queue EXCEPT ![s] = <<>>]
  /\ receiver' = [receiver EXCEPT ![s] = "none"]
  /\ checker' = [checker EXCEPT ![s] = "none"]
  /\ joins' = [joins EXCEPT ![s] = 0]
  /\ UNCHANGED <<starts, updates, claimed>>
-------------------------------------------------------------------------------
(* The receiver thread.  Receives(s, t) is the head of its loop: the first  *)
(* datagram is of type t; Rest is what stays queued, and Heard the replica  *)
(* list once the address of the sender has been refreshed.                  *)
Received(s) == Head(queue[s])

Receives(s, type) ==
  /\ s \in up
  /\ receiver[s] = "ready"
  /\ queue[s] # <<>>
  /\ Received(s).type = type

Rest(s) == [queue EXCEPT ![s] = Tail(@)]

HeardAtOldAddress(s) == rm[s].replicas

Heard(s) ==
  LET R    == rm[s].replicas
      from == Received(s).replica_id
  IN  IF R[from].listed THEN [R EXCEPT ![from] = [@ EXCEPT !.repl_addr = TRUE]] ELSE R

\* The list with the entry of r seen alive now, if there is one.
SeenAlive(R, r) ==
  IF R[r].listed THEN [R EXCEPT ![r] = [@ EXCEPT !.is_alive = TRUE, !.age = 0]] ELSE R

Confirmed(R, r) ==
  IF R[r].listed THEN [R EXCEPT ![r] = [@ EXCEPT !.state_confirmed = TRUE]] ELSE R

HasRoomOffByOne(R) == Cardinality(Listed(R)) <= MAX_REPLICAS

\* replicas[replica_count] is still inside the array.
HasRoom(R) == Cardinality(Listed(R)) < MAX_REPLICAS

Unbounded == UNCHANGED <<up, joins, starts, updates>>

FollowsHeartbeat(s) ==
  /\ Receives(s, "HEARTBEAT")
  /\ rm' = [rm EXCEPT ![s].replicas = SeenAlive(Heard(s), Received(s).replica_id),
                      ![s].primary_id = Received(s).replica_id,
                      ![s].is_primary = FALSE]
  /\ queue' = Rest(s)
  /\ UNCHANGED <<receiver, checker, claimed>> /\ Unbounded

HandleHeartbeat(s) ==
  /\ Receives(s, "HEARTBEAT")
  /\ rm' = [rm EXCEPT ![s].replicas = SeenAlive(Heard(s), Received(s).replica_id)]
  /\ queue' = Rest(s)
  /\ UNCHANGED <<receiver, checker, claimed>> /\ Unbounded

\* add_replica, then send_replica_list to the sender.  A new entry holds the
\* bare port of the sender, so only the others are reached until the sender is
\* heard again.
HandleJoinRequest(s) ==
  /\ Receives(s, "JOIN_REQUEST")
  /\ LET from == Received(s).replica_id
         R    == Heard(s)
         Known(list) == [rm EXCEPT ![s].replicas = list]
     IN  \/ /\ ~rm[s].is_primary
            /\ rm' = Known(R)
            /\ queue' = Rest(s)
         \/ /\ rm[s].is_primary /\ R[from].listed
            /\ LET list == [SeenAlive(R, from) EXCEPT ![from] =
                                [@ EXCEPT !.state_confirmed = FALSE]]
               IN /\ rm' = Known(list)
                  /\ queue' = Deliver(Rest(s), To({from}, Burst(WithList(s, list))))
         \/ /\ rm[s].is_primary /\ ~R[from].listed
            /\ HasRoom(R)
            /\ LET list == [R EXCEPT ![from] = FreshEntry(FALSE, FALSE)]
               IN /\ rm' = Known(list)
                  /\ queue' = Deliver(Rest(s), To(Addressed(list, Server \ {s}),
                                                  Burst(WithList(s, list))))
         \/ /\ rm[s].is_primary /\ ~R[from].listed
            /\ ~HasRoom(R)
            /\ rm' = Known(R)
            /\ queue' = Rest(s)
  /\ UNCHANGED <<receiver, checker, claimed>> /\ Unbounded

\* Entries of the message replace those of the same id; new ones are appended
\* while there is room (which ones is a matter of list order).
HandleReplicaList(s) ==
  /\ Receives(s, "REPLICA_LIST_UPDATE")
  /\ LET R     == Heard(s)
         sent  == Received(s).replicas
         fresh == Listed(sent) \ Listed(R)
         With(taken) == [r \in Server |-> IF r \in taken \cup (Listed(sent) \cap Listed(R))
                                          THEN sent[r] ELSE R[r]]
     IN \E taken \in SUBSET fresh :
          /\ \A r \in taken : HasRoom(With(taken \ {r}))
          /\ taken # fresh => ~HasRoom(With(taken))
          /\ rm' = [rm EXCEPT ![s].replicas = With(taken)]
  /\ queue' = Rest(s)
  /\ UNCHANGED <<receiver, checker, claimed>> /\ Unbounded

\* A state is taken over when its sequence number is not older.
NotOlder(m, s) == m.last_seqn >= rm[s].last_seqn

AdoptsSeqnOnly(m, M) == [M EXCEPT !.last_seqn = m.last_seqn]

\* The manager M with the state carried by m.
Adopts(m, M) == [M EXCEPT !.current_sum = m.current_sum, !.last_seqn = m.last_seqn]

HandleStateUpdate(s) ==
  /\ Receives(s, "STATE_UPDATE")
  /\ LET m == Received(s)
     IN  \/ /\ m.replica_id # rm[s].primary_id
            /\ rm' = [rm EXCEPT ![s].replicas = Heard(s)]
            /\ queue' = Rest(s)
         \/ /\ m.replica_id = rm[s].primary_id
            /\ LET heard == [rm[s] EXCEPT !.replicas = Heard(s)]
               IN rm' = [rm EXCEPT ![s] =
                           IF NotOlder(m, s)
                           THEN [Adopts(m, heard) EXCEPT !.election_in_progress = FALSE,
                                                         !.received_initial_state = TRUE]
                           ELSE heard]
            /\ queue' = Deliver(Rest(s), To({m.replica_id}, <<Plain("STATE_ACK", s)>>))
  /\ UNCHANGED <<receiver, checker, claimed>> /\ Unbounded

HandleStateAck(s) ==
  /\ Receives(s, "STATE_ACK")
  /\ rm' = [rm EXCEPT ![s].replicas =
              IF rm[s].is_primary THEN Confirmed(Heard(s), Received(s).replica_id)
              ELSE Heard(s)]
  /\ queue' = Rest(s)
  /\ UNCHANGED <<receiver, checker, claimed>> /\ Unbounded

\* Who answers an election, and who then holds one of its own.
Answers(s, from) == rm[s].is_primary \/ from < s

HandleStartElection(s) ==
  /\ Receives(s, "START_ELECTION")
  /\ LET from == Received(s).replica_id
     IN  /\ rm' = [rm EXCEPT ![s].replicas = Heard(s)]
         /\ queue' = IF Answers(s, from)
                     THEN Deliver(Rest(s), To({from}, Burst(Plain("ELECTION_RESPONSE", s))))
                     ELSE Rest(s)
         /\ receiver' = IF Answers(s, from) /\ ~rm[s].is_primary
                        THEN [receiver EXCEPT ![s] = "elect"] ELSE receiver
  /\ UNCHANGED <<checker, claimed>> /\ Unbounded

HandleElectionResponse(s) ==
  /\ Receives(s, "ELECTION_RESPONSE")
  /\ LET from == Received(s).replica_id
     IN rm' = IF rm[s].election_in_progress /\ from > s
              THEN [rm EXCEPT ![s].election_in_progress = FALSE,
                              ![s].replicas = SeenAlive(Heard(s), from)]
              ELSE [rm EXCEPT ![s].replicas = Heard(s)]
  /\ queue' = Rest(s)
  /\ UNCHANGED <<receiver, checker, claimed>> /\ Unbounded

\* Whether s gives way to a victory declared by from.
GivesWay(s, from) == from > s

FollowsInRole(s, from) ==
  [rm[s] EXCEPT !.primary_id = from,
                !.election_in_progress = FALSE,
                !.received_initial_state = FALSE,
                !.replicas = SeenAlive(Heard(s), from)]

\* The manager of s once it follows from, before it takes a state over.
Follows(s, from) ==
  [rm[s] EXCEPT !.is_primary = FALSE,
                !.primary_id = from,
                !.election_in_progress = FALSE,
                !.received_initial_state = FALSE,
                !.replicas = SeenAlive(Heard(s), from)]

HandleVictory(s) ==
  /\ Receives(s, "VICTORY")
  /\ LET m    == Received(s)
         from == m.replica_id
     IN  \/ /\ GivesWay(s, from)
            /\ rm' = [rm EXCEPT ![s] = IF NotOlder(m, s) THEN Adopts(m, Follows(s, from))
                                       ELSE Follows(s, from)]
            /\ queue' = Deliver(Rest(s), To({from}, Burst(Plain("VICTORY_ACK", s))))
         \/ /\ ~GivesWay(s, from)
            /\ rm' = [rm EXCEPT ![s].replicas = Heard(s)]
            /\ queue' = Rest(s)
  /\ UNCHANGED <<receiver, checker, claimed>> /\ Unbounded

HandleVictoryAck(s) ==
  /\ Receives(s, "VICTORY_ACK")
  /\ rm' = [rm EXCEPT ![s].replicas = Confirmed(Heard(s), Received(s).replica_id)]
  /\ queue' = Rest(s)
  /\ UNCHANGED <<receiver, checker, claimed>> /\ Unbounded
-------------------------------------------------------------------------------
(* The heartbeat thread and the primary checker.                            *)

Heartbeats(s, d) ==
  Cardinality({i \in DOMAIN queue[d] : queue[d][i].type = "HEARTBEAT"
                                       /\ queue[d][i].replica_id = s})

AliveReplicas(s) ==
  {r \in Addressed(rm[s].replicas, Server \ {s}) : rm[s].replicas[r].is_alive}

SendHeartbeats(s) ==
  LET D == {d \in AliveReplicas(s) : Heartbeats(s, d) < MAX_HEARTBEATS} IN
  /\ s \in up /\ HasHeartbeatThread(s)
  /\ rm[s].is_primary
  /\ D # {}
  /\ queue' = Deliver(queue, To(D, <<Plain("HEARTBEAT", s)>>))
  /\ UNCHANGED <<rm, receiver, checker, claimed>> /\ Unbounded

\* check_primary_status reads is_primary before it takes the mutex.
BeginCheck(s) ==
  /\ s \in up
  /\ checker[s] = "ready"
  /\ ~rm[s].is_primary
  /\ checker' = [checker EXCEPT ![s] = "check"]
  /\ UNCHANGED <<rm, queue, receiver, claimed>> /\ Unbounded

IsMarkedAlive(s, timeout) ==
  LET p == rm[s].replicas[rm[s].primary_id] IN p.listed /\ p.is_alive

\* The primary s follows is marked alive and was heard within the timeout.
SeemsAlive(s, timeout) ==
  LET p == rm[s].replicas[rm[s].primary_id] IN
  p.listed /\ p.is_alive /\ p.age <= timeout

CheckPrimary(s) ==
  /\ s \in up
  /\ checker[s] = "check"
  /\ LET p == rm[s].primary_id
     IN  \/ /\ \/ SeemsAlive(s, PRIMARY_TIMEOUT)
               \/ rm[s].replicas[p].listed /\ ~rm[s].received_initial_state
            /\ checker' = [checker EXCEPT ![s] = "ready"]
            /\ UNCHANGED rm
         \/ /\ rm[s].replicas[p].listed /\ ~SeemsAlive(s, PRIMARY_TIMEOUT)
            /\ rm[s].received_initial_state
            /\ rm' = [rm EXCEPT ![s].replicas[p].is_alive = FALSE]
            /\ checker' = [checker EXCEPT ![s] = "elect"]
         \/ /\ ~rm[s].replicas[p].listed
            /\ checker' = [checker EXCEPT ![s] = "elect"]
            /\ UNCHANGED rm
  /\ UNCHANGED <<queue, receiver, claimed>> /\ Unbounded

(* start_election up to its final sleep, once the mutex is held.            *)
\* Higher ids in the list, alive or not.
Higher(s) == {r \in Listed(rm[s].replicas) : r > s}

ToldIfAlive(s) == AliveReplicas(s)

\* Whom a victory reaches.
Told(s) == Addressed(rm[s].replicas, Server \ {s})

SkipElection(s) ==
  /\ SeemsAlive(s, REPLICA_TIMEOUT)
  /\ UNCHANGED <<rm, queue, claimed>>

CallElection(s) ==
  /\ ~SeemsAlive(s, REPLICA_TIMEOUT)
  /\ Higher(s) # {}
  /\ rm' = [rm EXCEPT ![s].election_in_progress = TRUE]
  /\ queue' = Deliver(queue, To(Addressed(rm[s].replicas, Higher(s)),
                                Burst(Plain("START_ELECTION", s))))
  /\ UNCHANGED claimed

DeclareVictory(s) ==
  /\ ~SeemsAlive(s, REPLICA_TIMEOUT)
  /\ Higher(s) = {}
  /\ rm' = [rm EXCEPT ![s].is_primary = TRUE,
                      ![s].primary_id = s,
                      ![s].election_in_progress = FALSE]
  /\ queue' = Deliver(queue, To(Told(s), Append(Burst(WithState("VICTORY", s)),
                                       WithState("STATE_UPDATE", s))))
  /\ claimed' = claimed \cup {s}

\* Either thread may run start_election, and sleeps afterwards unless skipped.
AfterElection(s) == IF SeemsAlive(s, REPLICA_TIMEOUT) THEN "ready" ELSE "sleep"

ElectionStep(s) == SkipElection(s) \/ CallElection(s) \/ DeclareVictory(s)

ReceiverElection(s) ==
  /\ s \in up /\ receiver[s] = "elect"
  /\ ElectionStep(s)
  /\ receiver' = [receiver EXCEPT ![s] = AfterElection(s)]
  /\ UNCHANGED checker /\ Unbounded

CheckerElection(s) ==
  /\ s \in up /\ checker[s] = "elect"
  /\ ElectionStep(s)
  /\ checker' = [checker EXCEPT ![s] = AfterElection(s)]
  /\ UNCHANGED receiver /\ Unbounded

ReceiverWakes(s) ==
  /\ s \in up /\ receiver[s] = "sleep"
  /\ receiver' = [receiver EXCEPT ![s] = "ready"]
  /\ UNCHANGED <<rm, queue, checker, claimed>> /\ Unbounded

CheckerWakes(s) ==
  /\ s \in up /\ checker[s] = "sleep"
  /\ checker' = [checker EXCEPT ![s] = "ready"]
  /\ UNCHANGED <<rm, queue, receiver, claimed>> /\ Unbounded
-------------------------------------------------------------------------------
(* update_state, called by the request thread.                              *)
SendsBeforeUpdate(s, new_sum, seqn) ==
  /\ s \in up
  /\ rm' = [rm EXCEPT ![s].current_sum = new_sum, ![s].last_seqn = seqn]
  /\ queue' = IF rm[s].is_primary
              THEN Deliver(queue, To(AliveReplicas(s), <<WithState("STATE_UPDATE", s)>>))
              ELSE queue
  /\ UNCHANGED <<up, receiver, checker, claimed>>

UpdateState(s, new_sum, seqn) ==
  /\ s \in up
  /\ rm' = [rm EXCEPT ![s].current_sum = new_sum, ![s].last_seqn = seqn]
  /\ LET m == [Plain("STATE_UPDATE", s) EXCEPT !.current_sum = new_sum,
                                               !.last_seqn = seqn]
     IN queue' = IF rm[s].is_primary
                 THEN Deliver(queue, To(AliveReplicas(s), <<m>>)) ELSE queue
  /\ UNCHANGED <<up, receiver, checker, claimed>>

CallWith(s, new_sum, seqn) ==
  /\ Cardinality(updates) < MAX_UPDATES
  /\ UpdateState(s, new_sum, seqn)
  /\ updates' = updates \cup {<<new_sum, seqn>>}
  /\ UNCHANGED <<joins, starts>>

CallUpdateState(s) ==
  /\ Serving(s)
  /\ \E new_sum \in Sums, seqn \in Seqns : CallWith(s, new_sum, seqn)
-------------------------------------------------------------------------------
(* The environment: time, and the loss of a datagram.                       *)
Aged(R) ==
  [r \in Server |-> IF R[r].listed /\ R[r].age < EXPIRED
                    THEN [R[r] EXCEPT !.age = @ + 1] ELSE R[r]]

Tick ==
  /\ rm' = [s \in Server |-> IF s \in up THEN [rm[s] EXCEPT !.replicas = Aged(@)]
                             ELSE rm[s]]
  /\ queue' = [s \in Server |-> [i \in DOMAIN queue[s] |->
                 [queue[s][i] EXCEPT !.replicas = Aged(@)]]]
  /\ UNCHANGED <<receiver, checker, claimed>> /\ Unbounded

Lose(s) ==
  /\ Lossy
  /\ queue[s] # <<>>
  /\ queue' = Rest(s)
  /\ UNCHANGED <<rm, receiver, checker, claimed>> /\ Unbounded
-------------------------------------------------------------------------------
\* Those in Up have just been started, and nothing else has happened.
Begin(Up) ==
  /\ up = Up
  /\ rm = [s \in Server |-> Boot(s)]
  /\ queue = [s \in Server |-> <<>>]
  /\ receiver = [s \in Server |-> "none"]
  /\ checker = [s \in Server |-> "none"]
  /\ joins = [s \in Server |-> 0]
  /\ starts = [s \in Server |-> IF s \in Up THEN 1 ELSE 0]
  /\ updates = {}
  /\ claimed = Up

Init == Begin({})

\* The state after the first step of Spec, if that is Start(PRIMARY_PORT).
PrimaryFirst == Begin({PRIMARY_PORT})

Receive(s) ==
  \/ HandleHeartbeat(s) \/ HandleJoinRequest(s) \/ HandleReplicaList(s)
  \/ HandleStateUpdate(s) \/ HandleStateAck(s)
  \/ HandleStartElection(s) \/ HandleElectionResponse(s)
  \/ HandleVictory(s) \/ HandleVictoryAck(s)

\* One step of a thread of server s other than its request thread.
ThreadStep(s) ==
  \/ Receive(s) \/ ReceiverElection(s) \/ ReceiverWakes(s)
  \/ BeginCheck(s) \/ CheckPrimary(s) \/ CheckerElection(s) \/ CheckerWakes(s)
  \/ SendHeartbeats(s)

Next ==
  \/ \E s \in Server : StartStep(s) \/ Crash(s) \/ ThreadStep(s)
                       \/ CallUpdateState(s) \/ Lose(s)
  \/ Tick

Spec == Init /\ [][Next]_vars

(* Each thread runs on, and time goes on; nothing obliges the request      *)
(* thread, the heartbeat thread or the environment.                        *)
ReceiverThread(s) == Receive(s) \/ ReceiverElection(s) \/ ReceiverWakes(s)

CheckerThread(s) == BeginCheck(s) \/ CheckPrimary(s) \/ CheckerElection(s) \/ CheckerWakes(s)

Fairness ==
  /\ \A s \in Server : WF_vars(ReceiverThread(s)) /\ WF_vars(CheckerThread(s))
  /\ WF_vars(Tick)
-------------------------------------------------------------------------------
(* Properties.                                                              *)

\* Every variable has its type, and no socket holds more than its buffer.
TypeOK ==
  /\ up \in SUBSET Server
  /\ rm \in [Server -> Manager]
  /\ queue \in [Server -> Seq(Message)]
  /\ \A s \in Server : Len(queue[s]) <= RCVBUF
  /\ receiver \in [Server -> {"none", "ready", "elect", "sleep"}]
  /\ checker \in [Server -> {"none", "ready", "check", "elect", "sleep"}]
  /\ joins \in [Server -> 0..BURST]
  /\ starts \in [Server -> Nat]
  /\ updates \in SUBSET (Int \X Int)
  /\ claimed \in SUBSET Server

\* The replicas a server lists fit into the array, although a list it is sent
\* may name others than its own.
ListFits == \A s \in Server : Cardinality(Listed(rm[s].replicas)) <= MAX_REPLICAS

\* is_primary and primary_id, which different threads read, never disagree
\* about whether a server is the primary itself, however elections, victories
\* of others and restarts interleave.
RoleMatchesLeader ==
  \A s \in up : rm[s].is_primary <=> rm[s].primary_id = s

\* current_sum and last_seqn travel in victories and updates and are stored by
\* two handlers and update_state; the pair a server or a datagram holds is
\* always the initial one or one that update_state was called with.
NoTornState ==
  LET States == {<<0, 0>>} \cup updates IN
  /\ \A s \in Server : <<rm[s].current_sum, rm[s].last_seqn>> \in States
  /\ \A s \in Server : \A i \in DOMAIN queue[s] :
       <<queue[s][i].current_sum, queue[s][i].last_seqn>> \in States

\* The step in which a running server becomes the primary.
TakesOver(s) ==
  s \in up /\ s \in up' /\ ~rm[s].is_primary /\ (rm[s].is_primary)'

\* The server started as the primary has no checker thread and never answers
\* an election with one of its own: once it has stepped down it does not lead
\* again before it is restarted.
SteppedDownStaysDown ==
  [][~TakesOver(PRIMARY_PORT)]_vars

\* Where no datagram is lost and no server is restarted, of two primaries the
\* lower one still has the victory of the higher one to read, if the higher
\* one knows its address: the split ends when it is read.
RivalIsTold ==
  \A p, q \in up :
    p < q /\ rm[p].is_primary /\ rm[q].is_primary /\ rm[q].replicas[p].repl_addr
      => \E i \in DOMAIN queue[p] : queue[p][i].type = "VICTORY" /\ queue[p][i].replica_id = q

\* Where no datagram is lost and the primary was started first, every running
\* replica that it lists while it is the only one can be reached by it, or is
\* still to be heard: the first copy of a JOIN_REQUEST leaves the bare port of
\* the sender, and what the sender does next corrects it.
ListedIsReached ==
  claimed = {PRIMARY_PORT} /\ starts[PRIMARY_PORT] = 1 /\ PRIMARY_PORT \in up =>
    \A r \in up \cap Listed(rm[PRIMARY_PORT].replicas) :
      \/ rm[PRIMARY_PORT].replicas[r].repl_addr
      \/ \E i \in DOMAIN queue[PRIMARY_PORT] : queue[PRIMARY_PORT][i].replica_id = r
      \/ joins[r] > 0

\* A server that takes the role over has received the state from a primary
\* since it was started (check_primary_status does not let a replica elect
\* itself that "haven't received initial state").
InformedLeader ==
  [][\A s \in Server : TakesOver(s) => rm[s].received_initial_state]_vars

\* Who leads, as Leadership sees it (replication implements that module): the
\* primary each running server names, and the servers that ever took the role.
NoLeader == -1

leader == [s \in Server |-> IF s \in up THEN rm[s].primary_id ELSE NoLeader]

Abstract == INSTANCE Leadership WITH leader <- leader, claimed <- claimed

LeadershipSpec == Abstract!Spec
===============================================================================
