--------------------------- MODULE ReplicationProofs ---------------------------
(***************************************************************************)
(* What TLAPS proves of Replication, for every set of servers, every       *)
(* timeout and every buffer size.                                          *)
(***************************************************************************)
EXTENDS Replication, SequenceTheorems, FiniteSetTheorems, TLAPS

\* The states update_state was called with, and the initial one.
States == {<<0, 0>>} \cup updates

\* Datagrams a server may believe: a victory is declared by a server that
\* really claimed the role, and no pair of sum and number is torn.
Credible == {m \in Message : /\ m.type = "VICTORY" => m.replica_id \in claimed
                             /\ <<m.current_sum, m.last_seqn>> \in States}

\* Managers whose two notions of the role agree and whose state is not torn.
Sound(s) == {M \in Manager : /\ M.is_primary <=> M.primary_id = s
                             /\ <<M.current_sum, M.last_seqn>> \in States}

\* Sockets that hold at most RCVBUF datagrams of S.
Sockets(S) == [Server -> {x \in Seq(S) : Len(x) <= RCVBUF}]

\* The inductive invariant.  Credible is what makes it inductive: a handler
\* stores what it reads from the socket.
IInv ==
  /\ up \in SUBSET Server
  /\ rm \in [Server -> Manager]
  /\ \A s \in Server : rm[s] \in Sound(s)
  /\ queue \in Sockets(Credible)
  /\ receiver \in [Server -> {"none", "ready", "elect", "sleep"}]
  /\ checker \in [Server -> {"none", "ready", "check", "elect", "sleep"}]
  /\ joins \in [Server -> 0..BURST]
  /\ starts \in [Server -> Nat]
  /\ updates \in SUBSET (Int \X Int)
  /\ claimed \in SUBSET Server
-------------------------------------------------------------------------------
(* The operators on replica lists return replica lists.                     *)

LEMMA EntryType == NoEntry \in Entry /\ NoReplicas \in [Server -> Entry]
BY TimeoutAssumption DEF NoEntry, NoReplicas, Entry, EXPIRED

LEMMA FreshEntryType ==
  ASSUME NEW a \in BOOLEAN, NEW c \in BOOLEAN
  PROVE  FreshEntry(a, c) \in Entry
BY TimeoutAssumption DEF FreshEntry, Entry, EXPIRED

LEMMA SeenAliveType ==
  ASSUME NEW R \in [Server -> Entry], NEW r \in Server
  PROVE  SeenAlive(R, r) \in [Server -> Entry]
<1>1. R[r] \in Entry /\ 0 \in 0..EXPIRED
  BY TimeoutAssumption DEF EXPIRED
<1>2. [R[r] EXCEPT !.is_alive = TRUE, !.age = 0] \in Entry
  BY <1>1 DEF Entry
<1> QED
  BY <1>2 DEF SeenAlive

LEMMA ConfirmedType ==
  ASSUME NEW R \in [Server -> Entry], NEW r \in Server
  PROVE  Confirmed(R, r) \in [Server -> Entry]
BY DEF Confirmed, Entry

LEMMA AgedType ==
  ASSUME NEW R \in [Server -> Entry]
  PROVE  Aged(R) \in [Server -> Entry]
<1> SUFFICES ASSUME NEW r \in Server
             PROVE  (IF R[r].listed /\ R[r].age < EXPIRED
                     THEN [R[r] EXCEPT !.age = @ + 1] ELSE R[r]) \in Entry
  BY DEF Aged
<1>1. R[r] \in Entry
  OBVIOUS
<1>2. EXPIRED \in Nat
  BY TimeoutAssumption DEF EXPIRED
<1> QED
  BY <1>1, <1>2 DEF Entry

(* The operators on sockets keep them within their buffers.                 *)

LEMMA BurstType ==
  ASSUME NEW S, NEW m \in S
  PROVE  Burst(m) \in Seq(S)
BY BoundAssumption DEF Burst

LEMMA ToType ==
  ASSUME NEW S, NEW D, NEW ms \in Seq(S)
  PROVE  To(D, ms) \in [Server -> Seq(S)]
BY DEF To

LEMMA DeliverType ==
  ASSUME NEW S, NEW q \in Sockets(S), NEW out \in [Server -> Seq(S)]
  PROVE  Deliver(q, out) \in Sockets(S)
<1> SUFFICES ASSUME NEW d \in Server
             PROVE  Deliver(q, out)[d] \in Seq(S) /\ Len(Deliver(q, out)[d]) <= RCVBUF
  BY DEF Deliver, Sockets
<1>1. q[d] \in Seq(S) /\ Len(q[d]) <= RCVBUF /\ out[d] \in Seq(S)
  BY DEF Sockets
<1>2. CASE d \notin up \/ out[d] = <<>>
  BY <1>1, <1>2 DEF Deliver
<1>3. CASE ~(d \notin up \/ out[d] = <<>>) /\ Len(q[d]) + Len(out[d]) <= RCVBUF
  BY <1>1, <1>3, ConcatProperties DEF Deliver
<1>4. CASE ~(d \notin up \/ out[d] = <<>>) /\ ~(Len(q[d]) + Len(out[d]) <= RCVBUF)
  <2>1. q[d] \o out[d] \in Seq(S) /\ Len(q[d] \o out[d]) = Len(q[d]) + Len(out[d])
    BY <1>1, ConcatProperties
  <2>2. /\ SubSeq(q[d] \o out[d], 1, RCVBUF) \in Seq(S)
        /\ Len(SubSeq(q[d] \o out[d], 1, RCVBUF)) = RCVBUF
    BY <2>1, <1>1, <1>4, BoundAssumption, SubSeqProperties
  <2> QED
    BY <2>2, <1>4, BoundAssumption DEF Deliver
<1> QED
  BY <1>2, <1>3, <1>4

LEMMA SocketsGrow ==
  ASSUME NEW S, NEW T, S \subseteq T
  PROVE  Sockets(S) \subseteq Sockets(T)
<1>1. \A x \in Seq(S) : x \in Seq(T)
  OBVIOUS
<1> QED
  BY <1>1 DEF Sockets

LEMMA RestType ==
  ASSUME NEW S, queue \in Sockets(S), NEW s \in Server, queue[s] # <<>>
  PROVE  Rest(s) \in Sockets(S) /\ Received(s) \in S
<1>1. queue[s] \in Seq(S) /\ Len(queue[s]) <= RCVBUF
  BY DEF Sockets
<1>2. Tail(queue[s]) \in Seq(S) /\ Len(Tail(queue[s])) <= RCVBUF /\ Head(queue[s]) \in S
  BY <1>1, HeadTailProperties, BoundAssumption
<1> QED
  BY <1>2 DEF Sockets, Rest, Received
-------------------------------------------------------------------------------
(* The facts every handler starts from.                                     *)

LEMMA Grows ==
  ASSUME IInv, claimed \subseteq claimed', updates \subseteq updates'
  PROVE  /\ Credible \subseteq Credible'
         /\ \A s \in Server : Sound(s) \subseteq Sound(s)'
BY DEF Credible, Sound, States, Message, Manager, MessageType, Entry, EXPIRED

LEMMA PlainCredible ==
  ASSUME NEW s \in Server, NEW type \in MessageType \ {"VICTORY"}
  PROVE  Plain(type, s) \in Credible
BY EntryType DEF Plain, Credible, Message, States, MessageType

LEMMA HeardType ==
  ASSUME IInv, NEW s \in Server, queue[s] # <<>>
  PROVE  /\ Received(s) \in Credible
         /\ Received(s).replica_id \in Server
         /\ Rest(s) \in Sockets(Credible)
         /\ Heard(s) \in [Server -> Entry]
<1>1. Received(s) \in Credible /\ Rest(s) \in Sockets(Credible)
  BY RestType DEF IInv
<1>2. Received(s).replica_id \in Server
  BY <1>1 DEF Credible, Message
<1>3. rm[s].replicas \in [Server -> Entry]
  BY DEF IInv, Manager
<1>4. [rm[s].replicas[Received(s).replica_id] EXCEPT !.repl_addr = TRUE] \in Entry
  BY <1>2, <1>3 DEF Entry
<1>5. Heard(s) \in [Server -> Entry]
  BY <1>2, <1>3, <1>4 DEF Heard
<1> QED
  BY <1>1, <1>2, <1>5

\* A step that changes the manager of one server, or none, the sockets and the
\* places of its threads keeps the invariant if what it writes is sound.
LEMMA StepKeeps ==
  ASSUME IInv, NEW s \in Server, NEW M \in Sound(s),
         rm' = [rm EXCEPT ![s] = M],
         queue' \in Sockets(Credible),
         receiver' \in [Server -> {"none", "ready", "elect", "sleep"}],
         checker' \in [Server -> {"none", "ready", "check", "elect", "sleep"}],
         UNCHANGED <<up, joins, starts, updates, claimed>>
  PROVE  IInv'
<1>1. rm' \in [Server -> Manager] /\ \A t \in Server : rm'[t] \in Sound(t)
  BY DEF IInv, Sound
<1>2. Credible' = Credible /\ \A t \in Server : Sound(t)' = Sound(t)
  BY DEF Credible, Sound, States, Message, Manager, MessageType, Entry, EXPIRED
<1>3. Sockets(Credible)' = Sockets(Credible)
  BY <1>2 DEF Sockets
<1> QED
  BY <1>1, <1>2, <1>3 DEF IInv
-------------------------------------------------------------------------------
(* One lemma for each action of the receiver thread.                        *)

LEMMA ReplicasSound ==
  ASSUME IInv, NEW s \in Server, NEW R \in [Server -> Entry]
  PROVE  [rm[s] EXCEPT !.replicas = R] \in Sound(s)
<1>1. rm[s] \in Manager /\ rm[s] \in Sound(s)
  BY DEF IInv
<1> QED
  BY <1>1 DEF Sound, Manager

LEMMA HeartbeatKeeps ==
  ASSUME IInv, NEW s \in Server, HandleHeartbeat(s) PROVE IInv'
<1>1. SeenAlive(Heard(s), Received(s).replica_id) \in [Server -> Entry]
  BY HeardType, SeenAliveType DEF HandleHeartbeat, Receives
<1> QED
  BY <1>1, HeardType, ReplicasSound, StepKeeps
     DEF HandleHeartbeat, Receives, Unbounded, IInv

LEMMA StateAckKeeps ==
  ASSUME IInv, NEW s \in Server, HandleStateAck(s) PROVE IInv'
<1> DEFINE R == IF rm[s].is_primary THEN Confirmed(Heard(s), Received(s).replica_id)
                ELSE Heard(s)
<1>1. R \in [Server -> Entry]
  BY HeardType, ConfirmedType DEF HandleStateAck, Receives
<1>2. rm' = [rm EXCEPT ![s] = [rm[s] EXCEPT !.replicas = R]]
  BY DEF HandleStateAck
<1> HIDE DEF R
<1> QED
  BY <1>1, <1>2, HeardType, ReplicasSound, StepKeeps
     DEF HandleStateAck, Receives, Unbounded, IInv

LEMMA VictoryAckKeeps ==
  ASSUME IInv, NEW s \in Server, HandleVictoryAck(s) PROVE IInv'
<1>1. Confirmed(Heard(s), Received(s).replica_id) \in [Server -> Entry]
  BY HeardType, ConfirmedType DEF HandleVictoryAck, Receives
<1> QED
  BY <1>1, HeardType, ReplicasSound, StepKeeps
     DEF HandleVictoryAck, Receives, Unbounded, IInv

LEMMA WithListCredible ==
  ASSUME NEW s \in Server, NEW R \in [Server -> Entry]
  PROVE  WithList(s, R) \in Credible
BY EntryType DEF WithList, Plain, Credible, Message, States, MessageType

LEMMA JoinRequestKeeps ==
  ASSUME IInv, NEW s \in Server, HandleJoinRequest(s) PROVE IInv'
<1> DEFINE from == Received(s).replica_id
           R == Heard(s)
<1>1. queue[s] # <<>> /\ UNCHANGED <<receiver, checker, up, joins, starts, updates, claimed>>
  BY DEF HandleJoinRequest, Receives, Unbounded
<1>2. from \in Server /\ R \in [Server -> Entry] /\ Rest(s) \in Sockets(Credible)
  BY <1>1, HeardType
<1> HIDE DEF from, R
<1> SUFFICES ASSUME NEW L \in [Server -> Entry],
                    rm' = [rm EXCEPT ![s].replicas = L],
                    queue' \in Sockets(Credible)
             PROVE  IInv'
  <2>1. CASE rm' = [rm EXCEPT ![s].replicas = R] /\ queue' = Rest(s)
    BY <1>2, <2>1
  <2> DEFINE again == [SeenAlive(R, from) EXCEPT ![from] = [@ EXCEPT !.state_confirmed = FALSE]]
             new == [R EXCEPT ![from] = FreshEntry(FALSE, FALSE)]
  <2>2. ASSUME NEW L \in [Server -> Entry], NEW D,
               rm' = [rm EXCEPT ![s].replicas = L],
               queue' = Deliver(Rest(s), To(D, Burst(WithList(s, L))))
        PROVE  queue' \in Sockets(Credible)
    BY <1>2, <2>2, WithListCredible, BurstType, ToType, DeliverType
  <2>3. again \in [Server -> Entry]
    <3>1. SeenAlive(R, from) \in [Server -> Entry]
      BY <1>2, SeenAliveType
    <3>2. [SeenAlive(R, from)[from] EXCEPT !.state_confirmed = FALSE] \in Entry
      BY <1>2, <3>1 DEF Entry
    <3> QED
      BY <1>2, <3>1, <3>2
  <2>4. new \in [Server -> Entry]
    BY <1>2, FreshEntryType
  <2>5. \/ rm' = [rm EXCEPT ![s].replicas = R] /\ queue' = Rest(s)
        \/ /\ rm' = [rm EXCEPT ![s].replicas = again]
           /\ queue' = Deliver(Rest(s), To({from}, Burst(WithList(s, again))))
        \/ /\ rm' = [rm EXCEPT ![s].replicas = new]
           /\ queue' = Deliver(Rest(s), To(Addressed(new, Server \ {s}),
                                           Burst(WithList(s, new))))
    BY DEF HandleJoinRequest, from, R
  <2> HIDE DEF again, new
  <2> QED
    BY <2>1, <2>2, <2>3, <2>4, <2>5
<1> QED
  BY <1>1, ReplicasSound, StepKeeps DEF IInv

LEMMA ReplicaListKeeps ==
  ASSUME IInv, NEW s \in Server, HandleReplicaList(s) PROVE IInv'
<1>1. queue[s] # <<>> /\ UNCHANGED <<receiver, checker, up, joins, starts, updates, claimed>>
  BY DEF HandleReplicaList, Receives, Unbounded
<1>2. Received(s).replicas \in [Server -> Entry] /\ Heard(s) \in [Server -> Entry]
  BY <1>1, HeardType DEF Credible, Message
<1>3. PICK taken : rm' = [rm EXCEPT ![s].replicas =
                       [r \in Server |-> IF r \in taken \cup (Listed(Received(s).replicas)
                                                               \cap Listed(Heard(s)))
                                         THEN Received(s).replicas[r] ELSE Heard(s)[r]]]
  BY DEF HandleReplicaList
<1> DEFINE L == [r \in Server |-> IF r \in taken \cup (Listed(Received(s).replicas)
                                                        \cap Listed(Heard(s)))
                                  THEN Received(s).replicas[r] ELSE Heard(s)[r]]
<1>4. L \in [Server -> Entry]
  BY <1>2
<1>5. queue' \in Sockets(Credible)
  BY <1>1, HeardType DEF HandleReplicaList
<1>6. rm' = [rm EXCEPT ![s] = [rm[s] EXCEPT !.replicas = L]]
  BY <1>3
<1> HIDE DEF L
<1> QED
  BY <1>1, <1>4, <1>5, <1>6, ReplicasSound, StepKeeps DEF IInv

LEMMA StateUpdateKeeps ==
  ASSUME IInv, NEW s \in Server, HandleStateUpdate(s) PROVE IInv'
<1> DEFINE m == Received(s)
           heard == [rm[s] EXCEPT !.replicas = Heard(s)]
           taken == [Adopts(m, heard) EXCEPT !.election_in_progress = FALSE,
                                             !.received_initial_state = TRUE]
<1>1. queue[s] # <<>> /\ UNCHANGED <<receiver, checker, up, joins, starts, updates, claimed>>
  BY DEF HandleStateUpdate, Receives, Unbounded
<1>2. /\ m \in Credible /\ m.replica_id \in Server /\ Rest(s) \in Sockets(Credible)
      /\ heard \in Sound(s)
  BY <1>1, HeardType, ReplicasSound
<1>3. taken \in Sound(s)
  <2>1. m \in Message /\ <<m.current_sum, m.last_seqn>> \in States
    BY <1>2 DEF Credible
  <2>2. m.current_sum \in Int /\ m.last_seqn \in Int
    BY <2>1 DEF Message
  <2> HIDE DEF m, heard
  <2> QED
    BY <2>1, <2>2, <1>2 DEF Adopts, Sound, Manager
<1>4. rm' = [rm EXCEPT ![s] = heard] \/ rm' = [rm EXCEPT ![s] = taken]
  BY DEF HandleStateUpdate
<1>5. queue' \in Sockets(Credible)
  <2>1. Deliver(Rest(s), To({m.replica_id}, <<Plain("STATE_ACK", s)>>)) \in Sockets(Credible)
    <3>1. Plain("STATE_ACK", s) \in Credible
      BY PlainCredible DEF MessageType
    <3>2. <<Plain("STATE_ACK", s)>> \in Seq(Credible)
      BY <3>1
    <3> QED
      BY <1>2, <3>2, ToType, DeliverType
  <2> QED
    BY <2>1, <1>2 DEF HandleStateUpdate
<1> HIDE DEF heard, taken
<1> QED
  BY <1>1, <1>2, <1>3, <1>4, <1>5, StepKeeps DEF IInv

LEMMA StartElectionKeeps ==
  ASSUME IInv, NEW s \in Server, HandleStartElection(s) PROVE IInv'
<1>1. queue[s] # <<>> /\ UNCHANGED <<checker, up, joins, starts, updates, claimed>>
  BY DEF HandleStartElection, Receives, Unbounded
<1>2. /\ Received(s).replica_id \in Server /\ Rest(s) \in Sockets(Credible)
      /\ [rm[s] EXCEPT !.replicas = Heard(s)] \in Sound(s)
  BY <1>1, HeardType, ReplicasSound
<1>3. queue' \in Sockets(Credible)
  <2>1. Plain("ELECTION_RESPONSE", s) \in Credible
    BY PlainCredible DEF MessageType
  <2>2. Deliver(Rest(s), To({Received(s).replica_id}, Burst(Plain("ELECTION_RESPONSE", s))))
          \in Sockets(Credible)
    BY <2>1, <1>2, BurstType, ToType, DeliverType
  <2> QED
    BY <2>2, <1>2 DEF HandleStartElection
<1>4. receiver' \in [Server -> {"none", "ready", "elect", "sleep"}]
  BY DEF HandleStartElection, IInv
<1>5. rm' = [rm EXCEPT ![s] = [rm[s] EXCEPT !.replicas = Heard(s)]]
  BY DEF HandleStartElection
<1> QED
  BY <1>1, <1>2, <1>3, <1>4, <1>5, StepKeeps DEF IInv

LEMMA ElectionResponseKeeps ==
  ASSUME IInv, NEW s \in Server, HandleElectionResponse(s) PROVE IInv'
<1> DEFINE from == Received(s).replica_id
           heard == [rm[s] EXCEPT !.replicas = Heard(s)]
           stopped == [rm[s] EXCEPT !.election_in_progress = FALSE,
                                    !.replicas = SeenAlive(Heard(s), from)]
<1>1. queue[s] # <<>> /\ UNCHANGED <<receiver, checker, up, joins, starts, updates, claimed>>
  BY DEF HandleElectionResponse, Receives, Unbounded
<1>2. /\ Rest(s) \in Sockets(Credible) /\ heard \in Sound(s)
      /\ SeenAlive(Heard(s), from) \in [Server -> Entry]
  BY <1>1, HeardType, SeenAliveType, ReplicasSound
<1>3. stopped \in Sound(s)
  <2>1. rm[s] \in Sound(s)
    BY DEF IInv
  <2> QED
    BY <2>1, <1>2 DEF Sound, Manager
<1>4. rm' = [rm EXCEPT ![s] = heard] \/ rm' = [rm EXCEPT ![s] = stopped]
  BY DEF HandleElectionResponse
<1>5. queue' \in Sockets(Credible)
  BY <1>2 DEF HandleElectionResponse
<1> HIDE DEF heard, stopped
<1> QED
  BY <1>1, <1>2, <1>3, <1>4, <1>5, StepKeeps DEF IInv

LEMMA VictoryKeeps ==
  ASSUME IInv, NEW s \in Server, HandleVictory(s) PROVE IInv'
<1> DEFINE m == Received(s)
           heard == [rm[s] EXCEPT !.replicas = Heard(s)]
           follows == Follows(s, m.replica_id)
<1>1. queue[s] # <<>> /\ UNCHANGED <<receiver, checker, up, joins, starts, updates, claimed>>
  BY DEF HandleVictory, Receives, Unbounded
<1>2. /\ m \in Credible /\ m.replica_id \in Server /\ Rest(s) \in Sockets(Credible)
      /\ heard \in Sound(s)
      /\ SeenAlive(Heard(s), m.replica_id) \in [Server -> Entry]
  BY <1>1, HeardType, SeenAliveType, ReplicasSound
<1>3. CASE GivesWay(s, m.replica_id)
  <2>1. follows \in Sound(s)
    <3>1. rm[s] \in Sound(s) /\ m.replica_id # s
      BY <1>2, <1>3, ServerAssumption DEF IInv, GivesWay
    <3> QED
      BY <3>1, <1>2 DEF Follows, Sound, Manager
  <2>2. Adopts(m, follows) \in Sound(s)
    <3>1. m \in Message /\ <<m.current_sum, m.last_seqn>> \in States
      BY <1>2 DEF Credible
    <3>2. m.current_sum \in Int /\ m.last_seqn \in Int
      BY <3>1 DEF Message
    <3> HIDE DEF m, follows
    <3> QED
      BY <3>1, <3>2, <2>1 DEF Adopts, Sound, Manager
  <2>3. rm' = [rm EXCEPT ![s] = follows] \/ rm' = [rm EXCEPT ![s] = Adopts(m, follows)]
    BY <1>3 DEF HandleVictory
  <2>4. queue' \in Sockets(Credible)
    <3>1. Plain("VICTORY_ACK", s) \in Credible
      BY PlainCredible DEF MessageType
    <3>2. Deliver(Rest(s), To({m.replica_id}, Burst(Plain("VICTORY_ACK", s))))
            \in Sockets(Credible)
      BY <3>1, <1>2, BurstType, ToType, DeliverType
    <3> QED
      BY <3>2, <1>3 DEF HandleVictory
  <2> HIDE DEF m, follows
  <2> QED
    BY <1>1, <2>1, <2>2, <2>3, <2>4, StepKeeps DEF IInv
<1>4. CASE ~GivesWay(s, m.replica_id)
  <2>1. rm' = [rm EXCEPT ![s] = heard] /\ queue' = Rest(s)
    BY <1>4 DEF HandleVictory
  <2> HIDE DEF heard
  <2> QED
    BY <1>1, <1>2, <2>1, StepKeeps DEF IInv
<1> QED
  BY <1>3, <1>4
-------------------------------------------------------------------------------
(* One lemma for each action of the other threads.                          *)

LEMMA UnchangedManager ==
  ASSUME IInv, NEW s \in Server
  PROVE  rm = [rm EXCEPT ![s] = rm[s]] /\ rm[s] \in Sound(s)
BY DEF IInv

LEMMA SendHeartbeatsKeeps ==
  ASSUME IInv, NEW s \in Server, SendHeartbeats(s) PROVE IInv'
<1>1. PICK D : queue' = Deliver(queue, To(D, <<Plain("HEARTBEAT", s)>>))
  BY DEF SendHeartbeats
<1>2. Plain("HEARTBEAT", s) \in Credible
  BY PlainCredible DEF MessageType
<1>3. <<Plain("HEARTBEAT", s)>> \in Seq(Credible)
  BY <1>2
<1>4. queue' \in Sockets(Credible)
  BY <1>1, <1>3, ToType, DeliverType DEF IInv
<1> QED
  BY <1>4, UnchangedManager, StepKeeps DEF SendHeartbeats, Unbounded, IInv

LEMMA CheckKeeps ==
  ASSUME IInv, NEW s \in Server, BeginCheck(s) \/ CheckPrimary(s) PROVE IInv'
<1> DEFINE p == rm[s].primary_id
           R == rm[s].replicas
<1>1. /\ checker' \in [Server -> {"none", "ready", "check", "elect", "sleep"}]
      /\ UNCHANGED <<queue, receiver, up, joins, starts, updates, claimed>>
  BY DEF BeginCheck, CheckPrimary, Unbounded, IInv
<1>2. p \in Server /\ R \in [Server -> Entry]
  BY DEF IInv, Manager
<1>3. [R EXCEPT ![p] = [@ EXCEPT !.is_alive = FALSE]] \in [Server -> Entry]
  <2>1. [R[p] EXCEPT !.is_alive = FALSE] \in Entry
    BY <1>2 DEF Entry
  <2> QED
    BY <1>2, <2>1
<1>4. \/ UNCHANGED rm
      \/ rm' = [rm EXCEPT ![s] =
                  [rm[s] EXCEPT !.replicas = [R EXCEPT ![p] = [@ EXCEPT !.is_alive = FALSE]]]]
  BY DEF BeginCheck, CheckPrimary
<1> QED
  BY <1>1, <1>3, <1>4, UnchangedManager, ReplicasSound, StepKeeps DEF IInv

LEMMA WakeKeeps ==
  ASSUME IInv, NEW s \in Server, ReceiverWakes(s) \/ CheckerWakes(s) PROVE IInv'
<1>1. /\ receiver' \in [Server -> {"none", "ready", "elect", "sleep"}]
      /\ checker' \in [Server -> {"none", "ready", "check", "elect", "sleep"}]
      /\ UNCHANGED <<rm, queue, up, joins, starts, updates, claimed>>
  BY DEF ReceiverWakes, CheckerWakes, Unbounded, IInv
<1> QED
  BY <1>1, UnchangedManager, StepKeeps DEF IInv

\* The part of the invariant that elections change, while claimed may grow.
LEMMA ElectionKeeps ==
  ASSUME IInv, NEW s \in Server, ElectionStep(s), UNCHANGED <<up, joins, starts, updates>>,
         receiver' \in [Server -> {"none", "ready", "elect", "sleep"}],
         checker' \in [Server -> {"none", "ready", "check", "elect", "sleep"}]
  PROVE  IInv'
<1>1. rm \in [Server -> Manager] /\ rm[s] \in Sound(s) /\ queue \in Sockets(Credible)
  BY DEF IInv
<1>2. CASE SkipElection(s)
  BY <1>2, UnchangedManager, StepKeeps DEF SkipElection, IInv
<1>3. CASE CallElection(s)
  <2>1. [rm[s] EXCEPT !.election_in_progress = TRUE] \in Sound(s)
    BY <1>1 DEF Sound, Manager
  <2>2. rm' = [rm EXCEPT ![s] = [rm[s] EXCEPT !.election_in_progress = TRUE]]
    BY <1>3 DEF CallElection
  <2>3. Plain("START_ELECTION", s) \in Credible
    BY PlainCredible DEF MessageType
  <2>4. queue' \in Sockets(Credible)
    BY <1>1, <1>3, <2>3, BurstType, ToType, DeliverType DEF CallElection
  <2> QED
    BY <1>3, <2>1, <2>2, <2>4, StepKeeps DEF CallElection, IInv
<1>4. CASE DeclareVictory(s)
  <2> DEFINE M == [rm[s] EXCEPT !.is_primary = TRUE, !.primary_id = s,
                                !.election_in_progress = FALSE]
             mine == Append(Burst(WithState("VICTORY", s)), WithState("STATE_UPDATE", s))
             C == {m \in Message : /\ m.type = "VICTORY" => m.replica_id \in claimed'
                                   /\ <<m.current_sum, m.last_seqn>> \in States}
  <2>1. M \in Sound(s)
    BY <1>1 DEF Sound, Manager
  <2>2. rm' = [rm EXCEPT ![s] = M]
    BY <1>4 DEF DeclareVictory
  <2>3. claimed' = claimed \cup {s} /\ queue' = Deliver(queue, To(Told(s), mine))
    BY <1>4 DEF DeclareVictory
  <2>4. C = Credible'
    BY DEF Credible, States, Message, MessageType, Entry, EXPIRED
  <2>5. WithState("VICTORY", s) \in C /\ WithState("STATE_UPDATE", s) \in C
    <3>1. /\ rm[s].current_sum \in Int /\ rm[s].last_seqn \in Int
          /\ <<rm[s].current_sum, rm[s].last_seqn>> \in States
      BY <1>1 DEF Sound, Manager
    <3> QED
      BY <3>1, <2>3, EntryType DEF WithState, Plain, Message, MessageType
  <2>6. mine \in Seq(C)
    <3>1. Burst(WithState("VICTORY", s)) \in Seq(C)
      BY <2>5, BurstType
    <3> QED
      BY <3>1, <2>5, AppendProperties
  <2>7. queue \in Sockets(C)
    <3>1. Credible \subseteq C
      BY <2>3 DEF Credible
    <3> QED
      BY <3>1, <1>1, SocketsGrow
  <2>8. queue' \in Sockets(C)
    BY <2>3, <2>6, <2>7, ToType, DeliverType
  <2>9. queue' \in Sockets(Credible)'
    BY <2>4, <2>8 DEF Sockets
  <2>10. /\ rm' \in [Server -> Manager]
         /\ \A t \in Server : rm'[t] \in Sound(t)'
    <3>1. \A t \in Server : Sound(t)' = Sound(t)
      BY DEF Sound, States, Manager, Entry, EXPIRED
    <3> HIDE DEF M
    <3>2. M \in Manager
      BY <2>1 DEF Sound
    <3> QED
      BY <3>1, <3>2, <2>1, <2>2 DEF IInv
  <2> QED
    BY <2>3, <2>9, <2>10 DEF IInv
<1> QED
  BY <1>2, <1>3, <1>4 DEF ElectionStep

LEMMA ThreadElectionKeeps ==
  ASSUME IInv, NEW s \in Server, ReceiverElection(s) \/ CheckerElection(s) PROVE IInv'
<1>1. ElectionStep(s) /\ UNCHANGED <<up, joins, starts, updates>>
  BY DEF ReceiverElection, CheckerElection, Unbounded
<1>2. /\ receiver' \in [Server -> {"none", "ready", "elect", "sleep"}]
      /\ checker' \in [Server -> {"none", "ready", "check", "elect", "sleep"}]
  BY DEF ReceiverElection, CheckerElection, AfterElection, IInv
<1> QED
  BY <1>1, <1>2, ElectionKeeps

LEMMA UpdateStateKeeps ==
  ASSUME IInv, NEW s \in Server, CallUpdateState(s) PROVE IInv'
<1>1. PICK new_sum \in Sums, seqn \in Seqns :
        UpdateState(s, new_sum, seqn) /\ updates' = updates \cup {<<new_sum, seqn>>}
  BY DEF CallUpdateState, CallWith
<1>2. new_sum \in Int /\ seqn \in Int
  BY CallAssumption
<1>3. /\ UNCHANGED <<up, receiver, checker, joins, starts, claimed>>
      /\ updates' \in SUBSET (Int \X Int)
  BY <1>1, <1>2 DEF CallUpdateState, CallWith, UpdateState, IInv
<1> DEFINE m == [Plain("STATE_UPDATE", s) EXCEPT !.current_sum = new_sum, !.last_seqn = seqn]
           M == [rm[s] EXCEPT !.current_sum = new_sum, !.last_seqn = seqn]
<1>4. Credible \subseteq Credible' /\ \A t \in Server : Sound(t) \subseteq Sound(t)'
  BY <1>1, <1>3, Grows
<1>5. <<new_sum, seqn>> \in States'
  BY <1>1 DEF States
<1>6. M \in Sound(s)'
  <2>1. rm[s] \in Sound(s)
    BY DEF IInv
  <2>2. M \in Manager /\ (M.is_primary <=> M.primary_id = s)
    BY <1>2, <2>1 DEF Sound, Manager
  <2>3. M.current_sum = new_sum /\ M.last_seqn = seqn
    BY <2>1 DEF Sound, Manager
  <2> HIDE DEF M
  <2> QED
    BY <1>5, <2>2, <2>3 DEF Sound, Manager, Entry, EXPIRED
<1>7. rm' = [rm EXCEPT ![s] = M]
  BY <1>1 DEF UpdateState
<1>8. rm' \in [Server -> Manager] /\ \A t \in Server : rm'[t] \in Sound(t)'
  <2>1. M \in Manager
    BY <1>6 DEF Sound, Manager, Entry, EXPIRED
  <2> HIDE DEF M
  <2> QED
    BY <2>1, <1>4, <1>6, <1>7 DEF IInv
<1>9. m \in Credible'
  BY <1>2, <1>5, EntryType DEF Plain, Credible, Message, MessageType, Entry, EXPIRED
<1>10. queue' \in Sockets(Credible')
  <2>1. queue \in Sockets(Credible')
    BY <1>4, SocketsGrow DEF IInv
  <2> HIDE DEF m
  <2>2. <<m>> \in Seq(Credible')
    BY <1>9
  <2>3. Deliver(queue, To(AliveReplicas(s), <<m>>)) \in Sockets(Credible')
    BY <2>1, <2>2, ToType, DeliverType
  <2>4. queue' = queue \/ queue' = Deliver(queue, To(AliveReplicas(s), <<m>>))
    BY <1>1 DEF UpdateState, m
  <2> QED
    BY <2>1, <2>3, <2>4
<1>11. Sockets(Credible') = Sockets(Credible)'
  BY DEF Sockets
<1> QED
  BY <1>3, <1>8, <1>10, <1>11 DEF IInv
-------------------------------------------------------------------------------
(* One lemma for each action of the environment.                            *)

LEMMA LoseKeeps ==
  ASSUME IInv, NEW s \in Server, Lose(s) PROVE IInv'
<1>1. Rest(s) \in Sockets(Credible)
  BY RestType DEF Lose, IInv
<1> QED
  BY <1>1, UnchangedManager, StepKeeps DEF Lose, Unbounded, IInv

LEMMA TickKeeps ==
  ASSUME IInv, Tick PROVE IInv'
<1>1. UNCHANGED <<receiver, checker, claimed, up, joins, starts, updates>>
  BY DEF Tick, Unbounded
<1>2. /\ Credible' = Credible /\ Sockets(Credible)' = Sockets(Credible)
      /\ \A s \in Server : Sound(s)' = Sound(s)
  BY <1>1 DEF Credible, Sockets, Sound, States, Message, Manager, MessageType, Entry, EXPIRED
<1>3. ASSUME NEW s \in Server PROVE rm'[s] \in Sound(s)
  <2>1. rm[s] \in Sound(s) /\ rm[s].replicas \in [Server -> Entry]
    BY DEF IInv, Manager
  <2>2. [rm[s] EXCEPT !.replicas = Aged(rm[s].replicas)] \in Sound(s)
    BY <2>1, AgedType, ReplicasSound
  <2> QED
    BY <2>1, <2>2 DEF Tick
<1>4. rm' \in [Server -> Manager]
  BY <1>3 DEF Sound, Tick
<1>5. queue' \in Sockets(Credible)
  <2> SUFFICES ASSUME NEW s \in Server
               PROVE  queue'[s] \in Seq(Credible) /\ Len(queue'[s]) <= RCVBUF
    BY DEF Tick, Sockets
  <2>1. queue[s] \in Seq(Credible) /\ Len(queue[s]) <= RCVBUF
    BY DEF IInv, Sockets
  <2> DEFINE old(i) == [queue[s][i] EXCEPT !.replicas = Aged(queue[s][i].replicas)]
  <2>2. ASSUME NEW i \in 1..Len(queue[s]) PROVE old(i) \in Credible
    <3> DEFINE m == queue[s][i]
    <3>1. m \in Credible
      BY <2>1
    <3>2. m \in Message /\ m.replicas \in [Server -> Entry]
      BY <3>1 DEF Credible, Message
    <3>3. Aged(m.replicas) \in [Server -> Entry]
      BY <3>2, AgedType
    <3> HIDE DEF m
    <3> QED
      BY <3>1, <3>2, <3>3 DEF Credible, Message, m
  <2>3. queue'[s] = [i \in 1..Len(queue[s]) |-> old(i)]
    BY <2>1 DEF Tick
  <2> HIDE DEF old
  <2> QED
    BY <2>1, <2>2, <2>3
<1> QED
  BY <1>1, <1>2, <1>3, <1>4, <1>5 DEF IInv

LEMMA BootSound ==
  ASSUME NEW s \in Server
  PROVE  Boot(s) \in Sound(s)
<1> DEFINE L == [NoReplicas EXCEPT ![PRIMARY_PORT] = FreshEntry(TRUE, s = PRIMARY_PORT)]
           B(first) == [is_primary |-> first, primary_id |-> PRIMARY_PORT,
                        current_sum |-> 0, last_seqn |-> 0,
                        received_initial_state |-> first,
                        election_in_progress |-> FALSE, replicas |-> L]
<1>1. L \in [Server -> Entry]
  BY EntryType, FreshEntryType, ServerAssumption
<1>2. Boot(s) = B(s = PRIMARY_PORT)
  BY DEF Boot
<1> HIDE DEF L
<1>3. CASE s = PRIMARY_PORT
  <2>1. B(TRUE) \in Sound(s)
    BY <1>1, <1>3, ServerAssumption DEF Sound, Manager, States
  <2>2. (s = PRIMARY_PORT) = TRUE
    BY <1>3
  <2> QED
    BY <1>2, <2>1, <2>2
<1>4. CASE s # PRIMARY_PORT
  <2>1. B(FALSE) \in Sound(s)
    BY <1>1, <1>4, ServerAssumption DEF Sound, Manager, States
  <2>2. (s = PRIMARY_PORT) = FALSE
    BY <1>4
  <2> QED
    BY <1>2, <2>1, <2>2
<1> QED
  BY <1>3, <1>4

LEMMA CrashKeeps ==
  ASSUME IInv, NEW s \in Server, Crash(s) PROVE IInv'
<1>1. /\ Credible' = Credible /\ Sockets(Credible)' = Sockets(Credible)
      /\ \A t \in Server : Sound(t)' = Sound(t)
  BY DEF Crash, Credible, Sockets, Sound, States, Message, Manager, MessageType, Entry, EXPIRED
<1>2. rm' \in [Server -> Manager] /\ \A t \in Server : rm'[t] \in Sound(t)
  BY BootSound DEF Crash, IInv, Sound
<1>3. queue' \in Sockets(Credible)
  BY BoundAssumption DEF Crash, IInv, Sockets
<1>4. joins' \in [Server -> 0..BURST]
  BY BoundAssumption DEF Crash, IInv
<1> QED
  BY <1>1, <1>2, <1>3, <1>4 DEF Crash, IInv

LEMMA StartKeeps ==
  ASSUME IInv, NEW s \in Server, Start(s) PROVE IInv'
<1>1. /\ claimed \subseteq claimed' /\ updates' = updates
      /\ claimed' \in SUBSET Server
  BY DEF Start, IInv
<1>2. Credible \subseteq Credible' /\ \A t \in Server : Sound(t) \subseteq Sound(t)'
  BY <1>1, Grows
<1>3. rm' \in [Server -> Manager] /\ \A t \in Server : rm'[t] \in Sound(t)'
  BY <1>2, BootSound DEF Start, IInv, Sound
<1>4. queue' \in Sockets(Credible)'
  <2>1. Sockets(Credible') = Sockets(Credible)'
    BY DEF Sockets
  <2> QED
    BY <1>2, <2>1, SocketsGrow DEF Start, IInv
<1>5. joins' \in [Server -> 0..BURST]
  BY BoundAssumption DEF Start, IInv
<1> QED
  BY <1>1, <1>3, <1>4, <1>5 DEF Start, IInv

LEMMA JoiningKeeps ==
  ASSUME IInv, NEW s \in Server, SendJoinRequest(s) PROVE IInv'
<1>1. /\ Credible' = Credible /\ Sockets(Credible)' = Sockets(Credible)
      /\ \A t \in Server : Sound(t)' = Sound(t)
  BY DEF SendJoinRequest, Credible, Sockets, Sound, States, Message, Manager, MessageType,
         Entry, EXPIRED
<1>2. queue' \in Sockets(Credible)
  <2>1. Plain("JOIN_REQUEST", s) \in Credible
    BY PlainCredible DEF MessageType
  <2>2. <<Plain("JOIN_REQUEST", s)>> \in Seq(Credible)
    BY <2>1
  <2> QED
    BY <2>2, ToType, DeliverType DEF SendJoinRequest, IInv
<1>3. joins' \in [Server -> 0..BURST]
  <2>1. joins[s] \in 0..BURST /\ joins[s] > 0 /\ BURST \in Nat
    BY BoundAssumption DEF SendJoinRequest, IInv
  <2>2. joins[s] - 1 \in 0..BURST
    BY <2>1
  <2> QED
    BY <2>2 DEF SendJoinRequest, IInv
<1> QED
  BY <1>1, <1>2, <1>3 DEF SendJoinRequest, IInv

LEMMA CreatingKeeps ==
  ASSUME IInv, NEW s \in Server, CreateThreads(s) PROVE IInv'
<1>1. /\ Credible' = Credible /\ Sockets(Credible)' = Sockets(Credible)
      /\ \A t \in Server : Sound(t)' = Sound(t)
  BY DEF CreateThreads, Credible, Sockets, Sound, States, Message, Manager, MessageType,
         Entry, EXPIRED
<1>2. CheckerStart(s) \in {"none", "ready", "check", "elect", "sleep"}
  BY DEF CheckerStart
<1> QED
  BY <1>1, <1>2 DEF CreateThreads, IInv
-------------------------------------------------------------------------------
(* The invariant, and the invariants it implies.                            *)

LEMMA BeginIInv ==
  ASSUME NEW Up \in SUBSET Server, Begin(Up) PROVE IInv
<1>1. rm \in [Server -> Manager] /\ \A s \in Server : rm[s] \in Sound(s)
  BY BootSound DEF Begin, Sound
<1>2. queue \in Sockets(Credible)
  BY BoundAssumption DEF Begin, Sockets
<1>3. joins \in [Server -> 0..BURST] /\ starts \in [Server -> Nat]
  BY BoundAssumption DEF Begin
<1> QED
  BY <1>1, <1>2, <1>3 DEF Begin, IInv

LEMMA InitIInv == Init => IInv
BY BeginIInv DEF Init

LEMMA NextIInv == IInv /\ [Next]_vars => IInv'
<1> SUFFICES ASSUME IInv, [Next]_vars PROVE IInv'
  OBVIOUS
<1>1. ASSUME NEW s \in Server, StartStep(s) \/ Crash(s) \/ CallUpdateState(s) \/ Lose(s)
      PROVE  IInv'
  BY <1>1, StartKeeps, JoiningKeeps, CreatingKeeps, CrashKeeps, UpdateStateKeeps, LoseKeeps
     DEF StartStep
<1>2. ASSUME NEW s \in Server, Receive(s)
      PROVE  IInv'
  BY <1>2, HeartbeatKeeps, JoinRequestKeeps, ReplicaListKeeps, StateUpdateKeeps, StateAckKeeps,
     StartElectionKeeps, ElectionResponseKeeps, VictoryKeeps, VictoryAckKeeps DEF Receive
<1>3. ASSUME NEW s \in Server, ThreadStep(s)
      PROVE  IInv'
  BY <1>2, <1>3, CheckKeeps, WakeKeeps, ThreadElectionKeeps, SendHeartbeatsKeeps DEF ThreadStep
<1>4. CASE UNCHANGED vars
  BY <1>4 DEF vars, IInv, Sound, Sockets, Credible, States, Message, Manager, MessageType,
              Entry, EXPIRED
<1> QED
  BY <1>1, <1>3, <1>4, TickKeeps DEF Next

\* In every reachable state a server believes only credible datagrams.
THEOREM Invariance == Spec => []IInv
BY InitIInv, NextIInv, PTL DEF Spec

\* Every variable keeps its type and no socket holds more than its buffer, for
\* all sizes of the buffers and of the bursts sent into them.
THEOREM TypeCorrect == Spec => []TypeOK
<1>1. IInv => TypeOK
  <2> SUFFICES ASSUME IInv PROVE TypeOK
    OBVIOUS
  <2>1. Credible \subseteq Message
    BY DEF Credible
  <2>2. queue \in Sockets(Message)
    BY <2>1, SocketsGrow DEF IInv
  <2> QED
    BY <2>2 DEF IInv, TypeOK, Sockets
<1> QED
  BY <1>1, Invariance, PTL

\* The two fields that hold the role of a server never disagree.
THEOREM RoleConsistent == Spec => []RoleMatchesLeader
<1>1. IInv => RoleMatchesLeader
  BY DEF IInv, RoleMatchesLeader, Sound
<1> QED
  BY <1>1, Invariance, PTL

\* No server ever holds, and no datagram carries, a sum with the sequence number
\* of another one.
THEOREM StateUntorn == Spec => []NoTornState
<1>1. IInv => NoTornState
  <2> SUFFICES ASSUME IInv PROVE NoTornState
    OBVIOUS
  <2>1. ASSUME NEW s \in Server
        PROVE  <<rm[s].current_sum, rm[s].last_seqn>> \in States
    BY DEF IInv, Sound
  <2>2. ASSUME NEW s \in Server, NEW i \in DOMAIN queue[s]
        PROVE  <<queue[s][i].current_sum, queue[s][i].last_seqn>> \in States
    <3>1. queue[s] \in Seq(Credible)
      BY DEF IInv, Sockets
    <3>2. queue[s][i] \in Credible
      BY <3>1
    <3> QED
      BY <3>2 DEF Credible
  <2> QED
    BY <2>1, <2>2 DEF NoTornState, States
<1> QED
  BY <1>1, Invariance, PTL
-------------------------------------------------------------------------------
(* Leadership: what each step means for who leads.                          *)

\* A step that leaves the primary_id of every server alone means nothing.
LEMMA SameLeader ==
  ASSUME UNCHANGED <<up, claimed>>,
         \A s \in Server : rm'[s].primary_id = rm[s].primary_id
  PROVE  UNCHANGED <<leader, claimed>>
BY DEF leader

LEMMA SameLeaderOne ==
  ASSUME IInv, UNCHANGED <<up, claimed>>, NEW s \in Server,
         NEW M, M.primary_id = rm[s].primary_id, rm' = [rm EXCEPT ![s] = M]
  PROVE  UNCHANGED <<leader, claimed>>
<1>1. rm \in [Server -> Manager]
  BY DEF IInv
<1>2. \A t \in Server : rm'[t].primary_id = rm[t].primary_id
  BY <1>1
<1> QED
  BY <1>2, SameLeader

LEMMA QuietStep ==
  ASSUME IInv, NEW s \in Server,
         \/ Receive(s) /\ ~HandleVictory(s)
         \/ BeginCheck(s) \/ CheckPrimary(s) \/ ReceiverWakes(s) \/ CheckerWakes(s)
         \/ SendHeartbeats(s) \/ CallUpdateState(s) \/ Lose(s)
         \/ SendJoinRequest(s) \/ CreateThreads(s)
  PROVE  UNCHANGED <<leader, claimed>>
<1>1. rm \in [Server -> Manager]
  BY DEF IInv
<1>3. UNCHANGED <<up, claimed>>
  BY DEF Receive, HandleHeartbeat, HandleJoinRequest, HandleReplicaList, HandleStateUpdate,
         HandleStateAck, HandleStartElection, HandleElectionResponse, HandleVictoryAck,
         BeginCheck, CheckPrimary, ReceiverWakes, CheckerWakes, SendHeartbeats,
         CallUpdateState, CallWith, UpdateState, Lose, SendJoinRequest, CreateThreads, Unbounded
<1>4. CASE \/ HandleHeartbeat(s) \/ HandleJoinRequest(s) \/ HandleReplicaList(s)
           \/ HandleStateAck(s) \/ HandleStartElection(s) \/ HandleVictoryAck(s)
  <2>1. \E R : rm' = [rm EXCEPT ![s].replicas = R]
    BY <1>4 DEF HandleHeartbeat, HandleJoinRequest, HandleReplicaList, HandleStateAck,
                HandleStartElection, HandleVictoryAck
  <2>2. PICK R : rm' = [rm EXCEPT ![s] = [rm[s] EXCEPT !.replicas = R]]
    BY <2>1
  <2>3. [rm[s] EXCEPT !.replicas = R].primary_id = rm[s].primary_id
    BY <1>1 DEF Manager
  <2> QED
    BY <1>3, <2>2, <2>3, SameLeaderOne
<1>5. CASE HandleStateUpdate(s)
  <2> DEFINE heard == [rm[s] EXCEPT !.replicas = Heard(s)]
             taken == [Adopts(Received(s), heard) EXCEPT !.election_in_progress = FALSE,
                                                         !.received_initial_state = TRUE]
  <2>1. rm' = [rm EXCEPT ![s] = heard] \/ rm' = [rm EXCEPT ![s] = taken]
    BY <1>5 DEF HandleStateUpdate
  <2>2. heard.primary_id = rm[s].primary_id /\ taken.primary_id = rm[s].primary_id
    BY <1>1 DEF Adopts, Manager
  <2> HIDE DEF heard, taken
  <2> QED
    BY <1>3, <2>1, <2>2, SameLeaderOne
<1>6. CASE HandleElectionResponse(s)
  <2> DEFINE from == Received(s).replica_id
             heard == [rm[s] EXCEPT !.replicas = Heard(s)]
             stopped == [rm[s] EXCEPT !.election_in_progress = FALSE,
                                      !.replicas = SeenAlive(Heard(s), from)]
  <2>1. rm' = [rm EXCEPT ![s] = heard] \/ rm' = [rm EXCEPT ![s] = stopped]
    BY <1>6 DEF HandleElectionResponse
  <2>2. heard.primary_id = rm[s].primary_id /\ stopped.primary_id = rm[s].primary_id
    BY <1>1 DEF Manager
  <2> HIDE DEF heard, stopped
  <2> QED
    BY <1>3, <2>1, <2>2, SameLeaderOne
<1>7. CASE BeginCheck(s) \/ CheckPrimary(s) \/ ReceiverWakes(s) \/ CheckerWakes(s)
           \/ SendHeartbeats(s) \/ Lose(s) \/ SendJoinRequest(s) \/ CreateThreads(s)
  <2>1. PICK R : UNCHANGED rm \/ rm' = [rm EXCEPT ![s] = [rm[s] EXCEPT !.replicas = R]]
    BY <1>7 DEF BeginCheck, CheckPrimary, ReceiverWakes, CheckerWakes, SendHeartbeats, Lose,
                SendJoinRequest, CreateThreads
  <2>2. [rm[s] EXCEPT !.replicas = R].primary_id = rm[s].primary_id
    BY <1>1 DEF Manager
  <2> QED
    BY <1>3, <2>1, <2>2, SameLeader, SameLeaderOne
<1>8. CASE CallUpdateState(s)
  <2>0. PICK new_sum \in Sums, seqn \in Seqns : CallWith(s, new_sum, seqn)
    BY <1>8 DEF CallUpdateState
  <2>1. rm' = [rm EXCEPT ![s] = [rm[s] EXCEPT !.current_sum = new_sum, !.last_seqn = seqn]]
    BY <2>0 DEF CallWith, UpdateState
  <2>2. [rm[s] EXCEPT !.current_sum = new_sum, !.last_seqn = seqn].primary_id = rm[s].primary_id
    BY <1>1 DEF Manager
  <2> QED
    BY <1>3, <2>1, <2>2, SameLeaderOne
<1> QED
  BY <1>4, <1>5, <1>6, <1>7, <1>8 DEF Receive

LEMMA TickStep ==
  ASSUME IInv, Tick PROVE UNCHANGED <<leader, claimed>>
<1>1. rm \in [Server -> Manager]
  BY DEF IInv
<1>2. \A s \in Server : rm'[s].primary_id = rm[s].primary_id
  BY <1>1 DEF Tick, Manager
<1> QED
  BY <1>2, SameLeader DEF Tick, Unbounded

LEMMA ElectionMeans ==
  ASSUME IInv, NEW s \in Server, ReceiverElection(s) \/ CheckerElection(s)
  PROVE  \/ UNCHANGED <<leader, claimed>>
         \/ DeclareVictory(s) /\ Abstract!Claim(s)
<1>1. rm \in [Server -> Manager] /\ s \in up /\ UNCHANGED up /\ ElectionStep(s)
  BY DEF IInv, ReceiverElection, CheckerElection, Unbounded
<1>2. CASE SkipElection(s) \/ CallElection(s)
  <2>1. \A t \in Server : rm'[t].primary_id = rm[t].primary_id
    BY <1>1, <1>2 DEF SkipElection, CallElection, Manager
  <2> QED
    BY <1>1, <1>2, <2>1, SameLeader DEF SkipElection, CallElection
<1>3. CASE DeclareVictory(s)
  <2>1. rm[s] \in Manager /\ rm[s].primary_id \in Server
    BY <1>1 DEF Manager
  <2>2. /\ rm'[s].primary_id = s
        /\ \A t \in Server \ {s} : rm'[t] = rm[t]
    BY <1>1, <1>3, <2>1 DEF DeclareVictory, Manager
  <2>3. leader' = [leader EXCEPT ![s] = s]
    BY <1>1, <2>2 DEF leader
  <2>4. leader[s] # NoLeader
    BY <1>1, <2>1, ServerAssumption DEF leader, NoLeader
  <2> QED
    BY <1>3, <2>3, <2>4 DEF DeclareVictory, Abstract!Claim, Abstract!Running
<1> QED
  BY <1>1, <1>2, <1>3 DEF ElectionStep

LEMMA VictoryMeans ==
  ASSUME IInv, NEW s \in Server, HandleVictory(s)
  PROVE  \/ UNCHANGED <<leader, claimed>>
         \/ \E t \in Server : Abstract!Follow(s, t)
<1> DEFINE m == Received(s)
           t == m.replica_id
<1>1. /\ rm \in [Server -> Manager] /\ s \in up /\ UNCHANGED <<up, claimed>>
      /\ queue[s] # <<>> /\ m.type = "VICTORY"
  BY DEF IInv, HandleVictory, Receives, Unbounded
<1>2. m \in Credible
  BY <1>1, HeardType
<1>3. t \in Server /\ t \in claimed
  BY <1>1, <1>2 DEF Credible, Message
<1>4. CASE GivesWay(s, t)
  <2>1. \/ rm' = [rm EXCEPT ![s] = Follows(s, t)]
        \/ rm' = [rm EXCEPT ![s] = Adopts(m, Follows(s, t))]
    BY <1>4 DEF HandleVictory
  <2>2. Follows(s, t).primary_id = t /\ Adopts(m, Follows(s, t)).primary_id = t
    BY <1>1 DEF Follows, Adopts, Manager
  <2>3. rm'[s].primary_id = t /\ \A u \in Server \ {s} : rm'[u] = rm[u]
    <3> HIDE DEF t, m
    <3> QED
      BY <1>1, <2>1, <2>2
  <2>4. leader' = [leader EXCEPT ![s] = t]
    <3> HIDE DEF t
    <3> QED
      BY <1>1, <2>3 DEF leader
  <2>5. leader[s] # NoLeader
    BY <1>1, ServerAssumption DEF leader, NoLeader, Manager
  <2> QED
    BY <1>1, <1>3, <1>4, <2>4, <2>5 DEF Abstract!Follow, Abstract!Running, GivesWay
<1>5. CASE ~GivesWay(s, t)
  <2>1. rm' = [rm EXCEPT ![s] = [rm[s] EXCEPT !.replicas = Heard(s)]]
    BY <1>5 DEF HandleVictory
  <2>2. [rm[s] EXCEPT !.replicas = Heard(s)].primary_id = rm[s].primary_id
    BY <1>1 DEF Manager
  <2> QED
    BY <1>1, <2>1, <2>2, SameLeaderOne
<1> QED
  BY <1>4, <1>5

LEMMA StartMeans ==
  ASSUME IInv, NEW s \in Server, Start(s) PROVE Abstract!Boot(s)
<1>1. rm \in [Server -> Manager]
  BY DEF IInv
<1>2. rm'[s].primary_id = PRIMARY_PORT /\ \A t \in Server \ {s} : rm'[t] = rm[t]
  BY <1>1 DEF Start, Boot
<1>3. leader' = [leader EXCEPT ![s] = PRIMARY_PORT] /\ leader[s] = NoLeader
  <2>1. up' = up \cup {s} /\ s \notin up
    BY DEF Start
  <2> QED
    BY <1>2, <2>1 DEF leader
<1> QED
  BY <1>3 DEF Start, Abstract!Boot, Abstract!Running

LEMMA CrashMeans ==
  ASSUME IInv, NEW s \in Server, Crash(s) PROVE Abstract!Stop(s)
<1>1. rm \in [Server -> Manager] /\ rm[s].primary_id \in Server
  BY DEF IInv, Manager
<1>2. \A t \in Server \ {s} : rm'[t] = rm[t]
  BY <1>1 DEF Crash
<1>3. leader' = [leader EXCEPT ![s] = NoLeader]
  <2>1. up' = up \ {s}
    BY DEF Crash
  <2> QED
    BY <1>2, <2>1 DEF leader
<1>4. leader[s] # NoLeader
  BY <1>1, ServerAssumption DEF Crash, leader, NoLeader
<1> QED
  BY <1>3, <1>4 DEF Crash, Abstract!Stop, Abstract!Running

\* Every step is a step of Leadership or leaves leader and claimed alone.
LEMMA StepMeans == IInv /\ [Next]_vars => [Abstract!Next]_<<leader, claimed>>
<1> SUFFICES ASSUME IInv, Next PROVE Abstract!Next \/ UNCHANGED <<leader, claimed>>
  BY DEF vars, leader
<1>1. ASSUME NEW s \in Server, Start(s) PROVE Abstract!Next
  BY <1>1, StartMeans DEF Abstract!Next
<1>2. ASSUME NEW s \in Server, Crash(s) PROVE Abstract!Next
  BY <1>2, CrashMeans DEF Abstract!Next
<1>3. ASSUME NEW s \in Server, ReceiverElection(s) \/ CheckerElection(s)
      PROVE  Abstract!Next \/ UNCHANGED <<leader, claimed>>
  BY <1>3, ElectionMeans DEF Abstract!Next
<1>4. ASSUME NEW s \in Server, HandleVictory(s)
      PROVE  Abstract!Next \/ UNCHANGED <<leader, claimed>>
  BY <1>4, VictoryMeans DEF Abstract!Next
<1> QED
  BY <1>1, <1>2, <1>3, <1>4, QuietStep, TickStep DEF Next, StartStep, ThreadStep

\* The replication manager implements Leadership: whatever is lost, reordered
\* between servers or restarted, a server gives its allegiance up only by
\* claiming the role itself or for a higher server that has claimed it.
THEOREM ImplementsLeadership == Spec => LeadershipSpec
<1>1. Init => Abstract!Init
  BY DEF Init, Begin, Abstract!Init, leader
<1> QED
  BY <1>1, StepMeans, Invariance, PTL DEF Spec, LeadershipSpec, Abstract!Spec, Abstract!lvars
-------------------------------------------------------------------------------
(* The server started as the primary, provided its port is the lowest.      *)

\* Neither of its threads that could hold an election ever does.
HoldsNoElection == checker[PRIMARY_PORT] = "none" /\ receiver[PRIMARY_PORT] # "elect"

\* Only the answer to an election could make it hold one.
LEMMA NoElectionUnlessAsked ==
  ASSUME IInv, HoldsNoElection, [Next]_vars,
         HandleStartElection(PRIMARY_PORT) => HoldsNoElection'
  PROVE  HoldsNoElection'
<1>1. /\ receiver \in [Server -> {"none", "ready", "elect", "sleep"}]
      /\ checker \in [Server -> {"none", "ready", "check", "elect", "sleep"}]
      /\ PRIMARY_PORT \in Server
  BY ServerAssumption DEF IInv
<1>2. ASSUME NEW s \in Server, StartStep(s) \/ Crash(s) PROVE HoldsNoElection'
  BY <1>1, <1>2 DEF StartStep, Start, SendJoinRequest, CreateThreads, Crash, CheckerStart,
                    HoldsNoElection
<1>3. ASSUME NEW s \in Server, s # PRIMARY_PORT, HandleStartElection(s) PROVE HoldsNoElection'
  <2>1. receiver'[PRIMARY_PORT] = receiver[PRIMARY_PORT] /\ UNCHANGED checker
    BY <1>1, <1>3 DEF HandleStartElection
  <2> QED
    BY <2>1 DEF HoldsNoElection
<1>4. ASSUME NEW s \in Server,
             \/ ReceiverElection(s) \/ ReceiverWakes(s)
             \/ BeginCheck(s) \/ CheckPrimary(s) \/ CheckerElection(s) \/ CheckerWakes(s)
      PROVE  HoldsNoElection'
  BY <1>1, <1>4 DEF ReceiverElection, ReceiverWakes, BeginCheck, CheckPrimary, CheckerElection,
                    CheckerWakes, AfterElection, HoldsNoElection
<1>5. CASE UNCHANGED <<receiver, checker>>
  BY <1>5 DEF HoldsNoElection
<1>6. ASSUME NEW s \in Server,
             \/ HandleHeartbeat(s) \/ HandleJoinRequest(s) \/ HandleReplicaList(s)
             \/ HandleStateUpdate(s) \/ HandleStateAck(s) \/ HandleElectionResponse(s)
             \/ HandleVictory(s) \/ HandleVictoryAck(s)
             \/ SendHeartbeats(s) \/ CallUpdateState(s) \/ Lose(s) \/ Tick
      PROVE  UNCHANGED <<receiver, checker>>
  BY <1>6 DEF HandleHeartbeat, HandleJoinRequest, HandleReplicaList, HandleStateUpdate,
              HandleStateAck, HandleElectionResponse, HandleVictory, HandleVictoryAck,
              SendHeartbeats, CallUpdateState, CallWith, UpdateState, Lose, Tick
<1> QED
  BY <1>1, <1>2, <1>3, <1>4, <1>5, <1>6 DEF Next, ThreadStep, Receive, vars

\* Where no port is lower, the answer is to a higher server and needs none.
LEMMA NoElectionStep ==
  ASSUME \A s \in Server : PRIMARY_PORT <= s,
         IInv, HoldsNoElection, [Next]_vars
  PROVE  HoldsNoElection'
<1> DEFINE P == PRIMARY_PORT
           from == Received(P).replica_id
<1>1. ASSUME HandleStartElection(P) PROVE HoldsNoElection'
  <2>1. queue[P] # <<>> /\ UNCHANGED checker /\ P \in Server
    BY <1>1, ServerAssumption DEF HandleStartElection, Receives
  <2>2. from \in Server
    BY <2>1, HeardType
  <2>3. ~(from < P)
    <3>1. P <= from /\ from \in Nat /\ P \in Nat
      BY <2>1, <2>2, ServerAssumption
    <3> HIDE DEF from
    <3> QED
      BY <3>1
  <2>4. receiver' = receiver
    BY <1>1, <2>3 DEF HandleStartElection, Answers
  <2> QED
    BY <2>1, <2>4 DEF HoldsNoElection
<1> QED
  BY <1>1, NoElectionUnlessAsked

\* Once the server started as the primary has stepped down it does not lead
\* again before it is restarted, if no server has a lower port: a victory is
\* declared only from an election, and it holds none.
THEOREM PrimaryPortStaysDown ==
  ASSUME \A s \in Server : PRIMARY_PORT <= s
  PROVE  Spec => SteppedDownStaysDown
<1>1. Init => HoldsNoElection
  BY ServerAssumption DEF Init, Begin, HoldsNoElection
<1>2. IInv /\ HoldsNoElection /\ [Next]_vars => HoldsNoElection'
  BY NoElectionStep
<1>3. IInv /\ IInv' /\ HoldsNoElection /\ [Next]_vars => ~TakesOver(PRIMARY_PORT)
  <2> DEFINE P == PRIMARY_PORT
  <2> SUFFICES ASSUME IInv, IInv', HoldsNoElection, Next, TakesOver(P) PROVE FALSE
    BY DEF vars, TakesOver
  <2>1. P \in Server /\ P \in Nat /\ NoLeader \notin Server
    BY ServerAssumption DEF NoLeader
  <2>2. /\ leader[P] = rm[P].primary_id /\ rm[P].primary_id # P
        /\ leader'[P] = rm'[P].primary_id /\ rm'[P].primary_id = P
    BY <2>1 DEF TakesOver, leader, IInv, Sound
  <2>3. leader[P] # NoLeader /\ leader \in [Server -> Server \cup {NoLeader}]
    BY <2>1, <2>2 DEF IInv, Manager, leader
  <2>4. ASSUME NEW s \in Server, Start(s) \/ Crash(s) PROVE FALSE
    <3>1. Abstract!Boot(s) \/ Abstract!Stop(s)
      BY <2>4, StartMeans, CrashMeans
    <3> QED
      BY <2>1, <2>2, <2>3, <3>1 DEF Abstract!Boot, Abstract!Stop, Abstract!Running
  <2>5. ASSUME NEW s \in Server, ReceiverElection(s) \/ CheckerElection(s) PROVE FALSE
    <3>1. s # P
      BY <2>5 DEF HoldsNoElection, ReceiverElection, CheckerElection
    <3>2. UNCHANGED leader \/ Abstract!Claim(s)
      BY <2>5, ElectionMeans
    <3> QED
      BY <2>1, <2>2, <2>3, <3>1, <3>2 DEF Abstract!Claim
  <2>6. ASSUME NEW s \in Server, HandleVictory(s) PROVE FALSE
    <3>1. UNCHANGED leader \/ \E t \in Server : Abstract!Follow(s, t)
      BY <2>6, VictoryMeans
    <3>2. ASSUME NEW t \in Server, Abstract!Follow(s, t) PROVE leader'[P] # P \/ leader'[P] = leader[P]
      <4>1. t \in Nat /\ s \in Nat /\ t > s /\ leader' = [leader EXCEPT ![s] = t]
        BY <3>2, ServerAssumption DEF Abstract!Follow
      <4> QED
        BY <2>1, <2>3, <4>1
    <3> QED
      BY <2>2, <3>1, <3>2
  <2>7. UNCHANGED leader \/ \E s \in Server : Start(s) \/ Crash(s) \/ ReceiverElection(s)
                                               \/ CheckerElection(s) \/ HandleVictory(s)
    BY QuietStep, TickStep DEF Next, StartStep, ThreadStep
  <2> QED
    BY <2>2, <2>4, <2>5, <2>6, <2>7
<1> QED
  BY <1>1, <1>2, <1>3, Invariance, PTL DEF Spec, SteppedDownStaysDown
-------------------------------------------------------------------------------
(* The replica lists stay within their array.                               *)

Fits(R) == Cardinality(Listed(R)) <= MAX_REPLICAS

LEMMA ListedFinite ==
  ASSUME NEW R
  PROVE  IsFiniteSet(Listed(R)) /\ Cardinality(Listed(R)) \in Nat
<1>1. Listed(R) \subseteq Server /\ IsFiniteSet(Server)
  BY ServerAssumption DEF Listed
<1> QED
  BY <1>1, FS_Subset, FS_CardinalityType

\* The operators that mark an entry list the same replicas as before.
LEMMA MarkedListed ==
  ASSUME NEW R \in [Server -> Entry], NEW r \in Server
  PROVE  /\ Listed(SeenAlive(R, r)) = Listed(R)
         /\ Listed(Confirmed(R, r)) = Listed(R)
         /\ Listed([R EXCEPT ![r] = [@ EXCEPT !.is_alive = FALSE]]) = Listed(R)
         /\ Listed([R EXCEPT ![r] = [@ EXCEPT !.state_confirmed = FALSE]]) = Listed(R)
BY DEF SeenAlive, Confirmed, Listed, Entry

LEMMA AgedListed ==
  ASSUME NEW R \in [Server -> Entry]
  PROVE  Listed(Aged(R)) = Listed(R)
BY DEF Aged, Listed, Entry

LEMMA HeardListed ==
  ASSUME IInv, NEW s \in Server, queue[s] # <<>>
  PROVE  Listed(Heard(s)) = Listed(rm[s].replicas)
<1>1. rm[s].replicas \in [Server -> Entry] /\ Received(s).replica_id \in Server
  BY HeardType DEF IInv, Manager
<1> QED
  BY <1>1 DEF Heard, Listed, Entry

\* A step that changes one manager keeps the lists short if the new one lists
\* the replicas of the old one, or few enough.
LEMMA OneFits ==
  ASSUME IInv, ListFits, NEW s \in Server, NEW M, rm' = [rm EXCEPT ![s] = M],
         Listed(M.replicas) = Listed(rm[s].replicas) \/ Fits(M.replicas)
  PROVE  ListFits'
<1>1. rm \in [Server -> Manager]
  BY DEF IInv
<1> SUFFICES ASSUME NEW t \in Server
             PROVE  Cardinality(Listed(rm'[t].replicas)) <= MAX_REPLICAS
  BY DEF ListFits, Listed
<1>2. CASE t = s
  BY <1>1, <1>2 DEF ListFits, Fits
<1>3. CASE t # s
  BY <1>1, <1>3 DEF ListFits
<1> QED
  BY <1>2, <1>3

LEMMA BootFits ==
  ASSUME NEW s \in Server
  PROVE  Fits(Boot(s).replicas)
<1>1. Boot(s).replicas = [NoReplicas EXCEPT ![PRIMARY_PORT] = FreshEntry(TRUE, s = PRIMARY_PORT)]
  BY DEF Boot
<1>2. Listed(Boot(s).replicas) = {PRIMARY_PORT}
  BY <1>1, ServerAssumption DEF Listed, NoReplicas, NoEntry, FreshEntry
<1>3. Cardinality({PRIMARY_PORT}) = 1
  BY FS_Singleton
<1>4. 1 <= MAX_REPLICAS
  BY BoundAssumption
<1> QED
  BY <1>2, <1>3, <1>4 DEF Fits

\* The handlers that only mark entries.
LEMMA MarkingFits ==
  ASSUME IInv, ListFits, NEW s \in Server,
         \/ HandleHeartbeat(s) \/ HandleStateAck(s) \/ HandleStartElection(s)
         \/ HandleVictoryAck(s) \/ BeginCheck(s) \/ CheckPrimary(s)
         \/ ReceiverWakes(s) \/ CheckerWakes(s) \/ SendHeartbeats(s) \/ Lose(s)
  PROVE  ListFits'
<1>1. rm[s] \in Manager /\ rm[s].replicas \in [Server -> Entry] /\ rm[s].primary_id \in Server
  BY DEF IInv, Manager
<1>2. CASE HandleHeartbeat(s) \/ HandleStateAck(s) \/ HandleStartElection(s) \/ HandleVictoryAck(s)
  <2> DEFINE r == Received(s).replica_id
  <2>1. queue[s] # <<>>
    BY <1>2 DEF HandleHeartbeat, HandleStateAck, HandleStartElection, HandleVictoryAck, Receives
  <2>2. Heard(s) \in [Server -> Entry] /\ r \in Server
    BY <2>1, HeardType
  <2>3. PICK R \in {Heard(s), SeenAlive(Heard(s), r), Confirmed(Heard(s), r)} :
          rm' = [rm EXCEPT ![s] = [rm[s] EXCEPT !.replicas = R]]
    BY <1>2 DEF HandleHeartbeat, HandleStateAck, HandleStartElection, HandleVictoryAck
  <2>4. Listed(R) = Listed(rm[s].replicas)
    <3>1. /\ Listed(SeenAlive(Heard(s), r)) = Listed(Heard(s))
          /\ Listed(Confirmed(Heard(s), r)) = Listed(Heard(s))
      BY <2>2, MarkedListed
    <3> QED
      BY <2>1, <2>3, <3>1, HeardListed
  <2>5. [rm[s] EXCEPT !.replicas = R].replicas = R
    BY <1>1 DEF Manager
  <2> QED
    BY <2>3, <2>4, <2>5, OneFits
<1>3. CASE \/ BeginCheck(s) \/ CheckPrimary(s) \/ ReceiverWakes(s) \/ CheckerWakes(s)
           \/ SendHeartbeats(s) \/ Lose(s)
  <2> DEFINE R == [rm[s].replicas EXCEPT ![rm[s].primary_id] = [@ EXCEPT !.is_alive = FALSE]]
  <2>1. UNCHANGED rm \/ rm' = [rm EXCEPT ![s] = [rm[s] EXCEPT !.replicas = R]]
    BY <1>3 DEF BeginCheck, CheckPrimary, ReceiverWakes, CheckerWakes, SendHeartbeats, Lose
  <2>2. Listed(R) = Listed(rm[s].replicas)
    BY <1>1, MarkedListed
  <2>3. [rm[s] EXCEPT !.replicas = R].replicas = R
    BY <1>1 DEF Manager
  <2>4. CASE UNCHANGED rm
    BY <2>4 DEF ListFits, Listed
  <2> HIDE DEF R
  <2> QED
    BY <2>1, <2>2, <2>3, <2>4, OneFits
<1> QED
  BY <1>2, <1>3

\* The handlers that also change the role or the state.
LEMMA RoleFits ==
  ASSUME IInv, ListFits, NEW s \in Server,
         \/ HandleStateUpdate(s) \/ HandleElectionResponse(s) \/ HandleVictory(s)
         \/ ReceiverElection(s) \/ CheckerElection(s) \/ CallUpdateState(s)
  PROVE  ListFits'
<1>1. rm[s] \in Manager
  BY DEF IInv
<1>2. CASE HandleStateUpdate(s) \/ HandleElectionResponse(s) \/ HandleVictory(s)
  <2> DEFINE r == Received(s).replica_id
  <2>1. queue[s] # <<>>
    BY <1>2 DEF HandleStateUpdate, HandleElectionResponse, HandleVictory, Receives
  <2>2. Heard(s) \in [Server -> Entry] /\ r \in Server
    BY <2>1, HeardType
  <2>3. \E M : /\ rm' = [rm EXCEPT ![s] = M]
               /\ M.replicas \in {Heard(s), SeenAlive(Heard(s), r)}
    <3>1. CASE HandleStateUpdate(s)
      <4> DEFINE heard == [rm[s] EXCEPT !.replicas = Heard(s)]
                 taken == [Adopts(Received(s), heard) EXCEPT !.election_in_progress = FALSE,
                                                             !.received_initial_state = TRUE]
      <4>1. rm' = [rm EXCEPT ![s] = heard] \/ rm' = [rm EXCEPT ![s] = taken]
        BY <3>1 DEF HandleStateUpdate
      <4>2. heard.replicas = Heard(s) /\ taken.replicas = Heard(s)
        BY <1>1 DEF Adopts, Manager
      <4> HIDE DEF heard, taken
      <4> QED
        BY <4>1, <4>2
    <3>2. CASE HandleElectionResponse(s)
      <4> DEFINE heard == [rm[s] EXCEPT !.replicas = Heard(s)]
                 stopped == [rm[s] EXCEPT !.election_in_progress = FALSE,
                                          !.replicas = SeenAlive(Heard(s), r)]
      <4>1. rm' = [rm EXCEPT ![s] = heard] \/ rm' = [rm EXCEPT ![s] = stopped]
        BY <3>2 DEF HandleElectionResponse
      <4>2. heard.replicas = Heard(s) /\ stopped.replicas = SeenAlive(Heard(s), r)
        BY <1>1 DEF Manager
      <4> HIDE DEF heard, stopped, r
      <4> QED
        BY <4>1, <4>2
    <3>3. CASE HandleVictory(s)
      <4> DEFINE heard == [rm[s] EXCEPT !.replicas = Heard(s)]
                 adopted == Adopts(Received(s), Follows(s, r))
      <4>1. \/ rm' = [rm EXCEPT ![s] = heard] \/ rm' = [rm EXCEPT ![s] = Follows(s, r)]
            \/ rm' = [rm EXCEPT ![s] = adopted]
        BY <3>3 DEF HandleVictory
      <4>2. /\ heard.replicas = Heard(s) /\ Follows(s, r).replicas = SeenAlive(Heard(s), r)
            /\ adopted.replicas = SeenAlive(Heard(s), r)
        BY <1>1 DEF Adopts, Follows, Manager
      <4> HIDE DEF heard, adopted, r
      <4> QED
        BY <4>1, <4>2
    <3> QED
      BY <1>2, <3>1, <3>2, <3>3
  <2>4. PICK M : rm' = [rm EXCEPT ![s] = M] /\ M.replicas \in {Heard(s), SeenAlive(Heard(s), r)}
    BY <2>3
  <2>5. Listed(M.replicas) = Listed(rm[s].replicas)
    <3>1. Listed(SeenAlive(Heard(s), r)) = Listed(Heard(s))
      BY <2>2, MarkedListed
    <3> QED
      BY <2>1, <2>4, <3>1, HeardListed
  <2> QED
    BY <2>4, <2>5, OneFits
<1>3. CASE ReceiverElection(s) \/ CheckerElection(s) \/ CallUpdateState(s)
  <2> DEFINE electing == [rm[s] EXCEPT !.election_in_progress = TRUE]
             leading == [rm[s] EXCEPT !.is_primary = TRUE, !.primary_id = s,
                                      !.election_in_progress = FALSE]
  <2>1. CASE UNCHANGED rm
    BY <2>1 DEF ListFits, Listed
  <2>2. electing.replicas = rm[s].replicas /\ leading.replicas = rm[s].replicas
    BY <1>1 DEF Manager
  <2>3. CASE rm' = [rm EXCEPT ![s] = electing] \/ rm' = [rm EXCEPT ![s] = leading]
    <3> HIDE DEF electing, leading
    <3> QED
      BY <2>2, <2>3, OneFits
  <2>4. CASE CallUpdateState(s)
    <3>0. PICK new_sum \in Sums, seqn \in Seqns : CallWith(s, new_sum, seqn)
      BY <2>4 DEF CallUpdateState
    <3>1. rm' = [rm EXCEPT ![s] = [rm[s] EXCEPT !.current_sum = new_sum, !.last_seqn = seqn]]
      BY <3>0 DEF CallWith, UpdateState
    <3>2. [rm[s] EXCEPT !.current_sum = new_sum, !.last_seqn = seqn].replicas = rm[s].replicas
      BY <1>1 DEF Manager
    <3> QED
      BY <3>1, <3>2, OneFits
  <2>5. CASE ReceiverElection(s) \/ CheckerElection(s)
    <3>1. SkipElection(s) \/ CallElection(s) \/ DeclareVictory(s)
      BY <2>5 DEF ReceiverElection, CheckerElection, ElectionStep
    <3>2. SkipElection(s) => UNCHANGED rm
      BY DEF SkipElection
    <3>3. CallElection(s) => rm' = [rm EXCEPT ![s] = electing]
      BY DEF CallElection
    <3>4. DeclareVictory(s) => rm' = [rm EXCEPT ![s] = leading]
      BY DEF DeclareVictory
    <3> HIDE DEF electing, leading
    <3> QED
      BY <2>1, <2>3, <3>1, <3>2, <3>3, <3>4
  <2> QED
    BY <1>3, <2>4, <2>5
<1> QED
  BY <1>2, <1>3

LEMMA JoinRequestFits ==
  ASSUME IInv, ListFits, NEW s \in Server, HandleJoinRequest(s) PROVE ListFits'
<1> DEFINE from == Received(s).replica_id
           R == Heard(s)
           again == [SeenAlive(R, from) EXCEPT ![from] = [@ EXCEPT !.state_confirmed = FALSE]]
           new == [R EXCEPT ![from] = FreshEntry(FALSE, FALSE)]
<1>1. rm[s] \in Manager /\ queue[s] # <<>>
  BY DEF IInv, HandleJoinRequest, Receives
<1>2. from \in Server /\ R \in [Server -> Entry] /\ Listed(R) = Listed(rm[s].replicas)
  BY <1>1, HeardType, HeardListed
<1> DEFINE With(L) == [rm[s] EXCEPT !.replicas = L]
<1>3. \/ rm' = [rm EXCEPT ![s] = With(R)]
      \/ rm' = [rm EXCEPT ![s] = With(again)]
      \/ rm' = [rm EXCEPT ![s] = With(new)] /\ ~R[from].listed /\ HasRoom(R)
  <2> HIDE DEF from, R
  <2> QED
    BY DEF HandleJoinRequest, from, R
<1>4. Listed(again) = Listed(R)
  <2> HIDE DEF from, R
  <2>1. SeenAlive(R, from) \in [Server -> Entry] /\ Listed(SeenAlive(R, from)) = Listed(R)
    BY <1>2, SeenAliveType, MarkedListed
  <2> QED
    BY <1>2, <2>1, MarkedListed
<1>5. ~R[from].listed /\ HasRoom(R) => Fits(new)
  <2> SUFFICES ASSUME ~R[from].listed, HasRoom(R) PROVE Fits(new)
    OBVIOUS
  <2>1. Listed(new) = Listed(R) \cup {from} /\ from \notin Listed(R)
    BY <1>2 DEF Listed, FreshEntry
  <2>2. Cardinality(Listed(new)) = Cardinality(Listed(R)) + 1
    BY <2>1, ListedFinite, FS_AddElement
  <2> HIDE DEF R, new
  <2> QED
    BY <2>2, ListedFinite, BoundAssumption DEF HasRoom, Fits
<1>6. \A L : With(L).replicas = L
  BY <1>1 DEF Manager
<1> HIDE DEF from, R, again, new, With
<1> QED
  BY <1>2, <1>3, <1>4, <1>5, <1>6, OneFits

\* The entry that is written last was written while there was room.
LEMMA ReplicaListFits ==
  ASSUME IInv, ListFits, NEW s \in Server, HandleReplicaList(s) PROVE ListFits'
<1> DEFINE R == Heard(s)
           sent == Received(s).replicas
           fresh == Listed(sent) \ Listed(R)
           With(taken) == [r \in Server |-> IF r \in taken \cup (Listed(sent) \cap Listed(R))
                                            THEN sent[r] ELSE R[r]]
<1>1. rm[s] \in Manager /\ queue[s] # <<>>
  BY DEF IInv, HandleReplicaList, Receives
<1>2. sent \in [Server -> Entry] /\ R \in [Server -> Entry] /\ Listed(R) = Listed(rm[s].replicas)
  BY <1>1, HeardType, HeardListed DEF Credible, Message
<1>3. PICK taken \in SUBSET fresh : /\ \A r \in taken : HasRoom(With(taken \ {r}))
                                    /\ rm' = [rm EXCEPT ![s].replicas = With(taken)]
  BY DEF HandleReplicaList
<1>4. ASSUME NEW T \in SUBSET fresh PROVE Listed(With(T)) = Listed(R) \cup T
  BY <1>2, <1>4 DEF Listed
<1>5. [rm[s] EXCEPT !.replicas = With(taken)].replicas = With(taken)
  BY <1>1 DEF Manager
<1>6. CASE taken = {}
  BY <1>2, <1>3, <1>4, <1>5, <1>6, OneFits
<1>7. CASE taken # {}
  <2>1. PICK r \in taken : HasRoom(With(taken \ {r}))
    BY <1>3, <1>7
  <2>2. /\ Listed(With(taken)) = Listed(With(taken \ {r})) \cup {r}
        /\ r \notin Listed(With(taken \ {r}))
    <3>1. taken \ {r} \in SUBSET fresh /\ r \in fresh
      BY <1>3, <2>1
    <3>2. /\ Listed(With(taken)) = Listed(R) \cup taken
          /\ Listed(With(taken \ {r})) = Listed(R) \cup (taken \ {r})
      BY <1>3, <1>4, <3>1
    <3> HIDE DEF With
    <3> QED
      BY <2>1, <3>1, <3>2
  <2> HIDE DEF With
  <2>3. Cardinality(Listed(With(taken))) = Cardinality(Listed(With(taken \ {r}))) + 1
    BY <2>2, ListedFinite, FS_AddElement
  <2>4. Fits(With(taken))
    BY <2>1, <2>3, ListedFinite, BoundAssumption DEF HasRoom, Fits
  <2> QED
    BY <1>3, <1>5, <2>4, OneFits
<1> QED
  BY <1>6, <1>7

LEMMA FitsNext == IInv /\ ListFits /\ [Next]_vars => ListFits'
<1> SUFFICES ASSUME IInv, ListFits, [Next]_vars PROVE ListFits'
  OBVIOUS
<1>1. ASSUME NEW s \in Server, Start(s) \/ Crash(s) PROVE ListFits'
  <2>1. rm' = [rm EXCEPT ![s] = Boot(s)]
    BY <1>1 DEF Start, Crash
  <2> QED
    BY <2>1, BootFits, OneFits
<1>2. CASE Tick
  <2>1. ASSUME NEW s \in Server PROVE Listed(rm'[s].replicas) = Listed(rm[s].replicas)
    <3>1. rm[s] \in Manager /\ rm[s].replicas \in [Server -> Entry]
      BY DEF IInv, Manager
    <3>2. rm'[s] = rm[s] \/ rm'[s] = [rm[s] EXCEPT !.replicas = Aged(rm[s].replicas)]
      BY <1>2 DEF Tick
    <3> QED
      BY <3>1, <3>2, AgedListed DEF Manager
  <2> QED
    BY <2>1 DEF ListFits, Listed
<1>3. CASE UNCHANGED rm
  BY <1>3 DEF ListFits, Listed
<1>4. ASSUME NEW s \in Server, SendJoinRequest(s) \/ CreateThreads(s) PROVE UNCHANGED rm
  BY <1>4 DEF SendJoinRequest, CreateThreads
<1> QED
  BY <1>1, <1>2, <1>3, <1>4, MarkingFits, RoleFits, JoinRequestFits, ReplicaListFits
     DEF Next, StartStep, ThreadStep, Receive, vars

\* No server ever lists more replicas than its array holds, whatever lists the
\* others send it and in whichever order their members join.
THEOREM ListsFit == Spec => []ListFits
<1>1. Init => ListFits
  BY BootFits DEF Init, Begin, ListFits, Fits, Listed
<1> QED
  BY <1>1, FitsNext, Invariance, PTL DEF Spec
===============================================================================
