------------------------------ MODULE SocketProofs ------------------------------
(***************************************************************************)
(* What a step of Replication sends, what it takes from a socket, and what *)
(* it does to the entries of a replica list, for the proofs that follow a  *)
(* datagram from the send to the read.                                     *)
(***************************************************************************)
EXTENDS ReplicationProofs

\* Datagrams of one of the types T that s sends.
Own(s, T) == {m \in Message : m.replica_id = s /\ m.type \in T}

\* s adds datagrams of the types T to the sockets q.
Sends(s, q, T) ==
  \E D \in SUBSET Server : \E ms \in Seq(Own(s, T)) : queue' = Deliver(q, To(D, ms))

\* No buffer is ever used up: an overflow would leave the socket full, so that
\* none has happened.
NeverFull == \A d \in Server : Len(queue[d]) < RCVBUF
-------------------------------------------------------------------------------
(* Deliver, when nothing overflows.                                         *)

LEMMA QueueType ==
  ASSUME IInv
  PROVE  /\ queue \in [Server -> Seq(Message)]
         /\ \A s \in Server : queue[s] # <<>> => Rest(s) \in [Server -> Seq(Message)]
<1>1. \A x \in Seq(Credible) : x \in Seq(Message)
  <2>1. Credible \subseteq Message
    BY DEF Credible
  <2> QED
    BY <2>1
<1>2. queue \in [Server -> Seq(Message)]
  BY <1>1 DEF IInv, Sockets
<1>3. ASSUME NEW s \in Server, queue[s] # <<>> PROVE Tail(queue[s]) \in Seq(Message)
  BY <1>2, <1>3, HeadTailProperties
<1> QED
  BY <1>2, <1>3 DEF Rest

LEMMA DeliverAll ==
  ASSUME NEW S, NEW q \in [Server -> Seq(S)], NEW D, NEW ms \in Seq(S), NEW d \in Server,
         Len(Deliver(q, To(D, ms))[d]) < RCVBUF
  PROVE  Deliver(q, To(D, ms))[d] = IF d \in up /\ d \in D THEN q[d] \o ms ELSE q[d]
<1> DEFINE x == To(D, ms)[d]
<1>1. x = IF d \in D THEN ms ELSE <<>>
  BY DEF To
<1>2. Deliver(q, To(D, ms))[d] =
        IF d \notin up \/ x = <<>> THEN q[d]
        ELSE IF Len(q[d]) + Len(x) <= RCVBUF THEN q[d] \o x
        ELSE SubSeq(q[d] \o x, 1, RCVBUF)
  BY DEF Deliver
<1>3. q[d] \in Seq(S) /\ x \in Seq(S)
  BY <1>1
<1> HIDE DEF x
<1>4. q[d] \o x \in Seq(S) /\ Len(q[d] \o x) = Len(q[d]) + Len(x) /\ q[d] \o <<>> = q[d]
  BY <1>3, ConcatProperties
<1>5. Len(q[d]) + Len(x) > RCVBUF => Len(SubSeq(q[d] \o x, 1, RCVBUF)) = RCVBUF
  BY <1>3, <1>4, BoundAssumption, SubSeqProperties
<1>6. RCVBUF \in Nat /\ Len(q[d]) \in Nat /\ Len(x) \in Nat
  BY <1>3, BoundAssumption
<1>7. d \notin up \/ x = <<>> \/ Len(q[d]) + Len(x) <= RCVBUF
  BY <1>2, <1>5, <1>6
<1> QED
  BY <1>1, <1>2, <1>4, <1>7

LEMMA NothingDelivered ==
  ASSUME NEW S, NEW q \in [Server -> S], NEW D
  PROVE  Deliver(q, To(D, <<>>)) = q
BY DEF Deliver, To

\* A step that sends nothing.
LEMMA SendsNothing ==
  ASSUME NEW S, NEW q \in [Server -> S], queue' = q, NEW s, NEW T
  PROVE  Sends(s, q, T)
<1>1. <<>> \in Seq(Own(s, T)) /\ {} \in SUBSET Server
  OBVIOUS
<1>2. queue' = Deliver(q, To({}, <<>>))
  BY NothingDelivered
<1> QED
  BY <1>1, <1>2 DEF Sends

LEMMA SendsMore ==
  ASSUME NEW s, NEW q, NEW T, NEW U, T \subseteq U, Sends(s, q, T)
  PROVE  Sends(s, q, U)
<1>1. PICK D \in SUBSET Server, ms \in Seq(Own(s, T)) : queue' = Deliver(q, To(D, ms))
  BY DEF Sends
<1>2. Own(s, T) \subseteq Own(s, U)
  BY DEF Own
<1>3. ms \in Seq(Own(s, U))
  BY <1>2
<1> QED
  BY <1>1, <1>3 DEF Sends

LEMMA OwnPlain ==
  ASSUME NEW s \in Server, NEW type \in MessageType, NEW R \in [Server -> Entry]
  PROVE  /\ Plain(type, s) \in Own(s, {type})
         /\ WithList(s, R) \in Own(s, {"REPLICA_LIST_UPDATE"})
BY EntryType DEF Plain, WithList, Own, Message, MessageType

LEMMA OwnState ==
  ASSUME IInv, NEW s \in Server
  PROVE  /\ WithState("VICTORY", s) \in Own(s, {"VICTORY"})
         /\ WithState("STATE_UPDATE", s) \in Own(s, {"STATE_UPDATE"})
<1>1. rm[s].current_sum \in Int /\ rm[s].last_seqn \in Int
  BY DEF IInv, Manager
<1> QED
  BY <1>1, EntryType DEF WithState, Plain, Own, Message, MessageType

\* A Plain message, once or BURST times.
LEMMA SendsPlain ==
  ASSUME NEW s \in Server, NEW type \in MessageType, NEW q, NEW D \in SUBSET Server,
         \/ queue' = Deliver(q, To(D, Burst(Plain(type, s))))
         \/ queue' = Deliver(q, To(D, <<Plain(type, s)>>))
  PROVE  Sends(s, q, {type})
<1>1. Plain(type, s) \in Own(s, {type})
  BY EntryType, OwnPlain
<1>2. Burst(Plain(type, s)) \in Seq(Own(s, {type}))
  BY <1>1, BurstType
<1>3. <<Plain(type, s)>> \in Seq(Own(s, {type}))
  BY <1>1
<1> QED
  BY <1>2, <1>3 DEF Sends
-------------------------------------------------------------------------------
(* What each action sends.                                                  *)

AnswerTypes == {"STATE_ACK", "ELECTION_RESPONSE", "VICTORY_ACK"}

ThreadTypes == {"HEARTBEAT", "START_ELECTION", "VICTORY", "STATE_UPDATE"}

LEMMA ReceivesSome ==
  ASSUME NEW s \in Server, Receive(s)
  PROVE  queue[s] # <<>> /\ s \in up
BY DEF Receive, HandleHeartbeat, HandleJoinRequest, HandleReplicaList, HandleStateUpdate,
       HandleStateAck, HandleStartElection, HandleElectionResponse, HandleVictory,
       HandleVictoryAck, Receives

LEMMA AnswerSends ==
  ASSUME IInv, NEW s \in Server, Receive(s), ~HandleJoinRequest(s)
  PROVE  Sends(s, Rest(s), AnswerTypes)
<1>1. queue[s] # <<>> /\ Rest(s) \in [Server -> Seq(Message)]
  BY ReceivesSome, QueueType
<1>2. {Received(s).replica_id} \in SUBSET Server
  BY <1>1, HeardType
<1>3. "STATE_ACK" \in MessageType /\ "ELECTION_RESPONSE" \in MessageType
      /\ "VICTORY_ACK" \in MessageType
  BY DEF MessageType
<1>4. CASE queue' = Rest(s)
  BY <1>1, <1>4, SendsNothing
<1>5. ASSUME NEW type \in AnswerTypes,
             \/ queue' = Deliver(Rest(s), To({Received(s).replica_id}, Burst(Plain(type, s))))
             \/ queue' = Deliver(Rest(s), To({Received(s).replica_id}, <<Plain(type, s)>>))
      PROVE  Sends(s, Rest(s), AnswerTypes)
  <2>1. Sends(s, Rest(s), {type})
    BY <1>2, <1>3, <1>5, SendsPlain DEF AnswerTypes
  <2> QED
    BY <2>1, SendsMore
<1>6. CASE HandleStateUpdate(s)
  BY <1>4, <1>5, <1>6 DEF HandleStateUpdate, AnswerTypes
<1>7. CASE HandleStartElection(s)
  BY <1>4, <1>5, <1>7 DEF HandleStartElection, AnswerTypes
<1>8. CASE HandleVictory(s)
  BY <1>4, <1>5, <1>8 DEF HandleVictory, AnswerTypes
<1>9. CASE \/ HandleHeartbeat(s) \/ HandleReplicaList(s) \/ HandleStateAck(s)
           \/ HandleElectionResponse(s) \/ HandleVictoryAck(s)
  BY <1>4, <1>9 DEF HandleHeartbeat, HandleReplicaList, HandleStateAck,
                    HandleElectionResponse, HandleVictoryAck
<1> QED
  BY <1>6, <1>7, <1>8, <1>9 DEF Receive

\* The list that a JOIN_REQUEST makes of the one heard.
Rejoined(R, r) == [SeenAlive(R, r) EXCEPT ![r] = [@ EXCEPT !.state_confirmed = FALSE]]

Enrolled(R, r) == [R EXCEPT ![r] = FreshEntry(FALSE, FALSE)]

LEMMA JoiningType ==
  ASSUME NEW R \in [Server -> Entry], NEW r \in Server
  PROVE  Rejoined(R, r) \in [Server -> Entry] /\ Enrolled(R, r) \in [Server -> Entry]
<1>1. SeenAlive(R, r) \in [Server -> Entry]
  BY SeenAliveType
<1>2. [SeenAlive(R, r)[r] EXCEPT !.state_confirmed = FALSE] \in Entry
  BY <1>1 DEF Entry
<1> QED
  BY <1>1, <1>2, FreshEntryType DEF Rejoined, Enrolled

LEMMA JoinCases ==
  ASSUME NEW s \in Server, HandleJoinRequest(s)
  PROVE  LET from == Received(s).replica_id
             R == Heard(s)
         IN  \/ /\ \/ ~rm[s].is_primary
                   \/ rm[s].is_primary /\ ~R[from].listed /\ ~HasRoom(R)
                /\ rm' = [rm EXCEPT ![s].replicas = R]
                /\ queue' = Rest(s)
             \/ /\ rm[s].is_primary /\ R[from].listed
                /\ rm' = [rm EXCEPT ![s].replicas = Rejoined(R, from)]
                /\ queue' = Deliver(Rest(s), To({from}, Burst(WithList(s, Rejoined(R, from)))))
             \/ /\ rm[s].is_primary /\ ~R[from].listed /\ HasRoom(R)
                /\ rm' = [rm EXCEPT ![s].replicas = Enrolled(R, from)]
                /\ queue' = Deliver(Rest(s), To(Addressed(Enrolled(R, from), Server \ {s}),
                                                Burst(WithList(s, Enrolled(R, from)))))
BY DEF HandleJoinRequest, Rejoined, Enrolled

LEMMA JoinSends ==
  ASSUME IInv, NEW s \in Server, HandleJoinRequest(s)
  PROVE  Sends(s, Rest(s), {"REPLICA_LIST_UPDATE"})
<1> DEFINE from == Received(s).replica_id
           R == Heard(s)
<1>1. queue[s] # <<>>
  BY DEF HandleJoinRequest, Receives
<1>2. from \in Server /\ R \in [Server -> Entry] /\ Rest(s) \in [Server -> Seq(Message)]
  BY <1>1, HeardType, QueueType
<1>3. \/ queue' = Rest(s)
      \/ queue' = Deliver(Rest(s), To({from}, Burst(WithList(s, Rejoined(R, from)))))
      \/ queue' = Deliver(Rest(s), To(Addressed(Enrolled(R, from), Server \ {s}),
                                      Burst(WithList(s, Enrolled(R, from)))))
  BY JoinCases
<1> HIDE DEF from, R
<1>4. ASSUME NEW L \in [Server -> Entry], NEW D \in SUBSET Server,
             queue' = Deliver(Rest(s), To(D, Burst(WithList(s, L))))
      PROVE  Sends(s, Rest(s), {"REPLICA_LIST_UPDATE"})
  <2>1. WithList(s, L) \in Own(s, {"REPLICA_LIST_UPDATE"})
    <3>1. "HEARTBEAT" \in MessageType
      BY DEF MessageType
    <3> QED
      BY <3>1, OwnPlain
  <2> QED
    BY <1>4, <2>1, BurstType DEF Sends
<1>5. \A L : Addressed(L, Server \ {s}) \in SUBSET Server
  BY DEF Addressed
<1>6. Rejoined(R, from) \in [Server -> Entry] /\ Enrolled(R, from) \in [Server -> Entry]
  BY <1>2, JoiningType
<1>7. CASE queue' = Rest(s)
  BY <1>2, <1>7, SendsNothing
<1>8. CASE queue' = Deliver(Rest(s), To({from}, Burst(WithList(s, Rejoined(R, from)))))
  <2>1. {from} \in SUBSET Server
    BY <1>2
  <2> QED
    BY <1>4, <1>6, <1>8, <2>1
<1>9. CASE queue' = Deliver(Rest(s), To(Addressed(Enrolled(R, from), Server \ {s}),
                                        Burst(WithList(s, Enrolled(R, from)))))
  BY <1>4, <1>5, <1>6, <1>9
<1> QED
  BY <1>3, <1>7, <1>8, <1>9

LEMMA ElectionSends ==
  ASSUME IInv, NEW s \in Server, ElectionStep(s)
  PROVE  Sends(s, queue, ThreadTypes)
<1>1. queue \in [Server -> Seq(Message)]
  BY QueueType
<1>2. CASE SkipElection(s)
  BY <1>1, <1>2, SendsNothing DEF SkipElection
<1>3. CASE CallElection(s)
  <2>1. "START_ELECTION" \in MessageType
    BY DEF MessageType
  <2>2. Addressed(rm[s].replicas, Higher(s)) \in SUBSET Server
    BY DEF Addressed, Listed
  <2>3. Sends(s, queue, {"START_ELECTION"})
    BY <1>3, <2>1, <2>2, SendsPlain DEF CallElection
  <2> QED
    BY <2>3, SendsMore DEF ThreadTypes
<1>4. CASE DeclareVictory(s)
  <2> DEFINE mine == Append(Burst(WithState("VICTORY", s)), WithState("STATE_UPDATE", s))
             O == Own(s, ThreadTypes)
  <2>1. queue' = Deliver(queue, To(Told(s), mine)) /\ Told(s) \in SUBSET Server
    BY <1>4 DEF DeclareVictory, Told, Addressed
  <2>2. WithState("VICTORY", s) \in O /\ WithState("STATE_UPDATE", s) \in O
    BY OwnState DEF Own, ThreadTypes
  <2> HIDE DEF O
  <2>3. mine \in Seq(O)
    <3>1. Burst(WithState("VICTORY", s)) \in Seq(O)
      BY <2>2, BurstType
    <3> QED
      BY <3>1, <2>2, AppendProperties
  <2> HIDE DEF mine
  <2> QED
    BY <2>1, <2>3 DEF Sends, O
<1> QED
  BY <1>2, <1>3, <1>4 DEF ElectionStep

LEMMA UpdateSends ==
  ASSUME IInv, NEW s \in Server, CallUpdateState(s)
  PROVE  Sends(s, queue, ThreadTypes)
<1>1. queue \in [Server -> Seq(Message)]
  BY QueueType
<1>2. PICK new_sum \in Sums, seqn \in Seqns : CallWith(s, new_sum, seqn)
  BY DEF CallUpdateState
<1> DEFINE m == [Plain("STATE_UPDATE", s) EXCEPT !.current_sum = new_sum, !.last_seqn = seqn]
<1>3. queue' = queue \/ queue' = Deliver(queue, To(AliveReplicas(s), <<m>>))
  BY <1>2 DEF CallWith, UpdateState
<1>4. m \in Own(s, ThreadTypes)
  <2>1. new_sum \in Int /\ seqn \in Int
    BY CallAssumption
  <2> QED
    BY <2>1, EntryType DEF Plain, Own, ThreadTypes, Message, MessageType
<1> HIDE DEF m
<1>5. <<m>> \in Seq(Own(s, ThreadTypes)) /\ AliveReplicas(s) \in SUBSET Server
  BY <1>4 DEF AliveReplicas, Addressed
<1> QED
  BY <1>1, <1>3, <1>5, SendsNothing DEF Sends

\* The steps of the other threads.
LEMMA OtherSends ==
  ASSUME IInv, NEW s \in Server,
         \/ ReceiverElection(s) \/ ReceiverWakes(s) \/ BeginCheck(s) \/ CheckPrimary(s)
         \/ CheckerElection(s) \/ CheckerWakes(s) \/ SendHeartbeats(s) \/ CallUpdateState(s)
  PROVE  Sends(s, queue, ThreadTypes)
<1>1. queue \in [Server -> Seq(Message)]
  BY QueueType
<1>2. CASE ReceiverWakes(s) \/ BeginCheck(s) \/ CheckPrimary(s) \/ CheckerWakes(s)
  <2>1. queue' = queue
    BY <1>2 DEF ReceiverWakes, BeginCheck, CheckPrimary, CheckerWakes
  <2> QED
    BY <1>1, <2>1, SendsNothing
<1>3. CASE ReceiverElection(s) \/ CheckerElection(s)
  BY <1>3, ElectionSends DEF ReceiverElection, CheckerElection
<1>4. CASE SendHeartbeats(s)
  <2>1. PICK D : D \in SUBSET Server /\ queue' = Deliver(queue, To(D, <<Plain("HEARTBEAT", s)>>))
    <3>1. AliveReplicas(s) \in SUBSET Server
      BY DEF AliveReplicas, Addressed
    <3> QED
      BY <1>4, <3>1 DEF SendHeartbeats
  <2>2. "HEARTBEAT" \in MessageType
    BY DEF MessageType
  <2>3. Sends(s, queue, {"HEARTBEAT"})
    BY <2>1, <2>2, SendsPlain
  <2> QED
    BY <2>3, SendsMore DEF ThreadTypes
<1> QED
  BY <1>2, <1>3, <1>4, UpdateSends

LEMMA JoinerSends ==
  ASSUME NEW s \in Server, SendJoinRequest(s)
  PROVE  Sends(s, queue, {"JOIN_REQUEST"})
<1>1. "JOIN_REQUEST" \in MessageType /\ {PRIMARY_PORT} \in SUBSET Server
  BY ServerAssumption DEF MessageType
<1>2. queue' = Deliver(queue, To({PRIMARY_PORT}, <<Plain("JOIN_REQUEST", s)>>))
  BY DEF SendJoinRequest
<1> QED
  BY <1>1, <1>2, SendsPlain
-------------------------------------------------------------------------------
(* What each action does to the entries of a list.                          *)

\* The list R2 names the same replicas as R, and reaches no fewer.
NoneLost(R, R2) ==
  \A r \in Server : /\ R2[r].listed = R[r].listed
                    /\ R[r].repl_addr => R2[r].repl_addr

LEMMA MarkingKeeps ==
  ASSUME NEW R \in [Server -> Entry], NEW r \in Server
  PROVE  /\ NoneLost(R, R)
         /\ NoneLost(R, [R EXCEPT ![r] = [@ EXCEPT !.repl_addr = TRUE]])
         /\ NoneLost(R, SeenAlive(R, r))
         /\ NoneLost(R, Confirmed(R, r))
         /\ NoneLost(R, [R EXCEPT ![r] = [@ EXCEPT !.is_alive = FALSE]])
         /\ NoneLost(R, Rejoined(R, r))
         /\ NoneLost(R, Aged(R))
<1>1. \A t \in Server : R[t] \in Entry
  OBVIOUS
<1>2. NoneLost(R, R) /\ NoneLost(R, Aged(R))
  BY <1>1 DEF NoneLost, Aged, Entry
<1>3. /\ NoneLost(R, [R EXCEPT ![r] = [@ EXCEPT !.repl_addr = TRUE]])
      /\ NoneLost(R, [R EXCEPT ![r] = [@ EXCEPT !.is_alive = FALSE]])
  BY <1>1 DEF NoneLost, Entry
<1>4. NoneLost(R, SeenAlive(R, r)) /\ NoneLost(R, Confirmed(R, r))
  BY <1>1 DEF NoneLost, SeenAlive, Confirmed, Entry
<1>5. NoneLost(R, Rejoined(R, r))
  <2> DEFINE S == SeenAlive(R, r)
  <2>1. S \in [Server -> Entry] /\ NoneLost(R, S)
    BY <1>4, SeenAliveType
  <2> HIDE DEF S
  <2>2. NoneLost(S, [S EXCEPT ![r] = [@ EXCEPT !.state_confirmed = FALSE]])
    BY <2>1 DEF NoneLost, Entry
  <2>3. NoneLost(R, [S EXCEPT ![r] = [@ EXCEPT !.state_confirmed = FALSE]])
    BY <2>1, <2>2 DEF NoneLost
  <2> QED
    BY <2>3 DEF Rejoined, S
<1> QED
  BY <1>2, <1>3, <1>4, <1>5

LEMMA HeardKeeps ==
  ASSUME IInv, NEW s \in Server, queue[s] # <<>>
  PROVE  NoneLost(rm[s].replicas, Heard(s))
<1>1. rm[s].replicas \in [Server -> Entry] /\ Received(s).replica_id \in Server
  BY HeardType DEF IInv, Manager
<1> QED
  BY <1>1, MarkingKeeps DEF Heard

LEMMA NoneLostTrans ==
  ASSUME NEW R1, NEW R2, NEW R3, NoneLost(R1, R2), NoneLost(R2, R3)
  PROVE  NoneLost(R1, R3)
BY DEF NoneLost

\* The list of s after a datagram has been handled: heard, and possibly marked.
LEMMA ReceiveMarks ==
  ASSUME IInv, NEW s \in Server, Receive(s), ~HandleJoinRequest(s), ~HandleReplicaList(s)
  PROVE  \E R \in {Heard(s), SeenAlive(Heard(s), Received(s).replica_id),
                   Confirmed(Heard(s), Received(s).replica_id)} :
           \E M : rm' = [rm EXCEPT ![s] = M] /\ M.replicas = R
<1> DEFINE r == Received(s).replica_id
<1>1. rm[s] \in Manager
  BY DEF IInv
<1>2. CASE HandleHeartbeat(s) \/ HandleStateAck(s) \/ HandleStartElection(s) \/ HandleVictoryAck(s)
  <2>1. PICK R \in {Heard(s), SeenAlive(Heard(s), r), Confirmed(Heard(s), r)} :
          rm' = [rm EXCEPT ![s] = [rm[s] EXCEPT !.replicas = R]]
    BY <1>2 DEF HandleHeartbeat, HandleStateAck, HandleStartElection, HandleVictoryAck
  <2>2. [rm[s] EXCEPT !.replicas = R].replicas = R
    BY <1>1 DEF Manager
  <2> QED
    BY <2>1, <2>2
<1>3. CASE HandleStateUpdate(s)
  <2> DEFINE heard == [rm[s] EXCEPT !.replicas = Heard(s)]
             taken == [Adopts(Received(s), heard) EXCEPT !.election_in_progress = FALSE,
                                                         !.received_initial_state = TRUE]
  <2>1. rm' = [rm EXCEPT ![s] = heard] \/ rm' = [rm EXCEPT ![s] = taken]
    BY <1>3 DEF HandleStateUpdate
  <2>2. heard.replicas = Heard(s) /\ taken.replicas = Heard(s)
    BY <1>1 DEF Adopts, Manager
  <2> HIDE DEF heard, taken
  <2> QED
    BY <2>1, <2>2
<1>4. CASE HandleElectionResponse(s)
  <2> DEFINE heard == [rm[s] EXCEPT !.replicas = Heard(s)]
             stopped == [rm[s] EXCEPT !.election_in_progress = FALSE,
                                      !.replicas = SeenAlive(Heard(s), r)]
  <2>1. rm' = [rm EXCEPT ![s] = heard] \/ rm' = [rm EXCEPT ![s] = stopped]
    BY <1>4 DEF HandleElectionResponse
  <2>2. heard.replicas = Heard(s) /\ stopped.replicas = SeenAlive(Heard(s), r)
    BY <1>1 DEF Manager
  <2> HIDE DEF heard, stopped
  <2> QED
    BY <2>1, <2>2
<1>5. CASE HandleVictory(s)
  <2> DEFINE heard == [rm[s] EXCEPT !.replicas = Heard(s)]
             adopted == Adopts(Received(s), Follows(s, r))
  <2>1. \/ rm' = [rm EXCEPT ![s] = heard] \/ rm' = [rm EXCEPT ![s] = Follows(s, r)]
        \/ rm' = [rm EXCEPT ![s] = adopted]
    BY <1>5 DEF HandleVictory
  <2>2. /\ heard.replicas = Heard(s) /\ Follows(s, r).replicas = SeenAlive(Heard(s), r)
        /\ adopted.replicas = SeenAlive(Heard(s), r)
    BY <1>1 DEF Adopts, Follows, Manager
  <2> HIDE DEF heard, adopted
  <2> QED
    BY <2>1, <2>2
<1> QED
  BY <1>2, <1>3, <1>4, <1>5 DEF Receive

\* The list of s after any other step of its threads.
LEMMA ThreadMarks ==
  ASSUME IInv, NEW s \in Server,
         \/ ReceiverElection(s) \/ ReceiverWakes(s) \/ BeginCheck(s) \/ CheckPrimary(s)
         \/ CheckerElection(s) \/ CheckerWakes(s) \/ SendHeartbeats(s) \/ Lose(s)
         \/ CallUpdateState(s)
  PROVE  \E M : /\ rm' = [rm EXCEPT ![s] = M]
                /\ \/ M.replicas = rm[s].replicas
                   \/ /\ CheckPrimary(s)
                      /\ M.replicas = [rm[s].replicas EXCEPT ![rm[s].primary_id] =
                                         [@ EXCEPT !.is_alive = FALSE]]
<1>1. rm[s] \in Manager /\ rm = [rm EXCEPT ![s] = rm[s]]
  BY DEF IInv
<1>2. CASE CheckPrimary(s)
  <2> DEFINE R == [rm[s].replicas EXCEPT ![rm[s].primary_id] = [@ EXCEPT !.is_alive = FALSE]]
  <2>1. UNCHANGED rm \/ rm' = [rm EXCEPT ![s] = [rm[s] EXCEPT !.replicas = R]]
    BY <1>2 DEF CheckPrimary
  <2> HIDE DEF R
  <2>2. [rm[s] EXCEPT !.replicas = R].replicas = R
    BY <1>1 DEF Manager
  <2>3. CASE UNCHANGED rm
    BY <1>1, <2>3
  <2> QED
    BY <1>2, <2>1, <2>2, <2>3 DEF R
<1>3. CASE ReceiverWakes(s) \/ BeginCheck(s) \/ CheckerWakes(s) \/ SendHeartbeats(s) \/ Lose(s)
  <2>1. UNCHANGED rm
    BY <1>3 DEF ReceiverWakes, BeginCheck, CheckerWakes, SendHeartbeats, Lose
  <2> QED
    BY <1>1, <2>1
<1>4. CASE CallUpdateState(s)
  <2>1. PICK new_sum \in Sums, seqn \in Seqns : CallWith(s, new_sum, seqn)
    BY <1>4 DEF CallUpdateState
  <2>2. rm' = [rm EXCEPT ![s] = [rm[s] EXCEPT !.current_sum = new_sum, !.last_seqn = seqn]]
    BY <2>1 DEF CallWith, UpdateState
  <2>3. [rm[s] EXCEPT !.current_sum = new_sum, !.last_seqn = seqn].replicas = rm[s].replicas
    BY <1>1 DEF Manager
  <2> QED
    BY <2>2, <2>3
<1>5. CASE ReceiverElection(s) \/ CheckerElection(s)
  <2> DEFINE electing == [rm[s] EXCEPT !.election_in_progress = TRUE]
             leading == [rm[s] EXCEPT !.is_primary = TRUE, !.primary_id = s,
                                      !.election_in_progress = FALSE]
  <2>1. SkipElection(s) \/ CallElection(s) \/ DeclareVictory(s)
    BY <1>5 DEF ReceiverElection, CheckerElection, ElectionStep
  <2>2. electing.replicas = rm[s].replicas /\ leading.replicas = rm[s].replicas
    BY <1>1 DEF Manager
  <2>3. SkipElection(s) => UNCHANGED rm
    BY DEF SkipElection
  <2>4. CallElection(s) => rm' = [rm EXCEPT ![s] = electing]
    BY DEF CallElection
  <2>5. DeclareVictory(s) => rm' = [rm EXCEPT ![s] = leading]
    BY DEF DeclareVictory
  <2> HIDE DEF electing, leading
  <2> QED
    BY <1>1, <2>1, <2>2, <2>3, <2>4, <2>5
<1> QED
  BY <1>2, <1>3, <1>4, <1>5

\* Only Start counts up; a claim is made by a running server.
LEMMA Claiming ==
  ASSUME IInv, [Next]_vars
  PROVE  \/ \E s \in Server : Start(s)
         \/ starts' = starts /\ up' \subseteq up /\ claimed \subseteq claimed'
            /\ claimed' \subseteq claimed \cup up
<1>1. ASSUME NEW s \in Server, Crash(s) PROVE starts' = starts /\ up' \subseteq up /\ claimed' = claimed
  BY <1>1 DEF Crash
<1>2. ASSUME NEW s \in Server,
             \/ Receive(s) \/ BeginCheck(s) \/ CheckPrimary(s) \/ ReceiverWakes(s)
             \/ CheckerWakes(s) \/ SendHeartbeats(s) \/ Lose(s) \/ Tick
      PROVE  UNCHANGED <<up, starts, claimed>>
  BY <1>2 DEF Receive, HandleHeartbeat, HandleJoinRequest, HandleReplicaList,
              HandleStateUpdate, HandleStateAck, HandleStartElection, HandleElectionResponse,
              HandleVictory, HandleVictoryAck, BeginCheck, CheckPrimary, ReceiverWakes,
              CheckerWakes, SendHeartbeats, Lose, Tick, Unbounded
<1>3. ASSUME NEW s \in Server, ReceiverElection(s) \/ CheckerElection(s)
      PROVE  UNCHANGED <<up, starts>> /\ (claimed' = claimed \/ claimed' = claimed \cup {s})
             /\ s \in up
  BY <1>3 DEF ReceiverElection, CheckerElection, ElectionStep, SkipElection, CallElection,
              DeclareVictory, Unbounded
<1>4. ASSUME NEW s \in Server, CallUpdateState(s) PROVE UNCHANGED <<up, starts, claimed>>
  BY <1>4 DEF CallUpdateState, CallWith, UpdateState
<1>5. UNCHANGED vars => UNCHANGED <<up, starts, claimed>>
  BY DEF vars
<1>6. CASE Tick
  <2>1. PRIMARY_PORT \in Server
    BY ServerAssumption
  <2> QED
    BY <1>2, <1>6, <2>1
<1>7. ASSUME NEW s \in Server, SendJoinRequest(s) \/ CreateThreads(s)
      PROVE  UNCHANGED <<up, starts, claimed>>
  BY <1>7 DEF SendJoinRequest, CreateThreads
<1> QED
  BY <1>1, <1>2, <1>3, <1>4, <1>5, <1>6, <1>7 DEF Next, StartStep, ThreadStep

\* A server owes copies of its JOIN_REQUEST from its start until it has sent
\* them or dies.
LEMMA JoinsKept ==
  ASSUME [Next]_vars
  PROVE  \/ UNCHANGED joins
         \/ \E s \in Server : \/ Start(s) \/ SendJoinRequest(s)
                              \/ Crash(s) /\ joins' = [joins EXCEPT ![s] = 0]
<1>1. ASSUME NEW s \in Server,
             \/ Receive(s) \/ BeginCheck(s) \/ CheckPrimary(s) \/ ReceiverWakes(s)
             \/ CheckerWakes(s) \/ SendHeartbeats(s) \/ Lose(s) \/ CreateThreads(s)
      PROVE  UNCHANGED joins
  BY <1>1 DEF Receive, HandleHeartbeat, HandleJoinRequest, HandleReplicaList,
              HandleStateUpdate, HandleStateAck, HandleStartElection, HandleElectionResponse,
              HandleVictory, HandleVictoryAck, BeginCheck, CheckPrimary, ReceiverWakes,
              CheckerWakes, SendHeartbeats, Lose, CreateThreads, Unbounded
<1>2. ASSUME NEW s \in Server, ReceiverElection(s) \/ CheckerElection(s) PROVE UNCHANGED joins
  BY <1>2 DEF ReceiverElection, CheckerElection, Unbounded
<1>3. ASSUME NEW s \in Server, CallUpdateState(s) PROVE UNCHANGED joins
  BY <1>3 DEF CallUpdateState, CallWith
<1>4. (Tick \/ UNCHANGED vars) => UNCHANGED joins
  BY DEF Tick, Unbounded, vars
<1>5. ASSUME NEW s \in Server, Crash(s) PROVE joins' = [joins EXCEPT ![s] = 0]
  BY <1>5 DEF Crash
<1> QED
  BY <1>1, <1>2, <1>3, <1>4, <1>5 DEF Next, StartStep, ThreadStep

\* What the handlers of another server leave alone.
LEMMA OthersKeep ==
  ASSUME IInv, NEW s \in Server, NEW p \in Server, p # s,
         StartStep(s) \/ Crash(s) \/ ThreadStep(s) \/ Lose(s) \/ CallUpdateState(s)
  PROVE  rm'[p] = rm[p]
<1>1. rm \in [Server -> Manager]
  BY DEF IInv
<1>2. CASE Receive(s)
  BY <1>1, <1>2 DEF Receive, HandleHeartbeat, HandleJoinRequest, HandleReplicaList,
       HandleStateUpdate, HandleStateAck, HandleStartElection, HandleElectionResponse,
       HandleVictory, HandleVictoryAck
<1>3. CASE ReceiverElection(s) \/ CheckerElection(s)
  BY <1>1, <1>3 DEF ReceiverElection, CheckerElection, ElectionStep, SkipElection,
       CallElection, DeclareVictory
<1>4. CASE \/ BeginCheck(s) \/ CheckPrimary(s) \/ ReceiverWakes(s) \/ CheckerWakes(s)
           \/ SendHeartbeats(s) \/ Lose(s)
  BY <1>1, <1>4 DEF BeginCheck, CheckPrimary, ReceiverWakes, CheckerWakes, SendHeartbeats,
       Lose
<1>5. CASE StartStep(s) \/ Crash(s)
  BY <1>1, <1>5 DEF StartStep, Start, SendJoinRequest, CreateThreads, Crash
<1>6. CASE CallUpdateState(s)
  <2>1. PICK new_sum \in Sums, seqn \in Seqns : CallWith(s, new_sum, seqn)
    BY <1>6 DEF CallUpdateState
  <2>2. rm' = [rm EXCEPT ![s].current_sum = new_sum, ![s].last_seqn = seqn]
    BY <2>1 DEF CallWith, UpdateState
  <2> QED
    BY <1>1, <2>2
<1> QED
  BY <1>2, <1>3, <1>4, <1>5, <1>6 DEF ThreadStep

\* No entry is dropped and no address forgotten, except by a list that arrives,
\* a request of one not listed, or the end of the process.
LEMMA EntriesKept ==
  ASSUME IInv, [Next]_vars, NEW s \in Server,
         ~Start(s), ~Crash(s), ~HandleJoinRequest(s), ~HandleReplicaList(s)
  PROVE  NoneLost(rm[s].replicas, rm'[s].replicas)
<1>1. rm \in [Server -> Manager] /\ rm[s].replicas \in [Server -> Entry] /\ rm[s].primary_id \in Server
  BY DEF IInv, Manager
<1>2. CASE rm'[s] = rm[s]
  BY <1>1, <1>2, MarkingKeeps
<1>3. CASE Receive(s)
  <2>1. queue[s] # <<>>
    BY <1>3, ReceivesSome
  <2>2. Heard(s) \in [Server -> Entry] /\ Received(s).replica_id \in Server
    BY <2>1, HeardType
  <2>3. PICK R \in {Heard(s), SeenAlive(Heard(s), Received(s).replica_id),
                    Confirmed(Heard(s), Received(s).replica_id)} :
          \E M : rm' = [rm EXCEPT ![s] = M] /\ M.replicas = R
    BY <1>3, ReceiveMarks
  <2>4. NoneLost(Heard(s), R) /\ NoneLost(rm[s].replicas, Heard(s))
    BY <2>1, <2>2, MarkingKeeps, HeardKeeps
  <2>5. rm'[s].replicas = R
    BY <1>1, <2>3
  <2> QED
    BY <2>4, <2>5, NoneLostTrans
<1>4. CASE \/ ReceiverElection(s) \/ ReceiverWakes(s) \/ BeginCheck(s) \/ CheckPrimary(s)
           \/ CheckerElection(s) \/ CheckerWakes(s) \/ SendHeartbeats(s) \/ Lose(s)
           \/ CallUpdateState(s)
  <2> DEFINE R == [rm[s].replicas EXCEPT ![rm[s].primary_id] = [@ EXCEPT !.is_alive = FALSE]]
  <2>1. PICK M : rm' = [rm EXCEPT ![s] = M] /\ (M.replicas = rm[s].replicas \/ M.replicas = R)
    BY <1>4, ThreadMarks
  <2>2. rm'[s] = M
    BY <1>1, <2>1
  <2>3. NoneLost(rm[s].replicas, rm[s].replicas) /\ NoneLost(rm[s].replicas, R)
    BY <1>1, MarkingKeeps
  <2> HIDE DEF R
  <2> QED
    BY <2>1, <2>2, <2>3
<1>5. CASE Tick
  <2>1. rm'[s] = rm[s] \/ rm'[s].replicas = Aged(rm[s].replicas)
    BY <1>1, <1>5 DEF Tick, Manager
  <2> QED
    BY <1>1, <1>2, <2>1, MarkingKeeps
<1>6. CASE SendJoinRequest(s) \/ CreateThreads(s)
  BY <1>2, <1>6 DEF SendJoinRequest, CreateThreads
<1> QED
  BY <1>2, <1>3, <1>4, <1>5, <1>6, OthersKeep DEF Next, StartStep, ThreadStep, vars
-------------------------------------------------------------------------------
(* What a step does to one socket where nothing is lost.                    *)

\* Datagrams of one sender, of the types T, arrive behind those of x.
Arrive(d, x, T) == \E s \in Server : \E y \in Seq(Own(s, T)) : queue'[d] = x \o y

LEMMA SendsArrive ==
  ASSUME IInv, NEW s \in Server, NEW T, NEW q \in [Server -> Seq(Message)], Sends(s, q, T),
         NeverFull', NEW d \in Server
  PROVE  \E y \in Seq(Own(s, T)) : queue'[d] = q[d] \o y
<1>1. PICK D \in SUBSET Server, ms \in Seq(Own(s, T)) : queue' = Deliver(q, To(D, ms))
  BY DEF Sends
<1>2. ms \in Seq(Message)
  <2>1. Own(s, T) \subseteq Message
    BY DEF Own
  <2> QED
    BY <2>1
<1>3. Len(queue'[d]) < RCVBUF
  BY DEF NeverFull
<1>4. queue'[d] = IF d \in up /\ d \in D THEN q[d] \o ms ELSE q[d]
  BY <1>1, <1>2, <1>3, DeliverAll
<1>5. <<>> \in Seq(Own(s, T)) /\ q[d] \o <<>> = q[d]
  BY ConcatProperties
<1> QED
  BY <1>4, <1>5

LEMMA SocketStep ==
  ASSUME IInv, Lossy = FALSE, NeverFull', Next, NEW d \in Server
  PROVE  \/ \E s \in Server : /\ SendJoinRequest(s)
                              /\ \E y \in Seq(Own(s, {"JOIN_REQUEST"})) :
                                   queue'[d] = queue[d] \o y
         \/ Crash(d) /\ queue'[d] = <<>>
         \/ Arrive(d, queue[d], AnswerTypes \cup ThreadTypes)
         \/ /\ Receive(d) /\ queue[d] # <<>>
            /\ \E y \in Seq(Own(d, AnswerTypes \cup {"REPLICA_LIST_UPDATE"})) :
                 queue'[d] = Tail(queue[d]) \o y
         \/ \E s \in Server : /\ HandleJoinRequest(s) /\ rm[s].is_primary
                              /\ \E y \in Seq(Own(s, {"REPLICA_LIST_UPDATE"})) :
                                   queue'[d] = queue[d] \o y
         \/ Tick
<1>1. queue \in [Server -> Seq(Message)]
  BY QueueType
<1>2. ASSUME NEW s \in Server, SendJoinRequest(s)
      PROVE  \E y \in Seq(Own(s, {"JOIN_REQUEST"})) : queue'[d] = queue[d] \o y
  BY <1>1, <1>2, JoinerSends, SendsArrive
<1>3. ASSUME NEW s \in Server, Crash(s)
      PROVE  (Crash(d) /\ queue'[d] = <<>>) \/ queue'[d] = queue[d]
  BY <1>1, <1>3 DEF Crash
<1>4. \A s \in Server : ~Lose(s)
  BY DEF Lose
<1>5. ASSUME NEW s \in Server,
             \/ ReceiverElection(s) \/ ReceiverWakes(s) \/ BeginCheck(s) \/ CheckPrimary(s)
             \/ CheckerElection(s) \/ CheckerWakes(s) \/ SendHeartbeats(s) \/ CallUpdateState(s)
      PROVE  Arrive(d, queue[d], AnswerTypes \cup ThreadTypes)
  <2>1. Sends(s, queue, AnswerTypes \cup ThreadTypes)
    BY <1>5, OtherSends, SendsMore
  <2>2. \E y \in Seq(Own(s, AnswerTypes \cup ThreadTypes)) : queue'[d] = queue[d] \o y
    <3> DEFINE T == AnswerTypes \cup ThreadTypes
    <3>1. Sends(s, queue, T)
      BY <2>1
    <3> HIDE DEF T
    <3>2. \E y \in Seq(Own(s, T)) : queue'[d] = queue[d] \o y
      BY <1>1, <3>1, SendsArrive
    <3> QED
      BY <3>2 DEF T
  <2> QED
    BY <2>2 DEF Arrive
<1>6. ASSUME NEW s \in Server, Receive(s)
      PROVE  /\ queue[s] # <<>> /\ Rest(s) \in [Server -> Seq(Message)]
             /\ Rest(s)[d] = IF s = d THEN Tail(queue[d]) ELSE queue[d]
  BY <1>1, <1>6, ReceivesSome, QueueType DEF Rest
<1>7. ASSUME NEW s \in Server, HandleJoinRequest(s)
      PROVE  /\ Receive(s)
             /\ \E y \in Seq(Own(s, {"REPLICA_LIST_UPDATE"})) : queue'[d] = Rest(s)[d] \o y
  BY <1>6, <1>7, JoinSends, SendsArrive DEF Receive
<1>8. ASSUME NEW s \in Server, Receive(s), ~HandleJoinRequest(s)
      PROVE  \E y \in Seq(Own(s, AnswerTypes)) : queue'[d] = Rest(s)[d] \o y
  BY <1>6, <1>8, AnswerSends, SendsArrive
<1>9. ASSUME NEW s, NEW T, NEW U, T \subseteq U, NEW y \in Seq(Own(s, T))
      PROVE  y \in Seq(Own(s, U))
  <2>1. Own(s, T) \subseteq Own(s, U)
    BY <1>9 DEF Own
  <2> QED
    BY <2>1
<1>10. CASE queue'[d] = queue[d]
  <2>1. <<>> \in Seq(Own(d, AnswerTypes \cup ThreadTypes)) /\ queue[d] \o <<>> = queue[d]
    BY <1>1, ConcatProperties
  <2> QED
    BY <1>10, <2>1 DEF Arrive
<1>11. CASE Receive(d)
  <2>1. \E y \in Seq(Own(d, AnswerTypes \cup {"REPLICA_LIST_UPDATE"})) :
          queue'[d] = Tail(queue[d]) \o y
    BY <1>6, <1>7, <1>8, <1>9, <1>11
  <2> QED
    BY <1>6, <1>11, <2>1
<1>12. ASSUME NEW s \in Server, s # d, Receive(s), ~HandleJoinRequest(s)
       PROVE  Arrive(d, queue[d], AnswerTypes \cup ThreadTypes)
  BY <1>6, <1>8, <1>9, <1>12 DEF Arrive
<1>13. ASSUME NEW s \in Server, s # d, HandleJoinRequest(s)
       PROVE  \/ queue'[d] = queue[d]
              \/ /\ rm[s].is_primary
                 /\ \E y \in Seq(Own(s, {"REPLICA_LIST_UPDATE"})) : queue'[d] = queue[d] \o y
  <2>1. Rest(s)[d] = queue[d]
    BY <1>6, <1>7, <1>13
  <2>2. ~rm[s].is_primary => queue' = Rest(s)
    BY <1>13, JoinCases
  <2> QED
    BY <1>7, <1>13, <2>1, <2>2
<1>14. ASSUME NEW s \in Server, Start(s) \/ CreateThreads(s) PROVE queue'[d] = queue[d]
  BY <1>14 DEF Start, CreateThreads
<1> QED
  BY <1>2, <1>3, <1>4, <1>5, <1>10, <1>11, <1>12, <1>13, <1>14 DEF Next, StartStep, ThreadStep

\* Time passing leaves the datagrams where and what they are, but for the ages
\* in a list that is under way.
LEMMA TickSocket ==
  ASSUME IInv, Tick, NEW d \in Server
  PROVE  /\ DOMAIN queue'[d] = DOMAIN queue[d]
         /\ \A i \in DOMAIN queue[d] :
              /\ queue'[d][i] \in Message
              /\ queue'[d][i].type = queue[d][i].type
              /\ queue'[d][i].replica_id = queue[d][i].replica_id
              /\ queue'[d][i].current_sum = queue[d][i].current_sum
              /\ queue'[d][i].last_seqn = queue[d][i].last_seqn
<1>1. queue[d] \in Seq(Message)
  BY QueueType
<1>2. queue'[d] = [i \in DOMAIN queue[d] |->
                     [queue[d][i] EXCEPT !.replicas = Aged(queue[d][i].replicas)]]
  BY DEF Tick
<1>3. ASSUME NEW i \in DOMAIN queue[d]
      PROVE  /\ queue'[d][i] \in Message
             /\ queue'[d][i].type = queue[d][i].type
             /\ queue'[d][i].replica_id = queue[d][i].replica_id
             /\ queue'[d][i].current_sum = queue[d][i].current_sum
             /\ queue'[d][i].last_seqn = queue[d][i].last_seqn
  <2> DEFINE m == queue[d][i]
  <2>0. m \in Message
    BY <1>1
  <2>1. m \in Message /\ m.replicas \in [Server -> Entry]
    BY <2>0 DEF Message
  <2>2. Aged(m.replicas) \in [Server -> Entry]
    BY <2>1, AgedType
  <2>3. queue'[d][i] = [m EXCEPT !.replicas = Aged(m.replicas)]
    BY <1>2
  <2> HIDE DEF m
  <2>4. /\ queue'[d][i] \in Message
        /\ queue'[d][i].type = m.type /\ queue'[d][i].replica_id = m.replica_id
        /\ queue'[d][i].current_sum = m.current_sum /\ queue'[d][i].last_seqn = m.last_seqn
    BY <2>1, <2>2, <2>3 DEF Message
  <2> QED
    BY <2>4 DEF m
<1> QED
  BY <1>2, <1>3
===============================================================================
