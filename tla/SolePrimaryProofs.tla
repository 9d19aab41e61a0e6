--------------------------- MODULE SolePrimaryProofs ---------------------------
(***************************************************************************)
(* What TLAPS proves of RequestService while the first primary is the only *)
(* server that ever was one: no addition is lost, and answers tell totals, *)
(* in order.                                                               *)
(***************************************************************************)
EXTENDS RequestServiceProofs, SocketProofs

\* Nobody but the first primary has claimed its role, and that at most once.
Sole == claimed \subseteq {PRIMARY_PORT} /\ starts[PRIMARY_PORT] <= 1
-------------------------------------------------------------------------------
(* Roles: who leads has claimed it, who claimed it was started, and a sole  *)
(* primary keeps its role.                                                  *)

RoleInv ==
  /\ \A s \in Server : leader[s] = s => s \in claimed
  /\ \A s \in Server : s \in up \/ s \in claimed => starts[s] >= 1
  /\ Sole /\ PRIMARY_PORT \in up => leader[PRIMARY_PORT] = PRIMARY_PORT

LEMMA LeaderIsPrimary ==
  ASSUME IInv, NEW s \in Server, s \in up
  PROVE  leader[s] = s <=> rm[s].is_primary
BY DEF IInv, Sound, leader

LEMMA SoleBefore ==
  ASSUME IInv, [Next]_vars, Sole' PROVE Sole
<1>1. starts[PRIMARY_PORT] \in Nat /\ PRIMARY_PORT \in Server
  BY ServerAssumption DEF IInv
<1>2. ASSUME NEW s \in Server, Start(s)
      PROVE  claimed \subseteq claimed' /\ starts[PRIMARY_PORT] <= starts'[PRIMARY_PORT]
  BY <1>1, <1>2 DEF Start, IInv
<1>3. claimed \subseteq claimed' /\ starts[PRIMARY_PORT] <= starts'[PRIMARY_PORT]
  BY <1>1, <1>2, Claiming
<1>4. starts'[PRIMARY_PORT] \in Nat
  BY <1>1, Claiming DEF Start, IInv
<1> QED
  BY <1>1, <1>3, <1>4 DEF Sole

LEMMA RoleNext ==
  ASSUME IInv, RoleInv, [Next]_vars PROVE RoleInv'
<1>1. [Abstract!Next]_<<leader, claimed>>
  BY StepMeans
<1>2. /\ starts \in [Server -> Nat] /\ PRIMARY_PORT \in Server
      /\ leader \in [Server -> Server \cup {NoLeader}] /\ NoLeader \notin Server
  BY ServerAssumption DEF IInv, Manager, leader, NoLeader
<1>3. ASSUME NEW s \in Server, leader'[s] = s PROVE s \in claimed'
  <2>1. ASSUME NEW t \in Server,
               Abstract!Boot(t) \/ Abstract!Claim(t) \/ Abstract!Stop(t)
        PROVE  s \in claimed'
    BY <1>2, <1>3, <2>1 DEF RoleInv, Abstract!Boot, Abstract!Claim, Abstract!Stop
  <2>2. ASSUME NEW t \in Server, NEW u \in Server, Abstract!Follow(t, u)
        PROVE  s \in claimed'
    BY <1>2, <1>3, <2>2 DEF RoleInv, Abstract!Follow
  <2> QED
    BY <1>1, <1>3, <2>1, <2>2 DEF RoleInv, Abstract!Next
<1>4. ASSUME NEW s \in Server, s \in up' \/ s \in claimed' PROVE starts'[s] >= 1
  <2>1. ASSUME NEW t \in Server, Start(t) PROVE starts'[s] >= 1
    <3>1. s \in up \/ s \in claimed \/ s = t
      BY <1>4, <2>1 DEF Start
    <3>2. starts' = [starts EXCEPT ![t] = @ + 1]
      BY <2>1 DEF Start
    <3> QED
      BY <1>2, <3>1, <3>2 DEF RoleInv
  <2> QED
    BY <1>4, <2>1, Claiming DEF RoleInv
<1>5. ASSUME Sole', PRIMARY_PORT \in up' PROVE leader'[PRIMARY_PORT] = PRIMARY_PORT
  <2> DEFINE P == PRIMARY_PORT
  <2>1. Sole /\ claimed' \subseteq {P}
    BY <1>5, SoleBefore DEF Sole
  <2>2. leader'[P] # NoLeader
    <3>1. leader'[P] = rm'[P].primary_id
      BY <1>2, <1>5 DEF leader
    <3>2. IInv'
      BY NextIInv
    <3> QED
      BY <1>2, <3>1, <3>2 DEF IInv, Manager
  <2>3. P \in up => leader[P] = P
    BY <2>1 DEF RoleInv
  <2>4. P \notin up => leader[P] = NoLeader
    BY <1>2 DEF leader
  <2>5. ASSUME NEW t \in Server,
               Abstract!Boot(t) \/ Abstract!Claim(t) \/ Abstract!Stop(t)
        PROVE  leader'[P] = P
    BY <1>2, <2>2, <2>3, <2>4, <2>5
       DEF Abstract!Boot, Abstract!Claim, Abstract!Stop, Abstract!Running
  <2>6. ASSUME NEW t \in Server, NEW u \in Server, Abstract!Follow(t, u)
        PROVE  leader'[P] = P
    <3>1. u = P /\ u > t /\ t \in Nat /\ leader' = [leader EXCEPT ![t] = u]
      BY <2>1, <2>6, ServerAssumption DEF Abstract!Follow
    <3> QED
      BY <1>2, <2>2, <2>3, <2>4, <3>1
  <2> QED
    BY <1>1, <2>2, <2>3, <2>4, <2>5, <2>6 DEF Abstract!Next
<1> QED
  BY <1>3, <1>4, <1>5 DEF RoleInv
-------------------------------------------------------------------------------
(* No server is sent a STATE_UPDATE of its own.                             *)

Foreign(d) == {m \in Message : m.type = "STATE_UPDATE" => m.replica_id # d}

ForeignInv == \A d \in Server : queue[d] \in Seq(Foreign(d))

LEMMA DeliverForeign ==
  ASSUME NEW q, \A d \in Server : q[d] \in Seq(Foreign(d)),
         NEW D, NEW ms, \A d \in D \cap Server : ms \in Seq(Foreign(d))
  PROVE  \A d \in Server : Deliver(q, To(D, ms))[d] \in Seq(Foreign(d))
<1> SUFFICES ASSUME NEW d \in Server
             PROVE  Deliver(q, To(D, ms))[d] \in Seq(Foreign(d))
  OBVIOUS
<1> DEFINE S == Foreign(d)
           x == To(D, ms)[d]
<1>1. q[d] \in Seq(S) /\ x \in Seq(S)
  BY DEF To
<1>2. Deliver(q, To(D, ms))[d] =
        IF d \notin up \/ x = <<>> THEN q[d]
        ELSE IF Len(q[d]) + Len(x) <= RCVBUF THEN q[d] \o x
        ELSE SubSeq(q[d] \o x, 1, RCVBUF)
  BY DEF Deliver
<1> HIDE DEF S, x
<1>3. q[d] \o x \in Seq(S) /\ Len(q[d] \o x) = Len(q[d]) + Len(x)
  BY <1>1, ConcatProperties
<1>4. Len(q[d]) + Len(x) > RCVBUF => SubSeq(q[d] \o x, 1, RCVBUF) \in Seq(S)
  BY <1>1, <1>3, BoundAssumption, SubSeqProperties
<1>5. Len(q[d]) \in Nat /\ Len(x) \in Nat
  BY <1>1
<1> QED
  BY <1>1, <1>2, <1>3, <1>4, <1>5, BoundAssumption DEF S

\* What a step may do to the sockets.
LEMMA RestForeign ==
  ASSUME IInv, ForeignInv, NEW s \in Server, queue[s] # <<>>
  PROVE  \A d \in Server : Rest(s)[d] \in Seq(Foreign(d))
<1>1. queue[s] \in Seq(Foreign(s))
  BY DEF ForeignInv
<1>2. Tail(queue[s]) \in Seq(Foreign(s))
  BY <1>1, HeadTailProperties
<1>3. \A d \in Server : Rest(s)[d] = IF d = s THEN Tail(queue[s]) ELSE queue[d]
  BY DEF Rest, IInv, Sockets
<1> QED
  BY <1>2, <1>3 DEF ForeignInv

LEMMA SendForeign ==
  ASSUME ForeignInv, NEW q, \A d \in Server : q[d] \in Seq(Foreign(d)),
         NEW D, NEW ms, \A d \in D \cap Server : ms \in Seq(Foreign(d)),
         queue' = Deliver(q, To(D, ms))
  PROVE  ForeignInv'
<1>1. \A d \in Server : queue'[d] \in Seq(Foreign(d))
  BY DeliverForeign
<1> QED
  BY <1>1 DEF ForeignInv, Foreign, Message, MessageType, Entry, EXPIRED

LEMMA KeptForeign ==
  ASSUME \A d \in Server : queue'[d] \in Seq(Foreign(d))
  PROVE  ForeignInv'
BY DEF ForeignInv, Foreign, Message, MessageType, Entry, EXPIRED

\* Datagrams of any other type may go anywhere.
LEMMA OtherForeign ==
  ASSUME NEW s \in Server, NEW type \in MessageType \ {"STATE_UPDATE"},
         NEW R \in [Server -> Entry], NEW d
  PROVE  /\ Plain(type, s) \in Foreign(d)
         /\ WithList(s, R) \in Foreign(d)
BY EntryType DEF Plain, WithList, Foreign, Message, MessageType

LEMMA OwnForeign ==
  ASSUME IInv, NEW s \in Server, NEW d, d # s
  PROVE  WithState("STATE_UPDATE", s) \in Foreign(d) /\ WithState("VICTORY", s) \in Foreign(d)
<1>1. rm[s].current_sum \in Int /\ rm[s].last_seqn \in Int
  BY DEF IInv, Manager
<1> QED
  BY <1>1, EntryType DEF WithState, Plain, Foreign, Message, MessageType

\* The handlers of the receiver thread.
LEMMA ReceiveForeign ==
  ASSUME IInv, ForeignInv, NEW s \in Server, Receive(s) PROVE ForeignInv'
<1>1. queue[s] # <<>>
  BY DEF Receive, HandleHeartbeat, HandleJoinRequest, HandleReplicaList, HandleStateUpdate,
         HandleStateAck, HandleStartElection, HandleElectionResponse, HandleVictory,
         HandleVictoryAck, Receives
<1>2. /\ \A d \in Server : Rest(s)[d] \in Seq(Foreign(d))
      /\ Heard(s) \in [Server -> Entry] /\ Received(s).replica_id \in Server
  BY <1>1, RestForeign, HeardType
<1>3. ASSUME queue' = Rest(s) PROVE ForeignInv'
  BY <1>2, <1>3, KeptForeign
<1>4. ASSUME NEW D, NEW m, \A d \in Server : m \in Foreign(d),
             queue' = Deliver(Rest(s), To(D, Burst(m)))
      PROVE  ForeignInv'
  BY <1>2, <1>4, BurstType, SendForeign
<1>5. ASSUME NEW type \in MessageType \ {"STATE_UPDATE"}, NEW d
      PROVE  Plain(type, s) \in Foreign(d)
  BY EntryType, OtherForeign
<1>6. CASE HandleJoinRequest(s)
  <2> DEFINE from == Received(s).replica_id
             R == Heard(s)
             again == [SeenAlive(R, from) EXCEPT ![from] = [@ EXCEPT !.state_confirmed = FALSE]]
             new == [R EXCEPT ![from] = FreshEntry(FALSE, FALSE)]
  <2> HIDE DEF from, R
  <2>1. \/ queue' = Rest(s)
        \/ queue' = Deliver(Rest(s), To({from}, Burst(WithList(s, again))))
        \/ queue' = Deliver(Rest(s), To(Addressed(new, Server \ {s}),
                                        Burst(WithList(s, new))))
    BY <1>6 DEF HandleJoinRequest, from, R
  <2>2. R \in [Server -> Entry] /\ from \in Server
    BY <1>2 DEF from, R
  <2>3. again \in [Server -> Entry]
    <3>1. SeenAlive(R, from) \in [Server -> Entry]
      BY <2>2, SeenAliveType
    <3>2. [SeenAlive(R, from)[from] EXCEPT !.state_confirmed = FALSE] \in Entry
      BY <2>2, <3>1 DEF Entry
    <3> QED
      BY <2>2, <3>1, <3>2
  <2>4. new \in [Server -> Entry]
    BY <2>2, FreshEntryType
  <2>5. ASSUME NEW L \in [Server -> Entry], NEW d PROVE WithList(s, L) \in Foreign(d)
    <3>1. "HEARTBEAT" \in MessageType \ {"STATE_UPDATE"}
      BY DEF MessageType
    <3> QED
      BY <3>1, OtherForeign
  <2> HIDE DEF again, new
  <2> QED
    BY <1>3, <1>4, <2>1, <2>3, <2>4, <2>5
<1>7. CASE HandleStartElection(s)
  <2>1. "ELECTION_RESPONSE" \in MessageType \ {"STATE_UPDATE"}
    BY DEF MessageType
  <2>2. \/ queue' = Rest(s)
        \/ queue' = Deliver(Rest(s), To({Received(s).replica_id},
                                        Burst(Plain("ELECTION_RESPONSE", s))))
    BY <1>7 DEF HandleStartElection
  <2> QED
    BY <1>3, <1>4, <1>5, <2>1, <2>2
<1>8. CASE HandleVictory(s)
  <2>1. "VICTORY_ACK" \in MessageType \ {"STATE_UPDATE"}
    BY DEF MessageType
  <2>2. \/ queue' = Rest(s)
        \/ queue' = Deliver(Rest(s), To({Received(s).replica_id}, Burst(Plain("VICTORY_ACK", s))))
    BY <1>8 DEF HandleVictory
  <2> QED
    BY <1>3, <1>4, <1>5, <2>1, <2>2
<1>9. CASE HandleStateUpdate(s)
  <2>1. "STATE_ACK" \in MessageType \ {"STATE_UPDATE"}
    BY DEF MessageType
  <2>2. \A d : <<Plain("STATE_ACK", s)>> \in Seq(Foreign(d))
    BY <1>5, <2>1
  <2>3. \/ queue' = Rest(s)
        \/ queue' = Deliver(Rest(s), To({Received(s).replica_id}, <<Plain("STATE_ACK", s)>>))
    BY <1>9 DEF HandleStateUpdate
  <2> QED
    BY <1>2, <1>3, <2>2, <2>3, SendForeign
<1>10. CASE \/ HandleHeartbeat(s) \/ HandleReplicaList(s) \/ HandleStateAck(s)
            \/ HandleElectionResponse(s) \/ HandleVictoryAck(s)
  BY <1>3, <1>10 DEF HandleHeartbeat, HandleReplicaList, HandleStateAck,
                     HandleElectionResponse, HandleVictoryAck
<1> QED
  BY <1>6, <1>7, <1>8, <1>9, <1>10 DEF Receive

LEMMA ElectionForeign ==
  ASSUME IInv, ForeignInv, NEW s \in Server, ElectionStep(s) PROVE ForeignInv'
<1>0. \A d \in Server : queue[d] \in Seq(Foreign(d))
  BY DEF ForeignInv
<1>1. CASE SkipElection(s)
  BY <1>0, <1>1, KeptForeign DEF SkipElection
<1>2. CASE CallElection(s)
  <2>1. "START_ELECTION" \in MessageType \ {"STATE_UPDATE"}
    BY DEF MessageType
  <2>2. \A d : Plain("START_ELECTION", s) \in Foreign(d)
    BY <2>1, EntryType, OtherForeign
  <2>3. \A d : Burst(Plain("START_ELECTION", s)) \in Seq(Foreign(d))
    BY <2>2, BurstType
  <2> QED
    BY <1>0, <1>2, <2>3, SendForeign DEF CallElection
<1>3. CASE DeclareVictory(s)
  <2> DEFINE mine == Append(Burst(WithState("VICTORY", s)), WithState("STATE_UPDATE", s))
  <2>1. queue' = Deliver(queue, To(Told(s), mine))
    BY <1>3 DEF DeclareVictory
  <2>2. \A d \in Told(s) : d # s
    BY DEF Told, Addressed
  <2>3. ASSUME NEW d \in Told(s) PROVE mine \in Seq(Foreign(d))
    <3>1. WithState("STATE_UPDATE", s) \in Foreign(d) /\ WithState("VICTORY", s) \in Foreign(d)
      BY <2>2, OwnForeign
    <3>2. Burst(WithState("VICTORY", s)) \in Seq(Foreign(d))
      BY <3>1, BurstType
    <3> QED
      BY <3>1, <3>2, AppendProperties
  <2> HIDE DEF mine
  <2> QED
    BY <1>0, <2>1, <2>3, SendForeign
<1> QED
  BY <1>1, <1>2, <1>3 DEF ElectionStep

LEMMA UpdateForeign ==
  ASSUME IInv, ForeignInv, NEW s \in Server, CallUpdateState(s) PROVE ForeignInv'
<1>0. \A d \in Server : queue[d] \in Seq(Foreign(d))
  BY DEF ForeignInv
<1>1. PICK new_sum \in Sums, seqn \in Seqns : CallWith(s, new_sum, seqn)
  BY DEF CallUpdateState
<1> DEFINE m == [Plain("STATE_UPDATE", s) EXCEPT !.current_sum = new_sum, !.last_seqn = seqn]
<1>2. queue' = queue \/ queue' = Deliver(queue, To(AliveReplicas(s), <<m>>))
  BY <1>1 DEF CallWith, UpdateState
<1>3. \A d \in AliveReplicas(s) : d # s
  BY DEF AliveReplicas, Addressed
<1>4. ASSUME NEW d \in AliveReplicas(s) PROVE m \in Foreign(d)
  <2>1. new_sum \in Int /\ seqn \in Int
    BY CallAssumption
  <2> QED
    BY <1>3, <2>1, EntryType DEF Plain, Foreign, Message, MessageType
<1> HIDE DEF m
<1>5. \A d \in AliveReplicas(s) : <<m>> \in Seq(Foreign(d))
  BY <1>4
<1> QED
  BY <1>0, <1>2, <1>5, KeptForeign, SendForeign

LEMMA TickForeign ==
  ASSUME IInv, ForeignInv, Tick PROVE ForeignInv'
<1> SUFFICES ASSUME NEW d \in Server PROVE queue'[d] \in Seq(Foreign(d))
  BY KeptForeign
<1>1. queue[d] \in Seq(Foreign(d))
  BY DEF ForeignInv
<1> DEFINE old(i) == [queue[d][i] EXCEPT !.replicas = Aged(queue[d][i].replicas)]
<1>2. ASSUME NEW i \in 1..Len(queue[d]) PROVE old(i) \in Foreign(d)
  <2> DEFINE m == queue[d][i]
  <2>1. m \in Foreign(d)
    BY <1>1
  <2>2. m \in Message /\ m.replicas \in [Server -> Entry]
    BY <2>1 DEF Foreign, Message
  <2>3. Aged(m.replicas) \in [Server -> Entry]
    BY <2>2, AgedType
  <2> HIDE DEF m
  <2> QED
    BY <2>1, <2>2, <2>3 DEF Foreign, Message, m
<1>3. queue'[d] = [i \in 1..Len(queue[d]) |-> old(i)]
  BY <1>1 DEF Tick
<1> HIDE DEF old
<1> QED
  BY <1>1, <1>2, <1>3

LEMMA ForeignNext ==
  ASSUME IInv, ForeignInv, [Next]_vars PROVE ForeignInv'
<1>0. /\ \A d \in Server : queue[d] \in Seq(Foreign(d))
      /\ queue \in [Server -> Seq(Credible)]
  BY DEF ForeignInv, IInv, Sockets
<1>1. CASE UNCHANGED queue
  BY <1>0, <1>1, KeptForeign
<1>2. ASSUME NEW s \in Server, SendJoinRequest(s) PROVE ForeignInv'
  <2>1. "JOIN_REQUEST" \in MessageType \ {"STATE_UPDATE"}
    BY DEF MessageType
  <2>2. \A d : Plain("JOIN_REQUEST", s) \in Foreign(d)
    BY <2>1, EntryType, OtherForeign
  <2>3. \A d : <<Plain("JOIN_REQUEST", s)>> \in Seq(Foreign(d))
    BY <2>2
  <2>4. queue' = Deliver(queue, To({PRIMARY_PORT}, <<Plain("JOIN_REQUEST", s)>>))
    BY <1>2 DEF SendJoinRequest
  <2> QED
    BY <1>0, <2>3, <2>4, SendForeign
<1>3. ASSUME NEW s \in Server, Crash(s) PROVE ForeignInv'
  <2>1. \A d \in Server : queue'[d] = queue[d] \/ queue'[d] = <<>>
    BY <1>0, <1>3 DEF Crash
  <2>2. \A d : <<>> \in Seq(Foreign(d))
    OBVIOUS
  <2> QED
    BY <1>0, <2>1, <2>2, KeptForeign
<1>4. ASSUME NEW s \in Server, SendHeartbeats(s) PROVE ForeignInv'
  <2>1. "HEARTBEAT" \in MessageType \ {"STATE_UPDATE"}
    BY DEF MessageType
  <2>2. \A d : Plain("HEARTBEAT", s) \in Foreign(d)
    BY <2>1, EntryType, OtherForeign
  <2>3. \A d : <<Plain("HEARTBEAT", s)>> \in Seq(Foreign(d))
    BY <2>2
  <2>4. PICK D : queue' = Deliver(queue, To(D, <<Plain("HEARTBEAT", s)>>))
    BY <1>4 DEF SendHeartbeats
  <2> QED
    BY <1>0, <2>3, <2>4, SendForeign
<1>5. ASSUME NEW s \in Server, Lose(s) PROVE ForeignInv'
  BY <1>5, RestForeign, KeptForeign DEF Lose
<1>6. ASSUME NEW s \in Server,
             \/ BeginCheck(s) \/ CheckPrimary(s) \/ ReceiverWakes(s) \/ CheckerWakes(s)
             \/ Start(s) \/ CreateThreads(s)
      PROVE  UNCHANGED queue
  BY <1>6 DEF BeginCheck, CheckPrimary, ReceiverWakes, CheckerWakes, Start, CreateThreads
<1>7. UNCHANGED vars => UNCHANGED queue
  BY DEF vars
<1>8. ASSUME NEW s \in Server, ReceiverElection(s) \/ CheckerElection(s) PROVE ForeignInv'
  BY <1>8, ElectionForeign DEF ReceiverElection, CheckerElection
<1> QED
  BY <1>1, <1>2, <1>3, <1>4, <1>5, <1>6, <1>7, <1>8, ReceiveForeign, UpdateForeign,
     TickForeign DEF Next, StartStep, ThreadStep
-------------------------------------------------------------------------------
(* A sole primary keeps its sum, whatever its manager does.                 *)

LEMMA RoleInit ==
  ASSUME Init PROVE RoleInv /\ ForeignInv
<1>1. leader = [s \in Server |-> NoLeader] /\ NoLeader \notin Server
  BY ServerAssumption DEF Init, Begin, leader, NoLeader
<1>2. \A d : <<>> \in Seq(Foreign(d))
  OBVIOUS
<1> QED
  BY <1>1, <1>2 DEF Init, Begin, RoleInv, ForeignInv

\* What its own handlers do: an update must come from the primary it follows,
\* which is itself, and a victory from a higher server, which never led.
LEMMA OwnReceiveKeeps ==
  ASSUME IInv, RoleInv, ForeignInv, Sole, PRIMARY_PORT \in up, Receive(PRIMARY_PORT)
  PROVE  rm'[PRIMARY_PORT].current_sum = rm[PRIMARY_PORT].current_sum
<1> DEFINE P == PRIMARY_PORT
<1>1. /\ P \in Server /\ rm \in [Server -> Manager] /\ rm[P].primary_id = P
      /\ claimed \subseteq {P} /\ P \in Nat
  BY ServerAssumption DEF IInv, RoleInv, Sole, leader
<1>2. queue[P] # <<>>
  BY DEF Receive, HandleHeartbeat, HandleJoinRequest, HandleReplicaList, HandleStateUpdate,
         HandleStateAck, HandleStartElection, HandleElectionResponse, HandleVictory,
         HandleVictoryAck, Receives
<1>3. Received(P) \in Credible /\ Received(P) \in Foreign(P)
  <2>1. queue[P] \in Seq(Foreign(P))
    BY <1>1 DEF ForeignInv
  <2>2. Head(queue[P]) \in Foreign(P)
    BY <1>2, <2>1, HeadTailProperties
  <2> QED
    BY <1>1, <1>2, <2>2, HeardType DEF Received
<1>4. rm[P] \in Manager
  BY <1>1
<1>5. CASE HandleStateUpdate(P)
  <2>1. Received(P).type = "STATE_UPDATE"
    BY <1>5 DEF HandleStateUpdate, Receives
  <2>2. Received(P).replica_id # rm[P].primary_id
    BY <1>1, <1>3, <2>1 DEF Foreign
  <2>3. rm' = [rm EXCEPT ![P] = [@ EXCEPT !.replicas = Heard(P)]]
    BY <1>5, <2>2 DEF HandleStateUpdate
  <2> QED
    BY <1>1, <1>4, <2>3 DEF Manager
<1>6. CASE HandleVictory(P)
  <2>1. Received(P).type = "VICTORY"
    BY <1>6 DEF HandleVictory, Receives
  <2>2. Received(P).replica_id = P
    BY <1>1, <1>3, <2>1 DEF Credible
  <2>3. ~GivesWay(P, Received(P).replica_id)
    BY <1>1, <2>2 DEF GivesWay
  <2>4. rm' = [rm EXCEPT ![P] = [@ EXCEPT !.replicas = Heard(P)]]
    BY <1>6, <2>3 DEF HandleVictory
  <2> QED
    BY <1>1, <1>4, <2>4 DEF Manager
<1>7. CASE HandleJoinRequest(P)
  <2>1. PICK R : rm' = [rm EXCEPT ![P] = [@ EXCEPT !.replicas = R]]
    BY <1>7 DEF HandleJoinRequest
  <2> QED
    BY <1>1, <1>4, <2>1 DEF Manager
<1>8. CASE HandleReplicaList(P)
  <2>1. PICK R : rm' = [rm EXCEPT ![P] = [@ EXCEPT !.replicas = R]]
    BY <1>8 DEF HandleReplicaList
  <2> QED
    BY <1>1, <1>4, <2>1 DEF Manager
<1>9. CASE HandleElectionResponse(P)
  <2> DEFINE H == Heard(P)
             S == SeenAlive(H, Received(P).replica_id)
  <2>1. \/ rm' = [rm EXCEPT ![P].replicas = H]
        \/ rm' = [rm EXCEPT ![P].election_in_progress = FALSE, ![P].replicas = S]
    BY <1>9 DEF HandleElectionResponse
  <2> HIDE DEF H, S
  <2> QED
    BY <1>1, <1>4, <2>1 DEF Manager
<1>10. CASE \/ HandleHeartbeat(P) \/ HandleStateAck(P) \/ HandleStartElection(P)
            \/ HandleVictoryAck(P)
  <2>1. PICK R : rm' = [rm EXCEPT ![P] = [@ EXCEPT !.replicas = R]]
    BY <1>10 DEF HandleHeartbeat, HandleStateAck, HandleStartElection, HandleVictoryAck
  <2> QED
    BY <1>1, <1>4, <2>1 DEF Manager
<1> QED
  BY <1>5, <1>6, <1>7, <1>8, <1>9, <1>10 DEF Receive

LEMMA SumKept ==
  ASSUME IInv, RoleInv, ForeignInv, Sole, PRIMARY_PORT \in up, ManagerStep
  PROVE  rm'[PRIMARY_PORT].current_sum = rm[PRIMARY_PORT].current_sum
<1> DEFINE P == PRIMARY_PORT
<1>1. P \in Server /\ rm \in [Server -> Manager] /\ rm[P] \in Manager
  BY ServerAssumption DEF IInv
<1>2. ASSUME NEW s \in Server, s # P, StartStep(s) \/ ThreadStep(s) \/ Lose(s)
      PROVE  rm'[P].current_sum = rm[P].current_sum
  BY <1>1, <1>2, OthersKeep
<1>3. CASE Tick
  <2> DEFINE old(s) == [rm[s] EXCEPT !.replicas = Aged(rm[s].replicas)]
  <2>1. rm' = [s \in Server |-> IF s \in up THEN old(s) ELSE rm[s]]
    BY <1>3 DEF Tick
  <2>2. rm'[P] = old(P)
    <3> HIDE DEF old
    <3> QED
      BY <1>1, <2>1
  <2> QED
    BY <1>1, <2>2 DEF Manager
<1>4. ~Start(P)
  BY DEF Start
<1>5. CASE \/ Lose(P) \/ SendHeartbeats(P) \/ BeginCheck(P) \/ ReceiverWakes(P)
           \/ CheckerWakes(P) \/ SendJoinRequest(P) \/ CreateThreads(P)
  BY <1>5 DEF Lose, SendHeartbeats, BeginCheck, ReceiverWakes, CheckerWakes, SendJoinRequest,
              CreateThreads
<1>6. CASE CheckPrimary(P)
  <2> DEFINE p == rm[P].primary_id
  <2>1. UNCHANGED rm \/ rm' = [rm EXCEPT ![P].replicas[p].is_alive = FALSE]
    BY <1>6 DEF CheckPrimary
  <2> HIDE DEF p
  <2> QED
    BY <1>1, <2>1 DEF Manager
<1>7. CASE ReceiverElection(P) \/ CheckerElection(P)
  <2>1. \/ UNCHANGED rm
        \/ rm' = [rm EXCEPT ![P] = [@ EXCEPT !.election_in_progress = TRUE]]
        \/ rm' = [rm EXCEPT ![P] = [@ EXCEPT !.is_primary = TRUE, !.primary_id = P,
                                             !.election_in_progress = FALSE]]
    BY <1>7 DEF ReceiverElection, CheckerElection, ElectionStep, SkipElection, CallElection,
                DeclareVictory
  <2>2. /\ [rm[P] EXCEPT !.election_in_progress = TRUE].current_sum = rm[P].current_sum
        /\ [rm[P] EXCEPT !.is_primary = TRUE, !.primary_id = P,
                         !.election_in_progress = FALSE].current_sum = rm[P].current_sum
    BY <1>1 DEF Manager
  <2>3. ASSUME NEW M, rm' = [rm EXCEPT ![P] = M] PROVE rm'[P] = M
    BY <1>1, <2>3
  <2> QED
    BY <2>1, <2>2, <2>3, Zenon
<1>8. CASE Receive(P)
  BY <1>8, OwnReceiveKeeps
<1> QED
  BY <1>2, <1>3, <1>4, <1>5, <1>6, <1>7, <1>8
     DEF ManagerStep, StartStep, ThreadStep
-------------------------------------------------------------------------------
(* The sum of a sole primary is the total of the log, at every step of its  *)
(* request thread.                                                          *)

Busy(s) == service[s].at \in {"read", "update", "answer"}

Counted(c, r) ==
  \E k \in DOMAIN log : log[k].from = c /\ log[k].seqn = r.seqn /\ log[k].total = r.value

BusyHasClaimed == \A s \in Server : Busy(s) => s \in claimed

LogHasClaimed == log # <<>> => claimed # {}

AnswersCounted ==
  \A c \in Client : \A i \in DOMAIN replies[c] :
    replies[c][i].status = 0 => Counted(c, replies[c][i])

\* What the request thread has read is still what the manager holds, and what
\* it is about to answer is the last addition.
SumCurrent ==
  /\ rm[PRIMARY_PORT].current_sum = Total
  /\ service[PRIMARY_PORT].at = "update" => service[PRIMARY_PORT].sum = Total
  /\ service[PRIMARY_PORT].at = "answer" =>
       /\ log # <<>>
       /\ log[Len(log)].from = service[PRIMARY_PORT].request.from
       /\ log[Len(log)].seqn = service[PRIMARY_PORT].request.seqn

SumInv ==
  /\ BusyHasClaimed /\ LogHasClaimed
  /\ Sole => AnswersCounted
  /\ Sole /\ PRIMARY_PORT \in up => SumCurrent

SoleInv == ServiceInv /\ RoleInv /\ ForeignInv /\ SumInv

LEMMA SumInit == ASSUME ServiceInit PROVE SumInv
BY DEF ServiceInit, Init, Begin, NoRequests, SumInv, BusyHasClaimed, LogHasClaimed,
       AnswersCounted, Busy, Idle

\* The steps that leave the request threads and their history alone.
LEMMA SumAtManager ==
  ASSUME AnyCall, SoleInv, ManagerStep PROVE SumInv'
<1> DEFINE P == PRIMARY_PORT
<1>1. /\ IInv /\ [Next]_vars /\ P \in Server /\ claimed \in SUBSET Server
      /\ starts \in [Server -> Nat] /\ rm \in [Server -> Manager]
  BY ServerAssumption DEF ManagerStep, Next, SoleInv, ServiceInv, IInv
<1>2. UNCHANGED <<requests, service, client, replies, log>>
  BY DEF ManagerStep, svars
<1>3. claimed \subseteq claimed'
  <2>1. ASSUME NEW s \in Server, Start(s) PROVE claimed \subseteq claimed'
    BY <2>1 DEF Start
  <2> QED
    BY <1>1, <2>1, Claiming
<1>4. BusyHasClaimed' /\ LogHasClaimed'
  BY <1>2, <1>3 DEF SoleInv, SumInv, BusyHasClaimed, LogHasClaimed, Busy
<1>5. Sole' => Sole /\ AnswersCounted'
  BY <1>1, <1>2, SoleBefore DEF SoleInv, SumInv, AnswersCounted, Counted
<1>6. ASSUME Sole', P \in up' PROVE SumCurrent'
  <2>1. CASE P \in up
    <3>1. SumCurrent /\ rm'[P].current_sum = rm[P].current_sum
      BY <1>1, <1>5, <1>6, <2>1, SumKept DEF SoleInv, SumInv
    <3> QED
      BY <1>2, <3>1 DEF SumCurrent, Total
  <2>2. CASE P \notin up
    <3>1. Start(P)
      <4>1. PICK s \in Server : Start(s)
        BY <1>1, <1>6, <2>2, Claiming
      <4>2. s = P
        BY <1>6, <2>2, <4>1 DEF Start
      <4> QED
        BY <4>1, <4>2
    <3>2. starts'[P] = starts[P] + 1 /\ rm' = [rm EXCEPT ![P] = Boot(P)]
      BY <1>1, <3>1 DEF Start
    <3>3. P \notin claimed
      BY <1>1, <1>6, <3>2 DEF SoleInv, RoleInv, Sole
    <3>4. claimed = {} /\ log = <<>> /\ ~Busy(P)
      BY <1>1, <1>5, <1>6, <3>3 DEF Sole, SoleInv, SumInv, LogHasClaimed, BusyHasClaimed
    <3>5. rm'[P].current_sum = 0
      BY <1>1, <3>2 DEF Boot
    <3> QED
      BY <1>2, <3>4, <3>5 DEF SumCurrent, Total, Busy
  <2> QED
    BY <2>1, <2>2
<1> QED
  BY <1>4, <1>5, <1>6 DEF SumInv

LEMMA SumAtCrash ==
  ASSUME AnyCall, SoleInv, NEW s \in Server, CrashServer(s) PROVE SumInv'
<1> DEFINE P == PRIMARY_PORT
<1>1. /\ IInv /\ P \in Server /\ service \in [Server -> {Idle} \cup Working]
      /\ UNCHANGED <<claimed, starts, replies, log>> /\ up' = up \ {s}
      /\ service' = [service EXCEPT ![s] = Idle]
  BY ServerAssumption DEF CrashServer, Crash, SoleInv, ServiceInv, ServiceTypeOK
<1>2. \A t \in Server : service'[t] = IF t = s THEN Idle ELSE service[t]
  BY <1>1
<1>3. BusyHasClaimed' /\ LogHasClaimed' /\ (Sole' => Sole /\ AnswersCounted')
  BY <1>1, <1>2 DEF SoleInv, SumInv, BusyHasClaimed, LogHasClaimed, Busy, Idle, Sole,
                    AnswersCounted, Counted
<1>4. ASSUME Sole', P \in up' PROVE SumCurrent'
  <2>1. s # P /\ SumCurrent
    BY <1>1, <1>3, <1>4 DEF SoleInv, SumInv
  <2>2. rm'[P] = rm[P] /\ service'[P] = service[P]
    BY <1>1, <1>2, <2>1, OthersKeep DEF CrashServer
  <2> QED
    BY <1>1, <2>1, <2>2 DEF SumCurrent, Total
<1> QED
  BY <1>3, <1>4 DEF SumInv

\* Answers are only taken or lost, from the head.
LEMMA SumAtClient ==
  ASSUME AnyCall, SoleInv, (\E c \in Client : ClientStep(c)) \/ LosePacket PROVE SumInv'
<1>1. UNCHANGED <<rm, up, claimed, starts, service, log>>
  BY DEF ClientStep, Connect, Add, TakeReply, TimeOut, Search, LosePacket, vars
<1>2. replies \in [Client -> Seq(Reply)]
  BY DEF SoleInv, ServiceInv, ServiceTypeOK
<1>3. replies' = replies
      \/ \E c \in Client : replies[c] # <<>> /\ replies' = [replies EXCEPT ![c] = Tail(@)]
  BY DEF ClientStep, Connect, Add, TakeReply, TimeOut, Search, LosePacket
<1>4. ASSUME NEW c \in Client, NEW i \in DOMAIN replies'[c]
      PROVE  \E j \in DOMAIN replies[c] : replies'[c][i] = replies[c][j]
  <2>1. CASE replies'[c] = replies[c]
    BY <2>1
  <2>2. CASE replies[c] # <<>> /\ replies'[c] = Tail(replies[c])
    <3>1. i + 1 \in DOMAIN replies[c] /\ replies'[c][i] = replies[c][i + 1]
      BY <1>2, <2>2
    <3> QED
      BY <3>1
  <2> QED
    BY <1>2, <1>3, <2>1, <2>2
<1>5. Sole' => Sole /\ AnswersCounted'
  BY <1>1, <1>4 DEF SoleInv, SumInv, Sole, AnswersCounted, Counted
<1> QED
  BY <1>1, <1>5 DEF SoleInv, SumInv, BusyHasClaimed, LogHasClaimed, Busy, SumCurrent, Total

\* The steps of a request thread but Update leave the manager and log alone.
LEMMA SumAtService ==
  ASSUME AnyCall, SoleInv, NEW s \in Server, RequestStep(s), ~Update(s) PROVE SumInv'
<1> DEFINE P == PRIMARY_PORT
<1>1. /\ UNCHANGED <<vars, client, log>> /\ s \in up /\ P \in Server /\ IInv
      /\ service \in [Server -> {Idle} \cup Working] /\ replies \in [Client -> Seq(Reply)]
      /\ UNCHANGED <<rm, up, claimed, starts>>
  BY ServerAssumption DEF RequestStep, ReceiveRequest, Refuse, ReadSum, AnswerRequest,
     SoleInv, ServiceInv, ServiceTypeOK, vars
<1>2. ASSUME replies' = replies,
             Busy(s)' => s \in claimed,
             service'[s].at # "answer",
             service'[s].at = "update" => service'[s].sum = rm[s].current_sum,
             \A t \in Server : t # s => service'[t] = service[t]
      PROVE  SumInv'
  <2>1. BusyHasClaimed' /\ LogHasClaimed'
    BY <1>1, <1>2 DEF SoleInv, SumInv, BusyHasClaimed, LogHasClaimed, Busy
  <2>2. Sole' => Sole /\ AnswersCounted'
    BY <1>1, <1>2 DEF SoleInv, SumInv, Sole, AnswersCounted, Counted
  <2>3. ASSUME Sole', P \in up' PROVE SumCurrent'
    BY <1>1, <1>2, <2>2, <2>3 DEF SoleInv, SumInv, SumCurrent, Total
  <2> QED
    BY <2>1, <2>2, <2>3 DEF SumInv
<1>3. CASE ReceiveRequest(s)
  <2>1. /\ replies' = replies
        /\ service' = [service EXCEPT ![s] =
             [at |-> IF rm[s].is_primary THEN "read" ELSE "refuse",
              request |-> Head(requests[s]), sum |-> 0]]
    BY <1>3 DEF ReceiveRequest
  <2>2. rm[s].is_primary => s \in claimed
    BY <1>1, LeaderIsPrimary DEF SoleInv, RoleInv
  <2> QED
    BY <1>1, <1>2, <2>1, <2>2 DEF Busy
<1>4. CASE ReadSum(s)
  <2>1. /\ replies' = replies /\ service[s].at = "read"
        /\ service' = [service EXCEPT ![s] = [@ EXCEPT !.at = "update",
                                                       !.sum = rm[s].current_sum]]
    BY <1>4 DEF ReadSum
  <2>2. service[s] \in Working /\ s \in claimed
    BY <1>1, <2>1 DEF Idle, SoleInv, SumInv, BusyHasClaimed, Busy
  <2>3. /\ service'[s].at = "update" /\ service'[s].sum = rm[s].current_sum
        /\ \A t \in Server : t # s => service'[t] = service[t]
    BY <1>1, <2>1, <2>2 DEF Working
  <2> QED
    BY <1>2, <2>1, <2>2, <2>3
<1>5. ASSUME NEW status \in {0, 1}, Answer(s, status), service[s].at # "receive",
             status = 0 => service[s].at = "answer"
      PROVE  SumInv'
  <2> DEFINE q == service[s].request
             r == [server |-> s, seqn |-> q.seqn, value |-> rm[s].current_sum, status |-> status]
  <2>1. /\ service' = [service EXCEPT ![s] = Idle]
        /\ replies' = [replies EXCEPT ![q.from] = Append(@, r)]
    BY <1>5 DEF Answer
  <2>2. q \in Request /\ q.from \in Client
    BY <1>1, <1>5 DEF Working, Idle, Request
  <2>3. \A t \in Server : service'[t] = IF t = s THEN Idle ELSE service[t]
    BY <1>1, <2>1
  <2>4. BusyHasClaimed' /\ LogHasClaimed'
    BY <1>1, <2>3 DEF SoleInv, SumInv, BusyHasClaimed, LogHasClaimed, Busy, Idle
  <2>5. ASSUME Sole' PROVE Sole /\ AnswersCounted'
    <3>1. Sole /\ AnswersCounted
      BY <1>1, <2>5 DEF SoleInv, SumInv, Sole
    <3>2. status = 0 => Counted(q.from, r)
      <4> SUFFICES ASSUME status = 0 PROVE Counted(q.from, r)
        OBVIOUS
      <4>1. s = P /\ SumCurrent
        BY <1>1, <1>5, <3>1 DEF SoleInv, SumInv, BusyHasClaimed, Busy, Sole
      <4>2. /\ log # <<>> /\ log[Len(log)].from = q.from /\ log[Len(log)].seqn = q.seqn
            /\ log[Len(log)].total = rm[P].current_sum
        BY <1>5, <4>1 DEF SumCurrent, Total
      <4>3. log \in Seq([from: Client, seqn: Nat, total: Int])
        BY DEF SoleInv, ServiceInv, ServiceTypeOK
      <4>4. Len(log) \in DOMAIN log
        BY <4>2, <4>3
      <4> QED
        BY <4>1, <4>2, <4>4 DEF Counted
    <3>3. ASSUME NEW c \in Client, NEW i \in DOMAIN replies'[c], replies'[c][i].status = 0
          PROVE  Counted(c, replies'[c][i])
      <4> HIDE DEF r
      <4>1. \/ i \in DOMAIN replies[c] /\ replies'[c][i] = replies[c][i]
            \/ c = q.from /\ replies'[c][i] = r
        BY <1>1, <2>1, <2>2, <3>3
      <4>2. r.status = status
        BY DEF r
      <4> QED
        BY <3>1, <3>2, <3>3, <4>1, <4>2 DEF AnswersCounted
    <3> QED
      BY <1>1, <3>1, <3>3 DEF AnswersCounted, Counted
  <2>6. ASSUME Sole', P \in up' PROVE SumCurrent'
    <3>1. SumCurrent
      BY <1>1, <2>5, <2>6 DEF SoleInv, SumInv
    <3> QED
      BY <1>1, <2>3, <3>1 DEF SumCurrent, Total, Idle
  <2> QED
    BY <2>4, <2>5, <2>6 DEF SumInv
<1>6. CASE Refuse(s)
  BY <1>5, <1>6 DEF Refuse
<1>7. CASE AnswerRequest(s)
  BY <1>5, <1>7 DEF AnswerRequest
<1> QED
  BY <1>3, <1>4, <1>6, <1>7 DEF RequestStep

\* The addition: it writes the sum it read plus the number, and nothing has
\* changed the sum since.
LEMMA SumAtUpdate ==
  ASSUME AnyCall, SoleInv, NEW s \in Server, Update(s) PROVE SumInv'
<1> DEFINE P == PRIMARY_PORT
           q == service[s].request
           done == [from |-> q.from, seqn |-> q.seqn, total |-> Total + q.value]
           new_sum == service[s].sum + q.value
<1>1. /\ P \in Server /\ IInv /\ service[s].at = "update" /\ CallWith(s, new_sum, q.seqn)
      /\ log' = Append(log, done) /\ UNCHANGED replies
      /\ service' = [service EXCEPT ![s] = [@ EXCEPT !.at = "answer"]]
  BY ServerAssumption DEF Update, SoleInv, ServiceInv
<1>2. /\ UNCHANGED <<up, starts, claimed>> /\ rm \in [Server -> Manager]
      /\ rm' = [rm EXCEPT ![s].current_sum = new_sum, ![s].last_seqn = q.seqn]
  BY <1>1 DEF CallWith, UpdateState, IInv
<1>3. /\ service[s] \in Working /\ service \in [Server -> {Idle} \cup Working]
      /\ log \in Seq([from: Client, seqn: Nat, total: Int])
  BY <1>1 DEF SoleInv, ServiceInv, ServiceTypeOK, Idle
<1>4. /\ \A t \in Server : t # s => service'[t] = service[t]
      /\ service'[s].at = "answer" /\ service'[s].request = q
  BY <1>1, <1>3 DEF Working
<1>5. s \in claimed
  BY <1>1 DEF SoleInv, SumInv, BusyHasClaimed, Busy
<1>6. BusyHasClaimed' /\ LogHasClaimed'
  BY <1>2, <1>4, <1>5 DEF SoleInv, SumInv, BusyHasClaimed, LogHasClaimed, Busy
<1>7. /\ log' # <<>> /\ log'[Len(log')] = done /\ DOMAIN log \subseteq DOMAIN log'
      /\ \A k \in DOMAIN log : log'[k] = log[k]
  <2> DEFINE T == [from: Client, seqn: Nat, total: Int]
  <2> HIDE DEF T, done
  <2>1. log \in Seq(T)
    BY <1>3 DEF T
  <2> QED
    BY <1>1, <2>1
<1>8. ASSUME Sole' PROVE Sole /\ AnswersCounted'
  BY <1>1, <1>2, <1>7, <1>8 DEF SoleInv, SumInv, Sole, AnswersCounted, Counted
<1>9. ASSUME Sole', P \in up' PROVE SumCurrent'
  <2>1. s = P /\ SumCurrent
    BY <1>2, <1>5, <1>8, <1>9 DEF Sole, SoleInv, SumInv
  <2>2. rm'[P].current_sum = new_sum
    BY <1>1, <1>2, <2>1 DEF Manager
  <2>3. new_sum = done.total /\ done.from = q.from /\ done.seqn = q.seqn
    BY <1>1, <2>1 DEF SumCurrent
  <2>4. Total' = done.total
    BY <1>7 DEF Total
  <2> HIDE DEF done, new_sum
  <2> QED
    BY <1>4, <1>7, <2>1, <2>2, <2>3, <2>4 DEF SumCurrent
<1> QED
  BY <1>6, <1>8, <1>9 DEF SumInv

LEMMA SoleInit == ASSUME ServiceInit PROVE SoleInv
BY ServiceInvInit, RoleInit, SumInit DEF SoleInv, ServiceInit

LEMMA SoleNext ==
  ASSUME AnyCall PROVE SoleInv /\ [ServiceNext]_allvars => SoleInv'
<1> SUFFICES ASSUME SoleInv, [ServiceNext]_allvars PROVE SoleInv'
  OBVIOUS
<1>1. ServiceInv' /\ [Next]_vars /\ IInv
  BY ServiceInvNext DEF SoleInv, ServiceInv
<1>2. RoleInv' /\ ForeignInv'
  BY <1>1, RoleNext, ForeignNext DEF SoleInv
<1>3. ASSUME UNCHANGED allvars PROVE SumInv'
  <2>1. UNCHANGED <<up, rm, starts, claimed, service, replies, log>> /\ SumInv
    BY <1>3 DEF allvars, vars, svars, SoleInv
  <2> QED
    BY <2>1 DEF SumInv, BusyHasClaimed, LogHasClaimed, Busy, AnswersCounted, Counted,
                SumCurrent, Total, Sole
<1>4. ASSUME ServiceNext PROVE SumInv'
  <2>1. ASSUME NEW s \in Server, CrashServer(s) PROVE SumInv'
    BY <2>1, SumAtCrash
  <2>2. ASSUME NEW s \in Server, RequestStep(s) PROVE SumInv'
    BY <2>2, SumAtService, SumAtUpdate
  <2>3. ASSUME (\E c \in Client : ClientStep(c)) \/ LosePacket PROVE SumInv'
    BY <2>3, SumAtClient
  <2>4. ASSUME ManagerStep PROVE SumInv'
    BY <2>4, SumAtManager
  <2> QED
    BY <1>4, <2>1, <2>2, <2>3, <2>4 DEF ServiceNext
<1> QED
  BY <1>1, <1>2, <1>3, <1>4 DEF SoleInv

LEMMA SoleHolds == ASSUME AnyCall PROVE ServiceSpec => []SoleInv
<1>1. ServiceInit => SoleInv
  BY SoleInit
<1> QED
  BY <1>1, SoleNext, PTL DEF ServiceSpec

\* While the first primary is the only one, no addition is lost although its
\* sum is read and written in two critical sections: for any servers, clients
\* and numbers, and whatever its replicas do meanwhile.
THEOREM NoAdditionLost == ASSUME AnyCall PROVE ServiceSpec => []SumIsTotal
<1>1. SoleInv => SumIsTotal
  BY ServerAssumption DEF SoleInv, SumInv, SumIsTotal, OnePrimary, Sole, SumCurrent
<1> QED
  BY <1>1, SoleHolds, PTL

\* While the first primary is the only one, a successful answer tells the
\* total of the very request it names, although the sum is read once more
\* after the update.
THEOREM AnswersTellTotals == ASSUME AnyCall PROVE ServiceSpec => []ReplyCounts
<1>1. SoleInv => ReplyCounts
  BY ServerAssumption DEF SoleInv, SumInv, ReplyCounts, OnePrimary, Sole, AnswersCounted, Counted
<1> QED
  BY <1>1, SoleHolds, PTL
-------------------------------------------------------------------------------
(* The numbers of a client's requests to a sole primary stand in a line:    *)
(* the one it has shown, those in answers, the one being worked on, those   *)
(* waiting, and the next one.  The line only moves forward.                 *)

Item(c, p, i, n) ==
  \/ p = 0 /\ i = 0 /\ n = client[c].shown
  \/ /\ p = 1 /\ i \in DOMAIN replies[c]
     /\ replies[c][i].status = 0 /\ n = replies[c][i].seqn
  \/ /\ p = 2 /\ i = 0 /\ Busy(PRIMARY_PORT)
     /\ service[PRIMARY_PORT].request.from = c /\ n = service[PRIMARY_PORT].request.seqn
  \/ /\ p = 3 /\ i \in DOMAIN requests[PRIMARY_PORT]
     /\ requests[PRIMARY_PORT][i].from = c /\ n = requests[PRIMARY_PORT][i].seqn
  \/ p = 4 /\ i = 0 /\ n = client[c].seqn

Ahead(p, i, q, j) == p < q \/ (p = q /\ i < j)

InOrder ==
  \A c \in Client : \A p, q \in 0..4 : \A i, j, m, n \in Nat :
    Item(c, p, i, m) /\ Item(c, q, j, n) /\ Ahead(p, i, q, j) => m < n

LEMMA OrderInit == ASSUME ServiceInit PROVE InOrder
<1>1. ASSUME NEW c \in Client, NEW p, NEW i, NEW n, Item(c, p, i, n)
      PROVE  (p = 0 /\ i = 0 /\ n = 0) \/ (p = 4 /\ i = 0 /\ n = 1)
  <2>1. /\ client[c].shown = 0 /\ client[c].seqn = 1
        /\ replies[c] = <<>> /\ requests[PRIMARY_PORT] = <<>> /\ ~Busy(PRIMARY_PORT)
    BY <1>1, ServerAssumption DEF ServiceInit, NoRequests, NewClient, Busy, Idle
  <2> QED
    BY <1>1, <2>1 DEF Item
<1> QED
  BY <1>1 DEF InOrder, Ahead

LEMMA OrderSame ==
  ASSUME InOrder,
         \A c \in Client : \A p \in 0..4 : \A i, n \in Nat :
           Item(c, p, i, n)' => Item(c, p, i, n)
  PROVE  InOrder'
<1> SUFFICES ASSUME NEW c \in Client, NEW p \in 0..4, NEW q \in 0..4,
                    NEW i \in Nat, NEW j \in Nat, NEW m \in Nat, NEW n \in Nat,
                    Item(c, p, i, m)', Item(c, q, j, n)', Ahead(p, i, q, j)
             PROVE  m < n
  BY DEF InOrder, Ahead
<1>1. Item(c, p, i, m) /\ Item(c, q, j, n)
  OBVIOUS
<1> QED
  BY <1>1 DEF InOrder

LEMMA OrderAtCrash ==
  ASSUME AnyCall, SoleInv, InOrder, NEW s \in Server, CrashServer(s) PROVE InOrder'
<1> DEFINE P == PRIMARY_PORT
<1>1. /\ service \in [Server -> {Idle} \cup Working] /\ requests \in [Server -> Seq(Request)]
      /\ P \in Server /\ UNCHANGED <<client, replies>>
      /\ requests' = [requests EXCEPT ![s] = <<>>] /\ service' = [service EXCEPT ![s] = Idle]
  BY ServerAssumption DEF CrashServer, SoleInv, ServiceInv, ServiceTypeOK
<1>2. /\ requests'[P] = requests[P] \/ requests'[P] = <<>>
      /\ service'[P] = service[P] \/ service'[P] = Idle
  BY <1>1
<1>3. DOMAIN <<>> = {}
  OBVIOUS
<1>4. ASSUME NEW c \in Client, NEW p \in 0..4, NEW i \in Nat, NEW n \in Nat,
             Item(c, p, i, n)'
      PROVE  Item(c, p, i, n)
  BY <1>1, <1>2, <1>3, <1>4 DEF Item, Busy, Idle
<1> QED
  BY <1>4, OrderSame

\* The primary takes a packet: each waiting one moves up by one.
LEMMA OrderAtReceive ==
  ASSUME AnyCall, SoleInv, InOrder, NEW s \in Server, ReceiveRequest(s) PROVE InOrder'
<1> DEFINE P == PRIMARY_PORT
<1>1. /\ service \in [Server -> {Idle} \cup Working] /\ requests \in [Server -> Seq(Request)]
      /\ P \in Server /\ UNCHANGED <<client, replies>>
      /\ requests' = [requests EXCEPT ![s] = Tail(@)] /\ requests[s] # <<>>
      /\ service' = [service EXCEPT ![s] =
           [at |-> IF rm[s].is_primary THEN "read" ELSE "refuse",
            request |-> Head(requests[s]), sum |-> 0]]
  BY ServerAssumption DEF ReceiveRequest, SoleInv, ServiceInv, ServiceTypeOK
<1>2. CASE s # P
  <2>1. requests'[P] = requests[P] /\ service'[P] = service[P]
    BY <1>1, <1>2
  <2>2. ASSUME NEW c \in Client, NEW p \in 0..4, NEW i \in Nat, NEW n \in Nat,
               Item(c, p, i, n)'
        PROVE  Item(c, p, i, n)
    BY <1>1, <2>1, <2>2 DEF Item, Busy
  <2> QED
    BY <2>2, OrderSame
<1>3. CASE s = P
  <2> DEFINE x == requests[P]
  <2>1. /\ x \in Seq(Request) /\ x # <<>> /\ requests'[P] = Tail(x)
        /\ service'[P].request = Head(x)
    BY <1>1, <1>3
  <2>2. /\ 1 \in DOMAIN x /\ Head(x) = x[1]
        /\ \A i \in DOMAIN Tail(x) : i + 1 \in DOMAIN x /\ Tail(x)[i] = x[i + 1] /\ i >= 1
    BY <2>1
  <2> HIDE DEF x
  <2>3. ASSUME NEW c \in Client, NEW p \in 0..4, NEW i \in Nat, NEW n \in Nat,
               Item(c, p, i, n)'
        PROVE  \/ p \in {0, 1, 4} /\ Item(c, p, i, n)
               \/ p = 2 /\ i = 0 /\ Item(c, 3, 1, n)
               \/ p = 3 /\ i >= 1 /\ Item(c, 3, i + 1, n)
    BY <1>1, <2>1, <2>2, <2>3 DEF Item, Busy, x
  <2> SUFFICES ASSUME NEW c \in Client, NEW p \in 0..4, NEW q \in 0..4,
                      NEW i \in Nat, NEW j \in Nat, NEW m \in Nat, NEW n \in Nat,
                      Item(c, p, i, m)', Item(c, q, j, n)', Ahead(p, i, q, j)
               PROVE  m < n
    BY DEF InOrder, Ahead
  <2>4. PICK a \in 0..4, k \in Nat :
          /\ Item(c, a, k, m)
          /\ \/ p \in {0, 1, 4} /\ a = p /\ k = i
             \/ p = 2 /\ i = 0 /\ a = 3 /\ k = 1
             \/ p = 3 /\ i >= 1 /\ a = 3 /\ k = i + 1
    BY <2>3
  <2>5. PICK b \in 0..4, l \in Nat :
          /\ Item(c, b, l, n)
          /\ \/ q \in {0, 1, 4} /\ b = q /\ l = j
             \/ q = 2 /\ j = 0 /\ b = 3 /\ l = 1
             \/ q = 3 /\ j >= 1 /\ b = 3 /\ l = j + 1
    BY <2>3
  <2>6. Ahead(a, k, b, l)
    BY <2>4, <2>5 DEF Ahead
  <2> QED
    BY <2>4, <2>5, <2>6 DEF InOrder
<1> QED
  BY <1>2, <1>3

\* An answer joins the line behind the earlier ones if it reports success, and
\* a refusal does not count.
LEMMA OrderAtAnswer ==
  ASSUME AnyCall, SoleInv, Sole, InOrder, NEW s \in Server,
         Refuse(s) \/ AnswerRequest(s)
  PROVE  InOrder'
<1> DEFINE P == PRIMARY_PORT
           q0 == service[s].request
<1>1. PICK status \in {0, 1} : /\ Answer(s, status)
                               /\ status = 0 => service[s].at = "answer"
                               /\ service[s].at # "receive"
  BY DEF Refuse, AnswerRequest
<1> DEFINE r == [server |-> s, seqn |-> q0.seqn, value |-> rm[s].current_sum, status |-> status]
<1>2. /\ service \in [Server -> {Idle} \cup Working] /\ replies \in [Client -> Seq(Reply)]
      /\ P \in Server /\ UNCHANGED <<client, requests>>
      /\ service' = [service EXCEPT ![s] = Idle]
      /\ replies' = [replies EXCEPT ![q0.from] = Append(@, r)]
  BY <1>1, ServerAssumption DEF Refuse, AnswerRequest, Answer, SoleInv, ServiceInv, ServiceTypeOK
<1>3. q0.from \in Client
  BY <1>1, <1>2 DEF Working, Idle, Request
<1>4. status = 0 => s = P /\ Busy(P)
  BY <1>1 DEF SoleInv, SumInv, BusyHasClaimed, Busy, Sole
<1>5. service'[P] = service[P] \/ service'[P] = Idle
  BY <1>2
<1>6. status = 0 => service'[P] = Idle
  BY <1>2, <1>4
<1>7. r.status = status /\ r.seqn = q0.seqn
  OBVIOUS
<1> HIDE DEF r
<1>8. ASSUME NEW c \in Client, NEW i \in DOMAIN replies'[c]
      PROVE  \/ i \in DOMAIN replies[c] /\ replies'[c][i] = replies[c][i] /\ i <= Len(replies[c])
             \/ c = q0.from /\ i = Len(replies[c]) + 1 /\ replies'[c][i] = r
  BY <1>2, <1>3, <1>8
<1>9. ASSUME NEW c \in Client, NEW p \in 0..4, NEW i \in Nat, NEW n \in Nat,
             Item(c, p, i, n)'
      PROVE  \/ Item(c, p, i, n) /\ (p = 1 => i <= Len(replies[c])) /\ (status = 0 => p # 2)
             \/ p = 1 /\ i = Len(replies[c]) + 1 /\ status = 0 /\ Item(c, 2, 0, n)
  <2>1. CASE p = 1
    <3>1. i \in DOMAIN replies'[c] /\ replies'[c][i].status = 0 /\ n = replies'[c][i].seqn
      BY <1>9, <2>1 DEF Item
    <3>2. CASE i \in DOMAIN replies[c] /\ replies'[c][i] = replies[c][i]
               /\ i <= Len(replies[c])
      BY <2>1, <3>1, <3>2 DEF Item
    <3>3. CASE c = q0.from /\ i = Len(replies[c]) + 1 /\ replies'[c][i] = r
      BY <1>4, <1>7, <2>1, <3>1, <3>3 DEF Item
    <3> QED
      BY <1>8, <3>1, <3>2, <3>3
  <2>2. CASE p # 1
    BY <1>2, <1>5, <1>6, <1>9, <2>2 DEF Item, Busy, Idle
  <2> QED
    BY <2>1, <2>2
<1> SUFFICES ASSUME NEW c \in Client, NEW p \in 0..4, NEW q \in 0..4,
                    NEW i \in Nat, NEW j \in Nat, NEW m \in Nat, NEW n \in Nat,
                    Item(c, p, i, m)', Item(c, q, j, n)', Ahead(p, i, q, j)
             PROVE  m < n
  BY DEF InOrder, Ahead
<1>10. Len(replies[c]) \in Nat
  BY <1>2
<1>11. PICK a \in 0..4, k \in Nat :
         /\ Item(c, a, k, m)
         /\ \/ /\ a = p /\ k = i
               /\ (p = 1 => i <= Len(replies[c])) /\ (status = 0 => p # 2)
            \/ p = 1 /\ i = Len(replies[c]) + 1 /\ status = 0 /\ a = 2 /\ k = 0
  BY <1>9
<1>12. PICK b \in 0..4, l \in Nat :
         /\ Item(c, b, l, n)
         /\ \/ /\ b = q /\ l = j
               /\ (q = 1 => j <= Len(replies[c])) /\ (status = 0 => q # 2)
            \/ q = 1 /\ j = Len(replies[c]) + 1 /\ status = 0 /\ b = 2 /\ l = 0
  BY <1>9
<1>13. Ahead(a, k, b, l)
  BY <1>10, <1>11, <1>12 DEF Ahead
<1> QED
  BY <1>11, <1>12, <1>13 DEF InOrder

\* A packet sent joins the line behind all others, with the next number.
LEMMA OrderAtSend ==
  ASSUME AnyCall, SoleInv, InOrder, NEW d \in Client, NEW s,
         NEW number, NEW again, SendTo(d, s, number, again), UNCHANGED <<service, replies>>
  PROVE  InOrder'
<1> DEFINE P == PRIMARY_PORT
           x == requests[P]
           y == [from |-> d, seqn |-> client[d].seqn, value |-> number]
<1>1. /\ requests \in [Server -> Seq(Request)] /\ P \in Server
      /\ client \in [Client -> ClientState] /\ client[d].seqn \in Nat
      /\ x \in Seq(Request)
  BY ServerAssumption DEF SoleInv, ServiceInv, ServiceTypeOK, ClientState
<1>2. requests' = requests \/ requests' = [requests EXCEPT ![s] = Append(@, y)]
  BY DEF SendTo
<1>3. requests'[P] = x \/ requests'[P] = Append(x, y)
  BY <1>1, <1>2
<1>4. /\ \A c \in Client : c # d => client'[c] = client[c]
      /\ client'[d].shown = client[d].shown /\ client'[d].seqn = client[d].seqn + 1
  BY <1>1 DEF SendTo
<1>5. y.from = d /\ y.seqn = client[d].seqn
  OBVIOUS
<1> HIDE DEF y, x
<1>6. ASSUME NEW i \in DOMAIN requests'[P]
      PROVE  \/ i \in DOMAIN x /\ requests'[P][i] = x[i] /\ i <= Len(x)
             \/ i = Len(x) + 1 /\ requests'[P][i] = y
  <2>1. CASE requests'[P] = x
    BY <1>1, <1>6, <2>1
  <2>2. CASE requests'[P] = Append(x, y)
    <3>1. DOMAIN Append(x, y) = 1..(Len(x) + 1) /\ DOMAIN x = 1..Len(x)
      BY <1>1
    <3>2. \A l \in 1..(Len(x) + 1) : Append(x, y)[l] = IF l <= Len(x) THEN x[l] ELSE y
      BY <1>1
    <3>3. Len(x) \in Nat
      BY <1>1
    <3> QED
      BY <1>6, <2>2, <3>1, <3>2, <3>3
  <2> QED
    BY <1>3, <2>1, <2>2
<1>7. ASSUME NEW c \in Client, NEW p \in 0..4, NEW i \in Nat, NEW n \in Nat,
             Item(c, p, i, n)'
      PROVE  \/ Item(c, p, i, n) /\ (p = 3 => i <= Len(x)) /\ (p = 4 => c # d)
             \/ p = 3 /\ i = Len(x) + 1 /\ c = d /\ Item(c, 4, 0, n)
             \/ p = 4 /\ i = 0 /\ c = d /\ n = client[d].seqn + 1
  <2>1. CASE p = 3
    <3>1. /\ i \in DOMAIN requests'[P] /\ requests'[P][i].from = c
          /\ n = requests'[P][i].seqn
      BY <1>7, <2>1 DEF Item
    <3>2. CASE i \in DOMAIN x /\ requests'[P][i] = x[i] /\ i <= Len(x)
      BY <2>1, <3>1, <3>2 DEF Item, x
    <3>3. CASE i = Len(x) + 1 /\ requests'[P][i] = y
      BY <1>5, <2>1, <3>1, <3>3 DEF Item
    <3> QED
      BY <1>6, <3>1, <3>2, <3>3
  <2>2. CASE p # 3
    BY <1>4, <1>7, <2>2 DEF Item, Busy
  <2> QED
    BY <2>1, <2>2
<1> SUFFICES ASSUME NEW c \in Client, NEW p \in 0..4, NEW q \in 0..4,
                    NEW i \in Nat, NEW j \in Nat, NEW m \in Nat, NEW n \in Nat,
                    Item(c, p, i, m)', Item(c, q, j, n)', Ahead(p, i, q, j)
             PROVE  m < n
  BY DEF InOrder, Ahead
<1>8. Len(x) \in Nat
  BY <1>1
<1>9. PICK a \in 0..4, k \in Nat :
        /\ Item(c, a, k, m)
        /\ \/ a = p /\ k = i /\ (p = 3 => i <= Len(x))
           \/ p = 3 /\ i = Len(x) + 1 /\ a = 4 /\ k = 0 /\ c = d
  <2>1. p # 4
    BY DEF Ahead, Item
  <2> QED
    BY <1>7, <2>1
<1>10. ASSUME ~(q = 4 /\ c = d)
       PROVE  \E b \in 0..4, l \in Nat :
                /\ Item(c, b, l, n)
                /\ \/ b = q /\ l = j /\ (q = 3 => j <= Len(x)) /\ (q = 4 => c # d)
                   \/ q = 3 /\ j = Len(x) + 1 /\ b = 4 /\ l = 0
  <2>1. \/ Item(c, q, j, n) /\ (q = 3 => j <= Len(x)) /\ (q = 4 => c # d)
        \/ q = 3 /\ j = Len(x) + 1 /\ Item(c, 4, 0, n)
    BY <1>7, <1>10
  <2>2. 4 \in 0..4 /\ 0 \in Nat
    OBVIOUS
  <2> QED
    BY <2>1, <2>2, Zenon
<1>11. CASE q = 4 /\ c = d
  <2>1. n = client[d].seqn + 1
    BY <1>4, <1>11 DEF Item
  <2>2. Item(c, 4, 0, client[d].seqn)
    BY <1>11 DEF Item
  <2>3. CASE a = 4
    BY <1>1, <1>9, <1>11, <2>1, <2>3 DEF Item
  <2>4. CASE a # 4
    <3>1. Ahead(a, k, 4, 0)
      BY <2>4 DEF Ahead
    <3>2. 4 \in 0..4 /\ 0 \in Nat
      OBVIOUS
    <3>3. m < client[d].seqn
      BY <1>1, <1>9, <2>2, <3>1, <3>2, Zenon DEF InOrder
    <3> QED
      BY <1>1, <2>1, <3>3
  <2> QED
    BY <2>3, <2>4
<1>12. CASE ~(q = 4 /\ c = d)
  <2>1. PICK b \in 0..4, l \in Nat :
          /\ Item(c, b, l, n)
          /\ \/ b = q /\ l = j /\ (q = 3 => j <= Len(x)) /\ (q = 4 => c # d)
             \/ q = 3 /\ j = Len(x) + 1 /\ b = 4 /\ l = 0
    BY <1>10, <1>12
  <2>2. Ahead(a, k, b, l)
    BY <1>8, <1>9, <2>1 DEF Ahead
  <2> QED
    BY <1>9, <2>1, <2>2 DEF InOrder
<1> QED
  BY <1>11, <1>12

\* An answer is taken, and its number perhaps shown, or lost: those behind it
\* move up.
LEMMA OrderAtTake ==
  ASSUME AnyCall, SoleInv, InOrder, NEW d \in Client, replies[d] # <<>>,
         replies' = [replies EXCEPT ![d] = Tail(@)], UNCHANGED <<service, requests>>,
         \A c \in Client : client'[c].seqn = client[c].seqn,
         \A c \in Client : \/ client'[c].shown = client[c].shown
                           \/ /\ c = d /\ Head(replies[d]).status = 0
                              /\ client'[c].shown = Head(replies[d]).seqn
  PROVE  InOrder'
<1> DEFINE x == replies[d]
<1>1. replies \in [Client -> Seq(Reply)] /\ x \in Seq(Reply) /\ replies'[d] = Tail(x)
      /\ \A c \in Client : c # d => replies'[c] = replies[c]
  BY DEF SoleInv, ServiceInv, ServiceTypeOK
<1>2. /\ 1 \in DOMAIN x /\ Head(x) = x[1]
      /\ \A i \in DOMAIN Tail(x) : i + 1 \in DOMAIN x /\ Tail(x)[i] = x[i + 1] /\ i >= 1
  BY <1>1
<1>3. ASSUME NEW c \in Client, NEW p \in 0..4, NEW i \in Nat, NEW n \in Nat,
             Item(c, p, i, n)'
      PROVE  \/ Item(c, p, i, n) /\ (p = 1 => c # d)
             \/ c = d /\ p = 0 /\ i = 0 /\ Item(c, 1, 1, n)
             \/ c = d /\ p = 1 /\ i >= 1 /\ Item(c, 1, i + 1, n)
  <2>1. CASE p = 0
    BY <1>2, <1>3, <2>1 DEF Item
  <2>2. CASE p = 1 /\ c = d
    <3>1. i \in DOMAIN Tail(x) /\ Tail(x)[i].status = 0 /\ n = Tail(x)[i].seqn
      BY <1>1, <1>3, <2>2 DEF Item
    <3> QED
      BY <1>2, <2>2, <3>1 DEF Item
  <2>3. CASE p = 1 /\ c # d
    BY <1>1, <1>3, <2>3 DEF Item
  <2>4. CASE p \notin {0, 1}
    BY <1>3, <2>4 DEF Item, Busy
  <2> QED
    BY <2>1, <2>2, <2>3, <2>4
<1> SUFFICES ASSUME NEW c \in Client, NEW p \in 0..4, NEW q \in 0..4,
                    NEW i \in Nat, NEW j \in Nat, NEW m \in Nat, NEW n \in Nat,
                    Item(c, p, i, m)', Item(c, q, j, n)', Ahead(p, i, q, j)
             PROVE  m < n
  BY DEF InOrder, Ahead
<1>4. PICK a \in 0..4, k \in Nat :
        /\ Item(c, a, k, m)
        /\ \/ a = p /\ k = i /\ (p = 1 => c # d)
           \/ c = d /\ p = 0 /\ i = 0 /\ a = 1 /\ k = 1
           \/ c = d /\ p = 1 /\ i >= 1 /\ a = 1 /\ k = i + 1
  BY <1>3
<1>5. PICK b \in 0..4, l \in Nat :
        /\ Item(c, b, l, n)
        /\ \/ b = q /\ l = j /\ (q = 1 => c # d)
           \/ c = d /\ q = 0 /\ j = 0 /\ b = 1 /\ l = 1
           \/ c = d /\ q = 1 /\ j >= 1 /\ b = 1 /\ l = j + 1
  BY <1>3
<1>6. ASSUME p = 0 PROVE q # 0
  BY <1>6 DEF Ahead, Item
<1>7. Ahead(a, k, b, l)
  BY <1>4, <1>5, <1>6 DEF Ahead
<1> QED
  BY <1>4, <1>5, <1>7 DEF InOrder

\* A lost request leaves the line.
LEMMA OrderAtLoss ==
  ASSUME AnyCall, SoleInv, InOrder, NEW s \in Server, requests[s] # <<>>,
         requests' = [requests EXCEPT ![s] = Tail(@)], UNCHANGED <<service, client, replies>>
  PROVE  InOrder'
<1> DEFINE P == PRIMARY_PORT
           x == requests[P]
<1>1. requests \in [Server -> Seq(Request)] /\ P \in Server /\ x \in Seq(Request)
  BY ServerAssumption DEF SoleInv, ServiceInv, ServiceTypeOK
<1>2. CASE s # P
  <2>1. requests'[P] = x
    BY <1>1, <1>2
  <2>2. ASSUME NEW c \in Client, NEW p \in 0..4, NEW i \in Nat, NEW n \in Nat,
               Item(c, p, i, n)'
        PROVE  Item(c, p, i, n)
    BY <2>1, <2>2 DEF Item, Busy
  <2> QED
    BY <2>2, OrderSame
<1>3. CASE s = P
  <2>1. requests'[P] = Tail(x) /\ x # <<>>
    BY <1>1, <1>3
  <2>2. \A i \in DOMAIN Tail(x) : i + 1 \in DOMAIN x /\ Tail(x)[i] = x[i + 1] /\ i >= 1
    BY <1>1, <2>1
  <2>3. ASSUME NEW c \in Client, NEW p \in 0..4, NEW i \in Nat, NEW n \in Nat,
               Item(c, p, i, n)'
        PROVE  \/ Item(c, p, i, n) /\ p # 3
               \/ p = 3 /\ Item(c, 3, i + 1, n)
    <3>1. CASE p = 3
      <4>1. i \in DOMAIN requests'[P] /\ requests'[P][i].from = c /\ n = requests'[P][i].seqn
        BY <2>3, <3>1 DEF Item
      <4>2. i \in DOMAIN Tail(x) /\ Tail(x)[i].from = c /\ n = Tail(x)[i].seqn
        BY <2>1, <4>1, Zenon
      <4>3. i + 1 \in DOMAIN x /\ x[i + 1].from = c /\ n = x[i + 1].seqn
        BY <2>2, <4>2
      <4> QED
        BY <3>1, <4>3 DEF Item
    <3>2. CASE p # 3
      BY <2>3, <3>2 DEF Item, Busy
    <3> QED
      BY <3>1, <3>2
  <2> SUFFICES ASSUME NEW c \in Client, NEW p \in 0..4, NEW q \in 0..4,
                      NEW i \in Nat, NEW j \in Nat, NEW m \in Nat, NEW n \in Nat,
                      Item(c, p, i, m)', Item(c, q, j, n)', Ahead(p, i, q, j)
               PROVE  m < n
    BY DEF InOrder, Ahead
  <2>4. PICK k \in Nat : Item(c, p, k, m) /\ k = IF p = 3 THEN i + 1 ELSE i
    BY <2>3
  <2>5. PICK l \in Nat : Item(c, q, l, n) /\ l = IF q = 3 THEN j + 1 ELSE j
    BY <2>3
  <2>6. Ahead(p, k, q, l)
    BY <2>4, <2>5 DEF Ahead
  <2> QED
    BY <2>4, <2>5, <2>6 DEF InOrder
<1> QED
  BY <1>2, <1>3

LEMMA OrderNext ==
  ASSUME AnyCall, SoleInv, InOrder, Sole, [ServiceNext]_allvars PROVE InOrder'
<1>1. ASSUME UNCHANGED <<requests, service, client, replies>> PROVE InOrder'
  BY <1>1, OrderSame DEF Item, Busy
<1>2. CASE UNCHANGED allvars \/ ManagerStep
  BY <1>1, <1>2 DEF allvars, svars, ManagerStep
<1>3. ASSUME NEW s \in Server, RequestStep(s) PROVE InOrder'
  <2>1. service[s] \in Working \/ service[s].at = "receive"
    BY DEF SoleInv, ServiceInv, ServiceTypeOK, Idle
  <2>2. ASSUME NEW from \in {"read", "update"}, NEW to \in {"update", "answer"}, NEW sum,
               service[s].at = from,
               service' = [service EXCEPT ![s].at = to, ![s].sum = sum],
               UNCHANGED <<requests, client, replies>>
        PROVE  InOrder'
    <3>1. service[s] \in Working /\ service \in [Server -> {Idle} \cup Working]
      BY <2>1, <2>2 DEF SoleInv, ServiceInv, ServiceTypeOK
    <3>2. /\ service'[s].request = service[s].request /\ Busy(s)' /\ Busy(s)
          /\ \A t \in Server : t # s => service'[t] = service[t]
      BY <2>2, <3>1 DEF Working, Busy
    <3>3. PRIMARY_PORT \in Server
      BY ServerAssumption
    <3>4. /\ Busy(PRIMARY_PORT)' => Busy(PRIMARY_PORT)
          /\ service'[PRIMARY_PORT].request = service[PRIMARY_PORT].request
      <4>1. CASE s = PRIMARY_PORT
        BY <3>2, <4>1
      <4>2. CASE s # PRIMARY_PORT
        BY <3>2, <3>3, <4>2 DEF Busy
      <4> QED
        BY <4>1, <4>2
    <3>5. ASSUME NEW c \in Client, NEW p \in 0..4, NEW i \in Nat, NEW n \in Nat,
                 Item(c, p, i, n)'
          PROVE  Item(c, p, i, n)
      <4>1. UNCHANGED <<requests, client, replies>>
        BY <2>2
      <4> QED
        BY <3>4, <3>5, <4>1 DEF Item
    <3> QED
      BY <3>5, OrderSame
  <2>3. CASE ReadSum(s)
    <3>1. /\ service' = [service EXCEPT ![s].at = "update", ![s].sum = rm[s].current_sum]
          /\ service[s].at = "read" /\ UNCHANGED <<requests, client, replies>>
      BY <2>3 DEF ReadSum
    <3> QED
      BY <2>2, <3>1
  <2>4. CASE Update(s)
    <3>1. /\ service' = [service EXCEPT ![s].at = "answer"]
          /\ service[s] \in Working /\ service \in [Server -> {Idle} \cup Working]
          /\ service[s].at = "update" /\ UNCHANGED <<requests, client, replies>>
      BY <2>1, <2>4 DEF Update, SoleInv, ServiceInv, ServiceTypeOK
    <3>2. service' = [service EXCEPT ![s].at = "answer", ![s].sum = service[s].sum]
      BY <3>1 DEF Working
    <3> QED
      BY <2>2, <3>1, <3>2
  <2> QED
    BY <1>3, <2>3, <2>4, OrderAtReceive, OrderAtAnswer DEF RequestStep
<1>4. ASSUME NEW c \in Client, ClientStep(c) PROVE InOrder'
  <2>1. client \in [Client -> ClientState] /\ client[c] \in ClientState
    BY DEF SoleInv, ServiceInv, ServiceTypeOK
  <2>2. ASSUME \A d \in Client : /\ client'[d].shown = client[d].shown
                                /\ client'[d].seqn = client[d].seqn,
               UNCHANGED <<requests, service, replies>>
        PROVE  InOrder'
    BY <2>2, OrderSame DEF Item, Busy
  <2>3. CASE Connect(c)
    <3>1. PICK s \in Server : client' = [client EXCEPT ![c].at = "ready", ![c].server = s]
      BY <2>3 DEF Connect
    <3>2. UNCHANGED <<requests, service, replies>>
      BY <2>3 DEF Connect
    <3> QED
      BY <2>1, <2>2, <3>1, <3>2 DEF ClientState
  <2>4. CASE Add(c)
    <3>1. PICK number \in Numbers : SendTo(c, client[c].server, number, FALSE)
      BY <2>4 DEF Add
    <3>2. UNCHANGED <<service, replies>>
      BY <2>4 DEF Add
    <3> QED
      BY <3>1, <3>2, OrderAtSend
  <2>5. CASE Search(c)
    <3>1. UNCHANGED <<service, replies>>
      BY <2>5 DEF Search
    <3>2. ASSUME NEW s \in Server, SendTo(c, s, client[c].number, TRUE) PROVE InOrder'
      BY <3>1, <3>2, OrderAtSend
    <3>3. ASSUME client' = [client EXCEPT ![c].at = "ready"], UNCHANGED requests
          PROVE  InOrder'
      BY <2>1, <2>2, <3>1, <3>3 DEF ClientState
    <3> QED
      BY <2>5, <3>2, <3>3 DEF Search
  <2>6. ASSUME NEW result, NEW from, NEW seqn, Afterwards(c, result, from, seqn)
        PROVE  /\ \A d \in Client : client'[d].seqn = client[d].seqn
               /\ \A d \in Client : d # c => client'[d].shown = client[d].shown
               /\ client'[c].shown = IF result < 0 THEN client[c].shown ELSE seqn
    <3> DEFINE place == IF result = -2 /\ ~client[c].again THEN "searching" ELSE "ready"
               last == IF result < 0 THEN client[c].shown ELSE seqn
    <3>1. client' = [client EXCEPT ![c].server = from, ![c].at = place, ![c].shown = last]
      BY <2>1, <2>6 DEF Afterwards, ClientState
    <3> HIDE DEF place, last
    <3>2. /\ \A d \in Client : client'[d].seqn = client[d].seqn
          /\ \A d \in Client : d # c => client'[d].shown = client[d].shown
          /\ client'[c].shown = last
      BY <2>1, <3>1 DEF ClientState
    <3> QED
      BY <3>2 DEF last
  <2>7. CASE TimeOut(c)
    <3>1. Afterwards(c, -2, client[c].server, 0) /\ UNCHANGED <<requests, service, replies>>
      BY <2>7 DEF TimeOut
    <3>2. \A d \in Client : client'[d].shown = client[d].shown
      BY <2>6, <3>1
    <3> QED
      BY <2>2, <2>6, <3>1, <3>2
  <2>8. CASE TakeReply(c)
    <3> DEFINE r == Head(replies[c])
    <3>1. /\ Afterwards(c, IF r.status = 1 THEN -2 ELSE r.value, r.server, r.seqn)
          /\ UNCHANGED <<requests, service>> /\ replies[c] # <<>>
          /\ replies' = [replies EXCEPT ![c] = Tail(@)]
      BY <2>8 DEF TakeReply
    <3>2. r \in Reply
      BY <3>1, HeadTailProperties DEF SoleInv, ServiceInv, ServiceTypeOK
    <3> DEFINE result == IF r.status = 1 THEN -2 ELSE r.value
    <3>3. r.status \in {0, 1} /\ (r.status # 0 => result < 0)
      BY <3>2 DEF Reply
    <3> HIDE DEF result
    <3>4. /\ \A d \in Client : client'[d].seqn = client[d].seqn
          /\ \A d \in Client : d # c => client'[d].shown = client[d].shown
          /\ client'[c].shown = IF result < 0 THEN client[c].shown ELSE r.seqn
      BY <2>6, <3>1 DEF result
    <3>5. \A d \in Client : \/ client'[d].shown = client[d].shown
                            \/ /\ d = c /\ r.status = 0
                               /\ client'[d].shown = r.seqn
      BY <3>3, <3>4
    <3> QED
      BY <3>1, <3>4, <3>5, OrderAtTake
  <2> QED
    BY <1>4, <2>3, <2>4, <2>5, <2>7, <2>8 DEF ClientStep
<1>5. CASE LosePacket
  <2>1. ASSUME NEW s \in Server, requests[s] # <<>>,
               requests' = [requests EXCEPT ![s] = Tail(@)], UNCHANGED replies
        PROVE  InOrder'
    BY <1>5, <2>1, OrderAtLoss DEF LosePacket
  <2>2. ASSUME NEW d \in Client, replies[d] # <<>>,
               replies' = [replies EXCEPT ![d] = Tail(@)], UNCHANGED requests
        PROVE  InOrder'
    BY <1>5, <2>2, OrderAtTake DEF LosePacket
  <2> QED
    BY <1>5, <2>1, <2>2 DEF LosePacket
<1> QED
  BY <1>2, <1>3, <1>4, <1>5, OrderAtCrash DEF ServiceNext

LEMMA OrderHolds == ASSUME AnyCall PROVE ServiceSpec => [](Sole => InOrder)
<1>1. ServiceInit => (Sole => InOrder)
  BY OrderInit
<1>2. SoleInv /\ (Sole => InOrder) /\ [ServiceNext]_allvars => (Sole => InOrder)'
  <2> SUFFICES ASSUME SoleInv, Sole => InOrder, [ServiceNext]_allvars, Sole' PROVE InOrder'
    OBVIOUS
  <2>1. IInv /\ [Next]_vars
    BY ServiceInvNext DEF SoleInv, ServiceInv
  <2>2. Sole
    BY <2>1, SoleBefore
  <2> QED
    BY <2>2, OrderNext
<1> QED
  BY <1>1, <1>2, SoleHolds, PTL DEF ServiceSpec

\* While the first primary is the only one, the totals a client prints only go
\* forward, and none is printed twice, although the client takes any answer for
\* that of its last request: one socket keeps the order, and one thread serves.
THEOREM TotalsGoForward == ASSUME AnyCall PROVE ServiceSpec => []ShownInOrder
<1>1. ServiceTypeOK /\ (Sole => InOrder) => ShownInOrder
  <2> SUFFICES ASSUME ServiceTypeOK, Sole => InOrder, OnePrimary,
                      NEW c \in Client, NEW i \in DOMAIN replies[c],
                      replies[c][i].status = 0
               PROVE  client[c].shown < replies[c][i].seqn
    BY DEF ShownInOrder
  <2>1. Sole
    BY ServerAssumption DEF OnePrimary, Sole
  <2>2. replies[c] \in Seq(Reply)
    BY DEF ServiceTypeOK
  <2>3. i \in Nat /\ replies[c][i] \in Reply
    BY <2>2
  <2>4. replies[c][i].seqn \in Nat /\ client[c].shown \in Nat
    BY <2>3 DEF Reply, ServiceTypeOK, ClientState
  <2>5. Item(c, 0, 0, client[c].shown) /\ Item(c, 1, i, replies[c][i].seqn)
    BY DEF Item
  <2>6. Ahead(0, 0, 1, i)
    BY DEF Ahead
  <2>7. 0 \in 0..4 /\ 1 \in 0..4 /\ 0 \in Nat
    OBVIOUS
  <2> QED
    BY <2>1, <2>3, <2>4, <2>5, <2>6, <2>7, Zenon DEF InOrder
<1> QED
  BY <1>1, OrderHolds, ServiceTypeCorrect, PTL
===============================================================================
