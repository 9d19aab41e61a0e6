----------------------------- MODULE ReplicaProofs -----------------------------
(***************************************************************************)
(* What TLAPS proves of the first primary and its replicas, while it is    *)
(* the only one and no datagram is lost: it reaches whom it lists, and a   *)
(* replica that has read what it was sent holds the primary's sum.         *)
(***************************************************************************)
EXTENDS SolePrimaryProofs

\* The first primary is the only one so far and has not died.
FirstReign == Sole /\ (PRIMARY_PORT \in up \/ starts[PRIMARY_PORT] = 0)

\* What is waiting in the socket of the first primary, and whom it lists.
Inbox == queue[PRIMARY_PORT]

List == rm[PRIMARY_PORT].replicas
-------------------------------------------------------------------------------
(* The reign: it is never begun again.                                      *)

\* A process that does not run has the memory and the socket of a new one.
Blank == \A s \in Server \ up : queue[s] = <<>> /\ rm[s] = Boot(s)

LEMMA ReignBefore ==
  ASSUME IInv, RoleInv, [Next]_vars, FirstReign'
  PROVE  FirstReign
<1> DEFINE P == PRIMARY_PORT
<1>1. Sole /\ P \in Server /\ starts \in [Server -> Nat]
  BY SoleBefore, ServerAssumption DEF FirstReign, IInv
<1>2. CASE \E s \in Server : Start(s)
  <2>1. PICK s \in Server : Start(s)
    BY <1>2
  <2>2. s # P => (P \in up' <=> P \in up) /\ starts'[P] = starts[P]
    BY <1>1, <2>1 DEF Start
  <2>3. s = P => starts'[P] = starts[P] + 1 /\ starts'[P] <= 1
    BY <1>1, <2>1 DEF Start, FirstReign, Sole
  <2>4. starts[P] \in Nat
    BY <1>1
  <2> QED
    BY <1>1, <2>2, <2>3, <2>4 DEF FirstReign
<1>3. CASE ~\E s \in Server : Start(s)
  <2>1. starts' = starts /\ up' \subseteq up
    BY <1>3, Claiming
  <2> QED
    BY <1>1, <2>1 DEF FirstReign
<1> QED
  BY <1>2, <1>3

LEMMA Grounded ==
  ASSUME NEW d \in Server, d \notin up, NEW q \in [Server -> Seq(Message)], NEW D, NEW ms
  PROVE  Deliver(q, To(D, ms))[d] = q[d]
BY DEF Deliver

LEMMA BlankNext ==
  ASSUME IInv, Blank, [Next]_vars
  PROVE  Blank'
<1> SUFFICES ASSUME NEW d \in Server, d \notin up'
             PROVE  queue'[d] = <<>> /\ rm'[d] = Boot(d)
  BY DEF Blank, Boot, NoReplicas
<1>0. rm \in [Server -> Manager] /\ queue \in [Server -> Seq(Message)]
  BY QueueType DEF IInv
<1>1. ASSUME NEW s \in Server, Crash(s) PROVE queue'[d] = <<>> /\ rm'[d] = Boot(d)
  BY <1>0, <1>1 DEF Crash, Blank
<1>2. CASE UNCHANGED vars
  BY <1>2 DEF vars, Blank
<1>3. ASSUME NEW s \in Server, Start(s) PROVE queue'[d] = <<>> /\ rm'[d] = Boot(d)
  <2>1. d # s /\ d \notin up
    BY <1>3 DEF Start
  <2>2. rm'[d] = rm[d] /\ queue'[d] = queue[d]
    BY <1>0, <1>3, <2>1 DEF Start
  <2> QED
    BY <2>1, <2>2 DEF Blank
<1>4. CASE Tick
  <2>1. d \notin up /\ DOMAIN queue'[d] = DOMAIN queue[d] /\ queue[d] = <<>>
    BY <1>4, TickSocket DEF Tick, Unbounded, Blank
  <2>2. rm'[d] = rm[d] /\ queue'[d] = [i \in DOMAIN queue[d] |->
                                         [queue[d][i] EXCEPT !.replicas = Aged(@)]]
    BY <1>4, <2>1 DEF Tick
  <2> DEFINE older(i) == [queue[d][i] EXCEPT !.replicas = Aged(queue[d][i].replicas)]
  <2>3. queue'[d] = [i \in 1..0 |-> older(i)]
    BY <2>1, <2>2
  <2> HIDE DEF older
  <2>4. queue'[d] = <<>>
    BY <2>3
  <2> QED
    BY <2>1, <2>2, <2>4 DEF Blank
<1>5. ASSUME NEW s \in Server, ThreadStep(s) \/ Lose(s) \/ CallUpdateState(s)
      PROVE  queue'[d] = <<>> /\ rm'[d] = Boot(d)
  <2>1. d \notin up /\ queue[d] = <<>> /\ rm[d] = Boot(d)
    <3>1. up' = up
      BY <1>5 DEF ThreadStep, Receive, HandleHeartbeat, HandleJoinRequest, HandleReplicaList,
         HandleStateUpdate, HandleStateAck, HandleStartElection, HandleElectionResponse,
         HandleVictory, HandleVictoryAck, BeginCheck, CheckPrimary, ReceiverWakes,
         CheckerWakes, SendHeartbeats, Lose, Unbounded, ReceiverElection, CheckerElection,
         CallUpdateState, CallWith, UpdateState
    <3> QED
      BY <3>1 DEF Blank
  <2>2. CASE s # d
    <3>1. rm'[d] = rm[d]
      BY <1>5, <2>2, OthersKeep
    <3>2. ASSUME Receive(s) PROVE queue'[d] = queue[d]
      <4>1. queue[s] # <<>>
        BY <3>2, ReceivesSome
      <4>2. Rest(s) \in [Server -> Seq(Message)] /\ Rest(s)[d] = queue[d]
        BY <1>0, <2>2, <4>1, QueueType DEF Rest
      <4>3. CASE HandleJoinRequest(s)
        BY <2>1, <4>2, <4>3, JoinSends, Grounded DEF Sends
      <4>4. CASE ~HandleJoinRequest(s)
        BY <2>1, <3>2, <4>2, <4>4, AnswerSends, Grounded DEF Sends
      <4> QED
        BY <4>3, <4>4
    <3>3. ASSUME Lose(s) PROVE queue'[d] = queue[d]
      BY <1>0, <2>2, <3>3 DEF Lose, Rest
    <3>4. ASSUME \/ ReceiverElection(s) \/ ReceiverWakes(s) \/ BeginCheck(s) \/ CheckPrimary(s)
                 \/ CheckerElection(s) \/ CheckerWakes(s) \/ SendHeartbeats(s)
                 \/ CallUpdateState(s)
          PROVE  queue'[d] = queue[d]
      BY <1>0, <2>1, <3>4, OtherSends, Grounded DEF Sends
    <3> QED
      BY <1>5, <2>1, <3>1, <3>2, <3>3, <3>4 DEF ThreadStep
  <2>3. CASE s = d
    BY <1>5, <2>1, <2>3, ReceivesSome
       DEF ThreadStep, ReceiverElection, CheckerElection, BeginCheck, CheckPrimary,
           ReceiverWakes, CheckerWakes, SendHeartbeats, Lose, CallUpdateState, CallWith,
           UpdateState
  <2> QED
    BY <2>2, <2>3
<1>6. ASSUME NEW s \in Server, SendJoinRequest(s) PROVE queue'[d] = <<>> /\ rm'[d] = Boot(d)
  <2>1. d \notin up /\ rm' = rm
    BY <1>6 DEF SendJoinRequest
  <2>2. queue'[d] = queue[d]
    BY <1>0, <1>6, <2>1, Grounded DEF SendJoinRequest
  <2> QED
    BY <2>1, <2>2 DEF Blank
<1>7. ASSUME NEW s \in Server, CreateThreads(s) PROVE queue'[d] = <<>> /\ rm'[d] = Boot(d)
  BY <1>7 DEF CreateThreads, Blank
<1> QED
  BY <1>1, <1>2, <1>3, <1>4, <1>5, <1>6, <1>7 DEF Next, StartStep
-------------------------------------------------------------------------------
(* What one step does to the inbox of the first primary.                    *)

Alike(m, n) == m.type = n.type /\ m.replica_id = n.replica_id

\* Nobody sends the first primary a list, and it does not ask itself.
InboxOK ==
  /\ joins[PRIMARY_PORT] = 0
  /\ \A i \in DOMAIN Inbox :
       /\ Inbox[i].type # "REPLICA_LIST_UPDATE"
       /\ Inbox[i].type = "JOIN_REQUEST" => Inbox[i].replica_id # PRIMARY_PORT

\* The datagrams of x but the first d are in q, d places further on; what else
\* is in q is no request to join, and no list.
Moves(x, d, q) ==
  /\ \A i \in DOMAIN x : i > d => i - d \in DOMAIN q /\ Alike(q[i - d], x[i])
  /\ \A j \in DOMAIN q :
       \/ j + d \in DOMAIN x /\ Alike(q[j], x[j + d])
       \/ q[j].type \notin {"REPLICA_LIST_UPDATE", "JOIN_REQUEST"}

LEMMA OwnSeq ==
  ASSUME NEW s, NEW T, NEW y \in Seq(Own(s, T))
  PROVE  y \in Seq(Message)
<1>1. Own(s, T) \subseteq Message
  BY DEF Own
<1> QED
  BY <1>1

LEMMA AppendMoves ==
  ASSUME NEW x \in Seq(Message), NEW s, NEW y \in Seq(Own(s, AnswerTypes \cup ThreadTypes))
  PROVE  Moves(x, 0, x \o y)
<1>1. \A k \in DOMAIN y : y[k].type \notin {"REPLICA_LIST_UPDATE", "JOIN_REQUEST"}
  <2>1. ASSUME NEW k \in DOMAIN y PROVE y[k] \in Own(s, AnswerTypes \cup ThreadTypes)
    BY <2>1
  <2> QED
    BY <2>1 DEF Own, AnswerTypes, ThreadTypes
<1>2. y \in Seq(Message)
  BY OwnSeq
<1>3. /\ \A i \in DOMAIN x : i \in DOMAIN (x \o y) /\ (x \o y)[i] = x[i]
      /\ \A j \in DOMAIN (x \o y) :
           \/ j \in DOMAIN x
           \/ j - Len(x) \in DOMAIN y /\ (x \o y)[j] = y[j - Len(x)]
  BY <1>2, ConcatProperties
<1>4. \A i \in DOMAIN (x \o y) : i \in Nat
  BY <1>2, ConcatProperties
<1>5. \A i \in DOMAIN x : i \in Nat /\ i - 0 = i
  OBVIOUS
<1>6. ASSUME NEW i \in DOMAIN x
      PROVE  i - 0 \in DOMAIN (x \o y) /\ Alike((x \o y)[i - 0], x[i])
  BY <1>3, <1>5 DEF Alike
<1>7. ASSUME NEW j \in DOMAIN (x \o y)
      PROVE  \/ j + 0 \in DOMAIN x /\ Alike((x \o y)[j], x[j + 0])
             \/ (x \o y)[j].type \notin {"REPLICA_LIST_UPDATE", "JOIN_REQUEST"}
  <2>1. j + 0 = j
    BY <1>4
  <2> QED
    BY <1>1, <1>3, <2>1 DEF Alike
<1> QED
  BY <1>6, <1>7 DEF Moves

LEMMA TailMoves ==
  ASSUME NEW x \in Seq(Message), x # <<>>, NEW s,
         NEW y \in Seq(Own(s, AnswerTypes \cup ThreadTypes))
  PROVE  Moves(x, 1, Tail(x) \o y)
<1> DEFINE t == Tail(x)
           q == t \o y
<1>1. /\ t \in Seq(Message) /\ Len(t) = Len(x) - 1 /\ Len(x) \in Nat
      /\ \A i \in 1..Len(t) : t[i] = x[i + 1]
  BY HeadTailProperties
<1>2. DOMAIN t = 1..Len(t) /\ DOMAIN x = 1..Len(x) /\ Len(t) \in Nat
  BY <1>1
<1>3. Moves(t, 0, q)
  BY <1>1, AppendMoves
<1> HIDE DEF t, q
<1>4. ASSUME NEW i \in DOMAIN x, i > 1
      PROVE  i - 1 \in DOMAIN q /\ Alike(q[i - 1], x[i])
  <2>1. i - 1 \in DOMAIN t /\ i - 1 > 0 /\ (i - 1) - 0 = i - 1 /\ (i - 1) + 1 = i
    BY <1>1, <1>2, <1>4
  <2>2. t[i - 1] = x[i]
    BY <1>1, <1>2, <2>1
  <2> QED
    BY <1>3, <2>1, <2>2 DEF Moves
<1>5. ASSUME NEW j \in DOMAIN q, j + 0 \in DOMAIN t, Alike(q[j], t[j + 0])
      PROVE  j + 1 \in DOMAIN x /\ Alike(q[j], x[j + 1])
  <2>1. j \in Int
    <3>1. DOMAIN q = 1..Len(q)
      <4>1. y \in Seq(Message)
        BY OwnSeq
      <4>2. q \in Seq(Message)
        BY <1>1, <4>1, ConcatProperties DEF q
      <4> QED
        BY <4>2
    <3> QED
      BY <3>1
  <2>2. j + 0 = j
    BY <2>1
  <2>3. j \in 1..Len(t) /\ t[j] = x[j + 1] /\ j + 1 \in 1..Len(x)
    BY <1>1, <1>2, <1>5, <2>1, <2>2
  <2> QED
    BY <1>2, <1>5, <2>2, <2>3
<1> QED
  BY <1>3, <1>4, <1>5 DEF Moves, q, t

\* A request to join, where it arrives.
Asks(s) ==
  /\ SendJoinRequest(s) /\ s # PRIMARY_PORT
  /\ Inbox' = IF PRIMARY_PORT \in up THEN Append(Inbox, Plain("JOIN_REQUEST", s)) ELSE Inbox

LEMMA JoinerAsks ==
  ASSUME IInv, InboxOK, NeverFull', NEW s \in Server, SendJoinRequest(s)
  PROVE  Asks(s)
<1> DEFINE P == PRIMARY_PORT
           m == Plain("JOIN_REQUEST", s)
           ms == <<m>>
           D == {P}
<1>1. P \in Server /\ queue \in [Server -> Seq(Message)] /\ s # P
  <2>1. s # P
    <3>1. joins[P] = 0 /\ joins[s] > 0
      BY DEF InboxOK, SendJoinRequest
    <3> QED
      BY <3>1
  <2> QED
    BY <2>1, ServerAssumption, QueueType
<1>2. queue' = Deliver(queue, To(D, ms)) /\ P \in D
  BY DEF SendJoinRequest
<1>3. m \in Message
  BY EntryType DEF Plain, Message, MessageType
<1> HIDE DEF m
<1>4. ms \in Seq(Message)
  BY <1>3
<1>5. queue[P] \o ms = Append(queue[P], m)
  BY <1>1, <1>3
<1> HIDE DEF ms, D
<1>6. queue'[P] = IF P \in up THEN queue[P] \o ms ELSE queue[P]
  <2>1. Len(Deliver(queue, To(D, ms))[P]) < RCVBUF
    BY <1>1, <1>2 DEF NeverFull
  <2>2. Deliver(queue, To(D, ms))[P] = IF P \in up /\ P \in D THEN queue[P] \o ms ELSE queue[P]
    BY <1>1, <1>4, <2>1, DeliverAll
  <2> QED
    BY <1>2, <2>2
<1>7. Inbox' = IF P \in up THEN Append(Inbox, m) ELSE Inbox
  BY <1>5, <1>6 DEF Inbox
<1> QED
  BY <1>1, <1>7 DEF Asks, m

\* The first primary does not die in its reign.
LEMMA ReignLasts ==
  ASSUME IInv, RoleInv, FirstReign', Crash(PRIMARY_PORT) PROVE FALSE
<1>1. /\ PRIMARY_PORT \in Server /\ PRIMARY_PORT \in up /\ starts' = starts
      /\ PRIMARY_PORT \notin up'
  BY ServerAssumption DEF Crash, IInv
<1>2. starts[PRIMARY_PORT] >= 1
  BY <1>1 DEF RoleInv
<1> QED
  BY <1>1, <1>2 DEF FirstReign

\* It is the only server that ever leads.
LEMMA OnlyLeader ==
  ASSUME IInv, RoleInv, FirstReign, NEW s \in Server, s \in up, rm[s].is_primary
  PROVE  s = PRIMARY_PORT
<1>1. s \in claimed
  BY LeaderIsPrimary DEF RoleInv
<1> QED
  BY <1>1 DEF FirstReign, Sole

LEMMA JoinTakes ==
  ASSUME IInv, InboxOK, HandleJoinRequest(PRIMARY_PORT), NeverFull'
  PROVE  /\ Inbox # <<>> /\ Received(PRIMARY_PORT).type = "JOIN_REQUEST"
         /\ Received(PRIMARY_PORT).replica_id \in Server \ {PRIMARY_PORT}
         /\ Inbox' = Tail(Inbox)
<1> DEFINE P == PRIMARY_PORT
           from == Received(P).replica_id
           R == Heard(P)
<1>1. /\ P \in Server /\ queue[P] # <<>> /\ Received(P).type = "JOIN_REQUEST"
      /\ queue \in [Server -> Seq(Message)]
  BY ServerAssumption, QueueType DEF HandleJoinRequest, Receives
<1>2. from \in Server \ {P}
  <2>1. queue[P] \in Seq(Message)
    BY <1>1
  <2>2. 1 \in DOMAIN queue[P] /\ Received(P) = queue[P][1]
    BY <1>1, <2>1 DEF Received
  <2> QED
    BY <1>1, <2>2, HeardType DEF InboxOK, Inbox
<1>3. Rest(P) \in [Server -> Seq(Message)] /\ Rest(P)[P] = Tail(queue[P])
  BY <1>1, QueueType DEF Rest
<1>4. R \in [Server -> Entry]
  BY <1>1, HeardType
<1>5. Rejoined(R, from) \in [Server -> Entry] /\ Enrolled(R, from) \in [Server -> Entry]
  BY <1>2, <1>4, JoiningType
<1>6. \/ queue' = Rest(P)
      \/ queue' = Deliver(Rest(P), To({from}, Burst(WithList(P, Rejoined(R, from)))))
      \/ queue' = Deliver(Rest(P), To(Addressed(Enrolled(R, from), Server \ {P}),
                                      Burst(WithList(P, Enrolled(R, from)))))
  BY <1>1, JoinCases
<1> HIDE DEF from, R
<1>7. ASSUME NEW D, P \notin D, NEW L \in [Server -> Entry],
             queue' = Deliver(Rest(P), To(D, Burst(WithList(P, L))))
      PROVE  queue'[P] = Tail(queue[P])
  <2>1. WithList(P, L) \in Message
    <3>1. "HEARTBEAT" \in MessageType
      BY DEF MessageType
    <3> QED
      BY <1>1, <3>1, OwnPlain DEF Own
  <2>2. Burst(WithList(P, L)) \in Seq(Message)
    BY <2>1, BurstType
  <2>3. Len(queue'[P]) < RCVBUF
    BY <1>1 DEF NeverFull
  <2> QED
    BY <1>1, <1>3, <1>7, <2>2, <2>3, DeliverAll
<1>8. P \notin {from} /\ P \notin Addressed(Enrolled(R, from), Server \ {P})
  BY <1>2 DEF Addressed
<1>9. queue'[P] = Tail(queue[P])
  BY <1>3, <1>5, <1>6, <1>7, <1>8
<1> QED
  BY <1>1, <1>2, <1>9 DEF Inbox, from

LEMMA InboxMoves ==
  ASSUME IInv, RoleInv, InboxOK, FirstReign, FirstReign', [Next]_vars, NeverFull',
         Lossy = FALSE
  PROVE  \/ \E s \in Server : Asks(s)
         \/ ~Receive(PRIMARY_PORT) /\ Moves(Inbox, 0, Inbox')
         \/ Receive(PRIMARY_PORT) /\ Inbox # <<>> /\ Moves(Inbox, 1, Inbox')
<1> DEFINE P == PRIMARY_PORT
           T == AnswerTypes \cup ThreadTypes
<1>1. P \in Server /\ queue \in [Server -> Seq(Message)]
  BY ServerAssumption, QueueType
<1>2. queue[P] \in Seq(Message)
  BY <1>1
<1>3. ASSUME NEW s, NEW y \in Seq(Own(s, T)), queue'[P] = queue[P] \o y
      PROVE  Moves(Inbox, 0, Inbox')
  BY <1>2, <1>3, AppendMoves DEF Inbox
<1>4. ASSUME NEW s, NEW y \in Seq(Own(s, T)), queue[P] # <<>>, queue'[P] = Tail(queue[P]) \o y
      PROVE  Moves(Inbox, 1, Inbox')
  BY <1>2, <1>4, TailMoves DEF Inbox
<1>5. ASSUME queue'[P] = queue[P] PROVE Moves(Inbox, 0, Inbox')
  <2>1. <<>> \in Seq(Own(P, T)) /\ queue[P] \o <<>> = queue[P]
    BY <1>2, ConcatProperties
  <2> QED
    BY <1>3, <1>5, <2>1
<1>6. CASE HandleJoinRequest(P)
  <2>1. queue[P] # <<>> /\ queue'[P] = Tail(queue[P]) /\ Receive(P)
    BY <1>6, JoinTakes DEF Inbox, Receive
  <2>2. <<>> \in Seq(Own(P, T)) /\ Tail(queue[P]) \in Seq(Message)
    BY <1>2, <2>1, HeadTailProperties
  <2>3. Tail(queue[P]) \o <<>> = Tail(queue[P])
    BY <2>2, ConcatProperties
  <2> QED
    BY <1>4, <2>1, <2>2, <2>3 DEF Inbox
<1>7. CASE Receive(P) /\ ~HandleJoinRequest(P)
  <2>1. queue[P] # <<>> /\ Rest(P) \in [Server -> Seq(Message)] /\ Rest(P)[P] = Tail(queue[P])
    BY <1>1, <1>7, ReceivesSome, QueueType DEF Rest
  <2>2. Sends(P, Rest(P), T)
    BY <1>1, <1>7, AnswerSends, SendsMore
  <2> HIDE DEF T
  <2>3. \E y \in Seq(Own(P, T)) : queue'[P] = Rest(P)[P] \o y
    BY <1>1, <2>1, <2>2, SendsArrive
  <2> QED
    BY <1>4, <1>7, <2>1, <2>3 DEF Inbox
<1>8. ASSUME NEW s \in Server, SendJoinRequest(s) PROVE Asks(s)
  BY <1>8, JoinerAsks
<1>9. CASE Tick
  <2>1. /\ DOMAIN queue'[P] = DOMAIN queue[P]
        /\ \A i \in DOMAIN queue[P] : Alike(queue'[P][i], queue[P][i])
    BY <1>1, <1>9, TickSocket DEF Alike
  <2>2. \A i \in DOMAIN queue[P] : i - 0 = i /\ i + 0 = i
    BY <1>2
  <2>3. Moves(Inbox, 0, Inbox')
    BY <2>1, <2>2 DEF Moves, Inbox
  <2> QED
    BY <1>6, <1>7, <2>3
<1>10. CASE Next /\ ~Receive(P) /\ ~Tick
  <2>1. ~Crash(P)
    BY ReignLasts
  <2>2. ASSUME NEW s \in Server, HandleJoinRequest(s), rm[s].is_primary PROVE FALSE
    <3>1. s \in up /\ Receive(s)
      BY <2>2 DEF HandleJoinRequest, Receives, Receive
    <3> QED
      BY <1>10, <2>2, <3>1, OnlyLeader
  <2>3. Arrive(P, queue[P], T) => Moves(Inbox, 0, Inbox')
    BY <1>3 DEF Arrive
  <2> QED
    BY <1>1, <1>8, <1>10, <2>1, <2>2, <2>3, SocketStep
<1>11. CASE UNCHANGED vars
  <2>1. Moves(Inbox, 0, Inbox')
    BY <1>5, <1>11 DEF vars
  <2> QED
    BY <1>6, <1>7, <2>1
<1> QED
  BY <1>6, <1>7, <1>9, <1>10, <1>11
-------------------------------------------------------------------------------
(* The list of the first primary: who is in it is never marked dead.        *)

LEMMA ReignElection ==
  ASSUME IInv, RoleInv, FirstReign, HoldsNoElection, [Next]_vars
  PROVE  HoldsNoElection'
<1> DEFINE P == PRIMARY_PORT
<1>1. ASSUME HandleStartElection(P) PROVE HoldsNoElection'
  <2>1. P \in up /\ P \in Server /\ UNCHANGED checker
    BY <1>1, ServerAssumption DEF HandleStartElection, Receives
  <2>2. rm[P].is_primary
    BY <2>1, LeaderIsPrimary DEF RoleInv, FirstReign
  <2>3. receiver' = receiver
    BY <1>1, <2>2 DEF HandleStartElection
  <2> QED
    BY <2>1, <2>3 DEF HoldsNoElection
<1> QED
  BY <1>1, NoElectionUnlessAsked

AllAlive(R) == \A r \in Server : R[r].listed => R[r].is_alive

LEMMA MarkingRevives ==
  ASSUME NEW R \in [Server -> Entry], AllAlive(R), NEW r \in Server
  PROVE  /\ AllAlive([R EXCEPT ![r] = [@ EXCEPT !.repl_addr = TRUE]])
         /\ AllAlive(SeenAlive(R, r)) /\ AllAlive(Confirmed(R, r)) /\ AllAlive(Aged(R))
         /\ AllAlive(Enrolled(R, r)) /\ AllAlive(Rejoined(R, r))
<1>1. \A t \in Server : R[t] \in Entry
  OBVIOUS
<1>2. AllAlive([R EXCEPT ![r] = [@ EXCEPT !.repl_addr = TRUE]]) /\ AllAlive(Confirmed(R, r))
  BY <1>1 DEF AllAlive, Confirmed, Entry
<1>3. AllAlive(SeenAlive(R, r)) /\ SeenAlive(R, r) \in [Server -> Entry]
  <2>1. \A t \in Server : SeenAlive(R, r)[t] = R[t] \/ SeenAlive(R, r)[t].is_alive
    BY <1>1 DEF SeenAlive, Entry
  <2> QED
    BY <2>1, SeenAliveType DEF AllAlive
<1>4. AllAlive(Aged(R))
  BY <1>1 DEF AllAlive, Aged, Entry
<1>5. AllAlive(Enrolled(R, r))
  BY <1>1 DEF AllAlive, Enrolled, FreshEntry
<1>6. AllAlive(Rejoined(R, r))
  <2> DEFINE S == SeenAlive(R, r)
  <2> HIDE DEF S
  <2>1. AllAlive([S EXCEPT ![r] = [@ EXCEPT !.state_confirmed = FALSE]])
    BY <1>3 DEF AllAlive, Entry, S
  <2> QED
    BY <2>1 DEF Rejoined, S
<1> QED
  BY <1>2, <1>3, <1>4, <1>5, <1>6

LEMMA BootAlive ==
  ASSUME NEW s \in Server PROVE AllAlive(Boot(s).replicas)
BY ServerAssumption DEF AllAlive, Boot, NoReplicas, NoEntry, FreshEntry

LEMMA AliveNext ==
  ASSUME IInv, RoleInv, InboxOK, FirstReign, FirstReign', HoldsNoElection, AllAlive(List),
         [Next]_vars
  PROVE  AllAlive(List')
<1> DEFINE P == PRIMARY_PORT
<1>1. P \in Server /\ rm \in [Server -> Manager] /\ rm[P].replicas \in [Server -> Entry]
  BY ServerAssumption DEF IInv, Manager
<1>2. CASE rm'[P] = rm[P]
  BY <1>2 DEF List
<1>3. ASSUME Receive(P)
      PROVE  /\ queue[P] # <<>> /\ Received(P).replica_id \in Server
             /\ Heard(P) \in [Server -> Entry] /\ AllAlive(Heard(P))
  <2>1. queue[P] # <<>>
    BY <1>1, <1>3, ReceivesSome
  <2>2. Received(P).replica_id \in Server /\ Heard(P) \in [Server -> Entry]
    BY <1>1, <2>1, HeardType
  <2>3. AllAlive(Heard(P))
    BY <1>1, <2>2, MarkingRevives DEF Heard, List
  <2> QED
    BY <2>1, <2>2, <2>3
<1>4. CASE HandleJoinRequest(P)
  <2> DEFINE from == Received(P).replica_id
             R == Heard(P)
  <2>1. AllAlive(R) /\ AllAlive(Rejoined(R, from)) /\ AllAlive(Enrolled(R, from))
    BY <1>3, <1>4, MarkingRevives DEF Receive
  <2>2. PICK L \in {R, Rejoined(R, from), Enrolled(R, from)} :
          rm' = [rm EXCEPT ![P] = [rm[P] EXCEPT !.replicas = L]]
    BY <1>1, <1>4, JoinCases
  <2> HIDE DEF R, from
  <2>3. rm'[P].replicas = L
    BY <1>1, <2>2 DEF Manager
  <2> QED
    BY <2>1, <2>2, <2>3 DEF List
<1>5. ASSUME HandleReplicaList(P) PROVE FALSE
  <2>1. Received(P).type = "REPLICA_LIST_UPDATE" /\ queue[P] # <<>> /\ queue[P] \in Seq(Message)
    BY <1>1, <1>5, QueueType DEF HandleReplicaList, Receives
  <2>2. 1 \in DOMAIN queue[P] /\ Received(P) = queue[P][1]
    BY <2>1 DEF Received
  <2> QED
    BY <2>1, <2>2 DEF InboxOK, Inbox
<1>6. CASE Receive(P) /\ ~HandleJoinRequest(P)
  <2>1. PICK R \in {Heard(P), SeenAlive(Heard(P), Received(P).replica_id),
                    Confirmed(Heard(P), Received(P).replica_id)} :
          \E M : rm' = [rm EXCEPT ![P] = M] /\ M.replicas = R
    BY <1>1, <1>5, <1>6, ReceiveMarks
  <2>2. rm'[P].replicas = R
    BY <1>1, <2>1
  <2> QED
    BY <1>3, <1>6, <2>1, <2>2, MarkingRevives DEF List
<1>7. CASE \/ ReceiverElection(P) \/ ReceiverWakes(P) \/ BeginCheck(P)
           \/ CheckerElection(P) \/ CheckerWakes(P) \/ SendHeartbeats(P) \/ Lose(P)
           \/ CallUpdateState(P) \/ CheckPrimary(P)
  <2>1. ~CheckPrimary(P)
    BY DEF CheckPrimary, HoldsNoElection
  <2>2. PICK M : rm' = [rm EXCEPT ![P] = M] /\ M.replicas = rm[P].replicas
    BY <1>1, <1>7, <2>1, ThreadMarks
  <2> QED
    BY <1>1, <2>2 DEF List
<1>8. CASE Start(P)
  BY <1>1, <1>8, BootAlive DEF Start, List
<1>9. CASE Tick
  <2>1. rm'[P] = rm[P] \/ rm'[P].replicas = Aged(rm[P].replicas)
    BY <1>1, <1>9 DEF Tick, Manager
  <2> QED
    BY <1>1, <2>1, MarkingRevives DEF List
<1>10. CASE SendJoinRequest(P) \/ CreateThreads(P)
  BY <1>2, <1>10 DEF SendJoinRequest, CreateThreads
<1> QED
  BY <1>1, <1>2, <1>4, <1>6, <1>7, <1>8, <1>9, <1>10, ReignLasts, OthersKeep
     DEF Next, StartStep, ThreadStep, vars
-------------------------------------------------------------------------------
(* The reign as a whole, whichever servers are running when it begins.      *)

MembersInv ==
  /\ Blank
  /\ FirstReign => HoldsNoElection /\ InboxOK /\ AllAlive(List)

LEMMA MovesInboxOK ==
  ASSUME InboxOK, joins'[PRIMARY_PORT] = 0, NEW d, Moves(Inbox, d, Inbox') PROVE InboxOK'
BY DEF InboxOK, Moves, Alike

LEMMA AskedInboxOK ==
  ASSUME IInv, InboxOK, joins'[PRIMARY_PORT] = 0, NEW s \in Server, Asks(s) PROVE InboxOK'
<1> DEFINE m == Plain("JOIN_REQUEST", s)
           y == Append(Inbox, m)
<1>1. Inbox \in Seq(Message) /\ s # PRIMARY_PORT /\ (Inbox' = y \/ Inbox' = Inbox)
  BY QueueType, ServerAssumption DEF Inbox, Asks
<1>2. m.type = "JOIN_REQUEST" /\ m.replica_id = s
  BY DEF Plain
<1> HIDE DEF m
<1>3. \A i \in DOMAIN y : y[i] = m \/ (i \in DOMAIN Inbox /\ y[i] = Inbox[i])
  BY <1>1
<1> HIDE DEF y
<1> QED
  BY <1>1, <1>2, <1>3 DEF InboxOK

LEMMA OwesNothing ==
  ASSUME IInv, RoleInv, FirstReign', joins[PRIMARY_PORT] = 0, [Next]_vars
  PROVE  joins'[PRIMARY_PORT] = 0
<1> DEFINE P == PRIMARY_PORT
<1>1. P \in Server /\ joins \in [Server -> 0..BURST]
  BY ServerAssumption DEF IInv
<1>2. ASSUME NEW s \in Server, Start(s) PROVE joins'[P] = 0
  BY <1>1, <1>2 DEF Start
<1>3. ASSUME NEW s \in Server, SendJoinRequest(s) PROVE joins'[P] = 0
  <2>1. s # P
    BY <1>3 DEF SendJoinRequest
  <2> QED
    BY <1>1, <1>3, <2>1 DEF SendJoinRequest
<1> QED
  BY <1>1, <1>2, <1>3, JoinsKept

LEMMA MembersNext ==
  ASSUME IInv, RoleInv, MembersInv, [Next]_vars, NeverFull', Lossy = FALSE
  PROVE  MembersInv'
<1> SUFFICES ASSUME FirstReign'
             PROVE  HoldsNoElection' /\ InboxOK' /\ AllAlive(List')
  <2>1. Blank'
    BY BlankNext DEF MembersInv
  <2> QED
    BY <2>1 DEF MembersInv, AllAlive
<1>1. FirstReign /\ HoldsNoElection /\ InboxOK /\ AllAlive(List)
  BY ReignBefore DEF MembersInv
<1>2. HoldsNoElection' /\ AllAlive(List')
  BY <1>1, ReignElection, AliveNext
<1>3. joins'[PRIMARY_PORT] = 0
  BY <1>1, OwesNothing DEF InboxOK
<1>4. InboxOK'
  BY <1>1, <1>3, InboxMoves, MovesInboxOK, AskedInboxOK
<1> QED
  BY <1>2, <1>4

LEMMA MembersInit ==
  ASSUME NEW Up \in SUBSET Server, Begin(Up) PROVE MembersInv
<1> DEFINE P == PRIMARY_PORT
<1>1. P \in Server /\ List = Boot(P).replicas /\ Inbox = <<>> /\ joins[P] = 0
  BY ServerAssumption DEF Begin, List, Inbox
<1>2. AllAlive(List)
  BY <1>1, BootAlive
<1>3. InboxOK
  BY <1>1 DEF InboxOK
<1>4. HoldsNoElection
  BY <1>1 DEF Begin, HoldsNoElection
<1>5. Blank
  BY DEF Begin, Blank
<1> QED
  BY <1>2, <1>3, <1>4, <1>5 DEF MembersInv
-------------------------------------------------------------------------------
(* Who is listed is reached, or still to be heard, where the primary was    *)
(* started first.                                                           *)

\* A server that is down, or has not yet sent all its requests to join.
Excused == {r \in Server : r \notin up \/ joins[r] > 0}

\* A replica that has sent one of them.
Asked == {r \in Server \ {PRIMARY_PORT} : r \in up /\ joins[r] < BURST}

Awaited(R, x, E) ==
  \A r \in Server \ E : R[r].listed =>
    R[r].repl_addr \/ \E i \in DOMAIN x : x[i].replica_id = r

\* Where there is room, who is not listed and asks to join has asked again ...
Repeated(R, x, E) ==
  HasRoom(R) =>
    \A i \in DOMAIN x :
      x[i].type = "JOIN_REQUEST" /\ x[i].replica_id \notin E /\ ~R[x[i].replica_id].listed =>
        \E j \in DOMAIN x : j # i /\ Alike(x[j], x[i])

\* ... and who has asked, and is not listed, still has a request to be read.
Heeded(R, x, A) ==
  HasRoom(R) =>
    \A r \in A : ~R[r].listed =>
      \E i \in DOMAIN x : x[i].type = "JOIN_REQUEST" /\ x[i].replica_id = r

Members(R, x, E, A) == Awaited(R, x, E) /\ Repeated(R, x, E) /\ Heeded(R, x, A)

ReachInv ==
  /\ starts[PRIMARY_PORT] >= 1
  /\ FirstReign => Members(List, Inbox, Excused, Asked)

LEMMA NextQueueType ==
  ASSUME IInv' PROVE queue' \in [Server -> Seq(Message)]
<1>1. queue' \in [Server -> Seq(Credible')] /\ Credible' \subseteq Message
  BY DEF IInv, Sockets, Credible, Message, MessageType, Entry, EXPIRED
<1>2. \A x \in Seq(Credible') : x \in Seq(Message)
  BY <1>1
<1> QED
  BY <1>1, <1>2

LEMMA SameRoom ==
  ASSUME NEW R, NEW L, NoneLost(R, L) PROVE HasRoom(L) <=> HasRoom(R)
<1>1. Listed(L) = Listed(R)
  BY DEF NoneLost, Listed
<1> QED
  BY <1>1 DEF HasRoom

LEMMA MovesKeep ==
  ASSUME NEW R, NEW L, NoneLost(R, L), NEW x \in Seq(Message), NEW q \in Seq(Message),
         NEW d \in {0, 1}, Moves(x, d, q), NEW E, NEW F, E \subseteq F,
         NEW A \in SUBSET Server, NEW B, B \subseteq A, Members(R, x, E, A),
         d = 1 => /\ L[x[1].replica_id].listed => L[x[1].replica_id].repl_addr
                  /\ x[1].type = "JOIN_REQUEST" => R[x[1].replica_id].listed \/ ~HasRoom(R)
  PROVE  Members(L, q, F, B)
<1>1. /\ \A i \in DOMAIN x : i \in Nat /\ i >= 1 /\ x[i].replica_id \in Server
      /\ \A j \in DOMAIN q : j \in Nat /\ j >= 1 /\ q[j].replica_id \in Server
  <2>1. \A i \in DOMAIN x : i \in Nat /\ i >= 1 /\ x[i] \in Message
    OBVIOUS
  <2>2. \A j \in DOMAIN q : j \in Nat /\ j >= 1 /\ q[j] \in Message
    OBVIOUS
  <2> QED
    BY <2>1, <2>2 DEF Message
<1>2. ASSUME NEW r \in Server \ F, L[r].listed, ~L[r].repl_addr
      PROVE  \E j \in DOMAIN q : q[j].replica_id = r
  <2>1. PICK i \in DOMAIN x : x[i].replica_id = r
    BY <1>2 DEF NoneLost, Members, Awaited
  <2>2. i > d
    <3>1. d = 1 => i # 1
      BY <1>2, <2>1
    <3> QED
      BY <1>1, <3>1
  <2> QED
    BY <2>1, <2>2 DEF Moves, Alike
<1>3. ASSUME HasRoom(L), NEW j \in DOMAIN q, q[j].type = "JOIN_REQUEST",
             q[j].replica_id \notin F, ~L[q[j].replica_id].listed
      PROVE  \E k \in DOMAIN q : k # j /\ Alike(q[k], q[j])
  <2>1. CASE j + d \in DOMAIN x /\ Alike(q[j], x[j + d])
    <3>1. /\ x[j + d].type = "JOIN_REQUEST" /\ ~R[x[j + d].replica_id].listed /\ HasRoom(R)
          /\ x[j + d].replica_id \notin E
      BY <1>1, <1>3, <2>1, SameRoom DEF Alike, NoneLost
    <3>2. PICK k \in DOMAIN x : k # j + d /\ Alike(x[k], x[j + d])
      BY <2>1, <3>1 DEF Members, Repeated
    <3>3. d = 1 => k # 1
      BY <3>1, <3>2 DEF Alike
    <3>4. k > d /\ k - d # j
      BY <1>1, <3>2, <3>3
    <3>5. k - d \in DOMAIN q /\ Alike(q[k - d], x[k])
      BY <3>4 DEF Moves
    <3> QED
      BY <2>1, <3>2, <3>4, <3>5 DEF Alike
  <2> QED
    BY <1>3, <2>1 DEF Moves
<1>4. ASSUME HasRoom(L), NEW r \in B, ~L[r].listed
      PROVE  \E j \in DOMAIN q : q[j].type = "JOIN_REQUEST" /\ q[j].replica_id = r
  <2>1. r \in A /\ r \in Server /\ ~R[r].listed /\ HasRoom(R)
    BY <1>4, SameRoom DEF NoneLost
  <2>2. PICK i \in DOMAIN x : x[i].type = "JOIN_REQUEST" /\ x[i].replica_id = r
    BY <2>1 DEF Members, Heeded
  <2>3. i > d
    <3>1. d = 1 => i # 1
      BY <2>1, <2>2
    <3> QED
      BY <1>1, <3>1
  <2> QED
    BY <2>2, <2>3 DEF Moves, Alike
<1> QED
  BY <1>2, <1>3, <1>4 DEF Members, Awaited, Repeated, Heeded

\* The list of the first primary after it has handled a datagram that is not a
\* request to join: the sender, if it is listed, is now reached.
LEMMA HearingReaches ==
  ASSUME IInv, Receive(PRIMARY_PORT), ~HandleJoinRequest(PRIMARY_PORT),
         ~HandleReplicaList(PRIMARY_PORT)
  PROVE  LET r == Received(PRIMARY_PORT).replica_id
         IN  NoneLost(Heard(PRIMARY_PORT), List') /\ (List'[r].listed => List'[r].repl_addr)
<1> DEFINE P == PRIMARY_PORT
           r == Received(P).replica_id
<1>1. P \in Server /\ queue[P] # <<>> /\ rm \in [Server -> Manager]
  BY ServerAssumption, ReceivesSome DEF IInv
<1>2. r \in Server /\ Heard(P) \in [Server -> Entry] /\ rm[P].replicas \in [Server -> Entry]
  BY <1>1, HeardType DEF Manager
<1>3. PICK R \in {Heard(P), SeenAlive(Heard(P), r), Confirmed(Heard(P), r)} :
        \E M : rm' = [rm EXCEPT ![P] = M] /\ M.replicas = R
  BY <1>1, ReceiveMarks
<1>4. rm'[P].replicas = R
  BY <1>1, <1>3
<1>5. NoneLost(Heard(P), R)
  BY <1>2, <1>3, MarkingKeeps
<1>6. Heard(P)[r].listed => Heard(P)[r].repl_addr
  BY <1>2 DEF Heard, Entry
<1> QED
  BY <1>2, <1>4, <1>5, <1>6 DEF NoneLost, List
\* A request to join: one takes its sender into the list, and the next, which
\* is waiting or still to be sent, will tell the address.
LEMMA JoinMembers ==
  ASSUME IInv, RoleInv, FirstReign, HandleJoinRequest(PRIMARY_PORT),
         Moves(Inbox, 1, Inbox'), Inbox' \in Seq(Message),
         NEW E, NEW A \in SUBSET Server, Members(List, Inbox, E, A)
  PROVE  Members(List', Inbox', E, A)
<1> DEFINE P == PRIMARY_PORT
           from == Received(P).replica_id
           R == Heard(P)
<1>1. /\ P \in Server /\ P \in up /\ queue[P] # <<>> /\ rm \in [Server -> Manager]
      /\ queue[P] \in Seq(Message)
  BY ServerAssumption, QueueType DEF HandleJoinRequest, Receives, IInv
<1>2. /\ from \in Server /\ R \in [Server -> Entry] /\ NoneLost(List, R)
      /\ List \in [Server -> Entry]
  BY <1>1, HeardType, HeardKeeps DEF List, Manager
<1>3. 1 \in DOMAIN Inbox /\ Inbox[1] = Received(P) /\ Inbox[1].type = "JOIN_REQUEST"
  <2>1. Received(P).type = "JOIN_REQUEST"
    BY DEF HandleJoinRequest, Receives
  <2> QED
    BY <1>1, <2>1 DEF Received, Inbox
<1>4. rm[P].is_primary
  BY <1>1, LeaderIsPrimary DEF RoleInv, FirstReign
<1>5. R[from].listed => R[from].repl_addr
  BY <1>1, <1>2 DEF Heard, Manager, Entry
<1>6. /\ Awaited(List, Inbox, E) /\ Repeated(List, Inbox, E) /\ Heeded(List, Inbox, A)
      /\ Inbox \in Seq(Message)
  BY <1>1 DEF Members, Inbox
<1>7. ASSUME NEW L, rm' = [rm EXCEPT ![P] = [rm[P] EXCEPT !.replicas = L]] PROVE List' = L
  BY <1>1, <1>7 DEF List, Manager
<1>8. \/ ~R[from].listed /\ ~HasRoom(R) /\ List' = R
      \/ R[from].listed /\ List' = Rejoined(R, from)
      \/ ~R[from].listed /\ HasRoom(R) /\ List' = Enrolled(R, from)
  BY <1>1, <1>4, <1>7, JoinCases
<1> HIDE DEF R
<1>9. CASE ~R[from].listed /\ ~HasRoom(R) /\ List' = R
  <2>1. ~HasRoom(List)
    BY <1>2, <1>9, SameRoom
  <2> HIDE DEF from
  <2> QED
    BY <1>2, <1>3, <1>6, <1>9, <2>1, MovesKeep DEF from
<1>10. CASE R[from].listed /\ List' = Rejoined(R, from)
  <2>1. NoneLost(R, List') /\ NoneLost(List, List')
    BY <1>2, <1>10, MarkingKeeps, NoneLostTrans
  <2>2. List'[from].repl_addr /\ List[from].listed
    BY <1>2, <1>5, <1>10, <2>1 DEF NoneLost
  <2> HIDE DEF from
  <2> QED
    BY <1>3, <1>6, <2>1, <2>2, MovesKeep DEF from
<1>11. CASE ~R[from].listed /\ HasRoom(R) /\ List' = Enrolled(R, from)
  <2>1. HasRoom(List) /\ ~List[from].listed
    BY <1>2, <1>11, SameRoom DEF NoneLost
  <2>2. /\ \A r \in Server : r # from => /\ List'[r].listed = List[r].listed
                                         /\ List[r].repl_addr => List'[r].repl_addr
        /\ List'[from].listed
    BY <1>2, <1>11 DEF Enrolled, NoneLost, FreshEntry
  <2>3. ASSUME from \notin E
        PROVE  \E n \in DOMAIN Inbox : n # 1 /\ Alike(Inbox[n], Inbox[1])
    BY <1>3, <1>6, <2>1, <2>3 DEF Repeated
  <2>4. /\ \A i \in DOMAIN Inbox : i \in Nat /\ i >= 1 /\ Inbox[i].replica_id \in Server
        /\ \A j \in DOMAIN Inbox' : j \in Nat /\ j >= 1 /\ Inbox'[j].replica_id \in Server
    <3>1. \A i \in DOMAIN Inbox : i \in Nat /\ i >= 1 /\ Inbox[i] \in Message
      BY <1>6
    <3>2. \A j \in DOMAIN Inbox' : j \in Nat /\ j >= 1 /\ Inbox'[j] \in Message
      OBVIOUS
    <3> QED
      BY <3>1, <3>2 DEF Message
  <2> HIDE DEF from
  <2>5. ASSUME NEW i \in DOMAIN Inbox, i # 1
        PROVE  i - 1 \in DOMAIN Inbox' /\ Alike(Inbox'[i - 1], Inbox[i])
    BY <2>4, <2>5 DEF Moves
  <2>6. Inbox[1].replica_id = from
    BY <1>3 DEF from
  <2>7. ASSUME NEW r \in Server \ E, List'[r].listed, ~List'[r].repl_addr
        PROVE  \E j \in DOMAIN Inbox' : Inbox'[j].replica_id = r
    <3>1. CASE r = from
      BY <2>3, <2>5, <2>6, <2>7, <3>1 DEF Alike
    <3>2. CASE r # from
      <4>1. PICK i \in DOMAIN Inbox : Inbox[i].replica_id = r
        BY <1>6, <2>2, <2>7, <3>2 DEF Awaited
      <4> QED
        BY <2>5, <2>6, <3>2, <4>1 DEF Alike
    <3> QED
      BY <3>1, <3>2
  <2>8. ASSUME NEW j \in DOMAIN Inbox', Inbox'[j].type = "JOIN_REQUEST",
               Inbox'[j].replica_id \notin E, ~List'[Inbox'[j].replica_id].listed
        PROVE  \E k \in DOMAIN Inbox' : k # j /\ Alike(Inbox'[k], Inbox'[j])
    <3>1. CASE j + 1 \in DOMAIN Inbox /\ Alike(Inbox'[j], Inbox[j + 1])
      <4>1. /\ Inbox[j + 1].type = "JOIN_REQUEST" /\ Inbox[j + 1].replica_id # from
            /\ Inbox[j + 1].replica_id \notin E /\ ~List[Inbox[j + 1].replica_id].listed
        BY <2>2, <2>4, <2>8, <3>1 DEF Alike
      <4>2. PICK k \in DOMAIN Inbox : k # j + 1 /\ Alike(Inbox[k], Inbox[j + 1])
        BY <1>6, <2>1, <3>1, <4>1 DEF Repeated
      <4>3. k # 1 /\ k - 1 # j
        BY <2>4, <2>6, <4>1, <4>2 DEF Alike
      <4> QED
        BY <2>5, <3>1, <4>2, <4>3 DEF Alike
    <3> QED
      BY <2>8, <3>1 DEF Moves
  <2>9. ASSUME NEW r \in A, ~List'[r].listed
        PROVE  \E j \in DOMAIN Inbox' : Inbox'[j].type = "JOIN_REQUEST"
                                         /\ Inbox'[j].replica_id = r
    <3>1. r # from /\ ~List[r].listed
      BY <2>2, <2>9
    <3>2. PICK i \in DOMAIN Inbox : Inbox[i].type = "JOIN_REQUEST" /\ Inbox[i].replica_id = r
      BY <1>6, <2>1, <3>1 DEF Heeded
    <3>3. i # 1
      BY <2>6, <3>1, <3>2
    <3> QED
      BY <2>5, <3>2, <3>3 DEF Alike
  <2> QED
    BY <2>7, <2>8, <2>9 DEF Members, Awaited, Repeated, Heeded
<1> QED
  BY <1>8, <1>9, <1>10, <1>11

\* The sets only change so, unless a request to join is sent.
LEMMA AskingKept ==
  ASSUME IInv, [Next]_vars, ~Start(PRIMARY_PORT), \A s \in Server : ~SendJoinRequest(s)
  PROVE  Excused \subseteq Excused' /\ Asked' \subseteq Asked
<1> SUFFICES ASSUME NEW r \in Server
             PROVE  /\ r \notin up \/ joins[r] > 0 => r \notin up' \/ joins'[r] > 0
                    /\ r \in up' /\ joins'[r] < BURST /\ r # PRIMARY_PORT =>
                         r \in up /\ joins[r] < BURST
  BY DEF Excused, Asked
<1>1. joins \in [Server -> 0..BURST] /\ joins[r] \in Nat /\ BURST \in Nat /\ BURST > 0
  BY BoundAssumption DEF IInv
<1>2. ASSUME NEW s \in Server, Start(s)
      PROVE  /\ r \notin up \/ joins[r] > 0 => r \notin up' \/ joins'[r] > 0
             /\ r \in up' /\ joins'[r] < BURST /\ r # PRIMARY_PORT =>
                  r \in up /\ joins[r] < BURST
  <2>1. CASE r = s
    <3>1. r \notin up /\ joins'[r] = BURST
      BY <1>1, <1>2, <2>1 DEF Start
    <3> QED
      BY <1>1, <3>1
  <2>2. CASE r # s
    <3>1. joins'[r] = joins[r] /\ (r \in up' <=> r \in up)
      BY <1>1, <1>2, <2>2 DEF Start
    <3> QED
      BY <3>1
  <2> QED
    BY <2>1, <2>2
<1>3. CASE ~\E s \in Server : Start(s)
  <2>1. up' \subseteq up
    BY <1>3, Claiming
  <2>2. CASE UNCHANGED joins
    BY <2>1, <2>2
  <2>3. ASSUME NEW s \in Server, Crash(s), joins' = [joins EXCEPT ![s] = 0]
        PROVE  /\ r \notin up \/ joins[r] > 0 => r \notin up' \/ joins'[r] > 0
               /\ r \in up' /\ joins'[r] < BURST => r \in up /\ joins[r] < BURST
    <3>1. s \notin up' /\ (r # s => joins'[r] = joins[r])
      BY <1>1, <2>3 DEF Crash
    <3> QED
      BY <2>1, <3>1
  <2> QED
    BY <1>3, <2>2, <2>3, JoinsKept
<1> QED
  BY <1>2, <1>3

\* The last request of a replica to join comes behind another one, unless that
\* one has been read.
LEMMA AskingReaches ==
  ASSUME IInv, NEW s \in Server, Asks(s), PRIMARY_PORT \in up, BURST >= 2,
         Members(List, Inbox, Excused, Asked)
  PROVE  Members(List', Inbox', Excused', Asked')
<1> DEFINE P == PRIMARY_PORT
           m == Plain("JOIN_REQUEST", s)
           n == Len(Inbox) + 1
<1>1. /\ s \in up /\ s # P /\ joins[s] > 0 /\ UNCHANGED <<up, rm>>
      /\ joins' = [joins EXCEPT ![s] = @ - 1] /\ Inbox' = Append(Inbox, m)
  BY DEF Asks, SendJoinRequest
<1>2. Inbox \in Seq(Message) /\ List' = List
  BY <1>1, QueueType, ServerAssumption DEF Inbox, List
<1>3. m.type = "JOIN_REQUEST" /\ m.replica_id = s
  BY DEF Plain
<1> HIDE DEF m
<1>4. /\ n \in DOMAIN Inbox' /\ n \notin DOMAIN Inbox /\ Inbox'[n] = m
      /\ \A i \in DOMAIN Inbox : i \in DOMAIN Inbox' /\ Inbox'[i] = Inbox[i]
      /\ \A i \in DOMAIN Inbox' : i = n \/ i \in DOMAIN Inbox
  BY <1>1, <1>2
<1> HIDE DEF n
<1>5. joins \in [Server -> 0..BURST] /\ joins[s] \in Nat /\ BURST \in Nat
  BY BoundAssumption DEF IInv
<1>6. /\ \A r \in Server \ {s} : joins'[r] = joins[r]
      /\ joins'[s] = joins[s] - 1
  BY <1>1, <1>5
<1>7. /\ \A r \in Server : r \in Excused => r = s \/ r \in Excused'
      /\ \A r \in Server : r \in Asked' => r = s \/ r \in Asked
      /\ s \in Excused' \/ s \in Asked
  BY <1>1, <1>5, <1>6 DEF Excused, Asked
<1>8. Awaited(List, Inbox, Excused) /\ Repeated(List, Inbox, Excused) /\ Heeded(List, Inbox, Asked)
  BY DEF Members
<1>9. Awaited(List, Inbox', Excused')
  <2> SUFFICES ASSUME NEW r \in Server \ Excused', List[r].listed, ~List[r].repl_addr
               PROVE  \E i \in DOMAIN Inbox' : Inbox'[i].replica_id = r
    BY DEF Awaited
  <2>1. CASE r = s
    BY <1>3, <1>4, <2>1
  <2>2. CASE r # s
    BY <1>4, <1>7, <1>8, <2>2 DEF Awaited
  <2> QED
    BY <2>1, <2>2
<1>10. Repeated(List, Inbox', Excused')
  <2> SUFFICES ASSUME HasRoom(List), NEW i \in DOMAIN Inbox', Inbox'[i].type = "JOIN_REQUEST",
                      Inbox'[i].replica_id \notin Excused', ~List[Inbox'[i].replica_id].listed
               PROVE  \E j \in DOMAIN Inbox' : j # i /\ Alike(Inbox'[j], Inbox'[i])
    BY DEF Repeated
  <2>1. CASE Inbox'[i].replica_id = s
    <3>1. s \in Asked
      BY <1>7, <2>1
    <3>2. PICK k \in DOMAIN Inbox : Inbox[k].type = "JOIN_REQUEST" /\ Inbox[k].replica_id = s
      BY <1>8, <2>1, <3>1 DEF Heeded
    <3>3. \A j \in {k, n} : j \in DOMAIN Inbox' /\ Alike(Inbox'[j], Inbox'[i])
      BY <1>3, <1>4, <2>1, <3>2 DEF Alike
    <3>4. k # n
      BY <1>4, <3>2
    <3> QED
      BY <3>3, <3>4
  <2>2. CASE Inbox'[i].replica_id # s
    <3>1. i \in DOMAIN Inbox /\ Inbox'[i] = Inbox[i]
      BY <1>3, <1>4, <2>2
    <3>2. Inbox[i].replica_id \in Server
      <4>1. Inbox[i] \in Message
        BY <1>2, <3>1
      <4> QED
        BY <4>1 DEF Message
    <3>3. Inbox[i].replica_id \notin Excused
      BY <1>7, <2>2, <3>1, <3>2
    <3>4. PICK j \in DOMAIN Inbox : j # i /\ Alike(Inbox[j], Inbox[i])
      BY <1>8, <3>1, <3>3 DEF Repeated
    <3> QED
      BY <1>4, <3>1, <3>4
  <2> QED
    BY <2>1, <2>2
<1>11. Heeded(List, Inbox', Asked')
  <2> SUFFICES ASSUME HasRoom(List), NEW r \in Asked', ~List[r].listed
               PROVE  \E i \in DOMAIN Inbox' :
                        Inbox'[i].type = "JOIN_REQUEST" /\ Inbox'[i].replica_id = r
    BY DEF Heeded
  <2>1. CASE r = s
    BY <1>3, <1>4, <2>1
  <2>2. CASE r # s
    <3>1. r \in Asked
      BY <1>7, <2>2 DEF Asked
    <3> QED
      BY <1>4, <1>8, <3>1 DEF Heeded
  <2> QED
    BY <2>1, <2>2
<1> QED
  BY <1>2, <1>9, <1>10, <1>11 DEF Members

LEMMA ReachNext ==
  ASSUME IInv, IInv', RoleInv, MembersInv, ReachInv, [Next]_vars, NeverFull', Lossy = FALSE,
         BURST >= 2
  PROVE  ReachInv'
<1> DEFINE P == PRIMARY_PORT
<1>1. P \in Server /\ starts \in [Server -> Nat] /\ starts[P] >= 1
  BY ServerAssumption DEF IInv, ReachInv
<1>2. starts'[P] >= 1
  <2>1. ASSUME NEW s \in Server, Start(s) PROVE starts'[P] >= 1
    BY <1>1, <2>1 DEF Start
  <2>2. CASE ~\E s \in Server : Start(s)
    BY <1>1, <2>2, Claiming
  <2> QED
    BY <2>1, <2>2
<1> SUFFICES ASSUME FirstReign'
             PROVE  Members(List', Inbox', Excused', Asked')
  BY <1>2 DEF ReachInv, Members, Awaited, Repeated, Heeded, HasRoom, Listed, Alike
<1>3. FirstReign /\ InboxOK /\ P \in up
  <2>1. FirstReign /\ InboxOK
    BY ReignBefore DEF MembersInv
  <2> QED
    BY <1>1, <2>1 DEF FirstReign
<1>4. Members(List, Inbox, Excused, Asked)
  BY <1>3 DEF ReachInv
<1>5. ~Start(P) /\ ~Crash(P)
  BY <1>3, ReignLasts DEF Start
<1>6. Inbox \in Seq(Message) /\ Inbox' \in Seq(Message)
  BY <1>1, QueueType, NextQueueType DEF Inbox
<1>7. CASE \E s \in Server : SendJoinRequest(s)
  BY <1>3, <1>4, <1>7, JoinerAsks, AskingReaches
<1>8. CASE \A s \in Server : ~SendJoinRequest(s)
  <2>1. Excused \subseteq Excused' /\ Asked' \subseteq Asked /\ Asked \in SUBSET Server
    BY <1>5, <1>8, AskingKept DEF Asked
  <2>2. \/ ~Receive(P) /\ Moves(Inbox, 0, Inbox')
        \/ Receive(P) /\ Inbox # <<>> /\ Moves(Inbox, 1, Inbox')
    BY <1>3, <1>8, InboxMoves DEF Asks
  <2>3. CASE HandleJoinRequest(P)
    <3>1. Moves(Inbox, 1, Inbox')
      BY <2>2, <2>3 DEF Receive
    <3>2. Members(List', Inbox', Excused, Asked)
      BY <1>3, <1>4, <1>6, <2>1, <2>3, <3>1, JoinMembers
    <3> QED
      BY <2>1, <3>2 DEF Members, Awaited, Repeated, Heeded
  <2>4. ~HandleReplicaList(P)
    <3>1. ASSUME HandleReplicaList(P) PROVE FALSE
      <4>1. queue[P] # <<>> /\ Received(P).type = "REPLICA_LIST_UPDATE"
        BY <3>1 DEF HandleReplicaList, Receives
      <4>2. 1 \in DOMAIN Inbox /\ Received(P) = Inbox[1]
        BY <1>6, <4>1 DEF Received, Inbox
      <4> QED
        BY <1>3, <4>1, <4>2 DEF InboxOK
    <3> QED
      BY <3>1
  <2>5. CASE ~HandleJoinRequest(P)
    <3>1. NoneLost(List, List')
      BY <1>1, <1>5, <2>4, <2>5, EntriesKept DEF List
    <3>2. CASE ~Receive(P)
      <4>1. Moves(Inbox, 0, Inbox')
        BY <2>2, <3>2
      <4> QED
        BY <1>4, <1>6, <2>1, <3>1, <4>1, MovesKeep
    <3>3. CASE Receive(P)
      <4>1. Inbox # <<>> /\ Inbox[1] = Received(P) /\ Moves(Inbox, 1, Inbox')
        BY <1>6, <2>2, <3>3 DEF Received, Inbox
      <4>2. Received(P).type # "JOIN_REQUEST"
        BY <2>5, <3>3 DEF Receive, HandleHeartbeat, HandleReplicaList, HandleStateUpdate,
           HandleStateAck, HandleStartElection, HandleElectionResponse, HandleVictory,
           HandleVictoryAck, Receives
      <4>3. List'[Inbox[1].replica_id].listed => List'[Inbox[1].replica_id].repl_addr
        BY <2>4, <2>5, <3>3, <4>1, HearingReaches
      <4> QED
        BY <1>4, <1>6, <2>1, <3>1, <4>1, <4>2, <4>3, MovesKeep
    <3> QED
      BY <3>2, <3>3
  <2> QED
    BY <2>3, <2>5
<1> QED
  BY <1>7, <1>8

LEMMA ReachInit ==
  ASSUME PrimaryFirst PROVE RoleInv /\ ReachInv
<1> DEFINE P == PRIMARY_PORT
<1>1. /\ P \in Server /\ up = {P} /\ claimed = {P} /\ starts[P] = 1
      /\ rm[P] = Boot(P) /\ Inbox = <<>> /\ joins = [s \in Server |-> 0]
  BY ServerAssumption DEF PrimaryFirst, Begin, Inbox
<1>2. NoLeader \notin Server /\ leader = [s \in Server |-> IF s = P THEN P ELSE NoLeader]
  <2>1. Boot(P).primary_id = P
    BY DEF Boot
  <2> QED
    BY <1>1, <2>1, ServerAssumption DEF leader, NoLeader
<1>3. RoleInv
  BY <1>1, <1>2 DEF RoleInv
<1>4. Members(List, Inbox, Excused, Asked)
  <2>1. List = Boot(P).replicas /\ DOMAIN Inbox = {} /\ Asked = {}
    BY <1>1 DEF List, Asked
  <2>2. Awaited(List, Inbox, Excused)
    BY <1>1, <2>1 DEF Awaited, Boot, NoReplicas, NoEntry, FreshEntry
  <2> QED
    BY <2>1, <2>2 DEF Members, Repeated, Heeded
<1> QED
  BY <1>1, <1>3, <1>4 DEF ReachInv

LEMMA ReachedOrAwaited ==
  ASSUME ReachInv PROVE ListedIsReached
<1> SUFFICES ASSUME claimed = {PRIMARY_PORT}, starts[PRIMARY_PORT] = 1, PRIMARY_PORT \in up,
                    NEW r \in up \cap Listed(List), ~(joins[r] > 0)
             PROVE  \/ List[r].repl_addr
                    \/ \E i \in DOMAIN Inbox : Inbox[i].replica_id = r
  BY DEF ListedIsReached, List, Inbox
<1>1. Awaited(List, Inbox, Excused)
  BY DEF ReachInv, FirstReign, Sole, Members
<1>2. r \in Server \ Excused
  BY DEF Excused, Listed
<1> QED
  BY <1>1, <1>2 DEF Awaited, Listed

\* Where the primary is started first, every replica sends its request to join
\* at least twice, and no datagram is lost, neither on the way nor because a
\* buffer was full, every running replica that the only primary lists can be
\* reached by it, or is still to be heard: for any number of servers, however
\* the copies are spread out, and however often replicas die between them and
\* join again.
THEOREM ListedAreReached ==
  ASSUME Lossy = FALSE, BURST >= 2
  PROVE  PrimaryFirst /\ [][Next]_vars /\ []NeverFull => []ListedIsReached
<1> DEFINE Inv == IInv /\ RoleInv /\ MembersInv /\ ReachInv
<1>1. PrimaryFirst => Inv
  BY BeginIInv, MembersInit, ReachInit, ServerAssumption DEF PrimaryFirst
<1>2. Inv /\ NeverFull' /\ [Next]_vars => Inv'
  BY NextIInv, RoleNext, MembersNext, ReachNext
<1>3. Inv => ListedIsReached
  BY ReachedOrAwaited
<1> HIDE DEF Inv
<1> QED
  BY <1>1, <1>2, <1>3, PTL

\* The same with the clients and the request threads.
THEOREM ServiceListedAreReached ==
  ASSUME AnyCall, Lossy = FALSE, BURST >= 2
  PROVE  PrimaryFirstSpec /\ []NeverFull => []ListedIsReached
<1> DEFINE Inv == ServiceInv /\ RoleInv /\ MembersInv /\ ReachInv
<1>1. PrimaryFirst /\ NoRequests => Inv
  BY ServiceInvBegin, MembersInit, ReachInit, ServerAssumption DEF PrimaryFirst
<1>2. Inv /\ NeverFull' /\ [ServiceNext]_allvars => Inv'
  <2> SUFFICES ASSUME Inv, NeverFull', [ServiceNext]_allvars PROVE Inv'
    OBVIOUS
  <2>1. ServiceInv' /\ [Next]_vars /\ IInv /\ IInv'
    BY ServiceInvNext DEF ServiceInv
  <2> QED
    BY <2>1, RoleNext, MembersNext, ReachNext
<1>3. Inv => ListedIsReached
  BY ReachedOrAwaited
<1> HIDE DEF Inv
<1> QED
  BY <1>1, <1>2, <1>3, PTL DEF PrimaryFirstSpec, PrimaryFirstInit
-------------------------------------------------------------------------------
(* The steps other than a call of update_state, in the reign of the first   *)
(* primary: none of them sends a state or a victory, and a manager takes    *)
(* over no state but that of a STATE_UPDATE.                                *)

NoCall ==
  \/ \E s \in Server : StartStep(s) \/ Crash(s) \/ ThreadStep(s) \/ Lose(s)
  \/ Tick

QuietTypes == MessageType \ {"VICTORY", "STATE_UPDATE"}

NobodyDeclares ==
  \A s \in Server : ReceiverElection(s) \/ CheckerElection(s) => ~DeclareVictory(s)

NoVictory == \A d \in Server : \A i \in DOMAIN queue[d] : queue[d][i].type # "VICTORY"

LEMMA ReignUncontested ==
  ASSUME FirstReign', HoldsNoElection PROVE NobodyDeclares
<1> SUFFICES ASSUME NEW s \in Server, ReceiverElection(s) \/ CheckerElection(s),
                    DeclareVictory(s)
             PROVE  FALSE
  BY DEF NobodyDeclares
<1>1. s = PRIMARY_PORT
  BY DEF DeclareVictory, FirstReign, Sole
<1> QED
  BY <1>1 DEF HoldsNoElection, ReceiverElection, CheckerElection

LEMMA CalmSends ==
  ASSUME IInv, NEW s \in Server, StartStep(s) \/ ThreadStep(s), NobodyDeclares
  PROVE  \/ Receive(s) /\ Sends(s, Rest(s), QuietTypes)
         \/ ~Receive(s) /\ Sends(s, queue, QuietTypes)
<1>1. /\ {"REPLICA_LIST_UPDATE"} \subseteq QuietTypes /\ AnswerTypes \subseteq QuietTypes
      /\ {"JOIN_REQUEST"} \subseteq QuietTypes /\ {"HEARTBEAT"} \subseteq QuietTypes
      /\ {"START_ELECTION"} \subseteq QuietTypes
  BY DEF QuietTypes, AnswerTypes, MessageType
<1>2. queue \in [Server -> Seq(Message)]
  BY QueueType
<1>3. ASSUME Receive(s) PROVE Sends(s, Rest(s), QuietTypes)
  <2>1. CASE HandleJoinRequest(s)
    BY <1>1, <2>1, JoinSends, SendsMore
  <2>2. CASE ~HandleJoinRequest(s)
    BY <1>1, <1>3, <2>2, AnswerSends, SendsMore
  <2> QED
    BY <2>1, <2>2
<1>4. CASE StartStep(s)
  <2>1. CASE SendJoinRequest(s)
    BY <1>1, <1>3, <2>1, JoinerSends, SendsMore
  <2>2. CASE Start(s) \/ CreateThreads(s)
    <3>1. queue' = queue
      BY <2>2 DEF Start, CreateThreads
    <3>2. Sends(s, queue, QuietTypes)
      BY <1>2, <3>1, SendsNothing
    <3> QED
      BY <1>3, <3>2
  <2> QED
    BY <1>4, <2>1, <2>2 DEF StartStep
<1>5. CASE ReceiverWakes(s) \/ BeginCheck(s) \/ CheckPrimary(s) \/ CheckerWakes(s)
  <2>1. queue' = queue
    BY <1>5 DEF ReceiverWakes, BeginCheck, CheckPrimary, CheckerWakes
  <2>2. Sends(s, queue, QuietTypes)
    BY <1>2, <2>1, SendsNothing
  <2> QED
    BY <1>3, <2>2
<1>6. CASE ReceiverElection(s) \/ CheckerElection(s)
  <2>1. SkipElection(s) \/ CallElection(s)
    BY <1>6 DEF ReceiverElection, CheckerElection, ElectionStep, NobodyDeclares
  <2>2. CASE SkipElection(s)
    BY <1>2, <1>3, <2>2, SendsNothing DEF SkipElection
  <2>3. CASE CallElection(s)
    <3>1. "START_ELECTION" \in MessageType
      BY DEF MessageType
    <3>2. Addressed(rm[s].replicas, Higher(s)) \in SUBSET Server
      BY DEF Addressed, Listed
    <3>3. Sends(s, queue, {"START_ELECTION"})
      BY <2>3, <3>1, <3>2, SendsPlain DEF CallElection
    <3>4. Sends(s, queue, QuietTypes)
      BY <1>1, <3>3, SendsMore
    <3> QED
      BY <1>3, <3>4
  <2> QED
    BY <2>1, <2>2, <2>3
<1>7. CASE SendHeartbeats(s)
  <2>1. PICK D : D \in SUBSET Server /\ queue' = Deliver(queue, To(D, <<Plain("HEARTBEAT", s)>>))
    <3>1. AliveReplicas(s) \in SUBSET Server
      BY DEF AliveReplicas, Addressed
    <3> QED
      BY <1>7, <3>1 DEF SendHeartbeats
  <2>2. "HEARTBEAT" \in MessageType
    BY DEF MessageType
  <2>3. Sends(s, queue, {"HEARTBEAT"})
    BY <2>1, <2>2, SendsPlain
  <2>4. Sends(s, queue, QuietTypes)
    BY <1>1, <2>3, SendsMore
  <2> QED
    BY <1>3, <2>4
<1> QED
  BY <1>3, <1>4, <1>5, <1>6, <1>7 DEF ThreadStep

LEMMA CalmSocket ==
  ASSUME IInv, Lossy = FALSE, NeverFull', NoCall, NobodyDeclares, NEW d \in Server
  PROVE  \/ Crash(d) /\ queue'[d] = <<>>
         \/ /\ Receive(d) /\ queue[d] # <<>>
            /\ \E s \in Server : \E y \in Seq(Own(s, QuietTypes)) : queue'[d] = Tail(queue[d]) \o y
         \/ /\ ~Receive(d)
            /\ \E s \in Server : \E y \in Seq(Own(s, QuietTypes)) : queue'[d] = queue[d] \o y
         \/ ~Receive(d) /\ Tick
<1>1. queue \in [Server -> Seq(Message)]
  BY QueueType
<1>2. \A s \in Server : ~Lose(s)
  BY DEF Lose
<1>3. ASSUME Receive(d)
      PROVE  /\ queue[d] # <<>>
             /\ \E y \in Seq(Own(d, QuietTypes)) : queue'[d] = Tail(queue[d]) \o y
  <2>1. Sends(d, Rest(d), QuietTypes) /\ queue[d] # <<>>
    BY <1>3, CalmSends, ReceivesSome DEF ThreadStep
  <2>2. Rest(d) \in [Server -> Seq(Message)] /\ Rest(d)[d] = Tail(queue[d])
    BY <1>1, <2>1, QueueType DEF Rest
  <2>3. \E y \in Seq(Own(d, QuietTypes)) : queue'[d] = Rest(d)[d] \o y
    BY <2>1, <2>2, SendsArrive
  <2> QED
    BY <2>1, <2>2, <2>3
<1>4. ASSUME NEW s \in Server, StartStep(s) \/ ThreadStep(s), ~Receive(d)
      PROVE  \E y \in Seq(Own(s, QuietTypes)) : queue'[d] = queue[d] \o y
  <2>1. CASE ~Receive(s)
    BY <1>1, <1>4, <2>1, CalmSends, SendsArrive
  <2>2. CASE Receive(s)
    <3>1. Sends(s, Rest(s), QuietTypes) /\ queue[s] # <<>> /\ s # d
      BY <1>4, <2>2, CalmSends, ReceivesSome
    <3>2. Rest(s) \in [Server -> Seq(Message)] /\ Rest(s)[d] = queue[d]
      BY <1>1, <3>1, QueueType DEF Rest
    <3>3. \E y \in Seq(Own(s, QuietTypes)) : queue'[d] = Rest(s)[d] \o y
      BY <3>1, <3>2, SendsArrive
    <3> QED
      BY <3>2, <3>3
  <2> QED
    BY <2>1, <2>2
<1>5. ASSUME NEW s \in Server, Crash(s), ~Receive(d)
      PROVE  \/ Crash(d) /\ queue'[d] = <<>>
             \/ \E y \in Seq(Own(s, QuietTypes)) : queue'[d] = queue[d] \o y
  <2>1. s # d => queue'[d] = queue[d]
    BY <1>1, <1>5 DEF Crash
  <2>2. s = d => queue'[d] = <<>>
    BY <1>1, <1>5 DEF Crash
  <2>3. <<>> \in Seq(Own(s, QuietTypes)) /\ queue[d] \o <<>> = queue[d]
    BY <1>1, ConcatProperties
  <2> QED
    BY <1>5, <2>1, <2>2, <2>3
<1> QED
  BY <1>2, <1>3, <1>4, <1>5 DEF NoCall

\* What a manager holds besides its list.
SameState(M, N) ==
  /\ N.current_sum = M.current_sum /\ N.last_seqn = M.last_seqn
  /\ N.received_initial_state = M.received_initial_state /\ N.primary_id = M.primary_id

LEMMA StateKept ==
  ASSUME IInv, Blank, NoVictory, NoCall, NobodyDeclares, NEW r \in Server,
         ~Crash(r), ~HandleStateUpdate(r)
  PROVE  SameState(rm[r], rm'[r])
<1>1. rm \in [Server -> Manager] /\ rm[r] \in Manager
  BY DEF IInv
<1>2. CASE rm'[r] = rm[r]
  BY <1>2 DEF SameState
<1>3. ASSUME NEW M, rm' = [rm EXCEPT ![r] = M], SameState(rm[r], M)
      PROVE  SameState(rm[r], rm'[r])
  BY <1>1, <1>3
<1>4. \A R : SameState(rm[r], [rm[r] EXCEPT !.replicas = R])
  BY <1>1 DEF SameState, Manager
<1>5. CASE StartStep(r)
  BY <1>1, <1>2, <1>5 DEF StartStep, Start, SendJoinRequest, CreateThreads, Blank
<1>6. CASE HandleJoinRequest(r)
  <2>1. PICK R : rm' = [rm EXCEPT ![r] = [rm[r] EXCEPT !.replicas = R]]
    BY <1>6 DEF HandleJoinRequest
  <2> QED
    BY <1>3, <1>4, <2>1
<1>7. CASE HandleReplicaList(r)
  <2>1. PICK R : rm' = [rm EXCEPT ![r] = [rm[r] EXCEPT !.replicas = R]]
    BY <1>7 DEF HandleReplicaList
  <2> QED
    BY <1>3, <1>4, <2>1
<1>8. CASE \/ HandleHeartbeat(r) \/ HandleStateAck(r) \/ HandleStartElection(r)
           \/ HandleVictoryAck(r)
  <2>1. PICK R : rm' = [rm EXCEPT ![r] = [rm[r] EXCEPT !.replicas = R]]
    BY <1>8 DEF HandleHeartbeat, HandleStateAck, HandleStartElection, HandleVictoryAck
  <2> QED
    BY <1>3, <1>4, <2>1
<1>9. CASE HandleElectionResponse(r)
  <2>1. \/ \E R : rm' = [rm EXCEPT ![r] = [rm[r] EXCEPT !.replicas = R]]
        \/ \E R : rm' = [rm EXCEPT ![r] = [rm[r] EXCEPT !.election_in_progress = FALSE,
                                                         !.replicas = R]]
    BY <1>9 DEF HandleElectionResponse
  <2>2. \A R : SameState(rm[r], [rm[r] EXCEPT !.election_in_progress = FALSE, !.replicas = R])
    BY <1>1 DEF SameState, Manager
  <2> QED
    BY <1>3, <1>4, <2>1, <2>2
<1>10. ASSUME HandleVictory(r) PROVE FALSE
  <2>1. queue[r] # <<>> /\ Received(r).type = "VICTORY" /\ queue[r] \in Seq(Message)
    BY <1>10, QueueType DEF HandleVictory, Receives
  <2>2. 1 \in DOMAIN queue[r] /\ Received(r) = queue[r][1]
    BY <2>1 DEF Received
  <2> QED
    BY <2>1, <2>2 DEF NoVictory
<1>11. CASE ReceiverElection(r) \/ CheckerElection(r)
  <2>1. SkipElection(r) \/ CallElection(r)
    BY <1>11 DEF ReceiverElection, CheckerElection, ElectionStep, NobodyDeclares
  <2>2. CASE SkipElection(r)
    BY <1>2, <2>2 DEF SkipElection
  <2>3. CASE CallElection(r)
    <3>1. rm' = [rm EXCEPT ![r] = [rm[r] EXCEPT !.election_in_progress = TRUE]]
      BY <2>3 DEF CallElection
    <3>2. SameState(rm[r], [rm[r] EXCEPT !.election_in_progress = TRUE])
      BY <1>1 DEF SameState, Manager
    <3> QED
      BY <1>3, <3>1, <3>2
  <2> QED
    BY <2>1, <2>2, <2>3
<1>12. CASE CheckPrimary(r)
  <2> DEFINE R == [rm[r].replicas EXCEPT ![rm[r].primary_id] = [@ EXCEPT !.is_alive = FALSE]]
  <2>1. UNCHANGED rm \/ rm' = [rm EXCEPT ![r] = [rm[r] EXCEPT !.replicas = R]]
    BY <1>12 DEF CheckPrimary
  <2> HIDE DEF R
  <2> QED
    BY <1>2, <1>3, <1>4, <2>1
<1>13. CASE ReceiverWakes(r) \/ BeginCheck(r) \/ CheckerWakes(r) \/ SendHeartbeats(r) \/ Lose(r)
  BY <1>2, <1>13 DEF ReceiverWakes, BeginCheck, CheckerWakes, SendHeartbeats, Lose
<1>14. CASE Tick
  <2>1. rm'[r] = rm[r] \/ rm'[r] = [rm[r] EXCEPT !.replicas = Aged(rm[r].replicas)]
    BY <1>14 DEF Tick
  <2> QED
    BY <1>2, <1>4, <2>1
<1>15. ASSUME NEW s \in Server, s # r,
              StartStep(s) \/ Crash(s) \/ ThreadStep(s) \/ Lose(s)
       PROVE  SameState(rm[r], rm'[r])
  BY <1>2, <1>15, OthersKeep
<1>16. ASSUME ThreadStep(r) PROVE SameState(rm[r], rm'[r])
  BY <1>6, <1>7, <1>8, <1>9, <1>10, <1>11, <1>12, <1>13, <1>16 DEF ThreadStep, Receive
<1> QED
  BY <1>5, <1>13, <1>14, <1>15, <1>16 DEF NoCall

\* The first primary takes over nobody's state.
LEMMA FirstStateKept ==
  ASSUME IInv, RoleInv, ForeignInv, Blank, NoVictory, NoCall, NobodyDeclares, FirstReign,
         FirstReign'
  PROVE  SameState(rm[PRIMARY_PORT], rm'[PRIMARY_PORT])
<1> DEFINE P == PRIMARY_PORT
<1>1. P \in Server /\ rm \in [Server -> Manager] /\ rm[P] \in Manager
  BY ServerAssumption DEF IInv
<1>2. CASE HandleStateUpdate(P)
  <2>1. P \in up /\ queue[P] # <<>> /\ Received(P).type = "STATE_UPDATE"
    BY <1>2 DEF HandleStateUpdate, Receives
  <2>2. queue[P] \in Seq(Foreign(P))
    BY <1>1 DEF ForeignInv
  <2>3. Received(P) \in Foreign(P)
    BY <2>1, <2>2, HeadTailProperties DEF Received
  <2>4. Received(P).replica_id # rm[P].primary_id
    BY <1>1, <2>1, <2>3 DEF Foreign, RoleInv, FirstReign, leader
  <2>5. rm' = [rm EXCEPT ![P] = [rm[P] EXCEPT !.replicas = Heard(P)]]
    BY <1>2, <2>4 DEF HandleStateUpdate
  <2> QED
    BY <1>1, <2>5 DEF SameState, Manager
<1> QED
  BY <1>1, <1>2, StateKept, ReignLasts
-------------------------------------------------------------------------------
(* A replica follows the first primary: what it holds, and the updates it   *)
(* has still to read, lead to the primary's state.                          *)

Upd(x) == {i \in DOMAIN x : x[i].type = "STATE_UPDATE"}

Same(a, b) == a.current_sum = b.current_sum /\ a.last_seqn = b.last_seqn

\* M is a replica's manager, x its socket, F the manager of the primary.
InStep(M, x, F) ==
  /\ M.last_seqn <= F.last_seqn
  /\ \A i \in Upd(x) : M.last_seqn <= x[i].last_seqn /\ x[i].last_seqn <= F.last_seqn
  /\ \A i, j \in Upd(x) : i < j => x[i].last_seqn <= x[j].last_seqn
  /\ \A i \in Upd(x) : (\A j \in Upd(x) : j <= i) => Same(x[i], F)
  /\ Upd(x) = {} /\ M.received_initial_state => Same(M, F)

\* The states and victories of y are those of x behind the first k datagrams.
Carries(x, k, y) ==
  /\ \A j \in DOMAIN y : y[j].type \in {"VICTORY", "STATE_UPDATE"} =>
       /\ j + k \in DOMAIN x /\ Alike(y[j], x[j + k])
       /\ Same(y[j], x[j + k])
  /\ \A i \in Upd(x) : i > k => i - k \in Upd(y)

\* M2 is M, or M with the state of the first of the k datagrams taken from x.
Takes(M, x, k, M2) ==
  /\ k = 0 \/ 1 \notin Upd(x) =>
       Same(M2, M) /\ M2.received_initial_state = M.received_initial_state
  /\ k = 1 /\ 1 \in Upd(x) => Same(M2, x[1])

LEMMA CarriedInStep ==
  ASSUME NEW M, NEW F, NEW M2, NEW F2, M.last_seqn \in Int, F.last_seqn \in Int,
         NEW x \in Seq(Message), NEW y \in Seq(Message), NEW k \in {0, 1},
         Carries(x, k, y), InStep(M, x, F), Same(F2, F), Takes(M, x, k, M2)
  PROVE  InStep(M2, y, F2)
<1>1. /\ \A i \in Upd(x) : i \in Nat /\ i >= 1 /\ x[i].last_seqn \in Int
      /\ \A j \in Upd(y) : j \in Nat /\ j >= 1
  <2>1. \A i \in DOMAIN x : i \in Nat /\ i >= 1 /\ x[i] \in Message
    OBVIOUS
  <2>2. \A j \in DOMAIN y : j \in Nat /\ j >= 1
    OBVIOUS
  <2> QED
    BY <2>1, <2>2 DEF Upd, Message
<1>2. \A j \in Upd(y) : j + k \in Upd(x) /\ Same(y[j], x[j + k])
  BY DEF Carries, Upd, Alike
<1>3. \A i \in Upd(x) : i > k => i - k \in Upd(y)
  BY DEF Carries
<1>4. M2.last_seqn \in Int /\ M2.last_seqn <= F.last_seqn
  BY <1>1 DEF InStep, Same, Takes
<1>5. \A j \in Upd(y) : M2.last_seqn <= x[j + k].last_seqn
  <2> SUFFICES ASSUME NEW j \in Upd(y) PROVE M2.last_seqn <= x[j + k].last_seqn
    OBVIOUS
  <2>1. j + k \in Upd(x)
    BY <1>2
  <2>2. CASE k = 0 \/ 1 \notin Upd(x)
    BY <2>1, <2>2 DEF InStep, Same, Takes
  <2>3. CASE k = 1 /\ 1 \in Upd(x)
    <3>1. 1 < j + k
      BY <1>1, <2>3
    <3> QED
      BY <2>1, <2>3, <3>1 DEF InStep, Same, Takes
  <2> QED
    BY <2>2, <2>3
<1>6. ASSUME NEW i \in Upd(y), NEW j \in Upd(y), i < j
      PROVE  y[i].last_seqn <= y[j].last_seqn
  <2>1. i + k < j + k /\ i + k \in Upd(x) /\ j + k \in Upd(x)
    BY <1>1, <1>2, <1>6
  <2> QED
    BY <1>2, <2>1 DEF InStep, Same
<1>7. ASSUME NEW i \in Upd(y), \A j \in Upd(y) : j <= i
      PROVE  Same(y[i], F2)
  <2>1. ASSUME NEW j \in Upd(x) PROVE j <= i + k
    <3>1. j > k => j - k <= i
      BY <1>3, <1>7
    <3> QED
      BY <1>1, <3>1
  <2> QED
    BY <1>2, <2>1 DEF InStep, Same
<1>8. ASSUME Upd(y) = {}, M2.received_initial_state PROVE Same(M2, F2)
  <2>1. \A j \in Upd(x) : j <= k
    BY <1>1, <1>3, <1>8
  <2>2. CASE k = 0 \/ 1 \notin Upd(x)
    <3>1. Upd(x) = {}
      BY <1>1, <2>1, <2>2
    <3> QED
      BY <1>8, <2>2, <3>1 DEF InStep, Same, Takes
  <2>3. CASE k = 1 /\ 1 \in Upd(x)
    BY <2>1, <2>3 DEF InStep, Same, Takes
  <2> QED
    BY <2>2, <2>3
<1>9. \A j \in Upd(y) : M2.last_seqn <= y[j].last_seqn /\ y[j].last_seqn <= F2.last_seqn
  BY <1>2, <1>5 DEF InStep, Same
<1> QED
  BY <1>4, <1>6, <1>7, <1>8, <1>9 DEF InStep, Same

\* The primary's next state, as the last datagram.
LEMMA UpdateInStep ==
  ASSUME NEW M, NEW F, NEW F2, M.last_seqn \in Int, F.last_seqn \in Int,
         NEW x \in Seq(Message), NEW m \in Message, InStep(M, x, F),
         m.type = "STATE_UPDATE", Same(F2, m), F.last_seqn < m.last_seqn
  PROVE  InStep(M, Append(x, m), F2)
<1> DEFINE y == Append(x, m)
           n == Len(x) + 1
<1>1. /\ m.last_seqn \in Int /\ n \in Nat /\ n \in DOMAIN y /\ y[n] = m
      /\ DOMAIN y = DOMAIN x \cup {n} /\ \A i \in DOMAIN x : i \in Nat /\ i < n /\ y[i] = x[i]
  BY DEF Message
<1>2. \A i \in Upd(x) : x[i].last_seqn \in Int
  <2>1. \A i \in DOMAIN x : x[i] \in Message
    OBVIOUS
  <2> QED
    BY <2>1 DEF Upd, Message
<1> HIDE DEF y, n
<1>3. Upd(y) = Upd(x) \cup {n} /\ \A i \in Upd(x) : i < n /\ n \in Int /\ i \in Int /\ y[i] = x[i]
  BY <1>1 DEF Upd
<1>4. M.last_seqn <= F2.last_seqn
  BY <1>1 DEF InStep, Same
<1>5. \A i \in Upd(y) : M.last_seqn <= y[i].last_seqn /\ y[i].last_seqn <= F2.last_seqn
  BY <1>1, <1>2, <1>3 DEF InStep, Same
<1>6. \A i, j \in Upd(y) : i < j => y[i].last_seqn <= y[j].last_seqn
  <2> SUFFICES ASSUME NEW i \in Upd(y), NEW j \in Upd(y), i < j
               PROVE  y[i].last_seqn <= y[j].last_seqn
    OBVIOUS
  <2>1. i \in Upd(x)
    BY <1>1, <1>3
  <2>2. CASE j = n
    BY <1>1, <1>2, <1>3, <2>1, <2>2 DEF InStep
  <2>3. CASE j \in Upd(x)
    BY <1>3, <2>1, <2>3 DEF InStep
  <2> QED
    BY <1>3, <2>2, <2>3
<1>7. ASSUME NEW i \in Upd(y), \A j \in Upd(y) : j <= i PROVE Same(y[i], F2)
  <2>1. i = n
    BY <1>1, <1>3, <1>7
  <2> QED
    BY <1>1, <2>1 DEF Same
<1>8. Upd(y) # {}
  BY <1>3
<1> QED
  BY <1>4, <1>5, <1>6, <1>7, <1>8 DEF InStep, y

\* A replica that has no state and none to read.
LEMMA UninformedInStep ==
  ASSUME NEW M, NEW F, NEW x, Upd(x) = {}, ~M.received_initial_state,
         M.last_seqn <= F.last_seqn
  PROVE  InStep(M, x, F)
BY DEF InStep

LEMMA BehindCarries ==
  ASSUME NEW x \in Seq(Message), NEW s, NEW y \in Seq(Own(s, QuietTypes))
  PROVE  /\ Carries(x, 0, x \o y)
         /\ x # <<>> => Carries(x, 1, Tail(x) \o y)
<1>1. y \in Seq(Message)
  BY OwnSeq
<1>2. \A j \in DOMAIN y : y[j].type \notin {"VICTORY", "STATE_UPDATE"}
  <2>1. \A j \in DOMAIN y : y[j] \in Own(s, QuietTypes)
    OBVIOUS
  <2> QED
    BY <2>1 DEF Own, QuietTypes
<1>3. ASSUME NEW t \in Seq(Message)
      PROVE  /\ \A i \in DOMAIN t : i \in DOMAIN (t \o y) /\ (t \o y)[i] = t[i]
             /\ \A j \in DOMAIN (t \o y) : j \in DOMAIN t \/
                  (t \o y)[j].type \notin {"VICTORY", "STATE_UPDATE"}
  <2>1. \A j \in DOMAIN (t \o y) : j \in DOMAIN t \/ (j - Len(t) \in DOMAIN y
                                                     /\ (t \o y)[j] = y[j - Len(t)])
    BY <1>1, ConcatProperties
  <2>2. \A i \in DOMAIN t : i \in DOMAIN (t \o y) /\ (t \o y)[i] = t[i]
    BY <1>1, ConcatProperties
  <2> QED
    BY <1>2, <2>1, <2>2
<1>4. Carries(x, 0, x \o y)
  <2> DEFINE q == x \o y
  <2>1. \A i \in DOMAIN x : i \in DOMAIN q /\ q[i] = x[i] /\ i + 0 = i /\ i - 0 = i
    BY <1>3
  <2>2. \A j \in DOMAIN q : j \in DOMAIN x \/ q[j].type \notin {"VICTORY", "STATE_UPDATE"}
    BY <1>3
  <2> HIDE DEF q
  <2>3. Carries(x, 0, q)
    BY <2>1, <2>2 DEF Carries, Upd, Same, Alike
  <2> QED
    BY <2>3 DEF q
<1>5. ASSUME x # <<>> PROVE Carries(x, 1, Tail(x) \o y)
  <2> DEFINE t == Tail(x)
             q == t \o y
  <2>1. /\ t \in Seq(Message) /\ DOMAIN t = 1..(Len(x) - 1) /\ DOMAIN x = 1..Len(x)
        /\ Len(x) \in Nat /\ \A i \in 1..(Len(x) - 1) : t[i] = x[i + 1]
    <3>1. t \in Seq(Message) /\ Len(t) = Len(x) - 1 /\ \A i \in 1..Len(t) : t[i] = x[i + 1]
      BY <1>5, HeadTailProperties
    <3>2. DOMAIN t = 1..Len(t)
      BY <3>1
    <3> QED
      BY <3>1, <3>2
  <2> HIDE DEF t
  <2>2. \A i \in DOMAIN t : i \in DOMAIN q /\ q[i] = t[i] /\ i + 1 \in DOMAIN x /\ t[i] = x[i + 1]
    BY <1>3, <2>1
  <2>3. \A j \in DOMAIN q : j \in DOMAIN t \/ q[j].type \notin {"VICTORY", "STATE_UPDATE"}
    BY <1>3, <2>1
  <2>4. \A i \in DOMAIN x : i > 1 => i - 1 \in DOMAIN t /\ (i - 1) + 1 = i
    BY <2>1
  <2> HIDE DEF q
  <2>5. Carries(x, 1, q)
    BY <2>2, <2>3, <2>4 DEF Carries, Upd, Same, Alike
  <2> QED
    BY <2>5 DEF q, t
<1> QED
  BY <1>4, <1>5

\* What one step other than a call leaves of the states sent to a server.
LEMMA CalmCarries ==
  ASSUME IInv, Lossy = FALSE, NeverFull', NoCall, NobodyDeclares, NEW d \in Server
  PROVE  \/ Crash(d) /\ queue'[d] = <<>>
         \/ Receive(d) /\ queue[d] # <<>> /\ Carries(queue[d], 1, queue'[d])
         \/ ~Receive(d) /\ Carries(queue[d], 0, queue'[d])
<1>1. queue[d] \in Seq(Message)
  BY QueueType
<1>2. ASSUME Tick PROVE Carries(queue[d], 0, queue'[d])
  <2>1. \A i \in DOMAIN queue[d] : i + 0 = i /\ i - 0 = i
    BY <1>1
  <2> QED
    BY <1>2, <2>1, TickSocket DEF Carries, Upd, Alike, Same
<1>3. ASSUME NEW s \in Server, NEW y \in Seq(Own(s, QuietTypes))
      PROVE  /\ queue'[d] = queue[d] \o y => Carries(queue[d], 0, queue'[d])
             /\ queue[d] # <<>> /\ queue'[d] = Tail(queue[d]) \o y => Carries(queue[d], 1, queue'[d])
  BY <1>1, BehindCarries
<1> QED
  BY <1>2, <1>3, CalmSocket
-------------------------------------------------------------------------------
(* The replicas' state in the reign of the first primary.                   *)

\* States come from the first primary only, and nobody follows another.
OneSource ==
  /\ \A d \in Server : \A i \in DOMAIN queue[d] :
       /\ queue[d][i].type # "VICTORY"
       /\ queue[d][i].type = "STATE_UPDATE" => queue[d][i].replica_id = PRIMARY_PORT
  /\ \A s \in Server : rm[s].primary_id = PRIMARY_PORT

\* r has a state or will have one when it has read its socket.
Informed(r) == rm[r].received_initial_state \/ Upd(queue[r]) # {}

Follower(r) ==
  /\ InStep(rm[r], queue[r], rm[PRIMARY_PORT])
  /\ Informed(r) => List[r].listed /\ List[r].repl_addr

SyncInv ==
  FirstReign => /\ rm[PRIMARY_PORT].last_seqn >= 0
                /\ OneSource
                /\ \A r \in Server \ {PRIMARY_PORT} : Follower(r)

LEMMA BootState ==
  \A s \in Server : /\ Boot(s).primary_id = PRIMARY_PORT /\ Boot(s).last_seqn = 0
                    /\ Boot(s).received_initial_state => s = PRIMARY_PORT
BY DEF Boot

LEMMA SyncInit == ASSUME Init PROVE SyncInv
<1>1. /\ PRIMARY_PORT \in Server
      /\ \A s \in Server : queue[s] = <<>> /\ DOMAIN queue[s] = {} /\ rm[s] = Boot(s)
  BY ServerAssumption DEF Init, Begin
<1>2. \A s \in Server : /\ rm[s].primary_id = PRIMARY_PORT /\ rm[s].last_seqn = 0
                        /\ rm[s].received_initial_state => s = PRIMARY_PORT
  BY <1>1, BootState
<1>3. OneSource
  BY <1>1, <1>2 DEF OneSource
<1>4. ASSUME NEW r \in Server \ {PRIMARY_PORT} PROVE Follower(r)
  <2>1. Upd(queue[r]) = {} /\ ~rm[r].received_initial_state
    BY <1>1, <1>2 DEF Upd
  <2>2. rm[r].last_seqn <= rm[PRIMARY_PORT].last_seqn
    BY <1>1, <1>2
  <2> QED
    BY <2>1, <2>2, UninformedInStep DEF Follower, Informed
<1>5. rm[PRIMARY_PORT].last_seqn >= 0
  BY <1>1, <1>2
<1> QED
  BY <1>3, <1>4, <1>5 DEF SyncInv

\* Whom the first primary reaches it goes on reaching.
LEMMA ReachedStay ==
  ASSUME IInv, Blank, InboxOK, [Next]_vars, ~Crash(PRIMARY_PORT), NEW r \in Server,
         List[r].listed, List[r].repl_addr
  PROVE  List'[r].listed /\ List'[r].repl_addr
<1> DEFINE P == PRIMARY_PORT
<1>1. P \in Server /\ rm \in [Server -> Manager] /\ List \in [Server -> Entry]
  BY ServerAssumption DEF IInv, Manager, List
<1>2. ASSUME NoneLost(List, List') PROVE List'[r].listed /\ List'[r].repl_addr
  BY <1>2 DEF NoneLost
<1>3. CASE Start(P)
  <2>1. rm'[P] = rm[P]
    BY <1>1, <1>3 DEF Start, Blank
  <2> QED
    BY <2>1 DEF List
<1>4. CASE HandleJoinRequest(P)
  <2> DEFINE from == Received(P).replica_id
             R == Heard(P)
  <2>1. queue[P] # <<>>
    BY <1>4 DEF HandleJoinRequest, Receives
  <2>2. from \in Server /\ R \in [Server -> Entry] /\ NoneLost(List, R)
    BY <1>1, <2>1, HeardType, HeardKeeps DEF List
  <2>3. PICK L : /\ rm' = [rm EXCEPT ![P].replicas = L]
                 /\ L \in {R, Rejoined(R, from)} \/ (~R[from].listed /\ L = Enrolled(R, from))
    BY <1>1, <1>4, JoinCases
  <2>4. List' = L
    BY <1>1, <2>3 DEF Manager, List
  <2>5. R[r].listed /\ R[r].repl_addr
    BY <2>2 DEF NoneLost
  <2> HIDE DEF R, from
  <2>6. CASE L = R
    BY <2>4, <2>5, <2>6
  <2>7. CASE L = Rejoined(R, from)
    BY <2>2, <2>4, <2>5, <2>7, MarkingKeeps DEF NoneLost
  <2>8. CASE ~R[from].listed /\ L = Enrolled(R, from)
    BY <2>2, <2>4, <2>5, <2>8 DEF Enrolled
  <2> QED
    BY <2>3, <2>6, <2>7, <2>8
<1>5. ~HandleReplicaList(P)
  <2>1. ASSUME HandleReplicaList(P) PROVE FALSE
    <3>1. queue[P] # <<>> /\ Received(P).type = "REPLICA_LIST_UPDATE" /\ queue[P] \in Seq(Message)
      BY <1>1, <2>1, QueueType DEF HandleReplicaList, Receives
    <3>2. 1 \in DOMAIN Inbox /\ Received(P) = Inbox[1]
      BY <3>1 DEF Received, Inbox
    <3> QED
      BY <3>1, <3>2 DEF InboxOK
  <2> QED
    BY <2>1
<1>6. CASE ~Start(P) /\ ~HandleJoinRequest(P)
  BY <1>1, <1>2, <1>5, <1>6, EntriesKept DEF List
<1> QED
  BY <1>3, <1>4, <1>6

\* How a replica takes a state over, while it follows the first primary.
LEMMA UpdateTaken ==
  ASSUME IInv, OneSource, NEW r \in Server, HandleStateUpdate(r),
         NEW F, InStep(rm[r], queue[r], F)
  PROVE  /\ 1 \in Upd(queue[r]) /\ Same(rm'[r], queue[r][1])
         /\ rm'[r].primary_id = rm[r].primary_id
<1>1. rm \in [Server -> Manager] /\ rm[r] \in Manager /\ queue[r] \in Seq(Message)
  BY QueueType DEF IInv
<1>2. queue[r] # <<>> /\ Received(r).type = "STATE_UPDATE"
  BY DEF HandleStateUpdate, Receives
<1>3. 1 \in DOMAIN queue[r] /\ Received(r) = queue[r][1] /\ Received(r) \in Message
  BY <1>1, <1>2 DEF Received
<1>4. 1 \in Upd(queue[r]) /\ Received(r).replica_id = rm[r].primary_id
  BY <1>2, <1>3 DEF Upd, OneSource
<1>5. NotOlder(Received(r), r)
  <2>1. rm[r].last_seqn \in Int /\ Received(r).last_seqn \in Int
    BY <1>1, <1>3 DEF Manager, Message
  <2>2. rm[r].last_seqn <= Received(r).last_seqn
    BY <1>3, <1>4 DEF InStep
  <2> QED
    BY <2>1, <2>2 DEF NotOlder
<1> DEFINE M == [rm[r] EXCEPT !.replicas = Heard(r)]
           N == [Adopts(Received(r), M) EXCEPT !.election_in_progress = FALSE,
                                               !.received_initial_state = TRUE]
<1>6. rm' = [rm EXCEPT ![r] = N]
  BY <1>4, <1>5 DEF HandleStateUpdate
<1>7. N.primary_id = rm[r].primary_id /\ Same(N, Received(r))
  BY <1>1 DEF Adopts, Manager, Same
<1> HIDE DEF M, N
<1> QED
  BY <1>1, <1>3, <1>4, <1>6, <1>7

LEMMA SourceAtCalm ==
  ASSUME IInv, Blank, OneSource, NoCall, NobodyDeclares, NeverFull', Lossy = FALSE,
         NEW F, \A r \in Server \ {PRIMARY_PORT} : InStep(rm[r], queue[r], F),
         SameState(rm[PRIMARY_PORT], rm'[PRIMARY_PORT])
  PROVE  OneSource'
<1>1. NoVictory /\ PRIMARY_PORT \in Server /\ rm \in [Server -> Manager]
  BY ServerAssumption DEF OneSource, NoVictory, IInv
<1>2. ASSUME NEW d \in Server, NEW i \in DOMAIN queue'[d]
      PROVE  /\ queue'[d][i].type # "VICTORY"
             /\ queue'[d][i].type = "STATE_UPDATE" => queue'[d][i].replica_id = PRIMARY_PORT
  <2>1. ASSUME NEW k, Carries(queue[d], k, queue'[d])
        PROVE  /\ queue'[d][i].type # "VICTORY"
               /\ queue'[d][i].type = "STATE_UPDATE" => queue'[d][i].replica_id = PRIMARY_PORT
    <3>1. queue'[d][i].type \in {"VICTORY", "STATE_UPDATE"} =>
            i + k \in DOMAIN queue[d] /\ Alike(queue'[d][i], queue[d][i + k])
      BY <2>1 DEF Carries
    <3> QED
      BY <3>1 DEF OneSource, Alike
  <2>2. queue'[d] # <<>>
    BY <1>2
  <2> QED
    BY <2>1, <2>2, CalmCarries
<1>3. ASSUME NEW s \in Server PROVE rm'[s].primary_id = PRIMARY_PORT
  <2>1. CASE s = PRIMARY_PORT
    BY <1>1, <2>1 DEF SameState, OneSource
  <2>2. CASE Crash(s)
    BY <1>1, <2>2, BootState DEF Crash
  <2>3. CASE HandleStateUpdate(s) /\ s # PRIMARY_PORT
    BY <2>3, UpdateTaken DEF OneSource
  <2>4. CASE ~Crash(s) /\ ~HandleStateUpdate(s)
    BY <1>1, <2>4, StateKept DEF SameState, OneSource
  <2> QED
    BY <2>1, <2>2, <2>3, <2>4
<1> QED
  BY <1>2, <1>3 DEF OneSource

\* F is the state the replicas are led to.
LEMMA InStepAtCalm ==
  ASSUME IInv, IInv', Blank, OneSource, NoCall, NobodyDeclares, NeverFull', Lossy = FALSE,
         NEW F, NEW F2, F.last_seqn \in Int, 0 <= F.last_seqn, Same(F2, F),
         NEW r \in Server \ {PRIMARY_PORT}, InStep(rm[r], queue[r], F)
  PROVE  InStep(rm'[r], queue'[r], F2) /\ (Informed(r)' => Informed(r))
<1>1. /\ NoVictory /\ rm \in [Server -> Manager] /\ rm[r].last_seqn \in Int
      /\ queue[r] \in Seq(Message) /\ queue'[r] \in Seq(Message)
  BY QueueType, NextQueueType DEF IInv, OneSource, NoVictory, Manager
<1>2. CASE queue'[r] = <<>> /\ Crash(r)
  <2>1. Upd(queue'[r]) = {}
    BY <1>2 DEF Upd
  <2>2. rm'[r] = Boot(r)
    BY <1>1, <1>2 DEF Crash
  <2>3. ~rm'[r].received_initial_state /\ rm'[r].last_seqn = 0
    BY <2>2, BootState
  <2>4. rm'[r].last_seqn <= F2.last_seqn
    BY <2>3 DEF Same
  <2> QED
    BY <2>1, <2>3, <2>4, UninformedInStep DEF Informed
<1>3. ASSUME NEW k \in {0, 1}, Carries(queue[r], k, queue'[r]),
             k = 0 \/ 1 \notin Upd(queue[r]) => SameState(rm[r], rm'[r]),
             k = 1 /\ 1 \in Upd(queue[r]) => Same(rm'[r], queue[r][1])
      PROVE  InStep(rm'[r], queue'[r], F2) /\ (Informed(r)' => Informed(r))
  <2>1. InStep(rm'[r], queue'[r], F2)
    <3>1. Takes(rm[r], queue[r], k, rm'[r])
      BY <1>3 DEF SameState, Same, Takes
    <3> QED
      BY <1>1, <1>3, <3>1, CarriedInStep
  <2>2. Informed(r)' => Informed(r)
    <3>1. Upd(queue'[r]) # {} => Upd(queue[r]) # {}
      BY <1>3 DEF Carries, Upd, Alike
    <3> QED
      BY <1>3, <3>1 DEF Informed, SameState
  <2> QED
    BY <2>1, <2>2
<1>4. /\ Carries(queue[r], 0, queue'[r]) /\ SameState(rm[r], rm'[r]) =>
           InStep(rm'[r], queue'[r], F2) /\ (Informed(r)' => Informed(r))
      /\ /\ Carries(queue[r], 1, queue'[r])
         /\ 1 \notin Upd(queue[r]) => SameState(rm[r], rm'[r])
         /\ 1 \in Upd(queue[r]) => Same(rm'[r], queue[r][1])
         => InStep(rm'[r], queue'[r], F2) /\ (Informed(r)' => Informed(r))
  BY <1>3
<1>5. CASE HandleStateUpdate(r)
  <2>1. 1 \in Upd(queue[r]) /\ Same(rm'[r], queue[r][1])
    BY <1>5, UpdateTaken
  <2>2. Receive(r)
    BY <1>5 DEF Receive
  <2> QED
    BY <1>2, <1>4, <2>1, <2>2, CalmCarries
<1>6. CASE ~HandleStateUpdate(r) /\ ~Crash(r)
  <2>1. SameState(rm[r], rm'[r])
    BY <1>1, <1>6, StateKept
  <2>2. CASE ~Receive(r)
    BY <1>4, <1>6, <2>1, <2>2, CalmCarries
  <2>3. CASE Receive(r)
    <3>1. queue[r] # <<>> /\ Received(r).type # "STATE_UPDATE"
      BY <1>6, <2>3 DEF Receive, HandleHeartbeat, HandleJoinRequest, HandleReplicaList,
         HandleStateAck, HandleStartElection, HandleElectionResponse, HandleVictory,
         HandleVictoryAck, Receives
    <3>2. 1 \notin Upd(queue[r])
      BY <1>1, <3>1 DEF Received, Upd
    <3> QED
      BY <1>4, <1>6, <2>1, <2>3, <3>2, CalmCarries
  <2> QED
    BY <2>2, <2>3
<1>7. CASE Crash(r)
  <2>1. queue'[r] = <<>>
    <3>1. queue \in [Server -> Seq(Message)]
      BY QueueType
    <3> QED
      BY <1>7, <3>1 DEF Crash
  <2> QED
    BY <1>2, <1>7, <2>1
<1> QED
  BY <1>5, <1>6, <1>7

LEMMA FollowerAtCalm ==
  ASSUME IInv, IInv', Blank, InboxOK, OneSource, NoCall, NobodyDeclares, NeverFull',
         Lossy = FALSE, ~Crash(PRIMARY_PORT), SameState(rm[PRIMARY_PORT], rm'[PRIMARY_PORT]),
         0 <= rm[PRIMARY_PORT].last_seqn, NEW r \in Server \ {PRIMARY_PORT}, Follower(r)
  PROVE  Follower(r)'
<1> DEFINE P == PRIMARY_PORT
<1>1. [Next]_vars /\ rm[P].last_seqn \in Int
  BY ServerAssumption DEF NoCall, Next, IInv, Manager
<1>2. Same(rm'[P], rm[P])
  BY DEF SameState, Same
<1>3. InStep(rm'[r], queue'[r], rm'[P]) /\ (Informed(r)' => Informed(r))
  BY <1>1, <1>2, InStepAtCalm DEF Follower
<1>4. Informed(r) => List'[r].listed /\ List'[r].repl_addr
  BY <1>1, ReachedStay DEF Follower
<1> QED
  BY <1>3, <1>4 DEF Follower

LEMMA SyncAtCalm ==
  ASSUME IInv, RoleInv, ForeignInv, MembersInv, SyncInv, NoCall, NeverFull', Lossy = FALSE
  PROVE  SyncInv'
<1> SUFFICES ASSUME FirstReign'
             PROVE  /\ rm'[PRIMARY_PORT].last_seqn >= 0
                    /\ OneSource'
                    /\ \A r \in Server \ {PRIMARY_PORT} : Follower(r)'
  BY DEF SyncInv
<1>1. [Next]_vars /\ FirstReign /\ ~Crash(PRIMARY_PORT) /\ IInv'
  <2>1. [Next]_vars
    BY DEF NoCall, Next
  <2> QED
    BY <2>1, ReignBefore, ReignLasts, NextIInv
<1>2. HoldsNoElection /\ InboxOK /\ Blank /\ NobodyDeclares
  BY <1>1, ReignUncontested DEF MembersInv
<1>3. /\ rm[PRIMARY_PORT].last_seqn >= 0 /\ OneSource
      /\ \A r \in Server \ {PRIMARY_PORT} : Follower(r)
  BY <1>1 DEF SyncInv
<1>4. NoVictory
  BY <1>3 DEF OneSource, NoVictory
<1>5. SameState(rm[PRIMARY_PORT], rm'[PRIMARY_PORT])
  BY <1>1, <1>2, <1>4, FirstStateKept
<1>6. OneSource'
  <2>1. \A r \in Server \ {PRIMARY_PORT} : InStep(rm[r], queue[r], rm[PRIMARY_PORT])
    BY <1>3 DEF Follower
  <2> QED
    BY <1>2, <1>3, <1>5, <2>1, SourceAtCalm
<1>7. 0 <= rm[PRIMARY_PORT].last_seqn /\ rm'[PRIMARY_PORT].last_seqn >= 0
  <2>1. rm[PRIMARY_PORT].last_seqn \in Int
    BY ServerAssumption DEF IInv, Manager
  <2> QED
    BY <1>3, <1>5, <2>1 DEF SameState
<1> QED
  BY <1>1, <1>2, <1>3, <1>5, <1>6, <1>7, FollowerAtCalm
-------------------------------------------------------------------------------
(* The call of update_state.  With one client the requests to the first     *)
(* primary are numbered beyond the state it holds, so that none of its      *)
(* updates is taken for an old one.                                         *)

\* n numbers a request that the first primary has still to carry out, or the
\* next one of a client.
Pending(n) ==
  \/ Holds(PRIMARY_PORT) /\ n = service[PRIMARY_PORT].request.seqn
  \/ \E j \in DOMAIN requests[PRIMARY_PORT] : n = requests[PRIMARY_PORT][j].seqn
  \/ \E c \in Client : n = client[c].seqn

Beyond == FirstReign => \A n \in Nat : Pending(n) => rm[PRIMARY_PORT].last_seqn < n

\* What update_state does when the first primary is the only one: it stores
\* the state and sends it to every running replica that it reaches.
LEMMA UpdateSent ==
  ASSUME AnyCall, SoleInv, MembersInv, FirstReign', NeverFull', NEW s \in Server, Update(s)
  PROVE  /\ s = PRIMARY_PORT /\ FirstReign
         /\ \E m \in Message :
              /\ m.type = "STATE_UPDATE" /\ m.replica_id = PRIMARY_PORT
              /\ m.last_seqn = service[s].request.seqn
              /\ rm' = [rm EXCEPT ![s] = [rm[s] EXCEPT !.current_sum = m.current_sum,
                                                       !.last_seqn = m.last_seqn]]
              /\ \A d \in Server :
                   queue'[d] = IF d \in up /\ d \in AliveReplicas(s)
                               THEN Append(queue[d], m) ELSE queue[d]
<1> DEFINE P == PRIMARY_PORT
           q == service[s].request
           sum == service[s].sum + q.value
           m == [Plain("STATE_UPDATE", s) EXCEPT !.current_sum = sum, !.last_seqn = q.seqn]
<1>1. IInv /\ RoleInv /\ ServiceTypeOK /\ SumInv /\ [Next]_vars
  <2>1. [ServiceNext]_allvars
    BY DEF ServiceNext, RequestStep
  <2> QED
    BY <2>1, StepImplements DEF SoleInv, ServiceInv
<1>2. FirstReign
  BY <1>1, ReignBefore
<1>3. s \in up /\ service[s].at = "update" /\ UpdateState(s, sum, q.seqn)
  BY DEF Update, CallWith
<1>4. s = P
  BY <1>1, <1>2, <1>3 DEF SumInv, BusyHasClaimed, Busy, FirstReign, Sole
<1>5. rm[s].is_primary
  BY <1>1, <1>2, <1>3, <1>4, LeaderIsPrimary DEF RoleInv, FirstReign
<1>6. sum \in Int /\ q.seqn \in Int
  <2>1. service[s] \in Working
    BY <1>1, <1>3 DEF ServiceTypeOK, Idle
  <2>2. q \in Request /\ service[s].sum \in Int
    BY <2>1 DEF Working
  <2> QED
    BY <2>2 DEF Request
<1>7. m \in Message /\ m.type = "STATE_UPDATE" /\ m.replica_id = s
  <2> HIDE DEF sum, q
  <2> QED
    BY <1>6, EntryType DEF Plain, Message, MessageType
<1>8. m.current_sum = sum /\ m.last_seqn = q.seqn
  BY DEF Plain
<1>9. queue' = Deliver(queue, To(AliveReplicas(s), <<m>>))
  BY <1>3, <1>5 DEF UpdateState
<1>10. rm' = [rm EXCEPT ![s] = [rm[s] EXCEPT !.current_sum = sum, !.last_seqn = q.seqn]]
  BY <1>3 DEF UpdateState
<1>11. queue \in [Server -> Seq(Message)] /\ AliveReplicas(s) \subseteq Server
  BY <1>1, QueueType DEF AliveReplicas, Addressed, Listed
<1> HIDE DEF m, sum, q
<1>12. ASSUME NEW d \in Server
       PROVE  queue'[d] = IF d \in up /\ d \in AliveReplicas(s)
                          THEN Append(queue[d], m) ELSE queue[d]
  <2> DEFINE ms == <<m>>
             D == AliveReplicas(s)
  <2>1. queue[d] \o ms = Append(queue[d], m)
    BY <1>7, <1>11
  <2>2. ms \in Seq(Message)
    BY <1>7
  <2>3. queue' = Deliver(queue, To(D, ms))
    BY <1>9
  <2> HIDE DEF ms, D
  <2>4. Len(Deliver(queue, To(D, ms))[d]) < RCVBUF
    BY <2>3 DEF NeverFull
  <2>5. Deliver(queue, To(D, ms))[d] = IF d \in up /\ d \in D THEN queue[d] \o ms ELSE queue[d]
    BY <1>11, <2>2, <2>4, DeliverAll
  <2> QED
    BY <2>1, <2>3, <2>5 DEF D
<1> QED
  BY <1>2, <1>4, <1>7, <1>8, <1>10, <1>12 DEF q

LEMMA SyncAtUpdate ==
  ASSUME AnyCall, SoleInv, MembersInv, SyncInv, Beyond, NeverFull', NEW s \in Server, Update(s)
  PROVE  SyncInv'
<1> DEFINE P == PRIMARY_PORT
<1> SUFFICES ASSUME FirstReign'
             PROVE  /\ rm'[P].last_seqn >= 0 /\ OneSource'
                    /\ \A r \in Server \ {P} : Follower(r)'
  BY DEF SyncInv
<1>1. s = P /\ FirstReign /\ service[P].at = "update" /\ P \in up /\ P \in Server
  BY UpdateSent, ServerAssumption DEF Update
<1>2. PICK m \in Message :
        /\ m.type = "STATE_UPDATE" /\ m.replica_id = P
        /\ m.last_seqn = service[P].request.seqn
        /\ rm' = [rm EXCEPT ![P] = [rm[P] EXCEPT !.current_sum = m.current_sum,
                                                 !.last_seqn = m.last_seqn]]
        /\ \A d \in Server :
             queue'[d] = IF d \in up /\ d \in AliveReplicas(P)
                         THEN Append(queue[d], m) ELSE queue[d]
  BY <1>1, UpdateSent
<1>3. /\ rm \in [Server -> Manager] /\ queue \in [Server -> Seq(Message)]
      /\ \A r \in Server : rm[r].last_seqn \in Int
      /\ m.last_seqn \in Int
  BY QueueType DEF SoleInv, ServiceInv, IInv, Manager, Message
<1>4. /\ rm[P].last_seqn < m.last_seqn /\ rm[P].last_seqn >= 0 /\ OneSource
      /\ \A r \in Server \ {P} : Follower(r)
  <2>1. Holds(P) /\ Pending(m.last_seqn) /\ m.last_seqn \in Nat
    <3>1. Holds(P)
      BY <1>1 DEF Holds
    <3> QED
      BY <1>1, <1>2, <3>1, PacketTypes DEF Pending, SoleInv, ServiceInv, Request
  <2> QED
    BY <1>1, <2>1 DEF Beyond, SyncInv
<1>5. /\ Same(rm'[P], m) /\ rm'[P].primary_id = rm[P].primary_id /\ List' = List
      /\ \A r \in Server \ {P} : rm'[r] = rm[r]
  <2> DEFINE M == [rm[P] EXCEPT !.current_sum = m.current_sum, !.last_seqn = m.last_seqn]
  <2>1. rm[P] \in Manager
    BY <1>1, <1>3
  <2>2. Same(M, m) /\ M.primary_id = rm[P].primary_id /\ M.replicas = rm[P].replicas
    BY <2>1 DEF Same, Manager
  <2> HIDE DEF M
  <2>3. rm' = [rm EXCEPT ![P] = M]
    BY <1>2 DEF M
  <2> QED
    BY <1>1, <1>3, <2>2, <2>3 DEF List
<1>6. rm'[P].last_seqn >= 0
  BY <1>1, <1>3, <1>4, <1>5 DEF Same
<1>7. OneSource'
  <2>1. ASSUME NEW d \in Server, NEW i \in DOMAIN queue'[d]
        PROVE  queue'[d][i] = m \/ (i \in DOMAIN queue[d] /\ queue'[d][i] = queue[d][i])
    <3>1. queue[d] \in Seq(Message)
      BY <1>3
    <3>2. \A j \in DOMAIN Append(queue[d], m) :
            \/ Append(queue[d], m)[j] = m
            \/ j \in DOMAIN queue[d] /\ Append(queue[d], m)[j] = queue[d][j]
      BY <3>1
    <3>3. queue'[d] = Append(queue[d], m) \/ queue'[d] = queue[d]
      BY <1>2
    <3> QED
      BY <2>1, <3>2, <3>3
  <2> QED
    BY <1>2, <1>4, <1>5, <2>1 DEF OneSource
<1>8. ASSUME NEW r \in Server \ {P} PROVE Follower(r)'
  <2>1. InStep(rm[r], queue[r], rm[P]) /\ (Informed(r) => List[r].listed /\ List[r].repl_addr)
    BY <1>4 DEF Follower
  <2>2. CASE r \in up /\ r \in AliveReplicas(P)
    <3>1. queue'[r] = Append(queue[r], m)
      BY <1>2, <2>2
    <3>2. InStep(rm[r], Append(queue[r], m), rm'[P])
      BY <1>1, <1>2, <1>3, <1>4, <1>5, <2>1, UpdateInStep
    <3>3. List[r].listed /\ List[r].repl_addr
      BY <2>2 DEF AliveReplicas, Addressed, Listed, List
    <3> QED
      BY <1>5, <3>1, <3>2, <3>3 DEF Follower
  <2>3. CASE ~(r \in up /\ r \in AliveReplicas(P))
    <3>1. ~Informed(r)
      <4>1. CASE r \notin up
        <5>1. queue[r] = <<>> /\ rm[r] = Boot(r)
          BY <4>1 DEF MembersInv, Blank
        <5> QED
          BY <5>1, BootState DEF Informed, Upd
      <4>2. CASE r \notin AliveReplicas(P)
        <5>1. List[r].listed /\ List[r].repl_addr => r \in AliveReplicas(P)
          BY <1>1 DEF AliveReplicas, Addressed, Listed, List, MembersInv, AllAlive
        <5> QED
          BY <2>1, <4>2, <5>1
      <4> QED
        BY <2>3, <4>1, <4>2
    <3>2. queue'[r] = queue[r] /\ rm'[r] = rm[r]
      BY <1>2, <1>5, <2>3
    <3>3. rm[r].last_seqn <= rm'[P].last_seqn
      <4>1. rm[r].last_seqn <= rm[P].last_seqn
        BY <2>1 DEF InStep
      <4> QED
        BY <1>1, <1>3, <1>4, <1>5, <4>1 DEF Same
    <3>4. InStep(rm[r], queue[r], rm'[P])
      BY <3>1, <3>3, UninformedInStep DEF Informed
    <3> QED
      BY <3>1, <3>2, <3>4 DEF Follower, Informed
  <2> QED
    BY <2>2, <2>3
<1> QED
  BY <1>6, <1>7, <1>8

\* No step but the next request of a client adds a number, and that one is
\* higher than the client's last.
LEMMA PendingNext ==
  ASSUME ServiceTypeOK, Lossy = FALSE, [ServiceNext]_allvars, NEW n \in Nat, Pending(n)'
  PROVE  Pending(n) \/ \E m \in Nat : Pending(m) /\ m < n
<1> DEFINE P == PRIMARY_PORT
<1>1. /\ P \in Server /\ requests \in [Server -> Seq(Request)] /\ requests[P] \in Seq(Request)
      /\ service \in [Server -> {Idle} \cup Working]
      /\ client \in [Client -> ClientState] /\ \A c \in Client : client[c].seqn \in Nat
  BY ServerAssumption DEF ServiceTypeOK, ClientState
<1>2. ASSUME Holds(P)' => Holds(P) /\ service'[P].request = service[P].request,
             \A j \in DOMAIN requests'[P] : \E i \in DOMAIN requests[P] :
               requests'[P][j] = requests[P][i],
             \A c \in Client : client'[c].seqn = client[c].seqn
      PROVE  Pending(n)
  BY <1>2 DEF Pending
<1>3. CASE UNCHANGED svars
  BY <1>2, <1>3 DEF svars, Holds
<1>4. ASSUME NEW s \in Server, CrashServer(s) PROVE Pending(n)
  <2>1. requests'[P] \in {<<>>, requests[P]} /\ service'[P] \in {Idle, service[P]}
    BY <1>1, <1>4 DEF CrashServer
  <2>2. Holds(P)' => Holds(P) /\ service'[P].request = service[P].request
    BY <2>1 DEF Holds, Idle
  <2> QED
    BY <1>2, <1>4, <2>1, <2>2 DEF CrashServer
<1>5. ASSUME NEW s \in Server, Refuse(s) \/ Update(s) \/ AnswerRequest(s) \/ ReadSum(s)
      PROVE  Pending(n)
  <2>1. UNCHANGED <<requests, client>>
    BY <1>5 DEF Refuse, Update, AnswerRequest, ReadSum
  <2>2. CASE s # P
    <3>1. service'[P] = service[P]
      BY <1>1, <1>5, <2>2 DEF Refuse, Update, AnswerRequest, ReadSum, Answer
    <3> QED
      BY <1>2, <2>1, <3>1 DEF Holds
  <2>3. CASE s = P /\ ReadSum(s)
    <3>1. Holds(P) /\ service[P] \in Working
      BY <1>1, <2>3 DEF Holds, ReadSum, Idle
    <3>2. service'[P].request = service[P].request
      BY <1>1, <2>3, <3>1 DEF ReadSum, Working
    <3> QED
      BY <1>2, <2>1, <3>1, <3>2
  <2>4. CASE s = P /\ ~ReadSum(s)
    <3>1. service'[P] = Idle \/ Update(P)
      BY <1>1, <1>5, <2>4 DEF Refuse, AnswerRequest, Answer
    <3>2. ~Holds(P)'
      <4>1. CASE service'[P] = Idle
        BY <4>1 DEF Holds, Idle
      <4>2. CASE Update(P)
        <5>1. service[P] \in Working /\ service' = [service EXCEPT ![P] = [@ EXCEPT !.at = "answer"]]
          BY <1>1, <4>2 DEF Update, Idle
        <5> QED
          BY <1>1, <5>1 DEF Working, Holds
      <4> QED
        BY <3>1, <4>1, <4>2
    <3> QED
      BY <1>2, <2>1, <3>2
  <2> QED
    BY <1>5, <2>2, <2>3, <2>4
<1>6. ASSUME NEW s \in Server, ReceiveRequest(s) PROVE Pending(n)
  <2>1. CASE s # P
    <3>1. service'[P] = service[P] /\ requests'[P] = requests[P] /\ client' = client
      BY <1>1, <1>6, <2>1 DEF ReceiveRequest
    <3> QED
      BY <1>2, <3>1 DEF Holds
  <2>2. CASE s = P
    <3>1. /\ requests[P] # <<>> /\ requests'[P] = Tail(requests[P]) /\ client' = client
          /\ service'[P].request = Head(requests[P])
      BY <1>1, <1>6, <2>2 DEF ReceiveRequest
    <3>2. \A j \in DOMAIN Tail(requests[P]) : \E i \in DOMAIN requests[P] :
            Tail(requests[P])[j] = requests[P][i]
      <4> SUFFICES ASSUME NEW j \in DOMAIN Tail(requests[P])
                   PROVE  j + 1 \in DOMAIN requests[P] /\ Tail(requests[P])[j] = requests[P][j + 1]
        OBVIOUS
      <4> QED
        BY <1>1, <3>1
    <3>3. 1 \in DOMAIN requests[P] /\ Head(requests[P]) = requests[P][1]
      BY <1>1, <3>1
    <3> QED
      BY <3>1, <3>2, <3>3 DEF Pending
  <2> QED
    BY <2>1, <2>2
<1>7. ASSUME NEW c \in Client, NEW s, NEW number, NEW again, SendTo(c, s, number, again),
             UNCHANGED service
      PROVE  Pending(n) \/ \E m \in Nat : Pending(m) /\ m < n
  <2> DEFINE y == [from |-> c, seqn |-> client[c].seqn, value |-> number]
  <2>1. requests'[P] = requests[P] \/ requests'[P] = Append(requests[P], y)
    BY <1>1, <1>7 DEF SendTo
  <2>2. /\ \A d \in Client : d # c => client'[d].seqn = client[d].seqn
        /\ client'[c].seqn = client[c].seqn + 1
    BY <1>1, <1>7 DEF SendTo
  <2>3. ASSUME NEW j \in DOMAIN requests'[P], n = requests'[P][j].seqn PROVE Pending(n)
    <3>1. y.seqn = client[c].seqn
      OBVIOUS
    <3> HIDE DEF y
    <3>2. \A i \in DOMAIN Append(requests[P], y) :
            \/ Append(requests[P], y)[i] = y
            \/ i \in DOMAIN requests[P] /\ Append(requests[P], y)[i] = requests[P][i]
      BY <1>1
    <3>3. requests'[P][j] = y \/ \E i \in DOMAIN requests[P] : requests'[P][j] = requests[P][i]
      BY <2>1, <2>3, <3>2
    <3> QED
      BY <2>3, <3>1, <3>3 DEF Pending
  <2>4. ASSUME n = client'[c].seqn PROVE Pending(client[c].seqn) /\ client[c].seqn < n
    BY <1>1, <2>2, <2>4 DEF Pending
  <2>5. ASSUME NEW d \in Client, d # c, n = client'[d].seqn PROVE Pending(n)
    BY <2>2, <2>5 DEF Pending
  <2>6. ASSUME Holds(P)', n = service'[P].request.seqn PROVE Pending(n)
    BY <1>7, <2>6 DEF Pending, Holds
  <2> QED
    BY <1>1, <2>3, <2>4, <2>5, <2>6 DEF Pending
<1>8. ASSUME NEW c \in Client, ClientStep(c)
      PROVE  Pending(n) \/ \E m \in Nat : Pending(m) /\ m < n
  <2>1. CASE \E s, number, again : SendTo(c, s, number, again) /\ UNCHANGED service
    BY <1>7, <2>1
  <2>2. CASE UNCHANGED <<requests, service>> /\ \A d \in Client : client'[d].seqn = client[d].seqn
    BY <1>2, <2>2 DEF Holds
  <2>3. CASE Connect(c)
    <3>1. PICK s \in Server : client' = [client EXCEPT ![c].at = "ready", ![c].server = s]
      BY <2>3 DEF Connect
    <3>2. \A d \in Client : client'[d].seqn = client[d].seqn
      BY <1>1, <3>1 DEF ClientState
    <3> QED
      BY <2>2, <2>3, <3>2 DEF Connect
  <2>4. CASE Add(c)
    BY <2>1, <2>4 DEF Add
  <2>5. ASSUME NEW result, NEW from, NEW seqn, Afterwards(c, result, from, seqn)
        PROVE  \A d \in Client : client'[d].seqn = client[d].seqn
    BY <1>1, <2>5 DEF Afterwards, ClientState
  <2>6. CASE TakeReply(c)
    BY <2>2, <2>5, <2>6 DEF TakeReply
  <2>7. CASE TimeOut(c)
    BY <2>2, <2>5, <2>7 DEF TimeOut
  <2>8. CASE Search(c)
    <3>1. CASE \E s \in Server : Discovered(s) /\ SendTo(c, s, client[c].number, TRUE)
      BY <2>1, <2>8, <3>1 DEF Search
    <3>2. CASE client' = [client EXCEPT ![c].at = "ready"] /\ UNCHANGED requests
      <4>1. \A d \in Client : client'[d].seqn = client[d].seqn
        BY <1>1, <3>2 DEF ClientState
      <4> QED
        BY <2>2, <2>8, <3>2, <4>1 DEF Search
    <3> QED
      BY <2>8, <3>1, <3>2 DEF Search
  <2> QED
    BY <1>8, <2>3, <2>4, <2>6, <2>7, <2>8 DEF ClientStep
<1>9. ~LosePacket
  BY DEF LosePacket
<1> QED
  BY <1>3, <1>4, <1>5, <1>6, <1>8, <1>9 DEF ServiceNext, RequestStep, ManagerStep, allvars

\* What is still to be carried out is numbered beyond what is carried out now.
LEMMA Overtaken ==
  ASSUME NEW k, Client = {k}, ServiceTypeOK, InOrder, Update(PRIMARY_PORT), NEW n \in Nat,
         Pending(n)'
  PROVE  service[PRIMARY_PORT].request.seqn < n
<1> DEFINE P == PRIMARY_PORT
           q == service[P].request
<1>1. /\ P \in Server /\ service[P].at = "update" /\ UNCHANGED <<requests, client>>
      /\ service' = [service EXCEPT ![P] = [@ EXCEPT !.at = "answer"]]
  BY ServerAssumption DEF Update
<1>2. service \in [Server -> {Idle} \cup Working] /\ service[P] \in Working
  BY <1>1 DEF ServiceTypeOK, Idle
<1>3. ~Holds(P)' /\ q \in Request
  BY <1>1, <1>2 DEF Holds, Working
<1>4. q.from = k /\ q.seqn \in Nat
  BY <1>3 DEF Request
<1>5. Item(k, 2, 0, q.seqn)
  BY <1>1, <1>4 DEF Item, Busy
<1>6. Item(k, 4, 0, n) \/ \E j \in Nat : Item(k, 3, j, n)
  <2>1. CASE \E j \in DOMAIN requests[P] : n = requests[P][j].seqn
    <3>1. PICK j \in DOMAIN requests[P] : n = requests[P][j].seqn
      BY <2>1
    <3>2. j \in Nat /\ requests[P][j].from = k
      BY <1>1, PacketTypes DEF Request
    <3> QED
      BY <3>1, <3>2 DEF Item
  <2>2. CASE n = client[k].seqn
    BY <2>2 DEF Item
  <2> QED
    BY <1>1, <1>3, <2>1, <2>2 DEF Pending
<1>7. Ahead(2, 0, 4, 0) /\ \A j \in Nat : Ahead(2, 0, 3, j)
  BY DEF Ahead
<1>8. 2 \in 0..4 /\ 3 \in 0..4 /\ 4 \in 0..4 /\ 0 \in Nat /\ k \in Client
  OBVIOUS
<1> HIDE DEF q
<1>9. ASSUME Item(k, 4, 0, n) PROVE q.seqn < n
  BY <1>4, <1>5, <1>7, <1>8, <1>9, Zenon DEF InOrder
<1>10. ASSUME NEW j \in Nat, Item(k, 3, j, n) PROVE q.seqn < n
  BY <1>4, <1>5, <1>7, <1>8, <1>10, Zenon DEF InOrder
<1> QED
  BY <1>6, <1>9, <1>10 DEF q

LEMMA BeyondNext ==
  ASSUME AnyCall, NEW k, Client = {k}, Lossy = FALSE, SoleInv, Sole => InOrder, MembersInv,
         SyncInv, Beyond, NeverFull', [ServiceNext]_allvars
  PROVE  Beyond'
<1> DEFINE P == PRIMARY_PORT
<1> SUFFICES ASSUME FirstReign', NEW n \in Nat, Pending(n)'
             PROVE  rm'[P].last_seqn < n
  BY DEF Beyond
<1>1. IInv /\ RoleInv /\ ForeignInv /\ ServiceTypeOK /\ IInv' /\ [Next]_vars
  BY ServiceInvNext DEF SoleInv, ServiceInv
<1>2. FirstReign /\ P \in Server
  BY <1>1, ReignBefore, ServerAssumption
<1>3. rm[P].last_seqn \in Int
  BY <1>1, <1>2 DEF IInv, Manager
<1>4. ASSUME rm'[P].last_seqn = rm[P].last_seqn PROVE rm'[P].last_seqn < n
  <2>1. Pending(n) \/ \E m \in Nat : Pending(m) /\ m < n
    BY <1>1, PendingNext
  <2>2. \A m \in Nat : Pending(m) => rm[P].last_seqn < m
    BY <1>2 DEF Beyond
  <2> QED
    BY <1>3, <1>4, <2>1, <2>2
<1>5. CASE UNCHANGED rm
  BY <1>4, <1>5
<1>6. CASE NoCall
  <2>1. HoldsNoElection /\ Blank /\ NobodyDeclares
    BY <1>2, ReignUncontested DEF MembersInv
  <2>2. NoVictory
    BY <1>2 DEF SyncInv, OneSource, NoVictory
  <2>3. SameState(rm[P], rm'[P])
    BY <1>1, <1>2, <1>6, <2>1, <2>2, FirstStateKept
  <2> QED
    BY <1>4, <2>3 DEF SameState
<1>7. ASSUME NEW s \in Server, Update(s) PROVE rm'[P].last_seqn < n
  <2>1. s = P /\ P \in up
    BY <1>7, UpdateSent DEF Update
  <2>2. rm'[P].last_seqn = service[P].request.seqn
    <3>1. PICK m : rm' = [rm EXCEPT ![P] = [rm[P] EXCEPT !.current_sum = m.current_sum,
                                                         !.last_seqn = service[P].request.seqn]]
      BY <1>7, <2>1, UpdateSent
    <3>2. rm \in [Server -> Manager] /\ rm[P] \in Manager
      BY <1>1, <1>2 DEF IInv
    <3> QED
      BY <1>2, <3>1, <3>2 DEF Manager
  <2>3. InOrder
    BY <1>2 DEF FirstReign
  <2> QED
    BY <1>1, <1>7, <2>1, <2>2, <2>3, Overtaken
<1> QED
  <2>1. \/ UNCHANGED rm \/ NoCall \/ \E s \in Server : Update(s)
    BY DEF ServiceNext, ManagerStep, CrashServer, RequestStep, ReceiveRequest, Refuse, ReadSum,
           AnswerRequest, ClientStep, Connect, Add, TakeReply, TimeOut, Search, LosePacket,
           NoCall, allvars, vars
  <2> QED
    BY <1>5, <1>6, <1>7, <2>1

LEMMA BeyondInit == ASSUME ServiceInit PROVE Beyond
<1>1. /\ PRIMARY_PORT \in Server /\ requests[PRIMARY_PORT] = <<>> /\ ~Holds(PRIMARY_PORT)
      /\ \A c \in Client : client[c].seqn = 1
      /\ rm[PRIMARY_PORT] = Boot(PRIMARY_PORT)
  BY ServerAssumption DEF ServiceInit, Init, Begin, NoRequests, Holds, Idle, NewClient
<1>2. rm[PRIMARY_PORT].last_seqn = 0
  BY <1>1, BootState
<1>3. \A n \in Nat : Pending(n) => n = 1
  BY <1>1 DEF Pending
<1> QED
  BY <1>2, <1>3 DEF Beyond

LEMMA SyncNext ==
  ASSUME AnyCall, Lossy = FALSE, SoleInv, MembersInv, SyncInv, Beyond, NeverFull',
         [ServiceNext]_allvars
  PROVE  SyncInv'
<1>1. IInv /\ RoleInv /\ ForeignInv
  BY DEF SoleInv, ServiceInv
<1>2. CASE UNCHANGED vars
  <2>1. UNCHANGED <<up, rm, queue, claimed, starts>>
    BY <1>2 DEF vars
  <2> QED
    BY <2>1 DEF SyncInv, FirstReign, Sole, OneSource, Follower, InStep, Informed, Upd, Same, List
<1>3. CASE NoCall
  BY <1>1, <1>3, SyncAtCalm
<1>4. ASSUME NEW s \in Server, Update(s) PROVE SyncInv'
  BY <1>4, SyncAtUpdate
<1>5. \/ UNCHANGED vars \/ NoCall \/ \E s \in Server : Update(s)
  BY DEF ServiceNext, ManagerStep, CrashServer, RequestStep, ReceiveRequest, Refuse, ReadSum,
         AnswerRequest, ClientStep, Connect, Add, TakeReply, TimeOut, Search, LosePacket,
         NoCall, allvars
<1> QED
  BY <1>2, <1>3, <1>4, <1>5

FollowInv == SoleInv /\ (Sole => InOrder) /\ MembersInv /\ SyncInv /\ Beyond

LEMMA FollowHolds ==
  ASSUME AnyCall, Lossy = FALSE, NEW k, Client = {k}
  PROVE  ServiceSpec /\ []NeverFull => []FollowInv
<1>1. ServiceInit => FollowInv
  BY SoleInit, OrderInit, MembersInit, SyncInit, BeyondInit
     DEF ServiceInit, Init, FollowInv
<1>2. /\ FollowInv /\ SoleInv' /\ (Sole => InOrder)' /\ NeverFull' /\ [ServiceNext]_allvars
      => FollowInv'
  <2>1. SoleInv /\ [ServiceNext]_allvars => IInv /\ RoleInv /\ [Next]_vars
    BY ServiceInvNext DEF SoleInv, ServiceInv
  <2> QED
    BY <2>1, MembersNext, SyncNext, BeyondNext DEF FollowInv
<1>3. ServiceSpec => []SoleInv /\ [](Sole => InOrder)
  BY SoleHolds, OrderHolds, PTL
<1> QED
  BY <1>1, <1>2, <1>3, PTL DEF ServiceSpec

\* Where no datagram is lost, neither on the way nor because a buffer was full,
\* and there is one client, a replica that has got a state from the only primary
\* and has no update left to read holds its sum: for any number of servers and
\* requests, and however often replicas die and join again while updates are on
\* their way.
THEOREM ReplicasFollow ==
  ASSUME AnyCall, Lossy = FALSE, NEW k, Client = {k}
  PROVE  ServiceSpec /\ []NeverFull => []InSync
<1>1. FollowInv => InSync
  <2> SUFFICES ASSUME SoleInv, SyncInv, OnePrimary, PRIMARY_PORT \in up, NEW r \in up,
                      rm[r].received_initial_state,
                      \A i \in DOMAIN queue[r] : queue[r][i].type # "STATE_UPDATE"
               PROVE  rm[r].current_sum = rm[PRIMARY_PORT].current_sum
    BY DEF InSync, FollowInv
  <2>1. r \in Server /\ FirstReign
    BY DEF SoleInv, ServiceInv, IInv, OnePrimary, FirstReign, Sole
  <2>2. Upd(queue[r]) = {}
    BY DEF Upd
  <2> QED
    BY <2>1, <2>2 DEF SyncInv, Follower, InStep, Same
<1> QED
  BY <1>1, FollowHolds, PTL
-------------------------------------------------------------------------------
(* After the death of the first primary, and before another server leads,   *)
(* the replicas are still led to the last state it stored.                  *)

Bereft == Sole /\ starts[PRIMARY_PORT] >= 1 /\ PRIMARY_PORT \notin up

Legacy(F) ==
  /\ F.last_seqn \in Int /\ 0 <= F.last_seqn /\ F.current_sum = Total
  /\ \A r \in Server \ {PRIMARY_PORT} : InStep(rm[r], queue[r], F)

LegacyInv == Bereft => OneSource /\ \E F : Legacy(F)

LEMMA BereftBefore ==
  ASSUME IInv, RoleInv, [Next]_vars, Bereft'
  PROVE  Bereft \/ (FirstReign /\ PRIMARY_PORT \in up)
<1> DEFINE P == PRIMARY_PORT
<1>1. Sole /\ P \in Server /\ starts \in [Server -> Nat]
  BY SoleBefore, ServerAssumption DEF Bereft, IInv
<1>2. P \in up => FirstReign
  BY <1>1 DEF FirstReign
<1>3. ~Start(P)
  BY DEF Start, Bereft
<1>4. starts'[P] = starts[P]
  <2>1. ASSUME NEW s \in Server, Start(s) PROVE starts'[P] = starts[P]
    BY <1>1, <1>3, <2>1 DEF Start
  <2>2. CASE ~\E s \in Server : Start(s)
    BY <2>2, Claiming
  <2> QED
    BY <2>1, <2>2
<1> QED
  BY <1>1, <1>2, <1>4 DEF Bereft

\* Its death itself.
LEMMA LegacyLeft ==
  ASSUME SoleInv, SyncInv, FirstReign, Crash(PRIMARY_PORT), UNCHANGED log
  PROVE  OneSource' /\ \E F : Legacy(F)'
<1> DEFINE P == PRIMARY_PORT
           F == rm[P]
<1>1. /\ P \in Server /\ P \in up /\ rm \in [Server -> Manager]
      /\ queue \in [Server -> Seq(Message)]
  BY ServerAssumption, QueueType DEF SoleInv, ServiceInv, IInv, Crash
<1>2. /\ 0 <= F.last_seqn /\ F.last_seqn \in Int /\ F.current_sum = Total /\ OneSource
      /\ \A r \in Server \ {P} : InStep(rm[r], queue[r], F)
  <2>1. F.last_seqn \in Int
    BY <1>1 DEF Manager
  <2> QED
    BY <1>1, <2>1 DEF SyncInv, Follower, SoleInv, SumInv, SumCurrent, FirstReign
<1>3. /\ rm'[P] = Boot(P) /\ queue'[P] = <<>> /\ Total' = Total
      /\ \A r \in Server \ {P} : rm'[r] = rm[r] /\ queue'[r] = queue[r]
  BY <1>1 DEF Crash, Total
<1>4. OneSource'
  <2>1. ASSUME NEW d \in Server, NEW i \in DOMAIN queue'[d]
        PROVE  queue'[d] = queue[d]
    BY <1>3, <2>1
  <2>2. \A s \in Server : rm'[s].primary_id = P
    BY <1>2, <1>3, BootState DEF OneSource
  <2> QED
    BY <1>2, <2>1, <2>2 DEF OneSource
<1> HIDE DEF F
<1>5. \A r \in Server \ {P} : InStep(rm'[r], queue'[r], F)
  BY <1>2, <1>3
<1> QED
  BY <1>2, <1>3, <1>4, <1>5 DEF Legacy

LEMMA LegacyAtCalm ==
  ASSUME IInv, IInv', Blank, Bereft, Bereft', OneSource, NEW F, Legacy(F), NoCall, NeverFull',
         Lossy = FALSE, UNCHANGED log
  PROVE  OneSource' /\ Legacy(F)'
<1> DEFINE P == PRIMARY_PORT
<1>1. NobodyDeclares
  <2> SUFFICES ASSUME NEW s \in Server, ReceiverElection(s) \/ CheckerElection(s),
                      DeclareVictory(s)
               PROVE  FALSE
    BY DEF NobodyDeclares
  <2>1. s \in up /\ s \in claimed'
    BY DEF ReceiverElection, CheckerElection, DeclareVictory
  <2> QED
    BY <2>1 DEF Bereft, Sole
<1>2. [Next]_vars /\ P \in Server
  BY ServerAssumption DEF NoCall, Next
<1>3. rm'[P] = rm[P]
  <2>1. Blank'
    BY <1>2, BlankNext
  <2> QED
    BY <1>2, <2>1 DEF Blank, Bereft, Boot, NoReplicas
<1>4. SameState(rm[P], rm'[P])
  BY <1>3 DEF SameState
<1>5. OneSource'
  BY <1>1, <1>4, SourceAtCalm DEF Legacy
<1>6. ASSUME NEW r \in Server \ {P} PROVE InStep(rm'[r], queue'[r], F)
  BY <1>1, <1>6, InStepAtCalm DEF Legacy, Same
<1>7. Total' = Total
  BY DEF Total
<1> QED
  BY <1>5, <1>6, <1>7 DEF Legacy

LEMMA ServiceSteps ==
  ASSUME [ServiceNext]_allvars
  PROVE  \/ UNCHANGED <<vars, log>>
         \/ NoCall /\ UNCHANGED log
         \/ \E s \in Server : Update(s)
BY DEF ServiceNext, ManagerStep, CrashServer, RequestStep, ReceiveRequest, Refuse, ReadSum,
       AnswerRequest, ClientStep, Connect, Add, TakeReply, TimeOut, Search, LosePacket,
       NoCall, allvars, svars

LEMMA OnlyCrashStops ==
  ASSUME NoCall, NEW p \in up, p \notin up' PROVE Crash(p)
<1>1. ASSUME NEW s \in Server, ThreadStep(s) \/ Lose(s) PROVE up' = up
  BY <1>1 DEF ThreadStep, Receive, HandleHeartbeat, HandleJoinRequest, HandleReplicaList,
     HandleStateUpdate, HandleStateAck, HandleStartElection, HandleElectionResponse,
     HandleVictory, HandleVictoryAck, BeginCheck, CheckPrimary, ReceiverWakes, CheckerWakes,
     SendHeartbeats, Lose, Unbounded, ReceiverElection, CheckerElection
<1>2. ASSUME NEW s \in Server, StartStep(s) PROVE up \subseteq up'
  BY <1>2 DEF StartStep, Start, SendJoinRequest, CreateThreads
<1>3. Tick => up' = up
  BY DEF Tick, Unbounded
<1>4. ASSUME NEW s \in Server, Crash(s) PROVE Crash(p)
  <2>1. s = p
    BY <1>4 DEF Crash
  <2> QED
    BY <1>4, <2>1
<1> QED
  BY <1>1, <1>2, <1>3, <1>4 DEF NoCall

LEMMA LegacyNext ==
  ASSUME AnyCall, Lossy = FALSE, FollowInv, LegacyInv, NeverFull', [ServiceNext]_allvars
  PROVE  LegacyInv'
<1> DEFINE P == PRIMARY_PORT
<1> SUFFICES ASSUME Bereft' PROVE OneSource' /\ \E F : Legacy(F)'
  BY DEF LegacyInv
<1>1. /\ IInv /\ IInv' /\ RoleInv /\ SumInv /\ Blank /\ [Next]_vars
      /\ SoleInv /\ SyncInv
  BY ServiceInvNext DEF FollowInv, SoleInv, ServiceInv, MembersInv
<1>2. Bereft \/ (FirstReign /\ P \in up)
  BY <1>1, BereftBefore
<1>3. CASE UNCHANGED <<vars, log>>
  <2>1. Bereft /\ UNCHANGED <<rm, queue>> /\ Total' = Total
    BY <1>2, <1>3 DEF vars, Bereft, Total
  <2>2. PICK F : Legacy(F) /\ OneSource
    BY <2>1 DEF LegacyInv
  <2>3. OneSource' /\ Legacy(F)'
    BY <2>1, <2>2 DEF OneSource, Legacy, InStep, Upd, Same
  <2> QED
    BY <2>3
<1>4. CASE NoCall /\ UNCHANGED log
  <2>1. CASE Bereft
    <3>1. PICK F : Legacy(F) /\ OneSource
      BY <2>1 DEF LegacyInv
    <3>2. OneSource' /\ Legacy(F)'
      BY <1>1, <1>4, <2>1, <3>1, LegacyAtCalm
    <3> QED
      BY <3>2
  <2>2. CASE FirstReign /\ P \in up
    <3>1. Crash(P)
      BY <1>4, <2>2, OnlyCrashStops DEF Bereft
    <3> QED
      BY <1>1, <1>4, <2>2, <3>1, LegacyLeft
  <2> QED
    BY <1>2, <2>1, <2>2
<1>5. ASSUME NEW s \in Server, Update(s) PROVE FALSE
  <2>1. s \in up /\ Busy(s) /\ up' = up
    BY <1>5 DEF Update, Busy, CallWith, UpdateState
  <2>2. s \in claimed
    BY <1>1, <2>1 DEF SumInv, BusyHasClaimed
  <2>3. s = P
    BY <1>2, <2>2 DEF Bereft, FirstReign, Sole
  <2> QED
    BY <2>1, <2>3 DEF Bereft
<1> QED
  BY <1>3, <1>4, <1>5, ServiceSteps

LEMMA LegacyInit == ASSUME ServiceInit PROVE LegacyInv
BY ServerAssumption DEF ServiceInit, Init, Begin, LegacyInv, Bereft

LEMMA HeirsTotal ==
  ASSUME FollowInv, LegacyInv, NEW s \in Server, OnePrimary, TakesOver(s),
         rm[s].received_initial_state,
         \A i \in DOMAIN queue[s] : queue[s][i].type # "STATE_UPDATE"
  PROVE  rm[s].current_sum = Total
<1> DEFINE P == PRIMARY_PORT
<1>1. Upd(queue[s]) = {} /\ P \in Server /\ Sole /\ starts[P] = 1 /\ IInv /\ RoleInv
  BY ServerAssumption DEF Upd, OnePrimary, Sole, FollowInv, SoleInv, ServiceInv
<1>2. CASE P \in up
  <2>1. s # P
    BY <1>1, <1>2, LeaderIsPrimary DEF TakesOver, RoleInv
  <2>2. Follower(s)
    BY <1>1, <1>2, <2>1 DEF FollowInv, SyncInv, FirstReign
  <2>3. rm[P].current_sum = Total
    BY <1>1, <1>2 DEF FollowInv, SoleInv, SumInv, SumCurrent
  <2> QED
    BY <1>1, <2>2, <2>3 DEF Follower, InStep, Same
<1>3. CASE P \notin up
  <2>1. PICK F : Legacy(F)
    BY <1>1, <1>3 DEF LegacyInv, Bereft
  <2>2. s # P
    BY <1>3 DEF TakesOver
  <2> QED
    BY <1>1, <2>1, <2>2 DEF Legacy, InStep, Same
<1> QED
  BY <1>2, <1>3
-------------------------------------------------------------------------------
(* No answer is for a later request than the one carried out last.          *)

Covered ==
  Sole => \A c \in Client : \A n \in Answered(c) :
            n > 0 => log # <<>> /\ n <= log[Len(log)].seqn

LEMMA AnsweredNumbers ==
  ASSUME ServiceTypeOK, NEW c \in Client, NEW n \in Answered(c) PROVE n \in Nat
<1>1. replies[c] \in Seq(Reply) /\ client[c] \in ClientState
  BY DEF ServiceTypeOK
<1>2. CASE n = client[c].shown
  BY <1>1, <1>2 DEF ClientState
<1>3. CASE n # client[c].shown
  <2>1. PICK i \in DOMAIN replies[c] : n = replies[c][i].seqn
    BY <1>3 DEF Answered
  <2>2. replies[c][i] \in Reply
    BY <1>1
  <2> QED
    BY <2>1, <2>2 DEF Reply
<1> QED
  BY <1>2, <1>3

LEMMA AnsweredShrinks ==
  ASSUME NEW c \in Client, replies[c] \in Seq(Reply), client'[c].shown \in Answered(c),
         replies'[c] = replies[c] \/ (replies[c] # <<>> /\ replies'[c] = Tail(replies[c]))
  PROVE  Answered(c)' \subseteq Answered(c)
<1>1. ASSUME NEW i \in DOMAIN replies'[c]
      PROVE  \E j \in DOMAIN replies[c] : replies'[c][i] = replies[c][j]
  <2>1. CASE replies'[c] = replies[c]
    BY <2>1
  <2>2. CASE replies[c] # <<>> /\ replies'[c] = Tail(replies[c])
    <3>1. i + 1 \in DOMAIN replies[c] /\ replies'[c][i] = replies[c][i + 1]
      BY <2>2
    <3> QED
      BY <3>1
  <2> QED
    BY <2>1, <2>2
<1>2. ASSUME NEW n \in Answered(c)', n # client'[c].shown PROVE n \in Answered(c)
  <2>1. PICK i \in DOMAIN replies'[c] : replies'[c][i].status = 0 /\ n = replies'[c][i].seqn
    BY <1>2 DEF Answered
  <2>2. PICK j \in DOMAIN replies[c] : replies'[c][i] = replies[c][j]
    BY <1>1
  <2> QED
    BY <2>1, <2>2 DEF Answered
<1> QED
  BY <1>2

LEMMA AnsweredAtClient ==
  ASSUME ServiceTypeOK, (\E c \in Client : ClientStep(c)) \/ LosePacket, NEW d \in Client
  PROVE  Answered(d)' \subseteq Answered(d) /\ UNCHANGED log
<1>1. /\ replies \in [Client -> Seq(Reply)] /\ client \in [Client -> ClientState]
      /\ replies[d] \in Seq(Reply) /\ client[d].shown \in Answered(d)
  BY DEF ServiceTypeOK, Answered
<1>2. UNCHANGED log
  BY DEF ClientStep, Connect, Add, TakeReply, TimeOut, Search, LosePacket
<1>3. CASE LosePacket
  <2>1. \/ replies'[d] = replies[d]
        \/ replies[d] # <<>> /\ replies'[d] = Tail(replies[d])
    BY <1>1, <1>3 DEF LosePacket
  <2>2. client'[d] = client[d]
    BY <1>3 DEF LosePacket
  <2> QED
    BY <1>1, <1>2, <2>1, <2>2, AnsweredShrinks
<1>4. ASSUME NEW c \in Client, Connect(c) \/ Add(c) \/ TimeOut(c) \/ Search(c)
      PROVE  Answered(d)' \subseteq Answered(d)
  <2>1. replies' = replies
    BY <1>4 DEF Connect, Add, TimeOut, Search
  <2>2. client'[d].shown = client[d].shown
    <3>1. ASSUME NEW C, client' = [client EXCEPT ![c] = C], C.shown = client[c].shown
          PROVE  client'[d].shown = client[d].shown
      BY <1>1, <3>1
    <3>2. client[c] \in ClientState
      BY <1>1, <1>4
    <3>3. CASE Connect(c)
      BY <1>1, <3>2, <3>3 DEF Connect, ClientState
    <3>4. CASE TimeOut(c)
      BY <1>1, <3>2, <3>4 DEF TimeOut, Afterwards, ClientState
    <3>5. ASSUME NEW s, NEW number, NEW again, SendTo(c, s, number, again)
          PROVE  client'[d].shown = client[d].shown
      BY <3>1, <3>5 DEF SendTo
    <3>6. CASE Search(c)
      <4>1. CASE client' = [client EXCEPT ![c].at = "ready"]
        BY <1>1, <3>2, <4>1 DEF ClientState
      <4> QED
        BY <3>5, <3>6, <4>1 DEF Search
    <3> QED
      BY <1>4, <3>3, <3>4, <3>5, <3>6 DEF Add
  <2> QED
    BY <1>1, <2>1, <2>2, AnsweredShrinks
<1>5. ASSUME NEW c \in Client, TakeReply(c) PROVE Answered(d)' \subseteq Answered(d)
  <2> DEFINE r == Head(replies[c])
  <2>1. /\ replies[c] # <<>> /\ replies' = [replies EXCEPT ![c] = Tail(@)]
        /\ Afterwards(c, IF r.status = 1 THEN -2 ELSE r.value, r.server, r.seqn)
    BY <1>5 DEF TakeReply
  <2>2. CASE d # c
    <3>1. replies'[d] = replies[d] /\ client'[d] = client[d]
      BY <1>1, <2>1, <2>2 DEF Afterwards
    <3> QED
      BY <1>1, <3>1, AnsweredShrinks
  <2>3. CASE d = c
    <3>1. r = replies[c][1] /\ 1 \in DOMAIN replies[c] /\ r \in Reply
      BY <1>1, <2>1
    <3>2. r.status # 1 => r.seqn \in Answered(c)
      <4>1. r.status \in {0, 1}
        BY <3>1 DEF Reply
      <4> QED
        BY <3>1, <4>1 DEF Answered
    <3>3. \/ client'[c].shown = client[c].shown
          \/ r.status # 1 /\ client'[c].shown = r.seqn
      <4> HIDE DEF r
      <4> QED
        BY <1>1, <2>1 DEF Afterwards, ClientState
    <3>4. client'[c].shown \in Answered(c)
      BY <1>1, <2>3, <3>2, <3>3
    <3>5. replies'[c] = Tail(replies[c])
      BY <1>1, <2>1
    <3> QED
      BY <1>1, <2>1, <2>3, <3>4, <3>5, AnsweredShrinks
  <2> QED
    BY <2>2, <2>3
<1> QED
  BY <1>2, <1>3, <1>4, <1>5 DEF ClientStep

LEMMA CoveredNext ==
  ASSUME AnyCall, NEW k, Client = {k}, SoleInv, Sole => InOrder, Covered,
         [ServiceNext]_allvars
  PROVE  Covered'
<1> DEFINE P == PRIMARY_PORT
<1> SUFFICES ASSUME Sole' PROVE Covered'
  BY DEF Covered
<1>1. /\ P \in Server /\ ServiceTypeOK /\ k \in Client /\ InOrder /\ Sole /\ SumInv
      /\ service \in [Server -> {Idle} \cup Working] /\ replies \in [Client -> Seq(Reply)]
      /\ client \in [Client -> ClientState] /\ client[k].shown \in Nat
      /\ log \in Seq([from: Client, seqn: Nat, total: Int])
  <2>1. IInv /\ [Next]_vars /\ RoleInv
    BY ServiceInvNext DEF SoleInv, ServiceInv
  <2>2. Sole
    BY <2>1, SoleBefore
  <2> QED
    BY <2>2, ServerAssumption DEF SoleInv, ServiceInv, ServiceTypeOK, ClientState
<1>2. ASSUME \A c \in Client : Answered(c)' \subseteq Answered(c), UNCHANGED log PROVE Covered'
  BY <1>1, <1>2 DEF Covered
<1>3. CASE UNCHANGED <<client, replies, log>>
  BY <1>2, <1>3 DEF Answered
<1>4. ASSUME NEW s \in Server, NEW status \in {0, 1}, Answer(s, status), UNCHANGED <<client, log>>,
             s \in up, service[s].at # "receive", status = 0 => service[s].at = "answer"
      PROVE  Covered'
  <2> DEFINE q == service[s].request
             r == [server |-> s, seqn |-> q.seqn, value |-> rm[s].current_sum, status |-> status]
  <2>1. replies' = [replies EXCEPT ![q.from] = Append(@, r)]
    BY <1>4 DEF Answer
  <2>2. q \in Request /\ q.from = k
    BY <1>1, <1>4 DEF Working, Idle, Request
  <2>3. status = 0 => log # <<>> /\ log[Len(log)].seqn = r.seqn
    <3> SUFFICES ASSUME status = 0 PROVE log # <<>> /\ log[Len(log)].seqn = r.seqn
      OBVIOUS
    <3>1. s = P /\ SumCurrent
      BY <1>1, <1>4 DEF SumInv, BusyHasClaimed, Busy, Sole
    <3> QED
      BY <1>4, <3>1 DEF SumCurrent
  <2>4. r.status = status /\ r.seqn \in Nat
    BY <2>2 DEF Request
  <2> HIDE DEF r
  <2>5. replies[k] \in Seq(Reply) /\ replies'[k] = Append(replies[k], r)
    BY <1>1, <2>1, <2>2
  <2>6. ASSUME NEW i \in DOMAIN replies'[k]
        PROVE  replies'[k][i] = r \/ (i \in DOMAIN replies[k] /\ replies'[k][i] = replies[k][i])
    BY <2>5
  <2>7. ASSUME NEW n \in Answered(k)' PROVE n \in Answered(k) \/ (status = 0 /\ n = r.seqn)
    <3>1. CASE n = client'[k].shown
      BY <1>4, <3>1 DEF Answered
    <3>2. CASE n # client'[k].shown
      <4>1. PICK i \in DOMAIN replies'[k] : replies'[k][i].status = 0 /\ n = replies'[k][i].seqn
        BY <2>7, <3>2 DEF Answered
      <4> QED
        BY <2>4, <2>6, <4>1 DEF Answered
    <3> QED
      BY <3>1, <3>2
  <2>8. log' = log /\ r.seqn <= r.seqn
    BY <1>4, <2>4
  <2> QED
    BY <1>1, <2>3, <2>7, <2>8 DEF Covered
<1>5. ASSUME NEW s \in Server, Update(s) PROVE Covered'
  <2> DEFINE q == service[s].request
             done == [from |-> q.from, seqn |-> q.seqn, total |-> Total + q.value]
  <2>1. /\ service[s].at = "update" /\ UNCHANGED <<client, replies>>
        /\ log' = Append(log, done)
    BY <1>5 DEF Update
  <2>2. q \in Request /\ q.from = k /\ q.seqn \in Nat
    BY <1>1, <2>1 DEF Working, Idle, Request
  <2>3. s = P /\ Busy(P)
    BY <1>1, <2>1 DEF SumInv, BusyHasClaimed, Busy, Sole
  <2>4. Item(k, 2, 0, q.seqn)
    BY <2>2, <2>3 DEF Item
  <2>5. ASSUME NEW n \in Answered(k) PROVE n < q.seqn
    <3>1. replies[k] \in Seq(Reply)
      BY <1>1
    <3>2. n \in Nat /\ (Item(k, 0, 0, n) \/ \E i \in Nat : Item(k, 1, i, n))
      <4>1. CASE n = client[k].shown
        BY <1>1, <4>1 DEF Item
      <4>2. CASE n # client[k].shown
        <5>1. PICK i \in DOMAIN replies[k] : replies[k][i].status = 0 /\ n = replies[k][i].seqn
          BY <2>5, <4>2 DEF Answered
        <5>2. i \in Nat /\ replies[k][i] \in Reply
          BY <3>1
        <5> QED
          BY <5>1, <5>2 DEF Item, Reply
      <4> QED
        BY <4>1, <4>2
    <3>3. Ahead(0, 0, 2, 0) /\ \A i \in Nat : Ahead(1, i, 2, 0)
      BY DEF Ahead
    <3>4. 0 \in 0..4 /\ 1 \in 0..4 /\ 2 \in 0..4 /\ 0 \in Nat
      OBVIOUS
    <3> HIDE DEF q
    <3>5. ASSUME Item(k, 0, 0, n) PROVE n < q.seqn
      BY <1>1, <2>2, <2>4, <3>2, <3>3, <3>4, <3>5, Zenon DEF InOrder
    <3>6. ASSUME NEW i \in Nat, Item(k, 1, i, n) PROVE n < q.seqn
      BY <1>1, <2>2, <2>4, <3>2, <3>3, <3>4, <3>6, Zenon DEF InOrder
    <3> QED
      BY <3>2, <3>5, <3>6
  <2>6. log' # <<>> /\ log'[Len(log')] = done
    <3> DEFINE T == [from: Client, seqn: Nat, total: Int]
    <3> HIDE DEF T, done
    <3>1. log \in Seq(T)
      BY <1>1 DEF T
    <3> QED
      BY <2>1, <3>1
  <2>7. ASSUME NEW n \in Answered(k)' PROVE n <= done.seqn
    <3>1. n \in Answered(k)
      BY <2>1, <2>7 DEF Answered
    <3>2. n < q.seqn /\ n \in Nat
      <4>1. n \in Nat
        BY <1>1, <3>1, AnsweredNumbers
      <4> QED
        BY <2>5, <3>1, <4>1
    <3> QED
      BY <2>2, <3>2
  <2> HIDE DEF done
  <2> QED
    BY <2>6, <2>7 DEF Covered
<1>6. ASSUME (\E c \in Client : ClientStep(c)) \/ LosePacket PROVE Covered'
  BY <1>1, <1>2, <1>6, AnsweredAtClient
<1>7. \/ UNCHANGED <<client, replies, log>>
      \/ \E s \in Server : Refuse(s) \/ AnswerRequest(s) \/ Update(s)
      \/ (\E c \in Client : ClientStep(c)) \/ LosePacket
  BY DEF ServiceNext, ManagerStep, CrashServer, RequestStep, ReceiveRequest, ReadSum,
         allvars, svars
<1>8. ASSUME NEW s \in Server, Refuse(s) PROVE Covered'
  BY <1>4, <1>8 DEF Refuse
<1>9. ASSUME NEW s \in Server, AnswerRequest(s) PROVE Covered'
  BY <1>4, <1>9 DEF AnswerRequest
<1> QED
  BY <1>3, <1>5, <1>6, <1>7, <1>8, <1>9

LEMMA CoveredInit == ASSUME ServiceInit PROVE Covered
BY DEF ServiceInit, NoRequests, NewClient, Covered, Answered

\* Where no datagram is lost, neither on the way nor because a buffer was full,
\* and there is one client, the server that takes over from the first primary
\* holds the total of the last request answered or of a later one, if it has got
\* a state and has no update left to read: for any number of servers and
\* requests, whenever the primary dies, and however often replicas die and join
\* again before.
THEOREM HeirsKeepAnswers ==
  ASSUME AnyCall, Lossy = FALSE, NEW k, Client = {k}
  PROVE  ServiceSpec /\ []NeverFull => HeirKeepsAnswers
<1>1. FollowInv /\ LegacyInv /\ Covered => \A s \in Server : KeepsAnswers(s)
  <2> SUFFICES ASSUME FollowInv, LegacyInv, Covered, NEW s \in Server, OnePrimary, TakesOver(s),
                      rm[s].received_initial_state,
                      \A i \in DOMAIN queue[s] : queue[s][i].type # "STATE_UPDATE",
                      NEW n \in Answered(k) \ {0}
               PROVE  \E j \in DOMAIN log : /\ log[j].from = k /\ log[j].seqn >= n
                                            /\ log[j].total = rm[s].current_sum
    BY DEF KeepsAnswers
  <2>1. rm[s].current_sum = Total
    BY HeirsTotal
  <2>2. /\ log \in Seq([from: Client, seqn: Nat, total: Int]) /\ Sole
        /\ ServiceTypeOK /\ k \in Client
    BY ServerAssumption DEF FollowInv, SoleInv, ServiceInv, ServiceTypeOK, OnePrimary, Sole
  <2>3. n \in Nat /\ n > 0
    BY <2>2, AnsweredNumbers
  <2>4. log # <<>> /\ n <= log[Len(log)].seqn
    BY <2>2, <2>3 DEF Covered
  <2>5. /\ Len(log) \in DOMAIN log /\ log[Len(log)].from = k
        /\ log[Len(log)].seqn \in Nat
    <3> DEFINE T == [from: Client, seqn: Nat, total: Int]
    <3>1. Len(log) \in DOMAIN log /\ log[Len(log)] \in T
      <4> HIDE DEF T
      <4>1. log \in Seq(T) /\ log # <<>>
        BY <2>2, <2>4 DEF T
      <4> QED
        BY <4>1
    <3>2. \A e \in T : e.from = k /\ e.seqn \in Nat
      OBVIOUS
    <3> HIDE DEF T
    <3> QED
      BY <3>1, <3>2
  <2> QED
    BY <2>1, <2>3, <2>4, <2>5 DEF Total
<1>2. ServiceInit => LegacyInv /\ Covered
  BY LegacyInit, CoveredInit
<1>3. FollowInv /\ LegacyInv /\ NeverFull' /\ [ServiceNext]_allvars => LegacyInv'
  BY LegacyNext
<1>4. FollowInv /\ Covered /\ [ServiceNext]_allvars => Covered'
  BY CoveredNext DEF FollowInv
<1>5. ServiceSpec /\ []NeverFull => []FollowInv
  BY FollowHolds
<1> QED
  BY <1>1, <1>2, <1>3, <1>4, <1>5, PTL DEF ServiceSpec, HeirKeepsAnswers
===============================================================================
