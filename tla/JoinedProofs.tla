------------------------------ MODULE JoinedProofs ------------------------------
(***************************************************************************)
(* What TLAPS proves of the servers once all have joined and none is       *)
(* started again (the joined states of MCReplication), in whichever order  *)
(* they were started: of two primaries the lower one is told.              *)
(***************************************************************************)
EXTENDS MCReplication, SocketProofs

\* Datagrams that are under way when nobody joins any more.
Settled == {m \in Message : m.type \notin {"JOIN_REQUEST", "REPLICA_LIST_UPDATE"}}

\* A list that names every server, and the first primary by its address.
Complete(R) == (\A r \in Server : R[r].listed) /\ R[PRIMARY_PORT].repl_addr

\* The inductive invariant.  Nobody is started, so nobody asks to join and no
\* list is sent: the lists stay complete.
JoinedInv ==
  /\ IInv
  /\ \A s \in Server : starts[s] >= 1 /\ joins[s] = 0
  /\ queue \in Sockets(Settled)
  /\ \A s \in up : Complete(rm[s].replicas)
-------------------------------------------------------------------------------
(* The joined states.                                                       *)

LEMMA JoinedManagerSound ==
  ASSUME NEW rank \in [Server -> Int], NEW s \in Server, updates = {<<5, 1>>}
  PROVE  JoinedManager(s, rank) \in Sound(s) /\ Complete(JoinedManager(s, rank).replicas)
<1> DEFINE R == [r \in Server |-> JoinedEntry(s, r, rank)]
           M(first) == [is_primary |-> first, primary_id |-> PRIMARY_PORT,
                        current_sum |-> 5, last_seqn |-> 1,
                        received_initial_state |-> TRUE,
                        election_in_progress |-> FALSE, replicas |-> R]
<1>1. PRIMARY_PORT \in Server
  BY ServerAssumption
<1>2. ASSUME NEW r \in Server PROVE JoinedEntry(s, r, rank) \in Entry
  <2>1. 0 \in 0..EXPIRED /\ EXPIRED \in 0..EXPIRED
    BY TimeoutAssumption DEF EXPIRED
  <2>2. rank[r] \in Int /\ rank[s] \in Int
    OBVIOUS
  <2> QED
    BY <2>1, <2>2 DEF JoinedEntry, Entry
<1>3. R \in [Server -> Entry] /\ Complete(R)
  <2>1. \A r \in Server : JoinedEntry(s, r, rank).listed
    BY DEF JoinedEntry
  <2>2. JoinedEntry(s, PRIMARY_PORT, rank).repl_addr
    BY DEF JoinedEntry
  <2> QED
    BY <1>1, <1>2, <2>1, <2>2 DEF Complete
<1>4. JoinedManager(s, rank) = M(s = PRIMARY_PORT)
  <2> HIDE DEF R
  <2>1. JoinedManager(s, rank) = [Boot(s) EXCEPT !.current_sum = 5, !.last_seqn = 1,
                                  !.received_initial_state = TRUE, !.replicas = R]
    BY DEF JoinedManager, R
  <2> QED
    BY <2>1 DEF Boot
<1> HIDE DEF R
<1>5. \A first : M(first).replicas = R
  OBVIOUS
<1>6. CASE s = PRIMARY_PORT
  <2>1. M(TRUE) \in Sound(s)
    BY <1>1, <1>3, <1>6 DEF Sound, Manager, States
  <2>2. (s = PRIMARY_PORT) = TRUE
    BY <1>6
  <2> HIDE DEF M
  <2> QED
    BY <1>3, <1>4, <1>5, <2>1, <2>2
<1>7. CASE s # PRIMARY_PORT
  <2>1. M(FALSE) \in Sound(s)
    BY <1>1, <1>3, <1>7 DEF Sound, Manager, States
  <2>2. (s = PRIMARY_PORT) = FALSE
    BY <1>7
  <2> HIDE DEF M
  <2> QED
    BY <1>3, <1>4, <1>5, <2>1, <2>2
<1> QED
  BY <1>6, <1>7

LEMMA JoinedInit ==
  ASSUME NEW rank \in [Server -> Int], Joined(Server, rank), Quiet
  PROVE  JoinedInv
<1>1. updates = {<<5, 1>>} /\ up = Server /\ claimed = {PRIMARY_PORT}
      /\ starts = [s \in Server |-> 1] /\ joins = [s \in Server |-> 0]
      /\ queue = [s \in Server |-> <<>>]
  BY DEF Joined, Quiet
<1>2. rm = [s \in Server |-> JoinedManager(s, rank)]
  BY <1>1 DEF Joined
<1>3. \A s \in Server : JoinedManager(s, rank) \in Sound(s) /\ Complete(JoinedManager(s, rank).replicas)
  BY <1>1, JoinedManagerSound
<1>4. rm \in [Server -> Manager] /\ \A s \in Server : rm[s] \in Sound(s) /\ Complete(rm[s].replicas)
  BY <1>2, <1>3 DEF Sound
<1>5. \A S : queue \in Sockets(S)
  BY <1>1, BoundAssumption DEF Sockets
<1>6. /\ receiver \in [Server -> {"none", "ready", "elect", "sleep"}]
      /\ checker \in [Server -> {"none", "ready", "check", "elect", "sleep"}]
      /\ joins \in [Server -> 0..BURST]
  BY <1>1, BoundAssumption DEF Joined, CheckerStart
<1>7. IInv
  <2>1. /\ up \in SUBSET Server /\ claimed \in SUBSET Server /\ starts \in [Server -> Nat]
        /\ updates \in SUBSET (Int \X Int)
    BY <1>1, ServerAssumption
  <2>2. queue \in Sockets(Credible)
    BY <1>5
  <2> QED
    BY <1>4, <1>6, <2>1, <2>2 DEF IInv
<1> QED
  BY <1>1, <1>4, <1>5, <1>7 DEF JoinedInv
-------------------------------------------------------------------------------
(* The steps.                                                               *)

LEMMA NobodyStarts ==
  ASSUME MAX_STARTS <= 1, JoinedInv, NEW s \in Server
  PROVE  ~Start(s)
<1>1. starts[s] \in Nat /\ starts[s] >= 1 /\ MAX_STARTS \in Nat
  BY BoundAssumption DEF JoinedInv, IInv
<1> QED
  BY <1>1 DEF Start

LEMMA NobodyJoins ==
  ASSUME JoinedInv, NEW s \in Server
  PROVE  ~SendJoinRequest(s) /\ ~HandleJoinRequest(s) /\ ~HandleReplicaList(s)
<1>1. ~SendJoinRequest(s)
  BY DEF SendJoinRequest, JoinedInv
<1>2. queue[s] # <<>> => Received(s) \in Settled
  BY RestType DEF JoinedInv
<1> QED
  BY <1>1, <1>2 DEF HandleJoinRequest, HandleReplicaList, Receives, Settled

\* What is sent is settled.
LEMMA SendsSettled ==
  ASSUME NEW s \in Server, NEW T, T \subseteq AnswerTypes \cup ThreadTypes,
         NEW q \in Sockets(Settled), Sends(s, q, T)
  PROVE  queue' \in Sockets(Settled)
<1>1. PICK D \in SUBSET Server, ms \in Seq(Own(s, T)) : queue' = Deliver(q, To(D, ms))
  BY DEF Sends
<1>2. Own(s, T) \subseteq Settled
  BY DEF Own, Settled, AnswerTypes, ThreadTypes
<1>3. ms \in Seq(Settled)
  BY <1>2
<1> QED
  BY <1>1, <1>3, ToType, DeliverType

LEMMA JoinedNext ==
  ASSUME MAX_STARTS <= 1, JoinedInv, [Next]_vars
  PROVE  JoinedInv'
<1>1. IInv /\ IInv' /\ queue \in Sockets(Settled)
  BY NextIInv DEF JoinedInv
<1>2. \A s \in Server : /\ ~Start(s) /\ ~SendJoinRequest(s)
                        /\ ~HandleJoinRequest(s) /\ ~HandleReplicaList(s)
  BY NobodyStarts, NobodyJoins
<1>3. starts' = starts /\ up' \subseteq up
  BY <1>1, <1>2, Claiming
<1>4. queue' \in Sockets(Settled)
  <2>1. CASE UNCHANGED queue
    BY <1>1, <2>1
  <2>2. ASSUME NEW s \in Server, Receive(s) PROVE queue' \in Sockets(Settled)
    <3>1. Rest(s) \in Sockets(Settled)
      BY <1>1, <2>2, ReceivesSome, RestType
    <3>2. Sends(s, Rest(s), AnswerTypes)
      BY <1>1, <1>2, <2>2, AnswerSends
    <3> QED
      BY <3>1, <3>2, SendsSettled
  <2>3. ASSUME NEW s \in Server,
               \/ ReceiverElection(s) \/ ReceiverWakes(s) \/ BeginCheck(s) \/ CheckPrimary(s)
               \/ CheckerElection(s) \/ CheckerWakes(s) \/ SendHeartbeats(s)
               \/ CallUpdateState(s)
        PROVE  queue' \in Sockets(Settled)
    <3>1. Sends(s, queue, ThreadTypes)
      BY <1>1, <2>3, OtherSends
    <3> QED
      BY <1>1, <3>1, SendsSettled
  <2>4. ASSUME NEW s \in Server, Lose(s) PROVE queue' \in Sockets(Settled)
    BY <1>1, <2>4, RestType DEF Lose
  <2>5. ASSUME NEW s \in Server, Crash(s) PROVE queue' \in Sockets(Settled)
    BY <1>1, <2>5, BoundAssumption DEF Crash, Sockets
  <2>6. CASE Tick
    <3> SUFFICES ASSUME NEW d \in Server
                 PROVE  queue'[d] \in Seq(Settled) /\ Len(queue'[d]) <= RCVBUF
      BY <2>6 DEF Tick, Sockets
    <3>1. queue[d] \in Seq(Settled) /\ queue'[d] \in Seq(Message) /\ Len(queue'[d]) <= RCVBUF
      <4>1. queue' \in [Server -> Seq(Message)]
        <5>1. queue' \in Sockets(Credible)' /\ Credible' \subseteq Message
          BY <1>1 DEF IInv, Credible, Message, MessageType, Entry, EXPIRED
        <5>2. \A x \in Seq(Credible') : x \in Seq(Message)
          BY <5>1
        <5> QED
          BY <5>1, <5>2 DEF Sockets
      <4> QED
        BY <1>1, <4>1 DEF IInv, Sockets
    <3>2. ASSUME NEW i \in DOMAIN queue'[d] PROVE queue'[d][i] \in Settled
      <4>1. i \in DOMAIN queue[d] /\ queue'[d][i].type = queue[d][i].type
        BY <1>1, <2>6, TickSocket
      <4>2. queue[d][i] \in Settled /\ queue'[d][i] \in Message
        BY <3>1, <3>2, <4>1
      <4> QED
        BY <4>1, <4>2 DEF Settled
    <3> QED
      BY <3>1, <3>2
  <2>7. ASSUME NEW s \in Server, CreateThreads(s) PROVE queue' \in Sockets(Settled)
    BY <2>1, <2>7 DEF CreateThreads
  <2> QED
    BY <1>2, <2>1, <2>2, <2>3, <2>4, <2>5, <2>6, <2>7
       DEF Next, StartStep, ThreadStep, vars
<1>5. ASSUME NEW s \in up' PROVE Complete(rm'[s].replicas)
  <2>1. s \in up /\ s \in Server /\ PRIMARY_PORT \in Server
    BY <1>1, <1>3, ServerAssumption DEF IInv
  <2>2. ~Crash(s)
    BY <1>5 DEF Crash
  <2>3. NoneLost(rm[s].replicas, rm'[s].replicas)
    BY <1>1, <1>2, <2>1, <2>2, EntriesKept
  <2> QED
    BY <2>1, <2>3 DEF JoinedInv, Complete, NoneLost
<1>6. \A s \in Server : joins'[s] = 0
  <2>1. \A s \in Server : joins[s] = 0
    BY DEF JoinedInv
  <2>2. UNCHANGED joins \/ \E s \in Server : joins' = [joins EXCEPT ![s] = 0]
    BY <1>2, JoinsKept
  <2> QED
    BY <1>1, <2>1, <2>2 DEF IInv
<1> QED
  BY <1>1, <1>3, <1>4, <1>5, <1>6 DEF JoinedInv, Sockets, Settled, Message, MessageType, Entry, EXPIRED,
                               Complete
-------------------------------------------------------------------------------
(* Who takes the role over.                                                 *)

\* A running server takes the role over only by declaring victory.
LEMMA Claims ==
  ASSUME IInv, IInv', [Next]_vars, NEW p \in Server, TakesOver(p)
  PROVE  DeclareVictory(p)
<1>1. /\ p \in Nat /\ NoLeader \notin Server /\ rm[p].primary_id # p /\ rm'[p].primary_id = p
      /\ p \in up /\ p \in up'
  <2>1. rm[p].is_primary <=> rm[p].primary_id = p
    BY DEF IInv, Sound
  <2>2. rm'[p].is_primary <=> rm'[p].primary_id = p
    BY DEF IInv, Sound
  <2> QED
    BY <2>1, <2>2, ServerAssumption DEF TakesOver, NoLeader
<1>2. leader[p] = rm[p].primary_id /\ leader'[p] = p
  BY <1>1 DEF leader
<1>3. leader[p] # p /\ leader[p] # NoLeader /\ leader \in [Server -> Server \cup {NoLeader}]
  BY <1>1, <1>2 DEF IInv, Manager, leader
<1>4. ASSUME NEW s \in Server, Start(s) \/ Crash(s) PROVE FALSE
  <2>1. Abstract!Boot(s) \/ Abstract!Stop(s)
    BY <1>4, StartMeans, CrashMeans
  <2> QED
    BY <1>1, <1>2, <1>3, <2>1 DEF Abstract!Boot, Abstract!Stop, Abstract!Running
<1>5. ASSUME NEW s \in Server, ReceiverElection(s) \/ CheckerElection(s) PROVE DeclareVictory(p)
  <2>1. UNCHANGED leader \/ (DeclareVictory(s) /\ Abstract!Claim(s))
    BY <1>5, ElectionMeans
  <2>2. leader' # leader
    BY <1>2, <1>3
  <2>3. s = p
    BY <1>2, <1>3, <2>1, <2>2 DEF Abstract!Claim
  <2> QED
    BY <2>1, <2>2, <2>3
<1>6. ASSUME NEW s \in Server, HandleVictory(s) PROVE FALSE
  <2>1. UNCHANGED leader \/ \E t \in Server : Abstract!Follow(s, t)
    BY <1>6, VictoryMeans
  <2>2. ASSUME NEW t \in Server, Abstract!Follow(s, t) PROVE leader'[p] # p \/ leader'[p] = leader[p]
    <3>1. t \in Nat /\ s \in Nat /\ t > s /\ leader' = [leader EXCEPT ![s] = t]
      BY <2>2, ServerAssumption DEF Abstract!Follow
    <3> QED
      BY <1>1, <1>3, <3>1
  <2> QED
    BY <1>2, <1>3, <2>1, <2>2
<1>7. CASE UNCHANGED leader
  BY <1>2, <1>3, <1>7
<1>8. UNCHANGED vars => UNCHANGED leader
  BY DEF vars, leader
<1> QED
  BY <1>3, <1>4, <1>5, <1>6, <1>7, <1>8, QuietStep, TickStep DEF Next, StartStep, ThreadStep

\* No server is higher than s.
Top(s) == \A t \in Server : t <= s

LEMMA OnlyTopClaims ==
  ASSUME JoinedInv, JoinedInv', [Next]_vars, NEW p \in Server, TakesOver(p)
  PROVE  DeclareVictory(p) /\ Top(p)
<1>1. DeclareVictory(p)
  BY Claims DEF JoinedInv
<1>2. Higher(p) = {} /\ Complete(rm[p].replicas)
  BY <1>1 DEF DeclareVictory, JoinedInv, TakesOver
<1>3. ASSUME NEW t \in Server PROVE t <= p
  <2>1. t \in Listed(rm[p].replicas)
    BY <1>2 DEF Complete, Listed
  <2>2. ~(t > p) /\ t \in Nat /\ p \in Nat
    BY <1>2, <2>1, ServerAssumption DEF Higher
  <2> QED
    BY <2>2
<1> QED
  BY <1>1, <1>3 DEF Top

LEMMA LeastExists ==
  ASSUME NEW S \in SUBSET Nat, S # {}
  PROVE  \E n \in S : \A k \in S : n <= k
<1> DEFINE R == OpToRel(<, Nat)
<1>1. \E n \in S : \A k \in S : ~ (<<k, n>> \in R)
  <2> HIDE DEF R
  <2>1. IsWellFoundedOn(R, Nat)
    BY NatLessThanWellFounded DEF R
  <2> QED
    BY <2>1, WFMin
<1>2. PICK n \in S : \A k \in S : ~ (<<k, n>> \in R)
  BY <1>1
<1>3. ASSUME NEW k \in S PROVE n <= k
  <2>1. n \in Nat /\ k \in Nat
    OBVIOUS
  <2>2. ~ (k < n)
    BY <2>1, <1>2, Zenon DEF OpToRel
  <2> HIDE DEF R
  <2> QED
    BY <2>1, <2>2
<1> HIDE DEF R
<1> QED
  BY <1>3

\* The highest server exists: if every server had a higher one, to pass from
\* each to the next would map the finite set Server into a smaller one.
LEMMA HighestExists == Highest \in Server /\ Top(Highest)
<1>1. \E s \in Server : \A t \in Server : t <= s
  <2> SUFFICES ASSUME \A s \in Server : \E t \in Server : t > s PROVE FALSE
    <3>1. \A s \in Server : s \in Nat
      BY ServerAssumption
    <3> QED
      BY <3>1
  <2>1. \A s \in Server : \E n \in Server : n > s /\ \A t \in Server : t > s => n <= t
    <3> TAKE s \in Server
    <3> DEFINE A == {t \in Server : t > s}
    <3>1. A \in SUBSET Nat /\ A # {}
      BY ServerAssumption
    <3>2. \E n \in A : \A k \in A : n <= k
      <4> HIDE DEF A
      <4> QED
        BY <3>1, LeastExists
    <3> QED
      BY <3>2
  <2> DEFINE next == [s \in Server |-> CHOOSE n \in Server : n > s /\ \A t \in Server : t > s => n <= t]
  <2>2. ASSUME NEW s \in Server
        PROVE  /\ next[s] \in Server /\ next[s] > s
               /\ \A t \in Server : t > s => next[s] <= t
    BY <2>1
  <2>3. PICK low \in Server : \A k \in Server : low <= k
    BY ServerAssumption, LeastExists
  <2>4. DOMAIN next = Server /\ next = [s \in Server |-> next[s]]
    OBVIOUS
  <2> HIDE DEF next
  <2>5. ASSUME NEW s \in Server PROVE next[s] \in Server \ {low}
    <3>1. s \in Nat /\ low \in Nat /\ next[s] \in Nat /\ low <= s /\ next[s] > s
      BY <2>2, <2>3, ServerAssumption
    <3> QED
      BY <2>2, <3>1
  <2>6. ASSUME NEW s \in Server, NEW t \in Server, next[s] = next[t] PROVE s = t
    <3>1. s \in Nat /\ t \in Nat /\ next[s] \in Nat
      BY <2>2, ServerAssumption
    <3>2. ~(t > s) /\ ~(s > t)
      BY <2>2, <2>6, <3>1
    <3> QED
      BY <3>1, <3>2
  <2>7. next \in Injection(Server, Server \ {low})
    <3>1. next \in [Server -> Server \ {low}]
      BY <2>4, <2>5
    <3> QED
      BY <2>6, <3>1 DEF Injection, IsInjective
  <2>8. IsFiniteSet(Server) /\ IsFiniteSet(Server \ {low})
    BY ServerAssumption, FS_RemoveElement
  <2>9. Cardinality(Server) <= Cardinality(Server \ {low})
    BY <2>7, <2>8, FS_Injection
  <2>10. Cardinality(Server \ {low}) = Cardinality(Server) - 1 /\ Cardinality(Server) \in Nat
    BY <2>3, ServerAssumption, FS_RemoveElement, FS_CardinalityType
  <2> QED
    BY <2>9, <2>10
<1> QED
  BY <1>1 DEF Highest, Top
LEMMA DescendingRank == Descending \in [Server -> Int]
BY HighestExists, ServerAssumption DEF Descending

-------------------------------------------------------------------------------
(* Rivals.                                                                  *)

VictoryWaits(q) ==
  \E i \in DOMAIN queue[PRIMARY_PORT] :
    queue[PRIMARY_PORT][i].type = "VICTORY" /\ queue[PRIMARY_PORT][i].replica_id = q

\* Only the first primary and the highest server lead, and while both do the
\* first one has the victory of the other to read.
RivalInv ==
  /\ \A s \in up : rm[s].is_primary => s = PRIMARY_PORT \/ Top(s)
  /\ \A q \in up \ {PRIMARY_PORT} :
       /\ PRIMARY_PORT \in up
       /\ rm[PRIMARY_PORT].is_primary /\ rm[q].is_primary
       => VictoryWaits(q)

LEMMA TopIsOne ==
  ASSUME NEW s \in Server, NEW t \in Server, Top(s), Top(t)
  PROVE  s = t
<1>1. s \in Nat /\ t \in Nat /\ s <= t /\ t <= s
  BY ServerAssumption DEF Top
<1> QED
  BY <1>1

LEMMA RivalInit ==
  ASSUME NEW rank \in [Server -> Int], Joined(Server, rank)
  PROVE  RivalInv
<1>1. \A s \in Server : rm[s] = JoinedManager(s, rank)
  BY DEF Joined
<1>2. \A s \in Server : rm[s].is_primary <=> s = PRIMARY_PORT
  BY <1>1 DEF JoinedManager, Boot
<1> QED
  BY <1>2 DEF RivalInv, Joined

\* The victory is put into the socket of the first primary ...
LEMMA VictorySent ==
  ASSUME JoinedInv, NeverFull', NEW q \in up \ {PRIMARY_PORT}, PRIMARY_PORT \in up,
         DeclareVictory(q)
  PROVE  VictoryWaits(q)'
<1> DEFINE P == PRIMARY_PORT
           v == WithState("VICTORY", q)
           mine == Append(Burst(v), WithState("STATE_UPDATE", q))
<1>1. P \in Server /\ q \in Server /\ IInv /\ queue \in [Server -> Seq(Message)]
  BY ServerAssumption, QueueType DEF JoinedInv, IInv
<1>2. P \in Told(q)
  BY <1>1 DEF JoinedInv, Complete, Told, Addressed, Listed
<1>3. queue' = Deliver(queue, To(Told(q), mine))
  BY DEF DeclareVictory
<1>4. v \in Message /\ v.type = "VICTORY" /\ v.replica_id = q
      /\ WithState("STATE_UPDATE", q) \in Message
  BY <1>1, OwnState DEF Own
<1> HIDE DEF v
<1>5. Burst(v) \in Seq(Message) /\ Len(Burst(v)) = BURST /\ BURST \in Nat /\ BURST >= 1
      /\ Burst(v)[1] = v
  BY <1>4, BurstType, BoundAssumption DEF Burst
<1>6. mine \in Seq(Message) /\ Len(mine) = BURST + 1 /\ mine[1] = v
  BY <1>4, <1>5, AppendProperties
<1> HIDE DEF mine
<1>7. queue'[P] = queue[P] \o mine
  <2>1. Len(Deliver(queue, To(Told(q), mine))[P]) < RCVBUF
    BY <1>1, <1>3 DEF NeverFull
  <2>2. Deliver(queue, To(Told(q), mine))[P] =
          IF P \in up /\ P \in Told(q) THEN queue[P] \o mine ELSE queue[P]
    BY <1>1, <1>6, <2>1, DeliverAll
  <2> QED
    BY <1>2, <1>3, <2>2
<1>8. /\ Len(queue[P]) + 1 \in DOMAIN (queue[P] \o mine)
      /\ (queue[P] \o mine)[Len(queue[P]) + 1] = v
  <2>1. queue[P] \in Seq(Message)
    BY <1>1
  <2> QED
    BY <1>5, <1>6, <2>1, ConcatProperties
<1> QED
  BY <1>4, <1>7, <1>8 DEF VictoryWaits

\* ... and stays there until it is read; whoever reads it gives way.
LEMMA VictoryStays ==
  ASSUME JoinedInv, MAX_STARTS <= 1, Lossy = FALSE, NeverFull', Next,
         NEW q \in Server \ {PRIMARY_PORT}, Top(q), VictoryWaits(q),
         PRIMARY_PORT \in up', rm'[PRIMARY_PORT].is_primary
  PROVE  VictoryWaits(q)'
<1> DEFINE P == PRIMARY_PORT
<1>1. P \in Server /\ IInv /\ queue \in [Server -> Seq(Message)] /\ rm \in [Server -> Manager]
  BY ServerAssumption, QueueType DEF JoinedInv, IInv
<1>2. PICK i \in DOMAIN queue[P] : queue[P][i].type = "VICTORY" /\ queue[P][i].replica_id = q
  BY DEF VictoryWaits
<1>3. queue[P] \in Seq(Message) /\ i \in 1..Len(queue[P])
  BY <1>1, <1>2
<1>4. \A s \in Server : ~SendJoinRequest(s) /\ ~HandleJoinRequest(s)
  BY NobodyStarts, NobodyJoins
<1>5. ASSUME NEW y \in Seq(Message), queue'[P] = queue[P] \o y PROVE VictoryWaits(q)'
  <2>1. i \in DOMAIN (queue[P] \o y) /\ (queue[P] \o y)[i] = queue[P][i]
    BY <1>3, ConcatProperties
  <2> QED
    BY <1>2, <1>5, <2>1 DEF VictoryWaits
<1>6. ASSUME NEW s, NEW T, NEW y \in Seq(Own(s, T)) PROVE y \in Seq(Message)
  <2>1. Own(s, T) \subseteq Message
    BY DEF Own
  <2> QED
    BY <2>1
<1>7. CASE Arrive(P, queue[P], AnswerTypes \cup ThreadTypes)
  BY <1>5, <1>6, <1>7 DEF Arrive
<1>8. CASE Tick
  BY <1>1, <1>2, <1>8, TickSocket DEF VictoryWaits
<1>9. CASE Receive(P) /\ \E y \in Seq(Own(P, AnswerTypes \cup {"REPLICA_LIST_UPDATE"})) :
                            queue'[P] = Tail(queue[P]) \o y
  <2>1. PICK y : y \in Seq(Message) /\ queue'[P] = Tail(queue[P]) \o y
    BY <1>6, <1>9
  <2>2. CASE i = 1
    <3>1. Received(P).type = "VICTORY" /\ Received(P).replica_id = q
      BY <1>2, <1>3, <2>2 DEF Received
    <3>2. HandleVictory(P)
      BY <1>9, <3>1 DEF Receive, HandleHeartbeat, HandleJoinRequest, HandleReplicaList,
           HandleStateUpdate, HandleStateAck, HandleStartElection, HandleElectionResponse,
           HandleVictoryAck, Receives
    <3>3. GivesWay(P, q)
      <4>1. P \in Nat /\ q \in Nat /\ P <= q /\ P # q
        BY <1>1, ServerAssumption DEF Top
      <4> QED
        BY <4>1 DEF GivesWay
    <3>4. \/ rm' = [rm EXCEPT ![P] = Follows(P, q)]
          \/ rm' = [rm EXCEPT ![P] = Adopts(Received(P), Follows(P, q))]
      BY <3>1, <3>2, <3>3 DEF HandleVictory
    <3>5. ~Follows(P, q).is_primary /\ ~Adopts(Received(P), Follows(P, q)).is_primary
      BY <1>1 DEF Follows, Adopts, Manager
    <3> QED
      BY <1>1, <3>4, <3>5
  <2>3. CASE i # 1
    <3>1. /\ Tail(queue[P]) \in Seq(Message) /\ i - 1 \in 1..Len(Tail(queue[P]))
          /\ Tail(queue[P])[i - 1] = queue[P][i]
      BY <1>3, <2>3, HeadTailProperties
    <3>2. /\ i - 1 \in DOMAIN (Tail(queue[P]) \o y)
          /\ (Tail(queue[P]) \o y)[i - 1] = queue[P][i]
      BY <2>1, <3>1, ConcatProperties
    <3> QED
      BY <1>2, <2>1, <3>2 DEF VictoryWaits
  <2> QED
    BY <2>2, <2>3
<1>10. ~Crash(P)
  BY DEF Crash
<1> QED
  BY <1>1, <1>4, <1>7, <1>8, <1>9, <1>10, SocketStep

LEMMA RivalNext ==
  ASSUME MAX_STARTS <= 1, Lossy = FALSE, JoinedInv, NeverFull', RivalInv, [Next]_vars
  PROVE  RivalInv'
<1> DEFINE P == PRIMARY_PORT
<1>1. IInv /\ IInv' /\ JoinedInv' /\ P \in Server
  BY JoinedNext, NextIInv, ServerAssumption DEF JoinedInv
<1>2. up' \subseteq up /\ up \subseteq Server
  BY <1>1, NobodyStarts, Claiming DEF IInv
<1>3. ASSUME NEW s \in up', rm'[s].is_primary
      PROVE  rm[s].is_primary \/ (DeclareVictory(s) /\ Top(s))
  <2>1. s \in up /\ s \in Server
    BY <1>2
  <2>2. ~rm[s].is_primary => TakesOver(s)
    BY <1>3, <2>1 DEF TakesOver
  <2> QED
    BY <1>1, <2>1, <2>2, OnlyTopClaims
<1>4. ASSUME NEW s \in up', rm'[s].is_primary PROVE s = P \/ Top(s)
  BY <1>2, <1>3, <1>4 DEF RivalInv
<1>5. ASSUME NEW q \in up' \ {P}, P \in up', rm'[P].is_primary, rm'[q].is_primary
      PROVE  VictoryWaits(q)'
  <2>1. Top(q) /\ q \in Server \ {P} /\ q \in up /\ P \in up
    BY <1>2, <1>4, <1>5
  <2>2. ~Top(P)
    BY <1>1, <2>1, TopIsOne
  <2>3. rm[P].is_primary
    BY <1>3, <1>5, <2>2
  <2>4. CASE DeclareVictory(q)
    BY <2>1, <2>4, VictorySent
  <2>5. CASE ~DeclareVictory(q)
    <3>1. VictoryWaits(q)
      BY <1>3, <1>5, <2>1, <2>3, <2>5 DEF RivalInv
    <3>2. CASE Next
      BY <1>5, <2>1, <3>1, <3>2, VictoryStays
    <3>3. CASE UNCHANGED vars
      BY <3>1, <3>3 DEF vars, VictoryWaits
    <3> QED
      BY <3>2, <3>3
  <2> QED
    BY <2>4, <2>5
<1> QED
  BY <1>4, <1>5 DEF RivalInv, Top

\* Where all servers have joined, none is started again and no datagram is
\* lost, neither on the way nor because a buffer was full, the lower of two
\* primaries still has the victory of the higher one to read.
THEOREM RivalLearns ==
  ASSUME NEW rank \in [Server -> Int], MAX_STARTS <= 1, Lossy = FALSE
  PROVE  Joined(Server, rank) /\ Quiet /\ [][Next]_vars /\ []NeverFull => []RivalIsTold
<1>1. Joined(Server, rank) /\ Quiet => JoinedInv /\ RivalInv
  BY JoinedInit, RivalInit
<1>2. JoinedInv /\ [Next]_vars => JoinedInv'
  BY JoinedNext
<1>3. JoinedInv /\ RivalInv /\ NeverFull' /\ [Next]_vars => RivalInv'
  BY RivalNext
<1>4. JoinedInv /\ RivalInv => RivalIsTold
  <2> SUFFICES ASSUME JoinedInv, RivalInv, NEW p \in up, NEW q \in up, p < q,
                      rm[p].is_primary, rm[q].is_primary
               PROVE  \E i \in DOMAIN queue[p] : /\ queue[p][i].type = "VICTORY"
                                                 /\ queue[p][i].replica_id = q
    BY DEF RivalIsTold
  <2>1. p \in Nat /\ q \in Nat /\ p \in Server /\ q \in Server
    BY ServerAssumption DEF JoinedInv, IInv
  <2>2. ~Top(p)
    BY <2>1 DEF Top
  <2>3. p = PRIMARY_PORT /\ q # PRIMARY_PORT
    BY <2>1, <2>2 DEF RivalInv
  <2> QED
    BY <2>3 DEF RivalInv, VictoryWaits
<1> QED
  BY <1>1, <1>2, <1>3, <1>4, PTL

\* The same of the order of starts that the runs of MCReplication begin with.
THEOREM DescendingRivals ==
  ASSUME MAX_STARTS <= 1, Lossy = FALSE
  PROVE  DescendingSpec /\ []NeverFull => []RivalIsTold
<1>1. Joined(Server, Descending) /\ Quiet /\ [][Next]_vars /\ []NeverFull => []RivalIsTold
  BY DescendingRank, RivalLearns
<1> QED
  BY <1>1 DEF DescendingSpec, AllJoined
===============================================================================
