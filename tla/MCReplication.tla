----------------------------- MODULE MCReplication -----------------------------
(***************************************************************************)
(* Instances of Replication for TLC.  The runs of two servers start from   *)
(* Init; those of more start from the state in which all have joined and   *)
(* received a first state, which Init reaches by starting the servers one  *)
(* by one, each after the JOIN_REQUEST of the one before has been served.  *)
(***************************************************************************)
EXTENDS Replication

Survivors == Server \ {PRIMARY_PORT}

Highest == CHOOSE s \in Server : \A t \in Server : t <= s

\* The order in which the servers were started, as ranks.
Ascending == [s \in Server |-> s]
Descending == [s \in Server |-> Highest - s]

\* The entry of r at s.  A server keeps the bare port of one that joined after
\* it, because only the primary hears that one's JOIN_REQUEST.
JoinedEntry(s, r, rank) ==
  [listed |-> TRUE, is_alive |-> TRUE,
   age |-> IF r = PRIMARY_PORT /\ s # r THEN 0 ELSE EXPIRED,
   repl_addr |-> PRIMARY_PORT \in {s, r} \/ rank[r] <= rank[s],
   state_confirmed |-> PRIMARY_PORT \in {s, r}]

JoinedManager(s, rank) ==
  [Boot(s) EXCEPT !.current_sum = 5, !.last_seqn = 1,
                  !.received_initial_state = TRUE,
                  !.replicas = [r \in Server |-> JoinedEntry(s, r, rank)]]

Joined(Up, rank) ==
  /\ up = Up
  /\ rm = [s \in Server |-> IF s \in Up THEN JoinedManager(s, rank) ELSE Boot(s)]
  /\ receiver = [s \in Server |-> IF s \in Up THEN "ready" ELSE "none"]
  /\ checker = [s \in Server |-> IF s \in Up THEN CheckerStart(s) ELSE "none"]
  /\ joins = [s \in Server |-> 0]
  /\ starts = [s \in Server |-> 1]
  /\ updates = {<<5, 1>>}
  /\ claimed = {PRIMARY_PORT}

Quiet == queue = [s \in Server |-> <<>>]

\* The primary has just died; its last heartbeat may still be unread.
Orphaned ==
  /\ queue \in [Server -> {<<>>, <<Plain("HEARTBEAT", PRIMARY_PORT)>>}]
  /\ \A s \in Server \ up : queue[s] = <<>>

\* Steps in which no process starts or dies.
Undisturbed == Next /\ up' = up

\* Runs from the joined states, with every step of Next.  The state they begin
\* with counts as one of the MAX_UPDATES: with MAX_UPDATES = 1 no update follows.
AllJoined == Joined(Server, Descending) /\ Quiet

DescendingSpec == AllJoined /\ [][Next]_vars

\* Runs after the death of the primary, or of it and the highest server.
AscendingSurvivors == Joined(Survivors, Ascending) /\ Orphaned

DescendingSurvivors == Joined(Survivors, Descending) /\ Orphaned

LowerSurvivors == Joined(Survivors \ {Highest}, Ascending) /\ Orphaned

AscendingFailover == AscendingSurvivors /\ [][Undisturbed]_vars /\ Fairness

DescendingFailover == DescendingSurvivors /\ [][Undisturbed]_vars /\ Fairness

HighestDeadFailover == LowerSurvivors /\ [][Undisturbed]_vars /\ Fairness

\* When the primary has died, the servers left agree for ever on the highest
\* of them (start_election tells its victory to all replicas).
Failover == <>[](\A s \in up : rm[s].primary_id = Highest)

\* When the primary has died, some server that is left takes its place (a
\* server with higher ids in its list waits for their response and retries).
SomeoneLeads == <>(\E s \in up : rm[s].is_primary)
================================================================================
