# A verification of ThreadedNetworkAdder

The program is a replicated adder for one host. Clients send numbers by UDP, the
primary server adds them up and copies the sum to its replicas; when the primary
falls silent the replicas elect another by the bully algorithm. Beside it the repository
keeps an exercise, threads that share a sum under Lamport's bakery lock. This directory
holds TLA+ modules translated from the sources, the TLC configurations that check them and
proofs for TLAPS.

    tlc -workers 2 -config MCReplicationTwo.cfg MCReplication
    tlapm ReplicationProofs.tla      # and every other module named ...Proofs

## 1. Inventory

| component | state | operations | works with |
|---|---|---|---|
| replication manager (`replication.c`, `.h`, `config.h`) | the struct `rm`: role, leader, sum, last sequence number, replica list, two election flags; a UDP socket on port + 2 | start, nine message handlers, heartbeats, primary check, election, `update_state`, `get_current_sum`, `is_primary` | other managers (datagrams), the request thread (calls) |
| request service (`server_prot.c`) | the request in hand; a UDP socket on port + 1 | receive, refuse, read the sum, update, answer | clients (datagrams), its manager (calls) |
| discovery service (`server_prot.c`) | none | answer a DESC packet with the request port | clients |
| client (`client.c`) | server address, sequence number, number in hand | discover, send a number, take the answer, time out, search again | discovery and request services |
| bakery exercise (`lamport.c`, `program.c` of `Atividade 1 ...`) | `choosing`, `ticket`, `accumulator`, a pthread mutex | either lock: lock, add, unlock; create and join the threads, print | a separate program |
| not part of the built program | | | `election_server.c`, `old_server.c`, `client_socket.c`, `server_control.c`, `processing.c`; `discovery.c` is linked and never started; `libbakery.c` and `program-mainbackup.c` are the exercise before it was renamed; parts of `replication.c` are called by nobody (155-173, 214-280, 395-441, 631-706) |

What matters about the managers:

- The port of a server is its id. The server on 2000 starts as the primary, every other
  as a replica of 2000. They all run on 127.0.0.1.
- Each server has a receiver thread. Only a server started as a replica has a checker
  thread, and only one started as the primary has a heartbeat thread. So a server that
  was elected never sends heartbeats, and the first primary, once it has stepped down,
  never notices that its leader has died.
- `JOIN_REQUEST` is sent at the start only: three copies, 10 ms apart, outside any mutex and
  before the threads exist. The primary stores the *bare* port of the joining server, and the
  receiver replaces it when it hears that server again; normally it is the second copy that makes
  the address right, and a server that dies between two copies stays listed by its bare port.
  A replica gets the address from the list the primary sends, so it keeps the bare port of a
  server that joined after it.
- A joining server is not sent the sum. It learns it with the next update or victory.
- A restarted 2000 is the primary again, with sum 0.
- Updates are ordered by the sequence number *the client* chose.

### What is hard

Two threads of one server may run an election while messages of other elections arrive;
handlers read the role outside the mutex; the request thread calls the manager three
times for one request and holds no lock in between; a receiver that was called to an
election sleeps five seconds while its socket fills; victories are sent once; clients
repeat a number after a timeout and do not compare the number of an answer. The bakery
lock reads the tickets one by one while their owners change them, and has no fence
between its own stores and these loads. `PROJECT.json` lists each hazard at its line with the
properties that cover it.

### What makes each component correct

- *manager*: role and leader agree (`RoleMatchesLeader`); only servers that claimed the
  role are followed (`LeadershipSpec`); no mixture of two states is stored or sent
  (`NoTornState`); a split of two primaries ends (`RivalIsTold`); nobody takes the role
  uninformed (`InformedLeader`); after a failure the survivors agree (`Failover`); the list
  stays in its array (`ListFits`) and the addresses in it become right (`ListedIsReached`).
- *request service*: only a primary carries out requests (`PrimaryUpdates`), no addition
  is lost (`SumIsTotal`), none is done twice under one number (`OncePerSeqn`), an answer
  tells the total of its own request (`ReplyCounts`), replicas follow (`InSync`), and the
  first of them to take over has every total that was answered (`HeirKeepsAnswers`).
- *client*: the totals it prints go forward, although it takes any answer for that of
  its last request (`ShownInOrder`).
- *bakery exercise*: one thread at a time is in the critical section
  (`MutualExclusion`), threads enter in the order of arrival (`FirstComeFirstServed`), no
  increment is lost (`NoLostIncrement`), the program ends (`Finishes`).

## 2. Modules

| module | models |
|---|---|
| `Leadership` | the abstract promise: whom each server takes for the primary, and who may claim that role |
| `Replication` | the replication manager of every server, the network between them, time, crashes |
| `RequestService` | clients and request threads on top of `Replication` |
| `Bakery` | the exercise: threads, memory and store buffers |
| `MCReplication`, `MCRequestService`, `MCBakery` | instances of these for TLC: initial states and fairness of the runs |
| `ReplicationProofs`, `RequestServiceProofs`, `BakeryProofs` | theorems about the three |
| `SocketProofs` | lemmas: what a step sends, what it takes from a socket, what it does to a list |
| `JoinedProofs` | theorems about servers that have joined and are not started again |
| `SolePrimaryProofs` | theorems about sums and answers while the first primary is the only one |
| `ReplicaProofs` | theorems about the lists and sums of the first primary and its replicas |
| `BakerySumProofs` | the theorem about the printed sum, on top of `BakeryProofs` |

### Replication

`rm[s]` is the struct of server `s`; `queue[s]` its socket; `receiver[s]` and
`checker[s]` say where these threads stand: before `recvfrom` or between two checks
(`ready`), past the unlocked read of `is_primary` (`check`), about to take the mutex in
`start_election` (`elect`), in the final sleep (`sleep`), or not created (`none`). Each
message handler is one action, each thread step is one; `ReceiverElection` and
`CheckerElection` are the two callers of `start_election`. `updates` and `claimed`
are history variables that the code does not have.

The start of a server (`StartStep`) takes several steps: `Start` is `init_replication_manager` up
to the `bind` of its socket, `SendJoinRequest` one copy of the JOIN_REQUEST (`joins[s]` counts those still
to come), `CreateThreads` the rest. In between, the primary may handle the copies sent so far,
and the server may die. Its request and discovery threads exist when the manager's do (`Serving`).

What is abstracted:

- A section under the mutex is one step, also where it sleeps 10 ms between copies: the
  mutex stays held. A process that dies in the middle of such a section, with some of its
  datagrams sent, is therefore not shown; the two properties about what a dead primary leaves,
  `LeadershipSpec` and `HeirKeepsAnswers`, do not depend on it: a server in `claimed` may be
  followed by some and not by others, and of an update whose caller has not been answered nothing is
  claimed. The handlers that use no mutex (`REPLICA_LIST_UPDATE`, the refresh of
  the sender's address, `JOIN_REQUEST`) are atomic too, so torn list entries are not shown.
- "Sent three times" is `BURST` copies, in order, as on the loopback interface: in a row where
  the sender holds the mutex (`Burst`), one by one for the JOIN_REQUEST.
- The list is a function from ids to entries. Its order only matters when it is full;
  then any choice of the new entries is allowed.
- `last_heartbeat` is kept as an age that stops at `EXPIRED`: it is only compared. The
  `now` that `check_primary_status` reads just before the lock counts as current.
- An address is either the replication socket of the replica or its bare port, where the
  discovery service drops what is not a DESC packet. Fields no receiver reads are zero.
- `MAX_HEARTBEATS` limits the unread heartbeats of one sender; without it the heartbeat
  thread would fill every socket of the model.
- A crash clears `rm` and the socket at once; `Boot` is what the next start writes anyway.

### RequestService

The request thread of `s` is at `receive`, `refuse`, `read`, `update` or `answer`. It
stops exactly where the code takes the manager's mutex anew, and any step of
`Replication` may come in between: `ReceiveRequest` ends with the read of `is_primary`,
`ReadSum` is the first `get_current_sum`, `Update` is `update_state`, `AnswerRequest` is the second
`get_current_sum` and the answer. A refusal reads the sum and answers in one step, because
nothing follows that depends on it. `Update` is the only action that
changes the manager.

A client is `ready`, `waiting` for an answer or `searching`. `Afterwards` is what both
loops of `RunClient` do with a result: search once after -2 and send the number again
under the next sequence number, otherwise go on. Neither the sequence number of an answer is
compared nor its sender, whose address replaces that of the server. Requests may time
out at any moment with no answer there, because the mutex is held through whole bursts.
A search is one step, because the discovery thread needs no lock: it finds the lowest
running server, and where datagrams may be lost any running server (`Discovered`) or none
(`NothingFound`), since a lost DESC or DESC_ACK makes the client go on to the next port.
`shown` is a history variable: the number in the answer that was printed last. Local send
errors, menus and the overflow of `int` are left out.

`requests`, `replies` and the history `log` (what was carried out, with the running
total) are not limited by a buffer; a loss is `LosePacket`.

### Bakery

`lamport.c` shares its arrays without fences or atomics. That is undefined in C, so the
module models what the build produces: the makefile compiles without optimisation, and
in that program (the checked-in `liblamport.so` shows it) each access is one load or one
store in program order. One action is one such access. A store of thread `i` enters
`buffer[i]` and reaches memory by `Drain(i)`, at any later time, as on x86; a thread sees
its own waiting stores. `WaitTicket`, `WaitSmaller` and `WaitEqual` are the three operands
of the condition at `lamport.c:31`, each of which loads `ticket[j]` anew.

- `max_ticket` has no `return`; its caller uses the register of the result, where that
  library has left the last maximum (`ScanTicket`).
- `accumulator++` is a load and a store.
- `mode` is the argument of the program: the bakery lock or the pthread mutex, whose
  operations are locked instructions and wait for the buffer to drain. A wrong or missing
  argument ends the program at once and is left out.
- Two histories: `reordered` becomes TRUE when a load of another thread's element
  overtakes a waiting store of its own thread, and `ahead[i]` is the set of threads that
  held a ticket when `i` arrived (forgotten once `reordered`, where no property asks for it).

The three safety properties are stated for executions that are not `reordered`: they are
what the algorithm promises and all that the code ensures. Without that condition TLC finds
executions where two threads are in the critical section and the printed sum is short.

## 3. Runs

| run | instance | shows |
|---|---|---|
| `rep_two` | 2 servers from `Init`, 2 starts each, loss, sockets of 3 | `TypeOK`, `RoleMatchesLeader`, `NoTornState`, `LeadershipSpec`, `SteppedDownStaysDown` |
| `rep_three` | 3 joined servers, addresses in the worst order, sockets of 2, crashes | `RoleMatchesLeader`, `RivalIsTold` |
| `rep_full` | 3 servers from `Init`, room for 2 entries | `ListFits` |
| `rep_failover` | 2 survivors of 3, ascending start order, one update more, fair | `NoTornState`, `Failover` |
| `rep_late_address` | the same, descending start order | `Failover` fails |
| `rep_highest_dead` | the primary and the highest server dead, fair | `SomeoneLeads` fails |
| `rep_uninformed` | 3 joined servers, 2 starts each | `InformedLeader` fails |
| `req_sync` | 1 client, 2 servers, the primary first, 2 starts each, no loss | `ServiceTypeOK`, `InSync`, `ListedIsReached`, `HeirKeepsAnswers` |
| `req_lossy` | 1 client, 2 servers from nothing, loss | `SumIsTotal`, `ReplyCounts`, `ShownInOrder`, `OncePerSeqn` |
| `req_two_clients` | 2 clients, 2 joined servers | `InSync` fails |
| `req_handover` | 1 client, 2 joined servers | `PrimaryUpdates` fails |
| `bakery` | 3 threads, one increment each, either lock, fair | `TypeOK`, `MutualExclusion`, `FirstComeFirstServed`, `NoLostIncrement`, `Finishes` |

The five runs that fail disagree with a comment of the source; section 6 and "findings"
in `PROJECT.json` quote it.

### Bounds

- Two servers are enough for every order of start, crash, restart, victory, step-down and
  update between a primary and a replica. A request for an election needs a third server, since
  2000 never has an election: so the answer of a higher server, an election of the receiver and
  its sleep, both threads of one server in an election, and two primaries of which one steps
  down without having been asked are in `rep_three` and the failover runs.
- The runs of three start from the joined state (`Joined`), which `Init` reaches by starting the
  servers one after another; the order, ascending or descending, decides which addresses
  the servers hold, and both orders are run. The state they begin with counts as one of
  `MAX_UPDATES`: in `rep_three` and `rep_late_address` there is no further update, in the other runs
  of three one more may follow, with another sum and number.
- `req_sync` starts from `PrimaryFirst`, the state after the first step of `Spec` if that is the
  start of the primary. A replica that is started before it sends copies to a socket that is not
  there yet, and if only the last copy arrives it stays listed by its bare port.
- `PRIMARY_TIMEOUT` is 1 and `REPLICA_TIMEOUT` 0 (5 and 3 seconds in the code): three ages,
  fresh, too old for an election to be skipped, expired. Where both are 0
  (`rep_three`, `rep_full` and the `req_` runs), two ages are left, fresh and expired.
- `BURST` 2 keeps what copies are for: one may be lost, and the second copy of a JOIN_REQUEST
  corrects the address. Where nothing is lost after joining, 1 is enough.
- `RCVBUF` is 2 or 3 where a full socket is wanted: in `rep_three` the receiver of a server sleeps
  while its socket of two fills up, and without heartbeats and updates the victory of the highest
  server still finds room in the socket of the first. In the runs that claim something only
  without loss (`req_sync`, the failovers) it is large enough that nothing overflows.
- `MAX_UPDATES` and `MAX_ADDS` allow one number, its repeat after a timeout, and in
  `req_two_clients` two numbers of each client.
- `Lossy` FALSE leaves the loss at full sockets and dead processes.
- `bakery` has the three threads of `lamport.h`, so that one may wait while two others
  overtake; one increment of each keeps the state space at 0.6 million states. `BUFFER` 2
  lets a ticket and the end of choosing wait together, and both of them delay later loads.

Deadlock is checked in every run of the servers, where time can always go on. The
exercise ends when its main thread has printed, so `bakery` does not check it; `Finishes`
says more.

### Fairness

The failover runs assume weak fairness of each receiver thread, of each checker thread, and
of time. Each is a loop that blocks only in `recvfrom` with a timeout, in sleeps and on a mutex that is
always released, so the scheduler lets it go on for ever. Nothing is assumed of crashes,
losses, clients, updates or heartbeats. After the death of the primary no process starts
or dies (`Undisturbed`).

`bakery` assumes weak fairness of the main thread, of each thread, and of each store
buffer: the scheduler runs every thread that can run, and a store reaches memory in the end.
Its busy loops are steps like any other, so nothing is assumed of their outcome.

## 4. Refinement

`Replication` implements `Leadership`, instantiated as `Abstract` with `leader[s]` the
`rm[s].primary_id` of a running server and `claimed` the history of that name
(`LeadershipSpec`). A server changes its leader only by claiming the role or by
following a *higher* server that claimed it at some time; this is what all the
interleavings of elections, late victories and restarts amount to. That two servers never lead at the
same time is not promised, because the program does not ensure it, nor that the highest server wins,
since a lower one may hold a list in which the higher is missing: `Claim` is unconstrained.

`RequestService` extends `Replication`, and its steps are those of that module, `update_state`
among them, or leave its variables alone. That is by construction and no property of a run; a lemma
(`ImplementsReplication`) carries the theorems about the manager over to the whole system.

## 5. Proofs

TLAPS proves every safety property of the passing runs, invariants and action properties
alike. Where the last column is empty, the theorem holds for any finite set of ports, any timeouts, bursts, buffers, bounds and losses
(and, for the exercise, any number of threads and increments); what it names there is assumed
in addition.

| theorem | says | under |
|---|---|---|
| `Invariance` | `Spec => []IInv` | |
| `TypeCorrect`, `RoleConsistent`, `StateUntorn` | the three invariants of `rep_two` | |
| `ImplementsLeadership` | `Spec => LeadershipSpec` | |
| `PrimaryPortStaysDown` | the action property of `rep_two` | no port below `PRIMARY_PORT` |
| `ListsFit` | `Spec => []ListFits` | |
| `RivalLearns`, `DescendingRivals` | `[]RivalIsTold` | joined servers, `MAX_STARTS <= 1`, no loss |
| `ListedAreReached` | `[]ListedIsReached` | from `PrimaryFirst`, `BURST >= 2`, no loss |
| `ServiceListedAreReached` | the same of the whole system | from `PrimaryFirst`, `AnyCall`, `BURST >= 2`, no loss |
| `ServiceTypeCorrect`, `ServiceUntorn` | types of the whole system, and `NoTornState` carried over | `AnyCall` |
| `NoPacketTwice` | `ServiceSpec => []OncePerSeqn` | `AnyCall` |
| `NoAdditionLost`, `AnswersTellTotals`, `TotalsGoForward` | `SumIsTotal`, `ReplyCounts` and `ShownInOrder` of the whole system | `AnyCall` |
| `ReplicasFollow` | `[]InSync` of the whole system | `AnyCall`, one client, no loss |
| `HeirsKeepAnswers` | `HeirKeepsAnswers` of the whole system | `AnyCall`, one client, no loss |
| `BakeryTypes`, `BakeryExcludes`, `BakeryInOrder`, `BakeryCounts` | types, `MutualExclusion`, `FirstComeFirstServed` and `NoLostIncrement` | |

"No loss" is what the properties themselves are said of, and has two parts: `Lossy = FALSE`, so
that none is lost on the way, and the hypothesis `[]NeverFull`, that each socket always
has room, since a datagram that finds a full socket is dropped. Joins, crashes, updates and
elections can all happen under it; but `[]NeverFull` is an assumption about load and scheduling
that the program does not establish. The runs do not assume
it: in `rep_three` a socket may be full, and there TLC shows the property all the same.
The other hypotheses are needed. With one copy of `JOIN_REQUEST` that arrives nothing corrects the
address (the code sends three, but to nobody before the primary is started). A server that is
started again has an empty list and is outside what `RivalIsTold` says. With two clients `InSync` is
false (`req_two_clients`). A run from `PrimaryFirst` is one from `Init` without its first step, so the
theorems about `ServiceSpec` cover `req_sync` too.

*The manager.* The properties are not inductive, since handlers store what they read
from the socket. `IInv` therefore says of every datagram in a socket that it is
`Credible`: a VICTORY comes from a server in `claimed`, and its state was passed to
`update_state`; and of every manager that it is `Sound`. There is one lemma per action
(`...Keeps`), put together in `NextIInv`. For the refinement each step
is shown to claim, to follow, to boot, to stop or to leave every leader alone (`...Means`). `PrimaryPortStaysDown` needs
that the first primary never reaches `elect`: it has no checker, and a request for an
election makes it start one only if it comes from a lower port. `ListsFit` has an invariant of its
own, since no other part of the state matters: a list only grows by entries for which
`HasRoom` has just been tested, by one (`JoinRequestFits`) or, for a received list, by a
set whose last member still found room (`ReplicaListFits`).

*The whole system.* The constants `Sums` and `Seqns` limit what `CallUpdateState` tries on its own, so
the theorems about `RequestService` assume that they contain all integers
(`AnyCall`). `NoPacketTwice` needs four facts (`OnceInv`): numbers in use are below the client's
next one, and no number is at two places among the sockets, the request threads and the log.
That the whole system makes only steps of `Next` needs one fact: a server that has been asked
something, or is answering, has created its threads (`BusyServes`).

*One primary.* The sums are right only while the first primary is alone (`Sole`; a
restart or a victory of another server ends it). `RoleInv`, which uses the refinement,
says that a sole primary names itself and that nobody else leads; `ForeignInv` that no server
is sent a STATE_UPDATE of its own; so no step of the manager changes the sum of a sole
primary (`SumKept`). `SumInv` then relates the three places a total can be: the manager,
the thread between its two calls, and the log. For `ShownInOrder` the numbers of one
client's requests are put in a line (`Item`): the one shown, those in answers, the one being
worked on, those waiting in the socket, and the next one. The line only moves forward
(`InOrder`), which gives the property for any number of servers, clients and losses.

*Joined servers.* Nobody joins any more, so no list changes its members (`JoinedInv`:
`JOIN_REQUEST` and list datagrams are gone, every running server lists all others and has the
address of the first primary). An election asks every listed server above the caller, and
waits for it, dead or not, so only the highest server ever declares a victory
(`OnlyTopClaims`; section 6 says what that costs). Two primaries
can therefore only be the first one and the highest. The highest reaches the first, so the
copies of its victory went into that socket; reading the first copy makes the first primary a
replica, so while it leads, one is unread (`VictoryWaits`, in `RivalInv`).

*The list of the first primary.* The property is about its socket: a running server that is listed by
a bare port has some datagram waiting there, or is still to send one. The invariant `ReachInv` treats
the servers by what they have done: those that are down or have copies to send are `Excused`, those
that have sent one are `Asked`. It has three parts. `Awaited` is the property for all that are not
excused. `Repeated` says that a waiting request of a server that is not listed, and not excused, has
another one of the same server beside it, so that the copy which creates the entry leaves one that
corrects it; and `Heeded` that a server which has asked and is not listed has a request waiting, which
makes the last copy such a second one. The last two hold while there is room in the list,
which is all the code promises. A server that dies is excused, and what it left in the socket is
allowed to correct the entry of its successor. `InboxOK` excludes what would disturb this: nobody sends
a sole primary a list, and the primary does not ask itself. `AllAlive` and `HoldsNoElection` say that it
drops nobody and does not go to sleep over its socket (`MembersInv`). All is stated of `FirstReign`: the
first primary is the only one and has not died. Replicas may die and join again at any time.

*Replicas.* `InSync` only speaks of replicas with nothing left to read; the invariant says what
the others will have when they have read it. `InStep` relates the manager of a replica, its
socket and the manager of the primary: the states that wait come in the order of their
sequence numbers, none older than the state held, and the last of them, or the state
held when there is none, is the primary's. `SyncInv` says this of every replica, and that the
primary lists and reaches each one that has a state or will get one, so that the next update will
not miss it (this is where `MembersInv` is needed; how it came to be reached does not matter, so
neither the copies of the JOIN_REQUEST nor the order of starts does). All other steps take the socket of a replica
to one with fewer states waiting, taken in order (`Carries`, `Takes`). A new update is appended, and must not be
refused when it is read: `Beyond` says that every request still to be carried out has a
higher sequence number than the primary's last, which follows from `InOrder` with one client.

*The heir.* When the first primary dies, what it held is gone, but every replica is still led to that
state: `Legacy(F)` says that the last state `F` of the primary has the sum of all numbers carried out,
and that every other server is in step with it as it was with the primary. It follows from `SyncInv`
at the death (`LegacyLeft`) and is kept until somebody leads (`Bereft`, `LegacyInv`), because a
server that has not claimed the role sends no state and no request thread is past its check. So who takes over
with a state and nothing left to read holds the sum of the log (`HeirsTotal`). `Covered` relates
this to the answers: none is for a later request than the last of the log, which follows from
`InOrder` when that request is carried out and from `SumInv` when it is answered.

*The bakery.* The invariant says, while nothing is reordered, what waits in each buffer
at each place (`Shape`) and, for each pair of threads, what one has established about the
other (`Pair`): past the wait for `j`, thread `i` has a visible ticket and `j` is
`Behind` it. `Behind` is kept by every load and store of `j`, whether it scans, takes a
ticket or waits; two threads that are each behind the other contradict each other, which
is mutual exclusion. For the pthread mode `HwPlace` says who holds the mutex.
`reordered` never becomes FALSE again, so a step that keeps it FALSE starts from the invariant.
For the sum, the increments are counted as a set, `Done`, of pairs of a thread and the number of
its increment; an increment adds one pair, so no sum over the threads is needed. `Exact`
says that what a thread has loaded, and what it sees of the accumulator when no other thread has a store to it
waiting, is the size of `Done`. At most one thread is between its load and the drain of
its last store (`Adding`): in the bakery mode the store of `ticket[i] = 0` waits
behind those of the accumulator, so that a thread whose stores wait still excludes the others;
in the other mode the unlock waits for the buffer. When the main thread prints, all have
ended (`JoinsInOrder`) and `Done` holds `N_ITERACTIONS` pairs of each thread.

The assumptions on constants are those named in the modules, and TLC evaluates them in every run.

Only model-checked: the liveness properties `Failover` and `Finishes`, which are beyond the
prover, and of course the properties that fail.

## 6. Where the code departs from its comments

1. `rep_late_address`: a new primary holds the bare port of a server that joined later, so a victory
   meant for all replicas ("Envia para todas as réplicas", `replication.c:1004`) never
   reaches it (`replication.c:307`).
2. `rep_highest_dead`: a dead server with a higher id is waited for in each try ("Aguarda ...
   antes de tentar novamente", `replication.c:1032`), so no try succeeds (`replication.c:967`).
3. `rep_uninformed`: the checker keeps a replica without initial state from electing itself
   (`replication.c:926`), the receiver does not (`replication.c:735`): the highest server, started
   again and called to an election before it has got a state, takes over with the sum 0.
4. `req_two_clients`: an update propagated to the replicas (`replication.c:851`) is
   refused there when another client has used a higher number (`replication.c:1048`).
5. `req_handover`: the check that the server is the primary (`server_prot.c:225`) is over
   when the update is made (`server_prot.c:237`).

Also seen, and not subject of a run: `HEARTBEAT_INTERVAL` is called seconds but the thread
sleeps that many milliseconds (`replication.c:207`), and a refused update is acknowledged as if it
had been taken over (`replication.c:1064`).
In the exercise, `lamport.c:22` stores `choosing[i]` and goes on to load the tickets with no
fence in between. `Relatório.pdf` reports that no increment is lost once the whole loop is a
critical section (pages 3-4); under store buffering one can be, which is why the properties
of `bakery` carry the condition `~reordered`.

## 7. Plan

Done: every module above, the runs, and the theorems of section 5. No safety or action property
of a passing run is left to prove. What could still be strengthened:

1. `[]NeverFull` could give way to the weaker hypothesis that no step overflows a socket, or, for
   `RivalIsTold` with one victory of `BURST` copies, to a bound on `RCVBUF`.
2. The steps that liveness rests on, stated as safety: that an election asked for in the joined
   state is either answered or ends in a victory that every survivor will read.
3. A death in the middle of a section under the mutex, as a step that delivers some of its datagrams.

Not modelled, and why:

- `discovery.c` is linked into the server and nothing starts it; the dead parts of
  `replication.c` have no caller; `election_server.c`, `old_server.c`, `client_socket.c`,
  `libbakery.c` and `program-mainbackup.c` are in no target of the makefiles;
  `server_control.c` is pseudo-code. None of them has behaviour to be checked.
- `processing.c` is not linked, and the main programs only read arguments and start threads.
- The width of `int`: an overflowing sum is undefined, and no code depends on it.
- Data races on list entries in handlers that use no mutex: handlers are atomic in the model.
- Menus, local send errors and the choice of an address in the client. A search is
  announced as "Found new primary", but the client takes the first server that answers, and
  nothing in the code could tell it which one leads; so no property claims it.
