----------------------------- MODULE BakeryProofs -----------------------------
(***************************************************************************)
(* What TLAPS proves of Bakery, for every number of threads, every number  *)
(* of increments and every size of the store buffers.                      *)
(***************************************************************************)
EXTENDS Bakery, SequenceTheorems, WellFoundedInduction, TLAPS

ChoosingStore(c) == [var |-> "choosing", val |-> c]

TicketStore(t) == [var |-> "ticket", val |-> t]

\* The ticket of i as i itself finds it.
Own(i) == Newest(buffer[i], "ticket", ticket[i])

Ticketed == {"chosen"} \cup Waiting \cup Critical \cup {"unlock", "return"}

\* The stores of a thread that left its critical section wait: the last one
\* resets its ticket, those before it write the accumulator.
Leaving(i) ==
  /\ thread[i].at = "return" /\ ticket[i] # 0 /\ buffer[i] # <<>>
  /\ \A k \in 1..Len(buffer[i]) :
       IF k = Len(buffer[i]) THEN buffer[i][k] = TicketStore(0)
       ELSE buffer[i][k].var = "accumulator"

\* All stores of a thread that left its critical section have reached memory.
Gone(i) == thread[i].at = "return" /\ ticket[i] = 0 /\ buffer[i] = <<>>

\* In its present loop i has read nothing of another thread yet.
ReadNoOther(i) == thread[i].j = 0 \/ (thread[i].j = 1 /\ i = 0)

\* A thread that has not begun has written nothing, and arrives after others.
Fresh(i) ==
  /\ thread[i].at \in {"new", "start"} =>
       buffer[i] = <<>> /\ choosing[i] = 0 /\ ticket[i] = 0 /\ thread[i].j = 0
  /\ i \notin ahead[i]

\* What waits in the buffer of i, and what of i has reached memory, at each
\* place, when no load of i has overtaken a store and there is another thread.
Shape(i) ==
  /\ thread[i].at = "max" =>
       /\ ticket[i] = 0
       /\ \/ buffer[i] = <<>> /\ choosing[i] = 1
          \/ buffer[i] = <<ChoosingStore(1)>> /\ ReadNoOther(i)
  /\ thread[i].at = "take" =>
       buffer[i] = <<>> /\ choosing[i] = 1 /\ ticket[i] = 0 /\ thread[i].j = 0
  /\ thread[i].at = "chosen" =>
       /\ choosing[i] = 1 /\ thread[i].j = 0
       /\ \/ buffer[i] = <<>> /\ ticket[i] > 0
          \/ ticket[i] = 0 /\ Own(i) > 0 /\ buffer[i] = <<TicketStore(Own(i))>>
  /\ thread[i].at \in Waiting =>
       \/ buffer[i] = <<>> /\ choosing[i] = 0 /\ ticket[i] > 0
       \/ /\ ReadNoOther(i) /\ (thread[i].at = "choosing" \/ thread[i].j = i)
          /\ choosing[i] = 1
          /\ \/ buffer[i] = <<ChoosingStore(0)>> /\ ticket[i] > 0
             \/ /\ ticket[i] = 0 /\ Own(i) > 0
                /\ buffer[i] = <<TicketStore(Own(i)), ChoosingStore(0)>>
  /\ thread[i].at \in Critical \cup {"unlock"} =>
       /\ choosing[i] = 0 /\ ticket[i] > 0
       /\ \A k \in 1..Len(buffer[i]) : buffer[i][k].var = "accumulator"
  /\ thread[i].at = "return" => Leaving(i) \/ Gone(i)

\* The ticket of i has reached memory.
Visible(i) == thread[i].at \in Ticketed /\ ticket[i] # 0

\* j cannot get past i, whose ticket is visible: it has no ticket, will get a
\* higher one, or has one that comes after that of i and has not compared them.
Behind(j, i) ==
  \/ thread[j].at \in {"new", "start"} \/ Gone(j)
  \/ thread[j].at = "max" /\ (thread[j].j <= i \/ ticket[i] <= thread[j].val)
  \/ thread[j].at = "take" /\ ticket[i] <= thread[j].val
  \/ /\ thread[j].at \in {"chosen"} \cup Waiting
     /\ thread[j].j <= i
     /\ ticket[i] < Own(j) \/ (ticket[i] = Own(j) /\ i < j)

Ordered(i, j) == Visible(i) /\ Behind(j, i)

\* What thread i knows of j.
Pair(i, j) ==
  /\ thread[i].at \in Waiting /\ j < thread[i].j => Ordered(i, j)
  /\ thread[i].at \in Critical \cup {"unlock"} \/ Leaving(i) => Ordered(i, j)
  /\ thread[i].at \in Waiting \ {"choosing"} /\ thread[i].j = j =>
       \/ Ordered(i, j)
       \/ Visible(i) /\ Visible(j) /\ (thread[i].at = "equal" => ticket[i] <= ticket[j])
  /\ i \in ahead[j] => thread[i].at = "return" \/ Ordered(i, j)

Pairs == \A i, j \in Thread : i # j => Shape(i) /\ Pair(i, j)

\* With the pthread mutex, a thread in its critical section holds it.
HwPlace(i) ==
  /\ thread[i].at \in {"new", "start", "unlock", "return"} \cup Critical
  /\ thread[i].at \in {"unlock"} \cup Critical => lock = i
  /\ thread[i].at = "return" => buffer[i] = <<>>
  /\ ahead[i] = {}

\* The inductive invariant.
IInv ==
  /\ TypeOK
  /\ main.at = "create" => \A i \in Thread : main.thread <= i => thread[i].at = "new"
  /\ \A i \in Thread : Fresh(i)
  /\ mode = "pthread" => \A i \in Thread : HwPlace(i)
  /\ mode = "lamport" /\ ~reordered => Pairs
-------------------------------------------------------------------------------
(* The newest store of a buffer.                                            *)

\* A set of positions in a sequence has a last one.
LEMMA LastPosition ==
  ASSUME NEW n \in Nat, NEW S \in SUBSET (1..n), S # {}
  PROVE  Max(S) \in S /\ \A y \in S : y <= Max(S)
<1> DEFINE R == OpToRel(<, Nat)
           D == {n - y : y \in S}
<1>1. D \subseteq Nat /\ D # {}
  <2>1. \A y \in S : n - y \in Nat
    OBVIOUS
  <2>2. PICK y \in S : TRUE
    OBVIOUS
  <2> QED
    BY <2>1, <2>2
<1>2. \E x \in D : \A y \in D : ~ (<<y, x>> \in R)
  <2> HIDE DEF R, D
  <2>1. IsWellFoundedOn(R, Nat)
    BY NatLessThanWellFounded DEF R
  <2> QED
    BY <1>1, <2>1, WFMin
<1>3. PICK x \in D : \A y \in D : ~ (<<y, x>> \in R)
  BY <1>2
<1>4. \A y \in D : x <= y
  <2> TAKE y \in D
  <2>1. x \in Nat /\ y \in Nat
    BY <1>1
  <2>2. ~ (y < x)
    BY <2>1, <1>3, Zenon DEF OpToRel
  <2> HIDE DEF D, R
  <2> QED
    BY <2>1, <2>2
<1>5. PICK m \in S : x = n - m
  BY <1>3
<1>6. \A y \in S : m >= y
  <2> TAKE y \in S
  <2>1. n - m <= n - y
    BY <1>4, <1>5
  <2> QED
    BY <2>1
<1>7. \A y \in S : Max(S) >= y /\ Max(S) \in S
  BY <1>6 DEF Max
<1> QED
  BY <1>6, <1>7

LEMMA NewestType ==
  ASSUME NEW s \in Seq(Store), NEW var, NEW value \in Nat
  PROVE  Newest(s, var, value) \in Nat
<1> DEFINE S == {k \in DOMAIN s : s[k].var = var}
<1>1. CASE S = {}
  BY <1>1 DEF Newest
<1>2. CASE S # {}
  <2>1. Len(s) \in Nat /\ DOMAIN s = 1..Len(s)
    OBVIOUS
  <2>2. Max(S) \in S
    BY <1>2, <2>1, LastPosition
  <2>3. s[Max(S)] \in Store
    BY <2>2
  <2> QED
    BY <1>2, <2>3 DEF Newest, Store
<1> QED
  BY <1>1, <1>2

LEMMA NewestNone ==
  ASSUME NEW s \in Seq(Store), NEW var, NEW value,
         \A k \in 1..Len(s) : s[k].var # var
  PROVE  Newest(s, var, value) = value
<1>1. {k \in DOMAIN s : s[k].var = var} = {}
  OBVIOUS
<1> QED
  BY <1>1 DEF Newest

LEMMA NewestFirst ==
  ASSUME NEW s \in Seq(Store), NEW var, NEW value, Len(s) \in {1, 2},
         s[1].var = var, Len(s) = 2 => s[2].var # var
  PROVE  Newest(s, var, value) = s[1].val
<1>1. {k \in DOMAIN s : s[k].var = var} = {1}
  OBVIOUS
<1>2. Max({1}) = 1
  BY DEF Max
<1> QED
  BY <1>1, <1>2 DEF Newest
-------------------------------------------------------------------------------
(* Types.                                                                   *)

Local == [at: Place, j: Thread, val: Nat, count: Nat]

LEMMA ThreadNumbers ==
  /\ 0 \in Thread /\ Thread \subseteq Nat
  /\ \A j \in Thread : Following(j) \in Thread
BY BakeryAssumption DEF Thread, Following

LEMMA SeenType ==
  ASSUME TypeOK, NEW i \in Thread, NEW j \in Thread
  PROVE  SeenTicket(i, j) \in Nat /\ SeenAccumulator(i) \in Nat
BY NewestType DEF TypeOK, SeenTicket, SeenAccumulator

LEMMA WriteType ==
  ASSUME TypeOK, NEW i \in Thread, NEW value \in Nat,
         NEW var \in {"choosing", "ticket", "accumulator"},
         var = "choosing" => value \in {0, 1}, Write(i, var, value)
  PROVE  buffer' \in [Thread -> Seq(Store)]
<1>1. [var |-> var, val |-> value] \in Store
  BY DEF Store
<1>2. Append(buffer[i], [var |-> var, val |-> value]) \in Seq(Store)
  BY <1>1 DEF TypeOK
<1> QED
  BY <1>2 DEF Write, TypeOK

LEMMA LocalType ==
  ASSUME TypeOK, NEW i \in Thread
  PROVE  /\ thread[i] \in Local
         /\ thread[i].at \in Place /\ thread[i].j \in Thread
         /\ thread[i].val \in Nat /\ thread[i].count \in Nat
BY DEF TypeOK, Local

LEMMA LocalUpdate ==
  ASSUME NEW r \in Local, NEW place \in Place, NEW j \in Thread,
         NEW v \in Nat, NEW count \in Nat
  PROVE  /\ [r EXCEPT !.at = place] \in Local
         /\ [r EXCEPT !.at = place, !.j = j] \in Local
         /\ [r EXCEPT !.at = place, !.val = v] \in Local
         /\ [r EXCEPT !.at = place, !.j = j, !.val = v] \in Local
         /\ [r EXCEPT !.at = place, !.val = v, !.count = count] \in Local
BY DEF Local

LEMMA Places ==
  /\ {"max", "take", "chosen", "unlock", "return"} \subseteq Place
  /\ Waiting \subseteq Place /\ Critical \subseteq Place
  /\ "choosing" \in Waiting /\ "ticket" \in Waiting
  /\ "smaller" \in Waiting /\ "equal" \in Waiting
  /\ "read" \in Critical /\ "write" \in Critical
BY DEF Place, Waiting, Critical

LEMMA GotoType ==
  ASSUME TypeOK, NEW i \in Thread, NEW place \in Place, Goto(i, place)
  PROVE  thread' \in [Thread -> Local]
<1>1. [thread[i] EXCEPT !.at = place] \in Local
  BY LocalType, LocalUpdate
<1> QED
  BY <1>1 DEF TypeOK, Goto, Local

LEMMA TypeInit == Init => TypeOK
BY ThreadNumbers DEF Init, TypeOK, NewThread, Place

LEMMA TypeStep ==
  ASSUME TypeOK, [Next]_vars
  PROVE  TypeOK'
<1> USE DEF rest, memory
<1>1. ASSUME NEW i \in Thread, StartChoosing(i) PROVE TypeOK'
  <2>1. buffer' \in [Thread -> Seq(Store)]
    BY <1>1, WriteType DEF StartChoosing
  <2>2. thread' \in [Thread -> Local]
    BY <1>1, GotoType DEF StartChoosing, Place
  <2> QED
    BY <1>1, <2>1, <2>2 DEF StartChoosing, TypeOK, Local
<1>2. ASSUME NEW i \in Thread, ScanTicket(i) PROVE TypeOK'
  <2> DEFINE j == thread[i].j
             t == SeenTicket(i, j)
             place == IF j + 1 = N_THREADS THEN "take" ELSE "max"
             v == IF j = 0 \/ t > thread[i].val THEN t ELSE thread[i].val
             L == [thread[i] EXCEPT !.at = place, !.j = Following(j), !.val = v]
  <2>1. Following(j) \in Thread /\ v \in Nat /\ place \in Place
    BY SeenType, LocalType, ThreadNumbers, Places
  <2>2. L \in Local
    <3> HIDE DEF place, v, j
    <3> QED
      BY <2>1, LocalType, LocalUpdate
  <2>3. thread' = [thread EXCEPT ![i] = L]
    BY <1>2 DEF ScanTicket, TypeOK
  <2>4. thread' \in [Thread -> Local]
    BY <2>2, <2>3 DEF TypeOK, Local
  <2> QED
    BY <1>2, <2>4 DEF ScanTicket, Load, TypeOK, Local
<1>3. ASSUME NEW i \in Thread, TakeTicket(i) PROVE TypeOK'
  <2>1. thread[i].val + 1 \in Nat
    BY DEF TypeOK
  <2>2. buffer' \in [Thread -> Seq(Store)]
    BY <1>3, <2>1, WriteType DEF TakeTicket
  <2>3. [thread[i] EXCEPT !.at = "chosen", !.val = 0] \in Local
    BY LocalType, LocalUpdate, Places
  <2>4. thread' = [thread EXCEPT ![i] = [thread[i] EXCEPT !.at = "chosen", !.val = 0]]
    BY <1>3 DEF TakeTicket, TypeOK
  <2>5. thread' \in [Thread -> Local]
    BY <2>3, <2>4 DEF TypeOK, Local
  <2> QED
    BY <1>3, <2>2, <2>5 DEF TakeTicket, TypeOK, Local
<1>4. ASSUME NEW i \in Thread, EndChoosing(i) PROVE TypeOK'
  <2>1. buffer' \in [Thread -> Seq(Store)]
    BY <1>4, WriteType DEF EndChoosing
  <2>2. thread' \in [Thread -> Local]
    BY <1>4, GotoType DEF EndChoosing, Place, Waiting
  <2> QED
    BY <1>4, <2>1, <2>2 DEF EndChoosing, TypeOK, Local
<1>5. ASSUME NEW i \in Thread, NextThread(i) PROVE thread' \in [Thread -> Local]
  <2> DEFINE j == thread[i].j
             place == IF j + 1 = N_THREADS THEN "read" ELSE "choosing"
             L == [thread[i] EXCEPT !.at = place, !.j = Following(j)]
  <2>1. Following(j) \in Thread /\ place \in Place
    BY LocalType, ThreadNumbers, Places
  <2>2. L \in Local
    <3> HIDE DEF place, j
    <3> QED
      BY <2>1, LocalType, LocalUpdate
  <2>3. thread' = [thread EXCEPT ![i] = L]
    BY <1>5 DEF NextThread, TypeOK
  <2> QED
    BY <2>2, <2>3 DEF TypeOK, Local
<1>6. ASSUME NEW i \in Thread,
             WaitChoosing(i) \/ WaitTicket(i) \/ WaitSmaller(i) \/ WaitEqual(i)
      PROVE  TypeOK'
  <2>1. thread' \in [Thread -> Local]
    BY <1>5, <1>6, GotoType
       DEF WaitChoosing, WaitTicket, WaitSmaller, WaitEqual, Place, Waiting
  <2> QED
    BY <1>6, <2>1 DEF WaitChoosing, WaitTicket, WaitSmaller, WaitEqual, Load, TypeOK, Local
<1>7. ASSUME NEW i \in Thread, Unlock(i) PROVE TypeOK'
  <2>1. buffer' \in [Thread -> Seq(Store)]
    BY <1>7, WriteType DEF Unlock
  <2>2. thread' \in [Thread -> Local]
    BY <1>7, GotoType DEF Unlock, Place
  <2> QED
    BY <1>7, <2>1, <2>2 DEF Unlock, TypeOK, Local
<1>8. ASSUME NEW i \in Thread, ReadAccumulator(i) PROVE TypeOK'
  <2> DEFINE L == [thread[i] EXCEPT !.at = "write", !.val = SeenAccumulator(i)]
  <2>1. L \in Local
    BY SeenType, LocalType, LocalUpdate, Places
  <2>2. thread' = [thread EXCEPT ![i] = L]
    BY <1>8 DEF ReadAccumulator, TypeOK
  <2>3. thread' \in [Thread -> Local]
    BY <2>1, <2>2 DEF TypeOK, Local
  <2> QED
    BY <1>8, <2>3 DEF ReadAccumulator, TypeOK, Local
<1>9. ASSUME NEW i \in Thread, WriteAccumulator(i) PROVE TypeOK'
  <2> DEFINE place == IF thread[i].count + 1 = N_ITERACTIONS THEN "unlock" ELSE "read"
             L == [thread[i] EXCEPT !.at = place, !.val = 0, !.count = thread[i].count + 1]
  <2>1. thread[i].val + 1 \in Nat
    BY DEF TypeOK
  <2>2. buffer' \in [Thread -> Seq(Store)]
    BY <1>9, <2>1, WriteType DEF WriteAccumulator
  <2>3. L \in Local
    <3>1. place \in Place /\ thread[i].count + 1 \in Nat
      BY LocalType, Places
    <3> HIDE DEF place
    <3> QED
      BY <3>1, LocalType, LocalUpdate
  <2>4. thread' = [thread EXCEPT ![i] = L]
    BY <1>9 DEF WriteAccumulator, TypeOK
  <2>5. thread' \in [Thread -> Local]
    BY <2>3, <2>4 DEF TypeOK, Local
  <2> QED
    BY <1>9, <2>2, <2>5 DEF WriteAccumulator, TypeOK, Local
<1>10. ASSUME NEW i \in Thread, HwLock(i) \/ HwUnlock(i) PROVE TypeOK'
  <2>1. thread' \in [Thread -> Local]
    BY <1>10, GotoType DEF HwLock, HwUnlock, Place, Critical
  <2> QED
    BY <1>10, <2>1 DEF HwLock, HwUnlock, TypeOK, Local
<1>11. ASSUME NEW i \in Thread, Drain(i) PROVE TypeOK'
  <2> DEFINE e == Head(buffer[i])
  <2>1. buffer[i] \in Seq(Store) /\ buffer[i] # <<>>
    BY <1>11 DEF Drain, TypeOK
  <2>2. e \in Store /\ Tail(buffer[i]) \in Seq(Store)
    BY <2>1
  <2>3. buffer' \in [Thread -> Seq(Store)]
    BY <1>11, <2>2 DEF Drain, TypeOK
  <2>4. ticket' \in [Thread -> Nat] /\ accumulator' \in Nat /\ choosing' \in [Thread -> {0, 1}]
    BY <1>11, <2>2 DEF Drain, TypeOK, Store
  <2> QED
    BY <1>11, <2>3, <2>4 DEF Drain, TypeOK, Local
<1>12. CASE Create
  <2>1. main.thread \in Thread /\ Following(main.thread) \in Thread
    BY ThreadNumbers DEF TypeOK
  <2>2. thread' \in [Thread -> Local]
    BY <1>12, <2>1, GotoType DEF Create, Place
  <2> QED
    BY <1>12, <2>1, <2>2 DEF Create, NextInOrder, TypeOK, Local
<1>13. CASE Join
  <2>1. main.thread \in Thread /\ Following(main.thread) \in Thread
    BY ThreadNumbers DEF TypeOK
  <2> QED
    BY <1>13, <2>1 DEF Join, NextInOrder, TypeOK, Local
<1>14. CASE UNCHANGED vars
  BY <1>14 DEF vars, TypeOK
<1> QED
  BY <1>1, <1>2, <1>3, <1>4, <1>6, <1>7, <1>8, <1>9, <1>10, <1>11, <1>12, <1>13, <1>14
     DEF Next, MainStep, ThreadStep

\* Every variable has its type, for any number of threads and increments
\* (the declarations of lamport.h).
THEOREM BakeryTypes == Spec => []TypeOK
<1>1. TypeOK /\ [Next]_vars => TypeOK'
  BY TypeStep
<1> QED
  BY TypeInit, <1>1, PTL DEF Spec
-------------------------------------------------------------------------------
(* What a thread's buffer says of its ticket.                               *)

LEMMA NewestTicket ==
  ASSUME NEW s \in Seq(Store), NEW value
  PROVE  /\ s = <<>> => Newest(s, "ticket", value) = value
         /\ \A c : s = <<ChoosingStore(c)>> => Newest(s, "ticket", value) = value
         /\ \A t : s = <<TicketStore(t)>> => Newest(s, "ticket", value) = t
         /\ \A t : s = <<TicketStore(t), ChoosingStore(0)>> => Newest(s, "ticket", value) = t
<1>1. ASSUME s = <<>> PROVE Newest(s, "ticket", value) = value
  <2>1. \A k \in 1..Len(s) : s[k].var # "ticket"
    BY <1>1
  <2> QED
    BY <2>1, NewestNone
<1>2. ASSUME NEW c, s = <<ChoosingStore(c)>> PROVE Newest(s, "ticket", value) = value
  <2>1. \A k \in 1..Len(s) : s[k].var # "ticket"
    BY <1>2 DEF ChoosingStore
  <2> QED
    BY <2>1, NewestNone
<1>3. ASSUME NEW t, s = <<TicketStore(t)>> PROVE Newest(s, "ticket", value) = t
  <2>1. Len(s) = 1 /\ s[1].var = "ticket" /\ s[1].val = t
    BY <1>3 DEF TicketStore
  <2> QED
    BY <2>1, NewestFirst
<1>4. ASSUME NEW t, s = <<TicketStore(t), ChoosingStore(0)>>
      PROVE  Newest(s, "ticket", value) = t
  <2>1. Len(s) = 2 /\ s[1].var = "ticket" /\ s[1].val = t /\ s[2].var = "choosing"
    BY <1>4 DEF TicketStore, ChoosingStore
  <2> QED
    BY <2>1, NewestFirst
<1> QED
  BY <1>1, <1>2, <1>3, <1>4

LEMMA OwnFacts ==
  ASSUME TypeOK, NEW i \in Thread
  PROVE  /\ buffer[i] = <<>> => Own(i) = ticket[i]
         /\ \A c : buffer[i] = <<ChoosingStore(c)>> => Own(i) = ticket[i]
         /\ \A t : buffer[i] = <<TicketStore(t)>> => Own(i) = t
         /\ \A t : buffer[i] = <<TicketStore(t), ChoosingStore(0)>> => Own(i) = t
         /\ Own(i) \in Nat /\ ticket[i] \in Nat
<1>1. buffer[i] \in Seq(Store) /\ ticket[i] \in Nat
  BY DEF TypeOK
<1> QED
  BY <1>1, NewestTicket, NewestType DEF Own

LEMMA OwnFactsNext ==
  ASSUME TypeOK', NEW i \in Thread
  PROVE  /\ buffer'[i] = <<>> => Own(i)' = ticket'[i]
         /\ \A c : buffer'[i] = <<ChoosingStore(c)>> => Own(i)' = ticket'[i]
         /\ \A t : buffer'[i] = <<TicketStore(t)>> => Own(i)' = t
         /\ \A t : buffer'[i] = <<TicketStore(t), ChoosingStore(0)>> => Own(i)' = t
         /\ Own(i)' \in Nat /\ ticket'[i] \in Nat
<1>1. buffer'[i] \in Seq(Store) /\ ticket'[i] \in Nat
  BY DEF TypeOK
<1> QED
  BY <1>1, NewestTicket, NewestType DEF Own
-------------------------------------------------------------------------------
(* A step of thread p changes nothing of the others, so that the invariant  *)
(* has to be shown for the pairs with p only.                               *)

Same(k) ==
  /\ thread'[k] = thread[k] /\ buffer'[k] = buffer[k]
  /\ choosing'[k] = choosing[k] /\ ticket'[k] = ticket[k]

Others(p) == \A k \in Thread \ {p} : Same(k) /\ ahead'[k] \subseteq ahead[k]

LEMMA SameFacts ==
  ASSUME NEW k \in Thread, Same(k)
  PROVE  /\ Shape(k) => Shape(k)'
         /\ Own(k)' = Own(k)
         /\ Visible(k)' = Visible(k)
<1>1. Own(k)' = Own(k)
  BY DEF Same, Own
<1>2. ReadNoOther(k)' = ReadNoOther(k)
  BY DEF Same, ReadNoOther
<1>3. Shape(k) => Shape(k)'
  BY <1>1, <1>2 DEF Same, Shape, Leaving, Gone
<1> QED
  BY <1>1, <1>3 DEF Same, Visible

LEMMA SameBehind ==
  ASSUME NEW i \in Thread, NEW k \in Thread, Same(k), ticket'[i] = ticket[i]
  PROVE  Behind(k, i) => Behind(k, i)'
BY SameFacts DEF Same, Behind, Gone

\* The facts about i and k of two threads that do not move.
LEMMA SamePair ==
  ASSUME NEW i \in Thread, NEW k \in Thread, Same(i), Same(k), ahead'[k] \subseteq ahead[k],
         Pair(i, k)
  PROVE  Pair(i, k)'
<1>1. Ordered(i, k) => Ordered(i, k)'
  BY SameFacts, SameBehind DEF Ordered, Same
<1>2. Visible(i)' = Visible(i) /\ Visible(k)' = Visible(k)
  BY SameFacts
<1> QED
  BY <1>1, <1>2 DEF Pair, Same, Leaving

\* What must be shown of a step of p: what others know of p stays true, and p
\* knows what its new place demands.
LEMMA PairStep ==
  ASSUME Pairs, NEW p \in Thread, Others(p), Shape(p)',
         \A k \in Thread \ {p} : Ordered(k, p) => Ordered(k, p)',
         \A k \in Thread \ {p} : Visible(k) /\ Visible(p) =>
           Ordered(k, p)' \/ (Visible(p)' /\ ticket'[p] = ticket[p]),
         \A k \in Thread \ {p} : Pair(p, k)',
         \A k \in ahead'[p] \ ahead[p] : k \in Thread \ {p} =>
           thread[k].at = "return" \/ Ordered(k, p)'
  PROVE  Pairs'
<1> SUFFICES ASSUME NEW i \in Thread, NEW k \in Thread, i # k
             PROVE  Shape(i)' /\ Pair(i, k)'
  BY DEF Pairs
<1>1. Shape(i) /\ Pair(i, k)
  BY DEF Pairs
<1>2. Shape(i)'
  BY <1>1, SameFacts DEF Others
<1>3. CASE i = p
  BY <1>2, <1>3
<1>4. CASE k = p
  <2>1. Same(i)
    BY <1>4 DEF Others
  <2>2. /\ Visible(i)' = Visible(i) /\ thread'[i] = thread[i] /\ ticket'[i] = ticket[i]
        /\ buffer'[i] = buffer[i]
    BY <2>1, SameFacts DEF Same
  <2>3. Ordered(i, p) => Ordered(i, p)'
    BY <1>4
  <2>4. Visible(i) /\ Visible(p) =>
          Ordered(i, p)' \/ (Visible(p)' /\ ticket'[p] = ticket[p])
    BY <1>4
  <2>5. i \in ahead'[p] => thread[i].at = "return" \/ Ordered(i, p)'
    BY <1>1, <1>4, <2>3 DEF Pair, Leaving
  <2>6. Pair(i, p)'
    BY <1>1, <1>4, <2>2, <2>3, <2>4, <2>5 DEF Pair, Leaving
  <2> QED
    BY <1>2, <1>4, <2>6
<1>5. CASE i # p /\ k # p
  BY <1>1, <1>2, <1>5, SamePair DEF Others
<1> QED
  BY <1>3, <1>4, <1>5

\* Of two threads with visible tickets, one is behind the other.
LEMMA Exclusion ==
  ASSUME TypeOK, NEW i \in Thread, NEW k \in Thread, i # k, Shape(i), Shape(k)
  PROVE  ~ (Ordered(i, k) /\ Ordered(k, i))
<1>1. Visible(i) =>
        Own(i) = ticket[i] \/ thread[i].at \in Critical \cup {"unlock", "return"}
  BY OwnFacts DEF Visible, Shape, Ticketed
<1>2. Visible(k) =>
        Own(k) = ticket[k] \/ thread[k].at \in Critical \cup {"unlock", "return"}
  BY OwnFacts DEF Visible, Shape, Ticketed
<1>3. ticket[i] \in Nat /\ ticket[k] \in Nat /\ i \in Nat /\ k \in Nat
  BY OwnFacts, ThreadNumbers
<1>4. Ordered(i, k) => /\ Visible(i)
                       /\ Visible(k) => ticket[i] < ticket[k] \/ (ticket[i] = ticket[k] /\ i < k)
  BY <1>2 DEF Ordered, Behind, Visible, Ticketed, Critical, Waiting, Gone
<1>5. Ordered(k, i) => /\ Visible(k)
                       /\ Visible(i) => ticket[k] < ticket[i] \/ (ticket[k] = ticket[i] /\ k < i)
  BY <1>1 DEF Ordered, Behind, Visible, Ticketed, Critical, Waiting, Gone
<1> QED
  BY <1>3, <1>4, <1>5
-------------------------------------------------------------------------------
(* Taking a ticket.                                                         *)

LEMMA AppendOne ==
  ASSUME NEW S, NEW a \in S, NEW b \in S
  PROVE  Append(<<a>>, b) = <<a, b>>
<1> DEFINE u == Append(<<a>>, b)
           w == <<a, b>>
<1>1. <<a>> \in Seq(S) /\ Len(<<a>>) = 1 /\ <<a>>[1] = a
  OBVIOUS
<1>2. u \in Seq(S) /\ Len(u) = 2 /\ u[1] = a /\ u[2] = b
  BY <1>1, AppendProperties
<1>3. w \in Seq(S) /\ Len(w) = 2 /\ w[1] = a /\ w[2] = b
  OBVIOUS
<1>4. \A k \in 1..Len(u) : u[k] = w[k]
  BY <1>2, <1>3
<1> HIDE DEF u, w
<1>5. u = w
  BY <1>2, <1>3, <1>4, SeqEqual
<1> QED
  BY <1>5 DEF u, w

\* Orders that p owes to its ticket survive a step that keeps the ticket.
LEMMA KeepsOrder ==
  ASSUME NEW p \in Thread, NEW k \in Thread, Same(k), ticket'[p] = ticket[p],
         thread'[p].at \in Ticketed
  PROVE  Ordered(p, k) => Ordered(p, k)'
BY SameBehind DEF Ordered, Visible

LEMMA StartStep ==
  ASSUME TypeOK, Pairs, \A i \in Thread : Fresh(i),
         NEW p \in Thread, StartChoosing(p)
  PROVE  Pairs'
<1> USE DEF memory, rest
<1>1. Others(p)
  BY DEF StartChoosing, Goto, Write, Others, Same, TypeOK
<1>2. /\ thread[p].at = "start" /\ thread'[p].at = "max" /\ thread'[p].j = 0
      /\ buffer[p] = <<>> /\ ticket[p] = 0 /\ ticket' = ticket
      /\ buffer'[p] = Append(buffer[p], ChoosingStore(1))
      /\ \A k \in ahead'[p] : ticket[k] # 0
      /\ \A k \in Thread \ {p} : ahead'[k] = ahead[k]
  BY DEF StartChoosing, Goto, Write, ChoosingStore, Fresh, TypeOK
<1>3. buffer'[p] = <<ChoosingStore(1)>>
  BY <1>2
<1>4. Shape(p)'
  BY <1>2, <1>3 DEF Shape, ReadNoOther, Waiting, Critical
<1>5. ~ Visible(p)
  BY <1>2 DEF Visible
<1>6. \A k \in Thread \ {p} : Visible(k) => Ordered(k, p)'
  <2> TAKE k \in Thread \ {p}
  <2>1. Visible(k)' = Visible(k)
    BY <1>1, SameFacts DEF Others
  <2>2. thread'[p].j <= k
    BY <1>2, ThreadNumbers
  <2>3. Behind(p, k)'
    BY <1>2, <2>2 DEF Behind
  <2> QED
    BY <2>1, <2>3 DEF Ordered
<1>7. \A k \in Thread \ {p} : Pair(p, k)'
  <2> TAKE k \in Thread \ {p}
  <2>1. p \notin ahead[k]
    BY <1>2, <1>5 DEF Pairs, Pair, Ordered, Leaving
  <2> QED
    BY <1>1, <1>2, <2>1 DEF Pair, Waiting, Critical, Others, Leaving
<1>8. \A k \in ahead'[p] : k \in Thread \ {p} => thread[k].at = "return" \/ Ordered(k, p)'
  <2> SUFFICES ASSUME NEW k \in Thread \ {p}, ticket[k] # 0
               PROVE  thread[k].at = "return" \/ Visible(k)
    BY <1>2, <1>6
  <2> QED
    <3>1. Shape(k) /\ Fresh(k) /\ thread[k].at \in Place
      BY LocalType DEF Pairs
    <3> QED
      BY <3>1 DEF Shape, Visible, Ticketed, Place, Fresh
<1> QED
  BY <1>1, <1>4, <1>5, <1>6, <1>7, <1>8, PairStep DEF Ordered

LEMMA ScanStep ==
  ASSUME TypeOK, Pairs, NEW p \in Thread, ScanTicket(p), ~reordered', N_THREADS > 1
  PROVE  Pairs'
<1> USE DEF memory, rest
<1> DEFINE m == thread[p].j
           t == SeenTicket(p, m)
<1>1. Others(p)
  BY DEF ScanTicket, Load, Others, Same, TypeOK
<1>2. /\ thread[p].at = "max"
      /\ thread'[p].at = IF m + 1 = N_THREADS THEN "take" ELSE "max"
      /\ thread'[p].j = Following(m)
      /\ thread'[p].val = IF m = 0 \/ t > thread[p].val THEN t ELSE thread[p].val
      /\ buffer' = buffer /\ ticket' = ticket /\ choosing' = choosing /\ ahead' = ahead
  BY DEF ScanTicket, Load, TypeOK
<1>3. m # p => buffer[p] = <<>>
  BY DEF ScanTicket, Load
<1>4. m \in Thread /\ m \in Nat /\ p \in Nat /\ t \in Nat /\ thread[p].val \in Nat
  BY LocalType, SeenType, ThreadNumbers
<1>5. Shape(p)
  <2>1. PICK k \in Thread : k # p
    BY BakeryAssumption DEF Thread
  <2> QED
    BY <2>1 DEF Pairs
<1>6. Shape(p)'
  <2>1. buffer[p] # <<>> => p = 0 /\ m = 0
    BY <1>2, <1>3, <1>4, <1>5 DEF Shape, ReadNoOther
  <2>2. buffer[p] # <<>> => buffer[p] = <<ChoosingStore(1)>> /\ ticket[p] = 0
    BY <1>2, <1>5 DEF Shape
  <2>3. buffer[p] = <<>> => choosing[p] = 1 /\ ticket[p] = 0
    BY <1>2, <1>5 DEF Shape
  <2> QED
    BY <1>2, <1>4, <2>1, <2>2, <2>3 DEF Shape, ReadNoOther, Waiting, Critical, Following
<1>7. ~ Visible(p)
  BY <1>2, <1>5 DEF Visible, Shape
<1>8. \A k \in Thread \ {p} : Ordered(k, p) => Ordered(k, p)'
  <2> SUFFICES ASSUME NEW k \in Thread \ {p}, Ordered(k, p)
               PROVE  Behind(p, k)'
    BY <1>1, SameFacts DEF Ordered, Others
  <2>1. m <= k \/ ticket[k] <= thread[p].val
    BY <1>2 DEF Ordered, Behind, Waiting, Gone
  <2>2. m = k => t = ticket[k]
    BY DEF SeenTicket
  <2>3. k \in Nat /\ k < N_THREADS /\ ticket[k] \in Nat
    BY OwnFacts, BakeryAssumption DEF Thread
  <2>4. thread'[p].at = "max" => thread'[p].j <= k \/ ticket[k] <= thread'[p].val
    BY <1>2, <1>4, <2>1, <2>2, <2>3 DEF Following
  <2>5. thread'[p].at = "take" => ticket[k] <= thread'[p].val
    BY <1>2, <1>4, <2>1, <2>2, <2>3 DEF Following
  <2> QED
    BY <1>2, <2>4, <2>5 DEF Behind, Gone
<1>9. \A k \in Thread \ {p} : Pair(p, k)'
  <2> TAKE k \in Thread \ {p}
  <2>1. p \notin ahead[k]
    BY <1>2, <1>7 DEF Pairs, Pair, Ordered, Leaving
  <2> QED
    BY <1>2, <2>1 DEF Pair, Waiting, Critical, Leaving
<1> QED
  BY <1>1, <1>2, <1>6, <1>7, <1>8, <1>9, PairStep

LEMMA TakeStep ==
  ASSUME TypeOK, TypeOK', Pairs, NEW p \in Thread, TakeTicket(p), N_THREADS > 1
  PROVE  Pairs'
<1> USE DEF memory, rest
<1> DEFINE t == thread[p].val + 1
<1>1. Others(p)
  BY DEF TakeTicket, Write, Others, Same, TypeOK
<1>2. /\ thread[p].at = "take" /\ thread'[p].at = "chosen" /\ thread'[p].j = thread[p].j
      /\ buffer'[p] = Append(buffer[p], TicketStore(t))
      /\ ticket' = ticket /\ choosing' = choosing /\ ahead' = ahead
  BY DEF TakeTicket, Write, TicketStore, TypeOK
<1>3. Shape(p)
  <2>1. PICK k \in Thread : k # p
    BY BakeryAssumption DEF Thread
  <2> QED
    BY <2>1 DEF Pairs
<1>4. buffer[p] = <<>> /\ choosing[p] = 1 /\ ticket[p] = 0 /\ thread[p].j = 0
  BY <1>2, <1>3 DEF Shape
<1>5. buffer'[p] = <<TicketStore(t)>>
  BY <1>2, <1>4
<1>6. Own(p)' = t /\ t \in Nat /\ t > 0
  BY <1>5, OwnFactsNext, LocalType
<1>7. Shape(p)'
  BY <1>2, <1>4, <1>5, <1>6 DEF Shape, Waiting, Critical
<1>8. ~ Visible(p)
  BY <1>2, <1>4 DEF Visible
<1>9. \A k \in Thread \ {p} : Ordered(k, p) => Ordered(k, p)'
  <2> SUFFICES ASSUME NEW k \in Thread \ {p}, Ordered(k, p)
               PROVE  Behind(p, k)'
    BY <1>1, SameFacts DEF Ordered, Others
  <2>1. ticket[k] <= thread[p].val
    BY <1>2 DEF Ordered, Behind, Waiting, Gone
  <2>2. ticket[k] \in Nat /\ thread[p].val \in Nat /\ k \in Nat
    BY OwnFacts, LocalType, ThreadNumbers
  <2>3. ticket'[k] < Own(p)' /\ thread'[p].j <= k
    BY <1>2, <1>4, <1>6, <2>1, <2>2
  <2> QED
    BY <1>2, <2>3 DEF Behind, Gone
<1>10. \A k \in Thread \ {p} : Pair(p, k)'
  <2> TAKE k \in Thread \ {p}
  <2>1. p \notin ahead[k]
    BY <1>2, <1>8 DEF Pairs, Pair, Ordered, Leaving
  <2> QED
    BY <1>2, <2>1 DEF Pair, Waiting, Critical, Leaving
<1> QED
  BY <1>1, <1>2, <1>7, <1>8, <1>9, <1>10, PairStep

LEMMA ChosenStep ==
  ASSUME TypeOK, TypeOK', Pairs, NEW p \in Thread, EndChoosing(p), N_THREADS > 1
  PROVE  Pairs'
<1> USE DEF memory, rest
<1>1. Others(p)
  BY DEF EndChoosing, Goto, Write, Others, Same, TypeOK
<1>2. /\ thread[p].at = "chosen" /\ thread'[p].at = "choosing"
      /\ thread'[p].j = thread[p].j
      /\ buffer'[p] = Append(buffer[p], ChoosingStore(0))
      /\ ticket' = ticket /\ choosing' = choosing /\ ahead' = ahead
  BY DEF EndChoosing, Goto, Write, ChoosingStore, TypeOK
<1>3. Shape(p)
  <2>1. PICK k \in Thread : k # p
    BY BakeryAssumption DEF Thread
  <2> QED
    BY <2>1 DEF Pairs
<1>4. choosing[p] = 1 /\ thread[p].j = 0
  BY <1>2, <1>3 DEF Shape
<1>5. Own(p)' = Own(p) /\ Shape(p)'
  <2>1. CASE buffer[p] = <<>> /\ ticket[p] > 0
    <3>1. buffer'[p] = <<ChoosingStore(0)>>
      BY <1>2, <2>1
    <3>2. Own(p)' = Own(p)
      BY <1>2, <2>1, <3>1, OwnFacts, OwnFactsNext
    <3> QED
      BY <1>2, <1>4, <2>1, <3>1, <3>2 DEF Shape, ReadNoOther, Waiting, Critical
  <2>2. CASE ticket[p] = 0 /\ Own(p) > 0 /\ buffer[p] = <<TicketStore(Own(p))>>
    <3>1. buffer'[p] = <<TicketStore(Own(p)), ChoosingStore(0)>>
      <4>1. TicketStore(Own(p)) \in Store /\ ChoosingStore(0) \in Store
        BY OwnFacts DEF TicketStore, ChoosingStore, Store
      <4> QED
        BY <1>2, <2>2, <4>1, AppendOne
    <3>2. Own(p)' = Own(p)
      BY <3>1, OwnFacts, OwnFactsNext
    <3> QED
      BY <1>2, <1>4, <2>2, <3>1, <3>2 DEF Shape, ReadNoOther, Waiting, Critical
  <2> QED
    BY <1>2, <1>3, <2>1, <2>2 DEF Shape
<1>6. Visible(p)' = Visible(p) /\ thread'[p].at \in Ticketed
  BY <1>2 DEF Visible, Ticketed, Waiting
<1>7. \A k \in Thread \ {p} : Ordered(k, p) => Ordered(k, p)'
  <2> SUFFICES ASSUME NEW k \in Thread \ {p}, Ordered(k, p)
               PROVE  Behind(p, k)'
    BY <1>1, SameFacts DEF Ordered, Others
  <2> QED
    BY <1>2, <1>5 DEF Ordered, Behind, Waiting, Gone
<1>8. \A k \in Thread \ {p} : Pair(p, k)'
  <2> TAKE k \in Thread \ {p}
  <2>1. Pair(p, k) /\ Same(k)
    BY <1>1 DEF Pairs, Others
  <2>2. Ordered(p, k) => Ordered(p, k)'
    BY <1>2, <1>6, <2>1, KeepsOrder
  <2> QED
    BY <1>2, <1>4, <2>1, <2>2, ThreadNumbers DEF Pair, Waiting, Critical, Leaving
<1> QED
  BY <1>1, <1>2, <1>5, <1>6, <1>7, <1>8, PairStep
-------------------------------------------------------------------------------
(* Waiting for the others.                                                  *)

\* The places that only look, none of which another thread can notice.
Looks(p) ==
  /\ buffer' = buffer /\ ticket' = ticket /\ choosing' = choosing /\ ahead' = ahead
  /\ \A k \in Thread \ {p} : thread'[k] = thread[k]

LEMMA LooksFacts ==
  ASSUME NEW p \in Thread, Looks(p)
  PROVE  /\ Others(p) /\ Own(p)' = Own(p)
         /\ \A k \in Thread \ {p} :
              /\ Visible(k)' = Visible(k)
              /\ thread'[p].at \in Ticketed => (Ordered(p, k) => Ordered(p, k)')
<1>1. Others(p)
  BY DEF Looks, Others, Same
<1> QED
  BY <1>1, SameFacts, KeepsOrder DEF Others, Looks, Own

\* p stays at the same thread of its loop.
LEMMA StayStep ==
  ASSUME TypeOK, Pairs, NEW p \in Thread, N_THREADS > 1, Looks(p),
         thread[p].at \in Waiting, thread'[p].at \in Waiting \ {"choosing"},
         thread'[p].j = thread[p].j,
         thread[p].j # p => buffer[p] = <<>>,
         \A k \in Thread \ {p} : thread[p].j = k /\ Visible(p) =>
           \/ Ordered(p, k)
           \/ Visible(k) /\ (thread'[p].at = "equal" => ticket[p] <= ticket[k])
  PROVE  Pairs'
<1>1. Shape(p)
  <2>1. PICK k \in Thread : k # p
    BY BakeryAssumption DEF Thread
  <2> QED
    BY <2>1 DEF Pairs
<1>2. Shape(p)'
  <2>1. buffer[p] # <<>> => thread'[p].j = p /\ ReadNoOther(p)'
    BY <1>1 DEF Shape, ReadNoOther
  <2>2. buffer[p] = <<>> => choosing[p] = 0 /\ ticket[p] > 0
    BY <1>1 DEF Shape, ChoosingStore, TicketStore
  <2>3. CASE buffer[p] = <<>>
    BY <2>2, <2>3 DEF Shape, Looks, Waiting, Critical
  <2>4. CASE buffer[p] # <<>>
    BY <1>1, <2>1, <2>4, LooksFacts DEF Shape, Looks, Waiting, Critical
  <2> QED
    BY <2>3, <2>4
<1>3. thread[p].j # p => Visible(p)
  BY <1>1, OwnFacts DEF Shape, Visible, Ticketed, Waiting, ChoosingStore, TicketStore
<1>4. thread'[p].at \in Ticketed /\ Visible(p)' = Visible(p)
  BY DEF Ticketed, Visible, Looks
<1>5. \A k \in Thread \ {p} : Ordered(k, p) => Ordered(k, p)'
  BY LooksFacts DEF Ordered, Behind, Waiting, Looks, Gone
<1>6. \A k \in Thread \ {p} : Pair(p, k)'
  <2> TAKE k \in Thread \ {p}
  <2>1. Pair(p, k) /\ (Ordered(p, k) => Ordered(p, k)') /\ Visible(k)' = Visible(k)
    BY <1>4, LooksFacts DEF Pairs
  <2> QED
    BY <1>3, <1>4, <2>1 DEF Pair, Waiting, Critical, Looks, Leaving
<1> QED
  BY <1>2, <1>4, <1>5, <1>6, LooksFacts, PairStep DEF Looks

\* p goes past the thread it has waited for, which is behind it.
LEMMA PassStep ==
  ASSUME TypeOK, Pairs, NEW p \in Thread, N_THREADS > 1, Looks(p),
         thread[p].at \in Waiting \ {"choosing"}, NextThread(p),
         thread[p].j # p => buffer[p] = <<>> /\ Ordered(p, thread[p].j)
  PROVE  Pairs'
<1> DEFINE m == thread[p].j
<1>1. Shape(p)
  <2>1. PICK k \in Thread : k # p
    BY BakeryAssumption DEF Thread
  <2> QED
    BY <2>1 DEF Pairs
<1>2. /\ thread'[p].at = IF m + 1 = N_THREADS THEN "read" ELSE "choosing"
      /\ thread'[p].j = Following(m)
  BY DEF NextThread, TypeOK
<1>3. m \in Thread /\ m \in Nat /\ p \in Nat /\ m < N_THREADS /\ N_THREADS \in Nat
  BY LocalType, ThreadNumbers, BakeryAssumption DEF Thread
<1>4. Shape(p)'
  <2>1. CASE buffer[p] = <<>> /\ choosing[p] = 0 /\ ticket[p] > 0
    BY <1>2, <2>1 DEF Shape, Looks, Waiting, Critical
  <2>2. CASE buffer[p] # <<>>
    <3>1. m = p /\ ReadNoOther(p)
      BY <1>1, <2>2 DEF Shape
    <3>2. m = 0 /\ p = 0
      BY <1>3, <3>1 DEF ReadNoOther
    <3>3. thread'[p].at = "choosing" /\ thread'[p].j = 1 /\ ReadNoOther(p)'
      BY <1>2, <1>3, <3>2 DEF Following, ReadNoOther
    <3> QED
      BY <1>1, <2>2, <3>2, <3>3, LooksFacts DEF Shape, Looks, Waiting, Critical
  <2>3. buffer[p] = <<>> => choosing[p] = 0 /\ ticket[p] > 0
    BY <1>1 DEF Shape, ChoosingStore, TicketStore
  <2> QED
    BY <2>1, <2>2, <2>3
<1>5. thread'[p].at \in Ticketed /\ Visible(p)' = Visible(p)
  BY <1>2 DEF Ticketed, Visible, Looks, Waiting, Critical
<1>6. \A k \in Thread \ {p} : Ordered(k, p) => Ordered(k, p)'
  <2> SUFFICES ASSUME NEW k \in Thread \ {p}, Ordered(k, p)
               PROVE  Behind(p, k)'
    BY LooksFacts DEF Ordered
  <2>1. m <= k /\ (ticket[k] < Own(p) \/ (ticket[k] = Own(p) /\ k < p))
    BY DEF Ordered, Behind, Waiting, Gone
  <2>2. m # k
    BY <1>1, Exclusion DEF Pairs
  <2>3. thread'[p].at = "choosing" /\ thread'[p].j <= k
    <3>1. k \in Nat /\ k < N_THREADS
      BY <1>3 DEF Thread
    <3> QED
      BY <1>2, <1>3, <2>1, <2>2, <3>1 DEF Following
  <2> QED
    BY <2>1, <2>3, LooksFacts DEF Behind, Waiting, Looks, Gone
<1>7. \A k \in Thread \ {p} : Pair(p, k)'
  <2> TAKE k \in Thread \ {p}
  <2>1. Pair(p, k) /\ (Ordered(p, k) => Ordered(p, k)')
    BY <1>5, LooksFacts DEF Pairs
  <2>2. k \in Nat /\ k < N_THREADS
    BY <1>3 DEF Thread
  <2>3. k <= m => Ordered(p, k)
    BY <1>3, <2>1, <2>2 DEF Pair, Leaving
  <2>4. thread'[p].at = "choosing" => (k < thread'[p].j => k <= m)
    BY <1>2, <1>3, <2>2 DEF Following
  <2>5. thread'[p].at = "read" => k <= m
    BY <1>2, <1>3, <2>2
  <2> QED
    BY <1>2, <2>1, <2>3, <2>4, <2>5 DEF Pair, Waiting, Critical, Looks, Leaving
<1> QED
  BY <1>4, <1>5, <1>6, <1>7, LooksFacts, PairStep DEF Looks
LEMMA WaitFacts ==
  ASSUME TypeOK, NEW p \in Thread, ~reordered',
         WaitChoosing(p) \/ WaitTicket(p) \/ WaitSmaller(p) \/ WaitEqual(p)
  PROVE  Looks(p) /\ (thread[p].j # p => buffer[p] = <<>>)
<1>1. Looks(p)
  BY DEF WaitChoosing, WaitTicket, WaitSmaller, WaitEqual, Load, Goto, NextThread, memory,
         Looks, TypeOK
<1>2. thread[p].j # p => buffer[p] = <<>>
  BY DEF WaitChoosing, WaitTicket, WaitSmaller, WaitEqual, Load
<1> QED
  BY <1>1, <1>2

\* Among the others only those that finished choosing have choosing reset, and
\* they have a ticket to be seen, or will take one behind p.
LEMMA WaitChoosingStep ==
  ASSUME TypeOK, Pairs, \A i \in Thread : Fresh(i), NEW p \in Thread, N_THREADS > 1,
         WaitChoosing(p), ~reordered'
  PROVE  Pairs'
<1> DEFINE m == thread[p].j
<1>1. Looks(p) /\ (m # p => buffer[p] = <<>>)
  BY WaitFacts
<1>2. /\ thread[p].at = "choosing" /\ thread'[p].at = "ticket"
      /\ thread'[p].j = thread[p].j
      /\ m # p => choosing[m] = 0
  BY DEF WaitChoosing, Goto, SeenChoosing, TypeOK
<1>3. ASSUME NEW k \in Thread \ {p}, m = k, Visible(p)
      PROVE  Ordered(p, k) \/ Visible(k)
  <2>1. choosing[k] = 0 /\ Shape(k) /\ Fresh(k) /\ thread[k].at \in Place
    BY <1>2, <1>3, LocalType DEF Pairs
  <2>2. CASE thread[k].at \in {"new", "start"} \/ Gone(k)
    BY <1>3, <2>2 DEF Ordered, Behind
  <2>3. CASE thread[k].at = "max"
    <3>1. thread[k].j = 0 \/ (thread[k].j = 1 /\ k = 0)
      BY <2>1, <2>3 DEF Shape, ReadNoOther
    <3>2. thread[k].j <= p
      BY <3>1, ThreadNumbers
    <3> QED
      BY <1>3, <2>3, <3>2 DEF Ordered, Behind, Gone
  <2>4. CASE thread[k].at \in Ticketed /\ ~ Gone(k)
    BY <2>1, <2>4 DEF Shape, Visible, Ticketed, Leaving
  <2> QED
    BY <2>1, <2>2, <2>3, <2>4 DEF Place, Ticketed, Shape
<1>4. thread[p].at \in Waiting /\ thread'[p].at \in Waiting \ {"choosing"}
  BY <1>2 DEF Waiting
<1>5. thread'[p].at # "equal"
  BY <1>2
<1> QED
  BY <1>1, <1>2, <1>3, <1>4, <1>5, StayStep

LEMMA WaitTicketStep ==
  ASSUME TypeOK, Pairs, NEW p \in Thread, N_THREADS > 1, WaitTicket(p), ~reordered'
  PROVE  Pairs'
<1> DEFINE m == thread[p].j
<1>1. Looks(p) /\ (m # p => buffer[p] = <<>>)
  BY WaitFacts
<1>2. thread[p].at = "ticket" /\ thread[p].at \in Waiting \ {"choosing"}
  BY DEF WaitTicket, Waiting
<1>3. \A k \in Thread \ {p} : m = k => Ordered(p, k) \/ Visible(k)
  BY <1>2 DEF Pairs, Pair, Leaving
<1>4. CASE SeenTicket(p, m) # 0
  <2>1. thread'[p].at = "smaller" /\ thread'[p].j = thread[p].j
    BY <1>4 DEF WaitTicket, Goto, TypeOK
  <2>2. thread'[p].at \in Waiting \ {"choosing"} /\ thread'[p].at # "equal"
    BY <2>1 DEF Waiting
  <2> QED
    BY <1>1, <1>2, <1>3, <2>1, <2>2, StayStep
<1>5. CASE SeenTicket(p, m) = 0
  <2>1. NextThread(p)
    BY <1>5 DEF WaitTicket
  <2>2. m # p => Ordered(p, m)
    BY <1>3, <1>5, LocalType DEF SeenTicket, Visible
  <2> QED
    BY <1>1, <1>2, <2>1, <2>2, PassStep
<1> QED
  BY <1>4, <1>5

LEMMA WaitSmallerStep ==
  ASSUME TypeOK, Pairs, NEW p \in Thread, N_THREADS > 1, WaitSmaller(p), ~reordered'
  PROVE  Pairs'
<1> DEFINE m == thread[p].j
<1>1. Looks(p) /\ (m # p => buffer[p] = <<>>)
  BY WaitFacts
<1>2. thread[p].at = "smaller" /\ thread[p].at \in Waiting \ {"choosing"}
  BY DEF WaitSmaller, Waiting
<1>3. \A k \in Thread \ {p} : m = k => Ordered(p, k) \/ Visible(k)
  BY <1>2 DEF Pairs, Pair, Leaving
<1>4. /\ thread'[p].at = IF SeenTicket(p, m) < SeenTicket(p, p) THEN "ticket" ELSE "equal"
      /\ thread'[p].j = thread[p].j
  BY DEF WaitSmaller, Goto, TypeOK
<1>5. thread'[p].at \in Waiting \ {"choosing"}
  BY <1>4 DEF Waiting
<1>6. ASSUME NEW k \in Thread \ {p}, m = k, thread'[p].at = "equal"
      PROVE  ticket[p] <= ticket[k]
  <2>1. SeenTicket(p, m) = ticket[k] /\ SeenTicket(p, p) = ticket[p]
    BY <1>1, <1>6, OwnFacts DEF SeenTicket, Own
  <2>2. ~ (ticket[k] < ticket[p])
    BY <1>4, <1>6, <2>1
  <2> QED
    BY <2>2, OwnFacts
<1> QED
  BY <1>1, <1>2, <1>3, <1>4, <1>5, <1>6, StayStep

LEMMA WaitEqualStep ==
  ASSUME TypeOK, Pairs, NEW p \in Thread, N_THREADS > 1, WaitEqual(p), ~reordered'
  PROVE  Pairs'
<1> DEFINE m == thread[p].j
<1>1. Looks(p) /\ (m # p => buffer[p] = <<>>)
  BY WaitFacts
<1>2. thread[p].at = "equal" /\ thread[p].at \in Waiting \ {"choosing"}
  BY DEF WaitEqual, Waiting
<1>3. \A k \in Thread \ {p} : m = k =>
        Ordered(p, k) \/ (Visible(p) /\ Visible(k) /\ ticket[p] <= ticket[k])
  BY <1>2 DEF Pairs, Pair, Leaving
<1>4. CASE SeenTicket(p, m) = SeenTicket(p, p) /\ m < p
  <2>1. thread'[p].at = "ticket" /\ thread'[p].j = thread[p].j
    BY <1>4 DEF WaitEqual, Goto, TypeOK
  <2>2. thread'[p].at \in Waiting \ {"choosing"} /\ thread'[p].at # "equal"
    BY <2>1 DEF Waiting
  <2> QED
    BY <1>1, <1>2, <1>3, <2>1, <2>2, StayStep
<1>5. CASE ~ (SeenTicket(p, m) = SeenTicket(p, p) /\ m < p)
  <2>1. NextThread(p)
    BY <1>5 DEF WaitEqual
  <2>2. ASSUME m # p, ~ Ordered(p, m) PROVE FALSE
    <3>1. Visible(p) /\ Visible(m) /\ ticket[p] <= ticket[m] /\ m \in Thread
      BY <1>3, <2>2, LocalType
    <3>2. SeenTicket(p, m) = ticket[m] /\ SeenTicket(p, p) = ticket[p]
      BY <1>1, <2>2, OwnFacts DEF SeenTicket, Own
    <3> p \in Nat /\ m \in Nat /\ ticket[p] \in Nat /\ ticket[m] \in Nat
      BY <3>1, OwnFacts, ThreadNumbers
    <3>3. ticket[p] < ticket[m] \/ (ticket[p] = ticket[m] /\ p < m)
      <4>1. ~ (ticket[m] = ticket[p] /\ m < p)
        BY <1>5, <3>2
      <4> HIDE DEF m
      <4> QED
        BY <2>2, <3>1, <4>1
    <3>4. Shape(m) /\ Pair(m, p)
      BY <2>2, <3>1 DEF Pairs
    <3>5. CASE Ordered(m, p)
      <4>1. Own(p) = ticket[p]
        BY <1>1, <2>2, OwnFacts
      <4>2. ticket[m] < Own(p) \/ (ticket[m] = Own(p) /\ m < p)
        BY <1>2, <3>5 DEF Ordered, Behind, Waiting, Gone
      <4> HIDE DEF m
      <4> QED
        BY <3>3, <4>1, <4>2
    <3>6. CASE thread[m].at \in {"chosen"} \cup Waiting /\ thread[m].j <= p
      <4>1. Own(m) = ticket[m]
        BY <3>1, <3>4, <3>6, OwnFacts DEF Shape, Visible
      <4> QED
        BY <2>2, <3>1, <3>3, <3>6, <4>1 DEF Ordered, Behind, Gone
    <3>7. thread[m].j <= p \/ p < thread[m].j
      <4>1. thread[m].j \in Nat
        BY <3>1, LocalType, ThreadNumbers
      <4> HIDE DEF m
      <4> QED
        BY <4>1
    <3>8. thread[m].at = "chosen" => thread[m].j <= p
      BY <3>4, ThreadNumbers DEF Shape
    <3> QED
      BY <3>1, <3>4, <3>5, <3>6, <3>7, <3>8 DEF Visible, Ticketed, Pair, Shape, Gone
  <2> QED
    BY <1>1, <1>2, <2>1, <2>2, PassStep
<1> QED
  BY <1>4, <1>5
-------------------------------------------------------------------------------
(* The critical section, leaving it, stores that reach memory, and creation. *)

LEMMA CriticalStep ==
  ASSUME TypeOK, TypeOK', Pairs, NEW p \in Thread, N_THREADS > 1,
         ReadAccumulator(p) \/ WriteAccumulator(p)
  PROVE  Pairs'
<1> USE DEF memory, rest
<1>1. Others(p)
  BY DEF ReadAccumulator, WriteAccumulator, Write, Others, Same, TypeOK
<1>2. /\ thread[p].at \in Critical /\ thread'[p].at \in Critical \cup {"unlock"}
      /\ ticket' = ticket /\ choosing' = choosing /\ ahead' = ahead
  BY DEF ReadAccumulator, WriteAccumulator, Critical, TypeOK
<1>3. Shape(p)
  <2>1. PICK k \in Thread : k # p
    BY BakeryAssumption DEF Thread
  <2> QED
    BY <2>1 DEF Pairs
<1>4. \A k \in 1..Len(buffer'[p]) : buffer'[p][k].var = "accumulator"
  <2>1. \A k \in 1..Len(buffer[p]) : buffer[p][k].var = "accumulator"
    BY <1>2, <1>3 DEF Shape
  <2>2. CASE ReadAccumulator(p)
    BY <2>1, <2>2 DEF ReadAccumulator
  <2>3. CASE WriteAccumulator(p)
    <3> DEFINE e == [var |-> "accumulator", val |-> thread[p].val + 1]
    <3>1. buffer'[p] = Append(buffer[p], e) /\ buffer[p] \in Seq(Store)
      BY <2>3 DEF WriteAccumulator, Write, TypeOK
    <3>2. e \in Store
      BY LocalType DEF Store
    <3>3. e.var = "accumulator"
      OBVIOUS
    <3> HIDE DEF e
    <3> QED
      BY <2>1, <3>1, <3>2, <3>3, AppendProperties
  <2> QED
    BY <2>2, <2>3
<1>5. Shape(p)'
  BY <1>2, <1>3, <1>4 DEF Shape, Waiting, Critical
<1>6. thread'[p].at \in Ticketed /\ (Visible(p) => Visible(p)')
  BY <1>2 DEF Ticketed, Visible
<1>7. \A k \in Thread \ {p} : ~ Ordered(k, p)
  BY <1>2 DEF Ordered, Behind, Critical, Waiting, Gone
<1>8. \A k \in Thread \ {p} : Pair(p, k)'
  <2> TAKE k \in Thread \ {p}
  <2>1. Pair(p, k) /\ (Ordered(p, k) => Ordered(p, k)')
    BY <1>1, <1>2, <1>6, KeepsOrder DEF Pairs, Others
  <2> QED
    BY <1>2, <2>1 DEF Pair, Waiting, Critical, Leaving
<1> QED
  BY <1>1, <1>2, <1>5, <1>6, <1>7, <1>8, PairStep

LEMMA UnlockStep ==
  ASSUME TypeOK, Pairs, NEW p \in Thread, N_THREADS > 1, Unlock(p)
  PROVE  Pairs'
<1> USE DEF memory, rest
<1>1. Others(p)
  BY DEF Unlock, Goto, Write, Others, Same, TypeOK
<1>2. /\ thread[p].at = "unlock" /\ thread'[p].at = "return" /\ ahead'[p] = {}
      /\ buffer'[p] = Append(buffer[p], TicketStore(0)) /\ ticket' = ticket
  BY DEF Unlock, Goto, Write, TicketStore, TypeOK
<1>3. Shape(p)
  <2>1. PICK k \in Thread : k # p
    BY BakeryAssumption DEF Thread
  <2> QED
    BY <2>1 DEF Pairs
<1>4. Leaving(p)'
  <2>1. ticket[p] > 0 /\ \A k \in 1..Len(buffer[p]) : buffer[p][k].var = "accumulator"
    BY <1>2, <1>3 DEF Shape
  <2>2. buffer[p] \in Seq(Store) /\ TicketStore(0) \in Store
    BY DEF TypeOK, Store, TicketStore
  <2>3. /\ Len(buffer'[p]) = Len(buffer[p]) + 1 /\ Len(buffer[p]) \in Nat
        /\ \A k \in 1..Len(buffer[p]) : buffer'[p][k] = buffer[p][k]
        /\ buffer'[p][Len(buffer[p]) + 1] = TicketStore(0) /\ buffer'[p] # <<>>
    BY <1>2, <2>2, AppendProperties
  <2>4. \A k \in 1..Len(buffer'[p]) : k = Len(buffer'[p]) \/ k \in 1..Len(buffer[p])
    BY <2>3
  <2>5. ticket'[p] # 0
    BY <1>2, <2>1, OwnFacts
  <2>6. \A k \in 1..Len(buffer'[p]) :
          IF k = Len(buffer'[p]) THEN buffer'[p][k] = TicketStore(0)
          ELSE buffer'[p][k].var = "accumulator"
    BY <2>1, <2>3, <2>4
  <2> QED
    BY <1>2, <2>3, <2>5, <2>6 DEF Leaving
<1>5. Shape(p)'
  BY <1>2, <1>4 DEF Shape, Waiting, Critical
<1>6. thread'[p].at \in Ticketed /\ (Visible(p) => Visible(p)')
  BY <1>2 DEF Ticketed, Visible
<1>7. \A k \in Thread \ {p} : ~ Ordered(k, p)
  BY <1>2 DEF Ordered, Behind, Critical, Waiting, Gone
<1>8. \A k \in Thread \ {p} : Pair(p, k)'
  <2> TAKE k \in Thread \ {p}
  <2>1. Pair(p, k) /\ (Ordered(p, k) => Ordered(p, k)')
    BY <1>1, <1>2, <1>6, KeepsOrder DEF Pairs, Others
  <2> QED
    BY <1>2, <2>1 DEF Pair, Waiting, Critical
<1> QED
  BY <1>1, <1>2, <1>5, <1>6, <1>7, <1>8, PairStep

LEMMA CreateStep ==
  ASSUME TypeOK, Pairs, Create, NEW p \in Thread, p = main.thread, thread[p].at = "new"
  PROVE  Pairs'
<1> USE DEF memory, rest
<1>1. Others(p)
  BY DEF Create, Goto, Others, Same, TypeOK
<1>2. thread'[p].at = "start" /\ ahead' = ahead
  BY DEF Create, Goto, TypeOK
<1>3. Shape(p)'
  BY <1>2 DEF Shape, Waiting, Critical
<1>4. ~ Visible(p)
  BY DEF Visible, Ticketed, Waiting, Critical
<1>5. \A k \in Thread \ {p} : Visible(k) => Ordered(k, p)'
  BY <1>1, <1>2, SameFacts DEF Ordered, Behind, Others, Gone
<1>6. \A k \in Thread \ {p} : Pair(p, k)'
  <2> TAKE k \in Thread \ {p}
  <2>1. p \notin ahead[k]
    BY <1>4 DEF Pairs, Pair, Ordered, Leaving
  <2> QED
    BY <1>2, <2>1 DEF Pair, Waiting, Critical, Leaving
<1> QED
  BY <1>1, <1>2, <1>3, <1>4, <1>5, <1>6, PairStep DEF Ordered

LEMMA TailFacts ==
  ASSUME NEW S, NEW a \in S, NEW b \in S
  PROVE  /\ Head(<<a>>) = a /\ Tail(<<a>>) = <<>>
         /\ Head(<<a, b>>) = a /\ Tail(<<a, b>>) = <<b>>
<1> DEFINE u == Tail(<<a, b>>)
           w == <<b>>
<1>1. <<a, b>> \in Seq(S) /\ <<a>> \in Seq(S)
  OBVIOUS
<1>2. u \in Seq(S) /\ Len(u) = 1 /\ u[1] = b
  BY <1>1
<1>3. w \in Seq(S) /\ Len(w) = 1 /\ w[1] = b
  OBVIOUS
<1> HIDE DEF u, w
<1>4. u = w
  BY <1>2, <1>3, SeqEqual
<1>5. Tail(<<a>>) = <<>>
  <2>1. Tail(<<a>>) \in Seq(S) /\ Len(Tail(<<a>>)) = 0
    BY <1>1
  <2> QED
    BY <2>1, EmptySeq
<1> QED
  BY <1>4, <1>5 DEF u, w

LEMMA DrainFacts ==
  ASSUME TypeOK, NEW p \in Thread, Drain(p)
  PROVE  /\ Others(p) /\ thread' = thread /\ ahead' = ahead
         /\ buffer[p] # <<>> /\ buffer'[p] = Tail(buffer[p])
         /\ \A c : Head(buffer[p]) = ChoosingStore(c) =>
              choosing'[p] = c /\ ticket'[p] = ticket[p]
         /\ \A t : Head(buffer[p]) = TicketStore(t) =>
              choosing'[p] = choosing[p] /\ ticket'[p] = t
         /\ Head(buffer[p]).var = "accumulator" =>
              choosing'[p] = choosing[p] /\ ticket'[p] = ticket[p]
<1>1. Others(p)
  BY DEF Drain, Others, Same, TypeOK
<1> QED
  BY <1>1 DEF Drain, ChoosingStore, TicketStore, TypeOK

LEMMA DrainShape ==
  ASSUME TypeOK, TypeOK', NEW p \in Thread, Shape(p), Fresh(p), Drain(p)
  PROVE  /\ Shape(p)'
         /\ thread[p].at \in {"chosen"} \cup Waiting => Own(p)' = Own(p)
         /\ Visible(p) => ticket'[p] = ticket[p] \/ Gone(p)'
         /\ Leaving(p)' => Leaving(p) /\ ticket'[p] = ticket[p]
         /\ ~ Gone(p)
<1> DEFINE t == Own(p)
           d == thread[p].at \in {"chosen"} \cup Waiting => Own(p)' = Own(p)
           v == /\ Visible(p) => ticket'[p] = ticket[p] \/ Gone(p)'
                /\ Leaving(p)' => Leaving(p) /\ ticket'[p] = ticket[p]
                /\ ~ Gone(p)
<1>1. t \in Nat /\ TicketStore(t) \in Store /\ ChoosingStore(0) \in Store
      /\ ChoosingStore(1) \in Store
  BY OwnFacts DEF TicketStore, ChoosingStore, Store
<1>2. /\ Head(<<TicketStore(t)>>) = TicketStore(t) /\ Tail(<<TicketStore(t)>>) = <<>>
      /\ Head(<<TicketStore(t), ChoosingStore(0)>>) = TicketStore(t)
      /\ Tail(<<TicketStore(t), ChoosingStore(0)>>) = <<ChoosingStore(0)>>
      /\ Head(<<ChoosingStore(0)>>) = ChoosingStore(0) /\ Tail(<<ChoosingStore(0)>>) = <<>>
      /\ Head(<<ChoosingStore(1)>>) = ChoosingStore(1) /\ Tail(<<ChoosingStore(1)>>) = <<>>
  BY <1>1, TailFacts
<1>3. thread' = thread /\ buffer[p] # <<>> /\ buffer'[p] = Tail(buffer[p])
  BY DrainFacts
<1>4. ReadNoOther(p)' = ReadNoOther(p)
  BY <1>3 DEF ReadNoOther
<1>5. CASE thread[p].at = "max"
  <2>1. buffer[p] = <<ChoosingStore(1)>> /\ ticket[p] = 0
    BY <1>3, <1>5 DEF Shape
  <2>2. buffer'[p] = <<>> /\ choosing'[p] = 1 /\ ticket'[p] = 0
    BY <1>2, <1>3, <2>1, DrainFacts
  <2> QED
    BY <1>3, <1>5, <2>1, <2>2 DEF Shape, Waiting, Critical, Leaving, Gone
<1>6. CASE thread[p].at = "chosen"
  <2>1. /\ choosing[p] = 1 /\ thread[p].j = 0
        /\ ticket[p] = 0 /\ t > 0 /\ buffer[p] = <<TicketStore(t)>>
    BY <1>3, <1>6 DEF Shape
  <2>2. buffer'[p] = <<>> /\ choosing'[p] = 1 /\ ticket'[p] = t
    BY <1>2, <1>3, <2>1, DrainFacts
  <2>3. Own(p)' = t
    BY <2>2, OwnFactsNext
  <2> QED
    BY <1>3, <1>6, <2>1, <2>2, <2>3 DEF Shape, Waiting, Critical, Visible, Leaving, Gone
<1>7. CASE thread[p].at \in Waiting
  <2>1. /\ ReadNoOther(p) /\ (thread[p].at = "choosing" \/ thread[p].j = p)
        /\ choosing[p] = 1
        /\ \/ buffer[p] = <<ChoosingStore(0)>> /\ ticket[p] > 0
           \/ ticket[p] = 0 /\ t > 0 /\ buffer[p] = <<TicketStore(t), ChoosingStore(0)>>
    BY <1>3, <1>7 DEF Shape
  <2>2. CASE buffer[p] = <<ChoosingStore(0)>> /\ ticket[p] > 0
    <3>1. buffer'[p] = <<>> /\ choosing'[p] = 0 /\ ticket'[p] = ticket[p]
      BY <1>2, <1>3, <2>2, DrainFacts
    <3>2. Own(p)' = Own(p)
      BY <2>2, <3>1, OwnFacts, OwnFactsNext
    <3> QED
      BY <1>3, <1>7, <2>2, <3>1, <3>2 DEF Shape, Waiting, Critical, Leaving, Gone
  <2>3. CASE ticket[p] = 0 /\ t > 0 /\ buffer[p] = <<TicketStore(t), ChoosingStore(0)>>
    <3>1. buffer'[p] = <<ChoosingStore(0)>> /\ choosing'[p] = 1 /\ ticket'[p] = t
      BY <1>2, <1>3, <2>1, <2>3, DrainFacts
    <3>2. Own(p)' = Own(p)
      BY <3>1, OwnFactsNext
    <3>3. Shape(p)'
      BY <1>3, <1>4, <1>7, <2>1, <2>3, <3>1, <3>2 DEF Shape, Waiting, Critical, Leaving, Gone
    <3> QED
      BY <1>3, <1>7, <2>3, <3>2, <3>3 DEF Visible, Waiting, Leaving, Gone
  <2> QED
    BY <2>1, <2>2, <2>3
<1>8. CASE thread[p].at \in Critical \cup {"unlock"}
  <2>1. /\ choosing[p] = 0 /\ ticket[p] > 0
        /\ \A k \in 1..Len(buffer[p]) : buffer[p][k].var = "accumulator"
    BY <1>8 DEF Shape
  <2>2. buffer[p] \in Seq(Store)
    BY DEF TypeOK
  <2>3. Head(buffer[p]).var = "accumulator"
    BY <1>3, <2>1, <2>2
  <2>4. choosing'[p] = 0 /\ ticket'[p] = ticket[p]
    BY <2>1, <2>3, DrainFacts
  <2>5. \A k \in 1..Len(buffer'[p]) : buffer'[p][k].var = "accumulator"
    BY <1>3, <2>1, <2>2
  <2> QED
    BY <1>3, <1>8, <2>1, <2>4, <2>5 DEF Shape, Waiting, Critical, Leaving, Gone
<1>9. CASE thread[p].at = "return"
  <2>1. Leaving(p) /\ buffer[p] \in Seq(Store)
    BY <1>3, <1>9 DEF Shape, Gone, TypeOK
  <2>2. /\ Len(buffer[p]) \in Nat \ {0} /\ Head(buffer[p]) = buffer[p][1]
        /\ buffer'[p] \in Seq(Store) /\ Len(buffer'[p]) = Len(buffer[p]) - 1
        /\ \A k \in 1..Len(buffer'[p]) : buffer'[p][k] = buffer[p][k + 1]
    BY <1>3, <2>1, HeadTailProperties, LenProperties, EmptySeq
  <2>3. CASE Len(buffer[p]) = 1
    <3>1. Head(buffer[p]) = TicketStore(0)
      BY <2>1, <2>2, <2>3 DEF Leaving
    <3>2. ticket'[p] = 0 /\ buffer'[p] = <<>>
      BY <2>2, <2>3, <3>1, DrainFacts, EmptySeq
    <3>3. Gone(p)' /\ ~ Leaving(p)'
      BY <1>3, <1>9, <3>2 DEF Gone, Leaving
    <3> QED
      BY <1>3, <1>9, <3>3 DEF Shape, Gone, Waiting, Critical
  <2>4. CASE Len(buffer[p]) > 1
    <3>1. Head(buffer[p]).var = "accumulator"
      BY <2>1, <2>2, <2>4 DEF Leaving
    <3>2. ticket'[p] = ticket[p] /\ buffer'[p] # <<>>
      BY <2>2, <2>4, <3>1, DrainFacts
    <3>3. \A k \in 1..Len(buffer'[p]) :
            IF k = Len(buffer'[p]) THEN buffer'[p][k] = TicketStore(0)
            ELSE buffer'[p][k].var = "accumulator"
      BY <2>1, <2>2 DEF Leaving
    <3>4. Leaving(p)'
      BY <1>3, <1>9, <2>1, <3>2, <3>3 DEF Leaving
    <3> QED
      BY <1>3, <1>9, <2>1, <3>2, <3>4 DEF Shape, Gone, Waiting, Critical
  <2>5. Len(buffer[p]) = 1 \/ Len(buffer[p]) > 1
    <3>1. \A n \in Nat \ {0} : n = 1 \/ n > 1
      OBVIOUS
    <3> QED
      BY <2>2, <3>1
  <2> QED
    BY <2>3, <2>4, <2>5
<1>10. thread[p].at \notin {"new", "start", "take"}
  BY <1>3 DEF Fresh, Shape
<1> QED
  BY <1>5, <1>6, <1>7, <1>8, <1>9, <1>10, LocalType DEF Place

LEMMA DrainStep ==
  ASSUME TypeOK, TypeOK', Pairs, NEW p \in Thread, N_THREADS > 1, Fresh(p), Drain(p)
  PROVE  Pairs'
<1>1. Others(p) /\ thread' = thread /\ ahead' = ahead
  BY DrainFacts
<1>2. Shape(p)
  <2>1. PICK k \in Thread : k # p
    BY BakeryAssumption DEF Thread
  <2> QED
    BY <2>1 DEF Pairs
<1>3. /\ Shape(p)'
      /\ thread[p].at \in {"chosen"} \cup Waiting => Own(p)' = Own(p)
      /\ Visible(p) => ticket'[p] = ticket[p] \/ Gone(p)'
      /\ Leaving(p)' => Leaving(p) /\ ticket'[p] = ticket[p]
      /\ ~ Gone(p)
  BY <1>2, DrainShape
<1>4. Visible(p) => (Visible(p)' /\ ticket'[p] = ticket[p]) \/ Gone(p)'
  BY <1>1, <1>3 DEF Visible
<1>5. \A k \in Thread \ {p} : Ordered(k, p) => Ordered(k, p)'
  <2> SUFFICES ASSUME NEW k \in Thread \ {p}, Ordered(k, p)
               PROVE  Behind(p, k)'
    BY <1>1, SameFacts DEF Ordered, Others
  <2>1. ticket'[k] = ticket[k]
    BY <1>1 DEF Others, Same
  <2> QED
    BY <1>1, <1>3, <2>1 DEF Ordered, Behind, Gone
<1>6. \A k \in Thread \ {p} :
        Ordered(k, p)' \/ (Visible(p) => Visible(p)' /\ ticket'[p] = ticket[p])
             \/ ~ Visible(k)
  <2> TAKE k \in Thread \ {p}
  <2>1. Visible(k)' = Visible(k)
    BY <1>1, SameFacts DEF Others
  <2> QED
    BY <1>4, <2>1 DEF Ordered, Behind
<1>7. \A k \in Thread \ {p} : Pair(p, k)'
  <2> TAKE k \in Thread \ {p}
  <2>1. Pair(p, k) /\ Same(k)
    BY <1>1 DEF Pairs, Others
  <2>2. Visible(k)' = Visible(k) /\ ticket'[k] = ticket[k]
    BY <2>1, SameFacts DEF Same
  <2>3. CASE Gone(p)'
    BY <1>1, <2>3 DEF Pair, Gone, Leaving, Waiting, Critical
  <2>4. CASE ~ Gone(p)'
    <3>1. Ordered(p, k) => Ordered(p, k)'
      BY <1>3, <1>4, <2>1, <2>4, SameBehind DEF Ordered
    <3> QED
      BY <1>1, <1>3, <1>4, <2>1, <2>2, <2>4, <3>1 DEF Pair
  <2> QED
    BY <2>3, <2>4
<1> QED
  BY <1>1, <1>3, <1>5, <1>6, <1>7, PairStep
-------------------------------------------------------------------------------
(* The inductive invariant.                                                 *)

\* What a step of thread p does, whichever it is.
LEMMA StepFacts ==
  ASSUME TypeOK, NEW p \in Thread, ThreadStep(p)
  PROVE  /\ Others(p) /\ mode' = mode /\ main' = main
         /\ thread[p].at # "new" /\ thread'[p].at \notin {"new", "start"}
         /\ reordered => reordered'
         /\ ahead'[p] \subseteq ahead[p]
              \/ (thread[p].at = "start" /\ \A k \in ahead'[p] : ticket[k] # 0)
<1> USE DEF memory, rest, Others, Same, TypeOK
<1>1. CASE StartChoosing(p)
  BY <1>1 DEF StartChoosing, Write, Goto
<1>2. CASE ScanTicket(p)
  BY <1>2 DEF ScanTicket, Load
<1>3. CASE TakeTicket(p) \/ EndChoosing(p)
  BY <1>3 DEF TakeTicket, EndChoosing, Write, Goto
<1>4. CASE WaitChoosing(p) \/ WaitTicket(p) \/ WaitSmaller(p) \/ WaitEqual(p)
  <2>1. /\ reordered => reordered'
        /\ \A k \in Thread : ahead'[k] \subseteq ahead[k]
    <3>1. Load(p, thread[p].j)
      BY <1>4 DEF WaitChoosing, WaitTicket, WaitSmaller, WaitEqual
    <3> QED
      BY <3>1 DEF Load
  <2>2. CASE WaitChoosing(p) \/ WaitSmaller(p)
    BY <2>1, <2>2 DEF WaitChoosing, WaitSmaller, Goto
  <2>3. CASE WaitTicket(p)
    BY <2>1, <2>3 DEF WaitTicket, Goto, NextThread
  <2>4. CASE WaitEqual(p)
    BY <2>1, <2>4 DEF WaitEqual, Goto, NextThread
  <2> QED
    BY <1>4, <2>2, <2>3, <2>4
<1>5. CASE Unlock(p)
  BY <1>5 DEF Unlock, Write, Goto
<1>6. CASE ReadAccumulator(p) \/ WriteAccumulator(p)
  BY <1>6 DEF ReadAccumulator, WriteAccumulator, Write
<1>7. CASE HwLock(p) \/ HwUnlock(p)
  BY <1>7 DEF HwLock, HwUnlock, Goto
<1> QED
  BY <1>1, <1>2, <1>3, <1>4, <1>5, <1>6, <1>7 DEF ThreadStep

\* The main thread creates the threads in order.
InOrder == main.at = "create" => \A i \in Thread : main.thread <= i => thread[i].at = "new"

LEMMA CreatesNew ==
  ASSUME TypeOK, InOrder, Create
  PROVE  main.thread \in Thread /\ thread[main.thread].at = "new"
<1>1. main.thread \in Thread /\ main.at = "create"
  BY DEF Create, TypeOK
<1>2. main.thread <= main.thread
  <2>1. main.thread \in Nat
    BY <1>1, ThreadNumbers
  <2> QED
    BY <2>1
<1> QED
  BY <1>1, <1>2 DEF InOrder

LEMMA InOrderStep ==
  ASSUME TypeOK, InOrder, [Next]_vars
  PROVE  InOrder'
<1>1. ASSUME NEW p \in Thread, ThreadStep(p) PROVE InOrder'
  <2> SUFFICES ASSUME main.at = "create", NEW i \in Thread, main.thread <= i
               PROVE  thread'[i].at = "new"
    BY <1>1, StepFacts DEF InOrder
  <2>1. thread[i].at = "new" /\ i # p
    BY <1>1, StepFacts DEF InOrder
  <2> QED
    BY <1>1, <2>1, StepFacts DEF Others, Same
<1>2. ASSUME NEW p \in Thread, Drain(p) PROVE InOrder'
  BY <1>2 DEF Drain, InOrder
<1>3. CASE Create
  <2> SUFFICES ASSUME main'.at = "create", NEW i \in Thread, main'.thread <= i
               PROVE  thread'[i].at = "new"
    BY DEF InOrder
  <2>1. /\ main'.thread = Following(main.thread) /\ main.at = "create"
        /\ main.thread + 1 # N_THREADS
    BY <1>3 DEF Create, NextInOrder
  <2>2. i \in Nat /\ main.thread \in Nat /\ main.thread \in Thread
    BY ThreadNumbers DEF TypeOK
  <2>3. main.thread < i
    BY <2>1, <2>2 DEF Following
  <2>4. thread'[i] = thread[i]
    BY <1>3, <2>2, <2>3 DEF Create, Goto, TypeOK
  <2> QED
    BY <2>1, <2>2, <2>3, <2>4 DEF InOrder
<1>4. CASE Join
  BY <1>4 DEF Join, NextInOrder, InOrder
<1>5. CASE UNCHANGED vars
  BY <1>5 DEF vars, InOrder
<1> QED
  BY <1>1, <1>2, <1>3, <1>4, <1>5 DEF Next, MainStep

LEMMA FreshStep ==
  ASSUME TypeOK, InOrder, \A i \in Thread : Fresh(i), [Next]_vars
  PROVE  \A i \in Thread : Fresh(i)'
<1>1. ASSUME NEW p \in Thread, ThreadStep(p) PROVE \A i \in Thread : Fresh(i)'
  <2>1. Fresh(p)'
    <3>1. thread[p].at = "start" => ticket[p] = 0
      BY DEF Fresh
    <3> QED
      BY <1>1, <3>1, StepFacts DEF Fresh
  <2>2. \A i \in Thread \ {p} : Fresh(i)'
    BY <1>1, StepFacts DEF Others, Same, Fresh
  <2> QED
    BY <2>1, <2>2
<1>2. ASSUME NEW p \in Thread, Drain(p) PROVE \A i \in Thread : Fresh(i)'
  <2>1. Fresh(p)' /\ \A i \in Thread \ {p} : Fresh(i)'
    BY <1>2, DrainFacts DEF Others, Same, Fresh
  <2> QED
    BY <2>1
<1>3. CASE Create
  <2>1. /\ thread[main.thread].at = "new" /\ main.thread \in Thread
        /\ thread' = [thread EXCEPT ![main.thread].at = "start"]
        /\ buffer' = buffer /\ choosing' = choosing /\ ticket' = ticket /\ ahead' = ahead
    BY <1>3, CreatesNew DEF Create, Goto, memory
  <2>2. \A i \in Thread :
          thread'[i] = thread[i] \/ (thread[i].at = "new" /\ thread'[i].j = thread[i].j)
    BY <2>1 DEF TypeOK
  <2> QED
    BY <2>1, <2>2 DEF Fresh
<1>4. CASE Join
  BY <1>4 DEF Join, memory, Fresh
<1>5. CASE UNCHANGED vars
  BY <1>5 DEF vars, Fresh
<1> QED
  BY <1>1, <1>2, <1>3, <1>4, <1>5 DEF Next, MainStep

LEMMA HwStep ==
  ASSUME TypeOK, mode = "pthread", \A i \in Thread : HwPlace(i), InOrder, [Next]_vars
  PROVE  mode' = mode /\ \A i \in Thread : HwPlace(i)'
<1> USE DEF memory, rest
<1>1. ASSUME NEW p \in Thread, ReadAccumulator(p) \/ WriteAccumulator(p)
      PROVE  mode' = mode /\ \A i \in Thread : HwPlace(i)'
  <2>1. /\ lock' = lock /\ mode' = mode /\ ahead' = ahead
        /\ thread[p].at \in Critical /\ thread'[p].at \in {"unlock"} \cup Critical
        /\ \A i \in Thread \ {p} : thread'[i] = thread[i] /\ buffer'[i] = buffer[i]
    BY <1>1 DEF ReadAccumulator, WriteAccumulator, Write, Critical, TypeOK
  <2> QED
    BY <2>1 DEF HwPlace, Critical
<1>2. ASSUME NEW p \in Thread, HwLock(p)
      PROVE  mode' = mode /\ \A i \in Thread : HwPlace(i)'
  <2>1. /\ lock = Nobody /\ lock' = p /\ mode' = mode /\ ahead' = ahead
        /\ thread'[p].at = "read" /\ buffer' = buffer
        /\ \A i \in Thread \ {p} : thread'[i] = thread[i]
    BY <1>2 DEF HwLock, Goto, TypeOK
  <2>2. \A i \in Thread : i # Nobody
    BY ThreadNumbers DEF Nobody
  <2> QED
    BY <2>1, <2>2 DEF HwPlace, Critical
<1>3. ASSUME NEW p \in Thread, HwUnlock(p)
      PROVE  mode' = mode /\ \A i \in Thread : HwPlace(i)'
  <2>1. /\ thread[p].at = "unlock" /\ mode' = mode /\ ahead' = ahead
        /\ thread'[p].at = "return" /\ buffer' = buffer /\ buffer[p] = <<>>
        /\ \A i \in Thread \ {p} : thread'[i] = thread[i]
    BY <1>3 DEF HwUnlock, Goto, TypeOK
  <2>2. lock = p
    BY <2>1 DEF HwPlace
  <2> QED
    BY <2>1, <2>2 DEF HwPlace, Critical
<1>4. ASSUME NEW p \in Thread, ThreadStep(p)
      PROVE  ReadAccumulator(p) \/ WriteAccumulator(p) \/ HwLock(p) \/ HwUnlock(p)
  BY <1>4 DEF HwPlace, Critical, ThreadStep, StartChoosing, ScanTicket, TakeTicket,
       EndChoosing, WaitChoosing, WaitTicket, WaitSmaller, WaitEqual, Unlock
<1>5. ASSUME NEW p \in Thread, Drain(p)
      PROVE  mode' = mode /\ \A i \in Thread : HwPlace(i)'
  <2>1. mode' = mode /\ lock' = lock /\ ahead' = ahead /\ thread' = thread
    BY <1>5 DEF Drain
  <2>2. \A i \in Thread : buffer[i] = <<>> => buffer'[i] = <<>>
    BY <1>5 DEF Drain, TypeOK
  <2> QED
    BY <2>1, <2>2 DEF HwPlace
<1>6. CASE Create
  <2>1. main.thread \in Thread /\ thread[main.thread].at = "new"
    BY <1>6, CreatesNew
  <2> QED
    BY <1>6, <2>1 DEF Create, Goto, HwPlace, Critical, TypeOK
<1>7. CASE Join
  BY <1>7 DEF Join, HwPlace
<1>8. CASE UNCHANGED vars
  BY <1>8 DEF vars, HwPlace
<1> QED
  BY <1>1, <1>2, <1>3, <1>4, <1>5, <1>6, <1>7, <1>8 DEF Next, MainStep

LEMMA PairsPreserved ==
  ASSUME TypeOK, TypeOK', InOrder, \A i \in Thread : Fresh(i),
         mode = "lamport", ~reordered => Pairs, ~reordered', [Next]_vars
  PROVE  Pairs'
<1>1. CASE N_THREADS = 1
  <2>1. \A i, k \in Thread : i = k
    BY <1>1 DEF Thread
  <2> QED
    BY <2>1 DEF Pairs
<1>2. CASE N_THREADS > 1
  <2>1. ~reordered
    <3>1. ASSUME NEW p \in Thread, ThreadStep(p) PROVE reordered => reordered'
      BY <3>1, StepFacts
    <3> QED
      BY <3>1 DEF Next, MainStep, Drain, Create, Join, vars
  <2> Pairs
    BY <2>1
  <2>2. ASSUME NEW p \in Thread, ThreadStep(p) PROVE Pairs'
    <3>1. ~ HwLock(p) /\ ~ HwUnlock(p)
      BY DEF HwLock, HwUnlock
    <3> QED
      BY <1>2, <2>2, <3>1, StartStep, ScanStep, TakeStep, ChosenStep, WaitChoosingStep,
         WaitTicketStep, WaitSmallerStep, WaitEqualStep, CriticalStep, UnlockStep
         DEF ThreadStep
  <2>3. ASSUME NEW p \in Thread, Drain(p) PROVE Pairs'
    BY <1>2, <2>3, DrainStep
  <2>4. CASE Create
    <3>1. main.thread \in Thread /\ thread[main.thread].at = "new"
      BY <2>4, CreatesNew
    <3> QED
      BY <2>4, <3>1, CreateStep
  <2>5. CASE Join \/ UNCHANGED vars
    <3>1. \A k \in Thread : Same(k) /\ ahead'[k] = ahead[k]
      BY <2>5 DEF Join, memory, vars, Same
    <3> QED
      BY <3>1, SamePair, SameFacts DEF Pairs
  <2> QED
    BY <2>2, <2>3, <2>4, <2>5 DEF Next, MainStep
<1> QED
  BY <1>1, <1>2, BakeryAssumption

LEMMA ModeFixed == ASSUME TypeOK, [Next]_vars PROVE mode' = mode
<1>1. ASSUME NEW p \in Thread, ThreadStep(p) PROVE mode' = mode
  BY <1>1, StepFacts
<1> QED
  BY <1>1 DEF Next, MainStep, Drain, Create, Join, vars

LEMMA IInvInit == Init => IInv
<1> SUFFICES ASSUME Init PROVE IInv
  OBVIOUS
<1>1. TypeOK
  BY TypeInit
<1>2. \A i \in Thread : /\ thread[i].at = "new" /\ thread[i].j = 0 /\ buffer[i] = <<>>
                        /\ choosing[i] = 0 /\ ticket[i] = 0 /\ ahead[i] = {}
  BY DEF Init, NewThread
<1>3. \A i \in Thread : Fresh(i) /\ HwPlace(i) /\ Shape(i) /\ ~ Visible(i)
  BY <1>2 DEF Fresh, HwPlace, Shape, Visible, Critical, Waiting
<1>4. Pairs
  BY <1>2, <1>3 DEF Pairs, Pair, Waiting, Critical, Leaving
<1> QED
  BY <1>1, <1>2, <1>3, <1>4 DEF IInv

LEMMA IInvStep == IInv /\ [Next]_vars => IInv'
<1> SUFFICES ASSUME IInv, [Next]_vars PROVE IInv'
  OBVIOUS
<1>1. TypeOK /\ InOrder /\ \A i \in Thread : Fresh(i)
  BY DEF IInv, InOrder
<1>2. TypeOK' /\ mode' = mode
  BY <1>1, TypeStep, ModeFixed
<1>3. InOrder'
  BY <1>1, InOrderStep
<1>4. \A i \in Thread : Fresh(i)'
  BY <1>1, FreshStep
<1>5. mode' = "pthread" => \A i \in Thread : HwPlace(i)'
  BY <1>1, <1>2, HwStep DEF IInv
<1>6. mode' = "lamport" /\ ~reordered' => Pairs'
  BY <1>1, <1>2, PairsPreserved DEF IInv
<1> QED
  BY <1>2, <1>3, <1>4, <1>5, <1>6 DEF IInv, InOrder

\* The lock of lamport.c, and the pthread mutex in its place, admit one thread
\* at a time, for any number of threads, if no load overtakes a store.
THEOREM BakeryExcludes == Spec => []MutualExclusion
<1>1. ASSUME IInv PROVE MutualExclusion
  <2> SUFFICES ASSUME ~reordered, NEW i \in Thread, NEW k \in Thread,
                      InCritical(i), InCritical(k), i # k
               PROVE  FALSE
    BY DEF MutualExclusion
  <2>1. CASE mode = "pthread"
    BY <1>1, <2>1 DEF IInv, HwPlace, InCritical
  <2>2. CASE mode = "lamport"
    <3>1. Pair(i, k)
      BY <1>1, <2>2 DEF IInv, Pairs
    <3>2. Ordered(i, k)
      BY <3>1 DEF Pair, InCritical, Leaving
    <3> QED
      BY <3>2 DEF Ordered, Behind, InCritical, Critical, Waiting, Gone
  <2> QED
    BY <1>1, <2>1, <2>2 DEF IInv, TypeOK
<1> QED
  BY <1>1, IInvInit, IInvStep, PTL DEF Spec

\* The lock of lamport.c admits the threads in the order of their arrival, for
\* any number of threads, if no load overtakes a store.
THEOREM BakeryInOrder == Spec => []FirstComeFirstServed
<1>1. ASSUME IInv PROVE FirstComeFirstServed
  <2> SUFFICES ASSUME ~reordered, NEW i \in Thread, InCritical(i), NEW k \in ahead[i]
               PROVE  thread[k].at = "return"
    BY DEF FirstComeFirstServed
  <2>1. k \in Thread /\ k # i
    BY <1>1 DEF IInv, Fresh, TypeOK
  <2>2. mode = "lamport"
    BY <1>1 DEF IInv, HwPlace, TypeOK
  <2>3. Pair(k, i)
    BY <1>1, <2>1, <2>2 DEF IInv, Pairs
  <2>4. ~ Ordered(k, i)
    BY DEF Ordered, Behind, InCritical, Critical, Waiting, Gone
  <2> QED
    BY <2>3, <2>4 DEF Pair, Leaving
<1> QED
  BY <1>1, IInvInit, IInvStep, PTL DEF Spec
===============================================================================
