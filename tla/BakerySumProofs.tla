---------------------------- MODULE BakerySumProofs ----------------------------
(***************************************************************************)
(* What TLAPS proves of the sum in Bakery: that no increment is lost, for  *)
(* every number of threads, every number of increments and every size of   *)
(* the store buffers.                                                      *)
(***************************************************************************)
EXTENDS BakeryProofs, FiniteSetTheorems

\* The increments that were made, each by its thread and its number there.
Done == {d \in Thread \X (1..N_ITERACTIONS) : d[2] <= thread[d[1]].count}

\* A store into the accumulator waits in the buffer of i.
Pending(i) == \E k \in 1..Len(buffer[i]) : buffer[i][k].var = "accumulator"

\* i may still change the accumulator, or is about to unlock.
Adding(i) == thread[i].at \in Critical \cup {"unlock"} \/ Pending(i)

\* The increments of i are all made between lock and unlock.
Counted(i) ==
  /\ thread[i].at \in Critical => thread[i].count < N_ITERACTIONS
  /\ thread[i].at \in {"unlock", "return"} => thread[i].count = N_ITERACTIONS
  /\ thread[i].at \notin Critical \cup {"unlock", "return"} =>
       thread[i].count = 0 /\ ~ Pending(i)

\* What i finds in the accumulator when no other thread has a store waiting, and
\* what it has read there, counts every increment made so far.
Exact(i) ==
  /\ thread[i].at = "write" => thread[i].val = Cardinality(Done)
  /\ (\A k \in Thread \ {i} : ~ Pending(k)) => SeenAccumulator(i) = Cardinality(Done)

Ended(i) == thread[i].at = "return" /\ buffer[i] = <<>>

\* The main thread is past the threads that have ended.
JoinsInOrder ==
  /\ main.at = "join" => \A i \in Thread : i < main.thread => Ended(i)
  /\ main.at = "print" => \A i \in Thread : Ended(i)

\* The inductive invariant, with that of the lock.
SumInv ==
  /\ IInv
  /\ JoinsInOrder
  /\ \A i \in Thread : Counted(i)
  /\ ~reordered => \A i \in Thread : Exact(i)
-------------------------------------------------------------------------------
(* Stores that enter and leave a buffer.                                    *)

LEMMA NewestAppend ==
  ASSUME NEW s \in Seq(Store), NEW e \in Store, NEW var, NEW value
  PROVE  Newest(Append(s, e), var, value) =
           IF e.var = var THEN e.val ELSE Newest(s, var, value)
<1> DEFINE u == Append(s, e)
           n == Len(s)
           S == {k \in DOMAIN s : s[k].var = var}
           U == {k \in DOMAIN u : u[k].var = var}
<1>1. /\ n \in Nat /\ DOMAIN s = 1..n /\ DOMAIN u = 1..(n + 1)
      /\ \A k \in 1..n : u[k] = s[k]
      /\ u[n + 1] = e
  <2>1. u \in Seq(Store) /\ Len(u) = n + 1
    BY AppendProperties
  <2> QED
    BY <2>1, AppendProperties, LenProperties
<1>2. CASE e.var = var
  <2>1. U \in SUBSET (1..(n + 1)) /\ n + 1 \in U /\ n + 1 \in Nat
    BY <1>1, <1>2
  <2>2. Max(U) \in U /\ \A y \in U : y <= Max(U)
    <3> HIDE DEF U
    <3> QED
      BY <2>1, LastPosition
  <2>3. Max(U) = n + 1
    <3>1. Max(U) \in 1..(n + 1) /\ n + 1 <= Max(U)
      BY <2>1, <2>2
    <3> HIDE DEF U, n
    <3> QED
      BY <1>1, <3>1
  <2>4. Newest(u, var, value) = u[Max(U)].val
    BY <2>1 DEF Newest
  <2> QED
    BY <1>1, <1>2, <2>3, <2>4
<1>3. CASE e.var # var
  <2>1. U = S
    <3>1. ASSUME NEW k PROVE k \in U <=> k \in S
      <4>1. k \in 1..(n + 1) <=> k \in 1..n \/ k = n + 1
        BY <1>1
      <4> QED
        BY <1>1, <1>3, <4>1
    <3> QED
      BY <3>1
  <2>2. CASE S = {}
    BY <1>3, <2>1, <2>2 DEF Newest
  <2>3. CASE S # {}
    <3>1. Max(S) \in S
      <4>1. S \in SUBSET (1..n)
        BY <1>1
      <4> HIDE DEF S
      <4> QED
        BY <1>1, <2>3, <4>1, LastPosition
    <3>2. u[Max(S)] = s[Max(S)]
      BY <1>1, <3>1
    <3> QED
      BY <1>3, <2>1, <2>3, <3>2 DEF Newest
  <2> QED
    BY <2>2, <2>3
<1> QED
  BY <1>2, <1>3

\* What a thread finds does not change when its oldest store reaches memory.
LEMMA NewestTail ==
  ASSUME NEW s \in Seq(Store), s # <<>>, NEW var, NEW value
  PROVE  Newest(Tail(s), var, IF Head(s).var = var THEN Head(s).val ELSE value) =
           Newest(s, var, value)
<1> DEFINE u == Tail(s)
           n == Len(s)
           S == {k \in DOMAIN s : s[k].var = var}
           U == {k \in DOMAIN u : u[k].var = var}
<1>1. /\ n \in Nat \ {0} /\ DOMAIN s = 1..n /\ DOMAIN u = 1..(n - 1) /\ Head(s) = s[1]
      /\ \A k \in 1..(n - 1) : u[k] = s[k + 1]
  <2>1. u \in Seq(Store) /\ Len(u) = n - 1 /\ \A k \in 1..Len(u) : u[k] = s[k + 1]
    BY HeadTailProperties
  <2> QED
    BY <2>1, EmptySeq, LenProperties
<1>2. S \in SUBSET (1..n) /\ U \in SUBSET (1..(n - 1)) /\ n \in Nat /\ n - 1 \in Nat
  BY <1>1
<1>3. \A k \in 1..(n - 1) : k \in U <=> k + 1 \in S
  BY <1>1
<1>4. CASE U = {}
  <2>1. S \subseteq {1}
    <3> SUFFICES ASSUME NEW k \in S, k # 1 PROVE FALSE
      OBVIOUS
    <3>1. k - 1 \in 1..(n - 1) /\ (k - 1) + 1 = k
      <4>1. k \in 1..n
        BY <1>2
      <4> HIDE DEF S
      <4> QED
        BY <1>1, <4>1
    <3>2. k - 1 \in U
      BY <1>3, <3>1
    <3> QED
      BY <1>4, <3>2
  <2>2. CASE s[1].var = var
    <3>1. S = {1}
      BY <1>1, <2>1, <2>2
    <3>2. Max({1}) = 1
      BY DEF Max
    <3> QED
      BY <1>1, <1>4, <2>2, <3>1, <3>2 DEF Newest
  <2>3. CASE s[1].var # var
    <3>1. S = {}
      BY <2>1, <2>3
    <3> QED
      BY <1>1, <1>4, <2>3, <3>1 DEF Newest
  <2> QED
    BY <2>2, <2>3
<1>5. CASE U # {}
  <2> HIDE DEF u, n, S, U
  <2>1. Max(U) \in U /\ \A y \in U : y <= Max(U)
    BY <1>2, <1>5, LastPosition
  <2>2. Max(U) \in 1..(n - 1) /\ Max(U) + 1 \in S
    BY <1>2, <1>3, <2>1
  <2>3. Max(S) \in S /\ \A y \in S : y <= Max(S)
    BY <1>2, <2>2, LastPosition
  <2>4. Max(S) \in 1..n /\ Max(U) + 1 <= Max(S)
    BY <1>2, <2>2, <2>3
  <2>5. Max(S) - 1 \in 1..(n - 1) /\ (Max(S) - 1) + 1 = Max(S)
    BY <1>2, <2>2, <2>4
  <2>6. Max(S) - 1 \in U
    BY <1>3, <2>3, <2>5
  <2>7. Max(S) = Max(U) + 1
    <3>1. Max(S) - 1 <= Max(U)
      BY <2>1, <2>6
    <3> QED
      BY <1>2, <2>2, <2>4, <3>1
  <2>8. u[Max(U)] = s[Max(S)]
    BY <1>1, <2>2, <2>7
  <2>9. S # {}
    BY <2>3
  <2> QED
    BY <1>5, <2>8, <2>9 DEF Newest, S, U, u
<1> QED
  BY <1>4, <1>5

\* A thread without a store into the accumulator finds what is in memory.
LEMMA FindsMemory ==
  ASSUME TypeOK, NEW i \in Thread, ~ Pending(i)
  PROVE  SeenAccumulator(i) = accumulator
<1>1. buffer[i] \in Seq(Store)
  BY DEF TypeOK
<1> QED
  BY <1>1, NewestNone DEF SeenAccumulator, Pending

LEMMA FindsMemoryNext ==
  ASSUME TypeOK', NEW i \in Thread, ~ Pending(i)'
  PROVE  SeenAccumulator(i)' = accumulator'
<1>1. buffer'[i] \in Seq(Store) /\ \A k \in 1..Len(buffer'[i]) : buffer'[i][k].var # "accumulator"
  BY DEF TypeOK, Pending
<1> QED
  BY <1>1, NewestNone DEF SeenAccumulator

\* A store into an array of the lock changes nothing of the sum.
LEMMA OtherStore ==
  ASSUME TypeOK, NEW p \in Thread, NEW e \in Store, e.var # "accumulator",
         buffer'[p] = Append(buffer[p], e), accumulator' = accumulator
  PROVE  Pending(p)' = Pending(p) /\ SeenAccumulator(p)' = SeenAccumulator(p)
<1>1. buffer[p] \in Seq(Store)
  BY DEF TypeOK
<1>2. /\ Len(buffer'[p]) = Len(buffer[p]) + 1 /\ Len(buffer[p]) \in Nat
      /\ \A k \in 1..Len(buffer[p]) : buffer'[p][k] = buffer[p][k]
      /\ buffer'[p][Len(buffer[p]) + 1] = e
  BY <1>1, AppendProperties, LenProperties
<1>3. \A k \in 1..Len(buffer'[p]) : k = Len(buffer[p]) + 1 \/ k \in 1..Len(buffer[p])
  BY <1>2
<1>4. \A k \in 1..Len(buffer[p]) : k \in 1..Len(buffer'[p])
  BY <1>2
<1> QED
  BY <1>1, <1>2, <1>3, <1>4, NewestAppend DEF Pending, SeenAccumulator
-------------------------------------------------------------------------------
(* Counting.                                                                *)

LEMMA DoneFinite ==
  /\ IsFiniteSet(Thread \X (1..N_ITERACTIONS))
  /\ Cardinality(Thread \X (1..N_ITERACTIONS)) = N_THREADS * N_ITERACTIONS
  /\ IsFiniteSet(Done) /\ Cardinality(Done) \in Nat
<1>1. IsFiniteSet(Thread) /\ Cardinality(Thread) = N_THREADS
  <2>1. N_THREADS - 1 \in Int /\ ~ (0 > N_THREADS - 1) /\ (N_THREADS - 1) - 0 + 1 = N_THREADS
    BY BakeryAssumption
  <2> QED
    BY <2>1, FS_Interval DEF Thread
<1>2. IsFiniteSet(1..N_ITERACTIONS) /\ Cardinality(1..N_ITERACTIONS) = N_ITERACTIONS
  <2>1. N_ITERACTIONS \in Int /\ ~ (1 > N_ITERACTIONS) /\ N_ITERACTIONS - 1 + 1 = N_ITERACTIONS
    BY BakeryAssumption
  <2> QED
    BY <2>1, FS_Interval
<1>3. /\ IsFiniteSet(Thread \X (1..N_ITERACTIONS))
      /\ Cardinality(Thread \X (1..N_ITERACTIONS)) = N_THREADS * N_ITERACTIONS
  BY <1>1, <1>2, FS_Product
<1>4. Done \in SUBSET (Thread \X (1..N_ITERACTIONS))
  BY DEF Done
<1>5. IsFiniteSet(Done)
  BY <1>3, <1>4, FS_Subset
<1> QED
  BY <1>3, <1>5, FS_CardinalityType

LEMMA DoneKept ==
  ASSUME \A i \in Thread : thread'[i].count = thread[i].count
  PROVE  Done' = Done
BY DEF Done

\* One more increment of p.
LEMMA DoneMore ==
  ASSUME TypeOK, NEW p \in Thread, thread[p].count < N_ITERACTIONS,
         thread'[p].count = thread[p].count + 1,
         \A i \in Thread \ {p} : thread'[i].count = thread[i].count
  PROVE  Cardinality(Done') = Cardinality(Done) + 1
<1> DEFINE c == thread[p].count
<1>1. c \in Nat /\ N_ITERACTIONS \in Nat /\ c + 1 \in 1..N_ITERACTIONS /\ ~ (c + 1 <= c)
  BY LocalType, BakeryAssumption
<1>2. Done' = Done \cup {<<p, c + 1>>}
  <2>1. ASSUME NEW i \in Thread, NEW k \in 1..N_ITERACTIONS
        PROVE  k <= thread'[i].count <=> k <= thread[i].count \/ <<i, k>> = <<p, c + 1>>
    <3>1. CASE i # p
      BY <3>1
    <3>2. CASE i = p
      <4>1. k <= c + 1 <=> k <= c \/ k = c + 1
        BY <1>1
      <4> QED
        BY <3>2, <4>1
    <3> QED
      BY <3>1, <3>2
  <2>2. \A d \in Thread \X (1..N_ITERACTIONS) : d \in Done' <=> d \in Done \/ d = <<p, c + 1>>
    <3> TAKE d \in Thread \X (1..N_ITERACTIONS)
    <3>1. PICK i \in Thread, k \in 1..N_ITERACTIONS : d = <<i, k>>
      OBVIOUS
    <3>2. d[1] = i /\ d[2] = k
      BY <3>1
    <3> HIDE DEF c
    <3> QED
      BY <2>1, <3>1, <3>2 DEF Done
  <2>3. <<p, c + 1>> \in Thread \X (1..N_ITERACTIONS)
    BY <1>1
  <2>4. Done \subseteq Thread \X (1..N_ITERACTIONS) /\ Done' \subseteq Thread \X (1..N_ITERACTIONS)
    BY DEF Done
  <2> HIDE DEF c
  <2> QED
    BY <2>2, <2>3, <2>4
<1>3. <<p, c + 1>> \notin Done
  BY <1>1 DEF Done
<1> HIDE DEF c
<1> QED
  BY <1>2, <1>3, DoneFinite, FS_AddElement
-------------------------------------------------------------------------------
(* One thread at a time.                                                    *)

\* Two threads never have stores into the accumulator on their way: the lock
\* is not free before those of its holder have reached memory.
LEMMA OneAdds ==
  ASSUME IInv, ~reordered, NEW i \in Thread, NEW k \in Thread, i # k,
         Counted(i), Counted(k), Adding(i), Adding(k)
  PROVE  FALSE
<1>1. ASSUME NEW j \in Thread, Counted(j), Adding(j)
      PROVE  /\ thread[j].at \in Critical \cup {"unlock", "return"}
             /\ thread[j].at = "return" => buffer[j] # <<>>
  <2>1. Pending(j) => buffer[j] # <<>>
    BY DEF Pending
  <2> QED
    BY <1>1, <2>1 DEF Counted, Adding, Critical
<1>2. CASE mode = "pthread"
  <2>1. HwPlace(i) /\ HwPlace(k)
    BY <1>2 DEF IInv
  <2>2. lock = i /\ lock = k
    BY <1>1, <2>1 DEF HwPlace
  <2> QED
    BY <2>2
<1>3. CASE mode = "lamport"
  <2>1. Shape(i) /\ Shape(k) /\ Pair(i, k) /\ Pair(k, i)
    BY <1>3 DEF IInv, Pairs
  <2>2. Leaving(i) \/ thread[i].at \in Critical \cup {"unlock"}
    BY <1>1, <2>1 DEF Shape, Gone
  <2>3. Leaving(k) \/ thread[k].at \in Critical \cup {"unlock"}
    BY <1>1, <2>1 DEF Shape, Gone
  <2>4. Ordered(i, k) /\ Ordered(k, i)
    BY <2>1, <2>2, <2>3 DEF Pair
  <2> QED
    BY <2>1, <2>4, Exclusion DEF IInv
<1> QED
  BY <1>2, <1>3 DEF IInv, TypeOK

\* Where a step of p leaves the sum, what is waiting for it and the increments
\* as they are, what threads know of the sum stays true.
LEMMA SumKept ==
  ASSUME TypeOK, NEW p \in Thread, \A i \in Thread : Counted(i),
         ~reordered => \A i \in Thread : Exact(i), reordered => reordered',
         \A i \in Thread \ {p} : thread'[i] = thread[i] /\ buffer'[i] = buffer[i],
         accumulator' = accumulator,
         thread'[p].count = thread[p].count, thread'[p].at # "write", Counted(p)',
         \/ buffer'[p] = buffer[p]
         \/ \E e \in Store : e.var # "accumulator" /\ buffer'[p] = Append(buffer[p], e)
  PROVE  /\ \A i \in Thread : Counted(i)'
         /\ ~reordered' => \A i \in Thread : Exact(i)'
<1>1. \A i \in Thread : Pending(i)' = Pending(i) /\ SeenAccumulator(i)' = SeenAccumulator(i)
  <2>1. ASSUME NEW i \in Thread, buffer'[i] = buffer[i]
        PROVE  Pending(i)' = Pending(i) /\ SeenAccumulator(i)' = SeenAccumulator(i)
    BY <2>1 DEF Pending, SeenAccumulator
  <2>2. ASSUME buffer'[p] # buffer[p]
        PROVE  Pending(p)' = Pending(p) /\ SeenAccumulator(p)' = SeenAccumulator(p)
    BY <2>2, OtherStore
  <2> QED
    BY <2>1, <2>2
<1>2. \A i \in Thread \ {p} : Counted(i)'
  BY <1>1 DEF Counted
<1>3. Done' = Done
  BY DoneKept
<1>4. ASSUME ~reordered', NEW i \in Thread PROVE Exact(i)'
  <2>1. Exact(i)
    BY <1>4
  <2>2. thread'[i].at = "write" => thread'[i] = thread[i]
    OBVIOUS
  <2> QED
    BY <1>1, <1>3, <2>1, <2>2 DEF Exact
<1> QED
  BY <1>2, <1>4

\* Where p goes without a store, its place before and after decide.
LEMMA CountedMove ==
  ASSUME TypeOK, NEW p \in Thread, Counted(p), buffer'[p] = buffer[p],
         thread'[p].count = thread[p].count,
         \/ /\ thread[p].at \notin Critical \cup {"unlock", "return"}
            /\ thread'[p].at \notin Critical \cup {"unlock", "return"}
         \/ /\ thread[p].at \notin Critical \cup {"unlock", "return"}
            /\ thread'[p].at \in Critical
         \/ thread[p].at = "unlock" /\ thread'[p].at = "return"
  PROVE  Counted(p)'
<1>1. Pending(p)' = Pending(p) /\ 0 < N_ITERACTIONS
  BY BakeryAssumption DEF Pending
<1> QED
  BY <1>1 DEF Counted, Critical

LEMMA LockSum ==
  ASSUME TypeOK, NEW p \in Thread, \A i \in Thread : Counted(i),
         ~reordered => \A i \in Thread : Exact(i),
         StartChoosing(p) \/ TakeTicket(p) \/ EndChoosing(p) \/ Unlock(p)
  PROVE  /\ \A i \in Thread : Counted(i)'
         /\ ~reordered' => \A i \in Thread : Exact(i)'
<1> USE DEF memory, rest
<1>1. PICK e \in Store : e.var # "accumulator" /\ buffer'[p] = Append(buffer[p], e)
  <2>1. ASSUME NEW c \in {0, 1}, Write(p, "choosing", c)
        PROVE  \E e \in Store : e.var # "accumulator" /\ buffer'[p] = Append(buffer[p], e)
    <3>1. ChoosingStore(c) \in Store /\ ChoosingStore(c).var # "accumulator"
      BY DEF Store, ChoosingStore
    <3>2. buffer'[p] = Append(buffer[p], ChoosingStore(c))
      BY <2>1 DEF Write, ChoosingStore, TypeOK
    <3> QED
      BY <3>1, <3>2
  <2>2. ASSUME NEW t \in Nat, Write(p, "ticket", t)
        PROVE  \E e \in Store : e.var # "accumulator" /\ buffer'[p] = Append(buffer[p], e)
    <3>1. TicketStore(t) \in Store /\ TicketStore(t).var # "accumulator"
      BY DEF Store, TicketStore
    <3>2. buffer'[p] = Append(buffer[p], TicketStore(t))
      BY <2>2 DEF Write, TicketStore, TypeOK
    <3> QED
      BY <3>1, <3>2
  <2>3. thread[p].val + 1 \in Nat
    BY LocalType
  <2> QED
    BY <2>1, <2>2, <2>3 DEF StartChoosing, TakeTicket, EndChoosing, Unlock
<1>2. /\ accumulator' = accumulator /\ thread'[p].count = thread[p].count
      /\ reordered' = reordered
      /\ \A i \in Thread \ {p} : thread'[i] = thread[i] /\ buffer'[i] = buffer[i]
      /\ \/ thread[p].at \in {"start", "take", "chosen"}
            /\ thread'[p].at \in {"max", "chosen", "choosing"}
         \/ thread[p].at = "unlock" /\ thread'[p].at = "return"
  <2>1. CASE StartChoosing(p)
    BY <2>1 DEF StartChoosing, Write, Goto, TypeOK
  <2>2. CASE TakeTicket(p)
    BY <2>2 DEF TakeTicket, Write, TypeOK
  <2>3. CASE EndChoosing(p)
    BY <2>3 DEF EndChoosing, Write, Goto, TypeOK
  <2>4. CASE Unlock(p)
    BY <2>4 DEF Unlock, Write, Goto, TypeOK
  <2> QED
    BY <2>1, <2>2, <2>3, <2>4
<1>3. Pending(p)' = Pending(p)
  BY <1>1, <1>2, OtherStore
<1>4. Counted(p)'
  BY <1>2, <1>3 DEF Counted, Critical
<1> QED
  BY <1>1, <1>2, <1>4, SumKept

LEMMA WalkSum ==
  ASSUME TypeOK, NEW p \in Thread, \A i \in Thread : Counted(i),
         ~reordered => \A i \in Thread : Exact(i),
         \/ ScanTicket(p) \/ WaitChoosing(p) \/ WaitTicket(p) \/ WaitSmaller(p)
         \/ WaitEqual(p) \/ HwLock(p) \/ HwUnlock(p)
  PROVE  /\ \A i \in Thread : Counted(i)'
         /\ ~reordered' => \A i \in Thread : Exact(i)'
<1> USE DEF memory, rest
<1> DEFINE Early == {"start", "max", "take", "chosen"} \cup Waiting
<1>1. /\ accumulator' = accumulator /\ buffer' = buffer
      /\ thread'[p].count = thread[p].count
      /\ \A i \in Thread \ {p} : thread'[i] = thread[i]
      /\ \/ thread[p].at \in Early /\ thread'[p].at \in Early \cup {"read"}
         \/ thread[p].at = "unlock" /\ thread'[p].at = "return"
  <2>1. thread \in [Thread -> [at: Place, j: Thread, val: Nat, count: Nat]]
    BY DEF TypeOK
  <2>2. ASSUME NEW place, Goto(p, place)
        PROVE  /\ thread'[p].at = place /\ thread'[p].count = thread[p].count
               /\ \A i \in Thread \ {p} : thread'[i] = thread[i]
    BY <2>1, <2>2 DEF Goto
  <2>3. ASSUME NextThread(p)
        PROVE  /\ thread'[p].at \in {"read", "choosing"} /\ thread'[p].count = thread[p].count
               /\ \A i \in Thread \ {p} : thread'[i] = thread[i]
    BY <2>1, <2>3 DEF NextThread
  <2>4. CASE ScanTicket(p)
    BY <2>1, <2>4 DEF ScanTicket
  <2>5. CASE WaitChoosing(p)
    BY <2>2, <2>5 DEF WaitChoosing, Waiting
  <2>6. CASE WaitTicket(p)
    BY <2>2, <2>3, <2>6 DEF WaitTicket, Waiting
  <2>7. CASE WaitSmaller(p)
    BY <2>2, <2>7 DEF WaitSmaller, Waiting
  <2>8. CASE WaitEqual(p)
    BY <2>2, <2>3, <2>8 DEF WaitEqual, Waiting
  <2>9. CASE HwLock(p) \/ HwUnlock(p)
    BY <2>2, <2>9 DEF HwLock, HwUnlock
  <2> QED
    BY <2>4, <2>5, <2>6, <2>7, <2>8, <2>9
<1>2. reordered => reordered'
  BY StepFacts DEF ThreadStep
<1>3. Counted(p)'
  BY <1>1, CountedMove DEF Waiting, Critical
<1>4. thread'[p].at # "write"
  BY <1>1 DEF Waiting
<1> QED
  BY <1>1, <1>2, <1>3, <1>4, SumKept
-------------------------------------------------------------------------------
(* accumulator++.                                                           *)

LEMMA ReadSum ==
  ASSUME IInv, NEW p \in Thread, \A i \in Thread : Counted(i),
         ~reordered => \A i \in Thread : Exact(i), ReadAccumulator(p)
  PROVE  /\ \A i \in Thread : Counted(i)'
         /\ ~reordered' => \A i \in Thread : Exact(i)'
<1> USE DEF memory, rest
<1>1. TypeOK
  BY DEF IInv
<1>2. /\ thread[p].at = "read" /\ thread'[p].at = "write"
      /\ thread'[p].val = SeenAccumulator(p) /\ thread'[p].count = thread[p].count
      /\ \A i \in Thread \ {p} : thread'[i] = thread[i]
      /\ accumulator' = accumulator /\ buffer' = buffer /\ reordered' = reordered
  BY <1>1 DEF ReadAccumulator, TypeOK
<1>3. \A i \in Thread : Pending(i)' = Pending(i) /\ SeenAccumulator(i)' = SeenAccumulator(i)
  BY <1>2 DEF Pending, SeenAccumulator
<1>4. Done' = Done
  BY <1>2, DoneKept
<1>5. \A i \in Thread : Counted(i)'
  BY <1>2, <1>3 DEF Counted, Critical
<1>6. ASSUME ~reordered' PROVE \A i \in Thread : Exact(i)'
  <2>1. \A k \in Thread \ {p} : ~ Pending(k)
    BY <1>2, <1>6, OneAdds DEF Adding, Critical
  <2>2. thread'[p].val = Cardinality(Done)
    BY <1>2, <1>6, <2>1 DEF Exact
  <2>3. \A i \in Thread : Exact(i)
    BY <1>2, <1>6
  <2> QED
    BY <1>2, <1>3, <1>4, <2>2, <2>3 DEF Exact
<1> QED
  BY <1>5, <1>6

LEMMA WriteSum ==
  ASSUME IInv, TypeOK', NEW p \in Thread, \A i \in Thread : Counted(i),
         ~reordered => \A i \in Thread : Exact(i), WriteAccumulator(p)
  PROVE  /\ \A i \in Thread : Counted(i)'
         /\ ~reordered' => \A i \in Thread : Exact(i)'
<1> USE DEF memory, rest
<1> DEFINE e == [var |-> "accumulator", val |-> thread[p].val + 1]
<1>1. TypeOK
  BY DEF IInv
<1>2. /\ thread[p].at = "write" /\ thread'[p].count = thread[p].count + 1
      /\ thread'[p].at = IF thread[p].count + 1 = N_ITERACTIONS THEN "unlock" ELSE "read"
      /\ buffer'[p] = Append(buffer[p], e)
      /\ \A i \in Thread \ {p} : thread'[i] = thread[i] /\ buffer'[i] = buffer[i]
      /\ accumulator' = accumulator /\ reordered' = reordered
  <2>1. thread \in [Thread -> [at: Place, j: Thread, val: Nat, count: Nat]]
    BY <1>1 DEF TypeOK
  <2>2. buffer \in [Thread -> Seq(Store)]
    BY <1>1 DEF TypeOK
  <2>3. /\ thread[p].at = "write" /\ thread'[p].count = thread[p].count + 1
        /\ thread'[p].at = IF thread[p].count + 1 = N_ITERACTIONS THEN "unlock" ELSE "read"
        /\ \A i \in Thread \ {p} : thread'[i] = thread[i]
    BY <2>1 DEF WriteAccumulator
  <2>4. buffer' = [buffer EXCEPT ![p] = Append(buffer[p], e)]
    BY DEF WriteAccumulator, Write
  <2>5. buffer'[p] = Append(buffer[p], e) /\ \A i \in Thread \ {p} : buffer'[i] = buffer[i]
    BY <2>2, <2>4
  <2>6. accumulator' = accumulator /\ reordered' = reordered
    BY DEF WriteAccumulator
  <2> QED
    BY <2>3, <2>5, <2>6
<1>3. e \in Store /\ e.var = "accumulator" /\ e.val = thread[p].val + 1
  BY <1>1, LocalType DEF Store
<1> HIDE DEF e
<1>4. buffer[p] \in Seq(Store)
  BY <1>1 DEF TypeOK
<1>5. Pending(p)'
  <2>1. /\ Len(buffer'[p]) = Len(buffer[p]) + 1 /\ Len(buffer[p]) \in Nat
        /\ buffer'[p][Len(buffer[p]) + 1] = e
    BY <1>2, <1>3, <1>4, AppendProperties, LenProperties
  <2>2. Len(buffer[p]) + 1 \in 1..Len(buffer'[p])
    BY <2>1
  <2> QED
    BY <1>3, <2>1, <2>2 DEF Pending
<1>6. thread[p].count \in Nat /\ thread[p].count < N_ITERACTIONS
  BY <1>1, <1>2, LocalType DEF Counted, Critical
<1>7. \A i \in Thread : Counted(i)'
  <2>1. ASSUME NEW i \in Thread \ {p} PROVE Counted(i)'
    BY <1>2 DEF Counted, Pending
  <2>2. Counted(p)'
    BY <1>2, <1>6, BakeryAssumption DEF Counted, Critical
  <2> QED
    BY <2>1, <2>2
<1>8. ASSUME ~reordered' PROVE \A i \in Thread : Exact(i)'
  <2>1. \A k \in Thread \ {p} : ~ Adding(k)
    BY <1>2, <1>8, OneAdds DEF Adding, Critical
  <2>2. thread[p].val = Cardinality(Done)
    BY <1>2, <1>8 DEF Exact
  <2>3. Cardinality(Done') = Cardinality(Done) + 1
    BY <1>1, <1>2, <1>6, DoneMore
  <2>4. SeenAccumulator(p)' = thread[p].val + 1
    BY <1>2, <1>3, <1>4, NewestAppend DEF SeenAccumulator
  <2>5. Exact(p)'
    BY <1>2, <2>2, <2>3, <2>4 DEF Exact
  <2>6. ASSUME NEW i \in Thread \ {p} PROVE Exact(i)'
    BY <1>2, <1>5, <2>1 DEF Exact, Adding, Critical
  <2> QED
    BY <2>5, <2>6
<1> QED
  BY <1>7, <1>8

LEMMA DrainSum ==
  ASSUME IInv, TypeOK', NEW p \in Thread, \A i \in Thread : Counted(i),
         ~reordered => \A i \in Thread : Exact(i), Drain(p)
  PROVE  /\ \A i \in Thread : Counted(i)'
         /\ ~reordered' => \A i \in Thread : Exact(i)'
<1> DEFINE e == Head(buffer[p])
<1>1. TypeOK
  BY DEF IInv
<1>2. /\ thread' = thread /\ reordered' = reordered
      /\ buffer[p] # <<>> /\ buffer'[p] = Tail(buffer[p])
      /\ accumulator' = IF e.var = "accumulator" THEN e.val ELSE accumulator
      /\ \A i \in Thread \ {p} : buffer'[i] = buffer[i]
  BY <1>1 DEF Drain, TypeOK
<1>3. buffer[p] \in Seq(Store)
  BY <1>1 DEF TypeOK
<1>4. /\ Len(buffer[p]) \in Nat \ {0} /\ e = buffer[p][1]
      /\ Len(buffer'[p]) = Len(buffer[p]) - 1
      /\ \A k \in 1..Len(buffer'[p]) : buffer'[p][k] = buffer[p][k + 1]
  BY <1>2, <1>3, HeadTailProperties, LenProperties, EmptySeq
<1>5. SeenAccumulator(p)' = SeenAccumulator(p)
  BY <1>2, <1>3, NewestTail DEF SeenAccumulator
<1> HIDE DEF e
<1>6. Pending(p) <=> e.var = "accumulator" \/ Pending(p)'
  <2>1. ASSUME NEW k \in 1..Len(buffer[p]) PROVE k = 1 \/ k - 1 \in 1..Len(buffer'[p])
    BY <1>4
  <2>2. ASSUME NEW k \in 1..Len(buffer'[p])
        PROVE  k + 1 \in 1..Len(buffer[p]) /\ 1 \in 1..Len(buffer[p]) /\ (k + 1) - 1 = k
    BY <1>4
  <2>3. 1 \in 1..Len(buffer[p])
    BY <1>4
  <2>4. ASSUME NEW k \in 1..Len(buffer[p]), k # 1
        PROVE  k - 1 \in 1..Len(buffer'[p]) /\ buffer'[p][k - 1] = buffer[p][k]
    <3>1. k - 1 \in 1..Len(buffer'[p]) /\ (k - 1) + 1 = k
      BY <2>1, <2>4
    <3> QED
      BY <1>4, <3>1
  <2>5. Pending(p)' => Pending(p)
    BY <1>4, <2>2 DEF Pending
  <2>6. Pending(p) => e.var = "accumulator" \/ Pending(p)'
    BY <1>4, <2>4 DEF Pending
  <2>7. e.var = "accumulator" => Pending(p)
    BY <1>4, <2>3 DEF Pending
  <2> QED
    BY <2>5, <2>6, <2>7
<1>7. \A i \in Thread \ {p} : Pending(i)' = Pending(i)
  BY <1>2 DEF Pending
<1>8. \A i \in Thread : Counted(i)'
  BY <1>2, <1>6, <1>7 DEF Counted
<1>9. Done' = Done
  BY <1>2, DoneKept
<1>10. ASSUME ~reordered', NEW i \in Thread, NEW k \in Thread \ {i} PROVE ~ (Pending(i) /\ Pending(k))
  BY <1>2, <1>10, OneAdds DEF Adding
<1>11. ASSUME ~reordered' PROVE \A i \in Thread : Exact(i)'
  <2>1. \A i \in Thread : Exact(i)
    BY <1>2, <1>11
  <2>2. Exact(p)'
    BY <1>2, <1>5, <1>7, <1>9, <2>1 DEF Exact
  <2>3. ASSUME NEW i \in Thread \ {p}, \A k \in Thread \ {i} : ~ Pending(k)'
        PROVE  SeenAccumulator(i)' = Cardinality(Done)
    <3>1. CASE e.var # "accumulator"
      <4>1. SeenAccumulator(i)' = SeenAccumulator(i)
        BY <1>2, <3>1 DEF SeenAccumulator
      <4>2. \A k \in Thread \ {i} : ~ Pending(k)
        BY <1>6, <1>7, <2>3, <3>1
      <4> QED
        BY <2>1, <4>1, <4>2 DEF Exact
    <3>2. CASE e.var = "accumulator"
      <4>1. \A k \in Thread \ {p} : ~ Pending(k)
        BY <1>6, <1>10, <1>11, <3>2
      <4>2. SeenAccumulator(p) = Cardinality(Done)
        BY <2>1, <4>1 DEF Exact
      <4>3. ~ Pending(p)' /\ ~ Pending(i)'
        BY <1>7, <2>3, <4>1
      <4>4. SeenAccumulator(p)' = accumulator' /\ SeenAccumulator(i)' = accumulator'
        BY <4>3, FindsMemoryNext
      <4> QED
        BY <1>5, <4>2, <4>4
    <3> QED
      BY <3>1, <3>2
  <2>4. ASSUME NEW i \in Thread \ {p} PROVE Exact(i)'
    BY <1>2, <1>9, <2>1, <2>3 DEF Exact
  <2> QED
    BY <2>2, <2>4
<1> QED
  BY <1>8, <1>11
-------------------------------------------------------------------------------
(* The main thread, and the theorem.                                        *)

LEMMA CreateSum ==
  ASSUME IInv, \A i \in Thread : Counted(i),
         ~reordered => \A i \in Thread : Exact(i), Create
  PROVE  /\ \A i \in Thread : Counted(i)'
         /\ ~reordered' => \A i \in Thread : Exact(i)'
<1>0. TypeOK /\ main.thread \in Thread /\ thread[main.thread].at = "new"
  BY CreatesNew DEF IInv, InOrder
<1>1. PICK p \in Thread : p = main.thread /\ thread[p].at = "new"
  BY <1>0
<1>2. /\ thread'[p].at = "start" /\ thread'[p].count = thread[p].count
      /\ \A i \in Thread \ {p} : thread'[i] = thread[i]
      /\ buffer' = buffer /\ accumulator' = accumulator /\ reordered' = reordered
  BY <1>0, <1>1 DEF Create, Goto, memory, TypeOK
<1>3. Counted(p)'
  BY <1>0, <1>1, <1>2, CountedMove DEF Critical
<1> QED
  BY <1>0, <1>1, <1>2, <1>3, SumKept

LEMMA JoinsStep ==
  ASSUME IInv, JoinsInOrder, [Next]_vars
  PROVE  JoinsInOrder'
<1>1. TypeOK
  BY DEF IInv
<1>2. ASSUME NEW p \in Thread, ThreadStep(p) PROVE JoinsInOrder'
  <2>1. ~ Ended(p)
    BY <1>2 DEF Ended, Critical, ThreadStep, StartChoosing, ScanTicket, TakeTicket,
         EndChoosing, WaitChoosing, WaitTicket, WaitSmaller, WaitEqual, Unlock,
         ReadAccumulator, WriteAccumulator, HwLock, HwUnlock
  <2>2. main' = main /\ \A i \in Thread \ {p} : Ended(i) => Ended(i)'
    BY <1>1, <1>2, StepFacts DEF Others, Same, Ended
  <2> QED
    BY <2>1, <2>2 DEF JoinsInOrder
<1>3. ASSUME NEW p \in Thread, Drain(p) PROVE JoinsInOrder'
  <2>1. ~ Ended(p)
    BY <1>3 DEF Drain, Ended
  <2>2. main' = main /\ \A i \in Thread \ {p} : Ended(i) => Ended(i)'
    BY <1>1, <1>3 DEF Drain, Ended, TypeOK
  <2> QED
    BY <2>1, <2>2 DEF JoinsInOrder
<1>4. CASE Create
  <2>1. main.thread \in Nat /\ N_THREADS \in Nat
    BY <1>1, ThreadNumbers, BakeryAssumption DEF TypeOK
  <2>2. /\ main'.at \in {"create", "join"}
        /\ main'.at = "join" => main'.thread = 0
    BY <1>4, <2>1 DEF Create, NextInOrder, Following
  <2> QED
    BY <2>2, ThreadNumbers DEF JoinsInOrder
<1>5. CASE Join
  <2>1. main.thread \in Nat /\ main.thread \in Thread /\ N_THREADS \in Nat
    BY <1>1, ThreadNumbers, BakeryAssumption DEF TypeOK
  <2>2. /\ \A i \in Thread : i < main.thread => Ended(i)
        /\ Ended(main.thread)
        /\ \A i \in Thread : Ended(i)' = Ended(i)
        /\ main' = [at |-> IF main.thread + 1 = N_THREADS THEN "print" ELSE "join",
                    thread |-> Following(main.thread)]
    BY <1>5 DEF Join, JoinsInOrder, NextInOrder, Ended, memory
  <2>3. \A i \in Thread : i \in Nat /\ i < N_THREADS
    BY BakeryAssumption DEF Thread
  <2>4. CASE main.thread + 1 = N_THREADS
    <3>1. \A i \in Thread : i < main.thread \/ i = main.thread
      BY <2>1, <2>3, <2>4
    <3> QED
      BY <2>2, <2>4, <3>1 DEF JoinsInOrder
  <2>5. CASE main.thread + 1 # N_THREADS
    <3>1. main'.at = "join" /\ main'.thread = main.thread + 1
      BY <2>2, <2>5 DEF Following
    <3>2. \A i \in Thread : i < main.thread + 1 => i < main.thread \/ i = main.thread
      BY <2>1, <2>3
    <3> QED
      BY <2>2, <3>1, <3>2 DEF JoinsInOrder
  <2> QED
    BY <2>4, <2>5
<1>6. CASE UNCHANGED vars
  BY <1>6 DEF vars, JoinsInOrder, Ended
<1> QED
  BY <1>2, <1>3, <1>4, <1>5, <1>6 DEF Next, MainStep

LEMMA SumInit == Init => SumInv
<1> SUFFICES ASSUME Init PROVE SumInv
  OBVIOUS
<1>1. IInv
  BY IInvInit
<1>2. \A i \in Thread : /\ thread[i].at = "new" /\ thread[i].count = 0
                        /\ buffer[i] = <<>> /\ ~ Pending(i)
  BY DEF Init, NewThread, Pending
<1>3. JoinsInOrder /\ \A i \in Thread : Counted(i)
  BY <1>2 DEF JoinsInOrder, Init, Counted, Critical
<1>4. Cardinality(Done) = 0
  <2>1. ASSUME NEW d \in Done PROVE FALSE
    <3>1. PICK i \in Thread, k \in 1..N_ITERACTIONS : d = <<i, k>>
      BY DEF Done
    <3>2. k <= thread[i].count /\ k \in Nat \ {0}
      BY <3>1, BakeryAssumption DEF Done
    <3> QED
      BY <1>2, <3>2
  <2>2. Done = {}
    BY <2>1
  <2> QED
    BY <2>2, FS_EmptySet
<1>5. \A i \in Thread : SeenAccumulator(i) = 0
  <2>1. accumulator = 0 /\ TypeOK
    BY <1>1 DEF Init, IInv
  <2> QED
    BY <1>2, <2>1, FindsMemory
<1> QED
  BY <1>1, <1>2, <1>3, <1>4, <1>5 DEF SumInv, Exact

LEMMA SumStep == SumInv /\ [Next]_vars => SumInv'
<1> SUFFICES ASSUME SumInv, [Next]_vars PROVE SumInv'
  OBVIOUS
<1> DEFINE Kept == /\ \A i \in Thread : Counted(i)'
                   /\ ~reordered' => \A i \in Thread : Exact(i)'
<1>1. /\ IInv /\ TypeOK /\ \A i \in Thread : Counted(i)
      /\ ~reordered => \A i \in Thread : Exact(i)
  BY DEF SumInv, IInv
<1>2. IInv' /\ TypeOK'
  BY <1>1, IInvStep DEF IInv
<1>3. JoinsInOrder'
  BY <1>1, JoinsStep DEF SumInv
<1>4. ASSUME NEW p \in Thread, ThreadStep(p) PROVE Kept
  <2>1. CASE StartChoosing(p) \/ TakeTicket(p) \/ EndChoosing(p) \/ Unlock(p)
    BY <1>1, <2>1, LockSum
  <2>2. CASE \/ ScanTicket(p) \/ WaitChoosing(p) \/ WaitTicket(p) \/ WaitSmaller(p)
             \/ WaitEqual(p) \/ HwLock(p) \/ HwUnlock(p)
    BY <1>1, <2>2, WalkSum
  <2>3. CASE ReadAccumulator(p)
    BY <1>1, <2>3, ReadSum
  <2>4. CASE WriteAccumulator(p)
    BY <1>1, <1>2, <2>4, WriteSum
  <2> QED
    BY <1>4, <2>1, <2>2, <2>3, <2>4 DEF ThreadStep
<1>5. ASSUME NEW p \in Thread, Drain(p) PROVE Kept
  BY <1>1, <1>2, <1>5, DrainSum
<1>6. ASSUME Create PROVE Kept
  BY <1>1, <1>6, CreateSum
<1>7. ASSUME Join \/ UNCHANGED vars PROVE Kept
  <2>1. thread' = thread /\ buffer' = buffer /\ accumulator' = accumulator
        /\ reordered' = reordered
    BY <1>7 DEF Join, memory, vars
  <2>2. Done' = Done /\ \A i \in Thread : /\ Pending(i)' = Pending(i)
                                          /\ SeenAccumulator(i)' = SeenAccumulator(i)
    BY <2>1 DEF Done, Pending, SeenAccumulator
  <2>3. \A i \in Thread : Counted(i)' = Counted(i) /\ Exact(i)' = Exact(i)
    BY <2>1, <2>2 DEF Counted, Exact
  <2> QED
    BY <1>1, <2>1, <2>3
<1>8. Kept
  BY <1>4, <1>5, <1>6, <1>7 DEF Next, MainStep
<1> QED
  BY <1>1, <1>2, <1>3, <1>8 DEF SumInv

\* The sum the program prints (main of lamport.c) counts every increment of
\* every thread, with either lock, for any number of threads and of increments,
\* if no load overtakes a store.
THEOREM BakeryCounts == Spec => []NoLostIncrement
<1>1. ASSUME SumInv PROVE NoLostIncrement
  <2> SUFFICES ASSUME ~reordered, main.at = "print"
               PROVE  accumulator = N_THREADS * N_ITERACTIONS
    BY DEF NoLostIncrement
  <2>1. \A i \in Thread : /\ Ended(i) /\ thread[i].count = N_ITERACTIONS
                          /\ ~ Pending(i) /\ Exact(i)
    BY <1>1 DEF SumInv, JoinsInOrder, Counted, Ended, Pending
  <2>2. Done = Thread \X (1..N_ITERACTIONS)
    <3>1. ASSUME NEW d \in Thread \X (1..N_ITERACTIONS) PROVE d[2] <= thread[d[1]].count
      <4>1. PICK i \in Thread, k \in 1..N_ITERACTIONS : d = <<i, k>>
        OBVIOUS
      <4>2. k <= N_ITERACTIONS
        BY BakeryAssumption
      <4> QED
        BY <2>1, <4>1, <4>2
    <3> QED
      BY <3>1 DEF Done
  <2>3. 0 \in Thread /\ SeenAccumulator(0) = Cardinality(Done)
    BY <2>1, ThreadNumbers DEF Exact
  <2>4. SeenAccumulator(0) = accumulator
    BY <1>1, <2>1, <2>3, FindsMemory DEF SumInv, IInv
  <2> QED
    BY <2>2, <2>3, <2>4, DoneFinite
<1> QED
  BY <1>1, SumInit, SumStep, PTL DEF Spec
===============================================================================
