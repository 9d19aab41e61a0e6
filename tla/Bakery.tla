-------------------------------- MODULE Bakery --------------------------------
(***************************************************************************)
(* The exercise of "Atividade 1": a program whose threads add to one       *)
(* accumulator, each in a critical section that is guarded either by       *)
(* Lamport's bakery algorithm (lamport.c) or by a pthread mutex.           *)
(*                                                                         *)
(* The arrays of the lock are plain variables, written and read without    *)
(* fences or atomics.  Their races are undefined in C; in the program that *)
(* the makefile builds (gcc without optimisation, x86-64) every access is  *)
(* one load or one store, in program order, and a store waits in a buffer  *)
(* of the processor before it reaches memory, while later loads of the     *)
(* same thread go ahead.  One action here is one such load or store.       *)
(***************************************************************************)
EXTENDS Integers, Sequences, FiniteSetsExt

CONSTANTS
  N_THREADS,      \* threads, numbered from 0
  N_ITERACTIONS,  \* increments of each thread
  BUFFER          \* bound: stores that can wait in the buffer of one processor

ASSUME BakeryAssumption ==
  /\ N_THREADS \in Nat \ {0}
  /\ N_ITERACTIONS \in Nat \ {0}
  /\ BUFFER \in Nat \ {0}

VARIABLES
  choosing,     \* choosing[i], 1 while i takes a ticket (in memory)
  ticket,       \* ticket[i], 0 for none (in memory)
  accumulator,  \* the shared sum (in memory)
  buffer,       \* buffer[i]: stores of thread i that have not reached memory
  thread,       \* thread[i]: where i stands, and its local variables
  mode,         \* the argument of the program
  lock,         \* the holder of the pthread mutex, or Nobody
  main,         \* the main thread
  reordered,    \* history: a load overtook a waiting store of its own thread
  ahead         \* history: ahead[i], the threads with a ticket when i arrived
                \* (empty once reordered, where no property asks for it)

vars == <<choosing, ticket, accumulator, buffer, thread, mode, lock, main,
          reordered, ahead>>
-------------------------------------------------------------------------------
Thread == 0..N_THREADS - 1

Nobody == -1

\* The next value of a loop variable; the loop after it starts from 0 again.
Following(j) == IF j + 1 = N_THREADS THEN 0 ELSE j + 1

\* A thread waits on another one in three loads of ticket[j], the operands of
\* the condition of its loop from left to right.
Waiting == {"choosing", "ticket", "smaller", "equal"}

Critical == {"read", "write"}

Place == {"new", "start", "max", "take", "chosen"} \cup Waiting \cup Critical
           \cup {"unlock", "return"}

\* val is max while the tickets are scanned and the register of accumulator++.
NewThread == [at |-> "new", j |-> 0, val |-> 0, count |-> 0]

Store == [var: {"choosing"}, val: {0, 1}] \cup [var: {"ticket", "accumulator"}, val: Nat]
-------------------------------------------------------------------------------
(* Memory.                                                                  *)

\* Thread i stores value into its own element of an array, or the accumulator.
Write(i, var, value) ==
  /\ Len(buffer[i]) < BUFFER
  /\ buffer' = [buffer EXCEPT ![i] = Append(@, [var |-> var, val |-> value])]

\* What a thread finds in var: its newest store that waits in stores, or else
\* value, the one in memory.
Newest(stores, var, value) ==
  LET pending == {k \in DOMAIN stores : stores[k].var = var}
  IN IF pending = {} THEN value ELSE stores[Max(pending)].val

SeenChoosing(i, j) == IF i = j THEN Newest(buffer[i], "choosing", choosing[i]) ELSE choosing[j]

SeenTicket(i, j) == IF i = j THEN Newest(buffer[i], "ticket", ticket[i]) ELSE ticket[j]

SeenAccumulator(i) == Newest(buffer[i], "accumulator", accumulator)

\* i loads an element of j.  Arrivals are forgotten once loads are reordered.
Load(i, j) ==
  /\ reordered' = (reordered \/ (i # j /\ buffer[i] # <<>>))
  /\ ahead' = IF reordered' THEN [k \in Thread |-> {}] ELSE ahead

\* The oldest waiting store of i reaches memory.
Drain(i) ==
  /\ buffer[i] # <<>>
  /\ LET e == Head(buffer[i])
     IN /\ choosing' = IF e.var = "choosing" THEN [choosing EXCEPT ![i] = e.val] ELSE choosing
        /\ ticket' = IF e.var = "ticket" THEN [ticket EXCEPT ![i] = e.val] ELSE ticket
        /\ accumulator' = IF e.var = "accumulator" THEN e.val ELSE accumulator
  /\ buffer' = [buffer EXCEPT ![i] = Tail(@)]
  /\ UNCHANGED <<thread, mode, lock, main, reordered, ahead>>
-------------------------------------------------------------------------------
(* lamport_mutex_lock and lamport_mutex_unlock.                             *)

Goto(i, place) == thread' = [thread EXCEPT ![i].at = place]

memory == <<choosing, ticket, accumulator>>

rest == <<mode, lock, main>>

StartChoosing(i) ==
  /\ thread[i].at = "start" /\ mode = "lamport"
  /\ Write(i, "choosing", 1)
  /\ Goto(i, "max")
  /\ ahead' = [ahead EXCEPT ![i] = {k \in Thread : ticket[k] # 0 /\ ~reordered}]
  /\ UNCHANGED <<memory, rest, reordered>>

ScanLastTicket(i) ==
  LET j == thread[i].j
  IN  /\ thread[i].at = "max"
      /\ Load(i, j)
      /\ thread' = [thread EXCEPT ![i].at = IF j + 1 = N_THREADS THEN "take" ELSE "max",
                                  ![i].j = Following(j),
                                  ![i].val = SeenTicket(i, j)]
      /\ UNCHANGED <<memory, buffer, rest>>

\* max_ticket has no return statement; in liblamport.so, the build kept beside
\* the source, its caller finds the last maximum in the register of the result,
\* and each ticket is loaded once, the conditional expression being one cmov.
ScanTicket(i) ==
  LET j == thread[i].j
      t == SeenTicket(i, j)
  IN  /\ thread[i].at = "max"
      /\ Load(i, j)
      /\ thread' = [thread EXCEPT ![i].at = IF j + 1 = N_THREADS THEN "take" ELSE "max",
                                  ![i].j = Following(j),
                                  ![i].val = IF j = 0 \/ t > @ THEN t ELSE @]
      /\ UNCHANGED <<memory, buffer, rest>>

TakeTicket(i) ==
  /\ thread[i].at = "take"
  /\ Write(i, "ticket", thread[i].val + 1)
  /\ thread' = [thread EXCEPT ![i].at = "chosen", ![i].val = 0]
  /\ UNCHANGED <<memory, rest, reordered, ahead>>

EndChoosing(i) ==
  /\ thread[i].at = "chosen"
  /\ Write(i, "choosing", 0)
  /\ Goto(i, "choosing")
  /\ UNCHANGED <<memory, rest, reordered, ahead>>

NextPastEnd(i) ==
  LET j == thread[i].j
  IN thread' = [thread EXCEPT ![i].at = IF j = N_THREADS THEN "read" ELSE "choosing",
                              ![i].j = j + 1]

\* The wait for thread j is over.
NextThread(i) ==
  LET j == thread[i].j
  IN thread' = [thread EXCEPT ![i].at = IF j + 1 = N_THREADS THEN "read" ELSE "choosing",
                              ![i].j = Following(j)]

IgnoreChoosing(i) ==
  /\ thread[i].at = "choosing"
  /\ Load(i, thread[i].j)
  /\ Goto(i, "ticket")
  /\ UNCHANGED <<memory, buffer, rest>>

WaitChoosing(i) ==
  LET j == thread[i].j
  IN  /\ thread[i].at = "choosing"
      /\ SeenChoosing(i, j) = 0
      /\ Load(i, j)
      /\ Goto(i, "ticket")
      /\ UNCHANGED <<memory, buffer, rest>>

WaitWithoutTicket(i) ==
  /\ thread[i].at = "ticket"
  /\ Load(i, thread[i].j)
  /\ Goto(i, "smaller")
  /\ UNCHANGED <<memory, buffer, rest>>

WaitTicket(i) ==
  LET j == thread[i].j
  IN  /\ thread[i].at = "ticket"
      /\ Load(i, j)
      /\ IF SeenTicket(i, j) # 0 THEN Goto(i, "smaller") ELSE NextThread(i)
      /\ UNCHANGED <<memory, buffer, rest>>

WaitSmaller(i) ==
  LET j == thread[i].j
  IN  /\ thread[i].at = "smaller"
      /\ Load(i, j)
      /\ Goto(i, IF SeenTicket(i, j) < SeenTicket(i, i) THEN "ticket" ELSE "equal")
      /\ UNCHANGED <<memory, buffer, rest>>

NoTieBreak(i) ==
  /\ thread[i].at = "equal"
  /\ Load(i, thread[i].j)
  /\ NextThread(i)
  /\ UNCHANGED <<memory, buffer, rest>>

WaitEqual(i) ==
  LET j == thread[i].j
  IN  /\ thread[i].at = "equal"
      /\ Load(i, j)
      /\ IF SeenTicket(i, j) = SeenTicket(i, i) /\ j < i
         THEN Goto(i, "ticket") ELSE NextThread(i)
      /\ UNCHANGED <<memory, buffer, rest>>

Unlock(i) ==
  /\ thread[i].at = "unlock" /\ mode = "lamport"
  /\ Write(i, "ticket", 0)
  /\ Goto(i, "return")
  /\ ahead' = [ahead EXCEPT ![i] = {}]
  /\ UNCHANGED <<memory, rest, reordered>>
-------------------------------------------------------------------------------
(* The critical section, accumulator++ in a loop, and the pthread mutex.    *)

ReadAccumulator(i) ==
  /\ thread[i].at = "read"
  /\ thread' = [thread EXCEPT ![i].at = "write", ![i].val = SeenAccumulator(i)]
  /\ UNCHANGED <<memory, buffer, rest, reordered, ahead>>

WriteAccumulator(i) ==
  /\ thread[i].at = "write"
  /\ Write(i, "accumulator", thread[i].val + 1)
  /\ thread' = [thread EXCEPT
       ![i].at = IF thread[i].count + 1 = N_ITERACTIONS THEN "unlock" ELSE "read",
       ![i].val = 0,
       ![i].count = @ + 1]
  /\ UNCHANGED <<memory, rest, reordered, ahead>>

\* Both operations on the mutex are locked instructions, which drain the buffer.
HwLock(i) ==
  /\ thread[i].at = "start" /\ mode = "pthread"
  /\ lock = Nobody /\ buffer[i] = <<>>
  /\ lock' = i
  /\ Goto(i, "read")
  /\ UNCHANGED <<memory, buffer, mode, main, reordered, ahead>>

HwUnlock(i) ==
  /\ thread[i].at = "unlock" /\ mode = "pthread"
  /\ buffer[i] = <<>>
  /\ lock' = Nobody
  /\ Goto(i, "return")
  /\ UNCHANGED <<memory, buffer, mode, main, reordered, ahead>>

ThreadStep(i) ==
  \/ StartChoosing(i) \/ ScanTicket(i) \/ TakeTicket(i) \/ EndChoosing(i)
  \/ WaitChoosing(i) \/ WaitTicket(i) \/ WaitSmaller(i) \/ WaitEqual(i) \/ Unlock(i)
  \/ ReadAccumulator(i) \/ WriteAccumulator(i)
  \/ HwLock(i) \/ HwUnlock(i)
-------------------------------------------------------------------------------
(* The main thread: creates all threads, joins them in order, and prints.   *)

NextInOrder(next) ==
  main' = [at |-> IF main.thread + 1 = N_THREADS THEN next ELSE main.at,
           thread |-> Following(main.thread)]

Create ==
  /\ main.at = "create"
  /\ Goto(main.thread, "start")
  /\ NextInOrder("join")
  /\ UNCHANGED <<memory, buffer, mode, lock, reordered, ahead>>

\* The end of a thread, which pthread_join waits for, drains its buffer.
Join ==
  /\ main.at = "join"
  /\ thread[main.thread].at = "return" /\ buffer[main.thread] = <<>>
  /\ NextInOrder("print")
  /\ UNCHANGED <<memory, buffer, thread, mode, lock, reordered, ahead>>

MainStep == Create \/ Join

\* lamport_mutex_init, and the argument the program was called with.
Init ==
  /\ choosing = [i \in Thread |-> 0]
  /\ ticket = [i \in Thread |-> 0]
  /\ accumulator = 0
  /\ buffer = [i \in Thread |-> <<>>]
  /\ thread = [i \in Thread |-> NewThread]
  /\ mode \in {"lamport", "pthread"}
  /\ lock = Nobody
  /\ main = [at |-> "create", thread |-> 0]
  /\ reordered = FALSE
  /\ ahead = [i \in Thread |-> {}]

Next == MainStep \/ \E i \in Thread : ThreadStep(i) \/ Drain(i)

\* The scheduler runs every thread that can run, and stores reach memory.
Fairness ==
  /\ WF_vars(MainStep)
  /\ \A i \in Thread : WF_vars(ThreadStep(i)) /\ WF_vars(Drain(i))

Spec == Init /\ [][Next]_vars

FairSpec == Spec /\ Fairness
-------------------------------------------------------------------------------
(* Properties.                                                              *)

\* Every variable has its type.
TypeOK ==
  /\ choosing \in [Thread -> {0, 1}]
  /\ ticket \in [Thread -> Nat]
  /\ accumulator \in Nat
  /\ buffer \in [Thread -> Seq(Store)]
  /\ thread \in [Thread -> [at: Place, j: Thread, val: Nat, count: Nat]]
  /\ mode \in {"lamport", "pthread"}
  /\ lock \in Thread \cup {Nobody}
  /\ main \in [at: {"create", "join", "print"}, thread: Thread]
  /\ reordered \in BOOLEAN
  /\ ahead \in [Thread -> SUBSET Thread]

InCritical(i) == thread[i].at \in Critical

\* Two threads are never both between lock and unlock, although tickets are
\* read one by one while others change them: unless a load of one of them has
\* overtaken its own store.
MutualExclusion ==
  ~reordered => \A i, j \in Thread : InCritical(i) /\ InCritical(j) => i = j

\* The threads enter in the order of arrival ("respeitando a ordem de
\* chegada"): one whose ticket was visible before another began to choose has
\* left the critical section when that one is in it, unless loads were
\* reordered.
FirstComeFirstServed ==
  ~reordered =>
    \A i \in Thread : InCritical(i) => \A k \in ahead[i] : thread[k].at = "return"

\* The sum that is printed counts every increment of every thread, in both
\* modes, unless loads were reordered.
NoLostIncrement ==
  ~reordered /\ main.at = "print" => accumulator = N_THREADS * N_ITERACTIONS

\* Both locks always let everybody through, whatever is reordered: the program
\* ends.
Finishes == <>(main.at = "print")
===============================================================================
