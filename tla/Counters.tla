------------------------------- MODULE Counters -------------------------------
(***************************************************************************)
(* atomic_vs_mutex: main starts Threads threads that each increment one    *)
(* counter Iterations times, joins them and prints the counter.  The       *)
(* counter is an atomic, incremented in one indivisible step, or a plain   *)
(* long that is loaded and stored under a mutex.                           *)
(***************************************************************************)
EXTENDS Naturals, FiniteSets

CONSTANTS
  Threads,        \* as many as TEST_RUN
  Iterations,     \* the lambda's loop bound
  Free,           \* the mutex has no owner
  Unset           \* nothing printed yet, nothing loaded yet

ASSUME IterationsAssumption == Iterations \in Nat \ {0}
ASSUME FreeAssumption == Free \notin Threads

VARIABLES
  counter,        \* T of run_counters: "atomic" or "mutex"
  value, mutex,   \* the counter's members
  pc, n,          \* pc[t], n[t]: next statement and loop counter of thread t
  loaded,         \* loaded[t]: the register of value++
  printed         \* what main has printed

vars == <<counter, value, mutex, pc, n, loaded, printed>>

\* The program's argument says which counter runs.
Init ==
  /\ counter \in {"atomic", "mutex"}
  /\ value = 0
  /\ mutex = Free
  /\ pc = [t \in Threads |-> "none"]
  /\ n = [t \in Threads |-> 0]
  /\ loaded = [t \in Threads |-> Unset]
  /\ printed = Unset

Goto(t, label) == pc' = [pc EXCEPT ![t] = label]

Iterate(t) ==
  /\ n' = [n EXCEPT ![t] = @ + 1]
  /\ Goto(t, IF n[t] + 1 < Iterations THEN "loop" ELSE "done")

\* threads.push_back(std::thread(...))
Create(t) ==
  /\ pc[t] = "none"
  /\ Goto(t, "loop")
  /\ UNCHANGED <<counter, value, mutex, n, loaded, printed>>

AtomicIncrement(t) ==
  /\ counter = "atomic"
  /\ pc[t] = "loop"
  /\ value' = value + 1
  /\ Iterate(t)
  /\ UNCHANGED <<counter, mutex, loaded, printed>>

\* mutant: no lock_guard
MutexFreeIgnored == TRUE
MutexFree == mutex = Free

Lock(t) ==
  /\ counter = "mutex"
  /\ pc[t] = "loop" /\ MutexFree
  /\ mutex' = t
  /\ Goto(t, "load")
  /\ UNCHANGED <<counter, value, n, loaded, printed>>

Load(t) ==
  /\ pc[t] = "load"
  /\ loaded' = [loaded EXCEPT ![t] = value]
  /\ Goto(t, "store")
  /\ UNCHANGED <<counter, value, mutex, n, printed>>

Store(t) ==
  /\ pc[t] = "store"
  /\ value' = loaded[t] + 1
  /\ Goto(t, "unlock")
  /\ UNCHANGED <<counter, mutex, n, loaded, printed>>

\* The lock_guard's destructor.
Unlock(t) ==
  /\ pc[t] = "unlock"
  /\ mutex' = Free
  /\ Iterate(t)
  /\ UNCHANGED <<counter, value, loaded, printed>>

\* main joins the threads once it has created them all.
Join(t) ==
  /\ \A s \in Threads : pc[s] # "none"
  /\ pc[t] = "done"
  /\ Goto(t, "joined")
  /\ UNCHANGED <<counter, value, mutex, n, loaded, printed>>

PrintValue ==
  /\ printed = Unset
  /\ \A t \in Threads : pc[t] = "joined"
  /\ printed' = value
  /\ UNCHANGED <<counter, value, mutex, pc, n, loaded>>

Worker(t) == AtomicIncrement(t) \/ Lock(t) \/ Load(t) \/ Store(t) \/ Unlock(t)
Main == PrintValue \/ \E t \in Threads : Create(t) \/ Join(t)
Returned == printed # Unset /\ UNCHANGED vars

Next == Main \/ Returned \/ \E t \in Threads : Worker(t)

Spec == Init /\ [][Next]_vars

\* main and the threads run whenever they can; each takes the mutex a bounded
\* number of times.
FairSpec == Spec /\ WF_vars(Main) /\ \A t \in Threads : WF_vars(Worker(t))

-----------------------------------------------------------------------------
\* main prints and returns, and what it prints is the number of all increments:
\* none is lost, with either counter, and the joins order the plain read of
\* the value after every thread's last increment.
PrintsTotal == <>[](printed = Cardinality(Threads) * Iterations)

=============================================================================
