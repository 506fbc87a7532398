------------------------------- MODULE Workers -------------------------------
(***************************************************************************)
(* The benchmark around both multi-producer multi-consumer queues: main    *)
(* creates the writer and then the reader threads, every thread waits at   *)
(* one barrier until all have arrived, runs its loop of Iterations         *)
(* operations on the queue and ends; main joins them all and destroys the  *)
(* barrier.  The queue modules extend this one with the operations.        *)
(***************************************************************************)
EXTENDS Naturals, FiniteSets

CONSTANTS
  Producers, Consumers,   \* the writer and the reader threads
  Iterations,             \* ITERATION_TIMES
  Nothing                 \* what a reader has before its first element

\* Both programs size read_threads by NUM_WRITE_THREADS.
ASSUME ThreadsAssumption ==
  /\ IsFiniteSet(Producers) /\ IsFiniteSet(Consumers)
  /\ Producers # {}
  /\ Producers \cap Consumers = {}
  /\ Cardinality(Consumers) <= Cardinality(Producers)
ASSUME IterationsAssumption == Iterations \in Nat \ {0}

Threads == Producers \cup Consumers
Elements == Producers \X (0 .. Iterations - 1)

VARIABLES
  main,       \* "create", "join" or "return"
  arrived,    \* threads the barrier has counted
  pc,         \* pc[t]: the next statement of thread t
  n           \* n[t]: loop counter of thread t

workerVars == <<main, arrived, pc, n>>

WorkersTypeOK(labels) ==
  /\ main \in {"create", "join", "return"}
  /\ arrived \subseteq Threads
  /\ pc \in [Threads -> {"none", "start", "barrier", "loop", "done"} \cup labels]
  /\ n \in [Threads -> 0 .. Iterations]

WorkersInit ==
  /\ main = "create"
  /\ arrived = {}
  /\ pc = [t \in Threads |-> "none"]
  /\ n = [t \in Threads |-> 0]

Goto(t, label) == pc' = [pc EXCEPT ![t] = label]

\* pthread_create, the writers first.
Create(t) ==
  /\ main = "create" /\ pc[t] = "none"
  /\ t \in Consumers => \A p \in Producers : pc[p] # "none"
  /\ Goto(t, "start")
  /\ main' = IF \A s \in Threads \ {t} : pc[s] # "none" THEN "join" ELSE "create"
  /\ UNCHANGED <<arrived, n>>

\* pthread_barrier_wait: the last thread to arrive lets everyone through.
Arrive(t) ==
  /\ pc[t] = "start"
  /\ arrived' = arrived \cup {t}
  /\ Goto(t, "barrier")
  /\ UNCHANGED <<main, n>>

PassBarrier(t) ==
  /\ pc[t] = "barrier"
  /\ arrived = Threads
  /\ Goto(t, "loop")
  /\ UNCHANGED <<main, arrived, n>>

\* mutant: the loop runs once too often
AfterOneMore(k) == IF k <= Iterations THEN "loop" ELSE "done"
\* Where a thread goes with k iterations behind it.
After(k) == IF k < Iterations THEN "loop" ELSE "done"

\* An iteration is over.
NextIteration(t) ==
  /\ n' = [n EXCEPT ![t] = @ + 1]
  /\ Goto(t, After(n[t] + 1))
  /\ UNCHANGED <<main, arrived>>

\* Every pthread_join has returned, then pthread_barrier_destroy.
JoinAll ==
  /\ main = "join"
  /\ \A t \in Threads : pc[t] = "done"
  /\ main' = "return"
  /\ UNCHANGED <<arrived, pc, n>>

StartUp(t) == Create(t) \/ Arrive(t) \/ PassBarrier(t)

=============================================================================
