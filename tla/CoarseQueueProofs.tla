-------------------------- MODULE CoarseQueueProofs --------------------------
(***************************************************************************)
(* Proofs about CoarseQueue, for any number of writers, readers and        *)
(* iterations, and any number of wake-ups without notification.            *)
(***************************************************************************)
EXTENDS CoarseQueue, FiniteSetTheorems, TLAPS

Idle == {"none", "start", "barrier", "loop", "done"}
Producing == {"push", "unlock", "notify"}
Consuming == {"test", "asleep", "relock", "front", "pop"}
Holding == {"push", "unlock", "test", "front", "pop"}

\* A thread in its loop has an iteration left, one that has not begun all.
LoopInv ==
  \A t \in Threads :
    /\ pc[t] \in {"none", "start", "barrier"} => n[t] = 0
    /\ pc[t] # "done" => n[t] < Iterations

\* Writers push, readers pop.
RolesInv ==
  /\ \A p \in Producers : pc[p] \in Idle \cup Producing
  /\ \A c \in Consumers : pc[c] \in Idle \cup Consuming

\* The mutex is held by the thread that is where it has to be held.
MutexInv == \A t \in Threads : pc[t] \in Holding <=> m_lock = t

\* The readers asleep are those the condition variable knows.
SleepInv == \A c \in Consumers : c \in waiting <=> pc[c] = "asleep"

\* A reader past the test has found an element, and keeps it: nobody else can
\* take it without the mutex.
FrontInv ==
  \A c \in Consumers :
    /\ pc[c] \in {"front", "pop"} => m_queue # <<>>
    /\ pc[c] = "pop" => val[c] = Head(m_queue)

Inv ==
  /\ TypeOK /\ LoopInv /\ RolesInv /\ MutexInv /\ SleepInv /\ FrontInv
  /\ NoLostWakeup

-----------------------------------------------------------------------------
USE ThreadsAssumption, IterationsAssumption, FreeAssumption, SpuriousAssumption
USE DEF Threads, Idle, Producing, Consuming, Holding

\* The numbers of notifications to come and of readers awake are finite.
LEMMA Counts ==
  /\ IsFiniteSet(Notifying) /\ IsFiniteSet(Awake)
  /\ Cardinality(Notifying) \in Nat /\ Cardinality(Awake) \in Nat
  BY FS_Subset, FS_CardinalityType DEF Notifying, Awake

\* A set does not shrink when an element is added.
LEMMA Grows ==
  ASSUME NEW S, NEW x, IsFiniteSet(S)
  PROVE  /\ Cardinality(S \cup {x}) \in Nat
         /\ Cardinality(S \cup {x}) >= Cardinality(S)
  <1>1. Cardinality(S) \in Nat
    BY FS_CardinalityType
  <1>2. CASE x \in S
    <2>1. S \cup {x} = S
      BY <1>2
    <2> QED BY <1>1, <2>1
  <1>3. CASE x \notin S
    <2>1. Cardinality(S \cup {x}) = Cardinality(S) + 1
      BY <1>3, FS_AddElement
    <2> QED BY <1>1, <2>1
  <1> QED BY <1>2, <1>3

\* No thread runs, and there is nothing to wait for.
LEMMA InitInv == Init => Inv
  <1> SUFFICES ASSUME Init
               PROVE  Inv
    OBVIOUS
  <1>1. 0 \in 0 .. Iterations /\ <<>> \in Seq(Elements)
    OBVIOUS
  <1>2. TypeOK
    BY <1>1 DEF Init, WorkersInit, TypeOK, WorkersTypeOK
  <1>3. LoopInv /\ RolesInv /\ MutexInv /\ SleepInv /\ FrontInv
    BY DEF Init, WorkersInit, LoopInv, RolesInv, MutexInv, SleepInv, FrontInv
  <1>4. NoLostWakeup
    BY DEF Init, NoLostWakeup
  <1> QED BY <1>2, <1>3, <1>4 DEF Inv

-----------------------------------------------------------------------------
\* The next label after an iteration, and the count of iterations.
LEMMA AfterTypes ==
  ASSUME TypeOK, LoopInv, NEW t \in Threads, pc[t] # "done"
  PROVE  /\ n[t] \in Nat /\ n[t] + 1 \in 0 .. Iterations
         /\ After(n[t] + 1) \in {"loop", "done"}
         /\ After(n[t] + 1) = "loop" => n[t] + 1 < Iterations
  BY DEF TypeOK, WorkersTypeOK, LoopInv, After

\* Getting a thread to its loop touches neither the queue nor a sleeper.
LEMMA StartInv ==
  ASSUME Inv, NEW t \in Threads, Start(t)
  PROVE  Inv'
  <1> USE DEF Inv, Start, StartUp, Create, Arrive, PassBarrier, Goto
  <1>1. /\ pc[t] \in {"none", "start", "barrier"}
        /\ pc' = [pc EXCEPT ![t] = pc'[t]] /\ pc'[t] \in {"start", "barrier", "loop"}
        /\ UNCHANGED <<n, m_queue, m_lock, waiting, val, spurious>>
    BY DEF TypeOK, WorkersTypeOK
  <1>2. main' \in {"create", "join", "return"} /\ arrived' \subseteq Threads
    BY DEF TypeOK, WorkersTypeOK
  <1> HIDE DEF Start
  <1>3. TypeOK'
    BY <1>1, <1>2 DEF TypeOK, WorkersTypeOK
  <1>4. LoopInv' /\ RolesInv' /\ MutexInv' /\ SleepInv' /\ FrontInv'
    BY <1>1 DEF TypeOK, WorkersTypeOK, LoopInv, RolesInv, MutexInv, SleepInv, FrontInv
  <1>5. Notifying' = Notifying /\ Awake' = Awake
    BY <1>1 DEF TypeOK, WorkersTypeOK, Notifying, Awake
  <1> QED BY <1>1, <1>3, <1>4, <1>5 DEF NoLostWakeup

\* A step of a writer in its loop.
LEMMA ProducerInv ==
  ASSUME Inv, NEW p \in Producers,
         PushLock(p) \/ Push(p) \/ PushUnlock(p) \/ NotifyOne(p)
  PROVE  Inv'
  <1> USE DEF Inv, Goto
  <1>0. /\ n[p] \in 0 .. Iterations /\ pc \in [Threads -> Idle \cup Producing \cup Consuming]
        /\ n \in [Threads -> 0 .. Iterations] /\ p \notin Consumers
        /\ m_queue \in Seq(Elements) /\ m_lock \in Threads \cup {Free}
    BY DEF TypeOK, WorkersTypeOK, Labels
  <1>1. CASE PushLock(p)
    <2> USE <1>1 DEF PushLock, Acquire, LockFree
    <2>1. TypeOK'
      BY <1>0 DEF TypeOK, WorkersTypeOK, Labels
    <2>2. LoopInv' /\ RolesInv' /\ MutexInv' /\ SleepInv' /\ FrontInv'
      BY <1>0 DEF LoopInv, RolesInv, MutexInv, SleepInv, FrontInv
    <2>3. Notifying' = Notifying /\ Awake' = Awake
      BY <1>0 DEF Notifying, Awake
    <2> QED BY <2>1, <2>2, <2>3 DEF NoLostWakeup
  <1>2. CASE Push(p)
    <2> USE <1>2 DEF Push
    <2>1. n[p] < Iterations /\ <<p, n[p]>> \in Elements
      BY <1>0 DEF LoopInv, Elements
    <2>2. /\ m_queue' \in Seq(Elements) /\ Len(m_queue') = Len(m_queue) + 1
          /\ m_queue' # <<>> /\ Len(m_queue) \in Nat
      BY <1>0, <2>1
    <2>3. TypeOK'
      BY <1>0, <2>2 DEF TypeOK, WorkersTypeOK, Labels
    <2>4. \A c \in Consumers : pc[c] \notin {"front", "pop"}
      BY <1>0 DEF MutexInv
    <2>5. LoopInv' /\ RolesInv' /\ MutexInv' /\ SleepInv' /\ FrontInv'
      BY <1>0, <2>4 DEF LoopInv, RolesInv, MutexInv, SleepInv, FrontInv
    <2>6. Notifying' = Notifying \cup {p} /\ p \notin Notifying /\ Awake' = Awake
      BY <1>0 DEF Notifying, Awake
    <2>7. Cardinality(Notifying') = Cardinality(Notifying) + 1
      BY <2>6, Counts, FS_AddElement
    <2> QED BY <2>2, <2>3, <2>5, <2>6, <2>7, Counts DEF NoLostWakeup
  <1>3. CASE PushUnlock(p)
    <2> USE <1>3 DEF PushUnlock
    <2>1. TypeOK'
      BY <1>0 DEF TypeOK, WorkersTypeOK, Labels
    <2>2. LoopInv' /\ RolesInv' /\ MutexInv' /\ SleepInv' /\ FrontInv'
      BY <1>0 DEF LoopInv, RolesInv, MutexInv, SleepInv, FrontInv
    <2>3. Notifying' = Notifying /\ Awake' = Awake
      BY <1>0 DEF Notifying, Awake
    <2> QED BY <2>1, <2>2, <2>3 DEF NoLostWakeup
  <1>4. CASE NotifyOne(p)
    <2>1. PICK woken \in IF Wakeable = {} THEN {{}} ELSE {{c} : c \in Wakeable} :
            /\ waiting' = waiting \ woken
            /\ pc' = [t \in Threads |-> IF t = p THEN After(n[p] + 1)
                                        ELSE IF t \in woken THEN "relock" ELSE pc[t]]
      BY <1>4 DEF NotifyOne
    <2>2. /\ pc[p] = "notify" /\ n' = [n EXCEPT ![p] = @ + 1]
          /\ UNCHANGED <<main, arrived, m_queue, m_lock, val, spurious>>
      BY <1>4 DEF NotifyOne
    <2>3. /\ waiting \subseteq Consumers /\ woken \subseteq waiting
          /\ \A c \in woken : pc[c] = "asleep"
      BY <2>1 DEF Wakeable, TypeOK, SleepInv
    <2>4. /\ n[p] + 1 \in 0 .. Iterations /\ After(n[p] + 1) \in {"loop", "done"}
          /\ After(n[p] + 1) = "loop" => n[p] + 1 < Iterations
      BY <2>2, AfterTypes
    <2>5. TypeOK'
      BY <1>0, <2>1, <2>2, <2>3, <2>4 DEF TypeOK, WorkersTypeOK, Labels
    <2>6. LoopInv' /\ RolesInv' /\ MutexInv'
      BY <1>0, <2>1, <2>2, <2>3, <2>4 DEF LoopInv, RolesInv, MutexInv
    <2>7. SleepInv' /\ FrontInv'
      BY <1>0, <2>1, <2>2, <2>3, <2>4 DEF SleepInv, FrontInv
    <2>8. Notifying' = Notifying \ {p} /\ p \in Notifying
      BY <1>0, <2>1, <2>2, <2>3, <2>4 DEF Notifying
    <2>9. Cardinality(Notifying') = Cardinality(Notifying) - 1
      BY <2>8, Counts, FS_RemoveElement
    <2>10. NoLostWakeup'
      <3>1. CASE waiting = {}
        BY <2>1, <3>1 DEF NoLostWakeup
      <3>2. CASE waiting # {}
        <4>1. PICK c \in waiting : woken = {c}
          BY <2>1, <3>2 DEF Wakeable
        <4>2. Awake' = Awake \cup {c} /\ c \notin Awake
          BY <1>0, <2>1, <2>3, <2>4, <4>1 DEF Awake
        <4>3. Cardinality(Awake') = Cardinality(Awake) + 1
          BY <4>2, Counts, FS_AddElement
        <4> QED BY <1>0, <2>2, <2>9, <3>2, <4>3, Counts DEF NoLostWakeup
      <3> QED BY <3>1, <3>2
    <2> QED BY <2>5, <2>6, <2>7, <2>10
  <1> QED BY <1>1, <1>2, <1>3, <1>4

\* A step of a reader in its loop.
LEMMA ConsumerInv ==
  ASSUME Inv, NEW c \in Consumers,
         \/ PopLock(c) \/ PopTest(c) \/ SpuriousWake(c) \/ Relock(c) \/ Front(c)
         \/ Pop(c)
  PROVE  Inv'
  <1> USE DEF Inv, Goto
  <1>0. /\ n[c] \in 0 .. Iterations /\ pc \in [Threads -> Idle \cup Producing \cup Consuming]
        /\ n \in [Threads -> 0 .. Iterations] /\ c \notin Producers
        /\ m_queue \in Seq(Elements) /\ m_lock \in Threads \cup {Free}
        /\ Len(m_queue) \in Nat /\ val \in [Consumers -> Elements \cup {Nothing}]
    BY DEF TypeOK, WorkersTypeOK, Labels
  <1>1. CASE PopLock(c) \/ Relock(c)
    <2>1. /\ pc[c] \in {"loop", "relock"} /\ pc' = [pc EXCEPT ![c] = "test"]
          /\ m_lock = Free /\ m_lock' = c
          /\ UNCHANGED <<main, arrived, n, m_queue, waiting, val, spurious>>
      BY <1>1 DEF PopLock, Relock, Acquire, LockFree
    <2> USE <2>1
    <2> HIDE <1>1
    <2>2. TypeOK'
      BY <1>0 DEF TypeOK, WorkersTypeOK, Labels
    <2>5. LoopInv' /\ RolesInv' /\ MutexInv'
      BY <1>0 DEF LoopInv, RolesInv, MutexInv
    <2>6. SleepInv' /\ FrontInv'
      BY <1>0 DEF SleepInv, FrontInv
    <2>3. Notifying' = Notifying /\ Awake' = Awake \cup {c}
      BY <1>0 DEF Notifying, Awake
    <2>4. Cardinality(Awake') >= Cardinality(Awake) /\ Cardinality(Awake') \in Nat
      BY <2>3, Counts, Grows
    <2> QED BY <2>2, <2>3, <2>4, <2>5, <2>6, <1>0, Counts DEF NoLostWakeup
  <1>2. CASE PopTest(c) /\ m_queue = <<>>
    <2> USE <1>2 DEF PopTest
    <2>1. TypeOK'
      BY <1>0 DEF TypeOK, WorkersTypeOK, Labels
    <2>2. LoopInv' /\ RolesInv' /\ MutexInv' /\ SleepInv' /\ FrontInv'
      BY <1>0 DEF LoopInv, RolesInv, MutexInv, SleepInv, FrontInv
    <2>3. Len(m_queue') = 0 /\ Cardinality(Notifying)' \in Nat /\ Cardinality(Awake)' \in Nat
      <3>1. IsFiniteSet(Notifying') /\ IsFiniteSet(Awake')
        BY FS_Subset DEF Notifying, Awake
      <3> QED BY <3>1, FS_CardinalityType
    <2> QED BY <2>1, <2>2, <2>3 DEF NoLostWakeup
  <1>3. CASE PopTest(c) /\ m_queue # <<>>
    <2> USE <1>3 DEF PopTest
    <2>1. TypeOK'
      BY <1>0 DEF TypeOK, WorkersTypeOK, Labels
    <2>2. LoopInv' /\ RolesInv' /\ MutexInv' /\ SleepInv' /\ FrontInv'
      BY <1>0 DEF LoopInv, RolesInv, MutexInv, SleepInv, FrontInv
    <2>3. Notifying' = Notifying /\ Awake' = Awake
      BY <1>0 DEF Notifying, Awake
    <2> QED BY <2>1, <2>2, <2>3 DEF NoLostWakeup
  <1>4. CASE SpuriousWake(c)
    <2> USE <1>4 DEF SpuriousWake
    <2>1. pc[c] = "asleep" /\ spurious + 1 \in 0 .. MaxSpurious
      BY DEF SleepInv, TypeOK
    <2>2. TypeOK'
      BY <1>0, <2>1 DEF TypeOK, WorkersTypeOK, Labels
    <2>3. LoopInv' /\ RolesInv' /\ MutexInv' /\ SleepInv' /\ FrontInv'
      BY <1>0, <2>1 DEF LoopInv, RolesInv, MutexInv, SleepInv, FrontInv, TypeOK
    <2>4. Notifying' = Notifying /\ Awake' = Awake \cup {c}
      BY <1>0, <2>1 DEF Notifying, Awake
    <2>5. Cardinality(Awake') >= Cardinality(Awake) /\ Cardinality(Awake') \in Nat
      BY <2>4, Counts, Grows
    <2> QED BY <2>2, <2>3, <2>4, <2>5, <1>0, Counts DEF NoLostWakeup
  <1>5. CASE Front(c)
    <2> USE <1>5 DEF Front
    <2>1. m_queue # <<>> /\ Head(m_queue) \in Elements
      BY <1>0 DEF FrontInv
    <2>2. TypeOK'
      BY <1>0, <2>1 DEF TypeOK, WorkersTypeOK, Labels
    <2>3. LoopInv' /\ RolesInv' /\ MutexInv' /\ SleepInv' /\ FrontInv'
      BY <1>0, <2>1 DEF LoopInv, RolesInv, MutexInv, SleepInv, FrontInv
    <2>4. Notifying' = Notifying /\ Awake' = Awake
      BY <1>0 DEF Notifying, Awake
    <2> QED BY <2>2, <2>3, <2>4 DEF NoLostWakeup
  <1>6. CASE Pop(c)
    <2> USE <1>6 DEF Pop, NextIteration
    <2>1. /\ m_queue # <<>> /\ m_queue' \in Seq(Elements)
          /\ Len(m_queue') = Len(m_queue) - 1
      BY <1>0 DEF FrontInv
    <2>2. /\ n[c] + 1 \in 0 .. Iterations /\ After(n[c] + 1) \in {"loop", "done"}
          /\ After(n[c] + 1) = "loop" => n[c] + 1 < Iterations
      BY AfterTypes
    <2>3. TypeOK'
      BY <1>0, <2>1, <2>2 DEF TypeOK, WorkersTypeOK, Labels
    <2>4. \A d \in Consumers : d # c => pc[d] \notin {"front", "pop"}
      BY <1>0 DEF MutexInv
    <2>5. LoopInv' /\ RolesInv' /\ MutexInv'
      BY <1>0, <2>2 DEF LoopInv, RolesInv, MutexInv
    <2>6. SleepInv' /\ FrontInv'
      BY <1>0, <2>2, <2>4 DEF SleepInv, FrontInv
    <2>7. Notifying' = Notifying /\ Awake' = Awake \ {c} /\ c \in Awake
      BY <1>0, <2>2 DEF Notifying, Awake
    <2>8. Cardinality(Awake') = Cardinality(Awake) - 1
      BY <2>7, Counts, FS_RemoveElement
    <2> QED BY <1>0, <2>1, <2>3, <2>5, <2>6, <2>7, <2>8, Counts DEF NoLostWakeup
  <1> QED BY <1>1, <1>2, <1>3, <1>4, <1>5, <1>6

\* Every step keeps the invariant.
LEMMA NextInv == Inv /\ [Next]_vars => Inv'
  <1> SUFFICES ASSUME Inv, [Next]_vars
               PROVE  Inv'
    OBVIOUS
  <1>1. ASSUME NEW p \in Producers, Producer(p)
        PROVE  Inv'
    BY <1>1, StartInv, ProducerInv DEF Producer
  <1>2. ASSUME NEW c \in Consumers, Consumer(c) \/ SpuriousWake(c)
        PROVE  Inv'
    BY <1>2, StartInv, ConsumerInv DEF Consumer
  <1>3. CASE Join
    <2> USE <1>3 DEF Join, JoinAll
    <2>1. TypeOK'
      BY DEF Inv, TypeOK, WorkersTypeOK
    <2> QED BY <2>1 DEF Inv, LoopInv, RolesInv, MutexInv, SleepInv, FrontInv, NoLostWakeup,
                        Notifying, Awake
  <1>4. CASE UNCHANGED vars
    BY <1>4 DEF vars, workerVars, Inv, TypeOK, WorkersTypeOK, LoopInv, RolesInv, MutexInv,
                SleepInv, FrontInv, NoLostWakeup, Notifying, Awake
  <1> QED BY <1>1, <1>2, <1>3, <1>4 DEF Next, Returned

\* Every reachable state satisfies the invariant.
THEOREM Invariance == Spec => []Inv
  BY InitInv, NextInv, PTL DEF Spec

\* Every variable keeps its range: no thread runs its loop once too often, and
\* front is never copied from an empty queue.
THEOREM TypeCorrect == Spec => []TypeOK
  BY Invariance, PTL DEF Inv

\* While a reader sleeps, every element in the queue has a notification still
\* to come or a reader awake to take it, however many threads there are and
\* although push notifies without the mutex.
THEOREM WakeupsKept == Spec => []NoLostWakeup
  BY Invariance, PTL DEF Inv

-----------------------------------------------------------------------------
\* The queue as its threads see it.
Seen == IF Taking THEN Tail(m_queue) ELSE m_queue
Counted == [p \in Producers |-> IF pc[p] \in {"unlock", "notify"} THEN n[p] + 1 ELSE n[p]]

\* At the start the queue is empty, and nothing has been put in or taken out.
LEMMA InitRefines == Init => Queue!Init
  <1> SUFFICES ASSUME Init
               PROVE  Queue!Init
    OBVIOUS
  <1>1. ~Taking /\ Seen = <<>> /\ Counted = [p \in Producers |-> 0]
    BY DEF Init, WorkersInit, Taking, Seen, Counted
  <1> QED BY <1>1 DEF Init, Queue!Init, Seen, Counted

\* Every step is one operation of the queue or none.
LEMMA NextRefines == Inv /\ [Next]_vars => [Queue!Next]_(Queue!vars)
  <1> SUFFICES ASSUME Inv, [Next]_vars
               PROVE  [Queue!Next]_(Queue!vars)
    OBVIOUS
  <1> USE DEF Goto
  <1>0. /\ pc \in [Threads -> Idle \cup Producing \cup Consuming]
        /\ n \in [Threads -> 0 .. Iterations] /\ m_queue \in Seq(Elements)
        /\ val \in [Consumers -> Elements \cup {Nothing}]
    BY DEF Inv, TypeOK, WorkersTypeOK, Labels
  <1>1. ASSUME Seen' = Seen, Counted' = Counted, val' = val
        PROVE  [Queue!Next]_(Queue!vars)
    BY <1>1 DEF Queue!vars, Seen, Counted
  <1>2. ASSUME NEW t \in Threads,
               pc' = [pc EXCEPT ![t] = pc'[t]],
               pc[t] \notin {"notify", "pop"}, pc'[t] \notin {"unlock", "notify", "pop"},
               UNCHANGED <<n, m_queue, val>>, pc[t] # "unlock"
        PROVE  [Queue!Next]_(Queue!vars)
    <2>1. (Taking <=> Taking') /\ Counted' = Counted
      BY <1>0, <1>2 DEF Taking, Counted
    <2> QED BY <1>1, <1>2, <2>1 DEF Seen
  <1>3. ASSUME NEW t \in Threads, Start(t)
        PROVE  [Queue!Next]_(Queue!vars)
    <2>1. /\ pc[t] \in {"none", "start", "barrier"}
          /\ pc' = [pc EXCEPT ![t] = pc'[t]] /\ pc'[t] \in {"start", "barrier", "loop"}
          /\ UNCHANGED <<n, m_queue, val>>
      BY <1>0, <1>3 DEF Start, StartUp, Create, Arrive, PassBarrier
    <2> QED BY <1>2, <2>1
  <1>4. ASSUME NEW t \in Threads, NEW from, NEW to,
               Acquire(t, from, to), from \in {"loop", "relock"}, to \in {"push", "test"}
        PROVE  [Queue!Next]_(Queue!vars)
    BY <1>0, <1>2, <1>4 DEF Acquire
  <1>5. ASSUME NEW p \in Producers, Push(p)
        PROVE  [Queue!Next]_(Queue!vars)
    <2> USE <1>5 DEF Push
    <2>1. n[p] < Iterations /\ n[p] \in Nat /\ m_lock = p
      BY <1>0 DEF Inv, LoopInv, MutexInv
    <2>2. ~Taking /\ ~Taking'
      BY <1>0, <2>1 DEF Inv, MutexInv, Taking
    <2>3. Seen' = Append(Seen, <<p, n[p]>>)
      BY <2>2 DEF Seen
    <2>4. Counted[p] = n[p] /\ Counted' = [Counted EXCEPT ![p] = @ + 1]
      BY <1>0, <2>1 DEF Counted
    <2>5. Queue!Enqueue(p)
      BY <2>1, <2>3, <2>4 DEF Queue!Enqueue, Seen, Counted
    <2> QED BY <2>5 DEF Queue!Next
  <1>6. ASSUME NEW p \in Producers, PushUnlock(p) \/ NotifyOne(p)
        PROVE  [Queue!Next]_(Queue!vars)
    <2>1. UNCHANGED <<m_queue, val>>
      BY <1>6 DEF PushUnlock, NotifyOne
    <2>2. Counted' = Counted /\ (Taking <=> Taking')
      <3>1. CASE PushUnlock(p)
        BY <1>0, <3>1 DEF PushUnlock, Counted, Taking
      <3>2. CASE NotifyOne(p)
        <4>1. PICK woken \in IF Wakeable = {} THEN {{}} ELSE {{c} : c \in Wakeable} :
                pc' = [t \in Threads |-> IF t = p THEN After(n[p] + 1)
                                         ELSE IF t \in woken THEN "relock" ELSE pc[t]]
          BY <3>2 DEF NotifyOne
        <4>2. woken \subseteq Consumers /\ \A c \in woken : pc[c] = "asleep"
          BY <4>1 DEF Wakeable, Inv, TypeOK, SleepInv
        <4>3. /\ pc[p] = "notify" /\ n' = [n EXCEPT ![p] = @ + 1]
              /\ After(n[p] + 1) \in {"loop", "done"}
          BY <3>2 DEF NotifyOne, After
        <4> QED BY <1>0, <4>1, <4>2, <4>3 DEF Counted, Taking
      <3> QED BY <1>6, <3>1, <3>2
    <2> QED BY <1>1, <2>1, <2>2 DEF Seen
  <1>7. ASSUME NEW c \in Consumers, PopTest(c) \/ SpuriousWake(c)
        PROVE  [Queue!Next]_(Queue!vars)
    <2>1. /\ pc[c] \in {"test", "asleep"}
          /\ pc' = [pc EXCEPT ![c] = pc'[c]] /\ pc'[c] \in {"asleep", "front", "relock"}
          /\ UNCHANGED <<n, m_queue, val>>
      BY <1>0, <1>7 DEF PopTest, SpuriousWake, Inv, SleepInv
    <2> QED BY <1>2, <2>1
  <1>8. ASSUME NEW c \in Consumers, Front(c)
        PROVE  [Queue!Next]_(Queue!vars)
    <2> USE <1>8 DEF Front
    <2>1. m_lock = c /\ m_queue # <<>>
      BY DEF Inv, MutexInv, FrontInv
    <2>2. ~Taking /\ Taking'
      BY <1>0, <2>1 DEF Inv, MutexInv, Taking
    <2>3. Seen = m_queue /\ Seen' = Tail(Seen)
      BY <2>2 DEF Seen
    <2>4. Counted' = Counted
      BY <1>0 DEF Counted
    <2>5. Queue!Dequeue(c)
      BY <2>1, <2>3, <2>4 DEF Queue!Dequeue, Seen, Counted
    <2> QED BY <2>5 DEF Queue!Next
  <1>9. ASSUME NEW c \in Consumers, Pop(c)
        PROVE  [Queue!Next]_(Queue!vars)
    <2> USE <1>9 DEF Pop, NextIteration
    <2>1. m_lock = c
      BY DEF Inv, MutexInv
    <2>2. Taking /\ ~Taking'
      BY <1>0, <2>1 DEF Inv, MutexInv, Taking, After
    <2>3. Seen' = Seen
      BY <2>2 DEF Seen
    <2>4. Counted' = Counted
      BY <1>0 DEF Counted
    <2> QED BY <1>1, <2>3, <2>4
  <1>10. CASE Join \/ UNCHANGED vars
    <2>1. UNCHANGED <<pc, n, m_queue, val>>
      BY <1>10 DEF Join, JoinAll, vars, workerVars
    <2> QED BY <1>1, <2>1 DEF Seen, Taking, Counted
  <1> QED
    BY <1>3, <1>4, <1>5, <1>6, <1>7, <1>8, <1>9, <1>10
       DEF Next, Producer, Consumer, PushLock, PopLock, Relock, Returned

\* push and pop are the operations of a FIFO queue, for any number of threads.
THEOREM Refinement == Spec => ImplementsQueue
  BY InitRefines, Invariance, NextRefines, PTL DEF Spec, ImplementsQueue, Queue!Spec

=============================================================================
