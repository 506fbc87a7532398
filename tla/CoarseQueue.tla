----------------------------- MODULE CoarseQueue -----------------------------
(***************************************************************************)
(* The coarse grained queue: std::queue behind one mutex, with a condition *)
(* variable for consumers that find it empty.  push notifies after it has  *)
(* unlocked.  The program pushes the constant 1; the elements are told     *)
(* apart here so that the order in which they come out can be stated.      *)
(*                                                                         *)
(* condition_variable::wait(lock, pred) is while (!pred()) wait(lock): it  *)
(* releases the mutex and joins the waiting threads in one step, leaves    *)
(* them when notified or for no reason at all, and takes the mutex again   *)
(* before it tests the predicate again.                                    *)
(***************************************************************************)
EXTENDS Workers, Sequences

CONSTANTS
  Free,           \* the mutex has no owner
  MaxSpurious     \* bound on wake-ups without notification in a behaviour

ASSUME FreeAssumption == Free \notin Threads
ASSUME SpuriousAssumption == MaxSpurious \in Nat

VARIABLES
  m_queue, m_lock,
  waiting,        \* m_data_condition: the consumers asleep in wait
  val,            \* val[c]: what pop copied from the front
  spurious        \* wake-ups without notification so far

vars == <<workerVars, m_queue, m_lock, waiting, val, spurious>>

Labels == {"push", "unlock", "notify", "test", "asleep", "relock", "front", "pop"}

TypeOK ==
  /\ WorkersTypeOK(Labels)
  /\ m_queue \in Seq(Elements)
  /\ m_lock \in Threads \cup {Free}
  /\ waiting \subseteq Consumers
  /\ val \in [Consumers -> Elements \cup {Nothing}]
  /\ spurious \in 0 .. MaxSpurious

Init ==
  /\ WorkersInit
  /\ m_queue = <<>>
  /\ m_lock = Free
  /\ waiting = {}
  /\ val = [c \in Consumers |-> Nothing]
  /\ spurious = 0

Start(t) ==
  /\ StartUp(t)
  /\ UNCHANGED <<m_queue, m_lock, waiting, val, spurious>>

-----------------------------------------------------------------------------
\* mutant: nobody waits for the mutex
LockFreeIgnored == TRUE
LockFree == m_lock = Free

Acquire(t, from, to) ==
  /\ pc[t] = from /\ LockFree
  /\ m_lock' = t
  /\ Goto(t, to)
  /\ UNCHANGED <<main, arrived, n, m_queue, waiting, val, spurious>>

PushLock(p) == Acquire(p, "loop", "push")

Push(p) ==
  /\ pc[p] = "push"
  /\ m_queue' = Append(m_queue, <<p, n[p]>>)
  /\ Goto(p, "unlock")
  /\ UNCHANGED <<main, arrived, n, m_lock, waiting, val, spurious>>

PushUnlock(p) ==
  /\ pc[p] = "unlock"
  /\ m_lock' = Free
  /\ Goto(p, "notify")
  /\ UNCHANGED <<main, arrived, n, m_queue, waiting, val, spurious>>

\* mutant: push notifies only when its element is the only one
WakeableIfFirst == IF Len(m_queue) = 1 THEN waiting ELSE {}
\* The consumers notify_one may wake.
Wakeable == waiting

\* notify_one wakes one of them, if there is one, and push returns.
NotifyOne(p) ==
  /\ pc[p] = "notify"
  /\ n' = [n EXCEPT ![p] = @ + 1]
  /\ \E woken \in IF Wakeable = {} THEN {{}} ELSE {{c} : c \in Wakeable} :
       /\ waiting' = waiting \ woken
       /\ pc' = [t \in Threads |-> IF t = p THEN After(n[p] + 1)
                                   ELSE IF t \in woken THEN "relock" ELSE pc[t]]
  /\ UNCHANGED <<main, arrived, m_queue, m_lock, val, spurious>>

-----------------------------------------------------------------------------
PopLock(c) == Acquire(c, "loop", "test")

PopTest(c) ==
  /\ pc[c] = "test"
  /\ IF m_queue = <<>>
     THEN /\ m_lock' = Free
          /\ waiting' = waiting \cup {c}
          /\ Goto(c, "asleep")
     ELSE /\ Goto(c, "front")
          /\ UNCHANGED <<m_lock, waiting>>
  /\ UNCHANGED <<main, arrived, n, m_queue, val, spurious>>

SpuriousWake(c) ==
  /\ c \in waiting
  /\ spurious < MaxSpurious
  /\ spurious' = spurious + 1
  /\ waiting' = waiting \ {c}
  /\ Goto(c, "relock")
  /\ UNCHANGED <<main, arrived, n, m_queue, m_lock, val>>

Relock(c) == Acquire(c, "relock", "test")

Front(c) ==
  /\ pc[c] = "front"
  /\ val' = [val EXCEPT ![c] = Head(m_queue)]
  /\ Goto(c, "pop")
  /\ UNCHANGED <<main, arrived, n, m_queue, m_lock, waiting, spurious>>

\* m_queue.pop(), and the destructor of lock releases the mutex on return.
Pop(c) ==
  /\ pc[c] = "pop"
  /\ m_queue' = Tail(m_queue)
  /\ m_lock' = Free
  /\ NextIteration(c)
  /\ UNCHANGED <<waiting, val, spurious>>

-----------------------------------------------------------------------------
Producer(p) == Start(p) \/ PushLock(p) \/ Push(p) \/ PushUnlock(p) \/ NotifyOne(p)

Consumer(c) == Start(c) \/ PopLock(c) \/ PopTest(c) \/ Relock(c) \/ Front(c) \/ Pop(c)

Join == JoinAll /\ UNCHANGED <<m_queue, m_lock, waiting, val, spurious>>

\* main has returned.
Returned == main = "return" /\ UNCHANGED vars

Next ==
  \/ \E p \in Producers : Producer(p)
  \/ \E c \in Consumers : Consumer(c) \/ SpuriousWake(c)
  \/ Join
  \/ Returned

Spec == Init /\ [][Next]_vars

\* The scheduler runs every thread that can go on; nothing makes a spurious
\* wake-up happen.  The mutex need not be fair: every thread takes it a
\* bounded number of times.
FairSpec ==
  /\ Spec
  /\ \A p \in Producers : WF_vars(Producer(p))
  /\ \A c \in Consumers : WF_vars(Consumer(c))
  /\ WF_vars(Join)

-----------------------------------------------------------------------------
\* Consumers that hold or are about to take the mutex to look at the queue.
Awake == {c \in Consumers : pc[c] \in {"relock", "test", "front", "pop"}}
\* Producers whose element is in the queue and whose notification is to come.
Notifying == {p \in Producers : pc[p] \in {"unlock", "notify"}}

\* No wake-up is lost although push notifies without the mutex: while a
\* consumer sleeps, every element in the queue has a notification still to
\* come or a consumer that is awake to take it.
NoLostWakeup ==
  waiting # {} => Len(m_queue) <= Cardinality(Notifying) + Cardinality(Awake)

Taking == \E c \in Consumers : pc[c] = "pop"

Queue == INSTANCE MpmcQueue WITH
  queue <- IF Taking THEN Tail(m_queue) ELSE m_queue,
  enqueued <- [p \in Producers |->
                 IF pc[p] \in {"unlock", "notify"} THEN n[p] + 1 ELSE n[p]],
  result <- val

\* The queue is a FIFO queue to all its threads: a push takes effect when it
\* appends, a pop when it copies the front, one at a time.
ImplementsQueue == Queue!Spec

\* Every thread ends and main returns: no consumer sleeps forever, because
\* readers take as many elements as writers put in.
Terminates == <>(main = "return")

=============================================================================
