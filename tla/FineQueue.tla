------------------------------ MODULE FineQueue ------------------------------
(***************************************************************************)
(* The fine grained queue: a linked list with a dummy node in front, one   *)
(* mutex for its head and one for its tail.  enqueue and dequeue share no  *)
(* lock; when the list is empty they meet at the next pointer of the dummy *)
(* node, a data race.  The Makefile compiles without optimisation; on      *)
(* x86-64 an aligned pointer is then loaded and stored in one access, and  *)
(* stores reach memory in program order, so the race has the outcomes of   *)
(* the interleavings below.                                                *)
(*                                                                         *)
(* The memory of a deleted node may be handed out again by the next new.   *)
(***************************************************************************)
EXTENDS Workers, Sequences

CONSTANTS
  Nodes,          \* memory for nodes
  Free,           \* a mutex has no owner
  Null            \* nullptr

\* new node never fails: one node for every element and one dummy.
ASSUME NodesAssumption ==
  /\ IsFiniteSet(Nodes)
  /\ Cardinality(Nodes) > Cardinality(Producers) * Iterations
  /\ Null \notin Nodes
ASSUME FreeAssumption == Free \notin Threads

VARIABLES
  allocated,                \* nodes new has returned and delete has not seen
  data, next,               \* fields of the nodes
  head, tail,
  head_mutex, tail_mutex,   \* their owners
  new_node,                 \* new_node[p]: local of enqueue
  current_head, new_head,   \* [c]: locals of dequeue
  result                    \* result[c]: what the last dequeue gave c

heapVars == <<allocated, data, next>>
listVars == <<head, tail>>
locks == <<head_mutex, tail_mutex>>
popLocals == <<current_head, new_head, result>>
vars == <<workerVars, heapVars, listVars, locks, new_node, popLocals>>

Labels == {"lock_tail", "link", "move_tail", "unlock_tail",
           "load_head", "load_next", "copy", "swap_head", "unlock_head",
           "unlock_empty", "delete"}

TypeOK ==
  /\ WorkersTypeOK(Labels)
  /\ allocated \subseteq Nodes
  /\ data \in [Nodes -> Elements \cup {Nothing}]
  /\ next \in [Nodes -> Nodes \cup {Null}]
  /\ head \in Nodes /\ tail \in Nodes
  /\ head_mutex \in Consumers \cup {Free}
  /\ tail_mutex \in Producers \cup {Free}
  /\ new_node \in [Producers -> Nodes \cup {Null}]
  /\ current_head \in [Consumers -> Nodes \cup {Null}]
  /\ new_head \in [Consumers -> Nodes \cup {Null}]
  /\ result \in [Consumers -> Elements \cup {Nothing}]

\* The constructor: head and tail are the dummy node.
Init ==
  /\ WorkersInit
  /\ head = CHOOSE x \in Nodes : TRUE
  /\ tail = head
  /\ allocated = {head}
  /\ data = [x \in Nodes |-> Nothing]
  /\ next = [x \in Nodes |-> Null]
  /\ head_mutex = Free /\ tail_mutex = Free
  /\ new_node = [p \in Producers |-> Null]
  /\ current_head = [c \in Consumers |-> Null]
  /\ new_head = [c \in Consumers |-> Null]
  /\ result = [c \in Consumers |-> Nothing]

Start(t) ==
  /\ StartUp(t)
  /\ UNCHANGED <<heapVars, listVars, locks, new_node, popLocals>>

\* Thread t goes from one label to another and stays in its loop.
Step(t, from, to) ==
  /\ pc[t] = from
  /\ Goto(t, to)
  /\ UNCHANGED <<main, arrived, n>>

-----------------------------------------------------------------------------
\* new node and new_node->data = data, before the lock is taken.  The node is
\* any memory not in use.
Allocate(p) ==
  /\ Step(p, "loop", "lock_tail")
  /\ \E x \in Nodes \ allocated :
       /\ allocated' = allocated \cup {x}
       /\ data' = [data EXCEPT ![x] = <<p, n[p]>>]
       /\ next' = [next EXCEPT ![x] = Null]
       /\ new_node' = [new_node EXCEPT ![p] = x]
  /\ UNCHANGED <<listVars, locks, popLocals>>

\* mutant: enqueue without the tail mutex
TailFreeIgnored == TRUE
TailFree == tail_mutex = Free

LockTail(p) ==
  /\ Step(p, "lock_tail", "link")
  /\ TailFree /\ tail_mutex' = p
  /\ UNCHANGED <<heapVars, listVars, head_mutex, new_node, popLocals>>

Link(p) ==
  /\ Step(p, "link", "move_tail")
  /\ next' = [next EXCEPT ![tail] = new_node[p]]
  /\ UNCHANGED <<allocated, data, listVars, locks, new_node, popLocals>>

MoveTail(p) ==
  /\ Step(p, "move_tail", "unlock_tail")
  /\ tail' = new_node[p]
  /\ UNCHANGED <<heapVars, head, locks, new_node, popLocals>>

\* The lock_guard releases the mutex; the for loop goes on or ends.
UnlockTail(p) ==
  /\ pc[p] = "unlock_tail"
  /\ tail_mutex' = Free
  /\ NextIteration(p)
  /\ UNCHANGED <<heapVars, listVars, head_mutex, new_node, popLocals>>

-----------------------------------------------------------------------------
LockHead(c) ==
  /\ Step(c, "loop", "load_head")
  /\ head_mutex = Free /\ head_mutex' = c
  /\ UNCHANGED <<heapVars, listVars, tail_mutex, new_node, popLocals>>

LoadHead(c) ==
  /\ Step(c, "load_head", "load_next")
  /\ current_head' = [current_head EXCEPT ![c] = head]
  /\ UNCHANGED <<heapVars, listVars, locks, new_node, new_head, result>>

\* Load current_head->next and test it for nullptr.
LoadNext(c) ==
  LET successor == next[current_head[c]] IN
  /\ Step(c, "load_next", IF successor = Null THEN "unlock_empty" ELSE "copy")
  /\ new_head' = [new_head EXCEPT ![c] = successor]
  /\ result' = IF successor = Null THEN [result EXCEPT ![c] = Nothing] ELSE result
  /\ UNCHANGED <<heapVars, listVars, locks, new_node, current_head>>

Copy(c) ==
  /\ Step(c, "copy", "swap_head")
  /\ result' = [result EXCEPT ![c] = data[new_head[c]]]
  /\ UNCHANGED <<heapVars, listVars, locks, new_node, current_head, new_head>>

SwapHead(c) ==
  /\ Step(c, "swap_head", "unlock_head")
  /\ head' = new_head[c]
  /\ UNCHANGED <<heapVars, tail, locks, new_node, popLocals>>

UnlockHead(c) ==
  /\ Step(c, "unlock_head", "delete")
  /\ head_mutex' = Free
  /\ UNCHANGED <<heapVars, listVars, tail_mutex, new_node, popLocals>>

\* mutant: the new dummy is deleted instead of the old one
DeletedNew(c) == new_head[c]
Deleted(c) == current_head[c]

\* Delete the old dummy, return true; the for loop goes on or ends.
Delete(c) ==
  /\ pc[c] = "delete"
  /\ allocated' = allocated \ {Deleted(c)}
  /\ NextIteration(c)
  /\ UNCHANGED <<data, next, listVars, locks, new_node, popLocals>>

\* mutant: the early return forgets to unlock
HeadAfterMissLocked == head_mutex
HeadAfterMiss == Free

\* Nothing to take: unlock, return false.
ReturnEmpty(c) ==
  /\ pc[c] = "unlock_empty"
  /\ head_mutex' = HeadAfterMiss
  /\ NextIteration(c)
  /\ UNCHANGED <<heapVars, listVars, tail_mutex, new_node, popLocals>>

-----------------------------------------------------------------------------
Producer(p) ==
  Start(p) \/ Allocate(p) \/ LockTail(p) \/ Link(p) \/ MoveTail(p) \/ UnlockTail(p)

Consumer(c) ==
  \/ Start(c) \/ LockHead(c) \/ LoadHead(c) \/ LoadNext(c) \/ Copy(c)
  \/ SwapHead(c) \/ UnlockHead(c) \/ Delete(c) \/ ReturnEmpty(c)

Join == JoinAll /\ UNCHANGED <<heapVars, listVars, locks, new_node, popLocals>>

\* main has returned.
Returned == main = "return" /\ UNCHANGED vars

Next ==
  \/ \E p \in Producers : Producer(p)
  \/ \E c \in Consumers : Consumer(c)
  \/ Join
  \/ Returned

Spec == Init /\ [][Next]_vars

\* The scheduler runs every thread that can go on; a mutex is taken a bounded
\* number of times by each thread and need not be fair.
FairSpec ==
  /\ Spec
  /\ \A p \in Producers : WF_vars(Producer(p))
  /\ \A c \in Consumers : WF_vars(Consumer(c))
  /\ WF_vars(Join)

-----------------------------------------------------------------------------
\* Every node a thread is about to dereference or to delete is allocated,
\* although tail still points to a node that dequeue may have deleted when
\* enqueue has linked its node and not yet moved tail, and although its
\* memory may already be in use again.
NoUseAfterFree ==
  /\ \A p \in Producers : pc[p] = "link" => tail \in allocated
  /\ \A c \in Consumers :
       /\ pc[c] \in {"load_next", "delete"} => current_head[c] \in allocated
       /\ pc[c] \in {"copy", "swap_head"} => new_head[c] \in allocated

\* The nodes after the dummy, in list order.  The first of them is already
\* taken when a dequeue has copied its data and not yet moved head.
ListFrom(first) ==
  LET limit == Cardinality(Nodes)
      node[k \in 0 .. limit] ==
        IF k = 0 THEN first
        ELSE IF node[k - 1] = Null THEN Null ELSE next[node[k - 1]]
      length == Cardinality({k \in 1 .. limit : node[k] # Null})
  IN  [k \in 1 .. length |-> data[node[k]]]

Swapping == {c \in Consumers : pc[c] = "swap_head"}
Dummy == IF Swapping = {} THEN head ELSE new_head[CHOOSE c \in Swapping : TRUE]

Queue == INSTANCE MpmcQueue WITH
  queue <- ListFrom(Dummy),
  enqueued <- [p \in Producers |->
                 IF pc[p] \in {"move_tail", "unlock_tail"} THEN n[p] + 1 ELSE n[p]]

\* The list is a FIFO queue to all its threads: an enqueue takes effect when
\* it links its node, a dequeue when it copies the data, and a dequeue that
\* returns false when it finds no next node, at a moment the queue is empty.
ImplementsQueue == Queue!Spec

\* Every thread ends and main returns.
Terminates == <>(main = "return")

\* The next pointer of the dummy node is plain memory: a thread about to
\* store it and a thread about to load it must not meet.  The code does not
\* keep this when the list is empty.
NoRaceOnNext ==
  \A p \in Producers, c \in Consumers :
    ~(pc[p] = "link" /\ pc[c] = "load_next" /\ tail = current_head[c])

=============================================================================
