--------------------------- MODULE FineQueueProofs ---------------------------
(***************************************************************************)
(* Proofs about FineQueue, for any number of writers, readers, iterations  *)
(* and nodes: memory is never used after it has been deleted, and the list *)
(* is a FIFO queue.  The nodes on the list are told from the others        *)
(* without following next pointers: they are the allocated ones that no    *)
(* thread has to itself.  For the refinement a function then leads over    *)
(* all of them from the dummy to the last, and ListFrom reads along it.    *)
(***************************************************************************)
EXTENDS FineQueue, FiniteSetTheorems, TLAPS

Idle == {"none", "start", "barrier", "loop", "done"}
Enqueueing == {"lock_tail", "link", "move_tail", "unlock_tail"}
Dequeueing == {"load_head", "load_next", "copy", "swap_head", "unlock_head",
               "unlock_empty", "delete"}

\* Writers with a node that is not linked yet, readers with one to delete.
Preparing == {p \in Producers : pc[p] \in {"lock_tail", "link"}}
Retiring == {c \in Consumers : pc[c] \in {"unlock_head", "delete"}}

List ==
  allocated \ ({new_node[p] : p \in Preparing} \cup {current_head[c] : c \in Retiring})

LoopInv ==
  \A t \in Threads :
    /\ pc[t] \in {"none", "start", "barrier"} => n[t] = 0
    /\ pc[t] # "done" => n[t] < Iterations

RolesInv ==
  /\ \A p \in Producers : pc[p] \in Idle \cup Enqueueing
  /\ \A c \in Consumers : pc[c] \in Idle \cup Dequeueing

\* Each mutex is held by the thread that is where it has to be held.
MutexInv ==
  /\ \A p \in Producers :
       pc[p] \in {"link", "move_tail", "unlock_tail"} <=> tail_mutex = p
  /\ \A c \in Consumers :
       pc[c] \in {"load_head", "load_next", "copy", "swap_head", "unlock_head",
                  "unlock_empty"} <=> head_mutex = c

\* A node belongs to one thread at most until it is linked or deleted.
OwnInv ==
  /\ \A p \in Preparing : new_node[p] \in allocated /\ next[new_node[p]] = Null
  /\ \A c \in Retiring : current_head[c] \in allocated
  /\ \A p, q \in Preparing : p # q => new_node[p] # new_node[q]
  /\ \A c, d \in Retiring : c # d => current_head[c] # current_head[d]
  /\ \A p \in Preparing, c \in Retiring : new_node[p] # current_head[c]

\* Next pointers lead from one node of the list to another, never to the
\* dummy, and no two to the same node.
ListInv ==
  /\ head \in List
  /\ \A x \in List : next[x] # Null => next[x] \in List /\ next[x] # head
  /\ \A x, y \in List : next[x] = next[y] /\ next[x] # Null => x = y

\* The node tail points to, or is about to, is the last one.
TailInv ==
  /\ (\A p \in Producers : pc[p] # "move_tail") => tail \in List /\ next[tail] = Null
  /\ \A p \in Producers :
       pc[p] = "move_tail" => new_node[p] \in List /\ next[new_node[p]] = Null

\* What a reader has loaded stays true while it holds the mutex of the head.
HeadInv ==
  \A c \in Consumers :
    /\ pc[c] \in {"load_next", "copy", "swap_head"} => current_head[c] = head
    /\ pc[c] \in {"copy", "swap_head"} => new_head[c] = next[head] /\ next[head] # Null

Inv ==
  /\ TypeOK /\ LoopInv /\ RolesInv /\ MutexInv /\ OwnInv /\ ListInv /\ TailInv
  /\ HeadInv

-----------------------------------------------------------------------------
USE ThreadsAssumption, IterationsAssumption, FreeAssumption, NodesAssumption
USE DEF Threads, Idle, Enqueueing, Dequeueing

\* The dummy is the only node.
LEMMA InitInv == Init => Inv
  <1> SUFFICES ASSUME Init
               PROVE  Inv
    OBVIOUS
  <1>1. head \in Nodes
    <2>1. Cardinality(Producers) \in Nat /\ Cardinality(Nodes) \in Nat
      BY FS_CardinalityType
    <2>2. Cardinality(Producers) * Iterations >= 0
      BY <2>1
    <2>3. Nodes # {}
      BY <2>1, <2>2, FS_EmptySet
    <2> QED BY <2>3 DEF Init
  <1>2. TypeOK
    BY <1>1 DEF Init, WorkersInit, TypeOK, WorkersTypeOK
  <1>3. LoopInv /\ RolesInv /\ MutexInv
    BY DEF Init, WorkersInit, LoopInv, RolesInv, MutexInv
  <1>4. Preparing = {} /\ Retiring = {} /\ List = {head}
    BY DEF Init, WorkersInit, Preparing, Retiring, List
  <1>5. OwnInv /\ ListInv /\ TailInv /\ HeadInv
    BY <1>1, <1>4 DEF Init, WorkersInit, OwnInv, ListInv, TailInv, HeadInv
  <1> QED BY <1>2, <1>3, <1>5 DEF Inv

\* Nodes on the list are allocated, and belong to nobody.
LEMMA ListFacts ==
  ASSUME TypeOK
  PROVE  /\ List \subseteq allocated /\ List \subseteq Nodes /\ Null \notin List
         /\ \A p \in Preparing : new_node[p] \notin List
         /\ \A c \in Retiring : current_head[c] \notin List
  BY DEF List, TypeOK

-----------------------------------------------------------------------------
\* The next label after an iteration, and the count of iterations.
LEMMA AfterTypes ==
  ASSUME TypeOK, LoopInv, NEW t \in Threads, pc[t] # "done"
  PROVE  /\ n[t] \in Nat /\ n[t] + 1 \in 0 .. Iterations
         /\ After(n[t] + 1) \in {"loop", "done"}
         /\ After(n[t] + 1) = "loop" => n[t] + 1 < Iterations
  BY DEF TypeOK, WorkersTypeOK, LoopInv, After

\* What the types say about one state.
LEMMA Types ==
  ASSUME TypeOK
  PROVE  /\ pc \in [Threads -> Idle \cup Enqueueing \cup Dequeueing]
         /\ n \in [Threads -> 0 .. Iterations]
         /\ allocated \subseteq Nodes /\ next \in [Nodes -> Nodes \cup {Null}]
         /\ head \in Nodes /\ tail \in Nodes /\ Null \notin Nodes
         /\ new_node \in [Producers -> Nodes \cup {Null}]
         /\ current_head \in [Consumers -> Nodes \cup {Null}]
         /\ new_head \in [Consumers -> Nodes \cup {Null}]
  BY DEF TypeOK, WorkersTypeOK, Labels

\* A step that changes neither the heap nor what threads have to themselves.
LEMMA ListKept ==
  ASSUME OwnInv, ListInv, UNCHANGED <<allocated, next, head>>,
         Preparing' = Preparing, \A p \in Preparing : new_node'[p] = new_node[p],
         Retiring' = Retiring, \A c \in Retiring : current_head'[c] = current_head[c]
  PROVE  List' = List /\ OwnInv' /\ ListInv'
  <1>1. List' = List
    BY DEF List
  <1>2. OwnInv'
    BY DEF OwnInv
  <1>3. ListInv'
    BY <1>1 DEF ListInv
  <1> QED BY <1>1, <1>2, <1>3

\* Getting a thread to its loop touches nothing of the queue.
LEMMA StartInv ==
  ASSUME Inv, NEW t \in Threads, Start(t)
  PROVE  Inv'
  <1> USE DEF Inv
  <1>1. /\ pc[t] \in {"none", "start", "barrier"}
        /\ pc' = [pc EXCEPT ![t] = pc'[t]] /\ pc'[t] \in {"start", "barrier", "loop"}
        /\ UNCHANGED <<n, heapVars, listVars, locks, new_node, popLocals>>
    BY Types DEF Start, StartUp, Create, Arrive, PassBarrier, Goto
  <1>2. main' \in {"create", "join", "return"} /\ arrived' \subseteq Threads
    BY DEF TypeOK, WorkersTypeOK, Start, StartUp, Create, Arrive, PassBarrier
  <1> USE DEF heapVars, listVars, locks, popLocals
  <1>3. TypeOK'
    BY <1>1, <1>2 DEF TypeOK, WorkersTypeOK
  <1>4. LoopInv' /\ RolesInv' /\ MutexInv'
    BY <1>1, Types DEF LoopInv, RolesInv, MutexInv
  <1>5. Preparing' = Preparing /\ Retiring' = Retiring
    BY <1>1, Types DEF Preparing, Retiring
  <1>6. List' = List /\ OwnInv' /\ ListInv'
    BY <1>1, <1>5, ListKept
  <1>7. TailInv' /\ HeadInv'
    BY <1>1, <1>6, Types DEF TailInv, HeadInv
  <1> QED BY <1>3, <1>4, <1>6, <1>7

-----------------------------------------------------------------------------
\* A step of enqueue.
LEMMA EnqueueInv ==
  ASSUME Inv, NEW p \in Producers,
         Allocate(p) \/ LockTail(p) \/ Link(p) \/ MoveTail(p) \/ UnlockTail(p)
  PROVE  Inv'
  <1> USE DEF Inv
  <1> USE DEF Goto, Step, heapVars, listVars, locks, popLocals
  <1>0. p \notin Consumers /\ p \in Threads
    OBVIOUS
  <1> USE Types, ListFacts
  <1>1. CASE Allocate(p)
    <2>1. PICK x \in Nodes \ allocated :
            /\ allocated' = allocated \cup {x}
            /\ data' = [data EXCEPT ![x] = <<p, n[p]>>]
            /\ next' = [next EXCEPT ![x] = Null]
            /\ new_node' = [new_node EXCEPT ![p] = x]
      BY <1>1 DEF Allocate
    <2>2. /\ pc[p] = "loop" /\ pc' = [pc EXCEPT ![p] = "lock_tail"]
          /\ UNCHANGED <<main, arrived, n, head, tail, head_mutex, tail_mutex, current_head,
                         new_head, result>>
      BY <1>1 DEF Allocate
    <2> HIDE <1>1
    <2>3. TypeOK'
      <3>1. <<p, n[p]>> \in Elements
        BY <2>2 DEF LoopInv, Elements
      <3> QED BY <2>1, <2>2, <3>1 DEF TypeOK, WorkersTypeOK, Labels
    <2>4. LoopInv' /\ RolesInv' /\ MutexInv'
      BY <2>2 DEF LoopInv, RolesInv, MutexInv
    <2>5. Preparing' = Preparing \cup {p} /\ p \notin Preparing /\ Retiring' = Retiring
      BY <1>0, <2>2 DEF Preparing, Retiring
    <2>6. List' = List
      BY <2>1, <2>2, <2>5 DEF List, OwnInv
    <2>7. OwnInv'
      BY <2>1, <2>2, <2>5 DEF OwnInv, Preparing, Retiring
    <2>8. \A y \in List : next'[y] = next[y]
      BY <2>1
    <2>9. ListInv'
      BY <2>2, <2>6, <2>8 DEF ListInv
    <2>10. TailInv' /\ HeadInv'
      <3>1. TailInv'
        BY <1>0, <2>1, <2>2, <2>6, <2>8 DEF TailInv
      <3>2. HeadInv'
        BY <1>0, <2>2, <2>8 DEF HeadInv, ListInv
      <3> QED BY <3>1, <3>2
    <2> QED BY <2>3, <2>4, <2>7, <2>9, <2>10
  <1>2. CASE LockTail(p)
    <2> USE <1>2 DEF LockTail, TailFree
    <2>1. TypeOK'
      BY DEF TypeOK, WorkersTypeOK, Labels
    <2>2. LoopInv' /\ RolesInv' /\ MutexInv'
      BY <1>0 DEF LoopInv, RolesInv, MutexInv
    <2>3. Preparing' = Preparing /\ Retiring' = Retiring
      BY <1>0 DEF Preparing, Retiring
    <2>4. List' = List /\ OwnInv' /\ ListInv'
      BY <2>3, ListKept
    <2>5. TailInv' /\ HeadInv'
      BY <1>0, <2>4 DEF TailInv, HeadInv
    <2> QED BY <2>1, <2>2, <2>4, <2>5
  <1>3. CASE Link(p)
    <2> DEFINE x == new_node[p]
    <2>1. /\ pc[p] = "link" /\ pc' = [pc EXCEPT ![p] = "move_tail"]
          /\ next' = [next EXCEPT ![tail] = x]
          /\ UNCHANGED <<main, arrived, n, allocated, data, head, tail, head_mutex, tail_mutex,
                         new_node, current_head, new_head, result>>
      BY <1>3 DEF Link
    <2> HIDE <1>3
    <2>2. /\ p \in Preparing /\ x \in allocated /\ next[x] = Null /\ x \notin List
          /\ x \in Nodes
      BY <2>1 DEF Preparing, OwnInv
    <2>3. tail_mutex = p /\ \A q \in Producers : pc[q] # "move_tail"
      BY <1>0, <2>1 DEF MutexInv
    <2>4. tail \in List /\ next[tail] = Null
      BY <2>3 DEF TailInv
    <2> HIDE DEF x
    <2>5. TypeOK'
      BY <2>1, <2>2 DEF TypeOK, WorkersTypeOK, Labels
    <2>6. LoopInv' /\ RolesInv' /\ MutexInv'
      BY <1>0, <2>1 DEF LoopInv, RolesInv, MutexInv
    <2>7. Preparing' = Preparing \ {p} /\ Retiring' = Retiring
      BY <1>0, <2>1 DEF Preparing, Retiring
    <2>8. List' = List \cup {x}
      BY <2>1, <2>2, <2>7 DEF List, OwnInv, x
    <2>9. OwnInv'
      <3>1. \A q \in Preparing \ {p} : next'[new_node[q]] = Null
        BY <2>1, <2>4 DEF OwnInv
      <3> QED BY <2>1, <2>7, <3>1 DEF OwnInv
    <2>10. ListInv'
      BY <2>1, <2>2, <2>4, <2>8 DEF ListInv
    <2>11. TailInv'
      BY <1>0, <2>1, <2>2, <2>3, <2>4, <2>8 DEF TailInv, x
    <2>12. HeadInv'
      BY <1>0, <2>1, <2>4 DEF HeadInv
    <2> QED BY <2>5, <2>6, <2>9, <2>10, <2>11, <2>12
  <1>4. CASE MoveTail(p)
    <2> USE <1>4 DEF MoveTail
    <2>1. new_node[p] \in List /\ next[new_node[p]] = Null /\ new_node[p] \in Nodes
      BY DEF TailInv
    <2>2. TypeOK'
      BY <2>1 DEF TypeOK, WorkersTypeOK, Labels
    <2>3. LoopInv' /\ RolesInv' /\ MutexInv'
      BY <1>0 DEF LoopInv, RolesInv, MutexInv
    <2>4. Preparing' = Preparing /\ Retiring' = Retiring
      BY <1>0 DEF Preparing, Retiring
    <2>5. List' = List /\ OwnInv' /\ ListInv'
      BY <2>4, ListKept
    <2>6. TailInv' /\ HeadInv'
      BY <1>0, <2>1, <2>5 DEF TailInv, HeadInv
    <2> QED BY <2>2, <2>3, <2>5, <2>6
  <1>5. CASE UnlockTail(p)
    <2> USE <1>5 DEF UnlockTail, NextIteration
    <2>1. /\ n[p] + 1 \in 0 .. Iterations /\ After(n[p] + 1) \in {"loop", "done"}
          /\ After(n[p] + 1) = "loop" => n[p] + 1 < Iterations
      BY AfterTypes
    <2>2. TypeOK'
      BY <2>1 DEF TypeOK, WorkersTypeOK, Labels
    <2>3. LoopInv' /\ RolesInv' /\ MutexInv'
      BY <1>0, <2>1 DEF LoopInv, RolesInv, MutexInv
    <2>4. Preparing' = Preparing /\ Retiring' = Retiring
      BY <1>0, <2>1 DEF Preparing, Retiring
    <2>5. List' = List /\ OwnInv' /\ ListInv'
      BY <2>4, ListKept
    <2>6. TailInv' /\ HeadInv'
      BY <1>0, <2>1, <2>5 DEF TailInv, HeadInv, MutexInv
    <2> QED BY <2>2, <2>3, <2>5, <2>6
  <1> QED BY <1>1, <1>2, <1>3, <1>4, <1>5

\* A step of dequeue.
LEMMA DequeueInv ==
  ASSUME Inv, NEW c \in Consumers,
         \/ LockHead(c) \/ LoadHead(c) \/ LoadNext(c) \/ Copy(c) \/ SwapHead(c)
         \/ UnlockHead(c) \/ Delete(c) \/ ReturnEmpty(c)
  PROVE  Inv'
  <1> USE DEF Inv
  <1> USE DEF Goto, Step, heapVars, listVars, locks, popLocals
  <1>0. /\ c \notin Producers /\ c \in Threads
        /\ n[c] + 1 \in 0 .. Iterations /\ After(n[c] + 1) \in {"loop", "done"}
        /\ After(n[c] + 1) = "loop" => n[c] + 1 < Iterations
    BY AfterTypes DEF LockHead, LoadHead, LoadNext, Copy, SwapHead, UnlockHead, Delete,
                      ReturnEmpty
  <1> USE Types, ListFacts
  <1>1. CASE LockHead(c)
    <2> USE <1>1 DEF LockHead
    <2>1. TypeOK'
      BY DEF TypeOK, WorkersTypeOK, Labels
    <2>2. LoopInv' /\ RolesInv' /\ MutexInv'
      BY <1>0 DEF LoopInv, RolesInv, MutexInv
    <2>3. Preparing' = Preparing /\ Retiring' = Retiring
      BY <1>0 DEF Preparing, Retiring
    <2>4. List' = List /\ OwnInv' /\ ListInv'
      BY <2>3, ListKept
    <2>5. TailInv' /\ HeadInv'
      BY <1>0, <2>4 DEF TailInv, HeadInv
    <2> QED BY <2>1, <2>2, <2>4, <2>5
  <1>2. CASE LoadHead(c)
    <2> USE <1>2 DEF LoadHead
    <2>1. TypeOK'
      BY DEF TypeOK, WorkersTypeOK, Labels
    <2>2. LoopInv' /\ RolesInv' /\ MutexInv'
      BY <1>0 DEF LoopInv, RolesInv, MutexInv
    <2>3. Preparing' = Preparing /\ Retiring' = Retiring /\ c \notin Retiring
      BY <1>0 DEF Preparing, Retiring
    <2>4. \A d \in Retiring : current_head'[d] = current_head[d]
      BY <2>3 DEF Retiring
    <2>5. List' = List /\ OwnInv' /\ ListInv'
      BY <2>3, <2>4, ListKept
    <2>6. TailInv' /\ HeadInv'
      BY <1>0, <2>5 DEF TailInv, HeadInv
    <2> QED BY <2>1, <2>2, <2>5, <2>6
  <1>3. CASE LoadNext(c)
    <2> DEFINE successor == next[current_head[c]]
    <2>1. /\ pc[c] = "load_next"
          /\ pc' = [pc EXCEPT ![c] = IF successor = Null THEN "unlock_empty" ELSE "copy"]
          /\ new_head' = [new_head EXCEPT ![c] = successor]
          /\ result' = IF successor = Null THEN [result EXCEPT ![c] = Nothing] ELSE result
          /\ UNCHANGED <<main, arrived, n, allocated, data, next, head, tail, head_mutex,
                         tail_mutex, new_node, current_head>>
      BY <1>3 DEF LoadNext
    <2> HIDE <1>3
    <2>2. current_head[c] = head /\ successor = next[head] /\ successor \in Nodes \cup {Null}
      BY <2>1 DEF HeadInv
    <2> HIDE DEF successor
    <2>3. TypeOK'
      <3>1. result' \in [Consumers -> Elements \cup {Nothing}]
        BY <2>1 DEF TypeOK
      <3> QED BY <2>1, <2>2, <3>1 DEF TypeOK, WorkersTypeOK, Labels
    <2>4. LoopInv' /\ RolesInv' /\ MutexInv'
      BY <1>0, <2>1 DEF LoopInv, RolesInv, MutexInv
    <2>5. Preparing' = Preparing /\ Retiring' = Retiring
      BY <1>0, <2>1 DEF Preparing, Retiring
    <2>6. List' = List /\ OwnInv' /\ ListInv'
      BY <2>1, <2>5, ListKept
    <2>7. TailInv' /\ HeadInv'
      BY <1>0, <2>1, <2>2, <2>6 DEF TailInv, HeadInv
    <2> QED BY <2>3, <2>4, <2>6, <2>7
  <1>4. CASE Copy(c)
    <2> USE <1>4 DEF Copy
    <2>1. new_head[c] \in Nodes
      BY DEF HeadInv
    <2>2. TypeOK'
      <3>1. data[new_head[c]] \in Elements \cup {Nothing}
        BY <2>1 DEF TypeOK
      <3> QED BY <3>1 DEF TypeOK, WorkersTypeOK, Labels
    <2>3. LoopInv' /\ RolesInv' /\ MutexInv'
      BY <1>0 DEF LoopInv, RolesInv, MutexInv
    <2>4. Preparing' = Preparing /\ Retiring' = Retiring
      BY <1>0 DEF Preparing, Retiring
    <2>5. List' = List /\ OwnInv' /\ ListInv'
      BY <2>4, ListKept
    <2>6. TailInv' /\ HeadInv'
      BY <1>0, <2>5 DEF TailInv, HeadInv
    <2> QED BY <2>2, <2>3, <2>5, <2>6
  <1>5. CASE SwapHead(c)
    <2>1. /\ pc[c] = "swap_head" /\ pc' = [pc EXCEPT ![c] = "unlock_head"]
          /\ head' = new_head[c]
          /\ UNCHANGED <<main, arrived, n, allocated, data, next, tail, head_mutex, tail_mutex,
                         new_node, current_head, new_head, result>>
      BY <1>5 DEF SwapHead
    <2> HIDE <1>5
    <2>2. /\ current_head[c] = head /\ new_head[c] = next[head] /\ next[head] # Null
          /\ head \in List /\ next[head] \in List /\ next[head] # head
      BY <2>1 DEF HeadInv, ListInv
    <2>3. TypeOK'
      BY <2>1, <2>2 DEF TypeOK, WorkersTypeOK, Labels
    <2>4. LoopInv' /\ RolesInv' /\ MutexInv'
      BY <1>0, <2>1 DEF LoopInv, RolesInv, MutexInv
    <2>5. Preparing' = Preparing /\ Retiring' = Retiring \cup {c} /\ c \notin Retiring
      BY <1>0, <2>1 DEF Preparing, Retiring
    <2>6. List' = List \ {head}
      BY <2>1, <2>2, <2>5 DEF List
    <2>7. OwnInv'
      BY <2>1, <2>2, <2>5 DEF OwnInv
    <2>8. ListInv'
      BY <2>1, <2>2, <2>6 DEF ListInv
    <2>9. TailInv'
      BY <1>0, <2>1, <2>2, <2>6 DEF TailInv
    <2>10. HeadInv'
      BY <1>0, <2>1 DEF HeadInv, MutexInv
    <2> QED BY <2>3, <2>4, <2>7, <2>8, <2>9, <2>10
  <1>6. CASE UnlockHead(c)
    <2> USE <1>6 DEF UnlockHead
    <2>1. TypeOK'
      BY DEF TypeOK, WorkersTypeOK, Labels
    <2>2. LoopInv' /\ RolesInv' /\ MutexInv'
      BY <1>0 DEF LoopInv, RolesInv, MutexInv
    <2>3. Preparing' = Preparing /\ Retiring' = Retiring
      BY <1>0 DEF Preparing, Retiring
    <2>4. List' = List /\ OwnInv' /\ ListInv'
      BY <2>3, ListKept
    <2>5. TailInv' /\ HeadInv'
      BY <1>0, <2>4 DEF TailInv, HeadInv
    <2> QED BY <2>1, <2>2, <2>4, <2>5
  <1>7. CASE Delete(c)
    <2>1. /\ pc[c] = "delete" /\ allocated' = allocated \ {current_head[c]}
          /\ n' = [n EXCEPT ![c] = @ + 1] /\ pc' = [pc EXCEPT ![c] = After(n[c] + 1)]
          /\ UNCHANGED <<main, arrived, data, next, head, tail, head_mutex, tail_mutex,
                         new_node, current_head, new_head, result>>
      BY <1>7 DEF Delete, Deleted, NextIteration
    <2> HIDE <1>7
    <2>2. TypeOK'
      BY <1>0, <2>1 DEF TypeOK, WorkersTypeOK, Labels
    <2>3. LoopInv' /\ RolesInv' /\ MutexInv'
      BY <1>0, <2>1 DEF LoopInv, RolesInv, MutexInv
    <2>4. Preparing' = Preparing /\ Retiring' = Retiring \ {c} /\ c \in Retiring
      BY <1>0, <2>1 DEF Preparing, Retiring
    <2>5. List' = List
      BY <2>1, <2>4 DEF List, OwnInv
    <2>6. OwnInv'
      BY <2>1, <2>4 DEF OwnInv
    <2>7. ListInv'
      BY <2>1, <2>5 DEF ListInv
    <2>8. TailInv' /\ HeadInv'
      BY <1>0, <2>1, <2>5 DEF TailInv, HeadInv
    <2> QED BY <2>2, <2>3, <2>6, <2>7, <2>8
  <1>8. CASE ReturnEmpty(c)
    <2> USE <1>8 DEF ReturnEmpty, NextIteration, HeadAfterMiss
    <2>1. TypeOK'
      BY <1>0 DEF TypeOK, WorkersTypeOK, Labels
    <2>2. LoopInv' /\ RolesInv' /\ MutexInv'
      BY <1>0 DEF LoopInv, RolesInv, MutexInv
    <2>3. Preparing' = Preparing /\ Retiring' = Retiring
      BY <1>0 DEF Preparing, Retiring
    <2>4. List' = List /\ OwnInv' /\ ListInv'
      BY <2>3, ListKept
    <2>5. TailInv' /\ HeadInv'
      BY <1>0, <2>4 DEF TailInv, HeadInv
    <2> QED BY <2>1, <2>2, <2>4, <2>5
  <1> QED BY <1>1, <1>2, <1>3, <1>4, <1>5, <1>6, <1>7, <1>8

-----------------------------------------------------------------------------
\* Every step keeps the invariant.
LEMMA NextInv == Inv /\ [Next]_vars => Inv'
  <1> SUFFICES ASSUME Inv, [Next]_vars
               PROVE  Inv'
    OBVIOUS
  <1>1. ASSUME NEW p \in Producers, Producer(p)
        PROVE  Inv'
    BY <1>1, StartInv, EnqueueInv DEF Producer
  <1>2. ASSUME NEW c \in Consumers, Consumer(c)
        PROVE  Inv'
    BY <1>2, StartInv, DequeueInv DEF Consumer
  <1>3. CASE Join \/ UNCHANGED vars
    <2>1. /\ UNCHANGED <<arrived, pc, n, heapVars, listVars, locks, new_node, popLocals>>
          /\ main' \in {"create", "join", "return"}
      BY <1>3 DEF Join, JoinAll, vars, workerVars, Inv, TypeOK, WorkersTypeOK
    <2> USE DEF heapVars, listVars, locks, popLocals
    <2>2. TypeOK'
      BY <2>1 DEF Inv, TypeOK, WorkersTypeOK
    <2>3. Preparing' = Preparing /\ Retiring' = Retiring /\ List' = List
      BY <2>1 DEF Preparing, Retiring, List
    <2> QED BY <2>1, <2>2, <2>3 DEF Inv, LoopInv, RolesInv, MutexInv, OwnInv, ListInv,
                                    TailInv, HeadInv
  <1> QED BY <1>1, <1>2, <1>3 DEF Next, Returned

\* Every reachable state satisfies the invariant.
THEOREM Invariance == Spec => []Inv
  BY InitInv, NextInv, PTL DEF Spec

\* Every variable keeps its range.
THEOREM TypeCorrect == Spec => []TypeOK
  BY Invariance, PTL DEF Inv

\* enqueue and dequeue never touch a node after its delete, however many
\* threads there are, however slow the one that deletes, and wherever new
\* finds its memory.
THEOREM MemorySafe == Spec => []NoUseAfterFree
  <1>1. Inv => NoUseAfterFree
    <2> SUFFICES ASSUME Inv
                 PROVE  NoUseAfterFree
      OBVIOUS
    <2> USE Types, ListFacts DEF Inv
    <2>1. ASSUME NEW p \in Producers, pc[p] = "link"
          PROVE  tail \in allocated
      BY <2>1 DEF MutexInv, TailInv
    <2>2. ASSUME NEW c \in Consumers
          PROVE  /\ pc[c] \in {"load_next", "delete"} => current_head[c] \in allocated
                 /\ pc[c] \in {"copy", "swap_head"} => new_head[c] \in allocated
      BY <2>2 DEF HeadInv, ListInv, OwnInv, Retiring
    <2> QED BY <2>1, <2>2 DEF NoUseAfterFree
  <1> QED BY <1>1, Invariance, PTL

-----------------------------------------------------------------------------
\* A set of natural numbers has a least one.
LEMMA Least ==
  ASSUME NEW S \in SUBSET Nat, S # {}
  PROVE  \E k \in S : \A l \in S : k <= l
  <1>1. PICK k \in S : \A l \in S : <<l, k>> \notin OpToRel(<, Nat)
    BY NatLessThanWellFounded, WFMin
  <1>2. \A l \in S : ~(l < k)
    BY <1>1 DEF OpToRel
  <1> QED BY <1>2

\* ListFrom, for any fields of the nodes.
ListOf(nx, dt, first) ==
  LET limit == Cardinality(Nodes)
      node[k \in 0 .. limit] ==
        IF k = 0 THEN first
        ELSE IF node[k - 1] = Null THEN Null ELSE nx[node[k - 1]]
      length == Cardinality({k \in 1 .. limit : node[k] # Null})
  IN  [k \in 1 .. length |-> dt[node[k]]]

\* The queue of the refinement mapping is ListOf of the heap.
LEMMA ListFromIs ==
  ASSUME NEW first
  PROVE  ListFrom(first) = ListOf(next, data, first)
  BY DEF ListFrom, ListOf

\* g visits the nodes from first on, and Null after the last.
Follows(nx, first, g) ==
  g = [k \in 0 .. Cardinality(Nodes) |->
        IF k = 0 THEN first
        ELSE IF g[k - 1] = Null THEN Null ELSE nx[g[k - 1]]]

\* The recursive function of ListFrom is the only one that follows the list.
LEMMA ListOfIs ==
  ASSUME NEW nx, NEW dt, NEW first, NEW g, Follows(nx, first, g)
  PROVE  ListOf(nx, dt, first) =
           [k \in 1 .. Cardinality({k \in 1 .. Cardinality(Nodes) : g[k] # Null}) |-> dt[g[k]]]
  <1> DEFINE w == CHOOSE h : Follows(nx, first, h)
  <1>1. Follows(nx, first, w)
    OBVIOUS
  <1>2. w = g
    <2>0. Cardinality(Nodes) \in Nat
      BY FS_CardinalityType
    <2>1. SUFFICES ASSUME w # g PROVE FALSE
      OBVIOUS
    <2> HIDE DEF w
    <2> DEFINE D == {k \in 0 .. Cardinality(Nodes) : w[k] # g[k]}
    <2>2. D # {} /\ D \in SUBSET Nat
      BY <1>1, <2>0, <2>1 DEF Follows
    <2>3. PICK k \in D : \A l \in D : k <= l
      BY <2>2, Least
    <2>4. k \in 0 .. Cardinality(Nodes) /\ w[k] # g[k]
      OBVIOUS
    <2>5. k # 0
      BY <1>1, <2>4, <2>0 DEF Follows
    <2>6. w[k - 1] = g[k - 1]
      BY <2>3, <2>4, <2>5, <2>0
    <2> QED BY <1>1, <2>4, <2>5, <2>6, <2>0 DEF Follows
  <1>3. ListOf(nx, dt, first) =
           [k \in 1 .. Cardinality({k \in 1 .. Cardinality(Nodes) : w[k] # Null}) |-> dt[w[k]]]
    BY DEF ListOf, Follows
  <1> QED BY <1>2, <1>3

\* f leads over len + 1 different nodes by their next pointers, to the last.
Links(nx, len, f) ==
  /\ \A k \in 0 .. len - 1 : nx[f[k]] = f[k + 1]
  /\ nx[f[len]] = Null
  /\ \A i, j \in 0 .. len : f[i] = f[j] => i = j

\* The data in the nodes after the one d links from the first.
DataAfter(dt, len, f, d) == [k \in 1 .. len - d |-> dt[f[k + d]]]

\* ListOf reads the data along the links.
LEMMA ChainList ==
  ASSUME NEW nx, NEW dt, NEW len \in Nat, NEW f \in [0 .. len -> Nodes],
         Links(nx, len, f), NEW d \in 0 .. len
  PROVE  ListOf(nx, dt, f[d]) = DataAfter(dt, len, f, d)
  <1> DEFINE L == Cardinality(Nodes)
             g == [k \in 0 .. L |-> IF k <= len - d THEN f[k + d] ELSE Null]
  <1>1. L \in Nat /\ len + 1 <= L
    <2>1. f \in Injection(0 .. len, Nodes)
      BY DEF Links, Injection, IsInjective
    <2>2. Cardinality(0 .. len) = len + 1
      BY FS_Interval
    <2> QED BY <2>1, <2>2, FS_Injection, FS_CardinalityType
  <1> HIDE DEF L
  <1>2. ASSUME NEW k \in 0 .. L
        PROVE  g[k] = IF k = 0 THEN f[d]
                      ELSE IF g[k - 1] = Null THEN Null ELSE nx[g[k - 1]]
    <2>1. CASE k = 0
      BY <1>1, <2>1
    <2>2. CASE k # 0 /\ k <= len - d
      <3>1. k - 1 \in 0 .. L /\ k - 1 <= len - d /\ k - 1 + d \in 0 .. len - 1
        BY <1>1, <2>2
      <3>2. g[k - 1] = f[k - 1 + d] /\ g[k - 1] \in Nodes
        BY <3>1
      <3>3. nx[f[k - 1 + d]] = f[k - 1 + d + 1] /\ k - 1 + d + 1 = k + d
        BY <3>1, <1>1, <2>2 DEF Links
      <3>4. g[k] = f[k + d]
        BY <2>2
      <3> QED BY <2>2, <3>2, <3>3, <3>4
    <2>3. CASE k = len - d + 1
      <3>1. k - 1 \in 0 .. L /\ k - 1 <= len - d /\ k - 1 + d = len /\ k # 0
        BY <1>1, <2>3
      <3>2. g[k - 1] = f[len] /\ f[len] \in Nodes
        BY <3>1
      <3>3. g[k] = Null
        BY <2>3, <1>1
      <3> QED BY <3>1, <3>2, <3>3 DEF Links
    <2>4. CASE k > len - d + 1
      <3>1. k - 1 \in 0 .. L /\ ~(k - 1 <= len - d) /\ k # 0 /\ ~(k <= len - d)
        BY <1>1, <2>4
      <3>2. g[k - 1] = Null /\ g[k] = Null
        BY <3>1
      <3> QED BY <3>1, <3>2
    <2> QED BY <2>1, <2>2, <2>3, <2>4, <1>1
  <1>3. Follows(nx, f[d], g)
    <2> DEFINE e(k) == IF k = 0 THEN f[d]
                       ELSE IF g[k - 1] = Null THEN Null ELSE nx[g[k - 1]]
    <2>1. g = [k \in 0 .. L |-> g[k]]
      OBVIOUS
    <2>2. \A k \in 0 .. L : g[k] = e(k)
      BY <1>2
    <2> HIDE DEF g
    <2>3. g = [k \in 0 .. L |-> e(k)]
      BY <2>1, <2>2
    <2> QED BY <2>3 DEF Follows, L
  <1>4. {k \in 1 .. L : g[k] # Null} = 1 .. len - d
    <2>1. \A k \in 1 .. L : g[k] # Null <=> k <= len - d
      <3> TAKE k \in 1 .. L
      <3>1. g[k] = IF k <= len - d THEN f[k + d] ELSE Null
        BY <1>1
      <3>2. k <= len - d => k + d \in 0 .. len
        BY <1>1
      <3> QED BY <3>1, <3>2
    <2> QED BY <1>1, <2>1
  <1>5. Cardinality(1 .. len - d) = len - d
    <2>1. len - d \in Int /\ len - d >= 0
      OBVIOUS
    <2> HIDE NodesAssumption, ThreadsAssumption
    <2> QED BY <2>1, FS_Interval
  <1>6. ListOf(nx, dt, f[d]) = [k \in 1 .. len - d |-> dt[g[k]]]
    <2> HIDE DEF g
    <2>1. ListOf(nx, dt, f[d]) =
            [k \in 1 .. Cardinality({k \in 1 .. L : g[k] # Null}) |-> dt[g[k]]]
      BY <1>3, ListOfIs DEF L
    <2> QED BY <1>4, <1>5, <2>1
  <1>7. \A k \in 1 .. len - d : g[k] = f[k + d]
    BY <1>1
  <1> QED BY <1>6, <1>7 DEF DataAfter

-----------------------------------------------------------------------------
\* f leads from the dummy over all the nodes of the list to the last one.
Chain(len, f) ==
  /\ f \in [0 .. len -> List]
  /\ f[0] = head /\ Links(next, len, f)
  /\ \A x \in List : \E k \in 0 .. len : x = f[k]

\* The list has no cycle, and no node of it is cut off.
ChainInv == \E len \in Nat : \E f \in [0 .. len -> Nodes] : Chain(len, f)

\* A node that is not linked yet has the element its writer put into it.
DataInv == \A p \in Preparing : data[new_node[p]] = <<p, n[p]>>

\* The queue as its threads see it.
Seen == ListFrom(Dummy)
Counted ==
  [p \in Producers |-> IF pc[p] \in {"move_tail", "unlock_tail"} THEN n[p] + 1 ELSE n[p]]

\* How many elements at the front of the list are taken already.
Taken == IF Swapping = {} THEN 0 ELSE 1

\* What they see is what the chain leads over.
SeenInv ==
  \A len \in Nat : \A f \in [0 .. len -> Nodes] :
    Chain(len, f) =>
      /\ Taken \in 0 .. len
      /\ Seen = DataAfter(data, len, f, Taken)

\* So it is in every state of the invariant.
LEMMA SeenIs == Inv => SeenInv
  <1> SUFFICES ASSUME Inv, NEW len \in Nat, NEW f \in [0 .. len -> Nodes], Chain(len, f)
               PROVE  /\ Taken \in 0 .. len
                      /\ Seen = DataAfter(data, len, f, Taken)
    BY DEF SeenInv
  <1>1. Taken \in 0 .. len /\ Dummy = f[Taken]
    <2>1. CASE Swapping = {}
      BY <2>1 DEF Taken, Dummy, Chain
    <2>2. CASE Swapping # {}
      <3> DEFINE c == CHOOSE c \in Swapping : TRUE
      <3>1. c \in Consumers /\ pc[c] = "swap_head"
        BY <2>2 DEF Swapping
      <3>2. new_head[c] = next[head] /\ next[head] # Null
        BY <3>1 DEF Inv, HeadInv
      <3>3. len # 0
        BY <3>2 DEF Chain, Links
      <3>4. next[f[0]] = f[0 + 1]
        BY <3>3 DEF Chain, Links
      <3>5. f[1] = next[head]
        BY <3>4 DEF Chain
      <3> HIDE DEF c
      <3>6. Dummy = new_head[c]
        BY <2>2 DEF Dummy, c
      <3> QED BY <2>2, <3>2, <3>3, <3>5, <3>6 DEF Taken
    <2> QED BY <2>1, <2>2
  <1>2. ListOf(next, data, f[Taken]) = DataAfter(data, len, f, Taken)
    <2>1. Links(next, len, f)
      BY DEF Chain
    <2> QED BY <1>1, <2>1, ChainList
  <1> QED BY <1>1, <1>2, ListFromIs DEF Seen

LEMMA SeenIsPrime == Inv' => SeenInv'
  BY SeenIs, PTL

-----------------------------------------------------------------------------
\* A step that leaves the list and what is in its nodes alone.
LEMMA SeenKept ==
  ASSUME Inv, Inv', ChainInv, List' = List, head' = head, Taken' = Taken,
         \A x \in List : next'[x] = next[x] /\ data'[x] = data[x]
  PROVE  ChainInv' /\ Seen' = Seen
  <1>0. PICK len \in Nat : \E f \in [0 .. len -> Nodes] : Chain(len, f)
    BY DEF ChainInv
  <1>1. PICK f \in [0 .. len -> Nodes] : Chain(len, f)
    BY <1>0
  <1>2. \A k \in 0 .. len : f[k] \in List
    BY <1>1 DEF Chain
  <1>3. Links(next', len, f)
    BY <1>1, <1>2 DEF Chain, Links
  <1>4. Chain(len, f)'
    BY <1>1, <1>3 DEF Chain
  <1>5. ChainInv'
    BY <1>4 DEF ChainInv
  <1>6. /\ Taken \in 0 .. len /\ Seen = DataAfter(data, len, f, Taken)
        /\ Seen' = DataAfter(data', len, f, Taken)
    BY <1>1, <1>4, SeenIs, SeenIsPrime DEF SeenInv
  <1>7. \A k \in 1 .. len - Taken : data'[f[k + Taken]] = data[f[k + Taken]]
    BY <1>2, <1>6
  <1> QED BY <1>5, <1>6, <1>7 DEF DataAfter

\* A node is linked behind the last one.
LEMMA SeenLonger ==
  ASSUME Inv, Inv', ChainInv, NEW x \in Nodes, x \notin List, List' = List \cup {x},
         head' = head, Taken' = Taken, data' = data,
         tail \in List, next[tail] = Null, next[x] = Null,
         next' = [next EXCEPT ![tail] = x]
  PROVE  ChainInv' /\ Seen' = Append(Seen, data[x])
  <1>0. PICK len \in Nat : \E f \in [0 .. len -> Nodes] : Chain(len, f)
    BY DEF ChainInv
  <1>1. PICK f \in [0 .. len -> Nodes] : Chain(len, f)
    BY <1>0
  <1>2. \A k \in 0 .. len : f[k] \in List
    BY <1>1 DEF Chain
  <1>3. f[len] = tail
    <2>1. PICK k \in 0 .. len : tail = f[k]
      BY <1>1 DEF Chain
    <2>2. k \in 0 .. len - 1 => next[f[k]] = f[k + 1] /\ f[k + 1] \in Nodes
      BY <1>1 DEF Chain, Links
    <2> QED BY <2>1, <2>2
  <1> DEFINE g == [k \in 0 .. len + 1 |-> IF k <= len THEN f[k] ELSE x]
  <1>4. /\ g \in [0 .. len + 1 -> Nodes] /\ g \in [0 .. len + 1 -> List']
        /\ g[len + 1] = x /\ \A k \in 0 .. len : g[k] = f[k]
    BY <1>2
  <1> HIDE DEF g
  <1>5. next \in [Nodes -> Nodes \cup {Null}]
    BY Types DEF Inv
  <1>6. Links(next', len + 1, g)
    <2>1. ASSUME NEW k \in 0 .. len
          PROVE  next'[g[k]] = g[k + 1]
      <3>1. CASE k = len
        BY <1>3, <1>4, <1>5, <3>1
      <3>2. CASE k \in 0 .. len - 1
        <4>1. next[f[k]] = f[k + 1] /\ f[k + 1] \in Nodes
          BY <1>1, <3>2 DEF Chain, Links
        <4>2. f[k] # tail
          BY <4>1
        <4> QED BY <1>4, <1>5, <3>2, <4>1, <4>2
      <3> QED BY <3>1, <3>2
    <2>2. next'[g[len + 1]] = Null
      BY <1>4, <1>5
    <2>3. ASSUME NEW i \in 0 .. len + 1, NEW j \in 0 .. len + 1, g[i] = g[j]
          PROVE  i = j
      <3>1. i \in 0 .. len /\ j \in 0 .. len => i = j
        BY <1>1, <1>4, <2>3 DEF Chain, Links
      <3> QED BY <1>2, <1>4, <2>3, <3>1
    <2>4. len + 1 - 1 = len
      OBVIOUS
    <2> QED BY <2>1, <2>2, <2>3, <2>4 DEF Links
  <1>7. Chain(len + 1, g)'
    <2>1. g[0] = head'
      BY <1>1, <1>4 DEF Chain
    <2>2. \A y \in List' : \E k \in 0 .. len + 1 : y = g[k]
      <3> TAKE y \in List'
      <3>1. CASE y = x
        BY <1>4, <3>1
      <3>2. CASE y \in List
        <4>1. PICK k \in 0 .. len : y = f[k]
          BY <1>1, <3>2 DEF Chain
        <4> QED BY <1>4, <4>1
      <3> QED BY <3>1, <3>2
    <2> QED BY <1>4, <1>6, <2>1, <2>2 DEF Chain
  <1>8. ChainInv'
    BY <1>4, <1>7 DEF ChainInv
  <1>9. /\ Taken \in 0 .. len /\ Seen = DataAfter(data, len, f, Taken)
        /\ Seen' = DataAfter(data, len + 1, g, Taken)
    <2>1. SeenInv /\ SeenInv'
      BY SeenIs, SeenIsPrime
    <2>2. Seen' = DataAfter(data', len + 1, g, Taken')
      BY <1>4, <1>7, <2>1 DEF SeenInv
    <2> QED BY <1>1, <2>1, <2>2 DEF SeenInv
  <1>10. DataAfter(data, len + 1, g, Taken) = Append(DataAfter(data, len, f, Taken), data[x])
    <2> DEFINE m == len - Taken
    <2>1. m \in Nat /\ (len + 1) - Taken = m + 1 /\ m + 1 + Taken = len + 1
      BY <1>9
    <2>2. \A k \in 1 .. m : g[k + Taken] = f[k + Taken]
      BY <1>4, <1>9
    <2> HIDE DEF m
    <2>3. data \in [Nodes -> Elements \cup {Nothing}]
      BY DEF Inv, TypeOK
    <2>4. \A k \in 1 .. m : f[k + Taken] \in Nodes
      BY <1>9 DEF m
    <2> DEFINE s == [k \in 1 .. m |-> data[f[k + Taken]]]
    <2>5. s \in Seq(Elements \cup {Nothing}) /\ Len(s) = m
      BY <2>1, <2>3, <2>4
    <2>6. Append(s, data[x]) = [k \in 1 .. m + 1 |-> IF k <= m THEN s[k] ELSE data[x]]
      BY <2>1, <2>5
    <2>7. [k \in 1 .. m + 1 |-> data[g[k + Taken]]]
            = [k \in 1 .. m + 1 |-> IF k <= m THEN s[k] ELSE data[x]]
      BY <1>4, <2>1, <2>2
    <2>8. s = DataAfter(data, len, f, Taken)
      BY DEF DataAfter, m
    <2>9. DataAfter(data, len + 1, g, Taken) = [k \in 1 .. m + 1 |-> data[g[k + Taken]]]
      BY <2>1 DEF DataAfter
    <2> HIDE DEF s
    <2> QED BY <2>6, <2>7, <2>8, <2>9
  <1> QED BY <1>8, <1>9, <1>10

\* The first element is taken, and its node is still on the list.
LEMMA SeenFewer ==
  ASSUME Inv, Inv', ChainInv, next[head] # Null, Taken = 0, Taken' = 1,
         List' = List, UNCHANGED <<head, next, data>>
  PROVE  /\ ChainInv'
         /\ Seen # <<>> /\ Head(Seen) = data[next[head]] /\ Seen' = Tail(Seen)
  <1>0. PICK len \in Nat : \E f \in [0 .. len -> Nodes] : Chain(len, f)
    BY DEF ChainInv
  <1>1. PICK f \in [0 .. len -> Nodes] : Chain(len, f)
    BY <1>0
  <1>2. Chain(len, f)'
    BY <1>1 DEF Chain
  <1>3. /\ Seen = DataAfter(data, len, f, 0) /\ Seen' = DataAfter(data, len, f, 1)
        /\ 1 \in 0 .. len
    BY <1>1, <1>2, SeenIs, SeenIsPrime DEF SeenInv
  <1>4. f[1] = next[head]
    <2>1. next[f[0]] = f[0 + 1] /\ f[0] = head
      BY <1>1, <1>3 DEF Chain, Links
    <2> QED BY <2>1
  <1> DEFINE s == [k \in 1 .. len |-> data[f[k]]]
  <1>5. Seen = s
    BY <1>3 DEF DataAfter
  <1>6. Seen' = [k \in 1 .. len - 1 |-> s[k + 1]]
    <2>1. \A k \in 1 .. len - 1 : s[k + 1] = data[f[k + 1]]
      OBVIOUS
    <2> QED BY <1>3, <2>1 DEF DataAfter
  <1>7. s \in Seq(Elements \cup {Nothing}) /\ Len(s) = len /\ s[1] = data[f[1]]
    BY <1>3 DEF Inv, TypeOK
  <1> HIDE DEF s
  <1>8. s # <<>> /\ Head(s) = s[1] /\ Tail(s) = [k \in 1 .. len - 1 |-> s[k + 1]]
    <2>1. Len(s) # 0
      BY <1>3, <1>7
    <2>2. s # <<>>
      BY <2>1
    <2>3. Tail(s) = [k \in 1 .. Len(s) - 1 |-> s[k + 1]]
      BY <1>7, <2>2
    <2> QED BY <1>7, <2>2, <2>3
  <1>9. ChainInv'
    BY <1>2 DEF ChainInv
  <1> QED BY <1>4, <1>5, <1>6, <1>7, <1>8, <1>9

\* The dummy leaves the list, and the node it was linked to takes its place.
LEMMA SeenShifted ==
  ASSUME Inv, Inv', ChainInv, next[head] # Null, Taken = 1, Taken' = 0,
         List' = List \ {head}, head' = next[head], UNCHANGED <<next, data>>
  PROVE  ChainInv' /\ Seen' = Seen
  <1>0. PICK len \in Nat : \E f \in [0 .. len -> Nodes] : Chain(len, f)
    BY DEF ChainInv
  <1>1. PICK f \in [0 .. len -> Nodes] : Chain(len, f)
    BY <1>0
  <1>2. 1 \in 0 .. len /\ Seen = DataAfter(data, len, f, 1)
    BY <1>1, SeenIs DEF SeenInv
  <1>3. /\ \A k \in 0 .. len : f[k] \in List
        /\ f[0] = head /\ \A k \in 1 .. len : f[k] # head
    BY <1>1, <1>2 DEF Chain, Links
  <1> DEFINE m == len - 1
             g == [k \in 0 .. m |-> f[k + 1]]
  <1>4. /\ m \in Nat /\ m + 1 = len /\ \A k \in 0 .. m : g[k] = f[k + 1]
        /\ g \in [0 .. m -> Nodes]
    BY <1>2
  <1>5. g \in [0 .. m -> List']
    BY <1>3, <1>4
  <1> HIDE DEF g, m
  <1>6. Links(next', m, g)
    <2>1. ASSUME NEW k \in 0 .. m - 1
          PROVE  next[g[k]] = g[k + 1]
      <3>1. g[k] = f[k + 1] /\ g[k + 1] = f[k + 1 + 1] /\ k + 1 \in 0 .. len - 1
        BY <1>4
      <3> QED BY <1>1, <3>1 DEF Chain, Links
    <2>2. next[g[m]] = Null
      BY <1>1, <1>4 DEF Chain, Links
    <2>3. ASSUME NEW i \in 0 .. m, NEW j \in 0 .. m, g[i] = g[j]
          PROVE  i = j
      <3>1. i + 1 \in 0 .. len /\ j + 1 \in 0 .. len /\ f[i + 1] = f[j + 1]
        BY <1>4, <2>3
      <3>2. i + 1 = j + 1
        BY <1>1, <3>1 DEF Chain, Links
      <3> QED BY <1>4, <3>2
    <2> QED BY <2>1, <2>2, <2>3 DEF Links
  <1>7. Chain(m, g)'
    <2>1. g[0] = head'
      <3>1. next[f[0]] = f[0 + 1]
        BY <1>1, <1>2 DEF Chain, Links
      <3> QED BY <1>3, <1>4, <3>1
    <2>2. \A y \in List' : \E k \in 0 .. m : y = g[k]
      <3> TAKE y \in List'
      <3>1. PICK k \in 0 .. len : y = f[k]
        BY <1>1 DEF Chain
      <3>2. k # 0
        BY <1>3, <3>1
      <3>3. k - 1 \in 0 .. m /\ g[k - 1] = f[k]
        BY <1>4, <3>2
      <3> QED BY <3>1, <3>3
    <2> QED BY <1>5, <1>6, <2>1, <2>2 DEF Chain
  <1>8. ChainInv'
    BY <1>4, <1>7 DEF ChainInv
  <1>9. Seen' = DataAfter(data, m, g, 0)
    BY <1>4, <1>7, SeenIs, SeenIsPrime DEF SeenInv
  <1>10. DataAfter(data, m, g, 0) = DataAfter(data, len, f, 1)
    <2>1. \A k \in 1 .. m : g[k + 0] = f[k + 1]
      BY <1>4
    <2>2. len - 1 = m /\ m - 0 = m
      BY <1>4
    <2> QED BY <2>1, <2>2 DEF DataAfter
  <1> QED BY <1>2, <1>8, <1>9, <1>10

\* No node after the dummy.
LEMMA SeenNone ==
  ASSUME Inv, ChainInv, next[head] = Null, Taken = 0
  PROVE  Seen = <<>>
  <1>0. PICK len \in Nat : \E f \in [0 .. len -> Nodes] : Chain(len, f)
    BY DEF ChainInv
  <1>1. PICK f \in [0 .. len -> Nodes] : Chain(len, f)
    BY <1>0
  <1>2. len = 0
    <2>1. SUFFICES ASSUME len # 0
                   PROVE  FALSE
      OBVIOUS
    <2>2. next[f[0]] = f[0 + 1] /\ f[0] = head /\ f[0 + 1] \in Nodes
      BY <1>1, <2>1 DEF Chain, Links
    <2> QED BY <2>2
  <1>3. Seen = DataAfter(data, 0, f, 0)
    BY <1>1, <1>2, SeenIs DEF SeenInv
  <1> QED BY <1>3 DEF DataAfter

-----------------------------------------------------------------------------
\* All of a state the refinement needs.
ViewInv == Inv /\ ChainInv /\ DataInv

\* At the start the queue is empty, and nothing has been put in or taken out.
LEMMA InitView == Init => ViewInv /\ Queue!Init
  <1> SUFFICES ASSUME Init
               PROVE  ViewInv /\ Queue!Init
    OBVIOUS
  <1>1. Inv
    BY InitInv
  <1>2. /\ Preparing = {} /\ Retiring = {} /\ List = {head} /\ Swapping = {} /\ Taken = 0
        /\ head \in Nodes /\ next[head] = Null
    BY <1>1 DEF Inv, TypeOK, Init, WorkersInit, Preparing, Retiring, List, Swapping, Taken
  <1>3. DataInv
    BY <1>2 DEF DataInv
  <1>4. ChainInv
    <2> DEFINE f == [k \in 0 .. 0 |-> head]
    <2>1. f \in [0 .. 0 -> List] /\ f \in [0 .. 0 -> Nodes] /\ f[0] = head
      BY <1>2
    <2> HIDE DEF f
    <2>2. Chain(0, f)
      BY <1>2, <2>1 DEF Chain, Links
    <2> QED BY <2>1, <2>2 DEF ChainInv
  <1>5. Seen = <<>>
    BY <1>1, <1>2, <1>4, SeenNone
  <1>6. Counted = [p \in Producers |-> 0]
    BY DEF Init, WorkersInit, Counted
  <1> QED BY <1>1, <1>3, <1>4, <1>5, <1>6 DEF ViewInv, Init, Queue!Init, Seen, Counted

\* A step the threads of the queue do not see.
LEMMA Unseen ==
  ASSUME Seen' = Seen, Counted' = Counted, result' = result
  PROVE  [Queue!Next]_(Queue!vars)
  BY DEF Queue!vars, Seen, Counted

\* A step of a thread outside the places the queue is about, or about to be.
LEMMA QuietStep ==
  ASSUME ViewInv, Inv', NEW t \in Threads, pc' = [pc EXCEPT ![t] = pc'[t]],
         UNCHANGED <<n, data, next, head, new_node, result>>,
         List' = List, Preparing' = Preparing, Swapping' = Swapping,
         pc[t] \in {"move_tail", "unlock_tail"} <=> pc'[t] \in {"move_tail", "unlock_tail"}
  PROVE  ChainInv' /\ DataInv' /\ [Queue!Next]_(Queue!vars)
  <1>1. Taken' = Taken
    BY DEF Taken
  <1>2. ChainInv' /\ Seen' = Seen
    BY <1>1, SeenKept DEF ViewInv
  <1>3. DataInv'
    BY DEF ViewInv, DataInv
  <1>4. Counted' = Counted
    BY Types DEF ViewInv, Inv, Counted
  <1> QED BY <1>2, <1>3, <1>4, Unseen

\* Getting a thread to its loop is no operation of the queue.
LEMMA StartView ==
  ASSUME ViewInv, Inv', NEW t \in Threads, Start(t)
  PROVE  ChainInv' /\ DataInv' /\ [Queue!Next]_(Queue!vars)
  <1> USE Types DEF ViewInv, Inv
  <1>1. /\ pc[t] \in {"none", "start", "barrier"}
        /\ pc' = [pc EXCEPT ![t] = pc'[t]] /\ pc'[t] \in {"start", "barrier", "loop"}
        /\ UNCHANGED <<n, heapVars, listVars, locks, new_node, popLocals>>
    BY DEF Start, StartUp, Create, Arrive, PassBarrier, Goto
  <1>2. UNCHANGED <<n, allocated, data, next, head, new_node, current_head, result>>
    BY <1>1 DEF heapVars, listVars, popLocals
  <1>3. Preparing' = Preparing /\ Retiring' = Retiring /\ Swapping' = Swapping
    BY <1>1 DEF Preparing, Retiring, Swapping
  <1>4. List' = List
    BY <1>2, <1>3 DEF List
  <1> QED BY <1>1, <1>2, <1>3, <1>4, QuietStep

\* Linking its node is what makes an enqueue take effect.
LEMMA EnqueueView ==
  ASSUME ViewInv, Inv', NEW p \in Producers,
         Allocate(p) \/ LockTail(p) \/ Link(p) \/ MoveTail(p) \/ UnlockTail(p)
  PROVE  ChainInv' /\ DataInv' /\ [Queue!Next]_(Queue!vars)
  <1> USE DEF Goto, Step, heapVars, listVars, locks, popLocals
  <1>0. p \notin Consumers /\ p \in Threads
    OBVIOUS
  <1>a. /\ Inv /\ TypeOK /\ LoopInv /\ MutexInv /\ OwnInv /\ TailInv
        /\ ChainInv /\ DataInv
    BY DEF ViewInv, Inv
  <1> USE <1>a, Types, ListFacts
  <1>1. CASE Allocate(p)
    <2>1. PICK x \in Nodes \ allocated :
            /\ allocated' = allocated \cup {x}
            /\ data' = [data EXCEPT ![x] = <<p, n[p]>>]
            /\ next' = [next EXCEPT ![x] = Null]
            /\ new_node' = [new_node EXCEPT ![p] = x]
      BY <1>1 DEF Allocate
    <2>2. /\ pc[p] = "loop" /\ pc' = [pc EXCEPT ![p] = "lock_tail"]
          /\ UNCHANGED <<n, head, current_head, result>>
      BY <1>1 DEF Allocate
    <2> HIDE <1>1
    <2>3. /\ Preparing' = Preparing \cup {p} /\ p \notin Preparing /\ Retiring' = Retiring
          /\ Swapping' = Swapping
      BY <1>0, <2>2 DEF Preparing, Retiring, Swapping
    <2>4. List' = List
      BY <2>1, <2>2, <2>3 DEF List, OwnInv
    <2>5. \A y \in allocated : next'[y] = next[y] /\ data'[y] = data[y]
      BY <2>1 DEF TypeOK
    <2>6. Taken' = Taken
      BY <2>3 DEF Taken
    <2>7. ChainInv' /\ Seen' = Seen
      BY <2>2, <2>4, <2>5, <2>6, SeenKept
    <2>8. DataInv'
      <3>1. data'[x] = <<p, n[p]>>
        BY <2>1 DEF TypeOK
      <3>2. \A q \in Preparing : data'[new_node[q]] = <<q, n[q]>>
        BY <2>5 DEF OwnInv, DataInv
      <3>3. new_node'[p] = x /\ \A q \in Preparing : new_node'[q] = new_node[q]
        BY <2>1, <2>3 DEF Preparing
      <3>4. \A q \in Preparing \cup {p} : data'[new_node'[q]] = <<q, n[q]>>
        BY <3>1, <3>2, <3>3
      <3> QED BY <2>2, <2>3, <3>4 DEF DataInv
    <2>9. Counted' = Counted
      BY <2>2 DEF Counted
    <2> QED BY <2>2, <2>7, <2>8, <2>9, Unseen
  <1>2. CASE LockTail(p) \/ MoveTail(p)
    <2>1. /\ \/ pc[p] = "lock_tail" /\ pc'[p] = "link"
             \/ pc[p] = "move_tail" /\ pc'[p] = "unlock_tail"
          /\ pc' = [pc EXCEPT ![p] = pc'[p]]
          /\ UNCHANGED <<n, allocated, data, next, head, new_node, current_head, result>>
      BY <1>2 DEF LockTail, MoveTail
    <2>2. Preparing' = Preparing /\ Retiring' = Retiring /\ Swapping' = Swapping
      BY <1>0, <2>1 DEF Preparing, Retiring, Swapping
    <2>3. List' = List
      BY <2>1, <2>2 DEF List
    <2> QED BY <1>0, <2>1, <2>2, <2>3, QuietStep
  <1>3. CASE Link(p)
    <2> DEFINE x == new_node[p]
    <2>1. /\ pc[p] = "link" /\ pc' = [pc EXCEPT ![p] = "move_tail"]
          /\ next' = [next EXCEPT ![tail] = x]
          /\ UNCHANGED <<n, allocated, data, head, new_node, current_head, result>>
      BY <1>3 DEF Link
    <2> HIDE <1>3
    <2>2. /\ p \in Preparing /\ x \in allocated /\ next[x] = Null /\ x \notin List
          /\ x \in Nodes /\ data[x] = <<p, n[p]>>
      BY <2>1 DEF Preparing, OwnInv, DataInv
    <2>3. tail \in List /\ next[tail] = Null
      BY <1>0, <2>1 DEF MutexInv, TailInv
    <2> HIDE DEF x
    <2>4. Preparing' = Preparing \ {p} /\ Retiring' = Retiring /\ Swapping' = Swapping
      BY <1>0, <2>1 DEF Preparing, Retiring, Swapping
    <2>5. List' = List \cup {x}
      BY <2>1, <2>2, <2>4 DEF List, OwnInv, x
    <2>6. Taken' = Taken
      BY <2>4 DEF Taken
    <2>7. ChainInv' /\ Seen' = Append(Seen, <<p, n[p]>>)
      BY <2>1, <2>2, <2>3, <2>5, <2>6, SeenLonger
    <2>8. DataInv'
      BY <2>1, <2>4 DEF DataInv
    <2>9. n[p] < Iterations /\ Counted[p] = n[p] /\ Counted' = [Counted EXCEPT ![p] = @ + 1]
      BY <1>0, <2>1 DEF Counted, LoopInv
    <2>10. Queue!Enqueue(p)
      BY <2>1, <2>7, <2>9 DEF Queue!Enqueue, Seen, Counted
    <2> QED BY <2>7, <2>8, <2>10 DEF Queue!Next
  <1>4. CASE UnlockTail(p)
    <2>1. /\ pc[p] = "unlock_tail" /\ pc' = [pc EXCEPT ![p] = pc'[p]]
          /\ pc'[p] \in {"loop", "done"} /\ n' = [n EXCEPT ![p] = @ + 1]
          /\ UNCHANGED <<allocated, data, next, head, new_node, current_head, result>>
      BY <1>4 DEF UnlockTail, NextIteration, After
    <2>2. /\ Preparing' = Preparing /\ Retiring' = Retiring /\ Swapping' = Swapping
          /\ p \notin Preparing
      BY <1>0, <2>1 DEF Preparing, Retiring, Swapping
    <2>3. List' = List /\ Taken' = Taken
      BY <2>1, <2>2 DEF List, Taken
    <2>4. ChainInv' /\ Seen' = Seen
      BY <2>1, <2>3, SeenKept
    <2>5. DataInv'
      BY <2>1, <2>2 DEF DataInv
    <2>6. Counted' = Counted
      BY <1>0, <2>1 DEF Counted
    <2> QED BY <2>1, <2>4, <2>5, <2>6, Unseen
  <1> QED BY <1>1, <1>2, <1>3, <1>4

\* Copying the data is what makes a dequeue take effect; a dequeue that finds no
\* next node finds the queue empty.
LEMMA DequeueView ==
  ASSUME ViewInv, Inv', NEW c \in Consumers,
         \/ LockHead(c) \/ LoadHead(c) \/ LoadNext(c) \/ Copy(c) \/ SwapHead(c)
         \/ UnlockHead(c) \/ Delete(c) \/ ReturnEmpty(c)
  PROVE  ChainInv' /\ DataInv' /\ [Queue!Next]_(Queue!vars)
  <1> USE DEF Goto, Step, heapVars, listVars, locks, popLocals
  <1>0. c \notin Producers /\ c \in Threads
    OBVIOUS
  <1>a. /\ Inv /\ TypeOK /\ MutexInv /\ OwnInv /\ ListInv /\ HeadInv
        /\ ChainInv /\ DataInv
    BY DEF ViewInv, Inv
  <1> USE <1>a, Types, ListFacts
  <1>1. CASE LockHead(c) \/ LoadHead(c) \/ UnlockHead(c)
    <2>1. /\ \/ pc[c] = "loop" /\ pc'[c] = "load_head"
             \/ pc[c] = "load_head" /\ pc'[c] = "load_next"
             \/ pc[c] = "unlock_head" /\ pc'[c] = "delete"
          /\ pc' = [pc EXCEPT ![c] = pc'[c]]
          /\ UNCHANGED <<n, allocated, data, next, head, new_node, result>>
          /\ \A d \in Consumers : d # c => current_head'[d] = current_head[d]
          /\ pc[c] = "unlock_head" => current_head' = current_head
      BY <1>1 DEF LockHead, LoadHead, UnlockHead
    <2>2. Preparing' = Preparing /\ Retiring' = Retiring /\ Swapping' = Swapping
      BY <1>0, <2>1 DEF Preparing, Retiring, Swapping
    <2>3. \A d \in Retiring : current_head'[d] = current_head[d]
      BY <2>1 DEF Retiring
    <2>4. List' = List
      BY <2>1, <2>2, <2>3 DEF List
    <2> QED BY <1>0, <2>1, <2>2, <2>4, QuietStep
  <1>2. CASE LoadNext(c)
    <2>1. /\ pc[c] = "load_next" /\ current_head[c] = head
          /\ pc' = [pc EXCEPT ![c] = IF next[head] = Null THEN "unlock_empty" ELSE "copy"]
          /\ result' = IF next[head] = Null THEN [result EXCEPT ![c] = Nothing] ELSE result
          /\ UNCHANGED <<n, allocated, data, next, head, new_node, current_head>>
      BY <1>2 DEF LoadNext, HeadInv
    <2>2. Preparing' = Preparing /\ Retiring' = Retiring /\ Swapping' = Swapping
      BY <1>0, <2>1 DEF Preparing, Retiring, Swapping
    <2>3. List' = List /\ Taken' = Taken
      BY <2>1, <2>2 DEF List, Taken
    <2>4. ChainInv' /\ Seen' = Seen
      BY <2>1, <2>3, SeenKept
    <2>5. DataInv'
      BY <2>1, <2>2 DEF DataInv
    <2>6. Counted' = Counted
      BY <1>0, <2>1 DEF Counted
    <2>7. CASE next[head] # Null
      BY <2>1, <2>4, <2>5, <2>6, <2>7, Unseen
    <2>8. CASE next[head] = Null
      <3>1. Taken = 0
        BY <1>0, <2>1 DEF Taken, Swapping, MutexInv
      <3>2. Seen = <<>>
        BY <2>8, <3>1, SeenNone
      <3>3. Queue!Miss(c)
        BY <2>1, <2>4, <2>6, <2>8, <3>2 DEF Queue!Miss, Seen, Counted
      <3> QED BY <2>4, <2>5, <3>3 DEF Queue!Next
    <2> QED BY <2>7, <2>8
  <1>3. CASE Copy(c)
    <2>1. /\ pc[c] = "copy" /\ pc' = [pc EXCEPT ![c] = "swap_head"]
          /\ new_head[c] = next[head] /\ next[head] # Null
          /\ result' = [result EXCEPT ![c] = data[next[head]]]
          /\ UNCHANGED <<n, allocated, data, next, head, new_node, current_head>>
      BY <1>3 DEF Copy, HeadInv
    <2>2. Preparing' = Preparing /\ Retiring' = Retiring
      BY <1>0, <2>1 DEF Preparing, Retiring
    <2>3. Taken = 0 /\ Taken' = 1
      <3>1. Swapping = {}
        BY <1>0, <2>1 DEF Swapping, MutexInv
      <3>2. Swapping' # {}
        BY <1>0, <2>1 DEF Swapping
      <3> QED BY <3>1, <3>2 DEF Taken
    <2>4. List' = List
      BY <2>1, <2>2 DEF List
    <2>5. /\ ChainInv'
          /\ Seen # <<>> /\ Head(Seen) = data[next[head]] /\ Seen' = Tail(Seen)
      BY <2>1, <2>3, <2>4, SeenFewer
    <2>6. DataInv'
      BY <2>1, <2>2 DEF DataInv
    <2>7. Counted' = Counted
      BY <1>0, <2>1 DEF Counted
    <2>8. Queue!Dequeue(c)
      BY <2>1, <2>5, <2>7 DEF Queue!Dequeue, Seen, Counted
    <2> QED BY <2>5, <2>6, <2>8 DEF Queue!Next
  <1>4. CASE SwapHead(c)
    <2>1. /\ pc[c] = "swap_head" /\ pc' = [pc EXCEPT ![c] = "unlock_head"]
          /\ current_head[c] = head /\ next[head] # Null /\ head' = next[head]
          /\ UNCHANGED <<n, allocated, data, next, new_node, current_head, result>>
      BY <1>4 DEF SwapHead, HeadInv
    <2>2. /\ Preparing' = Preparing /\ Retiring' = Retiring \cup {c} /\ c \notin Retiring
      BY <1>0, <2>1 DEF Preparing, Retiring
    <2>3. Taken = 1 /\ Taken' = 0
      <3>1. Swapping = {c}
        BY <1>0, <2>1 DEF Swapping, MutexInv
      <3>2. Swapping' = {}
        BY <1>0, <2>1, <3>1 DEF Swapping
      <3> QED BY <3>1, <3>2 DEF Taken
    <2>4. List' = List \ {head}
      BY <2>1, <2>2 DEF List, ListInv
    <2>5. ChainInv' /\ Seen' = Seen
      BY <2>1, <2>3, <2>4, SeenShifted
    <2>6. DataInv'
      BY <2>1, <2>2 DEF DataInv
    <2>7. Counted' = Counted
      BY <1>0, <2>1 DEF Counted
    <2> QED BY <2>1, <2>5, <2>6, <2>7, Unseen
  <1>5. CASE Delete(c) \/ ReturnEmpty(c)
    <2>1. /\ pc[c] \in {"delete", "unlock_empty"} /\ pc' = [pc EXCEPT ![c] = pc'[c]]
          /\ pc'[c] \in {"loop", "done"} /\ n' = [n EXCEPT ![c] = @ + 1]
          /\ allocated' = IF pc[c] = "delete" THEN allocated \ {current_head[c]} ELSE allocated
          /\ UNCHANGED <<data, next, head, new_node, current_head, result>>
      BY <1>5 DEF Delete, Deleted, ReturnEmpty, NextIteration, After
    <2>2. /\ Preparing' = Preparing /\ Swapping' = Swapping
          /\ Retiring' = Retiring \ {c} /\ (pc[c] = "delete" <=> c \in Retiring)
      BY <1>0, <2>1 DEF Preparing, Retiring, Swapping
    <2>3. List' = List
      BY <2>1, <2>2 DEF List, OwnInv
    <2>4. Taken' = Taken
      BY <2>2 DEF Taken
    <2>5. ChainInv' /\ Seen' = Seen
      BY <2>1, <2>3, <2>4, SeenKept
    <2>6. DataInv'
      <3>1. \A p \in Preparing : n'[p] = n[p]
        BY <1>0, <2>1 DEF Preparing
      <3> QED BY <2>1, <2>2, <3>1 DEF DataInv
    <2>7. Counted' = Counted
      BY <1>0, <2>1 DEF Counted
    <2> QED BY <2>1, <2>5, <2>6, <2>7, Unseen
  <1> QED BY <1>1, <1>2, <1>3, <1>4, <1>5

\* Every step is one operation of the queue or none.
LEMMA NextView == ViewInv /\ [Next]_vars => ViewInv' /\ [Queue!Next]_(Queue!vars)
  <1> SUFFICES ASSUME ViewInv, [Next]_vars
               PROVE  ViewInv' /\ [Queue!Next]_(Queue!vars)
    OBVIOUS
  <1>0. Inv'
    BY NextInv DEF ViewInv
  <1> SUFFICES ChainInv' /\ DataInv' /\ [Queue!Next]_(Queue!vars)
    BY <1>0 DEF ViewInv
  <1>1. ASSUME NEW p \in Producers, Producer(p)
        PROVE  ChainInv' /\ DataInv' /\ [Queue!Next]_(Queue!vars)
    BY <1>0, <1>1, StartView, EnqueueView DEF Producer
  <1>2. ASSUME NEW c \in Consumers, Consumer(c)
        PROVE  ChainInv' /\ DataInv' /\ [Queue!Next]_(Queue!vars)
    BY <1>0, <1>2, StartView, DequeueView DEF Consumer
  <1>3. CASE Join \/ UNCHANGED vars
    <2>1. UNCHANGED <<pc, n, allocated, data, next, head, new_node, current_head, new_head, result>>
      BY <1>3 DEF Join, JoinAll, vars, workerVars, heapVars, listVars, popLocals
    <2>2. /\ Preparing' = Preparing /\ Retiring' = Retiring /\ List' = List /\ Taken' = Taken
          /\ Counted' = Counted
      BY <2>1 DEF Preparing, Retiring, List, Taken, Swapping, Counted
    <2>3. ChainInv' /\ Seen' = Seen
      BY <1>0, <2>1, <2>2, SeenKept DEF ViewInv
    <2>4. DataInv'
      BY <2>1, <2>2 DEF ViewInv, DataInv
    <2> QED BY <2>1, <2>2, <2>3, <2>4, Unseen
  <1> QED BY <1>1, <1>2, <1>3 DEF Next, Returned

\* enqueue and dequeue are the operations of a FIFO queue, for any number of
\* threads and wherever new finds its memory.
THEOREM Refinement == Spec => ImplementsQueue
  BY InitView, NextView, PTL DEF Spec, ImplementsQueue, Queue!Spec

=============================================================================
