------------------------------ MODULE MpmcQueue ------------------------------
(***************************************************************************)
(* What both multi-producer multi-consumer queues promise their threads: a *)
(* FIFO queue whose operations take effect at one instant each.  The       *)
(* element <<p, k>> is the one producer p puts in in iteration k.          *)
(***************************************************************************)
EXTENDS Naturals, Sequences

CONSTANTS Producers, Consumers, Iterations, Nothing

VARIABLES
  queue,      \* elements put in and not yet taken out, oldest first
  enqueued,   \* enqueued[p]: number of elements p has put in
  result      \* result[c]: what the last operation of c gave it

vars == <<queue, enqueued, result>>

Init ==
  /\ queue = <<>>
  /\ enqueued = [p \in Producers |-> 0]
  /\ result = [c \in Consumers |-> Nothing]

Enqueue(p) ==
  /\ enqueued[p] < Iterations
  /\ queue' = Append(queue, <<p, enqueued[p]>>)
  /\ enqueued' = [enqueued EXCEPT ![p] = @ + 1]
  /\ UNCHANGED result

Dequeue(c) ==
  /\ queue # <<>>
  /\ result' = [result EXCEPT ![c] = Head(queue)]
  /\ queue' = Tail(queue)
  /\ UNCHANGED enqueued

\* A dequeue that does not wait reports an empty queue, and only an empty one.
Miss(c) ==
  /\ queue = <<>>
  /\ result' = [result EXCEPT ![c] = Nothing]
  /\ UNCHANGED <<queue, enqueued>>

Next ==
  \/ \E p \in Producers : Enqueue(p)
  \/ \E c \in Consumers : Dequeue(c) \/ Miss(c)

Spec == Init /\ [][Next]_vars

=============================================================================
