------------------------------ MODULE SpscQueue ------------------------------
(***************************************************************************)
(* What every single-producer single-consumer ring of the repository       *)
(* promises its two threads: a bounded FIFO queue.  The producer pushes    *)
(* the loop counters 0, 1, 2, ... of its benchmark loop, in that order; a  *)
(* push takes effect at one instant and only below Capacity; a pop takes   *)
(* effect at one instant and hands out the oldest value.                   *)
(***************************************************************************)
EXTENDS Naturals, Sequences

CONSTANTS
  Capacity,       \* how many values the queue holds at most
  Pushes,         \* iterations of the producer's and of the consumer's loop
  Indeterminate   \* the value of an int64_t nobody has written yet

VARIABLES
  queue,          \* values pushed and not yet popped, oldest first
  pushed,         \* number of values pushed so far
  out             \* the value the last pop handed out

vars == <<queue, pushed, out>>

Init ==
  /\ queue = <<>>
  /\ pushed = 0
  /\ out = Indeterminate

Push ==
  /\ pushed < Pushes
  /\ Len(queue) < Capacity
  /\ queue' = Append(queue, pushed)
  /\ pushed' = pushed + 1
  /\ UNCHANGED out

Pop ==
  /\ queue # <<>>
  /\ out' = Head(queue)
  /\ queue' = Tail(queue)
  /\ UNCHANGED pushed

Next == Push \/ Pop

Spec == Init /\ [][Next]_vars

=============================================================================
