----------------------------- MODULE LocklessRing -----------------------------
(***************************************************************************)
(* The lock-free ring of concurrency_spsc_ringbuffer_queue: two atomic     *)
(* indices kept modulo the size of the buffer, one slot always left empty  *)
(* so that a full ring and an empty ring look different.  All loads and    *)
(* stores of the indices are sequentially consistent, so the threads       *)
(* interleave access by access; the slots are plain memory.                *)
(*                                                                         *)
(* One action per access to shared memory.  The label of a thread is the   *)
(* access it performs next.                                                *)
(***************************************************************************)
EXTENDS Naturals, Sequences

CONSTANTS
  Size,           \* RING_BUFFER_SIZE
  Pushes,         \* iterations of each thread's loop in main
  Indeterminate   \* content of a slot or of a local nobody has written

ASSUME SizeAssumption == Size \in Nat \ {0}
ASSUME PushesAssumption == Pushes \in Nat \ {0}

VARIABLES
  write, read,    \* the atomic indices
  buffer,         \* the slots
  ppc, i, tail,   \* producer: next access, loop counter, current_tail
  cpc, j, head,   \* consumer: next access, loop counter, currentHead
  ret             \* consumer: what the last try_pop copied out

prodVars == <<ppc, i, tail>>
consVars == <<cpc, j, head, ret>>
vars == <<write, read, buffer, prodVars, consVars>>

Slots == 0 .. Size - 1

ProducerLabels == {"load_write", "load_read", "store_buffer", "store_write", "done"}
ConsumerLabels == {"load_read", "load_write", "load_buffer", "store_read", "done"}

TypeOK ==
  /\ write \in Slots
  /\ read \in Slots
  /\ buffer \in [Slots -> Nat \cup {Indeterminate}]
  /\ ppc \in ProducerLabels
  /\ i \in 0 .. Pushes
  /\ tail \in Slots
  /\ cpc \in ConsumerLabels
  /\ j \in 0 .. Pushes
  /\ head \in Slots
  /\ ret \in Nat \cup {Indeterminate}

Init ==
  /\ write = 0
  /\ read = 0
  /\ buffer = [s \in Slots |-> Indeterminate]
  /\ ppc = "load_write" /\ i = 0 /\ tail = 0
  /\ cpc = "load_read" /\ j = 0 /\ head = 0 /\ ret = Indeterminate

-----------------------------------------------------------------------------
incrementNoWrap(n) == n + 1        \* mutant: index never wraps
increment(n) == (n + 1) % Size

(***************************************************************************)
(* Producer: push(i) repeats try_push(i) until it succeeds.                *)
(***************************************************************************)
PushLoadWrite ==
  /\ ppc = "load_write"
  /\ tail' = write
  /\ ppc' = "load_read"
  /\ UNCHANGED <<write, read, buffer, i, consVars>>

HasRoomUnchecked == TRUE           \* mutant: no test for a full ring
HasRoomConfused == tail # read     \* mutant: no reserved slot, empty looks full
HasRoomOneShort == increment(increment(tail)) # read  \* mutant: gives up early
\* try_push found room for one more value.
HasRoom == increment(tail) # read

PushLoadRead ==
  /\ ppc = "load_read"
  /\ ppc' = IF HasRoom THEN "store_buffer" ELSE "load_write"
  /\ UNCHANGED <<write, read, buffer, i, tail, consVars>>

PushStoreBuffer ==
  /\ ppc = "store_buffer"
  /\ buffer' = [buffer EXCEPT ![tail] = i]
  /\ ppc' = "store_write"
  /\ UNCHANGED <<write, read, i, tail, consVars>>

\* Publishing makes the slot visible; then the for loop goes on or ends.
PushStoreWrite ==
  /\ ppc = "store_write"
  /\ write' = increment(tail)
  /\ i' = i + 1
  /\ ppc' = IF i + 1 < Pushes THEN "load_write" ELSE "done"
  /\ UNCHANGED <<read, buffer, tail, consVars>>

(***************************************************************************)
(* Consumer: pop() repeats try_pop(&ret) until it succeeds.                *)
(***************************************************************************)
PopLoadRead ==
  /\ cpc = "load_read"
  /\ head' = read
  /\ cpc' = "load_write"
  /\ UNCHANGED <<write, read, buffer, prodVars, j, ret>>

\* try_pop found nothing to take.
IsEmpty == head = write

PopLoadWrite ==
  /\ cpc = "load_write"
  /\ cpc' = IF IsEmpty THEN "load_read" ELSE "load_buffer"
  /\ UNCHANGED <<write, read, buffer, prodVars, j, head, ret>>

PopLoadBuffer ==
  /\ cpc = "load_buffer"
  /\ ret' = buffer[head]
  /\ cpc' = "store_read"
  /\ UNCHANGED <<write, read, buffer, prodVars, j, head>>

PopStoreRead ==
  /\ cpc = "store_read"
  /\ read' = increment(head)
  /\ j' = j + 1
  /\ cpc' = IF j + 1 < Pushes THEN "load_read" ELSE "done"
  /\ UNCHANGED <<write, buffer, prodVars, head, ret>>

-----------------------------------------------------------------------------
Producer == PushLoadWrite \/ PushLoadRead \/ PushStoreBuffer \/ PushStoreWrite
Consumer == PopLoadRead \/ PopLoadWrite \/ PopLoadBuffer \/ PopStoreRead

\* Both joins of main have returned.
Joined == ppc = "done" /\ cpc = "done" /\ UNCHANGED vars

Next == Producer \/ Consumer \/ Joined

Spec == Init /\ [][Next]_vars

\* Both threads are runnable all the time: neither ever blocks, and the
\* scheduler runs every runnable thread again and again.
FairSpec == Spec /\ WF_vars(Producer) /\ WF_vars(Consumer)

-----------------------------------------------------------------------------
\* try_push writes a slot and try_pop reads a slot without any lock; the two
\* never reach for the same slot at the same time, so the plain int64_t slots
\* have no data race although full and empty are told apart by indices only.
RaceFree == ~(ppc = "store_buffer" /\ cpc = "load_buffer" /\ tail = head)

\* The pop numbered j hands out the value numbered j: nothing is lost,
\* duplicated, reordered or read before it was written, however try_push and
\* try_pop interleave and however often the indices have wrapped.
Fifo == cpc = "store_read" => ret = j

\* The comparisons of wrapped indices mean what try_push and try_pop take
\* them for: try_push refuses only when Size - 1 values are in the ring, and
\* try_pop reports empty only when every published value has been taken.
FailsOnlyAtTheLimit ==
  /\ ppc = "load_read" /\ ~HasRoom => i - j = Size - 1
  /\ cpc = "load_write" /\ IsEmpty => i = j

\* The ring seen as a queue.  A push takes effect when it stores write, a pop
\* when it has copied the slot.
Taken == IF cpc = "store_read" THEN j + 1 ELSE j

Contents == [k \in 1 .. i - Taken |-> buffer[(Taken + k - 1) % Size]]

Queue == INSTANCE SpscQueue WITH
           Capacity <- Size - 1, queue <- Contents, pushed <- i, out <- ret

\* The ring is a FIFO queue of capacity Size - 1 to its two threads: every
\* try_push and try_pop that succeeds is one atomic push or pop of it.
ImplementsQueue == Queue!Spec

\* main returns: both loops end, although each try can fail any number of
\* times (needs at least two slots).
Terminates == <>(ppc = "done" /\ cpc = "done")

=============================================================================
