------------------------------ MODULE CounterRing ------------------------------
(***************************************************************************)
(* The two lock-free rings of lockless_spsc_sequantial_vs_acquirerelease:  *)
(* ever-growing atomic counters, reduced modulo the size only to index the *)
(* buffer, every slot used.  The two programs are the same code with       *)
(* different memory_order arguments; order says which one runs.            *)
(*                                                                         *)
(* Memory model.  Each counter is stored by one thread only, so its        *)
(* modification order is 0, 1, 2, ...  A thread's own counter reads as     *)
(* stored.  A sequentially consistent load of the other counter returns    *)
(* the newest value; an acquire load may return any value not older than   *)
(* one the thread has read before (coherence).  An acquire load that reads *)
(* the release store of value v makes everything the other thread did      *)
(* before that store happen before what follows the load: that is its slot *)
(* accesses numbered below v.                                              *)
(***************************************************************************)
EXTENDS Integers, Sequences

CONSTANTS
  Size,           \* RING_BUFFER_SIZE
  Pushes,         \* iterations of each thread's loop in main
  IntMax,         \* largest int, the type of increment's parameter
  Indeterminate   \* content of a slot or of a local nobody has written

ASSUME SizeAssumption == Size \in Nat \ {0}
ASSUME PushesAssumption == Pushes \in Nat \ {0}
\* main pushes 1 000 000 values, far below the largest int.
ASSUME IntAssumption == IntMax \in Nat /\ Pushes <= IntMax

VARIABLES
  order,            \* which of the two programs: "seq_cst" or "acq_rel"
  write, read,      \* newest value of each atomic counter
  buffer,           \* the slots, plain memory
  ppc, i, tail,     \* producer: next access, loop counter, current_tail
  seenRead,         \* producer: newest value of read it has loaded
  hbReads,          \* producer: slot reads known to have happened before
  cpc, j, head,     \* consumer: next access, loop counter, currentHead
  seenWrite,        \* consumer: newest value of write it has loaded
  hbWrites,         \* consumer: slot writes known to have happened before
  ret               \* consumer: what the last try_pop copied out

shared == <<write, read, buffer>>
prodVars == <<ppc, i, tail, seenRead, hbReads>>
consVars == <<cpc, j, head, seenWrite, hbWrites, ret>>
vars == <<order, shared, prodVars, consVars>>

Slots == 0 .. Size - 1
Values == 0 .. Pushes - 1
ProducerLabels == {"load_write", "load_read", "store_buffer", "store_write", "done"}
ConsumerLabels == {"load_read", "load_write", "load_buffer", "store_read", "done"}

TypeOK ==
  /\ order \in {"seq_cst", "acq_rel"}
  /\ {write, read, i, tail, seenRead, hbReads, j, head, seenWrite, hbWrites}
       \subseteq 0 .. Pushes
  /\ buffer \in [Slots -> Values \cup {Indeterminate}]
  /\ ppc \in ProducerLabels
  /\ cpc \in ConsumerLabels
  /\ ret \in Values \cup {Indeterminate}

Init ==
  /\ order \in {"seq_cst", "acq_rel"}
  /\ write = 0 /\ read = 0
  /\ buffer = [s \in Slots |-> Indeterminate]
  /\ ppc = "load_write" /\ i = 0 /\ tail = 0 /\ seenRead = 0 /\ hbReads = 0
  /\ cpc = "load_read" /\ j = 0 /\ head = 0 /\ seenWrite = 0 /\ hbWrites = 0
  /\ ret = Indeterminate

-----------------------------------------------------------------------------
\* int64_t to int keeps the value modulo the width of int.
ToInt(n) == ((n + IntMax + 1) % (2 * IntMax + 2)) - (IntMax + 1)

\* mutant: the parameter is one bit narrower than an int
incrementNarrow(n) ==
  LET half == (IntMax + 1) \div 2 IN ((n + half) % (2 * half)) - half + 1
\* The parameter is an int although the counters are int64_t.
increment(n) == ToInt(ToInt(n) + 1)

SeqCstLoad(newest) == {newest}
AcquireLoad(seen, newest) == seen .. newest
Loaded(seen, newest) ==
  IF order = "seq_cst" THEN SeqCstLoad(newest) ELSE AcquireLoad(seen, newest)

\* mutant: memory_order_relaxed, nothing is ordered by the load
SynchronisedRelaxed(known, v) == known
\* What is known to have happened before, after an acquire load read v.
Synchronised(known, v) == IF v > known THEN v ELSE known

(***************************************************************************)
(* Producer: push(i) repeats try_push(i) until it succeeds.                *)
(***************************************************************************)
PushLoadWrite ==
  /\ ppc = "load_write"
  /\ tail' = write
  /\ ppc' = "load_read"
  /\ UNCHANGED <<order, shared, i, seenRead, hbReads, consVars>>

HasRoomUnchecked(r) == TRUE              \* mutant: no test for a full ring
HasRoom(r) == tail - r <= Size - 1

PushLoadRead ==
  /\ ppc = "load_read"
  /\ \E r \in Loaded(seenRead, read) :
       /\ seenRead' = r
       /\ hbReads' = Synchronised(hbReads, r)
       /\ ppc' = IF HasRoom(r) THEN "store_buffer" ELSE "load_write"
  /\ UNCHANGED <<order, shared, i, tail, consVars>>

PushStoreBuffer ==
  /\ ppc = "store_buffer"
  /\ buffer' = [buffer EXCEPT ![tail % Size] = i]
  /\ ppc' = "store_write"
  /\ UNCHANGED <<order, write, read, i, tail, seenRead, hbReads, consVars>>

PushStoreWrite ==
  /\ ppc = "store_write"
  /\ write' = increment(tail)
  /\ i' = i + 1
  /\ ppc' = IF i + 1 < Pushes THEN "load_write" ELSE "done"
  /\ UNCHANGED <<order, read, buffer, tail, seenRead, hbReads, consVars>>

(***************************************************************************)
(* Consumer: pop() repeats try_pop(&ret) until it succeeds.                *)
(***************************************************************************)
PopLoadRead ==
  /\ cpc = "load_read"
  /\ head' = read
  /\ cpc' = "load_write"
  /\ UNCHANGED <<order, shared, prodVars, j, seenWrite, hbWrites, ret>>

IsEmptyTooEarly(w) == head + 1 >= w      \* mutant: off by one
IsEmpty(w) == head = w

PopLoadWrite ==
  /\ cpc = "load_write"
  /\ \E w \in Loaded(seenWrite, write) :
       /\ seenWrite' = w
       /\ hbWrites' = Synchronised(hbWrites, w)
       /\ cpc' = IF IsEmpty(w) THEN "load_read" ELSE "load_buffer"
  /\ UNCHANGED <<order, shared, prodVars, j, head, ret>>

\* A read of a slot whose write did not happen before is a data race: it may
\* return anything.
PopLoadBuffer ==
  /\ cpc = "load_buffer"
  /\ ret' \in IF head < hbWrites THEN {buffer[head % Size]}
                                 ELSE Values \cup {Indeterminate}
  /\ cpc' = "store_read"
  /\ UNCHANGED <<order, shared, prodVars, j, head, seenWrite, hbWrites>>

PopStoreRead ==
  /\ cpc = "store_read"
  /\ read' = increment(head)
  /\ j' = j + 1
  /\ cpc' = IF j + 1 < Pushes THEN "load_read" ELSE "done"
  /\ UNCHANGED <<order, write, buffer, prodVars, head, seenWrite, hbWrites, ret>>

-----------------------------------------------------------------------------
Producer == PushLoadWrite \/ PushLoadRead \/ PushStoreBuffer \/ PushStoreWrite
Consumer == PopLoadRead \/ PopLoadWrite \/ PopLoadBuffer \/ PopStoreRead

\* Both joins of main have returned.
Joined == ppc = "done" /\ cpc = "done" /\ UNCHANGED vars

Next == Producer \/ Consumer \/ Joined

Spec == Init /\ [][Next]_vars

\* Neither thread blocks, and a store becomes visible to the other thread
\* after finitely many loads: the C++ standard asks implementations for it,
\* and a cache-coherent machine provides it.
Visibility ==
  /\ SF_vars(PushLoadRead /\ seenRead' = read)
  /\ SF_vars(PopLoadWrite /\ seenWrite' = write)

FairSpec == Spec /\ WF_vars(Producer) /\ WF_vars(Consumer) /\ Visibility

-----------------------------------------------------------------------------
\* The orders written in the code suffice: when try_push overwrites a slot,
\* the last read of that slot happened before, and when try_pop reads a slot,
\* its write happened before.  Neither program has a data race on a slot,
\* even when the loads of the other thread's counter return stale values.
RaceFree ==
  /\ ppc = "store_buffer" => tail < hbReads + Size
  /\ cpc = "load_buffer" => head < hbWrites

\* The pop numbered j hands out the value numbered j, in both programs.
Fifo == cpc = "store_read" => ret = j

Taken == IF cpc = "store_read" THEN j + 1 ELSE j

Contents == [k \in 1 .. i - Taken |-> buffer[(Taken + k - 1) % Size]]

Queue == INSTANCE SpscQueue WITH
           Capacity <- Size, queue <- Contents, pushed <- i, out <- ret

\* Both rings are FIFO queues that use all Size slots: a push takes effect
\* when write is stored, a pop when the slot has been copied.
ImplementsQueue == Queue!Spec

\* main returns under both memory orders.
Terminates == <>(ppc = "done" /\ cpc = "done")

=============================================================================
