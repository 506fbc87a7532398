------------------------------ MODULE LockedRing ------------------------------
(***************************************************************************)
(* The lock based ring of concurrency_spsc_ringbuffer_queue.  A mutex      *)
(* guards plain counters and slots; push and pop never ask whether the     *)
(* ring is full or empty, so each thread runs through its loop at its own  *)
(* speed.  One action per statement of push and pop.                       *)
(***************************************************************************)
EXTENDS Naturals

CONSTANTS
  Size,           \* RING_BUFFER_SIZE
  Pushes,         \* iterations of each thread's loop in main
  Indeterminate   \* content of a slot nobody has written

ASSUME SizeAssumption == Size \in Nat \ {0}
ASSUME PushesAssumption == Pushes \in Nat \ {0}

VARIABLES
  write, read,    \* the counters
  buffer,         \* the slots
  lock,           \* who holds the mutex
  ppc, i,         \* producer: next statement, loop counter
  cpc, j, ret     \* consumer: next statement, loop counter, pop's local

prodVars == <<ppc, i>>
consVars == <<cpc, j, ret>>
vars == <<write, read, buffer, lock, prodVars, consVars>>

Slots == 0 .. Size - 1
Labels == {"lock", "access", "advance", "unlock", "done"}

TypeOK ==
  /\ write \in 0 .. Pushes
  /\ read \in 0 .. Pushes
  /\ buffer \in [Slots -> Nat \cup {Indeterminate}]
  /\ lock \in {"free", "producer", "consumer"}
  /\ ppc \in Labels /\ i \in 0 .. Pushes
  /\ cpc \in Labels /\ j \in 0 .. Pushes
  /\ ret \in Nat \cup {Indeterminate}

Init ==
  /\ write = 0 /\ read = 0
  /\ buffer = [s \in Slots |-> Indeterminate]
  /\ lock = "free"
  /\ ppc = "lock" /\ i = 0
  /\ cpc = "lock" /\ j = 0 /\ ret = Indeterminate

-----------------------------------------------------------------------------
\* mutant: nobody waits for the mutex
LockFreeIgnored == TRUE
LockFree == lock = "free"

\* Where a thread goes with k iterations behind it.
After(k) == IF k < Pushes THEN "lock" ELSE "done"

\* mutant: the slot is one off
PushSlotNext == (write + 1) % Size
PushSlot == write % Size

PushLock ==
  /\ ppc = "lock" /\ LockFree
  /\ lock' = "producer"
  /\ ppc' = "access"
  /\ UNCHANGED <<write, read, buffer, i, consVars>>

PushAccess ==
  /\ ppc = "access"
  /\ buffer' = [buffer EXCEPT ![PushSlot] = i]
  /\ ppc' = "advance"
  /\ UNCHANGED <<write, read, lock, i, consVars>>

PushAdvance ==
  /\ ppc = "advance"
  /\ write' = write + 1
  /\ ppc' = "unlock"
  /\ UNCHANGED <<read, buffer, lock, i, consVars>>

\* Unlocking ends push; the for loop goes on or ends.
PushUnlock ==
  /\ ppc = "unlock"
  /\ lock' = "free"
  /\ i' = i + 1
  /\ ppc' = After(i + 1)
  /\ UNCHANGED <<write, read, buffer, consVars>>

PopLock ==
  /\ cpc = "lock" /\ LockFree
  /\ lock' = "consumer"
  /\ cpc' = "access"
  /\ UNCHANGED <<write, read, buffer, prodVars, j, ret>>

PopAccess ==
  /\ cpc = "access"
  /\ ret' = buffer[read % Size]
  /\ cpc' = "advance"
  /\ UNCHANGED <<write, read, buffer, lock, prodVars, j>>

PopAdvance ==
  /\ cpc = "advance"
  /\ read' = read + 1
  /\ cpc' = "unlock"
  /\ UNCHANGED <<write, buffer, lock, prodVars, j, ret>>

PopUnlock ==
  /\ cpc = "unlock"
  /\ lock' = "free"
  /\ j' = j + 1
  /\ cpc' = After(j + 1)
  /\ UNCHANGED <<write, read, buffer, prodVars, ret>>

-----------------------------------------------------------------------------
Producer == PushLock \/ PushAccess \/ PushAdvance \/ PushUnlock
Consumer == PopLock \/ PopAccess \/ PopAdvance \/ PopUnlock

\* Both joins of main have returned.
Joined == ppc = "done" /\ cpc = "done" /\ UNCHANGED vars

Next == Producer \/ Consumer \/ Joined

Spec == Init /\ [][Next]_vars

-----------------------------------------------------------------------------
\* v is what slot s holds: the newest value pushed into it, or nothing.
NewestIn(v, s) ==
  IF write <= s
  THEN v = Indeterminate
  ELSE v \in 0 .. write - 1 /\ write <= v + Size /\ v % Size = s

\* What pop really promises, whatever the speeds of the two threads: the
\* newest of the values pushed into the slot it looks at, and an
\* indeterminate value if there is none.
PopTakesNewest == cpc = "advance" => NewestIn(ret, read % Size)

\* A pop that runs while the ring is neither empty nor overrun hands out the
\* value pushed under its own number.
FifoWhenPaced ==
  cpc = "advance" /\ read < write /\ write <= read + Size => ret = read

=============================================================================
