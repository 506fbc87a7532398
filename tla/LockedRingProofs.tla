--------------------------- MODULE LockedRingProofs ---------------------------
(***************************************************************************)
(* Proofs about LockedRing, for every size of the buffer and every length  *)
(* of the run.                                                             *)
(***************************************************************************)
EXTENDS LockedRing, Integers, TLAPS

-----------------------------------------------------------------------------
\* Arithmetic of ring indices.

\* The index of a slot, n % size in the code, lies inside the buffer.
LEMMA ModInRange ==
  ASSUME NEW S \in Nat \ {0}, NEW n \in Nat
  PROVE  n % S \in 0 .. S - 1
  OBVIOUS

\* A natural number is its quotient times the divisor plus its remainder.
LEMMA DivMod ==
  ASSUME NEW S \in Nat \ {0}, NEW n \in Nat
  PROVE  /\ n \div S \in Int
         /\ n = S * (n \div S) + (n % S)
  OBVIOUS

\* No multiple of a size lies strictly between 0 and the size.
LEMMA NoMultipleBelow ==
  ASSUME NEW S \in Nat \ {0}, NEW q \in Int, 0 < S * q
  PROVE  S <= S * q
  <1>1. q >= 1
    <2>1. CASE q <= 0
      <3>1. S * q <= 0
        BY <2>1, SMTT(30)
      <3> QED BY <3>1
    <2> QED BY <2>1
  <1>2. PICK d \in Nat : q = 1 + d
    BY <1>1
  <1>3. S * q = S + S * d
    BY <1>2, SMTT(30)
  <1>4. S * d >= 0
    BY SMTT(30)
  <1> QED BY <1>3, <1>4

\* Two positions less than one lap apart fall on different slots, so a
\* writer less than a lap ahead never hits the reader's slot.
LEMMA ModDistinct ==
  ASSUME NEW S \in Nat \ {0}, NEW a \in Nat, NEW b \in Nat, a < b, b - a < S
  PROVE  a % S # b % S
  <1> SUFFICES ASSUME a % S = b % S
               PROVE  FALSE
    OBVIOUS
  <1> DEFINE p == a \div S
             q == b \div S
  <1>1. p \in Int /\ q \in Int /\ a = S * p + (a % S) /\ b = S * q + (a % S)
    BY DivMod
  <1>2. a % S \in Nat
    BY ModInRange
  <1> HIDE DEF p, q
  <1>3. b - a = S * (q - p)
    BY <1>1, <1>2, SMTT(30)
  <1>4. S <= S * (q - p)
    BY <1>1, <1>3, NoMultipleBelow
  <1> QED BY <1>3, <1>4

\* The remainder is the only offset within a lap that leaves a multiple.
LEMMA ModUnique ==
  ASSUME NEW S \in Nat \ {0}, NEW n \in Nat, NEW q \in Int,
         NEW r \in 0 .. S - 1, n = S * q + r
  PROVE  n % S = r
  <1> DEFINE p == n \div S
             m == n % S
  <1>1. p \in Int /\ m \in 0 .. S - 1 /\ n = S * p + m
    BY DivMod, ModInRange
  <1> HIDE DEF p, m
  <1>2. m - r = S * (q - p) /\ r - m = S * (p - q)
    BY <1>1, SMTT(30)
  <1>3. CASE r < m
    BY <1>1, <1>2, <1>3, NoMultipleBelow
  <1>4. CASE m < r
    BY <1>1, <1>2, <1>4, NoMultipleBelow
  <1> QED BY <1>1, <1>3, <1>4 DEF m

\* A position exactly one lap ahead falls on the same slot.
LEMMA ModLap ==
  ASSUME NEW S \in Nat \ {0}, NEW n \in Nat
  PROVE  (n + S) % S = n % S
  <1> DEFINE p == n \div S
             m == n % S
             t == n + S
  <1>1. p \in Int /\ m \in 0 .. S - 1 /\ n = S * p + m
    BY DivMod, ModInRange
  <1> HIDE DEF p, m
  <1>2. t \in Nat /\ p + 1 \in Int /\ t = S * (p + 1) + m
    BY <1>1, SMTT(30)
  <1> HIDE DEF t
  <1>3. t % S = m
    BY <1>1, <1>2, ModUnique
  <1> QED BY <1>3 DEF m, t

\* An index is never larger than the counter it is reduced from.
LEMMA ModBelow ==
  ASSUME NEW S \in Nat \ {0}, NEW n \in Nat
  PROVE  n % S <= n
  <1>1. CASE n < S
    <2>1. n \in 0 .. S - 1 /\ n = S * 0 + n
      BY <1>1
    <2>2. n % S = n
      BY <2>1, ModUnique
    <2> QED BY <2>2
  <1>2. CASE S <= n
    BY <1>2, ModInRange
  <1> QED BY <1>1, <1>2

-----------------------------------------------------------------------------
USE SizeAssumption, PushesAssumption

Critical == {"access", "advance", "unlock"}

\* The mutex keeps push and pop out of each other's critical section and its
\* owner is the thread inside: the plain counters and slots have no race.
MutuallyExclusive ==
  /\ lock = "producer" <=> ppc \in Critical
  /\ lock = "consumer" <=> cpc \in Critical

\* v is what slot s holds once n values have been stored.
Holds(v, s, n) ==
  IF n <= s
  THEN v = Indeterminate
  ELSE v \in 0 .. n - 1 /\ n <= v + Size /\ v % Size = s

\* Values stored: push stores its value one statement before it counts it.
Stored == IF ppc = "advance" THEN write + 1 ELSE write

CountersInv ==
  /\ write = IF ppc = "unlock" THEN i + 1 ELSE i
  /\ read = IF cpc = "unlock" THEN j + 1 ELSE j
  /\ ppc \in {"lock", "access", "advance", "unlock"} => i < Pushes
  /\ cpc \in {"lock", "access", "advance", "unlock"} => j < Pushes

SlotsInv == \A s \in Slots : Holds(buffer[s], s, Stored)

\* pop's local is still what the slot holds, because the mutex keeps push
\* out until pop unlocks.
LocalInv == cpc = "advance" => ret = buffer[read % Size]

Inv == TypeOK /\ MutuallyExclusive /\ CountersInv /\ SlotsInv /\ LocalInv

\* Storing value number n into its slot keeps every slot at its newest value.
LEMMA StoreHolds ==
  ASSUME NEW n \in Nat, NEW b \in [Slots -> Nat \cup {Indeterminate}],
         \A s \in Slots : Holds(b[s], s, n),
         NEW c, c = [b EXCEPT ![n % Size] = n]
  PROVE  \A s \in Slots : Holds(c[s], s, n + 1)
  <1> SUFFICES ASSUME NEW s \in Slots
               PROVE  Holds(c[s], s, n + 1)
    OBVIOUS
  <1>1. n % Size \in Slots /\ n % Size <= n
    BY ModInRange, ModBelow DEF Slots
  <1>2. s \in Nat /\ s < Size
    BY DEF Slots
  <1>3. CASE s = n % Size
    <2>1. c[s] = n
      BY <1>1, <1>3
    <2> QED BY <1>1, <1>2, <1>3, <2>1 DEF Holds
  <1>4. CASE s # n % Size
    <2>1. c[s] = b[s] /\ Holds(b[s], s, n)
      BY <1>1, <1>4
    <2>2. CASE n <= s
      <3>1. n \in 0 .. Size - 1 /\ n = Size * 0 + n
        BY <1>2, <2>2
      <3>2. n % Size = n
        BY <3>1, ModUnique
      <3>3. n + 1 <= s
        BY <1>2, <1>4, <2>2, <3>2
      <3>4. c[s] = Indeterminate
        BY <2>1, <2>2 DEF Holds
      <3> QED BY <3>3, <3>4 DEF Holds
    <2>3. CASE ~(n <= s)
      <3> DEFINE v == b[s]
      <3>1. v \in Nat /\ v < n /\ n <= v + Size /\ v % Size = s
        BY <1>2, <2>1, <2>3 DEF Holds
      <3> HIDE DEF v
      <3>2. n # v + Size
        BY <1>4, <3>1, ModLap
      <3>3. v \in 0 .. n /\ n + 1 <= v + Size /\ ~(n + 1 <= s)
        BY <1>2, <2>3, <3>1, <3>2
      <3> QED BY <2>1, <3>1, <3>3 DEF Holds, v
    <2> QED BY <2>2, <2>3
  <1> QED BY <1>3, <1>4

\* The initialisers establish the invariant.
LEMMA InitInv == Init => Inv
  <1> SUFFICES ASSUME Init
               PROVE  Inv
    OBVIOUS
  <1>1. TypeOK
    BY DEF Init, TypeOK, Labels
  <1>2. MutuallyExclusive /\ CountersInv /\ LocalInv
    BY DEF Init, MutuallyExclusive, Critical, CountersInv, LocalInv
  <1>3. SlotsInv
    BY DEF Init, SlotsInv, Stored, Holds, Slots
  <1> QED BY <1>1, <1>2, <1>3 DEF Inv

\* Every statement of push, pop and main keeps the invariant.
LEMMA NextInv == Inv /\ [Next]_vars => Inv'
  <1> SUFFICES ASSUME Inv, [Next]_vars
               PROVE  Inv'
    OBVIOUS
  <1>0. i \in Nat /\ j \in Nat /\ write \in Nat /\ read \in Nat
    BY DEF Inv, TypeOK
  <1> USE DEF Inv, CountersInv, MutuallyExclusive, Critical, LocalInv, Labels,
              LockFree, After, PushSlot
  <1>1. ASSUME UNCHANGED buffer, Stored' = Stored
        PROVE  SlotsInv'
    BY <1>1 DEF SlotsInv
  <1>2. CASE PushLock
    <2>1. SlotsInv'
      BY <1>1, <1>2 DEF PushLock, Stored
    <2> QED BY <1>0, <1>2, <2>1 DEF PushLock, TypeOK, consVars
  <1>3. CASE PushAccess
    <2> USE <1>3 DEF PushAccess
    <2>1. /\ write = i /\ Stored = i /\ Stored' = i + 1
          /\ buffer \in [Slots -> Nat \cup {Indeterminate}]
          /\ buffer' = [buffer EXCEPT ![i % Size] = i]
      BY DEF Stored, TypeOK
    <2>2. SlotsInv'
      BY <1>0, <2>1, StoreHolds DEF SlotsInv
    <2>3. buffer' \in [Slots -> Nat \cup {Indeterminate}]
      BY <1>0, <2>1
    <2> QED BY <1>0, <2>1, <2>2, <2>3 DEF TypeOK, consVars
  <1>4. CASE PushAdvance
    <2> USE <1>4 DEF PushAdvance
    <2>1. SlotsInv'
      BY <1>1 DEF Stored
    <2> QED BY <1>0, <2>1 DEF TypeOK, consVars
  <1>5. CASE PushUnlock
    <2> USE <1>5 DEF PushUnlock
    <2>1. SlotsInv'
      BY <1>1 DEF Stored
    <2> QED BY <1>0, <2>1 DEF TypeOK, consVars
  <1>6. CASE PopLock
    <2>1. SlotsInv'
      BY <1>1, <1>6 DEF PopLock, prodVars, Stored
    <2> QED BY <1>0, <1>6, <2>1 DEF PopLock, TypeOK, prodVars
  <1>7. CASE PopAccess
    <2> USE <1>7 DEF PopAccess
    <2>1. SlotsInv'
      BY <1>1 DEF prodVars, Stored
    <2>2. read % Size \in Slots
      BY <1>0, ModInRange DEF Slots
    <2> QED BY <1>0, <2>1, <2>2 DEF TypeOK, prodVars
  <1>8. CASE PopAdvance
    <2>1. SlotsInv'
      BY <1>1, <1>8 DEF PopAdvance, prodVars, Stored
    <2> QED BY <1>0, <1>8, <2>1 DEF PopAdvance, TypeOK, prodVars
  <1>9. CASE PopUnlock
    <2>1. SlotsInv'
      BY <1>1, <1>9 DEF PopUnlock, prodVars, Stored
    <2> QED BY <1>0, <1>9, <2>1 DEF PopUnlock, TypeOK, prodVars
  <1>10. CASE UNCHANGED vars
    <2>1. SlotsInv'
      BY <1>1, <1>10 DEF vars, prodVars, Stored
    <2> QED BY <1>10, <2>1 DEF vars, prodVars, consVars, TypeOK
  <1> QED
    BY <1>2, <1>3, <1>4, <1>5, <1>6, <1>7, <1>8, <1>9, <1>10
       DEF Next, Producer, Consumer, Joined

\* Every reachable state satisfies the invariant.
THEOREM Invariance == Spec => []Inv
  BY InitInv, NextInv, PTL DEF Spec

\* Counters, slots and locals keep their ranges.
THEOREM TypeCorrect == Spec => []TypeOK
  BY Invariance, PTL DEF Inv

\* push and pop never run their critical sections at the same time.
THEOREM Exclusion == Spec => []MutuallyExclusive
  BY Invariance, PTL DEF Inv

\* What pop returned is the newest value of its slot.
LEMMA LocalNewest == Inv => PopTakesNewest
  <1> SUFFICES ASSUME Inv, cpc = "advance"
               PROVE  NewestIn(ret, read % Size)
    BY DEF PopTakesNewest
  <1>1. read % Size \in Slots
    BY ModInRange DEF Inv, TypeOK, Slots
  <1>2. Stored = write
    BY DEF Inv, MutuallyExclusive, Critical, Stored
  <1>3. Holds(ret, read % Size, write)
    BY <1>1, <1>2 DEF Inv, SlotsInv, LocalInv
  <1> QED BY <1>3 DEF Holds, NewestIn

\* pop returns the newest value pushed into the slot it looks at, whatever
\* the speeds of the two threads.
THEOREM NewestTaken == Spec => []PopTakesNewest
  BY LocalNewest, Invariance, PTL

\* While the ring is neither empty nor overrun, pop is first in, first out.
THEOREM PacedFifo == Spec => []FifoWhenPaced
  <1>1. Inv => FifoWhenPaced
    <2> SUFFICES ASSUME Inv, cpc = "advance", read < write, write <= read + Size
                 PROVE  ret = read
      BY DEF FifoWhenPaced
    <2>1. read \in Nat /\ write \in Nat
      BY DEF Inv, TypeOK
    <2>2. read % Size <= read /\ read % Size \in Nat
      BY <2>1, ModInRange, ModBelow
    <2>3. /\ ret \in Nat /\ ret < write /\ write <= ret + Size
          /\ ret % Size = read % Size
      BY <2>1, <2>2, LocalNewest DEF PopTakesNewest, NewestIn
    <2>4. CASE ret < read
      <3>1. read - ret < Size
        BY <2>1, <2>3
      <3> QED BY <2>1, <2>3, <2>4, <3>1, ModDistinct
    <2>5. CASE read < ret
      <3>1. ret - read < Size
        BY <2>1, <2>3
      <3> QED BY <2>1, <2>3, <2>5, <3>1, ModDistinct
    <2> QED BY <2>1, <2>3, <2>4, <2>5
  <1> QED BY <1>1, Invariance, PTL
=============================================================================
