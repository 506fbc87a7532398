--------------------------- MODULE CounterRingProofs ---------------------------
(***************************************************************************)
(* Proofs about CounterRing: both memory orders, every size of the buffer, *)
(* every run that stays below the largest int.                             *)
(***************************************************************************)
EXTENDS CounterRing, Integers, TLAPS

-----------------------------------------------------------------------------
\* Arithmetic of ring indices.

\* The index of a slot, n % size in the code, lies inside the buffer.
LEMMA ModInRange ==
  ASSUME NEW S \in Nat \ {0}, NEW n \in Nat
  PROVE  n % S \in 0 .. S - 1
  OBVIOUS

\* A natural number is its quotient times the divisor plus its remainder.
LEMMA DivMod ==
  ASSUME NEW S \in Nat \ {0}, NEW n \in Nat
  PROVE  /\ n \div S \in Int
         /\ n = S * (n \div S) + (n % S)
  OBVIOUS

\* No multiple of a size lies strictly between 0 and the size.
LEMMA NoMultipleBelow ==
  ASSUME NEW S \in Nat \ {0}, NEW q \in Int, 0 < S * q
  PROVE  S <= S * q
  <1>1. q >= 1
    <2>1. CASE q <= 0
      <3>1. S * q <= 0
        BY <2>1, SMTT(30)
      <3> QED BY <3>1
    <2> QED BY <2>1
  <1>2. PICK d \in Nat : q = 1 + d
    BY <1>1
  <1>3. S * q = S + S * d
    BY <1>2, SMTT(30)
  <1>4. S * d >= 0
    BY SMTT(30)
  <1> QED BY <1>3, <1>4

\* Two positions less than one lap apart fall on different slots, so a
\* writer less than a lap ahead never hits the reader's slot.
LEMMA ModDistinct ==
  ASSUME NEW S \in Nat \ {0}, NEW a \in Nat, NEW b \in Nat, a < b, b - a < S
  PROVE  a % S # b % S
  <1> SUFFICES ASSUME a % S = b % S
               PROVE  FALSE
    OBVIOUS
  <1> DEFINE p == a \div S
             q == b \div S
  <1>1. p \in Int /\ q \in Int /\ a = S * p + (a % S) /\ b = S * q + (a % S)
    BY DivMod
  <1>2. a % S \in Nat
    BY ModInRange
  <1> HIDE DEF p, q
  <1>3. b - a = S * (q - p)
    BY <1>1, <1>2, SMTT(30)
  <1>4. S <= S * (q - p)
    BY <1>1, <1>3, NoMultipleBelow
  <1> QED BY <1>3, <1>4

\* The remainder is the only offset within a lap that leaves a multiple.
LEMMA ModUnique ==
  ASSUME NEW S \in Nat \ {0}, NEW n \in Nat, NEW q \in Int,
         NEW r \in 0 .. S - 1, n = S * q + r
  PROVE  n % S = r
  <1> DEFINE p == n \div S
             m == n % S
  <1>1. p \in Int /\ m \in 0 .. S - 1 /\ n = S * p + m
    BY DivMod, ModInRange
  <1> HIDE DEF p, m
  <1>2. m - r = S * (q - p) /\ r - m = S * (p - q)
    BY <1>1, SMTT(30)
  <1>3. CASE r < m
    BY <1>1, <1>2, <1>3, NoMultipleBelow
  <1>4. CASE m < r
    BY <1>1, <1>2, <1>4, NoMultipleBelow
  <1> QED BY <1>1, <1>3, <1>4 DEF m

-----------------------------------------------------------------------------
USE SizeAssumption, PushesAssumption, IntAssumption

(***************************************************************************)
(* The inductive invariant.  A thread's view of the other counter may lag, *)
(* but it lags on the safe side: the producer sees at most as many free    *)
(* slots as there are, the consumer at most as many values as there are.   *)
(***************************************************************************)
CountersInv ==
  /\ write = i /\ read = j
  /\ j <= i
  /\ i <= j + Size

\* What a thread has read of the other counter is what it synchronised with.
ViewsInv ==
  /\ seenRead = hbReads /\ hbReads <= j
  /\ seenWrite = hbWrites /\ j <= hbWrites /\ hbWrites <= i

ProducerInv ==
  /\ ppc = "done" <=> i = Pushes
  /\ ppc \in {"load_read", "store_buffer", "store_write"} => tail = i
  /\ ppc \in {"store_buffer", "store_write"} => i < hbReads + Size
  /\ ppc = "store_write" => buffer[i % Size] = i

ConsumerInv ==
  /\ cpc = "done" <=> j = Pushes
  /\ cpc \in {"load_write", "load_buffer", "store_read"} => head = j
  /\ cpc \in {"load_buffer", "store_read"} => j < hbWrites
  /\ cpc = "store_read" => ret = j

UnreadKept == \A k \in Nat : j <= k /\ k < i => buffer[k % Size] = k

Inv == /\ TypeOK /\ CountersInv /\ ViewsInv
       /\ ProducerInv /\ ConsumerInv /\ UnreadKept

\* Below the largest int, increment's narrowing parameter loses nothing.
LEMMA IncrementExact ==
  ASSUME NEW n \in Nat, n < Pushes
  PROVE  increment(n) = n + 1
  <1> DEFINE W == 2 * IntMax + 2
  <1>1. ASSUME NEW m \in Nat, m <= IntMax
        PROVE  ToInt(m) = m
    <2> DEFINE t == m + IntMax + 1
    <2>1. /\ W \in Nat \ {0} /\ t \in 0 .. W - 1 /\ t \in Nat
          /\ t = W * 0 + t
      BY <1>1, SMTT(30)
    <2> HIDE DEF t, W
    <2>2. t % W = t
      BY <2>1, ModUnique
    <2> QED BY <1>1, <2>2 DEF ToInt, t, W
  <1>2. ToInt(n) = n
    BY <1>1
  <1>3. ToInt(n + 1) = n + 1
    BY <1>1, n + 1 \in Nat, n + 1 <= IntMax
  <1> QED BY <1>2, <1>3 DEF increment

\* The constructor establishes the invariant.
LEMMA InitInv == Init => Inv
  <1> SUFFICES ASSUME Init
               PROVE  Inv
    OBVIOUS
  <1>1. TypeOK
    BY DEF Init, TypeOK, Slots, Values, ProducerLabels, ConsumerLabels
  <1>2. CountersInv /\ ViewsInv /\ ProducerInv /\ ConsumerInv /\ UnreadKept
    BY DEF Init, CountersInv, ViewsInv, ProducerInv, ConsumerInv, UnreadKept
  <1> QED BY <1>1, <1>2 DEF Inv

\* What a load of the other thread's counter may return.
LEMMA LoadedRange ==
  ASSUME NEW seen \in Nat, NEW newest \in Nat, seen <= newest,
         NEW v \in Loaded(seen, newest)
  PROVE  v \in Nat /\ seen <= v /\ v <= newest /\ Synchronised(seen, v) = v
  BY DEF Loaded, SeqCstLoad, AcquireLoad, Synchronised

\* Every step keeps the invariant, whatever values the loads return.
LEMMA NextInv == Inv /\ [Next]_vars => Inv'
  <1> SUFFICES ASSUME Inv, [Next]_vars
               PROVE  Inv'
    OBVIOUS
  <1>0. /\ i \in Nat /\ j \in Nat /\ i <= Pushes /\ j <= Pushes
        /\ hbReads \in Nat /\ hbWrites \in Nat
    BY DEF Inv, TypeOK
  <1> USE DEF Inv, CountersInv, ViewsInv, ProducerInv, ConsumerInv
  <1>1. CASE PushLoadWrite
    BY <1>0, <1>1 DEF PushLoadWrite, TypeOK, shared, consVars, UnreadKept, ProducerLabels
  <1>2. CASE PushLoadRead
    <2> USE <1>2 DEF PushLoadRead
    <2>1. PICK r \in Loaded(seenRead, read) :
            /\ seenRead' = r
            /\ hbReads' = Synchronised(hbReads, r)
            /\ ppc' = IF HasRoom(r) THEN "store_buffer" ELSE "load_write"
      OBVIOUS
    <2>2. r \in Nat /\ r <= j /\ hbReads' = r /\ seenRead' = r
      BY <1>0, <2>1, LoadedRange
    <2>3. TypeOK'
      BY <1>0, <2>1, <2>2 DEF TypeOK, shared, consVars, ProducerLabels
    <2>4. CountersInv' /\ ViewsInv' /\ ConsumerInv' /\ UnreadKept'
      BY <1>0, <2>2 DEF shared, consVars, UnreadKept
    <2>5. ProducerInv'
      BY <1>0, <2>1, <2>2 DEF HasRoom, shared, consVars
    <2> QED BY <2>3, <2>4, <2>5
  <1>3. CASE PushStoreBuffer
    <2> USE <1>3 DEF PushStoreBuffer
    <2>1. tail = i /\ i < hbReads + Size /\ i < Pushes
      BY <1>0
    <2>2. buffer' = [buffer EXCEPT ![i % Size] = i]
      BY <2>1
    <2>3. i % Size \in Slots
      BY <1>0, ModInRange DEF Slots
    <2>4. TypeOK'
      <3>1. buffer' \in [Slots -> Values \cup {Indeterminate}]
        BY <1>0, <2>1, <2>2, <2>3 DEF TypeOK, Values
      <3> QED BY <3>1 DEF TypeOK, consVars, ProducerLabels
    <2>5. buffer'[i % Size] = i
      BY <2>2, <2>3 DEF TypeOK
    <2>6. UnreadKept'
      <3> SUFFICES ASSUME NEW k \in Nat, j <= k, k < i
                   PROVE  buffer'[k % Size] = k
        BY DEF UnreadKept, consVars
      <3>1. i - k < Size
        BY <1>0, <2>1
      <3>2. k % Size # i % Size
        BY <1>0, <3>1, ModDistinct
      <3>3. k % Size \in Slots
        BY ModInRange DEF Slots
      <3>4. buffer[k % Size] = k
        BY DEF UnreadKept
      <3> QED BY <2>2, <3>2, <3>3, <3>4 DEF TypeOK
    <2> QED BY <2>1, <2>4, <2>5, <2>6 DEF consVars
  <1>4. CASE PushStoreWrite
    <2> USE <1>4 DEF PushStoreWrite
    <2>1. tail = i /\ i < hbReads + Size /\ i < Pushes /\ buffer[i % Size] = i
      BY <1>0
    <2>2. write' = i + 1
      BY <1>0, <2>1, IncrementExact
    <2>3. TypeOK'
      BY <1>0, <2>1, <2>2 DEF TypeOK, consVars, ProducerLabels
    <2>4. CountersInv' /\ ViewsInv' /\ ProducerInv' /\ ConsumerInv'
      BY <1>0, <2>1, <2>2 DEF consVars
    <2>5. UnreadKept'
      BY <1>0, <2>1 DEF UnreadKept, consVars
    <2> QED BY <2>3, <2>4, <2>5
  <1>5. CASE PopLoadRead
    BY <1>0, <1>5 DEF PopLoadRead, TypeOK, shared, prodVars, UnreadKept, ConsumerLabels
  <1>6. CASE PopLoadWrite
    <2> USE <1>6 DEF PopLoadWrite
    <2>1. PICK w \in Loaded(seenWrite, write) :
            /\ seenWrite' = w
            /\ hbWrites' = Synchronised(hbWrites, w)
            /\ cpc' = IF IsEmpty(w) THEN "load_read" ELSE "load_buffer"
      OBVIOUS
    <2>2. w \in Nat /\ hbWrites <= w /\ w <= i /\ hbWrites' = w /\ seenWrite' = w
      BY <1>0, <2>1, LoadedRange
    <2>3. TypeOK'
      BY <1>0, <2>1, <2>2 DEF TypeOK, shared, prodVars, ConsumerLabels
    <2>4. CountersInv' /\ ViewsInv' /\ ProducerInv' /\ UnreadKept'
      BY <1>0, <2>2 DEF shared, prodVars, UnreadKept
    <2>5. ConsumerInv'
      BY <1>0, <2>1, <2>2 DEF IsEmpty, shared, prodVars
    <2> QED BY <2>3, <2>4, <2>5
  <1>7. CASE PopLoadBuffer
    <2>1. ret' = j /\ j \in Values
      BY <1>0, <1>7 DEF PopLoadBuffer, UnreadKept, Values
    <2> QED BY <1>0, <1>7, <2>1
         DEF PopLoadBuffer, TypeOK, shared, prodVars, UnreadKept, ConsumerLabels
  <1>8. CASE PopStoreRead
    <2> USE <1>8 DEF PopStoreRead
    <2>1. head = j /\ j < i /\ j < Pushes
      BY <1>0
    <2>2. read' = j + 1
      BY <1>0, <2>1, IncrementExact
    <2>3. TypeOK'
      BY <1>0, <2>1, <2>2 DEF TypeOK, prodVars, ConsumerLabels
    <2>4. CountersInv' /\ ViewsInv' /\ ProducerInv' /\ ConsumerInv'
      BY <1>0, <2>1, <2>2 DEF prodVars
    <2>5. UnreadKept'
      <3> SUFFICES ASSUME NEW k \in Nat, j + 1 <= k, k < i
                   PROVE  buffer[k % Size] = k
        BY DEF UnreadKept, prodVars
      <3> QED BY <1>0 DEF UnreadKept
    <2> QED BY <2>3, <2>4, <2>5
  <1>9. CASE UNCHANGED vars
    BY <1>9 DEF vars, shared, prodVars, consVars, TypeOK, UnreadKept
  <1> QED
    BY <1>1, <1>2, <1>3, <1>4, <1>5, <1>6, <1>7, <1>8, <1>9
       DEF Next, Producer, Consumer, Joined

\* Every reachable state of both programs satisfies the invariant.
THEOREM Invariance == Spec => []Inv
  BY InitInv, NextInv, PTL DEF Spec

\* Counters, views, slots and locals keep their ranges.
THEOREM TypeCorrect == Spec => []TypeOK
  BY Invariance, PTL DEF Inv

\* Acquire and release order every pair of conflicting slot accesses.
THEOREM NoRace == Spec => []RaceFree
  <1>1. Inv => RaceFree
    BY DEF Inv, TypeOK, CountersInv, ProducerInv, ConsumerInv, RaceFree
  <1> QED BY <1>1, Invariance, PTL

\* Every pop hands out the value that was pushed under the same number.
THEOREM FifoOrder == Spec => []Fifo
  <1>1. Inv => Fifo
    BY DEF Inv, ConsumerInv, Fifo
  <1> QED BY <1>1, Invariance, PTL

-----------------------------------------------------------------------------
(***************************************************************************)
(* Refinement: the programs implement SpscQueue with all Size slots.       *)
(***************************************************************************)

ContentsConsecutive ==
  /\ Taken \in Nat
  /\ Taken <= i
  /\ Contents = [k \in 1 .. i - Taken |-> Taken + k - 1]

\* The values waiting in the ring are consecutive loop counters.
LEMMA ContentsInterval == Inv => ContentsConsecutive
  <1> SUFFICES ASSUME Inv
               PROVE  ContentsConsecutive
    OBVIOUS
  <1>1. Taken \in Nat /\ i \in Nat /\ j <= Taken /\ Taken <= i
    BY DEF Inv, TypeOK, CountersInv, ViewsInv, ConsumerInv, Taken
  <1>2. ASSUME NEW k \in 1 .. i - Taken
        PROVE  buffer[(Taken + k - 1) % Size] = Taken + k - 1
    <2> DEFINE n == Taken + k - 1
    <2>1. n \in Nat /\ j <= n /\ n < i
      BY <1>1 DEF Inv, TypeOK
    <2> HIDE DEF n
    <2>2. buffer[n % Size] = n
      BY <2>1 DEF Inv, UnreadKept
    <2> QED BY <2>2 DEF n
  <1> QED BY <1>1, <1>2 DEF Contents, ContentsConsecutive

\* Every successful try_push is an atomic Push, every successful try_pop an
\* atomic Pop, and no other step is visible to the user of the queue.
THEOREM Refinement == Spec => ImplementsQueue
  <1> USE DEF Queue!Init, Queue!Next, Queue!vars, Queue!Push, Queue!Pop
  <1>1. Init => Queue!Init
    <2> SUFFICES ASSUME Init
                 PROVE  Queue!Init
      OBVIOUS
    <2>1. Taken = 0 /\ i = 0
      BY DEF Init, Taken
    <2>2. Contents = <<>>
      BY <2>1, InitInv, ContentsInterval DEF ContentsConsecutive
    <2> QED BY <2>1, <2>2 DEF Init
  <1>2. Inv /\ Inv' /\ [Next]_vars => [Queue!Next]_(Queue!vars)
    <2> SUFFICES ASSUME Inv, Inv', [Next]_vars
                 PROVE  [Queue!Next]_(Queue!vars)
      OBVIOUS
    <2>1. /\ Taken \in Nat /\ i \in Nat /\ Taken <= i /\ i <= Pushes
          /\ Contents = [k \in 1 .. i - Taken |-> Taken + k - 1]
      BY ContentsInterval DEF Inv, TypeOK, ContentsConsecutive
    <2>2. Contents' = [k \in 1 .. i' - Taken' |-> Taken' + k - 1]
      <3>1. ContentsConsecutive'
        BY ContentsInterval, PTL
      <3> QED BY <3>1 DEF ContentsConsecutive
    <2> HIDE DEF Contents
    <2>3. CASE PushStoreWrite
      <3>1. Taken' = Taken /\ i' = i + 1 /\ ret' = ret /\ i < Pushes
        BY <2>1, <2>3 DEF PushStoreWrite, consVars, Taken, Inv, ProducerInv
      <3>2. i - Taken < Size
        <4>1. /\ hbReads \in Nat /\ j \in Nat /\ hbReads <= j /\ j <= Taken
              /\ i < hbReads + Size
          BY <2>3 DEF PushStoreWrite, Taken, Inv, TypeOK, ViewsInv, ProducerInv
        <4> QED BY <2>1, <4>1
      <3>3. Len(Contents) = i - Taken
        BY <2>1
      <3>4. Contents' = Append(Contents, i)
        BY <2>1, <2>2, <3>1
      <3> QED BY <3>1, <3>2, <3>3, <3>4
    <2>4. CASE PopLoadBuffer
      <3>1. Taken = j /\ Taken' = j + 1 /\ i' = i /\ j < i /\ j \in Nat
        BY <2>4 DEF PopLoadBuffer, prodVars, Taken, Inv, ConsumerInv, ViewsInv, TypeOK
      <3>2. ret' = j
        BY <2>4 DEF PopLoadBuffer, Inv, ConsumerInv
      <3>3. Contents \in Seq(Nat) /\ Len(Contents) = i - j /\ Head(Contents) = j
        BY <2>1, <3>1
      <3>4. Contents' = Tail(Contents)
        BY <2>1, <2>2, <3>1, <3>3
      <3>5. Contents # <<>>
        BY <2>1, <3>1, <3>3
      <3> QED BY <3>1, <3>2, <3>3, <3>4, <3>5
    <2>5. ASSUME i' = i, Taken' = Taken, ret' = ret
          PROVE  UNCHANGED Queue!vars
      BY <2>1, <2>2, <2>5
    <2>6. CASE PopStoreRead
      <3>1. Taken' = Taken
        BY <2>6 DEF PopStoreRead, Taken
      <3> QED BY <2>5, <2>6, <3>1 DEF PopStoreRead, prodVars
    <2>7. CASE \/ PushLoadWrite \/ PushLoadRead \/ PushStoreBuffer
               \/ PopLoadRead \/ PopLoadWrite \/ Joined \/ UNCHANGED vars
      <3>1. i' = i /\ Taken' = Taken /\ ret' = ret
        BY <2>7 DEF PushLoadWrite, PushLoadRead, PushStoreBuffer, PopLoadRead,
                    PopLoadWrite, Joined, vars, shared, prodVars, consVars, Taken
      <3> QED BY <2>5, <3>1
    <2> QED BY <2>3, <2>4, <2>6, <2>7 DEF Next, Producer, Consumer
  <1> QED BY <1>1, <1>2, Invariance, PTL DEF Spec, Queue!Spec, ImplementsQueue
=============================================================================
