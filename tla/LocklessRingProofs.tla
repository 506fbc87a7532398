-------------------------- MODULE LocklessRingProofs --------------------------
(***************************************************************************)
(* Proofs about LocklessRing, for every size of the buffer and every       *)
(* length of the run.                                                      *)
(***************************************************************************)
EXTENDS LocklessRing, Integers, TLAPS

-----------------------------------------------------------------------------
\* Arithmetic of ring indices.

\* The index of a slot, n % size in the code, lies inside the buffer.
LEMMA ModInRange ==
  ASSUME NEW S \in Nat \ {0}, NEW n \in Nat
  PROVE  n % S \in 0 .. S - 1
  OBVIOUS

\* A natural number is its quotient times the divisor plus its remainder.
LEMMA DivMod ==
  ASSUME NEW S \in Nat \ {0}, NEW n \in Nat
  PROVE  /\ n \div S \in Int
         /\ n = S * (n \div S) + (n % S)
  OBVIOUS

\* No multiple of a size lies strictly between 0 and the size.
LEMMA NoMultipleBelow ==
  ASSUME NEW S \in Nat \ {0}, NEW q \in Int, 0 < S * q
  PROVE  S <= S * q
  <1>1. q >= 1
    <2>1. CASE q <= 0
      <3>1. S * q <= 0
        BY <2>1, SMTT(30)
      <3> QED BY <3>1
    <2> QED BY <2>1
  <1>2. PICK d \in Nat : q = 1 + d
    BY <1>1
  <1>3. S * q = S + S * d
    BY <1>2, SMTT(30)
  <1>4. S * d >= 0
    BY SMTT(30)
  <1> QED BY <1>3, <1>4

\* Two positions less than one lap apart fall on different slots, so a
\* writer less than a lap ahead never hits the reader's slot.
LEMMA ModDistinct ==
  ASSUME NEW S \in Nat \ {0}, NEW a \in Nat, NEW b \in Nat, a < b, b - a < S
  PROVE  a % S # b % S
  <1> SUFFICES ASSUME a % S = b % S
               PROVE  FALSE
    OBVIOUS
  <1> DEFINE p == a \div S
             q == b \div S
  <1>1. p \in Int /\ q \in Int /\ a = S * p + (a % S) /\ b = S * q + (a % S)
    BY DivMod
  <1>2. a % S \in Nat
    BY ModInRange
  <1> HIDE DEF p, q
  <1>3. b - a = S * (q - p)
    BY <1>1, <1>2, SMTT(30)
  <1>4. S <= S * (q - p)
    BY <1>1, <1>3, NoMultipleBelow
  <1> QED BY <1>3, <1>4

\* The remainder is the only offset within a lap that leaves a multiple.
LEMMA ModUnique ==
  ASSUME NEW S \in Nat \ {0}, NEW n \in Nat, NEW q \in Int,
         NEW r \in 0 .. S - 1, n = S * q + r
  PROVE  n % S = r
  <1> DEFINE p == n \div S
             m == n % S
  <1>1. p \in Int /\ m \in 0 .. S - 1 /\ n = S * p + m
    BY DivMod, ModInRange
  <1> HIDE DEF p, m
  <1>2. m - r = S * (q - p) /\ r - m = S * (p - q)
    BY <1>1, SMTT(30)
  <1>3. CASE r < m
    BY <1>1, <1>2, <1>3, NoMultipleBelow
  <1>4. CASE m < r
    BY <1>1, <1>2, <1>4, NoMultipleBelow
  <1> QED BY <1>1, <1>3, <1>4 DEF m

\* Advancing the wrapped index is the same as wrapping the advanced count.
LEMMA ModSucc ==
  ASSUME NEW S \in Nat \ {0}, NEW n \in Nat
  PROVE  ((n % S) + 1) % S = (n + 1) % S
  <1> DEFINE p == n \div S
             m == n % S
  <1>1. p \in Int /\ m \in 0 .. S - 1 /\ n = S * p + m
    BY DivMod, ModInRange
  <1> HIDE DEF p, m
  <1>2. CASE m + 1 < S
    <2>1. (m + 1) % S = m + 1
      <3>1. m + 1 \in 0 .. S - 1 /\ m + 1 = S * 0 + (m + 1)
        BY <1>1, <1>2, SMTT(30)
      <3> QED BY <1>1, <3>1, ModUnique
    <2>2. (n + 1) % S = m + 1
      <3>1. m + 1 \in 0 .. S - 1 /\ n + 1 = S * p + (m + 1)
        BY <1>1, <1>2
      <3> QED BY <1>1, <3>1, ModUnique
    <2> QED BY <2>1, <2>2 DEF m
  <1>3. CASE m + 1 = S
    <2>1. (m + 1) % S = 0
      <3>1. m + 1 = S * 1 + 0
        BY <1>1, <1>3, SMTT(30)
      <3> QED BY <1>1, <3>1, ModUnique
    <2>2. (n + 1) % S = 0
      <3>1. n + 1 = S * (p + 1) + 0
        BY <1>1, <1>3, SMTT(30)
      <3> QED BY <1>1, <3>1, ModUnique
    <2> QED BY <2>1, <2>2 DEF m
  <1> QED BY <1>1, <1>2, <1>3

\* A position exactly one lap ahead falls on the same slot.
LEMMA ModLap ==
  ASSUME NEW S \in Nat \ {0}, NEW n \in Nat
  PROVE  (n + S) % S = n % S
  <1> DEFINE p == n \div S
             m == n % S
             t == n + S
  <1>1. p \in Int /\ m \in 0 .. S - 1 /\ n = S * p + m
    BY DivMod, ModInRange
  <1> HIDE DEF p, m
  <1>2. t \in Nat /\ p + 1 \in Int /\ t = S * (p + 1) + m
    BY <1>1, SMTT(30)
  <1> HIDE DEF t
  <1>3. t % S = m
    BY <1>1, <1>2, ModUnique
  <1> QED BY <1>3 DEF m, t

-----------------------------------------------------------------------------
(***************************************************************************)
(* The inductive invariant.  The counters i and j of the two loops are     *)
(* the unwrapped indices: everything about the wrapped ones follows from   *)
(* their distance staying below Size.                                      *)
(***************************************************************************)
IndicesInv ==
  /\ write = i % Size
  /\ read = j % Size
  /\ j <= i
  /\ i - j <= Size - 1

ProducerInv ==
  /\ ppc = "done" <=> i = Pushes
  /\ ppc \in {"load_read", "store_buffer", "store_write"} => tail = write
  /\ ppc \in {"store_buffer", "store_write"} => i - j < Size - 1
  /\ ppc = "store_write" => buffer[tail] = i

ConsumerInv ==
  /\ cpc = "done" <=> j = Pushes
  /\ cpc \in {"load_write", "load_buffer", "store_read"} => head = read
  /\ cpc \in {"load_buffer", "store_read"} => j < i
  /\ cpc = "store_read" => ret = j

UnreadKept == \A k \in Nat : j <= k /\ k < i => buffer[k % Size] = k

Inv == TypeOK /\ IndicesInv /\ ProducerInv /\ ConsumerInv /\ UnreadKept

USE SizeAssumption, PushesAssumption

\* The constructor establishes the invariant.
LEMMA InitInv == Init => Inv
  <1> SUFFICES ASSUME Init
               PROVE  Inv
    OBVIOUS
  <1>1. 0 % Size = 0
    BY ModUnique, 0 = Size * 0 + 0
  <1>2. TypeOK
    BY DEF Init, TypeOK, Slots, ProducerLabels, ConsumerLabels
  <1>3. IndicesInv /\ ProducerInv /\ ConsumerInv /\ UnreadKept
    BY <1>1 DEF Init, IndicesInv, ProducerInv, ConsumerInv, UnreadKept
  <1> QED BY <1>2, <1>3 DEF Inv

\* What the two comparisons of wrapped indices say about the counters.
LEMMA ComparisonsExact ==
  ASSUME Inv
  PROVE  /\ ppc = "load_read" => (HasRoom <=> i - j < Size - 1)
         /\ cpc = "load_write" => (IsEmpty <=> i = j)
  <1> USE DEF Inv, IndicesInv
  <1>1. i \in Nat /\ j \in Nat /\ j <= i /\ i - j <= Size - 1
    BY DEF TypeOK
  <1>2. ASSUME ppc = "load_read"
        PROVE  HasRoom <=> i - j < Size - 1
    <2>1. increment(tail) = (i + 1) % Size
      BY <1>1, <1>2, ModSucc DEF ProducerInv, increment
    <2> DEFINE b == i + 1
    <2>2. CASE i - j < Size - 1
      <3>1. b \in Nat /\ j < b /\ b - j < Size
        BY <1>1, <2>2
      <3> HIDE DEF b
      <3>2. j % Size # b % Size
        BY <1>1, <3>1, ModDistinct
      <3> QED BY <2>1, <2>2, <3>2 DEF HasRoom, b
    <2>3. CASE i - j = Size - 1
      <3>1. b = j + Size
        BY <1>1, <2>3
      <3>2. b % Size = j % Size
        BY <1>1, <3>1, ModLap
      <3> QED BY <1>1, <2>1, <2>3, <3>2 DEF HasRoom
    <2> QED BY <1>1, <2>2, <2>3
  <1>3. ASSUME cpc = "load_write"
        PROVE  IsEmpty <=> i = j
    <2>1. CASE j < i
      <3>1. i - j < Size
        BY <1>1
      <3>2. j % Size # i % Size
        BY <1>1, <2>1, <3>1, ModDistinct
      <3> QED BY <1>3, <2>1, <3>2 DEF IsEmpty, ConsumerInv
    <2>2. CASE j = i
      BY <1>3, <2>2 DEF IsEmpty, ConsumerInv
    <2> QED BY <1>1, <2>1, <2>2
  <1> QED BY <1>2, <1>3

\* Every step of the producer, of the consumer and of main keeps the
\* invariant.
LEMMA NextInv == Inv /\ [Next]_vars => Inv'
  <1> SUFFICES ASSUME Inv, [Next]_vars
               PROVE  Inv'
    OBVIOUS
  <1>0. /\ i \in Nat /\ j \in Nat /\ i <= Pushes /\ j <= Pushes
        /\ i % Size \in Slots /\ (i + 1) % Size \in Slots
        /\ j % Size \in Slots /\ (j + 1) % Size \in Slots
    BY ModInRange DEF Inv, TypeOK, Slots
  <1> USE DEF Inv, IndicesInv, ProducerInv, ConsumerInv,
              ProducerLabels, ConsumerLabels
  <1>1. CASE PushLoadWrite
    BY <1>1 DEF PushLoadWrite, TypeOK, consVars, UnreadKept
  <1>2. CASE PushLoadRead
    <2>1. HasRoom <=> i - j < Size - 1
      BY <1>2, ComparisonsExact DEF PushLoadRead
    <2> QED BY <1>2, <2>1 DEF PushLoadRead, TypeOK, consVars, UnreadKept
  <1>3. CASE PushStoreBuffer
    <2> USE <1>3 DEF PushStoreBuffer
    <2>1. tail = i % Size /\ i - j < Size - 1
      OBVIOUS
    <2>2. buffer' = [buffer EXCEPT ![tail] = i]
      OBVIOUS
    <2>3. TypeOK'
      BY <1>0, <2>2 DEF TypeOK, consVars
    <2>4. buffer'[tail] = i
      BY <2>2 DEF TypeOK
    <2>5. UnreadKept'
      <3> SUFFICES ASSUME NEW k \in Nat, j <= k, k < i
                   PROVE  buffer'[k % Size] = k
        BY DEF UnreadKept, consVars
      <3>1. i - k < Size
        BY <1>0, <2>1
      <3>2. k % Size # tail
        BY <1>0, <2>1, <3>1, ModDistinct
      <3>3. k % Size \in Slots
        BY ModInRange DEF Slots
      <3>4. buffer[k % Size] = k
        BY DEF UnreadKept
      <3> QED BY <2>2, <3>2, <3>3, <3>4 DEF TypeOK
    <2> QED BY <2>1, <2>3, <2>4, <2>5 DEF consVars
  <1>4. CASE PushStoreWrite
    <2> USE <1>4 DEF PushStoreWrite
    <2>1. tail = i % Size /\ i - j < Size - 1 /\ buffer[tail] = i /\ i < Pushes
      BY <1>0
    <2>2. write' = (i + 1) % Size
      BY <1>0, <2>1, ModSucc DEF increment
    <2>3. TypeOK'
      BY <1>0, <2>1, <2>2 DEF TypeOK, consVars
    <2>4. IndicesInv' /\ ProducerInv' /\ ConsumerInv'
      BY <1>0, <2>1, <2>2 DEF consVars
    <2>5. UnreadKept'
      BY <1>0, <2>1 DEF UnreadKept, consVars
    <2> QED BY <2>3, <2>4, <2>5
  <1>5. CASE PopLoadRead
    BY <1>5 DEF PopLoadRead, TypeOK, prodVars, UnreadKept
  <1>6. CASE PopLoadWrite
    <2>1. IsEmpty <=> i = j
      BY <1>6, ComparisonsExact DEF PopLoadWrite
    <2> QED BY <1>0, <1>6, <2>1 DEF PopLoadWrite, TypeOK, prodVars, UnreadKept
  <1>7. CASE PopLoadBuffer
    <2>1. buffer[head] = j
      BY <1>0, <1>7 DEF PopLoadBuffer, UnreadKept
    <2> QED BY <1>0, <1>7, <2>1 DEF PopLoadBuffer, TypeOK, prodVars, UnreadKept
  <1>8. CASE PopStoreRead
    <2> USE <1>8 DEF PopStoreRead
    <2>1. head = j % Size /\ j < i /\ j < Pushes
      BY <1>0
    <2>2. read' = (j + 1) % Size
      BY <1>0, <2>1, ModSucc DEF increment
    <2>3. TypeOK'
      BY <1>0, <2>1, <2>2 DEF TypeOK, prodVars
    <2>4. IndicesInv' /\ ProducerInv' /\ ConsumerInv'
      BY <1>0, <2>1, <2>2 DEF prodVars
    <2>5. UnreadKept'
      <3> SUFFICES ASSUME NEW k \in Nat, j + 1 <= k, k < i
                   PROVE  buffer[k % Size] = k
        BY DEF UnreadKept, prodVars
      <3> QED BY <1>0 DEF UnreadKept
    <2> QED BY <2>3, <2>4, <2>5
  <1>9. CASE UNCHANGED vars
    BY <1>9 DEF vars, prodVars, consVars, TypeOK, UnreadKept
  <1> QED
    BY <1>1, <1>2, <1>3, <1>4, <1>5, <1>6, <1>7, <1>8, <1>9
       DEF Next, Producer, Consumer, Joined

\* Every reachable state of the ring satisfies the invariant.
THEOREM Invariance == Spec => []Inv
  BY InitInv, NextInv, PTL DEF Spec

\* Indices, counters, slots and locals keep their ranges; in particular every
\* access to the buffer is inside it.
THEOREM TypeCorrect == Spec => []TypeOK
  BY Invariance, PTL DEF Inv

\* No data race on a slot, for every buffer size and run length.
THEOREM NoRace == Spec => []RaceFree
  <1>1. Inv => RaceFree
    <2> SUFFICES ASSUME Inv, ppc = "store_buffer", cpc = "load_buffer"
                 PROVE  tail # head
      BY DEF RaceFree
    <2>1. i \in Nat /\ j \in Nat /\ j < i /\ i - j < Size
      BY DEF Inv, TypeOK, ProducerInv, ConsumerInv
    <2>2. j % Size # i % Size
      BY <2>1, ModDistinct
    <2> QED BY <2>2 DEF Inv, IndicesInv, ProducerInv, ConsumerInv
  <1> QED BY <1>1, Invariance, PTL

\* Every pop hands out the value that was pushed under the same number.
THEOREM FifoOrder == Spec => []Fifo
  <1>1. Inv => Fifo
    BY DEF Inv, ConsumerInv, Fifo
  <1> QED BY <1>1, Invariance, PTL

\* try_push fails only on a full ring and try_pop only on an empty one.
THEOREM FailureExact == Spec => []FailsOnlyAtTheLimit
  <1>1. Inv => FailsOnlyAtTheLimit
    <2> SUFFICES ASSUME Inv
                 PROVE  FailsOnlyAtTheLimit
      OBVIOUS
    <2>1. i \in Nat /\ j \in Nat /\ i - j <= Size - 1
      BY DEF Inv, TypeOK, IndicesInv
    <2> QED BY <2>1, ComparisonsExact DEF FailsOnlyAtTheLimit
  <1> QED BY <1>1, Invariance, PTL

-----------------------------------------------------------------------------
(***************************************************************************)
(* Refinement: the ring implements SpscQueue.                              *)
(***************************************************************************)

ContentsConsecutive ==
  /\ Taken \in Nat
  /\ Taken <= i
  /\ Contents = [k \in 1 .. i - Taken |-> Taken + k - 1]

\* The values waiting in the ring are consecutive loop counters.
LEMMA ContentsInterval == Inv => ContentsConsecutive
  <1> SUFFICES ASSUME Inv
               PROVE  ContentsConsecutive
    OBVIOUS
  <1>1. Taken \in Nat /\ i \in Nat /\ j <= Taken /\ Taken <= i
    BY DEF Inv, TypeOK, IndicesInv, ConsumerInv, Taken
  <1>2. ASSUME NEW k \in 1 .. i - Taken
        PROVE  buffer[(Taken + k - 1) % Size] = Taken + k - 1
    <2> DEFINE n == Taken + k - 1
    <2>1. n \in Nat /\ j <= n /\ n < i
      BY <1>1 DEF Inv, TypeOK
    <2> HIDE DEF n
    <2>2. buffer[n % Size] = n
      BY <2>1 DEF Inv, UnreadKept
    <2> QED BY <2>2 DEF n
  <1> QED BY <1>1, <1>2 DEF Contents, ContentsConsecutive

\* Every successful try_push is an atomic Push, every successful try_pop an
\* atomic Pop, and no other step is visible to the user of the queue.
THEOREM Refinement == Spec => ImplementsQueue
  <1> USE DEF Queue!Init, Queue!Next, Queue!vars, Queue!Push, Queue!Pop
  <1>1. Init => Queue!Init
    <2> SUFFICES ASSUME Init
                 PROVE  Queue!Init
      OBVIOUS
    <2>1. Taken = 0 /\ i = 0
      BY DEF Init, Taken
    <2>2. Contents = <<>>
      BY <2>1, InitInv, ContentsInterval DEF ContentsConsecutive
    <2> QED BY <2>1, <2>2 DEF Init
  <1>2. Inv /\ Inv' /\ [Next]_vars => [Queue!Next]_(Queue!vars)
    <2> SUFFICES ASSUME Inv, Inv', [Next]_vars
                 PROVE  [Queue!Next]_(Queue!vars)
      OBVIOUS
    <2>1. /\ Taken \in Nat /\ i \in Nat /\ Taken <= i /\ i <= Pushes
          /\ Contents = [k \in 1 .. i - Taken |-> Taken + k - 1]
      BY ContentsInterval DEF Inv, TypeOK, ContentsConsecutive
    <2>2. Contents' = [k \in 1 .. i' - Taken' |-> Taken' + k - 1]
      <3>1. ContentsConsecutive'
        BY ContentsInterval, PTL
      <3> QED BY <3>1 DEF ContentsConsecutive
    <2> HIDE DEF Contents
    <2>3. CASE PushStoreWrite
      <3>1. Taken' = Taken /\ i' = i + 1 /\ ret' = ret /\ i < Pushes
        BY <2>1, <2>3 DEF PushStoreWrite, consVars, Taken, Inv, ProducerInv
      <3>2. i - Taken < Size - 1
        BY <2>3, <2>1 DEF PushStoreWrite, Taken, Inv, TypeOK, ProducerInv
      <3>3. Len(Contents) = i - Taken
        BY <2>1
      <3>4. Contents' = Append(Contents, i)
        BY <2>1, <2>2, <3>1
      <3> QED BY <3>1, <3>2, <3>3, <3>4
    <2>4. CASE PopLoadBuffer
      <3>1. Taken = j /\ Taken' = j + 1 /\ i' = i /\ j < i /\ j \in Nat
        BY <2>4 DEF PopLoadBuffer, prodVars, Taken, Inv, ConsumerInv, TypeOK
      <3>2. ret' = j
        BY <2>4 DEF PopLoadBuffer, Inv, ConsumerInv
      <3>3. Contents \in Seq(Nat) /\ Len(Contents) = i - j /\ Head(Contents) = j
        BY <2>1, <3>1
      <3>4. Contents' = Tail(Contents)
        BY <2>1, <2>2, <3>1, <3>3
      <3>5. Contents # <<>>
        BY <2>1, <3>1, <3>3
      <3> QED BY <3>1, <3>2, <3>3, <3>4, <3>5
    <2>5. ASSUME i' = i, Taken' = Taken, ret' = ret
          PROVE  UNCHANGED Queue!vars
      BY <2>1, <2>2, <2>5
    <2>6. CASE PopStoreRead
      <3>1. Taken' = Taken
        BY <2>6 DEF PopStoreRead, Taken
      <3> QED BY <2>5, <2>6, <3>1 DEF PopStoreRead, prodVars
    <2>7. CASE \/ PushLoadWrite \/ PushLoadRead \/ PushStoreBuffer
               \/ PopLoadRead \/ PopLoadWrite \/ Joined \/ UNCHANGED vars
      <3>1. i' = i /\ Taken' = Taken /\ ret' = ret
        BY <2>7 DEF PushLoadWrite, PushLoadRead, PushStoreBuffer, PopLoadRead,
                    PopLoadWrite, Joined, vars, prodVars, consVars, Taken
      <3> QED BY <2>5, <3>1
    <2> QED BY <2>3, <2>4, <2>6, <2>7 DEF Next, Producer, Consumer
  <1> QED BY <1>1, <1>2, Invariance, PTL DEF Spec, Queue!Spec, ImplementsQueue
=============================================================================
