---------------------------- MODULE ReactorProofs ----------------------------
(***************************************************************************)
(* Proofs about ReactorServer, for any number of clients, messages and     *)
(* descriptors: the descriptors epoll watches and the slots in use belong  *)
(* together, the events of a batch stay valid while it is handled, and no  *)
(* client that keeps its end open is let go of.  And about Service, which  *)
(* puts client_automation at the other end: the two go in lockstep, and    *)
(* the reset that ends a connection comes too late to disturb anyone.      *)
(***************************************************************************)
EXTENDS ServedClient, FiniteSetTheorems, SequenceTheorems, TLAPS

\* A connection waits in the backlog or has one descriptor.
KernelInv ==
  /\ \A i, j \in 1 .. Len(backlog) : backlog[i] = backlog[j] => i = j
  /\ \A i \in 1 .. Len(backlog) :
       peer[backlog[i]] # "none" /\ \A d \in Fds : fds[d] # backlog[i]
  /\ \A d \in Fds : fds[d] # None => peer[fds[d]] # "none"
  /\ \A d, e \in Fds : fds[d] = fds[e] /\ fds[d] # None => d = e

\* There are never more slots than clients, and what epoll watches is open.
SlotInv ==
  /\ Len(m_peerSockets) <= Cardinality(Clients)
  /\ \A d \in registered : fds[d] # None

\* The events still to be handled are of different descriptors, none of them
\* the one at hand, and there is something to receive where the server is
\* about to receive.
EventInv ==
  /\ \A e, f \in batch : e.fd = f.fd => e = f
  /\ \A e \in batch : e.fd # Listening => Readable(fds[e.fd])
  /\ pc \in {"receive", "send", "dismiss"} =>
       \A e \in batch : e.fd # m_peerSockets[peerIndex].fd
  /\ pc = "receive" => Readable(Conn)

Inv ==
  /\ TypeOK /\ KernelInv /\ SlotInv /\ TableExact /\ LiveWatched /\ BatchFresh
  /\ EventInv

-----------------------------------------------------------------------------
USE ClientsAssumption, FdAssumption, NoneAssumption, SendsAssumption
USE DEF Fds, Slots, Ends, Messages, States, Errnos, Listening

\* A set of natural numbers has a least one.
LEMMA Least ==
  ASSUME NEW S \in SUBSET Nat, S # {}
  PROVE  \E k \in S : \A l \in S : k <= l
  <1>1. PICK k \in S : \A l \in S : <<l, k>> \notin OpToRel(<, Nat)
    BY NatLessThanWellFounded, WFMin
  <1>2. \A l \in S : ~(l < k)
    BY <1>1 DEF OpToRel
  <1> QED BY <1>2

LEMMA LowestFreeIsFree ==
  ASSUME FreeFds # {}
  PROVE  LowestFree \in FreeFds
  <1>1. FreeFds \in SUBSET Nat
    BY DEF FreeFds
  <1>2. \E d \in FreeFds : \A e \in FreeFds : d <= e
    BY <1>1, Least
  <1> QED BY <1>2 DEF LowestFree

LEMMA ClientCount == Cardinality(Clients) \in Nat \ {0}
  BY FS_CardinalityType, FS_EmptySet

-----------------------------------------------------------------------------
\* The slots, as far as type correctness goes.
SlotTypeOK ==
  /\ m_peerSockets \in Seq([fd : Fds, state : States])
  /\ m_peerSocketsConnectionFlags \in Seq(BOOLEAN)
  /\ Len(m_peerSockets) = Len(m_peerSocketsConnectionFlags)

\* Where a new connection goes is not in use.
LEMMA SlotForIsFree ==
  ASSUME SlotTypeOK
  PROVE  /\ SlotFor \in 1 .. Len(m_peerSockets) + 1
         /\ SlotFor \notin Used
         /\ SlotFor # Len(m_peerSockets) + 1 => SlotFor \in FreeSlots
         /\ SlotFor = Len(m_peerSockets) + 1 => FreeSlots = {}
  <1>0. Len(m_peerSockets) \in Nat
    BY DEF SlotTypeOK
  <1>1. CASE FreeSlots = {}
    <2>1. SlotFor = Len(m_peerSockets) + 1
      BY <1>1 DEF SlotFor
    <2>2. Used \subseteq 1 .. Len(m_peerSockets)
      BY DEF Used
    <2> QED BY <1>0, <1>1, <2>1, <2>2
  <1>2. CASE FreeSlots # {}
    <2>1. FreeSlots \in SUBSET Nat
      BY <1>0 DEF FreeSlots
    <2>2. \E k \in FreeSlots : \A l \in FreeSlots : k <= l
      BY <1>2, <2>1, Least
    <2>3. SlotFor \in FreeSlots
      BY <1>2, <2>2 DEF SlotFor
    <2>4. FreeSlots = (1 .. Len(m_peerSockets)) \ Used
      BY DEF FreeSlots
    <2> QED BY <1>0, <2>3, <2>4
  <1> QED BY <1>1, <1>2

LEMMA AtEffect ==
  ASSUME NEW S, NEW seq \in Seq(S), NEW k \in 1 .. Len(seq) + 1, NEW x \in S
  PROVE  /\ At(seq, k, x) \in Seq(S)
         /\ Len(At(seq, k, x)) = IF k = Len(seq) + 1 THEN k ELSE Len(seq)
         /\ At(seq, k, x)[k] = x
         /\ \A i \in 1 .. Len(seq) : i # k => At(seq, k, x)[i] = seq[i]
  <1>1. CASE k = Len(seq) + 1
    BY <1>1 DEF At
  <1>2. CASE k # Len(seq) + 1
    BY <1>2 DEF At
  <1> QED BY <1>1, <1>2

\* addPeer fills one slot and leaves the others alone.
LEMMA AddPeerEffect ==
  ASSUME SlotTypeOK, NEW d \in Fds, AddPeer(d)
  PROVE  /\ SlotTypeOK'
         /\ Len(m_peerSockets') =
              IF SlotFor = Len(m_peerSockets) + 1 THEN SlotFor ELSE Len(m_peerSockets)
         /\ m_peerSockets'[SlotFor] = [fd |-> d, state |-> "CONNECTED"]
         /\ \A k \in 1 .. Len(m_peerSockets) :
              k # SlotFor => m_peerSockets'[k] = m_peerSockets[k]
         /\ Used' = Used \cup {SlotFor}
         /\ FreeSlots' = FreeSlots \ {SlotFor}
  <1> DEFINE k == SlotFor
             socket == [fd |-> d, state |-> "CONNECTED"]
             sockets == At(m_peerSockets, k, socket)
             yes == TRUE
             flags == At(m_peerSocketsConnectionFlags, k, yes)
             S == [fd : Fds, state : States]
  <1>1. k \in 1 .. Len(m_peerSockets) + 1 /\ Len(m_peerSockets) \in Nat
    BY SlotForIsFree DEF SlotTypeOK
  <1>2. m_peerSockets' = sockets /\ m_peerSocketsConnectionFlags' = flags
    BY DEF AddPeer, FlagsWith
  <1>3. socket \in S /\ m_peerSockets \in Seq(S)
    BY DEF SlotTypeOK
  <1> HIDE DEF k, socket, S
  <1>4. /\ sockets \in Seq(S)
        /\ Len(sockets) = IF k = Len(m_peerSockets) + 1 THEN k ELSE Len(m_peerSockets)
        /\ sockets[k] = socket
        /\ \A i \in 1 .. Len(m_peerSockets) : i # k => sockets[i] = m_peerSockets[i]
    BY <1>1, <1>3, AtEffect
  <1>5. /\ flags \in Seq(BOOLEAN)
        /\ Len(flags) = IF k = Len(m_peerSockets) + 1 THEN k ELSE Len(m_peerSockets)
        /\ flags[k] = TRUE
        /\ \A i \in 1 .. Len(m_peerSockets) :
             i # k => flags[i] = m_peerSocketsConnectionFlags[i]
    <2>1. /\ m_peerSocketsConnectionFlags \in Seq(BOOLEAN) /\ yes \in BOOLEAN
          /\ Len(m_peerSocketsConnectionFlags) = Len(m_peerSockets)
      BY DEF SlotTypeOK
    <2> HIDE DEF yes
    <2>2. /\ flags \in Seq(BOOLEAN)
          /\ Len(flags) = IF k = Len(m_peerSocketsConnectionFlags) + 1 THEN k
                          ELSE Len(m_peerSocketsConnectionFlags)
          /\ flags[k] = yes
          /\ \A i \in 1 .. Len(m_peerSocketsConnectionFlags) :
               i # k => flags[i] = m_peerSocketsConnectionFlags[i]
      BY <1>1, <2>1, AtEffect
    <2> HIDE DEF flags
    <2> QED BY <2>1, <2>2 DEF yes
  <1> HIDE DEF sockets, flags
  <1>6. SlotTypeOK'
    BY <1>2, <1>4, <1>5 DEF SlotTypeOK, S
  <1>7. 1 .. Len(sockets) = (1 .. Len(m_peerSockets)) \cup {k}
    BY <1>1, <1>4
  <1>8. Used' = {i \in 1 .. Len(sockets) : flags[i]}
    BY <1>2 DEF Used
  <1>9. Used' = Used \cup {k}
    BY <1>5, <1>7, <1>8, ZenonT(60) DEF Used
  <1>10. FreeSlots' = (1 .. Len(sockets)) \ Used'
    BY <1>2 DEF FreeSlots
  <1>11. FreeSlots' = FreeSlots \ {k}
    BY <1>7, <1>9, <1>10, ZenonT(60) DEF FreeSlots
  <1> QED BY <1>2, <1>4, <1>6, <1>9, <1>11 DEF k, socket

\* removePeer frees one slot and leaves the others alone.
LEMMA RemovePeerEffect ==
  ASSUME SlotTypeOK, NEW k \in Used, NEW s \in States, RemovePeer(k, s)
  PROVE  /\ SlotTypeOK'
         /\ Len(m_peerSockets') = Len(m_peerSockets)
         /\ m_peerSockets'[k] = [fd |-> m_peerSockets[k].fd, state |-> "DISCONNECTED"]
         /\ \A i \in 1 .. Len(m_peerSockets) :
              i # k => m_peerSockets'[i] = m_peerSockets[i]
         /\ Used' = Used \ {k}
         /\ FreeSlots' = FreeSlots \cup {k}
  <1>1. /\ m_peerSockets' = [m_peerSockets EXCEPT ![k].state = "DISCONNECTED"]
        /\ m_peerSocketsConnectionFlags' = [m_peerSocketsConnectionFlags EXCEPT ![k] = FALSE]
    BY DEF RemovePeer
  <1>2. k \in 1 .. Len(m_peerSockets) /\ Len(m_peerSockets) \in Nat
    BY DEF Used, SlotTypeOK
  <1>3. /\ m_peerSockets' \in Seq([fd : Fds, state : States])
        /\ Len(m_peerSockets') = Len(m_peerSockets)
        /\ m_peerSockets'[k] = [fd |-> m_peerSockets[k].fd, state |-> "DISCONNECTED"]
        /\ \A i \in 1 .. Len(m_peerSockets) :
             i # k => m_peerSockets'[i] = m_peerSockets[i]
    <2> DEFINE S == [fd : Fds, state : States]
               new == [fd |-> m_peerSockets[k].fd, state |-> "DISCONNECTED"]
    <2>1. m_peerSockets \in Seq(S)
      BY DEF SlotTypeOK
    <2> HIDE DEF S
    <2>2. m_peerSockets[k] \in S
      BY <1>2, <2>1
    <2>3. new \in S /\ [m_peerSockets[k] EXCEPT !.state = "DISCONNECTED"] = new
      BY <2>2 DEF S
    <2>4. m_peerSockets' = [m_peerSockets EXCEPT ![k] = new]
      BY <1>1, <2>3
    <2> HIDE DEF new
    <2>5. /\ m_peerSockets' \in Seq(S) /\ Len(m_peerSockets') = Len(m_peerSockets)
          /\ m_peerSockets'[k] = new
          /\ \A i \in 1 .. Len(m_peerSockets) :
               i # k => m_peerSockets'[i] = m_peerSockets[i]
      BY <1>2, <2>1, <2>3, <2>4
    <2> QED BY <2>5 DEF S, new
  <1>4. /\ m_peerSocketsConnectionFlags' \in Seq(BOOLEAN)
        /\ Len(m_peerSocketsConnectionFlags') = Len(m_peerSocketsConnectionFlags)
        /\ m_peerSocketsConnectionFlags'[k] = FALSE
        /\ \A i \in 1 .. Len(m_peerSockets) :
             i # k => m_peerSocketsConnectionFlags'[i] = m_peerSocketsConnectionFlags[i]
    BY <1>1, <1>2 DEF SlotTypeOK
  <1>5. Used' = {i \in 1 .. Len(m_peerSockets) : m_peerSocketsConnectionFlags'[i]}
    BY <1>3 DEF Used
  <1>6. Used' = Used \ {k}
    BY <1>2, <1>4, <1>5, ZenonT(60) DEF Used
  <1>7. FreeSlots' = (1 .. Len(m_peerSockets)) \ Used'
    BY <1>3 DEF FreeSlots
  <1>8. FreeSlots' = FreeSlots \cup {k}
    BY <1>2, <1>6, <1>7, ZenonT(60) DEF FreeSlots
  <1>9. SlotTypeOK'
    BY <1>3, <1>4 DEF SlotTypeOK
  <1> QED BY <1>3, <1>6, <1>8, <1>9

-----------------------------------------------------------------------------
\* What the invariant says of a slot in use.
LEMMA UsedFacts ==
  ASSUME Inv, NEW k \in Used
  PROVE  /\ k \in 1 .. Len(m_peerSockets)
         /\ m_peerSockets[k].fd \in Fds /\ m_peerSockets[k].fd \in registered
         /\ m_peerSocketIndexTable[m_peerSockets[k].fd] = k
         /\ m_peerSockets[k].state = "CONNECTED"
         /\ PeerOf(k) \in Clients /\ PeerOf(k) # None
  <1>1. k \in 1 .. Len(m_peerSockets)
    BY DEF Used
  <1>2. /\ m_peerSockets[k].fd \in registered
        /\ m_peerSocketIndexTable[m_peerSockets[k].fd] = k
    BY DEF Inv, TableExact
  <1>3. m_peerSockets[k].state = "CONNECTED"
    <2>1. ASSUME NEW d, m_peerSockets[k] = [fd |-> d, state |-> "CONNECTED"]
          PROVE  m_peerSockets[k].state = "CONNECTED"
      BY <2>1
    <2>2. m_peerSockets[k] = [fd |-> m_peerSockets[k].fd, state |-> "CONNECTED"]
      BY <1>2, Zenon DEF Inv, TableExact
    <2> QED BY <2>1, <2>2, Zenon
  <1>4. m_peerSockets[k].fd \in Fds
    BY <1>2 DEF Inv, TypeOK
  <1>5. fds[m_peerSockets[k].fd] # None
    BY <1>2 DEF Inv, SlotInv
  <1>6. PeerOf(k) \in Clients /\ PeerOf(k) # None
    BY <1>4, <1>5 DEF PeerOf, Inv, TypeOK, ServerTypeOK, KernelTypeOK
  <1> QED BY <1>1, <1>2, <1>3, <1>4, <1>6

LEMMA SlotTypes == Inv => SlotTypeOK
  BY DEF Inv, TypeOK, ServerTypeOK, SlotTypeOK

\* Two slots in use have different connections.
LEMMA SlotsApart ==
  ASSUME Inv, NEW k \in Used, NEW l \in Used, PeerOf(k) = PeerOf(l)
  PROVE  k = l
  <1>1. m_peerSockets[k].fd = m_peerSockets[l].fd
    <2>1. \A d, e \in Fds : fds[d] = fds[e] /\ fds[d] # None => d = e
      BY DEF Inv, KernelInv
    <2>2. fds[m_peerSockets[k].fd] = fds[m_peerSockets[l].fd]
          /\ fds[m_peerSockets[k].fd] # None
      BY UsedFacts DEF PeerOf
    <2> QED BY <2>1, <2>2, UsedFacts
  <1> QED BY <1>1, UsedFacts

\* A connection that waits in the backlog finds a slot: if none is free,
\* those in use belong to as many other clients.
LEMMA RoomForSlot ==
  ASSUME Inv, backlog # <<>>
  PROVE  SlotFor \in Slots
  <1>1. /\ SlotFor \in 1 .. Len(m_peerSockets) + 1
        /\ SlotFor = Len(m_peerSockets) + 1 => FreeSlots = {}
    BY SlotForIsFree, SlotTypes
  <1>2. Len(m_peerSockets) \in Nat /\ Len(m_peerSockets) <= Cardinality(Clients)
    BY DEF Inv, SlotInv, TypeOK, ServerTypeOK
  <1>3. Cardinality(Clients) \in Nat
    BY ClientCount
  <1>4. CASE SlotFor # Len(m_peerSockets) + 1
    BY <1>1, <1>2, <1>3, <1>4
  <1>5. CASE SlotFor = Len(m_peerSockets) + 1
    <2> DEFINE len == Len(m_peerSockets)
               first == Head(backlog)
               f == [k \in 1 .. len |-> PeerOf(k)]
    <2>1. \A k \in 1 .. len : k \in Used
      BY <1>1, <1>5 DEF FreeSlots
    <2>2. backlog \in Seq(Clients)
      BY DEF Inv, TypeOK, ServerTypeOK, KernelTypeOK
    <2>3. first = backlog[1] /\ 1 \in 1 .. Len(backlog) /\ first \in Clients
      BY <2>2
    <2>4. \A d \in Fds : fds[d] # first
      BY <2>3 DEF Inv, KernelInv
    <2>5. \A k \in 1 .. len : PeerOf(k) \in Clients \ {first}
      BY <2>1, <2>4, UsedFacts DEF PeerOf
    <2>6. \A k, l \in 1 .. len : PeerOf(k) = PeerOf(l) => k = l
      BY <2>1, SlotsApart
    <2> HIDE DEF first, len
    <2>7. f \in [1 .. len -> Clients \ {first}]
      BY <2>5
    <2>8. f \in Injection(1 .. len, Clients \ {first})
      BY <2>6, <2>7 DEF Injection, IsInjective
    <2>9. /\ IsFiniteSet(Clients \ {first})
          /\ Cardinality(Clients \ {first}) = Cardinality(Clients) - 1
      BY <2>3, FS_RemoveElement
    <2>10. Cardinality(1 .. len) <= Cardinality(Clients) - 1
      BY <2>8, <2>9, FS_Injection
    <2>11. len \in Nat
      BY <1>2 DEF len
    <2>12. Cardinality(1 .. len) = len
      BY <2>11, FS_Interval
    <2> QED BY <1>3, <1>5, <2>10, <2>11, <2>12 DEF len
  <1> QED BY <1>4, <1>5

\* Nobody is connected and the table is as operator[] finds it.
LEMMA InitInv == Init => Inv
  <1> SUFFICES ASSUME Init
               PROVE  Inv
    OBVIOUS
  <1> USE DEF Init, ServerInit, KernelInit
  <1>1. KernelTypeOK
    <2>1. listening \in BOOLEAN
      BY Zenon
    <2>2. backlog \in Seq(Clients)
      OBVIOUS
    <2>3. inbox \in [Clients -> Seq(Messages)]
      OBVIOUS
    <2>4. sends \in [Clients -> Nat] /\ \A c \in Clients : sends[c] <= MaxSends[c]
      OBVIOUS
    <2>5. peer \in [Clients -> Ends] /\ fds \in [Fds -> Clients \cup {None}]
      OBVIOUS
    <2> QED BY <2>1, <2>2, <2>3, <2>4, <2>5 DEF KernelTypeOK
  <1>2. ServerTypeOK
    <2>1. {killed, m_isStopping} \subseteq BOOLEAN
      BY Zenon
    <2>2. /\ m_peerSockets \in Seq([fd : Fds, state : States])
          /\ m_peerSocketsConnectionFlags \in Seq(BOOLEAN)
          /\ Len(m_peerSockets) = Len(m_peerSocketsConnectionFlags)
      OBVIOUS
    <2> QED BY <1>1, <2>1, <2>2 DEF ServerTypeOK
  <1>3. TypeOK
    <2>1. m_reactorThread \in BOOLEAN
      BY Zenon
    <2>2. m_peerSocketIndexTable \in [Fds -> Slots] /\ peerIndex \in 0 .. Cardinality(Clients)
      BY ClientCount
    <2>3. buffer \in Seq(Messages)
      OBVIOUS
    <2> QED BY <1>2, <2>1, <2>2, <2>3 DEF TypeOK
  <1>4. KernelInv
    BY DEF KernelInv
  <1>5. SlotInv
    BY ClientCount DEF SlotInv
  <1>6. Used = {} /\ FreeSlots = {}
    BY DEF Used, FreeSlots
  <1>7. TableExact /\ LiveWatched /\ BatchFresh /\ EventInv
    BY <1>6 DEF TableExact, LiveWatched, BatchFresh, EventInv
  <1> QED BY <1>3, <1>4, <1>5, <1>7 DEF Inv

-----------------------------------------------------------------------------
\* Two ways of a client: to come, and to go on as one that has come.
Coming(c) ==
  /\ peer[c] = "none" /\ peer' = [peer EXCEPT ![c] = "open"]
  /\ backlog' = Append(backlog, c) /\ UNCHANGED inbox
Going ==
  /\ UNCHANGED backlog
  /\ \A c \in Clients :
       /\ peer'[c] = "none" <=> peer[c] = "none"
       /\ peer[c] \notin {"none", "open"} =>
            peer'[c] # "open" /\ (inbox[c] = <<>> => inbox'[c] = <<>>)

\* The connections behind descriptors are clients that have come.
LEMMA OpenFacts ==
  ASSUME Inv, NEW d \in Fds, fds[d] # None
  PROVE  fds[d] \in Clients /\ peer[fds[d]] # "none"
  BY DEF Inv, TypeOK, ServerTypeOK, KernelTypeOK, KernelInv

LEMMA BacklogFacts ==
  ASSUME Inv
  PROVE  /\ backlog \in Seq(Clients) /\ Len(backlog) \in Nat
         /\ \A i \in 1 .. Len(backlog) : backlog[i] \in Clients
  <1>1. backlog \in Seq(Clients)
    BY DEF Inv, TypeOK, ServerTypeOK, KernelTypeOK
  <1> QED BY <1>1

\* The bookkeeping survives a step that leaves slots, table, epoll set and
\* descriptors alone.
LEMMA QuietStep ==
  ASSUME Inv, UNCHANGED <<slotVars, epollVars, fds>>,
         Going \/ \E c \in Clients : Coming(c)
  PROVE  KernelInv' /\ SlotInv' /\ TableExact' /\ LiveWatched'
  <1>0. /\ m_peerSockets' = m_peerSockets /\ fds' = fds /\ registered' = registered
        /\ m_peerSocketsConnectionFlags' = m_peerSocketsConnectionFlags
        /\ m_peerSocketIndexTable' = m_peerSocketIndexTable
    BY DEF slotVars, epollVars
  <1>1. SlotInv'
    BY <1>0 DEF Inv, SlotInv
  <1>2. Used' = Used /\ FreeSlots' = FreeSlots
    BY <1>0, Zenon DEF Used, FreeSlots
  <1>3. TableExact'
    BY <1>0, <1>2, Zenon DEF Inv, TableExact
  <1>4. peer \in [Clients -> Ends]
    BY DEF Inv, TypeOK, ServerTypeOK, KernelTypeOK
  <1>5. CASE Going
    <2>1. KernelInv'
      <3>1. backlog' = backlog
        BY <1>5 DEF Going
      <3>2. \A c \in Clients : peer'[c] = "none" <=> peer[c] = "none"
        BY <1>5 DEF Going
      <3>3. \A d \in Fds : fds[d] # None => peer'[fds[d]] # "none"
        BY <3>2, OpenFacts
      <3>4. \A i \in 1 .. Len(backlog) : peer'[backlog[i]] # "none"
        BY <3>2, BacklogFacts DEF Inv, KernelInv
      <3> QED BY <1>0, <3>1, <3>3, <3>4 DEF Inv, KernelInv
    <2>2. LiveWatched'
      <3> SUFFICES ASSUME NEW d \in Fds, fds[d] # None, d \notin registered
                   PROVE  peer'[fds[d]] # "open" /\ inbox'[fds[d]] = <<>>
        BY <1>0 DEF LiveWatched
      <3>1. fds[d] \in Clients /\ peer[fds[d]] # "none"
        BY OpenFacts
      <3>2. peer[fds[d]] # "open" /\ inbox[fds[d]] = <<>>
        BY DEF Inv, LiveWatched
      <3> QED BY <1>5, <3>1, <3>2 DEF Going
    <2> QED BY <1>1, <1>3, <2>1, <2>2
  <1>6. ASSUME NEW c \in Clients, Coming(c)
        PROVE  KernelInv' /\ LiveWatched'
    <2>1. \A d \in Fds : fds[d] # c
      BY <1>6, OpenFacts DEF Coming
    <2>2. \A d \in Fds : fds[d] # None => peer'[fds[d]] = peer[fds[d]]
      BY <1>4, <1>6, <2>1, OpenFacts DEF Coming
    <2>3. LiveWatched'
      BY <1>0, <1>6, <2>2 DEF Coming, Inv, LiveWatched
    <2>4. \A i \in 1 .. Len(backlog) : backlog[i] # c /\ peer'[backlog[i]] # "none"
      BY <1>4, <1>6, BacklogFacts DEF Coming, Inv, KernelInv
    <2>5. peer'[c] # "none"
      BY <1>4, <1>6 DEF Coming
    <2>6. /\ Len(backlog') = Len(backlog) + 1 /\ backlog'[Len(backlog) + 1] = c
          /\ \A i \in 1 .. Len(backlog) : backlog'[i] = backlog[i]
      BY <1>6, BacklogFacts DEF Coming
    <2>7. \A i \in 1 .. Len(backlog') : i = Len(backlog) + 1 \/ i \in 1 .. Len(backlog)
      BY <2>6, BacklogFacts
    <2>8. \A i, j \in 1 .. Len(backlog') : backlog'[i] = backlog'[j] => i = j
      BY <2>4, <2>6, <2>7 DEF Inv, KernelInv
    <2>9. \A i \in 1 .. Len(backlog') :
            peer'[backlog'[i]] # "none" /\ \A d \in Fds : fds[d] # backlog'[i]
      BY <2>1, <2>4, <2>5, <2>6, <2>7 DEF Inv, KernelInv
    <2>10. \A d \in Fds : fds[d] # None => peer'[fds[d]] # "none"
      BY <2>2 DEF Inv, KernelInv
    <2>11. KernelInv'
      BY <1>0, <2>8, <2>9, <2>10 DEF Inv, KernelInv
    <2> QED BY <2>3, <2>11
  <1> QED BY <1>1, <1>3, <1>5, <1>6

-----------------------------------------------------------------------------
\* TypeOK by parts: with the kernel's and the slots' these make it up.
MainTypeOK ==
  /\ main \in {"start", "create", "store", "serve", "join", "join_workers", "returned"}
  /\ {killed, m_isStopping} \subseteq BOOLEAN
  /\ m_reactorThread \in BOOLEAN

ReactorTypeOK ==
  /\ m_peerSocketIndexTable \in [Fds -> Slots]
  /\ registered \subseteq Fds
  /\ pc \in {"none", "name", "check", "wait", "dispatch", "receive", "send", "dismiss",
            "done"}
  /\ batch \subseteq Events
  /\ peerIndex \in 0 .. Cardinality(Clients)
  /\ buffer \in Seq(Messages)
  /\ errno \in Errnos

LEMMA TypeParts == TypeOK <=> KernelTypeOK /\ SlotTypeOK /\ MainTypeOK /\ ReactorTypeOK
  BY Zenon DEF TypeOK, ServerTypeOK, SlotTypeOK, MainTypeOK, ReactorTypeOK

LEMMA TypePartsPrime ==
  KernelTypeOK' /\ SlotTypeOK' /\ MainTypeOK' /\ ReactorTypeOK' => TypeOK'
  BY Zenon DEF TypeOK, ServerTypeOK, SlotTypeOK, MainTypeOK, ReactorTypeOK

\* An event of the batch belongs to a connection that is open and watched.
LEMMA EventFacts ==
  ASSUME Inv, NEW e \in batch, e.fd # Listening
  PROVE  /\ e.fd \in Fds /\ e.fd \in registered
         /\ fds[e.fd] \in Clients /\ fds[e.fd] # None
         /\ m_peerSocketIndexTable[e.fd] \in Used
         /\ m_peerSockets[m_peerSocketIndexTable[e.fd]].fd = e.fd
         /\ Readable(fds[e.fd])
  <1>1. e.fd \in registered /\ Readable(fds[e.fd])
    BY DEF Inv, BatchFresh, EventInv
  <1>2. e.fd \in Fds /\ fds[e.fd] # None
    BY <1>1 DEF Inv, SlotInv, TypeOK
  <1>3. /\ m_peerSocketIndexTable[e.fd] \in Used
        /\ m_peerSockets[m_peerSocketIndexTable[e.fd]].fd = e.fd
    <2>1. /\ m_peerSocketIndexTable[e.fd] \in Used
          /\ m_peerSockets[m_peerSocketIndexTable[e.fd]] = [fd |-> e.fd, state |-> "CONNECTED"]
      BY <1>1, Zenon DEF Inv, TableExact
    <2> QED BY <2>1
  <1> QED BY <1>1, <1>2, <1>3, OpenFacts

\* What the clients do leaves what the server has begun right, as long as it
\* takes nothing back.
LEMMA PeersStep ==
  ASSUME Inv, NEW c \in Clients, Going \/ Coming(c), KernelTypeOK', fds' = fds,
         \A b \in Clients : peer[b] # "none" /\ Readable(b) => Readable(b)',
         UNCHANGED <<killed, slotVars, epollVars, mainVars, m_reactorThread, pc,
                     eventVars, errno>>
  PROVE  Inv'
  <1>1. /\ SlotTypeOK /\ MainTypeOK /\ ReactorTypeOK /\ backlog \in Seq(Clients)
    BY TypeParts DEF Inv, KernelTypeOK
  <1>2. /\ batch' = batch /\ peerIndex' = peerIndex /\ pc' = pc
        /\ m_peerSockets' = m_peerSockets /\ registered' = registered
        /\ m_peerSocketsConnectionFlags' = m_peerSocketsConnectionFlags
    BY DEF eventVars, slotVars, epollVars
  <1>3. SlotTypeOK' /\ MainTypeOK' /\ ReactorTypeOK'
    BY <1>1, Zenon
       DEF SlotTypeOK, MainTypeOK, ReactorTypeOK, slotVars, epollVars, mainVars, eventVars
  <1>4. KernelInv' /\ SlotInv' /\ TableExact' /\ LiveWatched'
    BY QuietStep
  <1>5. backlog # <<>> => backlog' # <<>>
    BY <1>1 DEF Going, Coming
  <1>6. BatchFresh'
    <2>1. Used' = Used
      BY <1>2, Zenon DEF Used
    <2> QED BY <1>2, <1>5, <2>1 DEF Inv, BatchFresh
  <1>7. EventInv'
    <2>1. \A e \in batch : e.fd # Listening => Readable(fds[e.fd])'
      BY EventFacts, OpenFacts DEF Readable
    <2>2. ASSUME pc = "receive"
          PROVE  Conn' = Conn /\ Readable(Conn)'
      <3>1. peerIndex \in Used
        BY <2>2 DEF Inv, BatchFresh
      <3>2. Conn' = Conn
        BY <1>2 DEF Conn, PeerOf
      <3>3. Conn \in Clients /\ peer[Conn] # "none"
        BY <3>1, UsedFacts, OpenFacts DEF Conn, PeerOf
      <3>4. Readable(Conn)
        BY <2>2 DEF Inv, EventInv
      <3> QED BY <3>2, <3>3, <3>4 DEF Readable
    <2> QED BY <1>2, <2>1, <2>2 DEF Inv, EventInv, Readable
  <1> QED BY <1>3, <1>4, <1>6, <1>7, TypePartsPrime DEF Inv

\* A client connects, sends or ends.
LEMMA NetworkStep ==
  ASSUME Inv, Network,
         UNCHANGED <<killed, slotVars, epollVars, mainVars, m_reactorThread, pc,
                     eventVars, errno>>
  PROVE  Inv'
  <1>0. PICK c \in Clients : Connect(c) \/ ClientSend(c) \/ ClientEnds(c)
    BY DEF Network
  <1>1. /\ KernelTypeOK
        /\ peer \in [Clients -> Ends] /\ inbox \in [Clients -> Seq(Messages)]
        /\ sends \in [Clients -> Nat] /\ backlog \in Seq(Clients)
    BY TypeParts DEF Inv, KernelTypeOK
  <1>2. fds' = fds
    BY <1>0 DEF Connect, ClientSend, ClientEnds
  <1>3. KernelTypeOK'
    <2>1. CASE Connect(c)
      BY <1>1, <2>1 DEF Connect, KernelTypeOK
    <2>2. CASE ClientSend(c)
      <3>1. inbox' \in [Clients -> Seq(Messages)]
        BY <1>1, <2>2 DEF ClientSend
      <3>2. sends' \in [Clients -> Nat] /\ \A b \in Clients : sends'[b] <= MaxSends[b]
        BY <1>1, <2>2 DEF ClientSend, KernelTypeOK
      <3> QED BY <1>1, <2>2, <3>1, <3>2 DEF ClientSend, KernelTypeOK
    <2>3. CASE ClientEnds(c)
      BY <1>1, <2>3 DEF ClientEnds, KernelTypeOK
    <2> QED BY <1>0, <2>1, <2>2, <2>3
  <1>4. Going \/ Coming(c)
    <2>1. CASE Connect(c)
      BY <2>1 DEF Connect, Coming
    <2>2. CASE ClientSend(c)
      BY <1>1, <2>2 DEF ClientSend, Going
    <2>3. CASE ClientEnds(c)
      BY <1>1, <2>3 DEF ClientEnds, Going
    <2> QED BY <1>0, <2>1, <2>2, <2>3
  <1>5. ASSUME NEW b \in Clients, peer[b] # "none", Readable(b)
        PROVE  Readable(b)'
    <2>1. CASE Connect(c)
      BY <1>1, <1>5, <2>1 DEF Connect, Readable
    <2>2. CASE ClientSend(c)
      BY <1>1, <1>5, <2>2 DEF ClientSend, Readable
    <2>3. CASE ClientEnds(c)
      BY <1>1, <1>5, <2>3 DEF ClientEnds, Readable
    <2> QED BY <1>0, <2>1, <2>2, <2>3
  <1> QED BY <1>2, <1>3, <1>4, <1>5, PeersStep

-----------------------------------------------------------------------------
\* onClientDisconnected of a slot in use, at the end of an event: its socket is
\* closed, or has been marked after the client ended and sent nothing more.
LEMMA DisconnectStep ==
  ASSUME Inv, NEW k \in Used, NEW s \in States, Disconnect(k, s),
         s = "DISCONNECTED" => peer[PeerOf(k)] # "open" /\ inbox[PeerOf(k)] = <<>>,
         batch' \subseteq batch, \A e \in batch' : e.fd # m_peerSockets[k].fd,
         pc' \in {"check", "dispatch"}, killed' \in BOOLEAN, errno' \in Errnos,
         peerIndex' \in 0 .. Cardinality(Clients), buffer' \in Seq(Messages),
         UNCHANGED <<mainVars, m_reactorThread>>
  PROVE  Inv'
  <1> DEFINE d == m_peerSockets[k].fd
             c == PeerOf(k)
  <1>1. /\ KernelTypeOK /\ SlotTypeOK /\ MainTypeOK /\ ReactorTypeOK
        /\ peer \in [Clients -> Ends] /\ inbox \in [Clients -> Seq(Messages)]
        /\ fds \in [Fds -> Clients \cup {None}]
    BY TypeParts DEF Inv, KernelTypeOK
  <1>2. /\ k \in 1 .. Len(m_peerSockets) /\ d \in Fds /\ d \in registered
        /\ m_peerSocketIndexTable[d] = k
        /\ c \in Clients /\ c # None /\ fds[d] = c
    BY UsedFacts DEF PeerOf
  <1>3. /\ RemovePeer(k, s) /\ registered' = registered \ {d}
        /\ m_peerSocketIndexTable' = m_peerSocketIndexTable
    BY DEF Disconnect
  <1>4. /\ SlotTypeOK' /\ Len(m_peerSockets') = Len(m_peerSockets)
        /\ m_peerSockets'[k] = [fd |-> d, state |-> "DISCONNECTED"]
        /\ \A i \in 1 .. Len(m_peerSockets) :
             i # k => m_peerSockets'[i] = m_peerSockets[i]
        /\ Used' = Used \ {k} /\ FreeSlots' = FreeSlots \cup {k}
    BY <1>1, <1>3, RemovePeerEffect
  <1> HIDE DEF d, c
  <1>5. /\ listening' = listening /\ backlog' = backlog /\ sends' = sends
        /\ \/ fds' = fds /\ peer' = peer /\ inbox' = inbox
              /\ peer[c] # "open" /\ inbox[c] = <<>>
           \/ /\ fds' = [fds EXCEPT ![d] = None] /\ peer' = [peer EXCEPT ![c] = "gone"]
              /\ inbox' = [inbox EXCEPT ![c] = <<>>]
    BY <1>2, <1>3 DEF RemovePeer, DescriptorClosed, kernelVars, d, c
  <1>6. KernelTypeOK'
    <2>1. peer' \in [Clients -> Ends]
      BY <1>1, <1>5
    <2>2. inbox' \in [Clients -> Seq(Messages)]
      <3>1. <<>> \in Seq(Messages)
        OBVIOUS
      <3> QED BY <1>1, <1>5, <3>1, Zenon
    <2>3. fds' \in [Fds -> Clients \cup {None}]
      BY <1>1, <1>5
    <2> QED BY <1>1, <1>5, <2>1, <2>2, <2>3, Zenon DEF KernelTypeOK
  <1>7. MainTypeOK'
    BY <1>1, Zenon DEF MainTypeOK, mainVars
  <1>8. ReactorTypeOK'
    BY <1>1, <1>3 DEF ReactorTypeOK
  <1>9. \A e \in Fds : e # d => fds'[e] = fds[e]
    BY <1>1, <1>5
  <1>10. \A b \in Clients : b # c => peer'[b] = peer[b] /\ inbox'[b] = inbox[b]
    BY <1>1, <1>5
  <1>11. \A b \in Clients : peer'[b] = "none" <=> peer[b] = "none"
    <2>1. peer[c] # "none"
      BY <1>2, OpenFacts
    <2> QED BY <1>1, <1>5, <2>1
  <1>12. \A e \in Fds : fds'[e] = None \/ fds'[e] = fds[e]
    BY <1>1, <1>5
  <1>13. KernelInv'
    <2>1. \A i \in 1 .. Len(backlog) : peer'[backlog[i]] # "none"
      BY <1>11, BacklogFacts DEF Inv, KernelInv
    <2>2. \A i \in 1 .. Len(backlog) : \A e \in Fds : fds'[e] # backlog[i]
      BY <1>12, BacklogFacts DEF Inv, KernelInv
    <2>3. \A e \in Fds : fds'[e] # None => peer'[fds'[e]] # "none"
      BY <1>11, <1>12, OpenFacts
    <2>4. \A e, f \in Fds : fds'[e] = fds'[f] /\ fds'[e] # None => e = f
      BY <1>12 DEF Inv, KernelInv
    <2> QED BY <1>5, <2>1, <2>2, <2>3, <2>4 DEF Inv, KernelInv
  <1>14. SlotInv'
    BY <1>3, <1>4, <1>8, <1>9 DEF Inv, SlotInv, ReactorTypeOK
  <1>15. TableExact'
    <2>1. ASSUME NEW e \in registered'
          PROVE  /\ m_peerSocketIndexTable[e] \in Used'
                 /\ m_peerSockets'[m_peerSocketIndexTable[e]] = [fd |-> e, state |-> "CONNECTED"]
      <3>1. e \in registered /\ e # d
        BY <1>3, <2>1
      <3>2. /\ m_peerSocketIndexTable[e] \in Used
            /\ m_peerSockets[m_peerSocketIndexTable[e]] = [fd |-> e, state |-> "CONNECTED"]
        BY <3>1, Zenon DEF Inv, TableExact
      <3>3. m_peerSockets[m_peerSocketIndexTable[e]].fd = e
        BY <3>2
      <3>4. m_peerSocketIndexTable[e] # k
        BY <3>1, <3>3 DEF d
      <3>5. m_peerSocketIndexTable[e] \in 1 .. Len(m_peerSockets)
        BY <3>2 DEF Used
      <3> QED BY <1>4, <3>2, <3>4, <3>5
    <2>2. ASSUME NEW i \in Used'
          PROVE  /\ m_peerSockets'[i].fd \in registered'
                 /\ m_peerSocketIndexTable[m_peerSockets'[i].fd] = i
      <3>1. i \in Used /\ i # k
        BY <1>4, <2>2
      <3>2. /\ i \in 1 .. Len(m_peerSockets) /\ m_peerSockets[i].fd \in registered
            /\ m_peerSocketIndexTable[m_peerSockets[i].fd] = i
        BY <3>1, UsedFacts
      <3>3. m_peerSockets'[i] = m_peerSockets[i]
        BY <1>4, <3>1, <3>2
      <3> QED BY <1>2, <1>3, <3>1, <3>2, <3>3
    <2>3. ASSUME NEW i \in FreeSlots'
          PROVE  m_peerSockets'[i].state = "DISCONNECTED"
      <3>1. CASE i = k
        BY <1>4, <3>1
      <3>2. CASE i # k
        <4>1. i \in FreeSlots /\ i \in 1 .. Len(m_peerSockets)
          BY <1>4, <2>3, <3>2 DEF FreeSlots
        <4> QED BY <1>4, <3>2, <4>1 DEF Inv, TableExact
      <3> QED BY <3>1, <3>2
    <2> QED BY <1>3, <2>1, <2>2, <2>3 DEF TableExact
  <1>16. LiveWatched'
    <2> SUFFICES ASSUME NEW e \in Fds, fds'[e] # None, e \notin registered'
                 PROVE  peer'[fds'[e]] # "open" /\ inbox'[fds'[e]] = <<>>
      BY DEF LiveWatched
    <2>1. CASE e = d
      BY <1>1, <1>2, <1>5, <2>1
    <2>2. CASE e # d
      <3>1. fds'[e] = fds[e] /\ e \notin registered
        BY <1>3, <1>9, <2>2
      <3>2. fds[e] \in Clients /\ fds[e] # c
        BY <1>2, <2>2, <3>1, OpenFacts DEF Inv, KernelInv
      <3>3. peer[fds[e]] # "open" /\ inbox[fds[e]] = <<>>
        BY <3>1 DEF Inv, LiveWatched
      <3> QED BY <1>10, <3>1, <3>2, <3>3
    <2> QED BY <2>1, <2>2
  <1>17. ASSUME NEW e \in batch', e.fd # Listening
         PROVE  /\ e.fd \in registered' /\ fds'[e.fd] = e.conn
                /\ Readable(fds[e.fd])' /\ fds'[e.fd] = fds[e.fd]
    <2>1. e.fd # d /\ e \in batch
      BY DEF d
    <2>2. /\ e.fd \in Fds /\ e.fd \in registered /\ fds[e.fd] \in Clients
          /\ fds[e.fd] # None /\ Readable(fds[e.fd]) /\ fds[e.fd] = e.conn
      BY <1>17, <2>1, EventFacts DEF Inv, BatchFresh
    <2>3. fds'[e.fd] = fds[e.fd] /\ fds[e.fd] # c
      BY <1>2, <1>9, <2>1, <2>2 DEF Inv, KernelInv
    <2>4. Readable(fds[e.fd])'
      BY <1>10, <2>2, <2>3 DEF Readable
    <2> QED BY <1>3, <2>1, <2>2, <2>3, <2>4
  <1>18. BatchFresh' /\ EventInv'
    BY <1>5, <1>17 DEF Inv, BatchFresh, EventInv, Readable
  <1> QED BY <1>4, <1>6, <1>7, <1>8, <1>13, <1>14, <1>15, <1>16, <1>18, TypePartsPrime
          DEF Inv

-----------------------------------------------------------------------------
\* The event of the listening socket is the only one of its descriptor.
LEMMA ListeningEvent ==
  ASSUME Inv, NEW e \in batch, e.fd = Listening, NEW f \in batch \ {e}
  PROVE  f.fd # Listening
  BY DEF Inv, EventInv

\* acceptNewConnection with a descriptor to spare: the connection moves from
\* the backlog to a descriptor and a slot that nobody uses.
LEMMA AcceptStep ==
  ASSUME Inv, AcceptEvent, FreeFds # {}, UNCHANGED <<mainVars, m_reactorThread>>
  PROVE  Inv'
  <1> DEFINE d == LowestFree
             k == SlotFor
             c == Head(backlog)
  <1>1. PICK ev \in batch : ev.fd = Listening /\ batch' = batch \ {ev}
    BY DEF AcceptEvent
  <1>2. /\ KernelTypeOK /\ SlotTypeOK /\ MainTypeOK /\ ReactorTypeOK
        /\ peer \in [Clients -> Ends] /\ inbox \in [Clients -> Seq(Messages)]
        /\ fds \in [Fds -> Clients \cup {None}] /\ backlog \in Seq(Clients)
        /\ registered \subseteq Fds
        /\ m_peerSocketIndexTable \in [Fds -> Slots]
    BY TypeParts DEF Inv, KernelTypeOK, ReactorTypeOK
  <1>3. backlog # <<>>
    BY <1>1 DEF Inv, BatchFresh
  <1>4. d \in Fds /\ fds[d] = None
    BY LowestFreeIsFree DEF FreeFds
  <1>5. /\ k \in Slots /\ k \in 1 .. Len(m_peerSockets) + 1 /\ k \notin Used
        /\ Len(m_peerSockets) \in Nat /\ Len(m_peerSockets) <= Cardinality(Clients)
        /\ Cardinality(Clients) \in Nat
    BY <1>2, <1>3, RoomForSlot, SlotForIsFree, ClientCount DEF SlotTypeOK, Inv, SlotInv
  <1>6. /\ SlotTypeOK'
        /\ Len(m_peerSockets') = IF k = Len(m_peerSockets) + 1 THEN k ELSE Len(m_peerSockets)
        /\ m_peerSockets'[k] = [fd |-> d, state |-> "CONNECTED"]
        /\ \A i \in 1 .. Len(m_peerSockets) :
             i # k => m_peerSockets'[i] = m_peerSockets[i]
        /\ Used' = Used \cup {k} /\ FreeSlots' = FreeSlots \ {k}
    <2>1. AddPeer(d)
      BY DEF AcceptEvent
    <2> QED BY <1>2, <1>4, <2>1, AddPeerEffect
  <1>7. /\ backlog' = Tail(backlog) /\ fds' = [fds EXCEPT ![d] = c]
        /\ m_peerSocketIndexTable' = [m_peerSocketIndexTable EXCEPT ![d] = k]
        /\ registered' = registered \cup {d}
        /\ listening' = listening /\ peer' = peer /\ inbox' = inbox /\ sends' = sends
        /\ pc' \in {"check", "dispatch"} /\ killed' = killed /\ errno' = errno
        /\ peerIndex' = peerIndex /\ buffer' = buffer
    BY DEF AcceptEvent, Accepted, TableWith, Watched, NextEvent
  <1> HIDE DEF d, k, c
  <1>8. /\ c = backlog[1] /\ 1 \in 1 .. Len(backlog) /\ c \in Clients
        /\ Len(backlog') = Len(backlog) - 1 /\ Len(backlog) \in Nat
        /\ backlog' \in Seq(Clients)
        /\ \A i \in 1 .. Len(backlog') :
             /\ backlog'[i] = backlog[i + 1] /\ i + 1 \in 1 .. Len(backlog)
             /\ i + 1 # 1
    BY <1>2, <1>3, <1>7 DEF c
  <1>9. c # None /\ peer[c] # "none" /\ \A e \in Fds : fds[e] # c
    BY <1>8 DEF Inv, KernelInv
  <1>10. KernelTypeOK'
    <2>1. fds' \in [Fds -> Clients \cup {None}]
      BY <1>2, <1>7, <1>8
    <2> QED BY <1>2, <1>7, <1>8, <2>1, Zenon DEF KernelTypeOK
  <1>11. MainTypeOK'
    BY <1>2, <1>7, Zenon DEF MainTypeOK, mainVars
  <1>12. ReactorTypeOK'
    <2>1. m_peerSocketIndexTable' \in [Fds -> Slots] /\ registered' \subseteq Fds
      BY <1>2, <1>4, <1>5, <1>7
    <2>2. batch' \subseteq Events
      BY <1>1, <1>2 DEF ReactorTypeOK
    <2> QED BY <1>2, <1>7, <2>1, <2>2 DEF ReactorTypeOK
  <1>13. \A e \in Fds : e # d => fds'[e] = fds[e]
    BY <1>2, <1>7
  <1>14. fds'[d] = c
    BY <1>2, <1>4, <1>7
  <1>15. KernelInv'
    <2>1. \A i, j \in 1 .. Len(backlog') : backlog'[i] = backlog'[j] => i = j
      <3>1. ASSUME NEW i \in 1 .. Len(backlog'), NEW j \in 1 .. Len(backlog'),
                   backlog'[i] = backlog'[j]
            PROVE  i = j
        <4>1. /\ i + 1 \in 1 .. Len(backlog) /\ j + 1 \in 1 .. Len(backlog)
              /\ backlog[i + 1] = backlog[j + 1]
          BY <1>8, <3>1
        <4>2. i + 1 = j + 1
          BY <4>1, Zenon DEF Inv, KernelInv
        <4> QED BY <1>8, <4>2
      <3> QED BY <3>1
    <2>2. \A i \in 1 .. Len(backlog') : backlog'[i] # c /\ peer[backlog'[i]] # "none"
      <3> SUFFICES ASSUME NEW i \in 1 .. Len(backlog')
                   PROVE  backlog'[i] # c /\ peer[backlog'[i]] # "none"
        OBVIOUS
      <3>1. /\ i + 1 \in 1 .. Len(backlog) /\ i + 1 # 1
            /\ backlog'[i] = backlog[i + 1]
        BY <1>8
      <3>2. backlog[i + 1] # backlog[1] /\ peer[backlog[i + 1]] # "none"
        BY <1>8, <3>1, Zenon DEF Inv, KernelInv
      <3> QED BY <1>8, <3>1, <3>2
    <2>3. \A i \in 1 .. Len(backlog') : \A e \in Fds : fds[e] # backlog'[i]
      BY <1>8 DEF Inv, KernelInv
    <2>4. \A i \in 1 .. Len(backlog') : \A e \in Fds : fds'[e] # backlog'[i]
      BY <1>13, <1>14, <2>2, <2>3
    <2>5. \A e \in Fds : fds'[e] # None => peer[fds'[e]] # "none"
      BY <1>9, <1>13, <1>14 DEF Inv, KernelInv
    <2>6. \A e, f \in Fds : fds'[e] = fds'[f] /\ fds'[e] # None => e = f
      BY <1>9, <1>13, <1>14 DEF Inv, KernelInv
    <2> QED BY <1>7, <2>1, <2>2, <2>4, <2>5, <2>6 DEF KernelInv
  <1>16. SlotInv'
    <2>1. Len(m_peerSockets') <= Cardinality(Clients)
      BY <1>5, <1>6
    <2>2. \A e \in registered' : fds'[e] # None
      BY <1>2, <1>7, <1>9, <1>13, <1>14 DEF Inv, SlotInv
    <2> QED BY <2>1, <2>2 DEF SlotInv
  <1>17. d \notin registered
    BY <1>4 DEF Inv, SlotInv
  <1>18. TableExact'
    <2>1. ASSUME NEW e \in registered'
          PROVE  /\ m_peerSocketIndexTable'[e] \in Used'
                 /\ m_peerSockets'[m_peerSocketIndexTable'[e]] = [fd |-> e, state |-> "CONNECTED"]
      <3>1. CASE e = d
        BY <1>2, <1>4, <1>6, <1>7, <3>1
      <3>2. CASE e # d
        <4>1. e \in registered /\ m_peerSocketIndexTable'[e] = m_peerSocketIndexTable[e]
          BY <1>2, <1>7, <2>1, <3>2
        <4>2. /\ m_peerSocketIndexTable[e] \in Used
              /\ m_peerSockets[m_peerSocketIndexTable[e]] = [fd |-> e, state |-> "CONNECTED"]
          BY <4>1, Zenon DEF Inv, TableExact
        <4>3. m_peerSocketIndexTable[e] \in 1 .. Len(m_peerSockets)
          BY <4>2 DEF Used
        <4> QED BY <1>5, <1>6, <4>1, <4>2, <4>3
      <3> QED BY <3>1, <3>2
    <2>2. ASSUME NEW i \in Used'
          PROVE  /\ m_peerSockets'[i].fd \in registered'
                 /\ m_peerSocketIndexTable'[m_peerSockets'[i].fd] = i
      <3>1. CASE i = k
        <4>1. m_peerSockets'[i].fd = d
          BY <1>6, <3>1
        <4> QED BY <1>2, <1>4, <1>7, <3>1, <4>1
      <3>2. CASE i # k
        <4>1. i \in Used
          BY <1>6, <2>2, <3>2
        <4>2. /\ i \in 1 .. Len(m_peerSockets) /\ m_peerSockets[i].fd \in registered
              /\ m_peerSocketIndexTable[m_peerSockets[i].fd] = i
          BY <4>1, UsedFacts
        <4>3. m_peerSockets'[i] = m_peerSockets[i]
          BY <1>6, <3>2, <4>2
        <4> QED BY <1>2, <1>7, <1>17, <4>2, <4>3
      <3> QED BY <3>1, <3>2
    <2>3. ASSUME NEW i \in FreeSlots'
          PROVE  m_peerSockets'[i].state = "DISCONNECTED"
      <3>1. i \in FreeSlots /\ i # k
        BY <1>6, <2>3
      <3>2. i \in 1 .. Len(m_peerSockets)
        BY <3>1 DEF FreeSlots
      <3> QED BY <1>6, <3>1, <3>2 DEF Inv, TableExact
    <2> QED BY <2>1, <2>2, <2>3 DEF TableExact
  <1>19. LiveWatched'
    BY <1>2, <1>7, <1>13 DEF Inv, LiveWatched
  <1>20. ASSUME NEW e \in batch'
         PROVE  /\ e.fd # Listening
                /\ e.fd \in registered' /\ fds'[e.fd] = e.conn
                /\ Readable(fds[e.fd])' /\ fds'[e.fd] = fds[e.fd]
    <2>1. e \in batch /\ e.fd # Listening
      BY <1>1, <1>20, ListeningEvent
    <2>2. /\ e.fd \in Fds /\ e.fd \in registered /\ fds[e.fd] \in Clients
          /\ fds[e.fd] # None /\ Readable(fds[e.fd]) /\ fds[e.fd] = e.conn
      BY <2>1, EventFacts DEF Inv, BatchFresh
    <2>3. fds'[e.fd] = fds[e.fd]
      BY <1>4, <1>13, <2>2
    <2> QED BY <1>7, <2>1, <2>2, <2>3 DEF Readable
  <1>21. BatchFresh' /\ EventInv'
    BY <1>1, <1>7, <1>20 DEF Inv, BatchFresh, EventInv, Readable
  <1> QED BY <1>6, <1>10, <1>11, <1>12, <1>15, <1>16, <1>18, <1>19, <1>21, TypePartsPrime
          DEF Inv

-----------------------------------------------------------------------------
\* A step that leaves connections, slots, table and epoll set alone, and goes
\* on with the events of the batch or not.
LEMMA StillStep ==
  ASSUME Inv, UNCHANGED <<backlog, peer, inbox, fds, sends, slotVars, epollVars>>,
         listening' \in BOOLEAN, MainTypeOK', ReactorTypeOK', batch' \subseteq batch,
         pc' \in {"receive", "send", "dismiss"} => pc' = pc /\ peerIndex' = peerIndex
  PROVE  Inv'
  <1>1. /\ KernelTypeOK /\ SlotTypeOK
    BY TypeParts DEF Inv
  <1>2. /\ fds' = fds /\ peer' = peer /\ inbox' = inbox /\ registered' = registered
        /\ m_peerSockets' = m_peerSockets /\ backlog' = backlog
        /\ m_peerSocketsConnectionFlags' = m_peerSocketsConnectionFlags
    BY DEF slotVars, epollVars
  <1>3. KernelTypeOK' /\ SlotTypeOK'
    BY <1>1, Zenon DEF KernelTypeOK, SlotTypeOK, slotVars
  <1>4. Going
    BY DEF Going
  <1>5. KernelInv' /\ SlotInv' /\ TableExact' /\ LiveWatched'
    BY <1>4, QuietStep
  <1>6. Used' = Used
    BY <1>2, Zenon DEF Used
  <1>7. BatchFresh'
    BY <1>2, <1>6 DEF Inv, BatchFresh
  <1>8. EventInv'
    BY <1>2 DEF Inv, EventInv, Readable, Conn, PeerOf
  <1> QED BY <1>3, <1>5, <1>7, <1>8, TypePartsPrime DEF Inv

\* handleClient has received from its connection or sent to it.
LEMMA HandlerStep ==
  ASSUME Inv, pc \in {"receive", "send"},
         UNCHANGED <<fds, batch, slotVars, epollVars>>, Going,
         KernelTypeOK', MainTypeOK', ReactorTypeOK',
         \A c \in Clients : c # Conn => peer'[c] = peer[c] /\ inbox'[c] = inbox[c],
         \/ pc' \in {"send", "dismiss"} /\ peerIndex' = peerIndex
         \/ pc' \in {"check", "dispatch"}
  PROVE  Inv'
  <1>1. SlotTypeOK
    BY TypeParts DEF Inv
  <1>2. /\ fds' = fds /\ registered' = registered /\ batch' = batch
        /\ m_peerSockets' = m_peerSockets /\ backlog' = backlog
        /\ m_peerSocketsConnectionFlags' = m_peerSocketsConnectionFlags
    BY DEF slotVars, epollVars, Going
  <1>3. SlotTypeOK'
    BY <1>1, <1>2, Zenon DEF SlotTypeOK
  <1>4. KernelInv' /\ SlotInv' /\ TableExact' /\ LiveWatched'
    BY QuietStep
  <1>5. Used' = Used
    BY <1>2, Zenon DEF Used
  <1>6. BatchFresh'
    BY <1>2, <1>5 DEF Inv, BatchFresh
  <1>7. peerIndex \in Used
    BY DEF Inv, BatchFresh
  <1>8. ASSUME NEW e \in batch, e.fd # Listening
        PROVE  Readable(fds[e.fd])'
    <2>1. /\ e.fd \in Fds /\ fds[e.fd] \in Clients /\ fds[e.fd] # None
          /\ Readable(fds[e.fd])
      BY <1>8, EventFacts
    <2>2. e.fd # m_peerSockets[peerIndex].fd
      BY DEF Inv, EventInv
    <2>3. fds[e.fd] # Conn
      BY <1>7, <2>1, <2>2, UsedFacts DEF Conn, PeerOf, Inv, KernelInv
    <2> QED BY <1>2, <2>1, <2>3 DEF Readable
  <1>9. EventInv'
    BY <1>2, <1>8 DEF Inv, EventInv, Readable
  <1> QED BY <1>3, <1>4, <1>6, <1>9, TypePartsPrime DEF Inv

-----------------------------------------------------------------------------
LEMMA MainStep ==
  ASSUME Inv, Main \/ Operator
  PROVE  Inv'
  <1>1. /\ MainTypeOK /\ ReactorTypeOK /\ listening \in BOOLEAN
    BY TypeParts DEF Inv, KernelTypeOK
  <1> USE DEF Main, Operator, Start, Stop, CreateThread, StoreThread, JoinReactor,
              serverVars, kernelVars, eventVars, slotVars, epollVars
  <1>2. /\ UNCHANGED <<backlog, peer, inbox, fds, sends, slotVars, epollVars>>
        /\ listening' \in BOOLEAN /\ batch' = batch
        /\ pc' \in {"receive", "send", "dismiss"} => pc' = pc /\ peerIndex' = peerIndex
    BY <1>1, Zenon
  <1>3. MainTypeOK'
    <2>1. main' \in {"start", "create", "store", "serve", "join", "join_workers", "returned"}
      BY <1>1 DEF MainTypeOK
    <2>2. killed' = killed /\ m_isStopping' \in BOOLEAN /\ m_reactorThread' \in BOOLEAN
      BY <1>1, Zenon DEF MainTypeOK
    <2> QED BY <1>1, <2>1, <2>2, Zenon DEF MainTypeOK
  <1>4. ReactorTypeOK'
    BY <1>1 DEF ReactorTypeOK
  <1> QED BY <1>2, <1>3, <1>4, StillStep

\* The label after an event.
LEMMA NextEventType == NextEvent \in {"check", "dispatch"}
  BY DEF NextEvent

LEMMA ReactorStep ==
  ASSUME Inv, Reactor
  PROVE  Inv'
  <1>1. /\ KernelTypeOK /\ SlotTypeOK /\ MainTypeOK /\ ReactorTypeOK
        /\ peer \in [Clients -> Ends] /\ inbox \in [Clients -> Seq(Messages)]
        /\ fds \in [Fds -> Clients \cup {None}]
    BY TypeParts DEF Inv, KernelTypeOK
  <1>2. UNCHANGED <<mainVars, m_reactorThread>>
    BY DEF Reactor
  <1>3. ASSUME killed' \in BOOLEAN
        PROVE  MainTypeOK'
    BY <1>1, <1>2, <1>3, Zenon DEF MainTypeOK, mainVars
  <1>4. killed \in BOOLEAN /\ listening \in BOOLEAN
    BY <1>1, Zenon DEF MainTypeOK, KernelTypeOK
  <1>5. ASSUME pc \in {"receive", "send", "dismiss"}
        PROVE  /\ peerIndex \in Used /\ Conn \in Clients /\ peer[Conn] # "none"
               /\ m_peerSockets[peerIndex].fd \in Fds
               /\ m_peerSockets[peerIndex].state = "CONNECTED"
               /\ \A e \in batch : e.fd # m_peerSockets[peerIndex].fd
    <2>1. peerIndex \in Used
      BY <1>5 DEF Inv, BatchFresh
    <2>2. m_peerSockets[peerIndex].state = "CONNECTED"
      BY <2>1, UsedFacts
    <2>3. \A e \in batch : e.fd # m_peerSockets[peerIndex].fd
      BY <1>5 DEF Inv, EventInv
    <2> QED BY <2>1, <2>2, <2>3, UsedFacts, OpenFacts DEF Conn, PeerOf
  <1>6. CASE SetName
    <2>1. killed' \in BOOLEAN
      BY <1>1, <1>6, Zenon DEF SetName, MainTypeOK
    <2>2. ReactorTypeOK'
      BY <1>1, <1>6 DEF SetName, ReactorTypeOK, eventVars, epollVars
    <2> QED BY <1>3, <1>4, <1>6, <2>1, <2>2, StillStep
            DEF SetName, eventVars, epollVars, kernelVars, slotVars
  <1>7. CASE CheckStop
    <2>1. ReactorTypeOK'
      BY <1>1, <1>7 DEF CheckStop, ReactorTypeOK, eventVars, epollVars, serverVars
    <2> QED BY <1>3, <1>4, <1>7, <2>1, StillStep
            DEF CheckStop, eventVars, epollVars, kernelVars, slotVars, serverVars
  <1>8. CASE AcceptEvent
    <2>1. CASE FreeFds # {}
      BY <1>2, <1>8, <2>1, AcceptStep
    <2>2. CASE FreeFds = {}
      <3>1. /\ UNCHANGED <<kernelVars, slotVars, epollVars, killed, peerIndex, buffer>>
            /\ errno' = "other" /\ pc' = NextEvent /\ batch' \subseteq batch
        BY <1>8, <2>2 DEF AcceptEvent
      <3>2. ReactorTypeOK'
        BY <1>1, <3>1, NextEventType DEF ReactorTypeOK, epollVars
      <3> QED BY <1>3, <1>4, <3>1, <3>2, NextEventType, StillStep
              DEF epollVars, kernelVars, slotVars
    <2> QED BY <2>1, <2>2
  <1>9. CASE Wait
    <2>1. /\ UNCHANGED <<backlog, peer, inbox, fds, sends, slotVars, epollVars>>
          /\ pc' \in {"check", "dispatch"} /\ listening' = listening /\ killed' = killed
          /\ errno' = errno /\ peerIndex' = peerIndex /\ buffer' = buffer
          /\ batch' = ReadyEvents
      BY <1>9, NextEventType DEF Wait, Reported, serverVars, kernelVars
    <2>2. ASSUME NEW e \in ReadyEvents
          PROVE  \/ e = [fd |-> Listening, conn |-> None, valid |-> TRUE] /\ backlog # <<>>
                 \/ /\ e.fd \in registered /\ e.fd # Listening
                    /\ Readable(fds[e.fd]) /\ fds[e.fd] \in Clients
                    /\ e = [fd |-> e.fd, conn |-> fds[e.fd],
                            valid |-> ~IsReset(peer[fds[e.fd]])]
      <3>1. CASE e \in [fd : {x \in {Listening} : backlog # <<>>}, conn : {None}, valid : {TRUE}]
        BY <3>1
      <3>2. CASE e \in {[fd |-> d, conn |-> fds[d], valid |-> ~IsReset(peer[fds[d]])] :
                         d \in {x \in registered : Readable(fds[x])}}
        <4>1. PICK d \in registered :
                /\ Readable(fds[d])
                /\ e = [fd |-> d, conn |-> fds[d], valid |-> ~IsReset(peer[fds[d]])]
          BY <3>2, Zenon
        <4>2. d \in Fds /\ fds[d] # None
          BY <1>1 DEF ReactorTypeOK, Inv, SlotInv
        <4>3. e.fd = d
          BY <4>1
        <4>4. fds[d] \in Clients /\ d # Listening
          BY <4>2, OpenFacts
        <4> QED BY <4>1, <4>3, <4>4
      <3> QED BY <2>2, <3>1, <3>2, Zenon DEF ReadyEvents
    <2>3. batch' \subseteq Events
      <3> SUFFICES ASSUME NEW e \in ReadyEvents
                   PROVE  e \in Events
        BY <2>1
      <3>1. CASE e = [fd |-> Listening, conn |-> None, valid |-> TRUE]
        BY <3>1 DEF Events
      <3>2. CASE e # [fd |-> Listening, conn |-> None, valid |-> TRUE]
        <4> DEFINE v == ~IsReset(peer[fds[e.fd]])
        <4>1. v \in BOOLEAN
          BY Zenon
        <4> HIDE DEF v
        <4>2. /\ e = [fd |-> e.fd, conn |-> fds[e.fd], valid |-> v]
              /\ e.fd \in Fds /\ fds[e.fd] \in Clients
          BY <1>1, <2>2, <3>2, Zenon DEF ReactorTypeOK, v
        <4>3. ASSUME NEW x \in Fds, NEW y \in Clients
              PROVE  [fd |-> x, conn |-> y, valid |-> v] \in Events
          BY <4>1, <4>3, Zenon DEF Events
        <4> QED BY <4>2, <4>3, Zenon
      <3> QED BY <3>1, <3>2
    <2>4. ReactorTypeOK'
      BY <1>1, <2>1, <2>3 DEF ReactorTypeOK, epollVars
    <2>5. KernelTypeOK' /\ SlotTypeOK'
      BY <1>1, <2>1, Zenon DEF KernelTypeOK, SlotTypeOK, slotVars
    <2>6. KernelInv' /\ SlotInv' /\ TableExact' /\ LiveWatched'
      BY <2>1, QuietStep DEF Going
    <2>7. BatchFresh' /\ EventInv'
      <3>1. ASSUME NEW e \in batch'
            PROVE  /\ e.fd = Listening => backlog # <<>>
                   /\ e.fd # Listening =>
                        e.fd \in registered /\ fds[e.fd] = e.conn /\ Readable(fds[e.fd])
        <4>1. CASE e = [fd |-> Listening, conn |-> None, valid |-> TRUE] /\ backlog # <<>>
          BY <4>1
        <4>2. CASE ~(e = [fd |-> Listening, conn |-> None, valid |-> TRUE] /\ backlog # <<>>)
          <5>1. /\ e.fd \in registered /\ e.fd # Listening /\ Readable(fds[e.fd])
                /\ \E v : e = [fd |-> e.fd, conn |-> fds[e.fd], valid |-> v]
            BY <2>1, <2>2, <3>1, <4>2, Zenon
          <5>2. e.conn = fds[e.fd]
            <6>1. ASSUME NEW x, NEW y, NEW v, e = [fd |-> x, conn |-> y, valid |-> v]
                  PROVE  e.conn = y
              BY <6>1
            <6> QED BY <5>1, <6>1, Zenon
          <5> QED BY <5>1, <5>2
        <4> QED BY <4>1, <4>2
      <3>2. \A e, f \in batch' : e.fd = f.fd => e = f
        <4> DEFINE first == [fd |-> Listening, conn |-> None, valid |-> TRUE]
                   other(x) == [fd |-> x, conn |-> fds[x], valid |-> ~IsReset(peer[fds[x]])]
        <4>1. first.fd = Listening
          OBVIOUS
        <4>2. \A e \in batch' : e = first \/ (e.fd # Listening /\ e = other(e.fd))
          <5> SUFFICES ASSUME NEW e \in ReadyEvents
                       PROVE  e = first \/ (e.fd # Listening /\ e = other(e.fd))
            BY <2>1, Zenon
          <5>1. CASE e = first
            BY <5>1
          <5>2. CASE e # first
            BY <2>2, <5>2, Zenon
          <5> QED BY <5>1, <5>2
        <4> HIDE DEF first, other
        <4> SUFFICES ASSUME NEW e \in batch', NEW f \in batch', e.fd = f.fd
                     PROVE  e = f
          OBVIOUS
        <4>3. CASE e = first
          BY <4>1, <4>2, <4>3, Zenon
        <4>4. CASE e # first
          <5>1. e.fd # Listening /\ e = other(e.fd)
            BY <4>2, <4>4, Zenon
          <5>2. f # first
            BY <4>1, <5>1, Zenon
          <5>3. f = other(f.fd)
            BY <4>2, <5>2, Zenon
          <5> QED BY <5>1, <5>3
        <4> QED BY <4>3, <4>4
      <3>3. BatchFresh'
        BY <2>1, <3>1 DEF BatchFresh, epollVars
      <3>4. EventInv'
        BY <2>1, <3>1, <3>2 DEF EventInv, Readable
      <3> QED BY <3>3, <3>4
    <2> QED BY <1>3, <1>4, <2>1, <2>4, <2>5, <2>6, <2>7, TypePartsPrime DEF Inv
  <1>10. CASE InvalidEvent
    <2>1. PICK e \in batch :
            /\ ~e.valid /\ batch' = batch \ {e}
            /\ Disconnect(m_peerSocketIndexTable[e.fd],
                          m_peerSockets[m_peerSocketIndexTable[e.fd]].state)
      BY <1>10 DEF InvalidEvent
    <2> DEFINE k == m_peerSocketIndexTable[e.fd]
    <2>2. e.fd # Listening
      <3>1. CASE e \in [fd : Fds, conn : Clients, valid : BOOLEAN]
        BY <3>1
      <3>2. CASE e \in [fd : {Listening}, conn : {None}, valid : {TRUE}]
        <4>1. e.valid = TRUE
          BY <3>2
        <4> QED BY <2>1, <4>1, Zenon
      <3>3. e \in Events
        BY <1>1 DEF ReactorTypeOK
      <3> QED BY <3>1, <3>2, <3>3, Zenon DEF Events
    <2>3. k \in Used /\ m_peerSockets[k].fd = e.fd /\ m_peerSockets[k].state = "CONNECTED"
      BY <2>2, EventFacts, UsedFacts
    <2>4. \A f \in batch' : f.fd # m_peerSockets[k].fd
      BY <2>1, <2>3 DEF Inv, EventInv
    <2>5. /\ pc' = NextEvent /\ killed' = killed /\ errno' = errno
          /\ peerIndex' = peerIndex /\ buffer' = buffer
      BY <1>10 DEF InvalidEvent
    <2>6. /\ errno' \in Errnos /\ buffer' \in Seq(Messages)
          /\ peerIndex' \in 0 .. Cardinality(Clients)
      BY <1>1, <2>5 DEF ReactorTypeOK
    <2> QED BY <1>2, <1>4, <2>1, <2>3, <2>4, <2>5, <2>6, NextEventType, DisconnectStep
  <1>11. CASE ClientEvent
    <2>1. PICK e \in batch :
            /\ e.fd # Listening /\ batch' = batch \ {e}
            /\ peerIndex' = m_peerSocketIndexTable[e.fd]
      BY <1>11 DEF ClientEvent
    <2>2. /\ UNCHANGED <<backlog, peer, inbox, fds, sends, slotVars, epollVars>>
          /\ pc' = "receive" /\ listening' = listening /\ killed' = killed
          /\ errno' = errno /\ buffer' = buffer
      BY <1>11 DEF ClientEvent, serverVars, kernelVars
    <2>3. /\ e.fd \in Fds /\ peerIndex' \in Used /\ m_peerSockets[peerIndex'].fd = e.fd
          /\ fds[e.fd] \in Clients /\ Readable(fds[e.fd])
      BY <2>1, EventFacts
    <2>4. ReactorTypeOK'
      <3>1. peerIndex' \in 0 .. Cardinality(Clients)
        BY <1>1, <2>1, <2>3, ClientCount DEF ReactorTypeOK
      <3> QED BY <1>1, <2>1, <2>2, <3>1 DEF ReactorTypeOK, epollVars
    <2>5. KernelTypeOK' /\ SlotTypeOK'
      BY <1>1, <2>2, Zenon DEF KernelTypeOK, SlotTypeOK, slotVars
    <2>6. KernelInv' /\ SlotInv' /\ TableExact' /\ LiveWatched'
      BY <2>2, QuietStep DEF Going
    <2>7. BatchFresh'
      <3>1. Used' = Used
        BY <2>2, Zenon DEF Used, slotVars
      <3> QED BY <2>1, <2>2, <2>3, <3>1 DEF Inv, BatchFresh, epollVars
    <2>8. EventInv'
      <3>1. \A f \in batch' : f.fd # e.fd
        BY <2>1 DEF Inv, EventInv
      <3>2. Conn' = fds[e.fd]
        BY <2>2, <2>3 DEF Conn, PeerOf, slotVars
      <3> QED BY <2>1, <2>2, <2>3, <3>1, <3>2 DEF Inv, EventInv, Readable, slotVars
    <2> QED BY <1>3, <1>4, <2>2, <2>4, <2>5, <2>6, <2>7, <2>8, TypePartsPrime DEF Inv
  <1>12. CASE Receive
    <2>1. PICK i \in 1 .. Len(inbox[Conn]) :
            /\ buffer' = SubSeq(inbox[Conn], 1, i)
            /\ inbox' = [inbox EXCEPT ![Conn] = SubSeq(@, i + 1, Len(@))]
      BY <1>12 DEF Receive, Received
    <2>2. /\ pc = "receive" /\ pc' = "send" /\ errno' = errno /\ killed' = killed
          /\ UNCHANGED <<listening, backlog, peer, fds, sends, batch, peerIndex,
                         slotVars, epollVars>>
      BY <1>12 DEF Receive, Received
    <2>3. Conn \in Clients /\ inbox[Conn] \in Seq(Messages)
      BY <1>1, <1>5, <2>2
    <2>4. inbox[Conn] # <<>>
      BY <2>1, <2>3
    <2>5. SubSeq(inbox[Conn], i + 1, Len(inbox[Conn])) \in Seq(Messages)
      BY <2>1, <2>3
    <2>6. KernelTypeOK'
      <3>1. inbox' \in [Clients -> Seq(Messages)]
        BY <1>1, <2>1, <2>5
      <3> QED BY <1>1, <2>2, <3>1, Zenon DEF KernelTypeOK
    <2>7. ReactorTypeOK'
      <3>1. buffer' \in Seq(Messages)
        BY <2>1, <2>3
      <3> QED BY <1>1, <2>2, <3>1 DEF ReactorTypeOK, epollVars
    <2>8. \A c \in Clients : c # Conn => peer'[c] = peer[c] /\ inbox'[c] = inbox[c]
      BY <1>1, <2>1, <2>2
    <2>9. Going
      BY <1>1, <2>2, <2>4, <2>8 DEF Going
    <2> QED BY <1>3, <1>4, <2>2, <2>6, <2>7, <2>8, <2>9, HandlerStep
  <1>13. ASSUME HandlerReturns, UNCHANGED epollVars, errno' \in Errnos
         PROVE  ReactorTypeOK' /\ pc' \in {"check", "dispatch"} /\ batch' = batch
    <2>1. /\ peerIndex' = 0 /\ buffer' = <<>> /\ batch' = batch
          /\ pc' \in {"check", "dispatch"}
      BY <1>13, NextEventType DEF HandlerReturns
    <2>2. 0 \in 0 .. Cardinality(Clients) /\ <<>> \in Seq(Messages)
      BY ClientCount
    <2> QED BY <1>1, <1>13, <2>1, <2>2 DEF ReactorTypeOK, epollVars
  <1>14. ASSUME HandlerReturns
         PROVE  /\ peerIndex' \in 0 .. Cardinality(Clients) /\ buffer' \in Seq(Messages)
                /\ pc' \in {"check", "dispatch"} /\ batch' = batch
    BY <1>14, NextEventType, ClientCount DEF HandlerReturns
  <1>15. \A e \in Ends : ErrnoAfter(errno, e) \in Errnos
    BY <1>1 DEF ErrnoAfter, ReactorTypeOK
  <1>16. CASE ReceiveNothing
    <2>1. /\ pc = "receive" /\ inbox[Conn] = <<>> /\ HandlerReturns
          /\ killed' = killed /\ errno' = ErrnoAfter(errno, peer[Conn])
      BY <1>16 DEF ReceiveNothing
    <2>2. errno' \in Errnos
      BY <1>1, <1>5, <1>15, <2>1
    <2>3. CASE errno' = "lost"
      <3>1. Disconnect(peerIndex, "DISCONNECTED")
        BY <1>16, <2>3 DEF ReceiveNothing
      <3>2. peer[Conn] # "open"
        BY <2>1 DEF Inv, EventInv, Readable
      <3> QED BY <1>2, <1>4, <1>5, <1>14, <2>1, <2>2, <3>1, <3>2, DisconnectStep DEF Conn
    <2>4. CASE errno' # "lost"
      <3>1. UNCHANGED <<kernelVars, slotVars, epollVars>>
        BY <1>16, <2>4 DEF ReceiveNothing
      <3> QED BY <1>3, <1>4, <1>13, <2>1, <2>2, <3>1, StillStep
              DEF kernelVars, epollVars, slotVars
    <2> QED BY <2>3, <2>4
  <1>17. CASE Send
    <2>1. /\ pc = "send" /\ killed' = SendKills(peer[Conn])
          /\ errno' = ErrnoAfter(errno, peer[Conn])
          /\ PeerBecomes(Conn, AfterSend(peer[Conn])) /\ UNCHANGED <<slotVars, epollVars>>
      BY <1>17 DEF Send
    <2>2. errno' \in Errnos
      BY <1>1, <1>5, <1>15, <2>1
    <2>3. killed' \in BOOLEAN
      <3>1. CASE SendKills(peer[Conn])
        BY <2>1, <3>1
      <3>2. CASE ~SendKills(peer[Conn])
        BY <2>1, <3>2 DEF SendKills
      <3> QED BY <3>1, <3>2
    <2>4. /\ peer' = [peer EXCEPT ![Conn] = AfterSend(peer[Conn])]
          /\ UNCHANGED <<listening, backlog, inbox, fds, sends>>
      BY <2>1 DEF PeerBecomes
    <2>5. /\ Conn \in Clients /\ peer[Conn] \in Ends /\ peer[Conn] # "none"
      BY <1>1, <1>5, <2>1
    <2>6. /\ AfterSend(peer[Conn]) \in Ends /\ AfterSend(peer[Conn]) # "none"
          /\ AfterSend(peer[Conn]) = "open" => peer[Conn] = "open"
      BY <2>5 DEF AfterSend
    <2>7. KernelTypeOK'
      <3>1. peer' \in [Clients -> Ends]
        BY <1>1, <2>4, <2>6
      <3> QED BY <1>1, <2>4, <3>1, Zenon DEF KernelTypeOK
    <2>8. Going
      BY <1>1, <2>4, <2>5, <2>6 DEF Going
    <2>9. \A c \in Clients : c # Conn => peer'[c] = peer[c] /\ inbox'[c] = inbox[c]
      BY <1>1, <2>4
    <2>10. /\ ReactorTypeOK' /\ batch' = batch
           /\ \/ pc' = "dismiss" /\ peerIndex' = peerIndex
              \/ pc' \in {"check", "dispatch"}
      <3>1. CASE Quits
        <4>1. pc' = "dismiss" /\ buffer' = <<>> /\ batch' = batch /\ peerIndex' = peerIndex
          BY <1>17, <3>1 DEF Send
        <4>2. <<>> \in Seq(Messages)
          OBVIOUS
        <4> QED BY <1>1, <2>1, <2>2, <4>1, <4>2 DEF ReactorTypeOK, epollVars
      <3>2. CASE ~Quits
        <4>1. HandlerReturns
          BY <1>17, <3>2 DEF Send
        <4> QED BY <1>13, <2>1, <2>2, <4>1
      <3> QED BY <3>1, <3>2
    <2> QED BY <1>3, <2>1, <2>3, <2>4, <2>7, <2>8, <2>9, <2>10, HandlerStep
  <1>18. CASE Dismiss
    <2>1. /\ pc = "dismiss" /\ HandlerReturns /\ killed' = killed /\ errno' = errno
          /\ Disconnect(peerIndex, m_peerSockets[peerIndex].state)
      BY <1>18 DEF Dismiss
    <2>2. errno' \in Errnos
      BY <1>1, <2>1 DEF ReactorTypeOK
    <2> QED BY <1>2, <1>4, <1>5, <1>14, <2>1, <2>2, DisconnectStep
  <1> QED BY <1>6, <1>7, <1>8, <1>9, <1>10, <1>11, <1>12, <1>16, <1>17, <1>18 DEF Reactor

\* The server that has ended stays as it is.
LEMMA EndedStep ==
  ASSUME Inv, UNCHANGED vars
  PROVE  Inv'
  <1>1. MainTypeOK /\ ReactorTypeOK /\ listening \in BOOLEAN
    BY TypeParts DEF Inv, KernelTypeOK
  <1>2. MainTypeOK' /\ ReactorTypeOK'
    BY <1>1, Zenon DEF MainTypeOK, ReactorTypeOK, vars, serverVars, mainVars, epollVars,
                      eventVars
  <1> QED BY <1>1, <1>2, StillStep
          DEF vars, serverVars, kernelVars, epollVars, eventVars, slotVars

LEMMA NextInv == Inv /\ [Next]_vars => Inv'
  <1> SUFFICES ASSUME Inv, [Next]_vars
               PROVE  Inv'
    OBVIOUS
  <1>1. CASE Reactor
    BY <1>1, ReactorStep
  <1>2. CASE Main \/ Operator
    BY <1>2, MainStep
  <1>3. CASE Network /\ UNCHANGED <<killed, slotVars, epollVars, mainVars,
                                    m_reactorThread, pc, eventVars, errno>>
    BY <1>3, NetworkStep
  <1>4. CASE UNCHANGED vars
    BY <1>4, EndedStep
  <1> QED BY <1>1, <1>2, <1>3, <1>4 DEF Next, Ended

\* Every reachable state satisfies the invariant.
THEOREM Invariance == Spec => []Inv
  BY InitInv, NextInv, PTL DEF Spec

\* Every variable keeps its range: in particular there are never more slots
\* than clients, and operator[] of the table never yields one that is not there.
THEOREM TypeCorrect == Spec => []TypeOK
  BY Invariance, PTL DEF Inv

\* The descriptors epoll watches and the slots in use belong together one to
\* one, although descriptors and slots are used again and the table is never
\* cleaned.
THEOREM TableRight == Spec => []TableExact
  BY Invariance, PTL DEF Inv

\* A client that keeps its end open is never let go of, and nothing it has sent
\* is lost with a descriptor that stays open.
THEOREM ClientsKept == Spec => []LiveWatched
  BY Invariance, PTL DEF Inv

\* However many events one epoll_wait reports, handling one never makes
\* another stale.
THEOREM EventsFresh == Spec => []BatchFresh
  BY Invariance, PTL DEF Inv

-----------------------------------------------------------------------------
\* Service.  The reactor's part keeps Inv: a step of a thread of the client is
\* one of the network.  What is added follows the conversation of each client.

\* The reactor has replied to the quit of client c and is about to close.
Parting(c) == pc = "dismiss" /\ Conn = c

\* m of client c is on its way: at the server or in the reactor's buffer.
OnItsWay(c, m) ==
  \/ inbox[c] = <<m>> /\ ~Held(c) /\ ~Parting(c)
  \/ inbox[c] = <<>> /\ Held(c) /\ buffer = <<m>>
Silent(c) == inbox[c] = <<>> /\ ~Held(c) /\ ~Parting(c)

\* How far the conversation of client c has got.
NotCome(c) ==
  cpc[c] = "connect" /\ peer[c] = "none" /\ end[c] = "none" /\ Silent(c) /\ replies[c] = 0
Speaking(c) ==
  /\ cpc[c] \in {"lock", "send", "quit"} /\ peer[c] = "open" /\ end[c] = "open"
  /\ Silent(c) /\ replies[c] = 0
Waiting(c) ==
  /\ cpc[c] = "receive" /\ peer[c] = "open" /\ end[c] = "open"
  /\ \/ OnItsWay(c, "message") /\ replies[c] = 0
     \/ Silent(c) /\ replies[c] = 1
Quitting(c) ==
  /\ \/ cpc[c] = "close" /\ peer[c] = "open" /\ end[c] = "open"
     \/ cpc[c] = "done" /\ peer[c] = "fin" /\ end[c] = "gone"
  /\ OnItsWay(c, "quit") /\ replies[c] = 0
Dismissing(c) ==
  /\ Parting(c) /\ inbox[c] = <<>>
  /\ \/ cpc[c] = "close" /\ peer[c] = "open" /\ end[c] = "open" /\ replies[c] = 1
     \/ cpc[c] = "done" /\ peer[c] \in {"rst", "fin_sent", "fin_rst"} /\ end[c] = "gone"
LetGo(c) ==
  /\ \/ cpc[c] = "close" /\ end[c] = "fin"
     \/ cpc[c] = "done" /\ end[c] = "gone"
  /\ peer[c] = "gone" /\ Silent(c)

Conversation(c) ==
  \/ NotCome(c) \/ Speaking(c) \/ Waiting(c) \/ Quitting(c) \/ Dismissing(c)
  \/ LetGo(c)

\* The reactor has a message in hand from its receive to its send.
HandInv ==
  /\ pc # "send" => buffer = <<>>
  /\ pc \notin {"receive", "send", "dismiss"} => peerIndex = 0

\* Nothing is lost or stopped, and no event tells of a reset.
CalmInv ==
  /\ listening /\ m_reactorThread /\ ~m_isStopping /\ ~killed /\ ~ckilled
  /\ numberDisconnections = 0
  /\ \A e \in batch : e.valid
  /\ \A d \in Fds : fds[d] # None => d \in registered

\* A connection the server has closed has no descriptor and does not wait for one.
GoneInv ==
  \A c \in Clients : peer[c] = "gone" =>
    /\ \A d \in Fds : fds[d] # c
    /\ \A i \in 1 .. Len(backlog) : backlog[i] # c

ClientTypes ==
  /\ cpc \in [Clients -> {"connect", "lock", "send", "receive", "reconnect",
                          "resend", "quit", "close", "done"}]
  /\ end \in [Clients -> Ends] /\ replies \in [Clients -> Nat]

ServiceInv ==
  /\ Inv /\ ClientTypes /\ HandInv /\ CalmInv /\ GoneInv
  /\ \A c \in Clients : Conversation(c)

LEMMA ServiceInitInv == ServiceInit => ServiceInv
  <1> SUFFICES ASSUME ServiceInit
               PROVE  ServiceInv
    OBVIOUS
  <1> USE DEF ServiceInit, Program!Init
  <1>0. inbox = [c \in Clients |-> <<>>] /\ listening = TRUE
    OBVIOUS
  <1>1. KernelTypeOK
    <2>1. listening \in BOOLEAN
      BY Zenon
    <2>2. backlog \in Seq(Clients)
      OBVIOUS
    <2>3. inbox \in [Clients -> Seq(Messages)]
      BY <1>0
    <2>4. sends \in [Clients -> Nat] /\ \A c \in Clients : sends[c] <= MaxSends[c]
      OBVIOUS
    <2>5. peer \in [Clients -> Ends] /\ fds \in [Fds -> Clients \cup {None}]
      OBVIOUS
    <2> QED BY <2>1, <2>2, <2>3, <2>4, <2>5 DEF KernelTypeOK
  <1>2. SlotTypeOK
    BY DEF SlotTypeOK
  <1>3. MainTypeOK /\ ReactorTypeOK
    <2>1. 1 \in Slots /\ 0 \in 0 .. Cardinality(Clients) /\ <<>> \in Seq(Messages)
      BY ClientCount
    <2>2. /\ m_reactorThread \in BOOLEAN /\ killed \in BOOLEAN /\ m_isStopping \in BOOLEAN
          /\ {killed, m_isStopping} \subseteq BOOLEAN
      BY Zenon
    <2> QED BY <2>1, <2>2 DEF MainTypeOK, ReactorTypeOK
  <1>4. TypeOK
    BY <1>1, <1>2, <1>3, TypeParts
  <1>5. KernelInv /\ SlotInv
    BY ClientCount DEF KernelInv, SlotInv
  <1>6. Used = {} /\ FreeSlots = {}
    BY DEF Used, FreeSlots
  <1>7. TableExact /\ LiveWatched /\ BatchFresh /\ EventInv
    BY <1>6 DEF TableExact, LiveWatched, BatchFresh, EventInv
  <1>8. Inv
    BY <1>4, <1>5, <1>7 DEF Inv
  <1>9. ClientTypes /\ HandInv /\ GoneInv
    BY DEF ClientTypes, HandInv, GoneInv
  <1>10. CalmInv
    <2>1. listening /\ m_reactorThread /\ ~m_isStopping /\ ~killed /\ ~ckilled
      BY Zenon
    <2> QED BY <2>1 DEF CalmInv
  <1>11. \A c \in Clients : NotCome(c)
    BY <1>0 DEF NotCome, Silent, Held, Parting
  <1> QED BY <1>8, <1>9, <1>10, <1>11 DEF ServiceInv, Conversation

\* A client that nothing is done to is as far as it was.
LEMMA Unheard ==
  ASSUME NEW c \in Clients, Conversation(c), cpc'[c] = cpc[c], peer'[c] = peer[c],
         end'[c] = end[c], inbox'[c] = inbox[c], replies'[c] = replies[c],
         Held(c)' <=> Held(c), Parting(c)' <=> Parting(c), Held(c) => buffer' = buffer
  PROVE  Conversation(c)'
  BY DEF Conversation, NotCome, Speaking, Waiting, Quitting,
         LetGo, Dismissing, Silent, OnItsWay

\* A step of client c keeps the invariant if it moves only what is c's, and
\* leaves c at a point of its conversation.
LEMMA ClientKeeps ==
  ASSUME ServiceInv, NEW c \in Clients,
         UNCHANGED <<killed, slotVars, epollVars, mainVars, m_reactorThread, pc,
                     eventVars, errno, listening, fds, sends>>,
         Going \/ Coming(c),
         \A b \in Clients : peer[b] # "none" /\ Readable(b) => Readable(b)',
         cpc' = [cpc EXCEPT ![c] = cpc'[c]], end' = [end EXCEPT ![c] = end'[c]],
         replies' = [replies EXCEPT ![c] = replies'[c]],
         inbox' = [inbox EXCEPT ![c] = inbox'[c]],
         peer' = [peer EXCEPT ![c] = peer'[c]], peer'[c] \in Ends,
         peer'[c] = "gone" => peer[c] = "gone",
         inbox'[c] \in Seq(Messages), replies'[c] \in Nat,
         Conversation(c)', ~ckilled', numberDisconnections' = numberDisconnections
  PROVE  ServiceInv'
  <1>1. /\ Inv /\ KernelTypeOK /\ ClientTypes
        /\ peer \in [Clients -> Ends] /\ inbox \in [Clients -> Seq(Messages)]
        /\ backlog \in Seq(Clients)
    BY TypeParts DEF ServiceInv, Inv, KernelTypeOK
  <1>2. KernelTypeOK'
    <2>1. peer' \in [Clients -> Ends] /\ inbox' \in [Clients -> Seq(Messages)]
      BY <1>1
    <2>2. backlog' \in Seq(Clients)
      <3>1. CASE Going
        BY <1>1, <3>1 DEF Going
      <3>2. CASE Coming(c)
        BY <1>1, <3>2 DEF Coming
      <3> QED BY <3>1, <3>2
    <2> QED BY <1>1, <2>1, <2>2, Zenon DEF KernelTypeOK
  <1>3. Inv'
    BY <1>1, <1>2, PeersStep
  <1>4. HandInv'
    BY DEF ServiceInv, HandInv, eventVars
  <1>5. CalmInv'
    <2>1. /\ batch' = batch /\ registered' = registered
          /\ m_isStopping' = m_isStopping
      BY DEF eventVars, epollVars, mainVars
    <2> QED BY <2>1, Zenon DEF ServiceInv, CalmInv
  <1>6. GoneInv'
    <2>1. ASSUME NEW b \in Clients, peer'[b] = "gone"
          PROVE  /\ \A d \in Fds : fds'[d] # b
                 /\ \A i \in 1 .. Len(backlog') : backlog'[i] # b
      <3>1. peer[b] = "gone"
        BY <1>1, <2>1
      <3>2. /\ \A d \in Fds : fds[d] # b
            /\ \A i \in 1 .. Len(backlog) : backlog[i] # b
        BY <3>1 DEF ServiceInv, GoneInv
      <3>3. CASE Going
        BY <3>2, <3>3 DEF Going
      <3>4. CASE Coming(c)
        <4>1. b # c /\ backlog' = Append(backlog, c)
          BY <1>1, <2>1, <3>4 DEF Coming
        <4> QED BY <1>1, <3>2, <4>1
      <3> QED BY <3>3, <3>4
    <2> QED BY <2>1 DEF GoneInv
  <1>7. ASSUME NEW b \in Clients
        PROVE  (Held(b)' <=> Held(b)) /\ (Parting(b)' <=> Parting(b))
    BY DEF Held, Parting, Conn, PeerOf, eventVars, slotVars
  <1>8. ASSUME NEW b \in Clients, b # c
        PROVE  Conversation(b)'
    <2>1. /\ cpc'[b] = cpc[b] /\ peer'[b] = peer[b] /\ end'[b] = end[b]
          /\ inbox'[b] = inbox[b] /\ replies'[b] = replies[b]
      BY <1>1, <1>8 DEF ClientTypes
    <2>2. buffer' = buffer /\ Conversation(b)
      BY DEF eventVars, ServiceInv
    <2> QED BY <1>7, <2>1, <2>2, Unheard
  <1>9. ClientTypes'
    <2>1. /\ cpc'[c] \in {"connect", "lock", "send", "quit", "receive", "close", "done"}
          /\ end'[c] \in Ends
      BY DEF Conversation, NotCome, Speaking, Waiting, Quitting, LetGo, Dismissing
    <2>2. end' \in [Clients -> Ends]
      BY <1>1, <2>1 DEF ClientTypes
    <2>3. replies' \in [Clients -> Nat]
      BY <1>1 DEF ClientTypes
    <2> HIDE DEF Ends
    <2>4. cpc' \in [Clients -> {"connect", "lock", "send", "receive", "reconnect",
                               "resend", "quit", "close", "done"}]
      BY <1>1, <2>1 DEF ClientTypes
    <2> QED BY <2>2, <2>3, <2>4 DEF ClientTypes
  <1> QED BY <1>3, <1>4, <1>5, <1>6, <1>8, <1>9 DEF ServiceInv

\* A step of a thread of the client.
LEMMA ClientStepKeeps ==
  ASSUME ServiceInv, NEW c \in Clients, ClientStep(c)
  PROVE  ServiceInv'
  <1>1. /\ Inv /\ ClientTypes /\ Conversation(c) /\ listening = TRUE
        /\ ~ckilled /\ numberDisconnections = 0
        /\ peer \in [Clients -> Ends] /\ inbox \in [Clients -> Seq(Messages)]
        /\ backlog \in Seq(Clients)
        /\ cpc \in [Clients -> {"connect", "lock", "send", "receive", "reconnect",
                               "resend", "quit", "close", "done"}]
        /\ end \in [Clients -> Ends] /\ replies \in [Clients -> Nat]
    BY Zenon DEF ServiceInv, CalmInv, ClientTypes, Inv, TypeOK, ServerTypeOK, KernelTypeOK
  <1>2. UNCHANGED <<killed, slotVars, epollVars, mainVars, m_reactorThread, pc,
                    eventVars, errno>>
    BY DEF ClientStep
  <1>3. fds' = fds => \A b \in Clients : (Held(b)' <=> Held(b)) /\ (Parting(b)' <=> Parting(b))
    BY <1>2 DEF Held, Parting, Conn, PeerOf, eventVars, slotVars
  <1>4. buffer' = buffer
    BY <1>2 DEF eventVars
  <1> USE DEF Program!Goto, Silent, OnItsWay
  <1> DEFINE Still == UNCHANGED <<listening, backlog, peer, fds, sends>>
  <1>5. ASSUME Still, peer[c] = "open", end' = end, Conversation(c)',
               ~ckilled', numberDisconnections' = numberDisconnections,
               NEW label, cpc' = [cpc EXCEPT ![c] = label],
               NEW k \in Nat, replies' = [replies EXCEPT ![c] = k],
               NEW s \in Seq(Messages), inbox' = [inbox EXCEPT ![c] = s],
               inbox[c] = <<>> \/ s # <<>>
        PROVE  ServiceInv'
    <2>1. /\ cpc' = [cpc EXCEPT ![c] = cpc'[c]] /\ end' = [end EXCEPT ![c] = end'[c]]
          /\ replies' = [replies EXCEPT ![c] = replies'[c]] /\ replies'[c] \in Nat
          /\ inbox' = [inbox EXCEPT ![c] = inbox'[c]] /\ inbox'[c] \in Seq(Messages)
          /\ peer' = [peer EXCEPT ![c] = peer'[c]] /\ peer'[c] \in Ends
          /\ peer'[c] = "gone" => peer[c] = "gone"
      BY <1>1, <1>5
    <2>2. Going \/ Coming(c)
      BY <1>1, <1>5 DEF Going
    <2>3. \A b \in Clients : peer[b] # "none" /\ Readable(b) => Readable(b)'
      BY <1>1, <1>5 DEF Readable
    <2>4. UNCHANGED <<listening, fds, sends>>
      BY <1>5
    <2> QED BY <1>2, <1>5, <2>1, <2>2, <2>3, <2>4, ClientKeeps
  <1>6. ASSUME NEW m \in Messages, Still, Speaking(c), Program!Sends(c, m)
        PROVE  /\ ~ckilled' /\ numberDisconnections' = numberDisconnections
               /\ end' = end /\ replies' = replies
               /\ inbox' = [inbox EXCEPT ![c] = <<m>>] /\ <<m>> \in Seq(Messages)
               /\ peer[c] = "open" /\ replies[c] = 0 /\ inbox[c] = <<>>
               /\ ~Held(c) /\ ~Parting(c)
    <2>1. /\ ckilled' = SendKills(end[c]) /\ end' = [end EXCEPT ![c] = AfterSend(@)]
          /\ inbox' = [inbox EXCEPT ![c] = IF end[c] = "open" THEN Append(@, m) ELSE @]
          /\ replies' = replies /\ numberDisconnections' = numberDisconnections
      BY <1>6 DEF Program!Sends, Program!SendKills, SendKills, Program!AfterSend, AfterSend,
                  Program!losses
    <2>2. /\ peer[c] = "open" /\ end[c] = "open" /\ inbox[c] = <<>> /\ replies[c] = 0
          /\ ~Held(c) /\ ~Parting(c)
      BY <1>6 DEF Speaking
    <2>3. ~SendKills(end[c]) /\ AfterSend(end[c]) = "open"
      BY <2>2 DEF SendKills, AfterSend
    <2>4. ~ckilled'
      BY <2>1, <2>3, Zenon
    <2>5. Append(inbox[c], m) = <<m>> /\ <<m>> \in Seq(Messages)
      BY <2>2
    <2>6. end' = end
      BY <1>1, <2>1, <2>2, <2>3
    <2> QED BY <2>1, <2>2, <2>4, <2>5, <2>6
  <1>7. CASE Program!Lock(c) /\ Still
    <2>1. /\ cpc[c] = "lock" /\ cpc' = [cpc EXCEPT ![c] = "send"]
          /\ end' = end /\ inbox' = inbox /\ replies' = replies
          /\ numberDisconnections' = numberDisconnections /\ ~ckilled'
      BY <1>1, <1>7, Zenon DEF Program!Lock, Program!processVars, Program!losses,
                        Program!process, Program!channelVars
    <2>2. Speaking(c)
      BY <1>1, <2>1 DEF Conversation, NotCome, Speaking, Waiting, Quitting,
                        LetGo, Dismissing
    <2>3. Speaking(c)'
      BY <1>1, <1>3, <1>7, <2>1, <2>2 DEF Speaking
    <2>4. inbox' = [inbox EXCEPT ![c] = <<>>] /\ replies' = [replies EXCEPT ![c] = 0]
      BY <1>1, <2>1, <2>2 DEF Speaking
    <2>5. <<>> \in Seq(Messages) /\ inbox[c] = <<>> /\ peer[c] = "open"
      BY <2>2 DEF Speaking
    <2>6. Conversation(c)'
      BY <2>3 DEF Conversation
    <2> QED BY <1>5, <1>7, <2>1, <2>4, <2>5, <2>6
  <1>8. CASE Program!Send(c) /\ Still
    <2>1. /\ cpc[c] = "send" /\ cpc' = [cpc EXCEPT ![c] = "receive"]
          /\ Program!Sends(c, "message")
      BY <1>8 DEF Program!Send, Program!Awaited
    <2>2. Speaking(c)
      BY <1>1, <2>1 DEF Conversation, NotCome, Speaking, Waiting, Quitting,
                        LetGo, Dismissing
    <2>3. /\ ~ckilled' /\ numberDisconnections' = numberDisconnections
          /\ end' = end /\ replies' = replies
          /\ inbox' = [inbox EXCEPT ![c] = <<"message">>] /\ <<"message">> \in Seq(Messages)
          /\ peer[c] = "open" /\ replies[c] = 0 /\ inbox[c] = <<>>
          /\ ~Held(c) /\ ~Parting(c)
      BY <1>6, <1>8, <2>1, <2>2
    <2>4. Waiting(c)'
      BY <1>1, <1>3, <1>8, <2>1, <2>2, <2>3 DEF Waiting, Speaking
    <2>5. replies' = [replies EXCEPT ![c] = 0]
      BY <1>1, <2>3
    <2>6. Conversation(c)'
      BY <2>4 DEF Conversation
    <2> QED BY <1>5, <1>8, <2>1, <2>3, <2>5, <2>6
  <1>9. CASE Program!Quit(c) /\ Still
    <2>1. /\ cpc[c] = "quit" /\ cpc' = [cpc EXCEPT ![c] = "close"]
          /\ Program!Sends(c, "quit")
      BY <1>9 DEF Program!Quit
    <2>2. Speaking(c)
      BY <1>1, <2>1 DEF Conversation, NotCome, Speaking, Waiting, Quitting,
                        LetGo, Dismissing
    <2>3. /\ ~ckilled' /\ numberDisconnections' = numberDisconnections
          /\ end' = end /\ replies' = replies
          /\ inbox' = [inbox EXCEPT ![c] = <<"quit">>] /\ <<"quit">> \in Seq(Messages)
          /\ peer[c] = "open" /\ replies[c] = 0 /\ inbox[c] = <<>>
          /\ ~Held(c) /\ ~Parting(c)
      BY <1>6, <1>9, <2>1, <2>2
    <2>4. Quitting(c)'
      BY <1>1, <1>3, <1>9, <2>1, <2>2, <2>3 DEF Quitting, Speaking
    <2>5. replies' = [replies EXCEPT ![c] = 0]
      BY <1>1, <2>3
    <2>6. Conversation(c)'
      BY <2>4 DEF Conversation
    <2> QED BY <1>5, <1>9, <2>1, <2>3, <2>5, <2>6
  <1>10. CASE Program!Receive(c) /\ Still
    <2>1. /\ cpc[c] = "receive" /\ cpc' = [cpc EXCEPT ![c] = Program!Loop(n[c] + 1)]
          /\ end' = end /\ inbox' = inbox
          /\ numberDisconnections' = numberDisconnections /\ ~ckilled'
      BY <1>1, <1>10, Zenon DEF Program!Receive, Program!NextMessage, Program!processVars,
                         Program!losses, Program!process
    <2>2. PICK k \in 1 .. replies[c] : replies' = [replies EXCEPT ![c] = @ - k]
      BY <1>10 DEF Program!Receive
    <2>3. Waiting(c)
      BY <1>1, <2>1 DEF Conversation, NotCome, Speaking, Waiting, Quitting,
                        LetGo, Dismissing
    <2>4. /\ replies[c] = 1 /\ k = 1 /\ inbox[c] = <<>> /\ ~Held(c) /\ ~Parting(c)
          /\ peer[c] = "open" /\ end[c] = "open"
      BY <1>1, <2>2, <2>3 DEF Waiting
    <2>5. Program!Loop(n[c] + 1) \in {"lock", "quit"}
      BY DEF Program!Loop
    <2>6. replies' = [replies EXCEPT ![c] = 0] /\ inbox' = [inbox EXCEPT ![c] = <<>>]
      BY <1>1, <2>1, <2>2, <2>4
    <2>7. Speaking(c)'
      BY <1>1, <1>3, <1>10, <2>1, <2>4, <2>5, <2>6 DEF Speaking
    <2>8. Conversation(c)' /\ <<>> \in Seq(Messages)
      BY <2>7 DEF Conversation
    <2> QED BY <1>5, <1>10, <2>1, <2>4, <2>6, <2>8
  <1>11. ~Program!ReceiveNothing(c) /\ ~Program!Resend(c)
    BY <1>1 DEF Program!ReceiveNothing, Program!Resend, Conversation, NotCome, Speaking,
                Waiting, Quitting, LetGo, Dismissing
  <1>12. CASE Program!Refused(c) /\ Still
    <2>1. /\ UNCHANGED <<cpc, end, inbox, replies, numberDisconnections>> /\ ~ckilled'
      BY <1>1, <1>12, Zenon DEF Program!Refused, Program!process, Program!channelVars
    <2>2. Conversation(c)'
      BY <1>1, <1>3, <1>4, <1>12, <2>1, Unheard
    <2>3. /\ cpc' = [cpc EXCEPT ![c] = cpc'[c]] /\ end' = [end EXCEPT ![c] = end'[c]]
          /\ replies' = [replies EXCEPT ![c] = replies'[c]] /\ replies'[c] \in Nat
          /\ inbox' = [inbox EXCEPT ![c] = inbox'[c]] /\ inbox'[c] \in Seq(Messages)
          /\ peer' = [peer EXCEPT ![c] = peer'[c]] /\ peer'[c] \in Ends
          /\ peer'[c] = "gone" => peer[c] = "gone"
      BY <1>1, <1>12, <2>1
    <2>4. Going /\ \A b \in Clients : peer[b] # "none" /\ Readable(b) => Readable(b)'
      BY <1>12, <2>1 DEF Going, Readable
    <2>5. UNCHANGED <<listening, fds, sends>>
      BY <1>12
    <2> QED BY <1>2, <2>1, <2>2, <2>3, <2>4, <2>5, ClientKeeps
  <1>13. CASE Connects(c)
    <2>1. /\ cpc[c] \in {"connect", "reconnect"}
          /\ cpc' = [cpc EXCEPT ![c] = Program!AfterConnect(c)]
          /\ end' = [end EXCEPT ![c] = "open"] /\ replies' = [replies EXCEPT ![c] = 0]
          /\ numberDisconnections' = numberDisconnections /\ ~ckilled'
      BY <1>1, <1>13, Zenon DEF Connects, Program!Connected, Program!losses, Program!process
    <2>2. /\ peer[c] = "none" /\ peer' = [peer EXCEPT ![c] = "open"]
          /\ backlog' = Append(backlog, c)
          /\ UNCHANGED <<listening, inbox, fds, sends>>
      BY <1>13 DEF Connects, Connect
    <2>3. NotCome(c)
      BY <1>1, <2>1 DEF Conversation, NotCome, Speaking, Waiting, Quitting,
                        LetGo, Dismissing
    <2>4. cpc'[c] \in {"lock", "quit"}
      BY <1>1, <2>1, <2>3 DEF NotCome, Program!AfterConnect, Program!Loop
    <2>5. Speaking(c)'
      BY <1>1, <1>3, <2>1, <2>2, <2>3, <2>4 DEF NotCome, Speaking
    <2>6. Coming(c)
      BY <2>2 DEF Coming
    <2>7. \A b \in Clients : peer[b] # "none" /\ Readable(b) => Readable(b)'
      BY <1>1, <2>2 DEF Readable
    <2>8. /\ cpc' = [cpc EXCEPT ![c] = cpc'[c]] /\ end' = [end EXCEPT ![c] = end'[c]]
          /\ replies' = [replies EXCEPT ![c] = replies'[c]] /\ replies'[c] \in Nat
          /\ inbox' = [inbox EXCEPT ![c] = inbox'[c]] /\ inbox'[c] \in Seq(Messages)
          /\ peer' = [peer EXCEPT ![c] = peer'[c]] /\ peer'[c] \in Ends
          /\ peer'[c] = "gone" => peer[c] = "gone"
      BY <1>1, <2>1, <2>2
    <2>9. Conversation(c)'
      BY <2>5 DEF Conversation
    <2> QED BY <1>2, <2>1, <2>2, <2>6, <2>7, <2>8, <2>9, ClientKeeps
  <1>14. CASE Closes(c)
    <2>1. /\ cpc[c] = "close" /\ cpc' = [cpc EXCEPT ![c] = "done"]
          /\ end' = [end EXCEPT ![c] = "gone"] /\ replies' = [replies EXCEPT ![c] = 0]
          /\ numberDisconnections' = numberDisconnections /\ ~ckilled' /\ inbox' = inbox
      BY <1>1, <1>14, Zenon DEF Closes, Program!Close, Program!losses, Program!process
    <2>2. /\ peer' = [peer EXCEPT ![c] = IF peer[c] # "open" THEN peer[c]
                                        ELSE IF replies[c] > 0 THEN "rst" ELSE "fin"]
          /\ UNCHANGED <<listening, backlog, fds, sends>>
      BY <1>14 DEF Closes, PeerBecomes
    <2>3. Quitting(c) \/ Dismissing(c) \/ LetGo(c)
      BY <1>1, <2>1 DEF Conversation, NotCome, Speaking, Waiting, Quitting,
                        LetGo, Dismissing
    <2>4. /\ Quitting(c) => Quitting(c)' /\ peer[c] = "open" /\ peer'[c] = "fin"
          /\ Dismissing(c) => Dismissing(c)' /\ peer[c] = "open" /\ peer'[c] = "rst"
          /\ LetGo(c) => LetGo(c)' /\ peer[c] = "gone" /\ peer'[c] = "gone"
      BY <1>1, <1>3, <1>4, <2>1, <2>2 DEF Quitting, LetGo, Dismissing
    <2>5. Going /\ \A b \in Clients : peer[b] # "none" /\ Readable(b) => Readable(b)'
      BY <1>1, <2>1, <2>2, <2>3, <2>4 DEF Going, Readable
    <2>6. /\ cpc' = [cpc EXCEPT ![c] = cpc'[c]] /\ end' = [end EXCEPT ![c] = end'[c]]
          /\ replies' = [replies EXCEPT ![c] = replies'[c]] /\ replies'[c] \in Nat
          /\ inbox' = [inbox EXCEPT ![c] = inbox'[c]] /\ inbox'[c] \in Seq(Messages)
          /\ peer' = [peer EXCEPT ![c] = peer'[c]] /\ peer'[c] \in Ends
          /\ peer'[c] = "gone" => peer[c] = "gone"
      BY <1>1, <2>1, <2>2, <2>3, <2>4
    <2>7. Conversation(c)'
      BY <2>3, <2>4 DEF Conversation
    <2> QED BY <1>2, <2>1, <2>2, <2>5, <2>6, <2>7, ClientKeeps
  <1> QED BY <1>7, <1>8, <1>9, <1>10, <1>11, <1>12, <1>13, <1>14 DEF ClientStep

\* A reset in answer to a reply is for the connection about to be closed.
LEMMA RejectKeeps ==
  ASSUME ServiceInv, NEW c \in Clients, Rejects(c)
  PROVE  ServiceInv'
  <1>1. /\ Conversation(c) /\ ClientTypes /\ ~ckilled
        /\ peer \in [Clients -> Ends] /\ inbox \in [Clients -> Seq(Messages)]
    BY DEF ServiceInv, CalmInv, Inv, TypeOK, ServerTypeOK, KernelTypeOK
  <1>2. /\ peer[c] = "fin_sent" /\ peer' = [peer EXCEPT ![c] = "fin_rst"]
        /\ UNCHANGED <<killed, slotVars, epollVars, mainVars, m_reactorThread, pc,
                       eventVars, errno, listening, fds, sends, backlog, inbox>>
        /\ UNCHANGED <<cpc, end, replies, numberDisconnections, ckilled>>
    BY DEF Rejects, PeerBecomes, clientVars
  <1>3. Dismissing(c)
    BY <1>1, <1>2 DEF Conversation, NotCome, Speaking, Waiting, Quitting, LetGo
  <1>4. Parting(c)' <=> Parting(c)
    BY <1>2 DEF Parting, Conn, PeerOf, eventVars, slotVars
  <1>5. Dismissing(c)'
    BY <1>1, <1>2, <1>3, <1>4 DEF Dismissing
  <1>6. /\ cpc' = [cpc EXCEPT ![c] = cpc'[c]] /\ end' = [end EXCEPT ![c] = end'[c]]
        /\ replies' = [replies EXCEPT ![c] = replies'[c]] /\ replies'[c] \in Nat
        /\ inbox' = [inbox EXCEPT ![c] = inbox'[c]] /\ inbox'[c] \in Seq(Messages)
        /\ peer' = [peer EXCEPT ![c] = peer'[c]] /\ peer'[c] \in Ends
        /\ peer'[c] = "gone" => peer[c] = "gone"
    BY <1>1, <1>2 DEF ClientTypes
  <1>7. Going /\ \A b \in Clients : peer[b] # "none" /\ Readable(b) => Readable(b)'
    BY <1>1, <1>2 DEF Going, Readable
  <1>8. Conversation(c)' /\ ~ckilled'
    BY <1>1, <1>2, <1>5, Zenon DEF Conversation
  <1> QED BY <1>2, <1>6, <1>7, <1>8, ClientKeeps

\* Facts about the parts of the invariant that the reactor's steps go by.
LEMMA ReactorFacts ==
  ASSUME ServiceInv, ServerStep
  PROVE  /\ Inv /\ ClientTypes /\ HandInv /\ CalmInv /\ Reactor
         /\ \A c \in Clients : Conversation(c)
         /\ peer \in [Clients -> Ends] /\ inbox \in [Clients -> Seq(Messages)]
         /\ fds \in [Fds -> Clients \cup {None}] /\ registered \subseteq Fds
         /\ end \in [Clients -> Ends] /\ replies \in [Clients -> Nat]
  BY Zenon DEF ServiceInv, ServerStep, ClientTypes, Inv, TypeOK, ServerTypeOK, KernelTypeOK

\* The connection at hand has a descriptor and a slot.
LEMMA AtHand ==
  ASSUME Inv, pc \in {"receive", "send", "dismiss"}
  PROVE  /\ peerIndex \in Used /\ Conn \in Clients
         /\ m_peerSockets[peerIndex].fd \in Fds
         /\ m_peerSockets[peerIndex].state = "CONNECTED"
  BY UsedFacts DEF Inv, BatchFresh, Conn

\* No event is invalid, and no receive finds nothing.
LEMMA NothingAmiss ==
  ASSUME ServiceInv
  PROVE  ~InvalidEvent /\ ~ReceiveNothing
  <1>1. ~InvalidEvent
    BY DEF InvalidEvent, ServiceInv, CalmInv
  <1>2. ASSUME ReceiveNothing
        PROVE  FALSE
    <2>1. Inv
      BY DEF ServiceInv
    <2>2. pc = "receive" /\ inbox[Conn] = <<>> /\ Conn \in Clients
      BY <1>2, <2>1, AtHand DEF ReceiveNothing
    <2>3. peer[Conn] # "open"
      BY <2>1, <2>2 DEF Inv, EventInv, Readable
    <2>4. PICK d \in Fds : fds[d] = Conn
      BY <2>1, <2>2, AtHand DEF Conn, PeerOf
    <2>5. fds[d] # None
      BY <2>2, <2>4
    <2>6. peer[Conn] # "none"
      BY <2>1, <2>4, <2>5, OpenFacts
    <2>7. peer[Conn] # "gone"
      BY <2>2, <2>4 DEF ServiceInv, GoneInv
    <2>8. ~Held(Conn)
      BY <2>2 DEF Held
    <2>9. Conversation(Conn)
      BY <2>2 DEF ServiceInv
    <2> QED BY <2>2, <2>3, <2>6, <2>7, <2>8, <2>9
            DEF Conversation, NotCome, Speaking, Waiting, Quitting,
                LetGo, Dismissing, Parting, OnItsWay
  <1> QED BY <1>1, <1>2

\* What a step of the reactor is to client c, or to none.
Unseen ==
  /\ pc \notin {"send", "dismiss"} /\ pc' \notin {"send", "dismiss"}
  /\ UNCHANGED <<peer, inbox>>
Takes(c, m) ==
  /\ pc = "receive" /\ pc' = "send" /\ Conn = c /\ Conn' = c
  /\ inbox[c] = <<m>> /\ inbox' = [inbox EXCEPT ![c] = <<>>]
  /\ buffer' = <<m>> /\ peer' = peer
RepliesTo(c) ==
  /\ pc = "send" /\ pc' \notin {"send", "dismiss"} /\ Conn = c
  /\ Waiting(c) /\ buffer = <<"message">> /\ UNCHANGED <<peer, inbox>>
RepliesToQuit(c) ==
  /\ pc = "send" /\ pc' = "dismiss" /\ Conn = c /\ Conn' = c
  /\ Quitting(c) /\ buffer = <<"quit">>
  /\ peer' = [peer EXCEPT ![c] = AfterSend(@)] /\ inbox' = inbox
LetsGo(c) ==
  /\ pc = "dismiss" /\ pc' \notin {"send", "dismiss"} /\ Conn = c
  /\ Dismissing(c)
  /\ peer' = [peer EXCEPT ![c] = "gone"] /\ inbox' = [inbox EXCEPT ![c] = <<>>]

\* Taking the only message leaves none.
LEMMA OneAlone ==
  ASSUME NEW m \in Messages
  PROVE  SubSeq(<<m>>, 1, 1) = <<m>> /\ SubSeq(<<m>>, 2, 1) = <<>> /\ Len(<<m>>) = 1
  <1>1. <<m>> \in Seq(Messages) /\ Len(<<m>>) = 1
    OBVIOUS
  <1>2. SubSeq(<<m>>, 1, Len(<<m>>)) = <<m>>
    BY <1>1, SubSeqFull, Zenon
  <1>3. SubSeq(<<m>>, 2, 1) = <<>>
    BY SubSeqEmpty
  <1> QED BY <1>1, <1>2, <1>3

LEMMA ReceiveSeen ==
  ASSUME ServiceInv, ServerStep, Receive
  PROVE  \E c \in Clients, m \in Messages : Takes(c, m)
  <1>1. PICK k \in 1 .. Len(inbox[Conn]) :
          /\ buffer' = SubSeq(inbox[Conn], 1, k)
          /\ inbox' = [inbox EXCEPT ![Conn] = SubSeq(@, k + 1, Len(@))]
    BY DEF Receive, Received
  <1>2. /\ pc = "receive" /\ pc' = "send"
        /\ UNCHANGED <<peer, fds, peerIndex, m_peerSockets>>
    BY DEF Receive, Received, slotVars
  <1>3. PICK c \in Clients : c = Conn /\ c = Conn'
    BY <1>2, AtHand, ReactorFacts DEF Conn, PeerOf
  <1>4. \E m \in Messages : inbox[c] = <<m>>
    <2>1. inbox[c] # <<>>
      BY <1>1, <1>3
    <2>2. ~Silent(c) /\ Conversation(c)
      BY <2>1, ReactorFacts DEF Silent
    <2>3. Waiting(c) \/ Quitting(c)
      BY <2>1, <2>2 DEF Conversation, NotCome, Speaking, LetGo, Dismissing
    <2>4. OnItsWay(c, "message") \/ OnItsWay(c, "quit")
      BY <2>2, <2>3 DEF Waiting, Quitting
    <2> QED BY <2>1, <2>4 DEF OnItsWay
  <1>5. PICK m \in Messages : inbox[c] = <<m>>
    BY <1>4
  <1>6. k = 1
    BY <1>1, <1>3, <1>5
  <1>7. SubSeq(<<m>>, 1, 1) = <<m>> /\ SubSeq(<<m>>, 2, 1) = <<>> /\ Len(<<m>>) = 1
    BY OneAlone
  <1>8. buffer' = SubSeq(<<m>>, 1, 1) /\ SubSeq(inbox[c], k + 1, Len(inbox[c])) = <<>>
    BY <1>1, <1>3, <1>5, <1>6, <1>7
  <1>9. buffer' = <<m>> /\ inbox' = [inbox EXCEPT ![c] = <<>>]
    BY <1>1, <1>3, <1>7, <1>8
  <1> QED BY <1>2, <1>3, <1>5, <1>9 DEF Takes

LEMMA SendSeen ==
  ASSUME ServiceInv, ServerStep, Send
  PROVE  /\ \E c \in Clients :
              (RepliesTo(c) /\ peerIndex' = 0) \/ RepliesToQuit(c)
         /\ UNCHANGED <<listening, backlog, fds, registered, batch>>
         /\ buffer' = <<>> /\ ~killed'
  <1>1. PICK c \in Clients : c = Conn
    BY AtHand, ReactorFacts DEF Send
  <1>2. /\ pc = "send" /\ killed' = SendKills(peer[c]) /\ Held(c)
        /\ peer' = [peer EXCEPT ![c] = AfterSend(peer[c])]
        /\ UNCHANGED <<listening, backlog, inbox, fds, registered>>
        /\ Quits => pc' = "dismiss" /\ buffer' = <<>> /\ UNCHANGED <<batch, peerIndex>>
        /\ ~Quits => HandlerReturns
        /\ Conn' = Conn \/ peerIndex' # peerIndex
    BY <1>1 DEF Send, Held, PeerBecomes, epollVars, slotVars, Conn, PeerOf
  <1>3. (Waiting(c) /\ OnItsWay(c, "message")) \/ Quitting(c)
    BY <1>2, ReactorFacts DEF Conversation, NotCome, Speaking, Waiting, LetGo, Dismissing,
                              Parting, Silent
  <1>4. ~killed'
    <2>1. ~SendKills(peer[c])
      BY <1>3 DEF Waiting, Quitting, SendKills
    <2> QED BY <1>2, <2>1, Zenon
  <1>5. CASE Waiting(c) /\ OnItsWay(c, "message")
    <2>1. buffer = <<"message">> /\ peer[c] = "open"
      BY <1>2, <1>5 DEF Waiting, OnItsWay
    <2>2. ~Quits
      BY <2>1 DEF Quits
    <2>3. /\ pc' \notin {"send", "dismiss"} /\ batch' = batch
          /\ peerIndex' = 0 /\ buffer' = <<>>
      BY <1>2, <2>2 DEF HandlerReturns, NextEvent
    <2>4. peer' = peer
      BY <1>2, <2>1, ReactorFacts DEF AfterSend
    <2> QED BY <1>1, <1>2, <1>4, <1>5, <2>1, <2>3, <2>4 DEF RepliesTo
  <1>6. CASE Quitting(c)
    <2>1. buffer = <<"quit">> /\ Quits
      BY <1>2, <1>6 DEF Quitting, OnItsWay, Quits
    <2> QED BY <1>1, <1>2, <1>4, <1>6, <2>1 DEF RepliesToQuit
  <1> QED BY <1>3, <1>5, <1>6

LEMMA DismissSeen ==
  ASSUME ServiceInv, ServerStep, Dismiss
  PROVE  /\ UNCHANGED <<listening, backlog, batch>> /\ ~killed'
         /\ peerIndex' = 0 /\ buffer' = <<>> /\ pc' \in {"check", "dispatch"}
         /\ \E c \in Clients, d \in Fds :
              /\ LetsGo(c)
              /\ fds[d] = c /\ fds' = [fds EXCEPT ![d] = None]
              /\ registered' = registered \ {d}
  <1>1. PICK c \in Clients : c = Conn
    BY AtHand, ReactorFacts DEF Dismiss
  <1>2. PICK d \in Fds : d = m_peerSockets[peerIndex].fd
    BY AtHand, ReactorFacts DEF Dismiss
  <1>3. /\ pc = "dismiss" /\ HandlerReturns /\ killed' = killed /\ Parting(c)
        /\ m_peerSockets[peerIndex].state = "CONNECTED" /\ c = fds[d]
    BY <1>1, <1>2, AtHand, ReactorFacts DEF Dismiss, Parting, Conn, PeerOf
  <1>4. /\ peerIndex' = 0 /\ buffer' = <<>> /\ pc' \in {"check", "dispatch"} /\ batch' = batch
    BY <1>3 DEF HandlerReturns, NextEvent
  <1>5. Disconnect(peerIndex, "CONNECTED")
    BY <1>3 DEF Dismiss
  <1>6. DescriptorClosed(d) /\ registered' = registered \ {d}
    BY <1>2, <1>5 DEF Disconnect, RemovePeer
  <1>7. /\ peer' = [peer EXCEPT ![c] = "gone"] /\ inbox' = [inbox EXCEPT ![c] = <<>>]
        /\ fds' = [fds EXCEPT ![d] = None] /\ UNCHANGED <<listening, backlog>>
    BY <1>3, <1>6 DEF DescriptorClosed
  <1>8. ~killed'
    BY <1>3, Zenon DEF ServiceInv, CalmInv
  <1>9. Dismissing(c)
    BY <1>3, ReactorFacts DEF Conversation, NotCome, Speaking, Waiting, Quitting, LetGo,
                              Silent, OnItsWay, Held, Parting
  <1> QED BY <1>1, <1>3, <1>4, <1>6, <1>7, <1>8, <1>9 DEF LetsGo

\* Every step of the reactor is one of these.
LEMMA ReactorSeen ==
  ASSUME ServiceInv, ServerStep
  PROVE  \/ Unseen
         \/ \E c \in Clients :
              \/ \E m \in Messages : Takes(c, m)
              \/ RepliesTo(c) \/ RepliesToQuit(c) \/ LetsGo(c)
  <1>1. CASE SetName \/ CheckStop \/ Wait \/ ClientEvent
    BY <1>1 DEF SetName, CheckStop, Wait, ClientEvent, NextEvent, serverVars, kernelVars, Unseen
  <1>2. CASE AcceptEvent
    BY <1>2 DEF AcceptEvent, Accepted, NextEvent, kernelVars, Unseen
  <1>3. CASE Receive
    BY <1>3, ReceiveSeen
  <1>4. CASE Send
    BY <1>4, SendSeen
  <1>5. CASE Dismiss
    BY <1>5, DismissSeen
  <1> QED BY <1>1, <1>2, <1>3, <1>4, <1>5, NothingAmiss DEF ServerStep, Reactor

\* The server's end of a connection it still holds open stays open.
LEMMA EndsKept ==
  ASSUME ServiceInv, ServerStep, NEW c \in Clients, peer'[c] = "gone" => peer[c] = "gone"
  PROVE  end'[c] = end[c]
  <1>1. end'[c] = IF end[c] # "open" \/ peer'[c] # "gone" THEN end[c]
                  ELSE IF inbox[c] = <<>> THEN "fin" ELSE "rst"
    BY DEF ServerStep
  <1>2. peer[c] = "gone" => end[c] # "open"
    BY DEF ServiceInv, Conversation, NotCome, Speaking, Waiting, Quitting,
           LetGo, Dismissing
  <1> QED BY <1>1, <1>2

\* What comes of it at the clients' end.
LEMMA ClientsSee ==
  ASSUME ServiceInv, ServerStep, NEW c \in Clients
  PROVE  /\ replies'[c] = IF pc = "send" /\ c = Conn /\ cpc[c] # "done"
                          THEN replies[c] + 1 ELSE replies[c]
         /\ ~LetsGo(c) => end'[c] = end[c]
         /\ LetsGo(c) => end'[c] = IF end[c] # "open" THEN end[c] ELSE "fin"
  <1>1. replies'[c] = IF pc = "send" /\ c = Conn /\ cpc[c] # "done"
                      THEN replies[c] + 1 ELSE replies[c]
    BY DEF ServerStep
  <1>2. ASSUME ~LetsGo(c)
        PROVE  peer'[c] = "gone" => peer[c] = "gone"
    <2>1. peer \in [Clients -> Ends]
      BY ReactorFacts
    <2> QED BY <1>2, <2>1, ReactorSeen
            DEF Unseen, Takes, RepliesTo, RepliesToQuit, LetsGo, AfterSend
  <1>3. ASSUME LetsGo(c)
        PROVE  peer'[c] = "gone" /\ inbox[c] = <<>>
    <2>1. peer \in [Clients -> Ends]
      BY ReactorFacts
    <2> QED BY <1>3, <2>1 DEF LetsGo, Dismissing
  <1> QED BY <1>1, <1>2, <1>3, EndsKept DEF ServerStep

\* The conversations go on.
LEMMA ConversationsGoOn ==
  ASSUME ServiceInv, ServerStep, NEW b \in Clients
  PROVE  Conversation(b)'
  <1>1. /\ Conversation(b) /\ cpc' = cpc
        /\ peer \in [Clients -> Ends] /\ inbox \in [Clients -> Seq(Messages)]
        /\ replies \in [Clients -> Nat]
    BY ReactorFacts DEF ServerStep, clientVars
  <1>2. /\ replies'[b] = IF pc = "send" /\ b = Conn /\ cpc[b] # "done"
                         THEN replies[b] + 1 ELSE replies[b]
        /\ ~LetsGo(b) => end'[b] = end[b]
        /\ LetsGo(b) => end'[b] = IF end[b] # "open" THEN end[b] ELSE "fin"
    BY ClientsSee
  <1>3. ASSUME ~Held(b), ~Held(b)', ~Parting(b), ~Parting(b)', peer'[b] = peer[b],
               inbox'[b] = inbox[b]
        PROVE  Conversation(b)'
    <2>1. end'[b] = end[b]
      BY <1>3, EndsKept
    <2>2. replies'[b] = replies[b]
      BY <1>2, <1>3 DEF Held
    <2> QED BY <1>1, <1>3, <2>1, <2>2, Unheard
  <1>4. CASE Unseen
    BY <1>3, <1>4 DEF Unseen, Held, Parting
  <1>5. ASSUME NEW c \in Clients, NEW m \in Messages, Takes(c, m)
        PROVE  Conversation(b)'
    <2>1. CASE b # c
      BY <1>1, <1>3, <1>5, <2>1 DEF Takes, Held, Parting
    <2>2. CASE b = c
      <3>1. /\ Held(b)' /\ ~Held(b) /\ ~Parting(b) /\ inbox[b] = <<m>> /\ inbox'[b] = <<>>
            /\ buffer' = <<m>> /\ peer'[b] = peer[b]
        BY <1>1, <1>5, <2>2 DEF Takes, Held, Parting
      <3>2. end'[b] = end[b] /\ replies'[b] = replies[b]
        BY <1>2, <3>1, EndsKept DEF Held
      <3>3. ~Silent(b)
        BY <3>1 DEF Silent
      <3>4. Waiting(b) \/ Quitting(b)
        BY <1>1, <3>1, <3>3 DEF Conversation, NotCome, Speaking, LetGo, Dismissing
      <3>5. \A w \in Messages : OnItsWay(b, w) => OnItsWay(b, w)'
        BY <3>1 DEF OnItsWay
      <3>6. Waiting(b) => Waiting(b)'
        BY <1>1, <3>1, <3>2, <3>3, <3>5 DEF Waiting
      <3>7. Quitting(b) => Quitting(b)'
        BY <1>1, <3>1, <3>2, <3>5 DEF Quitting
      <3> QED BY <3>4, <3>6, <3>7 DEF Conversation
    <2> QED BY <2>1, <2>2
  <1>6. ASSUME NEW c \in Clients, RepliesTo(c)
        PROVE  Conversation(b)'
    <2>1. CASE b # c
      BY <1>3, <1>6, <2>1 DEF RepliesTo, Held, Parting
    <2>2. CASE b = c
      <3>1. /\ Held(b) /\ ~Held(b)' /\ ~Parting(b)' /\ UNCHANGED <<peer, inbox>>
            /\ Waiting(b)
        BY <1>6, <2>2 DEF RepliesTo, Held, Parting
      <3>2. end'[b] = end[b] /\ replies'[b] = replies[b] + 1
        BY <1>2, <3>1, EndsKept DEF Held, Waiting
      <3>3. Waiting(b)'
        BY <1>1, <3>1, <3>2 DEF Waiting, Silent, OnItsWay
      <3> QED BY <3>3 DEF Conversation
    <2> QED BY <2>1, <2>2
  <1>7. ASSUME NEW c \in Clients, RepliesToQuit(c)
        PROVE  Conversation(b)'
    <2>1. CASE b # c
      BY <1>1, <1>3, <1>7, <2>1 DEF RepliesToQuit, Held, Parting
    <2>2. CASE b = c
      <3>1. /\ Held(b) /\ Parting(b)' /\ inbox' = inbox /\ Quitting(b)
            /\ peer'[b] = AfterSend(peer[b]) /\ pc = "send" /\ Conn = b /\ ~Parting(b)
        BY <1>1, <1>7, <2>2 DEF RepliesToQuit, Held, Parting
      <3>2. end'[b] = end[b] /\ (cpc[b] # "done" => replies'[b] = replies[b] + 1)
        BY <1>2, <3>1 DEF LetsGo
      <3>3. Dismissing(b)'
        BY <1>1, <3>1, <3>2 DEF Quitting, OnItsWay, Dismissing, AfterSend
      <3> QED BY <3>3 DEF Conversation
    <2> QED BY <2>1, <2>2
  <1>8. ASSUME NEW c \in Clients, LetsGo(c)
        PROVE  Conversation(b)'
    <2>1. CASE b # c
      BY <1>1, <1>3, <1>8, <2>1 DEF LetsGo, Held, Parting
    <2>2. CASE b = c
      <3>1. /\ ~Held(b)' /\ ~Parting(b)' /\ peer'[b] = "gone" /\ inbox'[b] = <<>>
            /\ Dismissing(b) /\ end'[b] = IF end[b] # "open" THEN end[b] ELSE "fin"
        BY <1>1, <1>2, <1>8, <2>2 DEF LetsGo, Held, Parting
      <3>2. LetGo(b)'
        BY <1>1, <3>1 DEF Dismissing, LetGo, Silent
      <3> QED BY <3>2 DEF Conversation
    <2> QED BY <2>1, <2>2
  <1> QED BY <1>4, <1>5, <1>6, <1>7, <1>8, ReactorSeen

\* A step of the reactor.
LEMMA ServerStepKeeps ==
  ASSUME ServiceInv, ServerStep
  PROVE  ServiceInv'
  <1>1. /\ Inv /\ ClientTypes /\ HandInv /\ CalmInv /\ Reactor
        /\ peer \in [Clients -> Ends] /\ inbox \in [Clients -> Seq(Messages)]
        /\ fds \in [Fds -> Clients \cup {None}] /\ registered \subseteq Fds
        /\ end \in [Clients -> Ends] /\ replies \in [Clients -> Nat]
    BY ReactorFacts
  <1>2. Inv'
    BY <1>1, ReactorStep
  <1>3. /\ cpc' = cpc /\ m_reactorThread' = m_reactorThread /\ m_isStopping' = m_isStopping
        /\ ckilled' = ckilled /\ numberDisconnections' = numberDisconnections
    BY DEF ServerStep, Reactor, clientVars, mainVars
  <1>4. \A c \in Clients : Conversation(c)'
    BY ConversationsGoOn
  <1>5. ClientTypes'
    <2>1. \A c \in Clients : end'[c] \in Ends
      BY <1>1 DEF ServerStep
    <2>2. ASSUME NEW c \in Clients
          PROVE  replies'[c] \in Nat
      <3>1. replies[c] \in Nat
        BY <1>1
      <3> QED BY <3>1, ClientsSee
    <2>3. end' = [c \in Clients |-> end'[c]] /\ replies' = [c \in Clients |-> replies'[c]]
      BY DEF ServerStep
    <2> QED BY <1>1, <1>3, <2>1, <2>2, <2>3 DEF ClientTypes
  <1>6. ASSUME HandInv', GoneInv', ~killed', listening' = listening,
               \A e \in batch' : e.valid,
               \A d \in Fds : fds'[d] # None => d \in registered'
        PROVE  ServiceInv'
    <2>1. CalmInv'
      BY <1>1, <1>3, <1>6, Zenon DEF CalmInv
    <2> QED BY <1>2, <1>4, <1>5, <1>6, <2>1 DEF ServiceInv
  <1>7. ASSUME peer' = peer, fds' = fds, backlog' = backlog
        PROVE  GoneInv'
    BY <1>7 DEF ServiceInv, GoneInv
  <1>9. CASE SetName \/ CheckStop
    <2>1. /\ pc' \notin {"receive", "send", "dismiss"}
          /\ pc \notin {"receive", "send", "dismiss"}
          /\ UNCHANGED <<listening, backlog, peer, inbox, fds, registered, batch, peerIndex,
                         buffer>>
      BY <1>9 DEF SetName, CheckStop, serverVars, kernelVars, epollVars, eventVars
    <2>2. ~killed'
      <3>1. killed' = ~m_reactorThread \/ killed' = killed
        BY <1>9, Zenon DEF SetName, CheckStop, serverVars
      <3> QED BY <1>1, <3>1, Zenon DEF CalmInv
    <2>3. HandInv'
      BY <1>1, <2>1 DEF HandInv
    <2> QED BY <1>1, <1>6, <1>7, <2>1, <2>2, <2>3 DEF CalmInv
  <1>8. NextEvent \notin {"receive", "send", "dismiss"}
    BY DEF NextEvent
  <1>10. CASE Wait
    <2>1. /\ pc = "wait" /\ pc' \notin {"receive", "send", "dismiss"} /\ batch' = ReadyEvents
          /\ UNCHANGED <<listening, backlog, peer, inbox, fds, registered, peerIndex, buffer>>
      BY <1>8, <1>10 DEF Wait, Reported, serverVars, kernelVars, epollVars
    <2>2. ~killed'
      BY <1>1, <1>10, Zenon DEF Wait, serverVars, CalmInv
    <2>3. HandInv'
      BY <1>1, <2>1 DEF HandInv
    <2>4. ASSUME NEW e \in ReadyEvents
          PROVE  e.valid
      <3>1. CASE e \in [fd : {d \in {Listening} : backlog # <<>>}, conn : {None}, valid : {TRUE}]
        BY <3>1
      <3>2. CASE \E d \in registered :
                   e = [fd |-> d, conn |-> fds[d], valid |-> ~IsReset(peer[fds[d]])]
        <4>1. PICK d \in registered :
                 e = [fd |-> d, conn |-> fds[d], valid |-> ~IsReset(peer[fds[d]])]
          BY <3>2
        <4>2. fds[d] \in Clients
          BY <1>1, OpenFacts DEF Inv, SlotInv
        <4>3. ~IsReset(peer[fds[d]])
          BY <2>1, <4>2 DEF IsReset, ServiceInv, Conversation, NotCome, Speaking, Waiting,
                            Quitting, Dismissing, Parting, LetGo
        <4> QED BY <4>1, <4>3
      <3> QED BY <3>1, <3>2 DEF ReadyEvents
    <2> QED BY <1>1, <1>6, <1>7, <2>1, <2>2, <2>3, <2>4 DEF CalmInv
  <1>11. CASE AcceptEvent
    <2>1. /\ pc = "dispatch" /\ pc' \notin {"receive", "send", "dismiss"} /\ batch' \subseteq batch
          /\ UNCHANGED <<peerIndex, buffer>>
      BY <1>8, <1>11 DEF AcceptEvent
    <2>2. ~killed'
      BY <1>1, <1>11, Zenon DEF AcceptEvent, CalmInv
    <2>3. HandInv'
      BY <1>1, <2>1 DEF HandInv
    <2>4. UNCHANGED <<listening, peer, inbox>>
      BY <1>11 DEF AcceptEvent, Accepted, kernelVars
    <2>5. \A d \in Fds : fds'[d] # None => d \in registered'
      <3>1. CASE FreeFds = {}
        BY <1>1, <1>11, <3>1 DEF AcceptEvent, kernelVars, epollVars, CalmInv
      <3>2. CASE FreeFds # {}
        <4>1. /\ fds' = [fds EXCEPT ![LowestFree] = Head(backlog)]
              /\ registered' = registered \cup {LowestFree}
          BY <1>11, <3>2 DEF AcceptEvent, Accepted, Watched
        <4> QED BY <1>1, <4>1 DEF CalmInv
      <3> QED BY <3>1, <3>2
    <2>6. GoneInv'
      <3>1. CASE FreeFds = {}
        BY <1>1, <1>11, <1>7, <3>1 DEF AcceptEvent, kernelVars
      <3>2. CASE FreeFds # {}
        <4>1. /\ fds' = [fds EXCEPT ![LowestFree] = Head(backlog)] /\ backlog' = Tail(backlog)
              /\ peer' = peer
          BY <1>11, <3>2 DEF AcceptEvent, Accepted
        <4>2. backlog # <<>> /\ backlog \in Seq(Clients)
          BY <1>1, <1>11, BacklogFacts DEF AcceptEvent, Inv, BatchFresh
        <4>3. /\ 1 \in 1 .. Len(backlog) /\ Head(backlog) = backlog[1]
              /\ \A i \in 1 .. Len(Tail(backlog)) :
                   i + 1 \in 1 .. Len(backlog) /\ Tail(backlog)[i] = backlog[i + 1]
          BY <4>2
        <4>4. ASSUME NEW b \in Clients, peer'[b] = "gone"
              PROVE  /\ \A d \in Fds : fds'[d] # b
                     /\ \A i \in 1 .. Len(backlog') : backlog'[i] # b
          <5>1. /\ \A d \in Fds : fds[d] # b
                /\ \A i \in 1 .. Len(backlog) : backlog[i] # b
            BY <4>1, <4>4 DEF ServiceInv, GoneInv
          <5>2. \A d \in Fds : fds'[d] # b
            BY <1>1, <4>1, <4>3, <5>1
          <5>3. \A i \in 1 .. Len(backlog') : backlog'[i] # b
            BY <4>1, <4>3, <5>1
          <5> QED BY <5>2, <5>3
        <4> QED BY <4>4 DEF GoneInv
      <3> QED BY <3>1, <3>2
    <2> QED BY <1>1, <1>6, <2>1, <2>2, <2>3, <2>4, <2>5, <2>6 DEF CalmInv
  <1>12. CASE ClientEvent
    <2>1. /\ pc = "dispatch" /\ pc' = "receive" /\ batch' \subseteq batch
          /\ UNCHANGED <<listening, backlog, peer, inbox, fds, registered, buffer>>
      BY <1>12 DEF ClientEvent, serverVars, kernelVars, epollVars
    <2>2. ~killed'
      BY <1>1, <1>12, Zenon DEF ClientEvent, serverVars, CalmInv
    <2>3. HandInv'
      BY <1>1, <2>1 DEF HandInv
    <2> QED BY <1>1, <1>6, <1>7, <2>1, <2>2, <2>3 DEF CalmInv
  <1>13. CASE Receive
    <2>1. /\ pc' = "send" /\ killed' = killed
          /\ UNCHANGED <<listening, backlog, peer, fds, registered, batch>>
      BY <1>13 DEF Receive, Received, epollVars
    <2>2. HandInv' /\ GoneInv'
      BY <1>7, <2>1 DEF HandInv
    <2>3. ~killed'
      BY <1>1, <2>1, Zenon DEF CalmInv
    <2> QED BY <1>1, <1>6, <2>1, <2>2, <2>3 DEF CalmInv
  <1>14. CASE Send
    <2>1. PICK c \in Clients : (RepliesTo(c) /\ peerIndex' = 0) \/ RepliesToQuit(c)
      BY <1>14, SendSeen
    <2>2. /\ UNCHANGED <<listening, backlog, fds, registered, batch>>
          /\ buffer' = <<>> /\ ~killed'
      BY <1>14, SendSeen
    <2>3. HandInv'
      <3>1. peerIndex' = 0 \/ pc' = "dismiss"
        BY <2>1 DEF RepliesToQuit
      <3> QED BY <2>2, <3>1 DEF HandInv
    <2>4. GoneInv'
      <3>1. \A b \in Clients : peer'[b] = "gone" => peer[b] = "gone"
        BY <1>1, <2>1 DEF RepliesTo, RepliesToQuit, AfterSend
      <3> QED BY <2>2, <3>1 DEF ServiceInv, GoneInv
    <2> QED BY <1>1, <1>6, <2>2, <2>3, <2>4 DEF CalmInv
  <1>15. CASE Dismiss
    <2>1. /\ UNCHANGED <<listening, backlog, batch>> /\ ~killed'
          /\ peerIndex' = 0 /\ buffer' = <<>>
      BY <1>15, DismissSeen
    <2>2. PICK c \in Clients, d \in Fds :
            /\ LetsGo(c)
            /\ fds[d] = c /\ fds' = [fds EXCEPT ![d] = None]
            /\ registered' = registered \ {d}
      BY <1>15, DismissSeen
    <2>3. HandInv'
      BY <2>1 DEF HandInv
    <2>4. peer' = [peer EXCEPT ![c] = "gone"]
      BY <2>2 DEF LetsGo
    <2>5. /\ \A e \in Fds : e # d => fds[e] # c
          /\ \A i \in 1 .. Len(backlog) : backlog[i] # c
      BY <1>1, <2>2, NoneAssumption DEF Inv, KernelInv
    <2>6. ASSUME NEW b \in Clients, peer'[b] = "gone"
          PROVE  /\ \A e \in Fds : fds'[e] # b
                 /\ \A i \in 1 .. Len(backlog') : backlog'[i] # b
      <3>1. CASE b = c
        BY <1>1, <2>1, <2>2, <2>5, <3>1, NoneAssumption
      <3>2. CASE b # c
        BY <1>1, <2>1, <2>2, <2>4, <2>6, <3>2, NoneAssumption DEF ServiceInv, GoneInv
      <3> QED BY <3>1, <3>2
    <2>7. GoneInv'
      BY <2>6 DEF GoneInv
    <2>8. \A e \in Fds : fds'[e] # None => e \in registered'
      BY <1>1, <2>2 DEF CalmInv
    <2> QED BY <1>1, <1>6, <2>1, <2>3, <2>7, <2>8 DEF CalmInv
  <1> QED BY <1>1, <1>9, <1>10, <1>11, <1>12, <1>13, <1>14, <1>15, NothingAmiss DEF Reactor

\* A step that leaves everything alone.
LEMMA ServiceStill ==
  ASSUME ServiceInv, UNCHANGED serviceVars
  PROVE  ServiceInv'
  <1>1. /\ UNCHANGED <<serverVars, m_reactorThread, pc, eventVars, errno, mainVars>>
        /\ UNCHANGED <<cpc, numberDisconnections, ckilled, end, replies>>
    BY DEF serviceVars, reactorVars, clientVars
  <1>2. UNCHANGED vars
    BY <1>1 DEF vars
  <1>3. Inv'
    BY <1>2, NextInv DEF ServiceInv
  <1>4. ClientTypes'
    BY <1>1 DEF ServiceInv, ClientTypes
  <1>5. HandInv' /\ GoneInv'
    BY <1>1 DEF ServiceInv, HandInv, GoneInv, serverVars, kernelVars, eventVars
  <1>6. CalmInv'
    <2>1. UNCHANGED <<listening, m_reactorThread, m_isStopping, killed, ckilled,
                      numberDisconnections, batch, fds, registered>>
      BY <1>1 DEF serverVars, kernelVars, epollVars, eventVars, mainVars
    <2> QED BY <2>1, Zenon DEF ServiceInv, CalmInv
  <1>7. ASSUME NEW c \in Clients
        PROVE  Conversation(c)'
    <2>1. /\ Held(c)' <=> Held(c)
          /\ Parting(c)' <=> Parting(c)
          /\ buffer' = buffer /\ peer' = peer /\ inbox' = inbox
      BY <1>1 DEF Held, Parting, Conn, PeerOf, serverVars, kernelVars, slotVars, eventVars
    <2> QED BY <1>1, <2>1, Unheard DEF ServiceInv
  <1> QED BY <1>3, <1>4, <1>5, <1>6, <1>7 DEF ServiceInv

LEMMA ServiceNextInv == ServiceInv /\ [ServiceNext]_serviceVars => ServiceInv'
  BY ServerStepKeeps, ClientStepKeeps, RejectKeeps, ServiceStill DEF ServiceNext

\* Every state the client automation and the reactor reach together satisfies
\* the invariant: each client's conversation is at one of six points.
THEOREM ServiceInvariance == ServiceSpec => []ServiceInv
  BY ServiceInitInv, ServiceNextInv, PTL DEF ServiceSpec

\* What the reactor has in hand of client c.
LEMMA HandHolds ==
  ASSUME ServiceInv, NEW c \in Clients
  PROVE  /\ InHand(c) = IF Held(c) THEN Len(buffer) ELSE 0
         /\ Held(c) => Len(buffer) = 1
  <1>1. HandInv /\ Inv /\ Conversation(c)
    BY DEF ServiceInv
  <1>2. ASSUME Held(c)
        PROVE  peerIndex # 0 /\ Conn = c
    <2>1. peerIndex \in Used
      BY <1>1, <1>2 DEF Held, Inv, BatchFresh
    <2> QED BY <1>2, <2>1 DEF Held, Used
  <1>3. ASSUME ~Held(c)
        PROVE  InHand(c) = 0
    <2>1. CASE peerIndex # 0 /\ Conn = c
      <3>1. buffer = <<>>
        BY <1>1, <1>3, <2>1 DEF HandInv, Held
      <3> QED BY <3>1 DEF InHand
    <2> QED BY <2>1 DEF InHand
  <1>4. ASSUME Held(c)
        PROVE  Len(buffer) = 1
    <2>1. \E m \in Messages : buffer = <<m>>
      BY <1>1, <1>4 DEF Conversation, NotCome, Speaking, Waiting, Quitting, Dismissing,
                        LetGo, Silent, OnItsWay, Held, Parting
    <2> QED BY <2>1
  <1> QED BY <1>2, <1>3, <1>4 DEF InHand

\* A thread that waits has exactly one message under way, one that does not has
\* none: two messages are never received as one, and quit is known for what it is.
THEOREM InLockstep == ServiceSpec => []Lockstep
  <1>1. ServiceInv => Lockstep
    <2> SUFFICES ASSUME ServiceInv, NEW c \in Clients
                 PROVE  /\ cpc[c] = "receive" => Len(inbox[c]) + InHand(c) + replies[c] = 1
                        /\ cpc[c] \in {"lock", "send", "quit"} =>
                             Len(inbox[c]) + InHand(c) + replies[c] = 0
      BY DEF Lockstep
    <2>1. /\ InHand(c) = IF Held(c) THEN Len(buffer) ELSE 0
          /\ Held(c) => Len(buffer) = 1
      BY HandHolds
    <2>2. Conversation(c)
      BY DEF ServiceInv
    <2>3. ASSUME cpc[c] \in {"lock", "send", "quit"}
          PROVE  Len(inbox[c]) + InHand(c) + replies[c] = 0
      <3>1. Speaking(c)
        BY <2>2, <2>3 DEF Conversation, NotCome, Waiting, Quitting, LetGo, Dismissing
      <3> QED BY <2>1, <3>1 DEF Speaking, Silent
    <2>4. ASSUME cpc[c] = "receive"
          PROVE  Len(inbox[c]) + InHand(c) + replies[c] = 1
      <3>1. Waiting(c)
        BY <2>2, <2>4 DEF Conversation, NotCome, Speaking, Quitting, LetGo, Dismissing
      <3>2. CASE OnItsWay(c, "message") /\ replies[c] = 0
        <4>1. CASE inbox[c] = <<"message">> /\ ~Held(c)
          <5>1. Len(inbox[c]) = 1 /\ InHand(c) = 0
            BY <2>1, <4>1
          <5> QED BY <3>2, <5>1
        <4>2. CASE inbox[c] = <<>> /\ Held(c)
          <5>1. Len(inbox[c]) = 0 /\ InHand(c) = 1
            BY <2>1, <4>2
          <5> QED BY <3>2, <5>1
        <4> QED BY <3>2, <4>1, <4>2 DEF OnItsWay
      <3>3. CASE Silent(c) /\ replies[c] = 1
        BY <2>1, <3>3 DEF Silent
      <3> QED BY <3>1, <3>2, <3>3 DEF Waiting
    <2> QED BY <2>3, <2>4
  <1> QED BY <1>1, ServiceInvariance, PTL

\* The client closes with the reply to its quit unread or not come, and so every
\* connection may end in a reset.  It comes when the server has sent its last
\* reply and is about to close: no process is killed, no disconnection counted,
\* and every open descriptor of the server has its slot.
THEOREM NeverDisturbed == ServiceSpec => []Undisturbed
  <1>1. ServiceInv => Undisturbed
    <2> SUFFICES ASSUME ServiceInv
                 PROVE  Undisturbed
      OBVIOUS
    <2>1. ASSUME NEW c \in Clients
          PROVE  /\ \/ peer[c] \in {"none", "open", "fin", "gone"}
                    \/ pc = "dismiss" /\ Conn = c
                 /\ end[c] \in {"none", "open", "fin", "gone"}
                 /\ end[c] = "fin" => cpc[c] = "close"
      BY DEF ServiceInv, Conversation, NotCome, Speaking, Waiting, Quitting, Dismissing,
             Parting, LetGo
    <2>2. ~killed /\ ~ckilled /\ numberDisconnections = 0
      BY Zenon DEF ServiceInv, CalmInv
    <2>3. ASSUME NEW d \in Fds, fds[d] # None
          PROVE  \E k \in Used : m_peerSockets[k].fd = d
      <3>1. d \in registered
        BY <2>3 DEF ServiceInv, CalmInv
      <3>2. /\ m_peerSocketIndexTable[d] \in Used
            /\ m_peerSockets[m_peerSocketIndexTable[d]] = [fd |-> d, state |-> "CONNECTED"]
        BY <3>1 DEF ServiceInv, Inv, TableExact
      <3> QED BY <3>2
    <2> QED BY <2>1, <2>2, <2>3 DEF Undisturbed
  <1> QED BY <1>1, ServiceInvariance, PTL

-----------------------------------------------------------------------------
LEMMA ServedInitRefines == ServedInit => Expected!Init
  <1> SUFFICES ASSUME ServedInit
               PROVE  Expected!Init
    OBVIOUS
  <1>1. Program!Init /\ end = [c \in Clients |-> "none"] /\ inbox = [c \in Clients |-> <<>>]
        /\ pc = "check"
    BY DEF ServedInit, ServiceInit, Program!Init
  <1>2. \A c \in Clients : AtServer(c) = <<>>
    BY <1>1 DEF AtServer, Held
  <1>3. atServer = [c \in Clients |-> <<>>]
    BY <1>2 DEF atServer
  <1>4. \A c \in Clients : EndSeen(c) = "none"
    BY <1>1 DEF EndSeen
  <1>5. endSeen = [c \in Clients |-> "none"]
    BY <1>4 DEF endSeen
  <1> QED BY <1>1, <1>3, <1>5, Zenon DEF Program!Init, Expected!Init

\* A step of the client moves what is at the server, and the server's end of the
\* connection, only for its own connection.
LEMMA OthersAtServer ==
  ASSUME ServiceInv, NEW c \in Clients, ServedNext, ClientStep(c)
  PROVE  /\ Held(c)' <=> Held(c)
         /\ Parting(c)' <=> Parting(c)
         /\ buffer' = buffer
         /\ endSeen' = [endSeen EXCEPT ![c] = EndSeen(c)'] /\ endSeen[c] = EndSeen(c)
         /\ \A b \in Clients : b # c => AtServer(b)' = AtServer(b)
         /\ atServer' = [atServer EXCEPT ![c] = AtServer(c)']
         /\ atServer[c] = AtServer(c)
  <1>1. ClientTypes /\ inbox \in [Clients -> Seq(Messages)]
    BY DEF ServiceInv, Inv, TypeOK, ServerTypeOK, KernelTypeOK
  <1>2. UNCHANGED <<pc, peerIndex, buffer, m_peerSockets>> /\ fds' = fds
    BY DEF ClientStep, eventVars, slotVars, Connects, Connect, Closes, PeerBecomes
  <1>3. \A b \in Clients : (Held(b)' <=> Held(b)) /\ (Parting(b)' <=> Parting(b))
    BY <1>2 DEF Held, Parting, Conn, PeerOf
  <1>4. ASSUME NEW b \in Clients, b # c
        PROVE  end'[b] = end[b] /\ inbox'[b] = inbox[b]
    BY <1>1, <1>4 DEF ClientTypes, ClientStep, Connects, Closes, Program!Connected, Program!Close,
      Program!Refused, Program!Lock, Program!Send, Program!Receive, Program!ReceiveNothing,
      Program!Resend, Program!Quit, Program!Sends, Program!channelVars
  <1>5. ASSUME NEW b \in Clients, b # c
        PROVE  AtServer(b)' = AtServer(b)
    <2>1. left'[b] = IF end'[b] = "gone" THEN AtServer(b) ELSE left[b]
      BY DEF ServedNext
    <2> QED BY <1>2, <1>3, <1>4, <1>5, <2>1 DEF AtServer
  <1>6. atServer' = [atServer EXCEPT ![c] = AtServer(c)']
    BY <1>5 DEF atServer
  <1>7. ASSUME NEW b \in Clients, b # c
        PROVE  EndSeen(b)' = EndSeen(b)
    BY <1>3, <1>4, <1>7 DEF EndSeen, Parting
  <1>8. endSeen' = [endSeen EXCEPT ![c] = EndSeen(c)']
    BY <1>7 DEF endSeen
  <1> QED BY <1>2, <1>3, <1>5, <1>6, <1>8 DEF atServer, endSeen

\* What is at the server of a client that has its connection.
LEMMA AtServerIs ==
  ASSUME ServiceInv, NEW c \in Clients, ~Held(c), end[c] # "gone"
  PROVE  AtServer(c) = inbox[c]
  BY DEF AtServer

\* A step of a thread is the same step against the assumed server.
LEMMA ClientRefines ==
  ASSUME ServiceInv, ServiceInv', NEW c \in Clients, ServedNext, ClientStep(c)
  PROVE  Expected!Thread(c)
  <1>1. /\ Conversation(c) /\ Conversation(c)' /\ listening' = listening
        /\ inbox \in [Clients -> Seq(Messages)] /\ end \in [Clients -> Ends]
    BY DEF ServiceInv, CalmInv, Inv, TypeOK, ServerTypeOK, KernelTypeOK, ClientTypes
  <1>2. /\ Held(c)' <=> Held(c)
        /\ Parting(c)' <=> Parting(c)
        /\ buffer' = buffer
        /\ atServer' = [atServer EXCEPT ![c] = AtServer(c)'] /\ atServer[c] = AtServer(c)
        /\ endSeen' = [endSeen EXCEPT ![c] = EndSeen(c)'] /\ endSeen[c] = EndSeen(c)
    BY OthersAtServer
  <1>3. left'[c] = IF end'[c] = "gone" THEN AtServer(c) ELSE left[c]
    BY DEF ServedNext
  <1>4. ASSUME AtServer(c)' = AtServer(c)
        PROVE  atServer' = atServer
    BY <1>2, <1>4 DEF atServer
  <1>5. ASSUME end' = end
         PROVE  endSeen' = endSeen
    <2>1. EndSeen(c)' = EndSeen(c)
      BY <1>2, <1>5 DEF EndSeen, Parting
    <2> QED BY <1>2, <2>1 DEF endSeen
  <1>6. ASSUME UNCHANGED <<end, inbox>>
        PROVE  atServer' = atServer /\ endSeen' = endSeen
    BY <1>2, <1>3, <1>4, <1>6, <1>5 DEF AtServer
  <1> USE DEF Program!Goto, Expected!Goto, Program!counterVars, Expected!counterVars,
              Program!losses, Expected!losses, Program!process, Expected!process,
              Program!processVars, Expected!processVars, Program!serverVars,
              Expected!serverVars, Program!channelVars, Expected!channelVars
  <1>7. CASE Program!Refused(c)
    BY <1>6, <1>7 DEF Program!Refused, Expected!Refused, Program!Reached, Expected!Reached,
                      Program!Created, Expected!Created, Expected!Thread
  <1>8. CASE Program!Lock(c)
    BY <1>6, <1>8 DEF Program!Lock, Expected!Lock, Program!MutexFree, Expected!MutexFree,
                      Expected!Thread
  <1>9. CASE Program!Receive(c)
    BY <1>6, <1>9 DEF Program!Receive, Expected!Receive, Program!NextMessage,
                      Expected!NextMessage, Program!Loop, Expected!Loop, Expected!Thread
  <1>10. ASSUME NEW m \in Messages, Program!Sends(c, m), Speaking(c)
        PROVE  Expected!Sends(c, m)
    <2>1. /\ end[c] = "open" /\ inbox[c] = <<>> /\ ~Held(c)
      BY <1>10 DEF Speaking, Silent
    <2>2. /\ inbox' = [inbox EXCEPT ![c] = Append(@, m)] /\ end'[c] = "open"
      BY <1>1, <1>10, <2>1 DEF Program!Sends, Program!AfterSend
    <2>3. AtServer(c) = inbox[c] /\ AtServer(c)' = inbox'[c]
      BY <1>2, <2>1, <2>2 DEF AtServer
    <2>4. inbox'[c] = Append(inbox[c], m)
      BY <1>1, <2>2
    <2>5. atServer' = [atServer EXCEPT ![c] = IF end[c] = "open" THEN Append(@, m) ELSE @]
      BY <1>2, <2>1, <2>3, <2>4
    <2>6. ~Parting(c)
      BY <1>10 DEF Speaking, Silent
    <2>7. endSeen[c] = "open" /\ EndSeen(c)' = "open"
      BY <1>2, <2>1, <2>2, <2>6 DEF EndSeen, Parting
    <2>8. endSeen' = [endSeen EXCEPT ![c] = Expected!AfterSend(@)]
      BY <1>2, <2>7 DEF Expected!AfterSend
    <2> QED BY <1>10, <2>1, <2>5, <2>7, <2>8 DEF Program!Sends, Expected!Sends, Program!SendKills,
               Expected!SendKills, Program!AfterSend, Expected!AfterSend,
               Program!ErrnoAfter, Expected!ErrnoAfter
  <1>11. ASSUME cpc[c] \in {"send", "quit"}
         PROVE  Speaking(c)
    BY <1>1, <1>11 DEF Conversation, NotCome, Waiting, Quitting, LetGo, Dismissing
  <1>12. CASE Program!Send(c)
    BY <1>10, <1>11, <1>12 DEF Program!Send, Expected!Send, Program!Awaited,
                              Expected!Awaited, Expected!Thread
  <1>13. CASE Program!Quit(c)
    BY <1>10, <1>11, <1>13 DEF Program!Quit, Expected!Quit, Expected!Thread
  <1>14. ~Program!ReceiveNothing(c) /\ ~Program!Resend(c)
    BY <1>1 DEF Program!ReceiveNothing, Program!Resend, Conversation, NotCome, Speaking,
                Waiting, Quitting, LetGo, Dismissing
  <1>15. CASE Connects(c)
    <2>1. Program!Connected(c)
      BY <1>15 DEF Connects
    <2>2. NotCome(c)
      BY <1>1, <2>1 DEF Program!Connected, Conversation, Speaking, Waiting, Quitting,
                        LetGo, Dismissing
    <2>3. end'[c] = "open" /\ inbox'[c] = <<>> /\ ~Held(c)'
      BY <1>1, <1>2, <2>1, <2>2 DEF Program!Connected, NotCome, Silent
    <2>4. atServer' = [atServer EXCEPT ![c] = <<>>]
      BY <1>2, <2>3 DEF AtServer
    <2>5. endSeen' = [endSeen EXCEPT ![c] = "open"]
      <3>1. ~Parting(c)
        BY <2>2 DEF NotCome, Silent
      <3>2. EndSeen(c)' = "open"
        BY <1>2, <2>3, <3>1 DEF EndSeen, Parting
      <3> QED BY <1>2, <3>2
    <2> QED BY <2>1, <2>4, <2>5 DEF Program!Connected, Expected!Connected, Program!Reached,
               Expected!Reached, Program!Created, Expected!Created, Program!AfterConnect,
               Expected!AfterConnect, Program!Loop, Expected!Loop,
               Program!ErrnoAfterOption, Expected!ErrnoAfterOption, Expected!Thread
  <1>16. CASE Closes(c)
    <2>1. Program!Close(c)
      BY <1>16 DEF Closes
    <2>2. end'[c] = "gone"
      BY <1>1, <2>1 DEF Program!Close
    <2>3. atServer' = atServer
      BY <1>3, <1>4, <2>2 DEF AtServer
    <2>4. endSeen' = [endSeen EXCEPT ![c] = "gone"]
      BY <1>2, <2>2 DEF EndSeen
    <2> QED BY <2>1, <2>3, <2>4 DEF Program!Close, Expected!Close, Program!FdsClosed,
               Expected!FdsClosed, Expected!Thread
  <1> QED BY <1>7, <1>8, <1>9, <1>12, <1>13, <1>14, <1>15, <1>16 DEF ClientStep

\* The reactor's reply is the assumed server's Serve; its other steps, the close
\* after a quit among them, do not show.
LEMMA ReactorRefines ==
  ASSUME ServiceInv, ServiceInv', ServedNext, ServerStep
  PROVE  (\E c \in Clients : Expected!Serve(c)) \/ UNCHANGED Expected!vars
  <1>1. /\ UNCHANGED clientVars /\ listening' = listening
        /\ inbox \in [Clients -> Seq(Messages)] /\ end \in [Clients -> Ends]
        /\ replies \in [Clients -> Nat] /\ HandInv
    BY ReactorFacts DEF ServerStep, ServiceInv, CalmInv
  <1>2. ASSUME NEW c \in Clients
        PROVE  /\ end'[c] = "gone" <=> end[c] = "gone"
               /\ left'[c] = IF end'[c] = "gone" THEN AtServer(c) ELSE left[c]
    BY DEF ServerStep, ServedNext
  <1>3. ASSUME NEW c \in Clients, end[c] = "gone"
        PROVE  AtServer(c)' = AtServer(c)
    BY <1>2, <1>3 DEF AtServer
  <1>4. ASSUME NEW c \in Clients, ~Held(c), ~Held(c)', inbox'[c] = inbox[c]
        PROVE  AtServer(c)' = AtServer(c)
    BY <1>2, <1>3, <1>4 DEF AtServer
  <1>5. /\ end' = [c \in Clients |-> end'[c]] /\ end = [c \in Clients |-> end[c]]
        /\ replies' = [c \in Clients |-> replies'[c]]
        /\ replies = [c \in Clients |-> replies[c]]
    BY <1>1 DEF ServerStep
  <1>6. ASSUME \A c \in Clients : AtServer(c)' = AtServer(c) /\ EndSeen(c)' = EndSeen(c)
                                  /\ replies'[c] = replies[c]
        PROVE  UNCHANGED Expected!vars
    <2>1. atServer' = atServer
      BY <1>6 DEF atServer
    <2>2. endSeen' = endSeen /\ replies' = replies
      BY <1>5, <1>6 DEF endSeen
    <2> QED BY <1>1, <2>1, <2>2 DEF clientVars, Expected!vars, Expected!threadVars,
               Expected!counterVars, Expected!processVars, Expected!losses,
               Expected!process, Expected!serverVars, Expected!channelVars
  <1>7. CASE Unseen
    <2>1. \A c \in Clients : AtServer(c)' = AtServer(c)
      BY <1>4, <1>7 DEF Unseen, Held
    <2>2. \A c \in Clients : end'[c] = end[c] /\ replies'[c] = replies[c]
      BY <1>7, ClientsSee DEF Unseen, LetsGo
    <2>3. \A c \in Clients : EndSeen(c)' = EndSeen(c)
      BY <1>7, <2>2 DEF Unseen, EndSeen
    <2> QED BY <1>6, <2>1, <2>2, <2>3
  <1>8. ASSUME NEW c \in Clients, NEW m \in Messages, Takes(c, m)
        PROVE  UNCHANGED Expected!vars
    <2>1. \A b \in Clients : end'[b] = end[b] /\ replies'[b] = replies[b]
      BY <1>8, ClientsSee DEF Takes, LetsGo
    <2>2. ASSUME NEW b \in Clients, b # c
          PROVE  AtServer(b)' = AtServer(b)
      BY <1>1, <1>4, <1>8, <2>2 DEF Takes, Held
    <2>3. AtServer(c)' = AtServer(c)
      <3>1. /\ ~Held(c) /\ Held(c)' /\ inbox[c] = <<m>> /\ inbox'[c] = <<>>
            /\ buffer' = <<m>>
        BY <1>1, <1>8 DEF Takes, Held
      <3>2. <<m>> \o <<>> = <<m>>
        OBVIOUS
      <3>3. CASE end[c] # "gone"
        BY <1>2, <3>1, <3>2, <3>3 DEF AtServer
      <3> QED BY <1>3, <3>3
    <2>4. \A b \in Clients : EndSeen(b)' = EndSeen(b)
      BY <1>8, <2>1 DEF Takes, EndSeen
    <2> QED BY <1>6, <2>1, <2>2, <2>3, <2>4
  <1>9. ASSUME NEW c \in Clients, NEW m \in Messages, pc = "send", pc' # "send", Conn = c,
               end[c] = "open", buffer = <<m>>, inbox[c] = <<>>, inbox' = inbox, end' = end,
               m = "quit" => pc' = "dismiss" /\ Conn' = c,
               m # "quit" => pc' # "dismiss"
        PROVE  Expected!Serve(c)
    <2>1. cpc[c] # "done"
      BY <1>9 DEF ServiceInv, Conversation, NotCome, Speaking, Waiting, Quitting,
                  LetGo, Dismissing
    <2>2. replies' = [replies EXCEPT ![c] = @ + 1]
      <3>1. \A b \in Clients : replies'[b] = IF b = c THEN replies[b] + 1 ELSE replies[b]
        BY <1>9, <2>1, ClientsSee
      <3> QED BY <1>5, <3>1
    <2>3. AtServer(c) = <<m>> /\ AtServer(c)' = <<>>
      <3>1. <<m>> \o <<>> = <<m>>
        OBVIOUS
      <3>2. Held(c) /\ ~Held(c)'
        BY <1>9 DEF Held
      <3> QED BY <1>2, <1>9, <3>1, <3>2 DEF AtServer
    <2>4. \A b \in Clients : b # c => AtServer(b)' = AtServer(b)
      BY <1>4, <1>9 DEF Held
    <2>5. atServer' = [atServer EXCEPT ![c] = <<>>] /\ atServer[c] = <<m>>
      BY <2>3, <2>4 DEF atServer
    <2>6. SubSeq(<<m>>, 1, 1) = <<m>> /\ SubSeq(<<m>>, 2, 1) = <<>> /\ Len(<<m>>) = 1
      BY OneAlone
    <2>7. endSeen' = [endSeen EXCEPT ![c] = IF <<m>> = <<"quit">> THEN "fin" ELSE @]
      <3>1. \A b \in Clients : EndSeen(b) = end[b]
        BY <1>9 DEF EndSeen
      <3>2. \A b \in Clients : b # c => EndSeen(b)' = EndSeen(b)
        BY <1>9, <3>1 DEF EndSeen
      <3>3. EndSeen(c)' = IF <<m>> = <<"quit">> THEN "fin" ELSE EndSeen(c)
        BY <1>9, <3>1 DEF EndSeen
      <3> QED BY <3>2, <3>3 DEF endSeen
    <2>8. /\ atServer' = [atServer EXCEPT ![c] = SubSeq(@, 1 + 1, Len(@))]
          /\ endSeen' = [endSeen EXCEPT ![c] = IF SubSeq(atServer[c], 1, 1) = <<"quit">>
                                               THEN "fin" ELSE @]
          /\ 1 \in 1 .. Len(atServer[c])
      <3>1. Len(atServer[c]) = 1 /\ SubSeq(atServer[c], 1 + 1, Len(atServer[c])) = <<>>
        BY <2>5, <2>6
      <3>2. SubSeq(atServer[c], 1, 1) = <<m>>
        BY <2>5, <2>6
      <3>3. atServer' = [atServer EXCEPT ![c] = SubSeq(@, 1 + 1, Len(@))]
        BY <2>5, <3>1
      <3>4. endSeen' = [endSeen EXCEPT ![c] = IF SubSeq(atServer[c], 1, 1) = <<"quit">>
                                              THEN "fin" ELSE @]
        BY <2>7, <3>2
      <3>5. 1 \in 1 .. Len(atServer[c])
        BY <3>1
      <3> QED BY <3>3, <3>4, <3>5
    <2>9. endSeen[c] = "open"
      BY <1>9 DEF endSeen, EndSeen
    <2> QED BY <1>1, <1>9, <2>2, <2>8, <2>9 DEF Expected!Serve, clientVars, Expected!threadVars,
               Expected!counterVars, Expected!processVars, Expected!losses,
               Expected!process, Expected!serverVars
  <1>10. ASSUME NEW c \in Clients, RepliesTo(c)
         PROVE  Expected!Serve(c)
    <2>1. /\ end[c] = "open" /\ inbox[c] = <<>> /\ inbox' = inbox /\ buffer = <<"message">>
          /\ pc = "send" /\ pc' \notin {"send", "dismiss"} /\ Conn = c
      BY <1>10 DEF RepliesTo, Waiting, OnItsWay, Silent, Held
    <2>2. end' = end
      <3>1. \A b \in Clients : end'[b] = end[b]
        BY <2>1, ClientsSee DEF LetsGo
      <3> QED BY <1>5, <3>1
    <2> QED BY <1>9, <2>1, <2>2
  <1>11. ASSUME NEW c \in Clients, RepliesToQuit(c)
         PROVE  Expected!Serve(c) \/ UNCHANGED Expected!vars
    <2>1. /\ inbox[c] = <<>> /\ inbox' = inbox /\ buffer = <<"quit">>
          /\ pc = "send" /\ pc' = "dismiss" /\ Conn = c /\ Conn' = c
          /\ \/ end[c] = "open"
             \/ end[c] = "gone" /\ cpc[c] = "done"
      BY <1>1, <1>11 DEF RepliesToQuit, Quitting, OnItsWay, Held
    <2>2. /\ \A b \in Clients : end'[b] = end[b]
          /\ \A b \in Clients : b # c => replies'[b] = replies[b]
          /\ cpc[c] = "done" => replies'[c] = replies[c]
      BY <2>1, ClientsSee DEF LetsGo
    <2>3. CASE end[c] = "open"
      <3>1. end' = end
        BY <1>5, <2>2
      <3> QED BY <1>9, <2>1, <2>3, <3>1
    <2>4. CASE end[c] = "gone" /\ cpc[c] = "done"
      <3>1. \A b \in Clients : AtServer(b)' = AtServer(b)
        BY <1>3, <1>4, <2>1, <2>4 DEF Held
      <3>2. \A b \in Clients : EndSeen(b)' = EndSeen(b)
        BY <2>1, <2>2, <2>4 DEF EndSeen
      <3> QED BY <1>6, <2>2, <2>4, <3>1, <3>2
    <2> QED BY <2>1, <2>3, <2>4
  <1>12. ASSUME NEW c \in Clients, LetsGo(c)
         PROVE  UNCHANGED Expected!vars
    <2>1. /\ inbox[c] = <<>> /\ inbox' = [inbox EXCEPT ![c] = <<>>]
          /\ pc = "dismiss" /\ pc' \notin {"send", "dismiss"} /\ Conn = c
      BY <1>12 DEF LetsGo, Dismissing
    <2>2. /\ \A b \in Clients : b # c => end'[b] = end[b]
          /\ \A b \in Clients : replies'[b] = replies[b]
          /\ end'[c] = IF end[c] # "open" THEN end[c] ELSE "fin"
      BY <1>12, <2>1, ClientsSee DEF LetsGo
    <2>3. \A b \in Clients : AtServer(b)' = AtServer(b)
      BY <1>1, <1>4, <2>1 DEF Held
    <2>4. \A b \in Clients : EndSeen(b)' = EndSeen(b)
      BY <2>1, <2>2 DEF EndSeen
    <2> QED BY <1>6, <2>2, <2>3, <2>4
  <1> QED BY <1>7, <1>8, <1>10, <1>11, <1>12, ReactorSeen

\* A reset in answer to a reply does not show either.
LEMMA RejectRefines ==
  ASSUME ServedNext, NEW b \in Clients, Rejects(b)
  PROVE  UNCHANGED Expected!vars
  <1>1. /\ UNCHANGED clientVars
        /\ UNCHANGED <<listening, inbox, fds, m_peerSockets, pc, buffer, peerIndex, end,
                       replies>>
    BY DEF Rejects, PeerBecomes, slotVars, eventVars
  <1>2. ASSUME NEW c \in Clients
        PROVE  AtServer(c)' = AtServer(c) /\ EndSeen(c)' = EndSeen(c)
    <2>1. left'[c] = IF end'[c] = "gone" THEN AtServer(c) ELSE left[c]
      BY DEF ServedNext
    <2> QED BY <1>1, <2>1 DEF AtServer, EndSeen, Held, Conn, PeerOf
  <1>3. atServer' = atServer /\ endSeen' = endSeen
    BY <1>2 DEF atServer, endSeen
  <1> QED BY <1>1, <1>3 DEF clientVars, Expected!vars, Expected!threadVars,
             Expected!counterVars, Expected!processVars, Expected!losses,
             Expected!process, Expected!serverVars, Expected!channelVars

LEMMA ServedNextRefines ==
  ServiceInv /\ ServiceInv' /\ [ServedNext]_servedVars => [Expected!Next]_(Expected!vars)
  <1> SUFFICES ASSUME ServiceInv, ServiceInv', [ServedNext]_servedVars
               PROVE  [Expected!Next]_(Expected!vars)
    OBVIOUS
  <1>1. ASSUME ServedNext, NEW c \in Clients, ClientStep(c)
        PROVE  Expected!Next
    BY <1>1, ClientRefines DEF Expected!Next, ServedNext, ServiceNext
  <1>2. ASSUME ServedNext, ServerStep
        PROVE  Expected!Next \/ UNCHANGED Expected!vars
    BY <1>2, ReactorRefines DEF Expected!Next, ServedNext, ServiceNext
  <1>3. CASE UNCHANGED servedVars
    <2>1. /\ UNCHANGED clientVars
          /\ UNCHANGED <<listening, inbox, fds, m_peerSockets, pc, buffer, peerIndex, left,
                         end, replies>>
      BY <1>3 DEF servedVars, serviceVars, reactorVars, serverVars, kernelVars, slotVars,
                  eventVars
    <2>2. atServer' = atServer /\ endSeen' = endSeen
      BY <2>1 DEF atServer, AtServer, endSeen, EndSeen, Held, Conn, PeerOf
    <2> QED BY <2>1, <2>2 DEF clientVars, Expected!vars, Expected!threadVars,
               Expected!counterVars, Expected!processVars, Expected!losses,
               Expected!process, Expected!serverVars, Expected!channelVars
  <1>4. ASSUME ServedNext, NEW c \in Clients, Rejects(c)
        PROVE  UNCHANGED Expected!vars
    BY <1>4, RejectRefines
  <1> QED BY <1>1, <1>2, <1>3, <1>4 DEF ServedNext, ServiceNext

LEMMA ServedIsService == ServedSpec => ServiceSpec
  <1>1. ServedInit => ServiceInit
    BY DEF ServedInit
  <1>2. [ServedNext]_servedVars => [ServiceNext]_serviceVars
    BY DEF ServedNext, servedVars
  <1> QED BY <1>1, <1>2, PTL DEF ServedSpec, ServiceSpec

\* The epoll server, step by step as it is, is the server client_automation
\* assumes: it replies to what has arrived, once, closes after a quit that
\* arrived alone, and does nothing else the client could notice.
THEOREM ServedRight == ServedSpec => ServesAsExpected
  BY ServedInitRefines, ServedNextRefines, ServedIsService, ServiceInvariance, PTL
     DEF ServedSpec, ServesAsExpected, Expected!Spec

=============================================================================
