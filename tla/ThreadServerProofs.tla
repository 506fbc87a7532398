-------------------------- MODULE ThreadServerProofs --------------------------
(***************************************************************************)
(* Proofs about ThreadServer, for any number of clients, messages and      *)
(* descriptors: no two workers share a slot or a connection, and every     *)
(* open descriptor is accounted for.                                       *)
(***************************************************************************)
EXTENDS ThreadServer, FiniteSetTheorems, TLAPS

\* A connection waits in the backlog or has one descriptor.
KernelInv ==
  /\ \A i, j \in 1 .. Len(backlog) : backlog[i] = backlog[j] => i = j
  /\ \A i \in 1 .. Len(backlog) :
       peer[backlog[i]] # "none" /\ \A d \in Fds : fds[d] # backlog[i]
  /\ \A d \in Fds : fds[d] # None => peer[fds[d]] # "none"
  /\ \A d, e \in Fds : fds[d] = fds[e] /\ fds[d] # None => d = e

\* The slots in use have open descriptors, each its own; a socket is marked
\* only when its client has reset the connection.
SlotInv ==
  /\ Len(m_peerSockets) <= Cardinality(Clients)
  /\ \A k \in Used : fds[m_peerSockets[k].fd] # None
  /\ \A k, l \in Used : m_peerSockets[k].fd = m_peerSockets[l].fd => k = l
  /\ \A k \in Used :
       m_peerSockets[k].state = "DISCONNECTED" => peer[PeerOf(k)] = "rst_seen"

\* The mutex is held by the thread that is where it has to be held.
LockInv ==
  /\ apc \in {"add", "store"} <=> m_peerSocketsLock = AcceptorThread
  /\ \A w \in Workers : pc[w] \in {"receive", "remove"} <=> m_peerSocketsLock = w

\* The connection just accepted has no slot until addPeer gives it one.
AcceptInv ==
  /\ main \in {"start", "create"} => apc = "none"
  /\ apc \in {"lock", "add", "store"} <=> accepted # 0
  /\ apc \in {"lock", "add"} =>
       fds[accepted] # None /\ \A k \in Used : m_peerSockets[k].fd # accepted
  /\ apc = "store" => \E k \in Used : m_peerSockets[k].fd = accepted

\* Every client that has come waits in the backlog or has been accepted: the
\* workers are never more than the clients.
Came == {c \in Clients : peer[c] # "none"}
InHand == IF apc \in {"lock", "add", "store"} THEN 1 ELSE 0
CountInv == stored + InHand + Len(backlog) = Cardinality(Came)

\* The workers there are have been created one after the other.
CreatedInv ==
  \A w \in Workers : pc[w] # "none" <=> w <= stored + (IF apc = "store" THEN 1 ELSE 0)

\* A worker at work has a slot in use, and no other worker has it.
ServeInv ==
  /\ \A w \in Active : slot[w] \in Used
  /\ \A v, w \in Active : slot[v] = slot[w] => v = w

\* The errno a worker goes by is about its own connection.
ErrnoInv ==
  /\ \A w \in Workers : pc[w] = "none" => errno[w] = "other"
  /\ \A w \in Active : errno[w] = "lost" => peer[Conn(w)] = "rst_seen"

ThreadTypeOK ==
  /\ m_peerSocketsLock \in {Free, AcceptorThread} \cup Workers
  /\ stored \in 0 .. Cardinality(Clients)
  /\ apc \in {"none", "check", "accept", "lock", "add", "store", "done"}
  /\ accepted \in Fds \cup {0}
  /\ pc \in [Workers -> {"none", "name", "check", "peer", "lock", "receive", "send",
                         "lock_remove", "remove", "done"}]
  /\ slot \in [Workers -> Slots \cup {0}]
  /\ buffer \in [Workers -> Seq(Messages)]
  /\ errno \in [Workers -> Errnos]

\* TypeOK, but for the number of threads joined.
ServingTypeOK == ServerTypeOK /\ ThreadTypeOK

Inv ==
  /\ ServingTypeOK /\ KernelInv /\ SlotInv /\ LockInv /\ AcceptInv /\ CountInv /\ CreatedInv
  /\ ServeInv /\ ErrnoInv /\ OpenAccounted

-----------------------------------------------------------------------------
USE ClientsAssumption, FdAssumption, NoneAssumption, SendsAssumption
USE DEF Fds, Slots, Ends, Messages, States, Errnos

\* A set of natural numbers has a least one.
LEMMA Least ==
  ASSUME NEW S \in SUBSET Nat, S # {}
  PROVE  \E k \in S : \A l \in S : k <= l
  <1>1. PICK k \in S : \A l \in S : <<l, k>> \notin OpToRel(<, Nat)
    BY NatLessThanWellFounded, WFMin
  <1>2. \A l \in S : ~(l < k)
    BY <1>1 DEF OpToRel
  <1> QED BY <1>2

LEMMA LowestFreeIsFree ==
  ASSUME FreeFds # {}
  PROVE  LowestFree \in FreeFds
  <1>1. FreeFds \in SUBSET Nat
    BY DEF FreeFds
  <1>2. \E d \in FreeFds : \A e \in FreeFds : d <= e
    BY <1>1, Least
  <1> QED BY <1>2 DEF LowestFree

LEMMA ClientCount == Cardinality(Clients) \in Nat \ {0}
  BY FS_CardinalityType, FS_EmptySet

-----------------------------------------------------------------------------
\* The slots, as far as type correctness goes.
SlotTypeOK ==
  /\ m_peerSockets \in Seq([fd : Fds, state : States])
  /\ m_peerSocketsConnectionFlags \in Seq(BOOLEAN)
  /\ Len(m_peerSockets) = Len(m_peerSocketsConnectionFlags)

\* Where a new connection goes is not in use.
LEMMA SlotForIsFree ==
  ASSUME SlotTypeOK
  PROVE  /\ SlotFor \in 1 .. Len(m_peerSockets) + 1
         /\ SlotFor \notin Used
         /\ SlotFor # Len(m_peerSockets) + 1 => SlotFor \in FreeSlots
         /\ SlotFor = Len(m_peerSockets) + 1 => FreeSlots = {}
  <1>0. Len(m_peerSockets) \in Nat
    BY DEF SlotTypeOK
  <1>1. CASE FreeSlots = {}
    <2>1. SlotFor = Len(m_peerSockets) + 1
      BY <1>1 DEF SlotFor
    <2>2. Used \subseteq 1 .. Len(m_peerSockets)
      BY DEF Used
    <2> QED BY <1>0, <1>1, <2>1, <2>2
  <1>2. CASE FreeSlots # {}
    <2>1. FreeSlots \in SUBSET Nat
      BY <1>0 DEF FreeSlots
    <2>2. \E k \in FreeSlots : \A l \in FreeSlots : k <= l
      BY <1>2, <2>1, Least
    <2>3. SlotFor \in FreeSlots
      BY <1>2, <2>2 DEF SlotFor
    <2>4. FreeSlots = (1 .. Len(m_peerSockets)) \ Used
      BY DEF FreeSlots
    <2> QED BY <1>0, <2>3, <2>4
  <1> QED BY <1>1, <1>2

LEMMA AtEffect ==
  ASSUME NEW S, NEW seq \in Seq(S), NEW k \in 1 .. Len(seq) + 1, NEW x \in S
  PROVE  /\ At(seq, k, x) \in Seq(S)
         /\ Len(At(seq, k, x)) = IF k = Len(seq) + 1 THEN k ELSE Len(seq)
         /\ At(seq, k, x)[k] = x
         /\ \A i \in 1 .. Len(seq) : i # k => At(seq, k, x)[i] = seq[i]
  <1>1. CASE k = Len(seq) + 1
    BY <1>1 DEF At
  <1>2. CASE k # Len(seq) + 1
    BY <1>2 DEF At
  <1> QED BY <1>1, <1>2

\* addPeer fills one slot and leaves the others alone.
LEMMA AddPeerEffect ==
  ASSUME SlotTypeOK, NEW d \in Fds, AddPeer(d)
  PROVE  /\ SlotTypeOK'
         /\ Len(m_peerSockets') =
              IF SlotFor = Len(m_peerSockets) + 1 THEN SlotFor ELSE Len(m_peerSockets)
         /\ m_peerSockets'[SlotFor] = [fd |-> d, state |-> "CONNECTED"]
         /\ \A k \in 1 .. Len(m_peerSockets) :
              k # SlotFor => m_peerSockets'[k] = m_peerSockets[k]
         /\ Used' = Used \cup {SlotFor}
         /\ FreeSlots' = FreeSlots \ {SlotFor}
  <1> DEFINE k == SlotFor
             socket == [fd |-> d, state |-> "CONNECTED"]
             sockets == At(m_peerSockets, k, socket)
             yes == TRUE
             flags == At(m_peerSocketsConnectionFlags, k, yes)
             S == [fd : Fds, state : States]
  <1>1. k \in 1 .. Len(m_peerSockets) + 1 /\ Len(m_peerSockets) \in Nat
    BY SlotForIsFree DEF SlotTypeOK
  <1>2. m_peerSockets' = sockets /\ m_peerSocketsConnectionFlags' = flags
    BY DEF AddPeer, FlagsWith
  <1>3. socket \in S /\ m_peerSockets \in Seq(S)
    BY DEF SlotTypeOK
  <1> HIDE DEF k, socket, S
  <1>4. /\ sockets \in Seq(S)
        /\ Len(sockets) = IF k = Len(m_peerSockets) + 1 THEN k ELSE Len(m_peerSockets)
        /\ sockets[k] = socket
        /\ \A i \in 1 .. Len(m_peerSockets) : i # k => sockets[i] = m_peerSockets[i]
    BY <1>1, <1>3, AtEffect
  <1>5. /\ flags \in Seq(BOOLEAN)
        /\ Len(flags) = IF k = Len(m_peerSockets) + 1 THEN k ELSE Len(m_peerSockets)
        /\ flags[k] = TRUE
        /\ \A i \in 1 .. Len(m_peerSockets) :
             i # k => flags[i] = m_peerSocketsConnectionFlags[i]
    <2>1. /\ m_peerSocketsConnectionFlags \in Seq(BOOLEAN) /\ yes \in BOOLEAN
          /\ Len(m_peerSocketsConnectionFlags) = Len(m_peerSockets)
      BY DEF SlotTypeOK
    <2> HIDE DEF yes
    <2>2. /\ flags \in Seq(BOOLEAN)
          /\ Len(flags) = IF k = Len(m_peerSocketsConnectionFlags) + 1 THEN k
                          ELSE Len(m_peerSocketsConnectionFlags)
          /\ flags[k] = yes
          /\ \A i \in 1 .. Len(m_peerSocketsConnectionFlags) :
               i # k => flags[i] = m_peerSocketsConnectionFlags[i]
      BY <1>1, <2>1, AtEffect
    <2> HIDE DEF flags
    <2> QED BY <2>1, <2>2 DEF yes
  <1> HIDE DEF sockets, flags
  <1>6. SlotTypeOK'
    BY <1>2, <1>4, <1>5 DEF SlotTypeOK, S
  <1>7. 1 .. Len(sockets) = (1 .. Len(m_peerSockets)) \cup {k}
    BY <1>1, <1>4
  <1>8. Used' = {i \in 1 .. Len(sockets) : flags[i]}
    BY <1>2 DEF Used
  <1>9. Used' = Used \cup {k}
    BY <1>5, <1>7, <1>8, ZenonT(60) DEF Used
  <1>10. FreeSlots' = (1 .. Len(sockets)) \ Used'
    BY <1>2 DEF FreeSlots
  <1>11. FreeSlots' = FreeSlots \ {k}
    BY <1>7, <1>9, <1>10, ZenonT(60) DEF FreeSlots
  <1> QED BY <1>2, <1>4, <1>6, <1>9, <1>11 DEF k, socket

\* isConnectionLost marks one socket and leaves the others alone.
LEMMA MarkEffect ==
  ASSUME SlotTypeOK, NEW k \in 1 .. Len(m_peerSockets),
         m_peerSockets' = [m_peerSockets EXCEPT ![k].state = "DISCONNECTED"]
  PROVE  /\ m_peerSockets' \in Seq([fd : Fds, state : States])
         /\ Len(m_peerSockets') = Len(m_peerSockets)
         /\ m_peerSockets'[k] = [fd |-> m_peerSockets[k].fd, state |-> "DISCONNECTED"]
         /\ m_peerSockets'[k].fd = m_peerSockets[k].fd
         /\ \A i \in 1 .. Len(m_peerSockets) :
              i # k => m_peerSockets'[i] = m_peerSockets[i]
  <1> DEFINE S == [fd : Fds, state : States]
             new == [fd |-> m_peerSockets[k].fd, state |-> "DISCONNECTED"]
  <1>1. m_peerSockets \in Seq(S)
    BY DEF SlotTypeOK
  <1> HIDE DEF S
  <1>2. m_peerSockets[k] \in S
    BY <1>1
  <1>3. new \in S /\ [m_peerSockets[k] EXCEPT !.state = "DISCONNECTED"] = new
        /\ new.fd = m_peerSockets[k].fd
    BY <1>2 DEF S
  <1>4. m_peerSockets' = [m_peerSockets EXCEPT ![k] = new]
    BY <1>3
  <1> HIDE DEF new
  <1>5. /\ m_peerSockets' \in Seq(S) /\ Len(m_peerSockets') = Len(m_peerSockets)
        /\ m_peerSockets'[k] = new
        /\ \A i \in 1 .. Len(m_peerSockets) :
             i # k => m_peerSockets'[i] = m_peerSockets[i]
    BY <1>1, <1>3, <1>4
  <1> QED BY <1>3, <1>5 DEF S, new

\* removePeer frees one slot and leaves the others alone.
LEMMA RemovePeerEffect ==
  ASSUME SlotTypeOK, NEW k \in Used, NEW s \in States, RemovePeer(k, s)
  PROVE  /\ SlotTypeOK'
         /\ Len(m_peerSockets') = Len(m_peerSockets)
         /\ m_peerSockets'[k] = [fd |-> m_peerSockets[k].fd, state |-> "DISCONNECTED"]
         /\ \A i \in 1 .. Len(m_peerSockets) :
              i # k => m_peerSockets'[i] = m_peerSockets[i]
         /\ Used' = Used \ {k}
         /\ FreeSlots' = FreeSlots \cup {k}
  <1>1. /\ m_peerSockets' = [m_peerSockets EXCEPT ![k].state = "DISCONNECTED"]
        /\ m_peerSocketsConnectionFlags' = [m_peerSocketsConnectionFlags EXCEPT ![k] = FALSE]
    BY DEF RemovePeer
  <1>2. k \in 1 .. Len(m_peerSockets) /\ Len(m_peerSockets) \in Nat
    BY DEF Used, SlotTypeOK
  <1>3. /\ m_peerSockets' \in Seq([fd : Fds, state : States])
        /\ Len(m_peerSockets') = Len(m_peerSockets)
        /\ m_peerSockets'[k] = [fd |-> m_peerSockets[k].fd, state |-> "DISCONNECTED"]
        /\ \A i \in 1 .. Len(m_peerSockets) :
             i # k => m_peerSockets'[i] = m_peerSockets[i]
    BY <1>1, <1>2, MarkEffect
  <1>4. /\ m_peerSocketsConnectionFlags' \in Seq(BOOLEAN)
        /\ Len(m_peerSocketsConnectionFlags') = Len(m_peerSocketsConnectionFlags)
        /\ m_peerSocketsConnectionFlags'[k] = FALSE
        /\ \A i \in 1 .. Len(m_peerSockets) :
             i # k => m_peerSocketsConnectionFlags'[i] = m_peerSocketsConnectionFlags[i]
    BY <1>1, <1>2 DEF SlotTypeOK
  <1>5. Used' = {i \in 1 .. Len(m_peerSockets) : m_peerSocketsConnectionFlags'[i]}
    BY <1>3 DEF Used
  <1>6. Used' = Used \ {k}
    BY <1>2, <1>4, <1>5, ZenonT(60) DEF Used
  <1>7. FreeSlots' = (1 .. Len(m_peerSockets)) \ Used'
    BY <1>3 DEF FreeSlots
  <1>8. FreeSlots' = FreeSlots \cup {k}
    BY <1>2, <1>6, <1>7, ZenonT(60) DEF FreeSlots
  <1>9. SlotTypeOK'
    BY <1>3, <1>4 DEF SlotTypeOK
  <1> QED BY <1>3, <1>6, <1>8, <1>9

-----------------------------------------------------------------------------
LEMMA SlotTypes == Inv => SlotTypeOK
  BY DEF Inv, ServingTypeOK, ServerTypeOK, SlotTypeOK

\* What the invariant says of a slot in use.
LEMMA UsedFacts ==
  ASSUME Inv, NEW k \in Used
  PROVE  /\ k \in 1 .. Len(m_peerSockets)
         /\ m_peerSockets[k] \in [fd : Fds, state : States]
         /\ m_peerSockets[k].fd \in Fds /\ m_peerSockets[k].state \in States
         /\ fds[m_peerSockets[k].fd] # None
         /\ PeerOf(k) \in Clients /\ PeerOf(k) # None
         /\ peer[PeerOf(k)] # "none"
  <1>1. k \in 1 .. Len(m_peerSockets)
    BY DEF Used
  <1>2. m_peerSockets \in Seq([fd : Fds, state : States])
    BY SlotTypes DEF SlotTypeOK
  <1>3. m_peerSockets[k] \in [fd : Fds, state : States]
    <2> DEFINE S == [fd : Fds, state : States]
    <2>1. m_peerSockets \in Seq(S)
      BY <1>2
    <2> HIDE DEF S
    <2>2. m_peerSockets[k] \in S
      BY <1>1, <2>1
    <2> QED BY <2>2 DEF S
  <1>4. fds[m_peerSockets[k].fd] # None
    BY DEF Inv, SlotInv
  <1>5. fds \in [Fds -> Clients \cup {None}]
    BY DEF Inv, ServingTypeOK, ServerTypeOK, KernelTypeOK
  <1>6. PeerOf(k) \in Clients /\ peer[PeerOf(k)] # "none"
    BY <1>3, <1>4, <1>5 DEF PeerOf, Inv, KernelInv
  <1> QED BY <1>1, <1>3, <1>4, <1>6

\* Two slots in use have different connections.
LEMMA SlotsApart ==
  ASSUME Inv, NEW k \in Used, NEW l \in Used, PeerOf(k) = PeerOf(l)
  PROVE  k = l
  <1>1. m_peerSockets[k].fd = m_peerSockets[l].fd
    BY UsedFacts DEF PeerOf, Inv, KernelInv
  <1> QED BY <1>1 DEF Inv, SlotInv

\* What the invariant says of a worker at work.
LEMMA ActiveFacts ==
  ASSUME Inv, NEW w \in Active
  PROVE  /\ w \in Workers /\ slot[w] \in Used
         /\ Conn(w) \in Clients /\ Conn(w) # None /\ peer[Conn(w)] # "none"
  BY UsedFacts DEF Active, Conn, Inv, ServeInv

\* A connection just accepted finds a slot: if none is free, those in use
\* belong to as many other clients.
LEMMA RoomForSlot ==
  ASSUME Inv, apc \in {"lock", "add"}
  PROVE  SlotFor \in Slots
  <1>1. /\ SlotFor \in 1 .. Len(m_peerSockets) + 1
        /\ SlotFor = Len(m_peerSockets) + 1 => FreeSlots = {}
    BY SlotForIsFree, SlotTypes
  <1>2. Len(m_peerSockets) \in Nat /\ Len(m_peerSockets) <= Cardinality(Clients)
    BY DEF Inv, SlotInv, ServingTypeOK, ServerTypeOK
  <1>3. Cardinality(Clients) \in Nat
    BY ClientCount
  <1>4. CASE SlotFor # Len(m_peerSockets) + 1
    BY <1>1, <1>2, <1>3, <1>4
  <1>5. CASE SlotFor = Len(m_peerSockets) + 1
    <2> DEFINE len == Len(m_peerSockets)
               new == fds[accepted]
               f == [k \in 1 .. len |-> PeerOf(k)]
    <2>1. \A k \in 1 .. len : k \in Used
      BY <1>1, <1>5 DEF FreeSlots
    <2>2. accepted \in Fds /\ new # None
      BY DEF Inv, AcceptInv, ServingTypeOK, ThreadTypeOK
    <2>3. new \in Clients
      BY <2>2 DEF Inv, ServingTypeOK, ServerTypeOK, KernelTypeOK
    <2>4. \A k \in Used : m_peerSockets[k].fd # accepted
      BY DEF Inv, AcceptInv
    <2>5. \A k \in 1 .. len : PeerOf(k) \in Clients \ {new}
      BY <2>1, <2>2, <2>4, UsedFacts DEF PeerOf, Inv, KernelInv
    <2>6. \A k, l \in 1 .. len : PeerOf(k) = PeerOf(l) => k = l
      BY <2>1, SlotsApart
    <2> HIDE DEF new, len
    <2>7. f \in [1 .. len -> Clients \ {new}]
      BY <2>5
    <2>8. f \in Injection(1 .. len, Clients \ {new})
      BY <2>6, <2>7 DEF Injection, IsInjective
    <2>9. /\ IsFiniteSet(Clients \ {new})
          /\ Cardinality(Clients \ {new}) = Cardinality(Clients) - 1
      BY <2>3, FS_RemoveElement
    <2>10. Cardinality(1 .. len) <= Cardinality(Clients) - 1
      BY <2>8, <2>9, FS_Injection
    <2>11. len \in Nat
      BY <1>2 DEF len
    <2>12. Cardinality(1 .. len) = len
      BY <2>11, FS_Interval
    <2> QED BY <1>3, <1>5, <2>10, <2>11, <2>12 DEF len
  <1> QED BY <1>4, <1>5

-----------------------------------------------------------------------------
\* Types by parts: with the kernel's and the slots' these make it up.
MainTypeOK ==
  /\ main \in {"start", "create", "store", "serve", "join", "join_workers", "returned"}
  /\ {killed, m_isStopping} \subseteq BOOLEAN

LEMMA TypeParts == ServingTypeOK <=> KernelTypeOK /\ SlotTypeOK /\ MainTypeOK /\ ThreadTypeOK
  BY Zenon DEF ServingTypeOK, ServerTypeOK, SlotTypeOK, MainTypeOK

LEMMA TypePartsPrime ==
  KernelTypeOK' /\ SlotTypeOK' /\ MainTypeOK' /\ ThreadTypeOK' => ServingTypeOK'
  BY Zenon DEF ServingTypeOK, ServerTypeOK, SlotTypeOK, MainTypeOK

\* Every owner of the mutex is another number.
LEMMA OwnersApart ==
  /\ Free \notin Workers /\ AcceptorThread \notin Workers /\ Free # AcceptorThread
  BY ClientCount DEF Free, AcceptorThread, Workers

\* Nobody is connected, and nobody is at work.
LEMMA InitInv == Init => Inv
  <1> SUFFICES ASSUME Init
               PROVE  Inv
    OBVIOUS
  <1> USE DEF Init, ServerInit, KernelInit
  <1>1. KernelTypeOK
    <2>1. listening \in BOOLEAN
      BY Zenon
    <2>2. inbox \in [Clients -> Seq(Messages)] /\ backlog \in Seq(Clients)
      OBVIOUS
    <2>3. sends \in [Clients -> Nat] /\ \A c \in Clients : sends[c] <= MaxSends[c]
      OBVIOUS
    <2>4. peer \in [Clients -> Ends] /\ fds \in [Fds -> Clients \cup {None}]
      OBVIOUS
    <2> QED BY <2>1, <2>2, <2>3, <2>4 DEF KernelTypeOK
  <1>2. SlotTypeOK
    BY DEF SlotTypeOK
  <1>3. MainTypeOK
    <2>1. {killed, m_isStopping} \subseteq BOOLEAN
      BY Zenon
    <2> QED BY <2>1 DEF MainTypeOK
  <1>4. ThreadTypeOK
    <2>1. stored \in 0 .. Cardinality(Clients)
      BY ClientCount
    <2>2. buffer \in [Workers -> Seq(Messages)]
      OBVIOUS
    <2> QED BY <2>1, <2>2 DEF ThreadTypeOK
  <1>5. Used = {}
    BY DEF Used
  <1>6. KernelInv /\ SlotInv /\ OpenAccounted
    BY <1>5, ClientCount DEF KernelInv, SlotInv, OpenAccounted
  <1>7. Active = {}
    BY DEF Active
  <1>8. LockInv /\ AcceptInv /\ ServeInv /\ ErrnoInv
    BY <1>7, OwnersApart DEF LockInv, AcceptInv, ServeInv, ErrnoInv
  <1>9. CreatedInv
    BY ClientCount DEF CreatedInv, Workers
  <1>10. CountInv
    <2>1. Came = {} /\ InHand = 0 /\ Len(backlog) = 0
      BY DEF Came, InHand
    <2> QED BY <2>1, FS_EmptySet DEF CountInv
  <1> QED BY <1>1, <1>2, <1>3, <1>4, <1>6, <1>8, <1>9, <1>10, TypeParts DEF Inv

-----------------------------------------------------------------------------
\* Two ways of a client: to come, and to go on as one that has come.
Coming(c) ==
  /\ peer[c] = "none" /\ peer' = [peer EXCEPT ![c] = "open"]
  /\ backlog' = Append(backlog, c)
Going ==
  /\ UNCHANGED backlog
  /\ \A c \in Clients :
       /\ peer'[c] = "none" <=> peer[c] = "none"
       /\ peer[c] = "rst_seen" => peer'[c] = "rst_seen"

\* The slots stay as they are, but for marks on sockets that have been reset.
SocketsKept ==
  /\ Used' = Used /\ Len(m_peerSockets') = Len(m_peerSockets)
  /\ \A k \in Used :
       /\ m_peerSockets'[k].fd = m_peerSockets[k].fd
       /\ \/ m_peerSockets'[k].state = m_peerSockets[k].state
          \/ peer'[PeerOf(k)] = "rst_seen"

\* The connections behind descriptors are clients that have come.
LEMMA OpenFacts ==
  ASSUME Inv, NEW d \in Fds, fds[d] # None
  PROVE  fds[d] \in Clients /\ peer[fds[d]] # "none"
  BY DEF Inv, ServingTypeOK, ServerTypeOK, KernelTypeOK, KernelInv

LEMMA BacklogFacts ==
  ASSUME Inv
  PROVE  /\ backlog \in Seq(Clients) /\ Len(backlog) \in Nat
         /\ \A i \in 1 .. Len(backlog) : backlog[i] \in Clients
  <1>1. backlog \in Seq(Clients)
    BY DEF Inv, ServingTypeOK, ServerTypeOK, KernelTypeOK
  <1> QED BY <1>1

\* The bookkeeping survives whatever the clients do.
LEMMA QuietStep ==
  ASSUME Inv, UNCHANGED <<fds, accepted>>, SocketsKept,
         Going \/ \E c \in Clients : Coming(c)
  PROVE  /\ KernelInv' /\ SlotInv' /\ OpenAccounted'
         /\ \A k \in Used : PeerOf(k)' = PeerOf(k)
         /\ \A c \in Clients : peer[c] = "rst_seen" => peer'[c] = "rst_seen"
  <1>1. peer \in [Clients -> Ends]
    BY DEF Inv, ServingTypeOK, ServerTypeOK, KernelTypeOK
  <1>2. \A c \in Clients :
          /\ peer[c] # "none" => peer'[c] # "none"
          /\ peer[c] = "rst_seen" => peer'[c] = "rst_seen"
    BY <1>1 DEF Going, Coming
  <1>3. \A k \in Used : PeerOf(k)' = PeerOf(k)
    BY DEF PeerOf, SocketsKept
  <1>4. SlotInv'
    <2>1. \A k \in Used : fds[m_peerSockets'[k].fd] # None
      BY DEF SocketsKept, Inv, SlotInv
    <2>2. \A k \in Used :
            m_peerSockets'[k].state = "DISCONNECTED" => peer'[PeerOf(k)] = "rst_seen"
      BY <1>2, UsedFacts DEF SocketsKept, Inv, SlotInv
    <2> QED BY <1>3, <2>1, <2>2 DEF SocketsKept, Inv, SlotInv
  <1>5. OpenAccounted'
    <2> SUFFICES ASSUME NEW d \in Fds, fds[d] # None, d # accepted,
                        ~ \E k \in Used : m_peerSockets[k].fd = d
                 PROVE  peer'[fds[d]] = "rst_seen"
      BY DEF OpenAccounted, SocketsKept
    <2> QED BY <1>2, OpenFacts DEF Inv, OpenAccounted
  <1>6. \A d \in Fds : fds[d] # None => peer'[fds[d]] # "none"
    BY <1>2, OpenFacts
  <1>7. \A i \in 1 .. Len(backlog) : peer'[backlog[i]] # "none"
    BY <1>2, BacklogFacts DEF Inv, KernelInv
  <1>8. CASE Going
    <2>1. KernelInv'
      BY <1>6, <1>7, <1>8 DEF Going, Inv, KernelInv
    <2> QED BY <1>2, <1>3, <1>4, <1>5, <2>1
  <1>9. ASSUME NEW c \in Clients, Coming(c)
        PROVE  KernelInv'
    <2>1. \A d \in Fds : fds[d] # c
      BY <1>9, OpenFacts DEF Coming
    <2>2. \A i \in 1 .. Len(backlog) : backlog[i] # c
      BY <1>9, BacklogFacts DEF Coming, Inv, KernelInv
    <2>3. peer'[c] # "none"
      BY <1>1, <1>9 DEF Coming
    <2>4. /\ Len(backlog') = Len(backlog) + 1 /\ backlog'[Len(backlog) + 1] = c
          /\ \A i \in 1 .. Len(backlog) : backlog'[i] = backlog[i]
      BY <1>9, BacklogFacts DEF Coming
    <2>5. \A i \in 1 .. Len(backlog') : i = Len(backlog) + 1 \/ i \in 1 .. Len(backlog)
      BY <2>4, BacklogFacts
    <2>6. \A i, j \in 1 .. Len(backlog') : backlog'[i] = backlog'[j] => i = j
      BY <2>2, <2>4, <2>5 DEF Inv, KernelInv
    <2>7. \A i \in 1 .. Len(backlog') :
            peer'[backlog'[i]] # "none" /\ \A d \in Fds : fds[d] # backlog'[i]
      BY <1>7, <2>1, <2>3, <2>4, <2>5 DEF Inv, KernelInv
    <2> QED BY <1>6, <2>6, <2>7 DEF Inv, KernelInv
  <1> QED BY <1>2, <1>3, <1>4, <1>5, <1>8, <1>9

\* The count of clients that have come, in the numbers of the proofs below.
LEMMA CountFacts ==
  ASSUME Inv
  PROVE  /\ IsFiniteSet(Came) /\ Cardinality(Came) \in Nat
         /\ Cardinality(Came) <= Cardinality(Clients)
         /\ stored \in Nat /\ InHand \in {0, 1} /\ Len(backlog) \in Nat
  <1>1. Came \subseteq Clients
    BY DEF Came
  <1>2. IsFiniteSet(Came) /\ Cardinality(Came) <= Cardinality(Clients)
    BY <1>1, FS_Subset
  <1>3. stored \in Nat
    BY ClientCount DEF Inv, ServingTypeOK, ThreadTypeOK
  <1> QED BY <1>2, <1>3, BacklogFacts, FS_CardinalityType DEF InHand

LEMMA GoingCount ==
  ASSUME Inv, Going, stored' = stored, InHand' = InHand
  PROVE  CountInv'
  <1>1. Came' = Came
    BY DEF Going, Came
  <1> QED BY <1>1 DEF Going, Inv, CountInv

LEMMA ComingCount ==
  ASSUME Inv, NEW c \in Clients, Coming(c), stored' = stored, InHand' = InHand
  PROVE  CountInv'
  <1>1. peer \in [Clients -> Ends]
    BY DEF Inv, ServingTypeOK, ServerTypeOK, KernelTypeOK
  <1>2. Came' = Came \cup {c} /\ c \notin Came
    BY <1>1 DEF Coming, Came
  <1>3. Cardinality(Came \cup {c}) = Cardinality(Came) + 1
    BY <1>2, CountFacts, FS_AddElement
  <1>4. Len(backlog') = Len(backlog) + 1
    BY BacklogFacts DEF Coming
  <1> QED BY <1>2, <1>3, <1>4, CountFacts DEF Inv, CountInv

-----------------------------------------------------------------------------
\* A step of main or of the acceptor that leaves connections, slots and
\* workers alone.
LEMMA StillStep ==
  ASSUME Inv, UNCHANGED <<backlog, peer, inbox, fds, sends, slotVars, accepted, stored, pc,
                          localVars>>,
         listening' \in BOOLEAN, MainTypeOK',
         apc' \in {"none", "check", "accept", "lock", "add", "store", "done"},
         m_peerSocketsLock' \in {Free, AcceptorThread} \cup Workers,
         apc \in {"lock", "add", "store"} <=> apc' \in {"lock", "add", "store"},
         apc = "store" <=> apc' = "store",
         main' \in {"start", "create"} => apc' = "none",
         LockInv'
  PROVE  Inv'
  <1>0. /\ m_peerSockets' = m_peerSockets
        /\ m_peerSocketsConnectionFlags' = m_peerSocketsConnectionFlags
        /\ slot' = slot /\ buffer' = buffer /\ errno' = errno
    BY DEF slotVars, localVars
  <1>1. KernelTypeOK /\ SlotTypeOK /\ ThreadTypeOK
    BY TypeParts DEF Inv
  <1>2. KernelTypeOK'
    BY <1>1, Zenon DEF KernelTypeOK
  <1>3. SlotTypeOK'
    BY <1>0, <1>1, Zenon DEF SlotTypeOK
  <1>4. ThreadTypeOK'
    BY <1>0, <1>1 DEF ThreadTypeOK
  <1>5. Used' = Used
    BY <1>0, Zenon DEF Used
  <1>6. Active' = Active
    BY DEF Active
  <1>7. SocketsKept /\ Going
    BY <1>0, <1>5 DEF SocketsKept, Going
  <1>8. KernelInv' /\ SlotInv' /\ OpenAccounted'
    BY <1>7, QuietStep
  <1>9. CountInv'
    BY <1>7, GoingCount DEF InHand
  <1>10. AcceptInv'
    BY <1>0, <1>5 DEF Inv, AcceptInv
  <1>11. CreatedInv'
    BY DEF Inv, CreatedInv
  <1>12. ServeInv'
    BY <1>0, <1>5, <1>6 DEF Inv, ServeInv
  <1>13. ErrnoInv'
    BY <1>0, <1>6 DEF Inv, ErrnoInv, Conn, PeerOf
  <1> QED BY <1>2, <1>3, <1>4, <1>8, <1>9, <1>10, <1>11, <1>12, <1>13, TypePartsPrime DEF Inv

\* A client connects, sends or ends.
LEMMA NetworkStep ==
  ASSUME Inv, Network,
         UNCHANGED <<killed, slotVars, mainVars, joined, m_peerSocketsLock, acceptorVars,
                     pc, localVars>>
  PROVE  Inv'
  <1>0. PICK c \in Clients : Connect(c) \/ ClientSend(c) \/ ClientEnds(c)
    BY DEF Network
  <1>1. /\ KernelTypeOK /\ SlotTypeOK /\ MainTypeOK /\ ThreadTypeOK
        /\ peer \in [Clients -> Ends] /\ inbox \in [Clients -> Seq(Messages)]
        /\ sends \in [Clients -> Nat] /\ backlog \in Seq(Clients)
    BY TypeParts DEF Inv, KernelTypeOK
  <1>2. /\ fds' = fds /\ pc' = pc /\ slot' = slot /\ errno' = errno
        /\ apc' = apc /\ accepted' = accepted /\ stored' = stored
        /\ m_peerSocketsLock' = m_peerSocketsLock /\ main' = main
        /\ m_peerSockets' = m_peerSockets
        /\ m_peerSocketsConnectionFlags' = m_peerSocketsConnectionFlags
    BY <1>0 DEF Connect, ClientSend, ClientEnds, slotVars, localVars, acceptorVars, mainVars
  <1>3. KernelTypeOK'
    <2>1. CASE Connect(c)
      BY <1>1, <2>1 DEF Connect, KernelTypeOK
    <2>2. CASE ClientSend(c)
      <3>1. inbox' \in [Clients -> Seq(Messages)]
        BY <1>1, <2>2 DEF ClientSend
      <3>2. sends' \in [Clients -> Nat] /\ \A b \in Clients : sends'[b] <= MaxSends[b]
        BY <1>1, <2>2 DEF ClientSend, KernelTypeOK
      <3> QED BY <1>1, <2>2, <3>1, <3>2 DEF ClientSend, KernelTypeOK
    <2>3. CASE ClientEnds(c)
      BY <1>1, <2>3 DEF ClientEnds, KernelTypeOK
    <2> QED BY <1>0, <2>1, <2>2, <2>3
  <1>4. SlotTypeOK' /\ MainTypeOK' /\ ThreadTypeOK'
    BY <1>1, Zenon
       DEF SlotTypeOK, MainTypeOK, ThreadTypeOK, slotVars, localVars, acceptorVars, mainVars
  <1>5. Going \/ Coming(c)
    <2>1. CASE Connect(c)
      BY <2>1 DEF Connect, Coming
    <2>2. CASE ClientSend(c)
      BY <1>1, <2>2 DEF ClientSend, Going
    <2>3. CASE ClientEnds(c)
      BY <1>1, <2>3 DEF ClientEnds, Going
    <2> QED BY <1>0, <2>1, <2>2, <2>3
  <1>6. Used' = Used /\ Active' = Active /\ InHand' = InHand
    BY <1>2, Zenon DEF Used, Active, InHand
  <1>7. SocketsKept
    BY <1>2, <1>6 DEF SocketsKept
  <1>8. /\ KernelInv' /\ SlotInv' /\ OpenAccounted'
        /\ \A k \in Used : PeerOf(k)' = PeerOf(k)
        /\ \A b \in Clients : peer[b] = "rst_seen" => peer'[b] = "rst_seen"
    BY <1>2, <1>5, <1>7, QuietStep
  <1>9. CountInv'
    BY <1>2, <1>5, <1>6, GoingCount, ComingCount
  <1>10. LockInv' /\ AcceptInv' /\ CreatedInv' /\ ServeInv'
    BY <1>2, <1>6 DEF Inv, LockInv, AcceptInv, CreatedInv, ServeInv
  <1>11. ErrnoInv'
    <2>1. \A w \in Active : Conn(w)' = Conn(w)
      BY <1>2, <1>8, ActiveFacts DEF Conn
    <2>2. \A w \in Active : errno[w] = "lost" => peer'[Conn(w)] = "rst_seen"
      BY <1>8, ActiveFacts DEF Inv, ErrnoInv
    <2> QED BY <1>2, <1>6, <2>1, <2>2 DEF Inv, ErrnoInv
  <1> QED BY <1>3, <1>4, <1>8, <1>9, <1>10, <1>11, TypePartsPrime DEF Inv

-----------------------------------------------------------------------------
Labels == {"name", "check", "peer", "lock", "receive", "send", "lock_remove", "remove",
           "done"}
Holding == {"receive", "remove"}

\* A step of a worker that keeps its slot.
LEMMA WorkerStep ==
  ASSUME Inv, NEW w \in Workers, NEW to \in Labels, w \in Active,
         pc' = [pc EXCEPT ![w] = to], to # "none",
         \/ m_peerSocketsLock' = m_peerSocketsLock /\ pc[w] \notin Holding /\ to \notin Holding
         \/ m_peerSocketsLock = Free /\ m_peerSocketsLock' = w /\ to \in Holding
         \/ m_peerSocketsLock' = Free /\ pc[w] \in Holding /\ to \notin Holding,
         UNCHANGED <<mainVars, acceptorVars, slot, fds>>,
         KernelTypeOK', SlotTypeOK', killed' \in BOOLEAN,
         Going, SocketsKept,
         buffer' \in [Workers -> Seq(Messages)], errno' \in [Workers -> Errnos],
         \A v \in Workers : v # w => errno'[v] = errno[v],
         errno'[w] = "lost" => peer'[Conn(w)] = "rst_seen"
  PROVE  Inv'
  <1>0. /\ apc' = apc /\ accepted' = accepted /\ stored' = stored /\ main' = main
        /\ m_isStopping' = m_isStopping /\ slot' = slot
    BY DEF acceptorVars, mainVars
  <1>1. MainTypeOK /\ ThreadTypeOK /\ pc \in [Workers -> {"none"} \cup Labels]
    BY TypeParts DEF Inv, ThreadTypeOK, Labels
  <1>2. /\ \A v \in Workers : v # w => pc'[v] = pc[v]
        /\ pc'[w] = to
    BY <1>1
  <1>3. MainTypeOK'
    BY <1>0, <1>1, Zenon DEF MainTypeOK
  <1>4. ThreadTypeOK'
    <2>1. pc' \in [Workers -> {"none"} \cup Labels]
      BY <1>1
    <2>2. m_peerSocketsLock' \in {Free, AcceptorThread} \cup Workers
      BY <1>1 DEF ThreadTypeOK
    <2> QED BY <1>0, <1>1, <2>1, <2>2 DEF ThreadTypeOK, Labels
  <1>5. Active' \subseteq Active
    BY <1>1, <1>2 DEF Active
  <1>6. /\ KernelInv' /\ SlotInv' /\ OpenAccounted'
        /\ \A k \in Used : PeerOf(k)' = PeerOf(k)
        /\ \A b \in Clients : peer[b] = "rst_seen" => peer'[b] = "rst_seen"
    BY <1>0, QuietStep
  <1>7. CountInv'
    BY <1>0, GoingCount DEF InHand
  <1>8. LockInv'
    <2>1. apc \in {"add", "store"} <=> m_peerSocketsLock' = AcceptorThread
      BY OwnersApart DEF Inv, LockInv, Holding
    <2>2. \A v \in Workers : pc'[v] \in Holding <=> m_peerSocketsLock' = v
      BY <1>2, OwnersApart DEF Inv, LockInv, Holding
    <2> QED BY <1>0, <2>1, <2>2 DEF LockInv, Holding
  <1>9. AcceptInv'
    BY <1>0 DEF Inv, AcceptInv, SocketsKept
  <1>10. CreatedInv'
    <2>1. pc[w] # "none"
      BY DEF Active
    <2> QED BY <1>0, <1>2, <2>1 DEF Inv, CreatedInv
  <1>11. ServeInv'
    BY <1>0, <1>5 DEF Inv, ServeInv, SocketsKept
  <1>12. ErrnoInv'
    <2>1. \A v \in Active : Conn(v)' = Conn(v)
      BY <1>0, <1>6, ActiveFacts DEF Conn
    <2>2. \A v \in Active : v # w /\ errno'[v] = "lost" => peer'[Conn(v)] = "rst_seen"
      BY <1>6, ActiveFacts DEF Inv, ErrnoInv
    <2>3. \A v \in Active' : errno'[v] = "lost" => peer'[Conn(v)'] = "rst_seen"
      BY <1>5, <2>1, <2>2
    <2>4. \A v \in Workers : pc'[v] = "none" => errno'[v] = "other"
      BY <1>2 DEF Inv, ErrnoInv
    <2> QED BY <2>3, <2>4 DEF ErrnoInv
  <1> QED BY <1>3, <1>4, <1>6, <1>7, <1>8, <1>9, <1>10, <1>11, <1>12, TypePartsPrime DEF Inv

-----------------------------------------------------------------------------
\* The worker w reads, sends or moves on: every step but the last.
LEMMA ServingStep ==
  ASSUME Inv, NEW w \in Workers, UNCHANGED <<mainVars, acceptorVars>>,
         \/ SetName(w) \/ CheckStop(w) \/ GetPeerSocket(w) \/ Lock(w, "lock", "receive")
         \/ Receive(w) \/ ReceiveNothing(w) \/ Send(w) \/ Lock(w, "lock_remove", "remove")
  PROVE  Inv'
  <1>1. /\ KernelTypeOK /\ SlotTypeOK /\ MainTypeOK /\ ThreadTypeOK
        /\ peer \in [Clients -> Ends] /\ inbox \in [Clients -> Seq(Messages)]
        /\ buffer \in [Workers -> Seq(Messages)] /\ errno \in [Workers -> Errnos]
        /\ killed \in BOOLEAN
    BY TypeParts, Zenon DEF Inv, KernelTypeOK, ThreadTypeOK, MainTypeOK
  <1>2. w \in Active
    BY DEF SetName, CheckStop, GetPeerSocket, Lock, Receive, ReceiveNothing, Send, Step, Active
  <1>3. /\ Conn(w) \in Clients /\ Conn(w) = PeerOf(slot[w]) /\ slot[w] \in Used
        /\ peer[Conn(w)] # "none" /\ peer[Conn(w)] \in Ends
    BY <1>1, <1>2, ActiveFacts DEF Conn
  <1>4. errno[w] = "lost" => peer[Conn(w)] = "rst_seen"
    BY <1>2 DEF Inv, ErrnoInv
  \* The connections and the slots are as they were.
  <1>5. ASSUME UNCHANGED <<kernelVars, slotVars, localVars>>
        PROVE  /\ UNCHANGED <<slot, fds, buffer, errno>> /\ KernelTypeOK' /\ SlotTypeOK'
               /\ Going /\ SocketsKept /\ peer' = peer
    <2>1. /\ UNCHANGED <<listening, backlog, peer, inbox, fds, sends, slot, buffer, errno>>
          /\ m_peerSockets' = m_peerSockets
          /\ m_peerSocketsConnectionFlags' = m_peerSocketsConnectionFlags
      BY <1>5 DEF kernelVars, slotVars, localVars
    <2>2. KernelTypeOK' /\ SlotTypeOK'
      BY <1>1, <2>1, Zenon DEF KernelTypeOK, SlotTypeOK
    <2>3. Used' = Used
      BY <2>1, Zenon DEF Used
    <2> QED BY <2>1, <2>2, <2>3 DEF Going, SocketsKept
  <1>6. ASSUME NEW to \in Labels \ Holding, pc[w] \notin Holding,
               pc' = [pc EXCEPT ![w] = to], killed' \in BOOLEAN,
               UNCHANGED <<kernelVars, slotVars, m_peerSocketsLock, localVars>>
        PROVE  Inv'
    BY <1>1, <1>2, <1>4, <1>5, <1>6, WorkerStep DEF Labels
  <1>7. CASE SetName(w)
    <2>1. /\ pc[w] = "name" /\ pc' = [pc EXCEPT ![w] = "check"] /\ killed' \in BOOLEAN
          /\ UNCHANGED <<kernelVars, slotVars, m_peerSocketsLock, localVars>>
      BY <1>7 DEF SetName, Step
    <2> QED BY <1>6, <2>1 DEF Labels, Holding
  <1>8. CASE CheckStop(w)
    <2>1. /\ pc[w] = "check" /\ pc' = [pc EXCEPT ![w] = IF StopSeen THEN "done" ELSE "peer"]
          /\ UNCHANGED <<kernelVars, killed, slotVars, m_peerSocketsLock, localVars>>
      BY <1>8 DEF CheckStop, Step, serverVars
    <2>2. (IF StopSeen THEN "done" ELSE "peer") \in Labels \ Holding
      BY DEF Labels, Holding
    <2> QED BY <1>1, <1>6, <2>1, <2>2 DEF Holding
  <1>9. CASE GetPeerSocket(w)
    <2>1. /\ pc[w] = "peer" /\ pc' = [pc EXCEPT ![w] = "lock"] /\ killed' \in BOOLEAN
          /\ UNCHANGED <<kernelVars, slotVars, m_peerSocketsLock, localVars>>
      BY <1>9 DEF GetPeerSocket, Step
    <2> QED BY <1>6, <2>1 DEF Labels, Holding
  <1>10. ASSUME NEW from \in Labels, NEW to \in Holding, Lock(w, from, to)
         PROVE  Inv'
    <2>1. /\ to \in Labels /\ to # "none" /\ pc' = [pc EXCEPT ![w] = to]
          /\ m_peerSocketsLock = Free /\ m_peerSocketsLock' = w
          /\ killed' = killed /\ UNCHANGED <<kernelVars, slotVars, localVars>>
      BY <1>10 DEF Lock, Step, Labels, Holding, serverVars
    <2> QED BY <1>1, <1>2, <1>4, <1>5, <2>1, WorkerStep
  <1>11. CASE Lock(w, "lock", "receive")
    BY <1>10, <1>11 DEF Labels, Holding
  <1>12. CASE Lock(w, "lock_remove", "remove")
    BY <1>10, <1>12 DEF Labels, Holding
  <1>13. CASE Receive(w)
    <2>1. PICK k \in 1 .. Len(inbox[Conn(w)]) :
            /\ buffer' = [buffer EXCEPT ![w] = SubSeq(inbox[Conn(w)], 1, k)]
            /\ Received(Conn(w), k)
      BY <1>13 DEF Receive
    <2>2. /\ pc[w] = "receive" /\ pc' = [pc EXCEPT ![w] = "send"] /\ m_peerSocketsLock' = Free
          /\ UNCHANGED <<killed, slotVars, slot, errno, listening, backlog, peer, fds, sends>>
      BY <1>13, <2>1 DEF Receive, Received, Step
    <2>3. inbox' = [inbox EXCEPT ![Conn(w)] =
                      SubSeq(inbox[Conn(w)], k + 1, Len(inbox[Conn(w)]))]
      BY <2>1 DEF Received
    <2>4. inbox[Conn(w)] \in Seq(Messages)
      BY <1>1, <1>3
    <2>5. /\ SubSeq(inbox[Conn(w)], k + 1, Len(inbox[Conn(w)])) \in Seq(Messages)
          /\ SubSeq(inbox[Conn(w)], 1, k) \in Seq(Messages)
      BY <2>4
    <2>6. inbox' \in [Clients -> Seq(Messages)] /\ buffer' \in [Workers -> Seq(Messages)]
      BY <1>1, <2>1, <2>3, <2>5
    <2>7. KernelTypeOK'
      BY <1>1, <2>2, <2>6, Zenon DEF KernelTypeOK
    <2>8. SlotTypeOK' /\ Used' = Used
      BY <1>1, <2>2, Zenon DEF SlotTypeOK, Used, slotVars
    <2>9. Going /\ SocketsKept
      BY <2>2, <2>8 DEF Going, SocketsKept, slotVars
    <2> QED BY <1>1, <1>2, <1>4, <2>2, <2>6, <2>7, <2>8, <2>9, WorkerStep DEF Labels, Holding
  \* What a call learns of the end of a connection.
  <1>14. ASSUME NEW e \in Ends, e # "none", peer[Conn(w)] = "rst_seen" => e = "rst_seen",
                PeerBecomes(Conn(w), e)
         PROVE  KernelTypeOK' /\ Going /\ fds' = fds /\ peer'[Conn(w)] = e
    <2>1. /\ peer' = [peer EXCEPT ![Conn(w)] = e]
          /\ UNCHANGED <<listening, backlog, inbox, fds, sends>>
      BY <1>14 DEF PeerBecomes
    <2>2. peer' \in [Clients -> Ends]
      BY <1>1, <2>1
    <2>3. KernelTypeOK'
      BY <1>1, <2>1, <2>2, Zenon DEF KernelTypeOK
    <2>4. Going
      BY <1>1, <1>3, <1>14, <2>1 DEF Going
    <2> QED BY <1>1, <1>3, <2>1, <2>3, <2>4
  <1>15. CASE Send(w)
    <2> DEFINE to == IF buffer[w] = <<"quit">> THEN "lock_remove" ELSE "check"
               e == AfterSend(peer[Conn(w)])
    <2>1. /\ pc[w] = "send" /\ pc' = [pc EXCEPT ![w] = to]
          /\ killed' = SendKills(peer[Conn(w)])
          /\ errno' = [errno EXCEPT ![w] = ErrnoAfter(errno[w], peer[Conn(w)])]
          /\ PeerBecomes(Conn(w), e)
          /\ buffer' = [buffer EXCEPT ![w] = <<>>]
          /\ UNCHANGED <<slotVars, m_peerSocketsLock, slot>>
      BY <1>15 DEF Send, Step
    <2>2. e \in Ends /\ e # "none" /\ (peer[Conn(w)] = "rst_seen" => e = "rst_seen")
          /\ (peer[Conn(w)] = "rst" => e = "rst_seen")
      BY <1>3 DEF AfterSend
    <2>3. to \in Labels \ Holding
      BY DEF Labels, Holding
    <2> HIDE DEF to, e
    <2>4. KernelTypeOK' /\ Going /\ fds' = fds /\ peer'[Conn(w)] = e
      BY <1>14, <2>1, <2>2
    <2>5. SlotTypeOK' /\ Used' = Used
      BY <1>1, <2>1, Zenon DEF SlotTypeOK, Used, slotVars
    <2>6. SocketsKept
      BY <2>1, <2>5 DEF SocketsKept, slotVars
    <2>7. killed' \in BOOLEAN
      <3>1. CASE SendKills(peer[Conn(w)])
        BY <2>1, <3>1
      <3>2. CASE ~SendKills(peer[Conn(w)])
        BY <2>1, <3>2 DEF SendKills
      <3> QED BY <3>1, <3>2
    <2>8. buffer' \in [Workers -> Seq(Messages)]
      <3>1. <<>> \in Seq(Messages)
        OBVIOUS
      <3> QED BY <1>1, <2>1, <3>1, Zenon
    <2>9. /\ errno' \in [Workers -> Errnos]
          /\ \A v \in Workers : v # w => errno'[v] = errno[v]
          /\ errno'[w] = ErrnoAfter(errno[w], peer[Conn(w)])
      BY <1>1, <2>1 DEF ErrnoAfter
    <2>10. errno'[w] = "lost" => peer'[Conn(w)] = "rst_seen"
      BY <1>4, <2>2, <2>4, <2>9 DEF ErrnoAfter
    <2>11. pc[w] \notin Holding /\ to \notin Holding /\ to \in Labels /\ to # "none"
      BY <2>1, <2>3 DEF Holding, Labels
    <2> QED BY <1>2, <2>1, <2>4, <2>5, <2>6, <2>7, <2>8, <2>9, <2>10, <2>11, WorkerStep
  <1>16. CASE ReceiveNothing(w)
    <2> DEFINE to == IF errno'[w] = "lost" THEN "lock_remove" ELSE "check"
               e == AfterReceive(peer[Conn(w)])
               k == slot[w]
    <2>1. /\ pc[w] = "receive" /\ pc' = [pc EXCEPT ![w] = to]
          /\ m_peerSocketsLock' = Free
          /\ errno' = [errno EXCEPT ![w] = ErrnoAfter(errno[w], peer[Conn(w)])]
          /\ PeerBecomes(Conn(w), e)
          /\ m_peerSockets' = IF errno'[w] = "lost"
                              THEN [m_peerSockets EXCEPT ![k].state = "DISCONNECTED"]
                              ELSE m_peerSockets
          /\ UNCHANGED <<killed, m_peerSocketsConnectionFlags, slot, buffer>>
      BY <1>16 DEF ReceiveNothing, Step
    <2>2. e \in Ends /\ e # "none" /\ (peer[Conn(w)] = "rst_seen" => e = "rst_seen")
          /\ (peer[Conn(w)] = "rst" => e = "rst_seen")
      BY <1>3 DEF AfterReceive
    <2>3. to \in Labels \ Holding
      BY DEF Labels, Holding
    <2> HIDE DEF to, e
    <2>4. KernelTypeOK' /\ Going /\ fds' = fds /\ peer'[Conn(w)] = e
      BY <1>14, <2>1, <2>2
    <2>5. /\ errno' \in [Workers -> Errnos]
          /\ \A v \in Workers : v # w => errno'[v] = errno[v]
          /\ errno'[w] = ErrnoAfter(errno[w], peer[Conn(w)])
      BY <1>1, <2>1 DEF ErrnoAfter
    <2>6. errno'[w] = "lost" => peer'[Conn(w)] = "rst_seen"
      BY <1>4, <2>2, <2>4, <2>5 DEF ErrnoAfter
    <2>7. SlotTypeOK' /\ SocketsKept
      <3>1. CASE errno'[w] # "lost"
        <4>1. /\ m_peerSockets' = m_peerSockets
              /\ m_peerSocketsConnectionFlags' = m_peerSocketsConnectionFlags
          BY <2>1, <3>1
        <4>2. SlotTypeOK' /\ Used' = Used
          BY <1>1, <4>1, Zenon DEF SlotTypeOK, Used
        <4> QED BY <4>1, <4>2 DEF SocketsKept
      <3>2. CASE errno'[w] = "lost"
        <4>1. m_peerSockets' = [m_peerSockets EXCEPT ![k].state = "DISCONNECTED"]
          BY <2>1, <3>2
        <4>2. k \in Used /\ k \in 1 .. Len(m_peerSockets)
          BY <1>3, UsedFacts
        <4>3. /\ m_peerSockets' \in Seq([fd : Fds, state : States])
              /\ Len(m_peerSockets') = Len(m_peerSockets)
              /\ m_peerSockets'[k].fd = m_peerSockets[k].fd
              /\ \A i \in 1 .. Len(m_peerSockets) :
                   i # k => m_peerSockets'[i] = m_peerSockets[i]
          BY <1>1, <4>1, <4>2, MarkEffect
        <4>4. SlotTypeOK'
          BY <1>1, <2>1, <4>3 DEF SlotTypeOK
        <4>5. Used' = Used
          BY <2>1, <4>3 DEF Used
        <4>6. peer'[PeerOf(k)] = "rst_seen"
          BY <1>3, <2>6, <3>2
        <4>7. Used \subseteq 1 .. Len(m_peerSockets)
          BY DEF Used
        <4> HIDE DEF k
        <4> QED BY <4>3, <4>4, <4>5, <4>6, <4>7 DEF SocketsKept
      <3> QED BY <3>1, <3>2
    <2>8. pc[w] \in Holding /\ to \notin Holding /\ to \in Labels /\ to # "none"
      BY <2>1, <2>3 DEF Holding, Labels
    <2>9. killed' \in BOOLEAN /\ buffer' \in [Workers -> Seq(Messages)]
      BY <1>1, <2>1, Zenon
    <2> QED BY <1>2, <2>1, <2>4, <2>5, <2>6, <2>7, <2>8, <2>9, WorkerStep
  <1> QED BY <1>7, <1>8, <1>9, <1>11, <1>12, <1>13, <1>15, <1>16

-----------------------------------------------------------------------------
\* The last step of a worker: it frees its slot, and closes its socket unless
\* that has been marked.
LEMMA RemoveStep ==
  ASSUME Inv, NEW w \in Workers, Remove(w), UNCHANGED <<mainVars, acceptorVars>>
  PROVE  Inv'
  <1> DEFINE k == slot[w]
             s == m_peerSockets[k].state
             d == m_peerSockets[k].fd
             c == PeerOf(k)
  <1>1. /\ KernelTypeOK /\ SlotTypeOK /\ MainTypeOK /\ ThreadTypeOK
        /\ peer \in [Clients -> Ends] /\ inbox \in [Clients -> Seq(Messages)]
        /\ fds \in [Fds -> Clients \cup {None}]
    BY TypeParts DEF Inv, KernelTypeOK
  <1>2. /\ pc[w] = "remove" /\ pc' = [pc EXCEPT ![w] = "done"] /\ RemovePeer(k, s)
        /\ m_peerSocketsLock' = Free /\ killed' = killed
        /\ slot' = slot /\ buffer' = buffer /\ errno' = errno
        /\ apc' = apc /\ accepted' = accepted /\ stored' = stored /\ main' = main
        /\ m_isStopping' = m_isStopping
    BY DEF Remove, Step, localVars, acceptorVars, mainVars
  <1>3. w \in Active
    BY <1>2 DEF Active
  <1>4. /\ k \in Used /\ k \in 1 .. Len(m_peerSockets) /\ d \in Fds /\ s \in States
        /\ c \in Clients /\ c # None /\ fds[d] = c /\ peer[c] # "none"
        /\ s = "DISCONNECTED" => peer[c] = "rst_seen"
    BY <1>3, ActiveFacts, UsedFacts DEF PeerOf, Inv, SlotInv
  <1>5. /\ SlotTypeOK' /\ Len(m_peerSockets') = Len(m_peerSockets)
        /\ \A i \in 1 .. Len(m_peerSockets) :
             i # k => m_peerSockets'[i] = m_peerSockets[i]
        /\ Used' = Used \ {k}
    BY <1>1, <1>2, <1>4, RemovePeerEffect
  <1>6. m_peerSocketsLock = w /\ apc \notin {"add", "store"}
    BY <1>2, OwnersApart DEF Inv, LockInv
  <1> HIDE DEF k, s, d, c
  <1>7. /\ listening' = listening /\ backlog' = backlog /\ sends' = sends
        /\ \/ fds' = fds /\ peer' = peer /\ inbox' = inbox /\ peer[c] = "rst_seen"
           \/ /\ fds' = [fds EXCEPT ![d] = None] /\ peer' = [peer EXCEPT ![c] = "gone"]
              /\ inbox' = [inbox EXCEPT ![c] = <<>>]
    BY <1>2, <1>4 DEF RemovePeer, DescriptorClosed, kernelVars, d
  <1>8. KernelTypeOK'
    <2>1. peer' \in [Clients -> Ends] /\ fds' \in [Fds -> Clients \cup {None}]
      BY <1>1, <1>7
    <2>2. inbox' \in [Clients -> Seq(Messages)]
      <3>1. <<>> \in Seq(Messages)
        OBVIOUS
      <3> QED BY <1>1, <1>7, <3>1, Zenon
    <2> QED BY <1>1, <1>7, <2>1, <2>2, Zenon DEF KernelTypeOK
  <1>9. \A e \in Fds : fds'[e] = None \/ fds'[e] = fds[e]
    BY <1>1, <1>7
  <1>10. \A e \in Fds : e # d => fds'[e] = fds[e]
    BY <1>1, <1>7
  <1>11. \A b \in Clients : peer'[b] = "none" <=> peer[b] = "none"
    BY <1>1, <1>4, <1>7
  <1>12. \A b \in Clients : b # c => peer'[b] = peer[b]
    BY <1>1, <1>7
  <1>13. KernelInv'
    <2>1. \A i \in 1 .. Len(backlog) :
            peer'[backlog[i]] # "none" /\ \A e \in Fds : fds'[e] # backlog[i]
      BY <1>9, <1>11, BacklogFacts DEF Inv, KernelInv
    <2>2. \A e \in Fds : fds'[e] # None => peer'[fds'[e]] # "none"
      BY <1>9, <1>11, OpenFacts
    <2>3. \A e, f \in Fds : fds'[e] = fds'[f] /\ fds'[e] # None => e = f
      BY <1>9 DEF Inv, KernelInv
    <2> QED BY <1>7, <2>1, <2>2, <2>3 DEF Inv, KernelInv
  \* The slots still in use have the connections they had.
  <1>14. \A i \in Used' :
           /\ i \in Used /\ m_peerSockets'[i] = m_peerSockets[i]
           /\ m_peerSockets[i].fd # d
           /\ PeerOf(i)' = PeerOf(i) /\ PeerOf(i) # c /\ PeerOf(i) \in Clients
    <2> SUFFICES ASSUME NEW i \in Used'
                 PROVE  /\ i \in Used /\ m_peerSockets'[i] = m_peerSockets[i]
                        /\ m_peerSockets[i].fd # d
                        /\ PeerOf(i)' = PeerOf(i) /\ PeerOf(i) # c /\ PeerOf(i) \in Clients
      OBVIOUS
    <2>1. i \in Used /\ i # k /\ m_peerSockets'[i] = m_peerSockets[i]
      BY <1>5, UsedFacts
    <2>2. m_peerSockets[i].fd # d
      BY <1>4, <2>1 DEF d, Inv, SlotInv
    <2>3. PeerOf(i)' = PeerOf(i)
      BY <1>10, <2>1, <2>2, UsedFacts DEF PeerOf
    <2>4. PeerOf(i) # c
      BY <1>4, <2>1, SlotsApart DEF c
    <2> QED BY <2>1, <2>2, <2>3, <2>4, UsedFacts
  <1>15. SlotInv'
    <2>1. \A i \in Used' : fds'[m_peerSockets'[i].fd] # None
      BY <1>14, UsedFacts DEF PeerOf
    <2>2. \A i, j \in Used' : m_peerSockets'[i].fd = m_peerSockets'[j].fd => i = j
      BY <1>14 DEF Inv, SlotInv
    <2>3. \A i \in Used' :
            m_peerSockets'[i].state = "DISCONNECTED" => peer'[PeerOf(i)'] = "rst_seen"
      BY <1>12, <1>14 DEF Inv, SlotInv
    <2> QED BY <1>5, <2>1, <2>2, <2>3 DEF Inv, SlotInv
  <1>16. OpenAccounted'
    <2> SUFFICES ASSUME NEW e \in Fds, fds'[e] # None, e # accepted,
                        ~ \E i \in Used' : m_peerSockets'[i].fd = e
                 PROVE  peer'[fds'[e]] = "rst_seen"
      BY <1>2 DEF OpenAccounted
    <2>1. CASE e = d
      BY <1>1, <1>4, <1>7, <2>1
    <2>2. CASE e # d
      <3>1. fds'[e] = fds[e]
        BY <1>10, <2>2
      <3>2. ~ \E i \in Used : m_peerSockets[i].fd = e
        BY <1>5, <1>14, <2>2 DEF d
      <3>3. fds[e] \in Clients /\ peer[fds[e]] = "rst_seen"
        BY <3>1, <3>2, OpenFacts DEF Inv, OpenAccounted
      <3>4. fds[e] # c
        BY <1>4, <2>2, <3>1 DEF Inv, KernelInv
      <3> QED BY <1>12, <3>1, <3>3, <3>4
    <2> QED BY <2>1, <2>2
  <1>17. MainTypeOK'
    BY <1>1, <1>2, Zenon DEF MainTypeOK
  <1>18. ThreadTypeOK'
    BY <1>1, <1>2 DEF ThreadTypeOK
  <1>19. /\ \A v \in Workers : v # w => pc'[v] = pc[v]
         /\ pc'[w] = "done" /\ Active' = Active \ {w}
    BY <1>1, <1>2 DEF ThreadTypeOK, Active
  <1>20. LockInv'
    BY <1>2, <1>6, <1>19, OwnersApart DEF Inv, LockInv
  <1>21. AcceptInv'
    <2>1. apc \in {"lock", "add"} => d # accepted
      BY <1>4 DEF d, Inv, AcceptInv
    <2>2. apc \in {"lock", "add"} => accepted \in Fds
      BY <1>1 DEF Inv, AcceptInv, ThreadTypeOK
    <2> QED BY <1>2, <1>6, <1>10, <1>14, <2>1, <2>2 DEF Inv, AcceptInv
  <1>22. CountInv'
    <2>1. Came' = Came
      BY <1>11 DEF Came
    <2> QED BY <1>2, <1>7, <2>1 DEF Inv, CountInv, InHand
  <1>23. CreatedInv'
    BY <1>2, <1>19 DEF Inv, CreatedInv
  <1>24. ServeInv'
    BY <1>2, <1>3, <1>5, <1>19 DEF Inv, ServeInv, k
  <1>25. ErrnoInv'
    <2>1. \A v \in Active' : slot[v] \in Used'
      BY <1>2, <1>24 DEF ServeInv
    <2>2. \A v \in Active' : Conn(v)' = Conn(v) /\ Conn(v) # c /\ Conn(v) \in Clients
      BY <1>2, <1>14, <2>1 DEF Conn
    <2> QED BY <1>2, <1>12, <1>19, <2>2 DEF Inv, ErrnoInv
  <1> QED BY <1>5, <1>8, <1>13, <1>15, <1>16, <1>17, <1>18, <1>20, <1>21, <1>22, <1>23, <1>24,
             <1>25, TypePartsPrime DEF Inv

-----------------------------------------------------------------------------
\* accept: the oldest connection of the backlog gets the lowest descriptor.
LEMMA AcceptStep ==
  ASSUME Inv, Accept, UNCHANGED mainVars
  PROVE  Inv'
  <1> DEFINE d == LowestFree
             c == Head(backlog)
  <1>1. /\ KernelTypeOK /\ SlotTypeOK /\ MainTypeOK /\ ThreadTypeOK
        /\ fds \in [Fds -> Clients \cup {None}]
    BY TypeParts DEF Inv, KernelTypeOK
  <1>2. /\ apc = "accept" /\ apc' = "lock" /\ accepted' = d
        /\ backlog # <<>> /\ backlog' = Tail(backlog)
        /\ fds' = [fds EXCEPT ![d] = c]
        /\ UNCHANGED <<listening, peer, inbox, sends, m_peerSockets, killed, pc, slot, buffer,
                       errno, m_peerSocketsConnectionFlags, stored, m_peerSocketsLock, main,
                       m_isStopping>>
    BY DEF Accept, Accepted, slotVars, localVars, mainVars
  <1>3. d \in FreeFds
    BY LowestFreeIsFree DEF Accept
  <1>4. d \in Fds /\ fds[d] = None /\ d # 0
    BY <1>3 DEF FreeFds
  <1>5. /\ Len(backlog) \in Nat /\ Len(backlog) >= 1 /\ c = backlog[1] /\ c \in Clients
        /\ Len(backlog') = Len(backlog) - 1 /\ backlog' \in Seq(Clients)
        /\ \A i \in 1 .. Len(backlog') : backlog'[i] = backlog[i + 1]
    BY <1>2, BacklogFacts
  <1>6. c # None /\ peer[c] # "none" /\ \A e \in Fds : fds[e] # c
    BY <1>5 DEF Inv, KernelInv
  <1> HIDE DEF d, c
  <1>7. fds'[d] = c /\ \A e \in Fds : e # d => fds'[e] = fds[e]
    BY <1>1, <1>2, <1>4
  <1>8. KernelTypeOK'
    <2>1. fds' \in [Fds -> Clients \cup {None}]
      BY <1>1, <1>2, <1>4, <1>5
    <2> QED BY <1>1, <1>2, <1>5, <2>1, Zenon DEF KernelTypeOK
  <1>9. SlotTypeOK' /\ MainTypeOK' /\ Used' = Used /\ Active' = Active
    BY <1>1, <1>2, Zenon DEF SlotTypeOK, MainTypeOK, Used, Active
  <1>10. ThreadTypeOK'
    BY <1>1, <1>2, <1>4 DEF ThreadTypeOK
  <1>11. KernelInv'
    <2>1. \A i \in 1 .. Len(backlog') : i + 1 \in 1 .. Len(backlog) /\ i + 1 # 1
      BY <1>5
    <2>2. \A i, j \in 1 .. Len(backlog') : backlog'[i] = backlog'[j] => i = j
      <3> SUFFICES ASSUME NEW i \in 1 .. Len(backlog'), NEW j \in 1 .. Len(backlog'),
                          backlog'[i] = backlog'[j]
                   PROVE  i = j
        OBVIOUS
      <3>1. backlog[i + 1] = backlog[j + 1]
        BY <1>5
      <3>2. \A a, b \in 1 .. Len(backlog) : backlog[a] = backlog[b] => a = b
        BY DEF Inv, KernelInv
      <3>3. i + 1 = j + 1
        BY <2>1, <3>1, <3>2
      <3> QED BY <3>3
    <2>3. \A i \in 1 .. Len(backlog') : backlog[i + 1] # c
      BY <1>5, <2>1 DEF Inv, KernelInv
    <2>4. \A i \in 1 .. Len(backlog') :
            peer[backlog'[i]] # "none" /\ \A e \in Fds : fds'[e] # backlog'[i]
      <3> SUFFICES ASSUME NEW i \in 1 .. Len(backlog')
                   PROVE  peer[backlog'[i]] # "none" /\ \A e \in Fds : fds'[e] # backlog'[i]
        OBVIOUS
      <3>1. /\ backlog'[i] = backlog[i + 1] /\ backlog[i + 1] # c
            /\ peer[backlog[i + 1]] # "none" /\ \A e \in Fds : fds[e] # backlog[i + 1]
        BY <1>5, <2>1, <2>3 DEF Inv, KernelInv
      <3> QED BY <1>7, <3>1
    <2>5. \A e \in Fds : fds'[e] # None => peer[fds'[e]] # "none"
      BY <1>6, <1>7 DEF Inv, KernelInv
    <2>6. \A e, f \in Fds : fds'[e] = fds'[f] /\ fds'[e] # None => e = f
      BY <1>6, <1>7 DEF Inv, KernelInv
    <2> QED BY <1>2, <2>2, <2>4, <2>5, <2>6 DEF KernelInv
  <1>12. \A k \in Used :
           /\ m_peerSockets'[k] = m_peerSockets[k] /\ m_peerSockets[k].fd # d
           /\ PeerOf(k)' = PeerOf(k)
    BY <1>2, <1>4, <1>7, UsedFacts DEF PeerOf
  <1>13. SlotInv'
    <2>1. \A k \in Used : fds'[m_peerSockets[k].fd] # None
      BY <1>7, <1>12, UsedFacts
    <2> QED BY <1>2, <1>9, <1>12, <2>1 DEF Inv, SlotInv
  <1>14. OpenAccounted'
    <2> SUFFICES ASSUME NEW e \in Fds, fds'[e] # None, e # d
                 PROVE  \/ \E k \in Used : m_peerSockets[k].fd = e
                        \/ peer[fds'[e]] = "rst_seen"
      BY <1>2, <1>9 DEF OpenAccounted
    <2>1. fds'[e] = fds[e]
      BY <1>7
    <2>2. accepted = 0
      BY <1>2 DEF Inv, AcceptInv
    <2> QED BY <2>1, <2>2 DEF Inv, OpenAccounted
  <1>15. LockInv'
    BY <1>2 DEF Inv, LockInv
  <1>16. AcceptInv'
    BY <1>2, <1>4, <1>6, <1>7, <1>9, <1>12 DEF Inv, AcceptInv
  <1>17. CountInv'
    <2>1. Came' = Came
      BY <1>2 DEF Came
    <2>2. InHand = 0 /\ InHand' = 1
      BY <1>2 DEF InHand
    <2> QED BY <1>2, <1>5, <2>1, <2>2, CountFacts DEF Inv, CountInv
  <1>18. CreatedInv'
    BY <1>2 DEF Inv, CreatedInv
  <1>19. ServeInv'
    BY <1>2, <1>9 DEF Inv, ServeInv
  <1>20. ErrnoInv'
    <2>1. \A w \in Active : Conn(w)' = Conn(w)
      BY <1>2, <1>12, ActiveFacts DEF Conn
    <2> QED BY <1>2, <1>9, <2>1 DEF Inv, ErrnoInv
  <1> QED BY <1>8, <1>9, <1>10, <1>11, <1>13, <1>14, <1>15, <1>16, <1>17, <1>18, <1>19, <1>20,
             TypePartsPrime DEF Inv

\* addPeer and new thread: a worker of its own, on a slot of its own, for the
\* connection just accepted.
LEMMA CreateStep ==
  ASSUME Inv, CreateWorker, UNCHANGED mainVars
  PROVE  Inv'
  <1> DEFINE d == accepted
             k == SlotFor
             w == stored + 1
             c == fds[d]
  <1>1. /\ KernelTypeOK /\ SlotTypeOK /\ MainTypeOK /\ ThreadTypeOK
        /\ stored \in Nat
    BY TypeParts, CountFacts DEF Inv
  <1>2. /\ apc = "add" /\ apc' = "store" /\ AddPeer(d)
        /\ slot' = [slot EXCEPT ![w] = k] /\ pc' = [pc EXCEPT ![w] = "name"]
        /\ UNCHANGED <<listening, backlog, peer, inbox, fds, sends, killed, m_peerSocketsLock,
                       accepted, stored, buffer, errno, main, m_isStopping>>
    BY DEF CreateWorker, mainVars, kernelVars
  <1>3. /\ d \in Fds /\ c # None /\ (\A l \in Used : m_peerSockets[l].fd # d)
    BY <1>1, <1>2 DEF Inv, AcceptInv, ThreadTypeOK
  <1>4. k \in Slots /\ k \notin Used /\ k \in 1 .. Len(m_peerSockets) + 1
    BY <1>1, <1>2, RoomForSlot, SlotForIsFree
  <1>5. /\ SlotTypeOK'
        /\ Len(m_peerSockets') = IF k = Len(m_peerSockets) + 1 THEN k ELSE Len(m_peerSockets)
        /\ m_peerSockets'[k] = [fd |-> d, state |-> "CONNECTED"]
        /\ \A l \in 1 .. Len(m_peerSockets) :
             l # k => m_peerSockets'[l] = m_peerSockets[l]
        /\ Used' = Used \cup {k}
    BY <1>1, <1>2, <1>3, AddPeerEffect
  \* There are not more workers than clients.
  <1>6. w \in Workers
    <2>1. InHand = 1
      BY <1>2 DEF InHand
    <2>2. stored + 1 <= Cardinality(Clients)
      BY <2>1, CountFacts, ClientCount DEF Inv, CountInv
    <2> QED BY <1>1, <2>2, ClientCount DEF Workers
  <1>7. pc[w] = "none"
    <2>1. ~(w <= stored + 0)
      BY <1>1
    <2> QED BY <1>2, <1>6, <2>1 DEF Inv, CreatedInv
  <1> HIDE DEF d, k, w, c
  <1>8. /\ m_peerSockets'[k].fd = d /\ m_peerSockets'[k].state = "CONNECTED"
        /\ \A l \in Used : m_peerSockets'[l] = m_peerSockets[l] /\ PeerOf(l)' = PeerOf(l)
    <2>1. \A l \in Used : m_peerSockets'[l] = m_peerSockets[l]
      BY <1>4, <1>5, UsedFacts
    <2> QED BY <1>2, <1>5, <2>1 DEF PeerOf
  <1>9. KernelTypeOK' /\ MainTypeOK'
    BY <1>1, <1>2, Zenon DEF KernelTypeOK, MainTypeOK
  <1>10. ThreadTypeOK'
    BY <1>1, <1>2, <1>4, <1>6 DEF ThreadTypeOK
  <1>11. KernelInv'
    BY <1>2 DEF Inv, KernelInv
  <1>12. SlotInv'
    <2>1. Len(m_peerSockets') <= Cardinality(Clients)
      <3>1. Len(m_peerSockets) \in Nat /\ Len(m_peerSockets) <= Cardinality(Clients)
        BY <1>1 DEF Inv, SlotInv, SlotTypeOK
      <3> QED BY <1>4, <1>5, <3>1, ClientCount
    <2>2. \A l \in Used' : fds[m_peerSockets'[l].fd] # None
      BY <1>3, <1>5, <1>8, UsedFacts DEF c
    <2>3. \A l, m \in Used' : m_peerSockets'[l].fd = m_peerSockets'[m].fd => l = m
      BY <1>3, <1>5, <1>8 DEF Inv, SlotInv
    <2>4. \A l \in Used' :
            m_peerSockets'[l].state = "DISCONNECTED" => peer[PeerOf(l)'] = "rst_seen"
      BY <1>5, <1>8 DEF Inv, SlotInv
    <2> QED BY <1>2, <2>1, <2>2, <2>3, <2>4 DEF SlotInv
  <1>13. OpenAccounted'
    BY <1>2, <1>5, <1>8 DEF Inv, OpenAccounted
  <1>14. /\ \A v \in Workers : v # w => pc'[v] = pc[v] /\ slot'[v] = slot[v]
         /\ pc'[w] = "name" /\ slot'[w] = k
         /\ Active' = Active \cup {w} /\ w \notin Active
    BY <1>1, <1>2, <1>6, <1>7 DEF ThreadTypeOK, Active
  <1>15. LockInv'
    BY <1>2, <1>7, <1>14 DEF Inv, LockInv
  <1>16. AcceptInv'
    BY <1>2, <1>5, <1>8 DEF Inv, AcceptInv, d
  <1>17. CountInv'
    BY <1>2 DEF Inv, CountInv, Came, InHand
  <1>18. CreatedInv'
    <2> SUFFICES ASSUME NEW v \in Workers
                 PROVE  pc'[v] # "none" <=> v <= stored + 1
      BY <1>2 DEF CreatedInv
    <2>1. pc[v] # "none" <=> v <= stored + 0
      BY <1>2 DEF Inv, CreatedInv
    <2>2. v \in Nat
      BY ClientCount DEF Workers
    <2>3. CASE v = w
      BY <1>1, <1>14, <2>3 DEF w
    <2>4. CASE v # w
      BY <1>1, <1>14, <2>1, <2>2, <2>4 DEF w
    <2> QED BY <2>3, <2>4
  <1>19. ServeInv'
    <2>1. \A v \in Active : v # w /\ v \in Workers /\ slot'[v] = slot[v] /\ slot[v] \in Used
      BY <1>14, ActiveFacts
    <2> QED BY <1>4, <1>5, <1>14, <2>1 DEF Inv, ServeInv
  <1>20. ErrnoInv'
    <2>1. \A v \in Active : v # w /\ Conn(v)' = Conn(v)
      BY <1>8, <1>14, ActiveFacts DEF Conn
    <2>2. errno[w] = "other"
      BY <1>6, <1>7 DEF Inv, ErrnoInv
    <2> QED BY <1>2, <1>14, <2>1, <2>2 DEF Inv, ErrnoInv
  <1> QED BY <1>5, <1>9, <1>10, <1>11, <1>12, <1>13, <1>15, <1>16, <1>17, <1>18, <1>19, <1>20,
             TypePartsPrime DEF Inv

-----------------------------------------------------------------------------
\* Every other step of the acceptor.
LEMMA AcceptorStep ==
  ASSUME Inv, Acceptor
  PROVE  Inv'
  <1>1. MainTypeOK /\ ThreadTypeOK /\ listening \in BOOLEAN
    BY TypeParts DEF Inv, KernelTypeOK
  <1>2. UNCHANGED mainVars
    BY DEF Acceptor
  <1>3. ASSUME UNCHANGED <<serverVars, accepted, stored, pc, localVars>>
        PROVE  /\ UNCHANGED <<backlog, peer, inbox, fds, sends, slotVars, accepted, stored, pc,
                              localVars>>
               /\ listening' \in BOOLEAN /\ MainTypeOK' /\ main' = main
    BY <1>1, <1>2, <1>3, Zenon DEF serverVars, kernelVars, MainTypeOK, mainVars
  <1>4. apc # "none" => main \notin {"start", "create"}
    BY DEF Inv, AcceptInv
  <1>5. CASE AcceptorCheck \/ AcceptFails
    <2>1. /\ apc \in {"check", "accept"} /\ apc' \in {"check", "accept", "done"}
          /\ m_peerSocketsLock' = m_peerSocketsLock
          /\ UNCHANGED <<serverVars, accepted, stored, pc, localVars>>
      BY <1>5 DEF AcceptorCheck, AcceptFails
    <2>2. LockInv'
      BY <2>1 DEF Inv, LockInv
    <2>3. /\ m_peerSocketsLock' \in {Free, AcceptorThread} \cup Workers
          /\ main' \notin {"start", "create"}
      BY <1>1, <1>3, <1>4, <2>1 DEF ThreadTypeOK
    <2> QED BY <1>3, <2>1, <2>2, <2>3, StillStep
  <1>6. CASE AcceptorLock
    <2>1. /\ apc = "lock" /\ apc' = "add"
          /\ m_peerSocketsLock = Free /\ m_peerSocketsLock' = AcceptorThread
          /\ UNCHANGED <<serverVars, accepted, stored, pc, localVars>>
      BY <1>6 DEF AcceptorLock
    <2>2. LockInv'
      BY <2>1, OwnersApart DEF Inv, LockInv
    <2>3. main' \notin {"start", "create"}
      BY <1>3, <1>4, <2>1
    <2> QED BY <1>3, <2>1, <2>2, <2>3, StillStep
  <1>7. CASE StoreThread
    <2>1. /\ apc = "store" /\ apc' = "check" /\ stored' = stored + 1
          /\ m_peerSocketsLock' = Free /\ accepted' = 0
          /\ UNCHANGED <<listening, backlog, peer, inbox, fds, sends, killed, m_peerSockets,
                         m_peerSocketsConnectionFlags, pc, slot, buffer, errno, main,
                         m_isStopping>>
      BY <1>2, <1>7 DEF StoreThread, serverVars, kernelVars, slotVars, localVars, mainVars
    <2>2. KernelTypeOK' /\ SlotTypeOK' /\ MainTypeOK'
      BY <2>1, TypeParts, Zenon DEF Inv, KernelTypeOK, SlotTypeOK, MainTypeOK
    <2>3. InHand = 1 /\ InHand' = 0 /\ Came' = Came
      BY <2>1 DEF InHand, Came
    <2>4. stored + 1 \in 0 .. Cardinality(Clients)
      BY <2>3, CountFacts, ClientCount DEF Inv, CountInv
    <2>5. ThreadTypeOK'
      BY <1>1, <2>1, <2>4 DEF ThreadTypeOK
    <2>6. Used' = Used /\ Active' = Active
      BY <2>1, Zenon DEF Used, Active
    <2>7. KernelInv' /\ SlotInv'
      BY <2>1, <2>6 DEF Inv, KernelInv, SlotInv, PeerOf
    <2>8. OpenAccounted'
      <3>1. \E k \in Used : m_peerSockets[k].fd = accepted
        BY <2>1 DEF Inv, AcceptInv
      <3> QED BY <2>1, <2>6, <3>1 DEF Inv, OpenAccounted
    <2>9. LockInv'
      BY <2>1, OwnersApart DEF Inv, LockInv
    <2>10. AcceptInv'
      BY <1>4, <2>1 DEF AcceptInv
    <2>11. CountInv'
      BY <2>1, <2>3, CountFacts DEF Inv, CountInv
    <2>12. CreatedInv'
      <3> SUFFICES ASSUME NEW w \in Workers
                   PROVE  pc[w] # "none" <=> w <= (stored + 1) + 0
        BY <2>1 DEF CreatedInv
      <3>1. pc[w] # "none" <=> w <= stored + 1
        BY <2>1 DEF Inv, CreatedInv
      <3> QED BY <3>1, CountFacts
    <2>13. ServeInv' /\ ErrnoInv'
      BY <2>1, <2>6 DEF Inv, ServeInv, ErrnoInv, Conn, PeerOf
    <2> QED BY <2>2, <2>5, <2>7, <2>8, <2>9, <2>10, <2>11, <2>12, <2>13, TypePartsPrime DEF Inv
  <1> QED BY <1>2, <1>5, <1>6, <1>7, AcceptStep, CreateStep DEF Acceptor

\* A step of main, or of the operator.
LEMMA MainStep ==
  ASSUME Inv, Main \/ Operator
  PROVE  Inv'
  <1>1. MainTypeOK /\ ThreadTypeOK /\ listening \in BOOLEAN
    BY TypeParts DEF Inv, KernelTypeOK
  <1>2. /\ UNCHANGED <<backlog, peer, inbox, fds, sends, slotVars, killed, accepted, stored,
                       pc, localVars, m_peerSocketsLock>>
        /\ listening' \in BOOLEAN
        /\ m_isStopping' = m_isStopping \/ m_isStopping' = TRUE
    BY <1>1 DEF Main, Operator, CreateAcceptor, JoinAcceptor, JoinWorker, Return, Start,
                Stop, mainVars, serverVars, kernelVars, acceptorVars
  <1>3. /\ main' \in {"create", "serve", "join", "join_workers", "returned"}
        /\ \/ apc' = apc /\ (main' = "create" => main = "start")
           \/ main = "create" /\ main' = "serve" /\ apc' = "check"
    BY <1>1 DEF MainTypeOK, Main, Operator, CreateAcceptor, JoinAcceptor, JoinWorker, Return,
                Start, Stop, mainVars, acceptorVars
  <1>4. MainTypeOK'
    BY <1>1, <1>2, <1>3, Zenon DEF MainTypeOK
  <1>5. main \in {"start", "create"} => apc = "none"
    BY DEF Inv, AcceptInv
  <1>6. /\ apc' \in {"none", "check", "accept", "lock", "add", "store", "done"}
        /\ m_peerSocketsLock' \in {Free, AcceptorThread} \cup Workers
        /\ apc' = apc \/ (apc = "none" /\ apc' = "check")
        /\ main' \in {"start", "create"} => apc' = "none"
    BY <1>1, <1>2, <1>3, <1>5 DEF ThreadTypeOK
  <1>7. LockInv'
    BY <1>2, <1>6 DEF Inv, LockInv
  <1> QED BY <1>2, <1>4, <1>6, <1>7, StillStep

\* The server that has ended stays as it is.
LEMMA EndedStep ==
  ASSUME Inv, UNCHANGED vars
  PROVE  Inv'
  <1>1. MainTypeOK /\ ThreadTypeOK /\ listening \in BOOLEAN
    BY TypeParts DEF Inv, KernelTypeOK
  <1>2. MainTypeOK'
    BY <1>1, Zenon DEF MainTypeOK, vars, serverVars, mainVars
  <1>3. /\ UNCHANGED <<backlog, peer, inbox, fds, sends, slotVars, accepted, stored, pc,
                       localVars, listening, apc, m_peerSocketsLock, main>>
    BY DEF vars, serverVars, kernelVars, mainVars, acceptorVars
  <1>4. LockInv' /\ (main' \in {"start", "create"} => apc' = "none")
    BY <1>3 DEF Inv, LockInv, AcceptInv
  <1> QED BY <1>1, <1>2, <1>3, <1>4, StillStep DEF ThreadTypeOK

LEMMA NextInv == Inv /\ [Next]_vars => Inv'
  <1> SUFFICES ASSUME Inv, [Next]_vars
               PROVE  Inv'
    OBVIOUS
  <1>1. ASSUME NEW w \in Workers, Worker(w)
        PROVE  Inv'
    BY <1>1, ServingStep, RemoveStep DEF Worker
  <1>2. CASE Network /\ UNCHANGED <<killed, slotVars, mainVars, joined, m_peerSocketsLock,
                                    acceptorVars, pc, localVars>>
    BY <1>2, NetworkStep
  <1>3. CASE UNCHANGED vars
    BY <1>3, EndedStep
  <1> QED BY <1>1, <1>2, <1>3, MainStep, AcceptorStep DEF Next, Ended

-----------------------------------------------------------------------------
\* main joins the threads there are, one after the other.
JoinedInv == joined \in 0 .. stored

LEMMA NextJoined == Inv /\ JoinedInv /\ [Next]_vars => JoinedInv'
  <1> SUFFICES ASSUME Inv, JoinedInv, [Next]_vars
               PROVE  JoinedInv'
    OBVIOUS
  <1>1. stored \in Nat /\ joined \in 0 .. stored
    BY DEF Inv, ServingTypeOK, ThreadTypeOK, JoinedInv
  <1>2. ASSUME joined' = joined, stored' = stored \/ stored' = stored + 1
        PROVE  JoinedInv'
    BY <1>1, <1>2 DEF JoinedInv
  <1>3. CASE Main \/ Operator
    <2>1. /\ stored' = stored
          /\ joined' = joined \/ (joined < stored /\ joined' = joined + 1)
      <3>1. CASE CreateAcceptor
        BY <3>1 DEF CreateAcceptor
      <3>2. CASE JoinAcceptor
        BY <3>2 DEF JoinAcceptor, acceptorVars
      <3>3. CASE JoinWorker
        BY <3>3 DEF JoinWorker, acceptorVars
      <3>4. CASE Return
        BY <3>4 DEF Return, acceptorVars
      <3>5. CASE UNCHANGED <<joined, m_peerSocketsLock, acceptorVars, pc, localVars>>
        BY <3>5 DEF acceptorVars
      <3> QED BY <1>3, <3>1, <3>2, <3>3, <3>4, <3>5 DEF Main, Operator
    <2> QED BY <1>1, <2>1 DEF JoinedInv
  <1>4. CASE Acceptor
    <2>1. joined' = joined /\ (stored' = stored \/ stored' = stored + 1)
      BY <1>4 DEF Acceptor, AcceptorCheck, AcceptFails, Accept, AcceptorLock, CreateWorker,
                  StoreThread
    <2> QED BY <1>2, <2>1
  <1>5. ASSUME NEW w \in Workers, Worker(w)
        PROVE  JoinedInv'
    BY <1>2, <1>5 DEF Worker, acceptorVars
  <1>6. CASE Network /\ UNCHANGED <<killed, slotVars, mainVars, joined, m_peerSocketsLock,
                                    acceptorVars, pc, localVars>>
    BY <1>2, <1>6 DEF acceptorVars
  <1>7. CASE UNCHANGED vars
    BY <1>2, <1>7 DEF vars, acceptorVars
  <1> QED BY <1>3, <1>4, <1>5, <1>6, <1>7 DEF Next, Ended

\* Every reachable state satisfies the invariant.
THEOREM Invariance == Spec => [](Inv /\ JoinedInv)
  <1>1. Init => Inv /\ JoinedInv
    <2>1. Init => JoinedInv
      BY DEF Init, JoinedInv
    <2> QED BY <2>1, InitInv
  <1> QED BY <1>1, NextInv, NextJoined, PTL DEF Spec

\* Every variable keeps its range: in particular there are never more slots or
\* workers than clients.
THEOREM TypeCorrect == Spec => []TypeOK
  <1>1. Inv /\ JoinedInv => TypeOK
    BY Zenon DEF Inv, JoinedInv, ServingTypeOK, ThreadTypeOK, TypeOK
  <1> QED BY <1>1, Invariance, PTL

\* Slots and descriptors are used again, and workers look at them without the
\* lock: still no two workers share one, and none is freed or given away while
\* its worker may use it.
THEOREM WorkersSeparate == Spec => []WorkersApart
  <1>1. Inv => WorkersApart
    <2> SUFFICES ASSUME Inv
                 PROVE  WorkersApart
      OBVIOUS
    <2>1. \A v, w \in Active : v # w => slot[v] # slot[w] /\ Conn(v) # Conn(w)
      BY ActiveFacts, SlotsApart DEF Conn, Inv, ServeInv
    <2> QED BY <2>1, ActiveFacts DEF WorkersApart
  <1> QED BY <1>1, Invariance, PTL

\* A descriptor that no slot in use has, and that has not just been accepted,
\* belongs to a connection its client has reset.
THEOREM DescriptorsAccounted == Spec => []OpenAccounted
  BY Invariance, PTL DEF Inv

=============================================================================
