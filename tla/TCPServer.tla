------------------------------ MODULE TCPServer ------------------------------
(***************************************************************************)
(* The base class of both servers: the listening socket, the slots of the  *)
(* peers, which are used again when their connection is over, and the stop *)
(* flag; and what both main functions do.  Slot k here is index k - 1 in   *)
(* the code.                                                               *)
(***************************************************************************)
EXTENDS Sockets

VARIABLES
  main,           \* "start", "create", ..., "serve", "join", ..., "returned"
  killed,         \* the process has died of a signal
  m_isStopping,
  m_peerSockets,  \* the socket object of each slot
  m_peerSocketsConnectionFlags

mainVars == <<main, m_isStopping>>
slotVars == <<m_peerSockets, m_peerSocketsConnectionFlags>>

Slots == 1 .. Cardinality(Clients)

ServerTypeOK ==
  /\ KernelTypeOK
  /\ main \in {"start", "create", "store", "serve", "join", "join_workers", "returned"}
  /\ {killed, m_isStopping} \subseteq BOOLEAN
  /\ m_peerSockets \in Seq([fd : Fds, state : States])
  /\ m_peerSocketsConnectionFlags \in Seq(BOOLEAN)
  /\ Len(m_peerSockets) = Len(m_peerSocketsConnectionFlags)

ServerInit ==
  /\ KernelInit
  /\ main = "start" /\ killed = FALSE /\ m_isStopping = FALSE
  /\ m_peerSockets = <<>> /\ m_peerSocketsConnectionFlags = <<>>

-----------------------------------------------------------------------------
\* TCPServer::start: bind and listen.  main does not look at the result: if
\* one of them fails it waits for the operator without a thread to serve.
Start ==
  /\ main = "start"
  /\ listening' \in BOOLEAN
  /\ main' = IF listening' THEN "create" ELSE "serve"
  /\ UNCHANGED <<backlog, peer, inbox, fds, sends, killed, m_isStopping, slotVars>>

\* The operator types quit: TCPServer::stop.
Stop ==
  /\ main = "serve"
  /\ main' = "join"
  /\ m_isStopping' = TRUE
  /\ UNCHANGED <<kernelVars, killed, slotVars>>

-----------------------------------------------------------------------------
Used == {k \in 1 .. Len(m_peerSockets) : m_peerSocketsConnectionFlags[k]}
FreeSlots == (1 .. Len(m_peerSockets)) \ Used

\* mutant: a slot in use is taken when no slot is free
SlotForOverwrite ==
  IF FreeSlots = {} THEN IF m_peerSockets = <<>> THEN 1 ELSE Len(m_peerSockets)
  ELSE CHOOSE k \in FreeSlots : \A l \in FreeSlots : k <= l
\* The first free slot, or a new one behind the last.
SlotFor ==
  IF FreeSlots = {} THEN Len(m_peerSockets) + 1
  ELSE CHOOSE k \in FreeSlots : \A l \in FreeSlots : k <= l

At(seq, k, x) == IF k = Len(seq) + 1 THEN Append(seq, x) ELSE [seq EXCEPT ![k] = x]

\* mutant: no flag is pushed for a new slot
FlagsKept(k) ==
  IF k > Len(m_peerSocketsConnectionFlags) THEN m_peerSocketsConnectionFlags
  ELSE [m_peerSocketsConnectionFlags EXCEPT ![k] = TRUE]
FlagsWith(k) == At(m_peerSocketsConnectionFlags, k, TRUE)

\* addPeer.  The socket object a slot held before is DISCONNECTED: its
\* destructor closes nothing.
AddPeer(d) ==
  /\ m_peerSockets' = At(m_peerSockets, SlotFor, [fd |-> d, state |-> "CONNECTED"])
  /\ m_peerSocketsConnectionFlags' = FlagsWith(SlotFor)

\* removePeer of slot k when its socket has state s: close() does nothing to
\* a socket that isConnectionLost has marked DISCONNECTED.
RemovePeer(k, s) ==
  /\ m_peerSocketsConnectionFlags' = [m_peerSocketsConnectionFlags EXCEPT ![k] = FALSE]
  /\ m_peerSockets' = [m_peerSockets EXCEPT ![k].state = "DISCONNECTED"]
  /\ IF s = "DISCONNECTED" THEN UNCHANGED kernelVars
     ELSE DescriptorClosed(m_peerSockets[k].fd)

\* The connection behind slot k.
PeerOf(k) == fds[m_peerSockets[k].fd]

=============================================================================
