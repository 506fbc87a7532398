----------------------------- MODULE ThreadServer -----------------------------
(***************************************************************************)
(* The thread-per-client server: an acceptor thread accepts connections    *)
(* and starts one worker thread for each; a worker receives, replies and   *)
(* disconnects.  Every worker calls the blocking recv while it holds the   *)
(* one mutex of the server.  main starts the acceptor, waits for the       *)
(* operator to type quit, and joins the acceptor and every worker.         *)
(*                                                                         *)
(* Worker w serves the w-th accepted connection.  Reading a vector while   *)
(* another thread appends to it is a data race: it finds the element, or   *)
(* reads memory that is not there and may kill the process.                *)
(***************************************************************************)
EXTENDS TCPServer

VARIABLES
  m_peerSocketsLock,           \* its owner
  stored,         \* length of m_clientThreads
  joined,         \* how many of them main has joined
  apc, accepted,  \* acceptor: next step, descriptor accepted or 0
  pc,             \* pc[w]: next step of worker w
  slot,           \* slot[w]: peerIndex of worker w
  buffer,         \* buffer[w]: what it received
  errno           \* errno[w]: of its thread

acceptorVars == <<apc, accepted, stored>>
localVars == <<slot, buffer, errno>>
serverVars == <<kernelVars, killed, slotVars>>
vars == <<serverVars, mainVars, joined, m_peerSocketsLock, acceptorVars, pc, localVars>>

Workers == 1 .. Cardinality(Clients)

\* The owners of the mutex are numbers: the workers, and these.
Free == 0
AcceptorThread == Cardinality(Clients) + 1

TypeOK ==
  /\ ServerTypeOK
  /\ m_peerSocketsLock \in {Free, AcceptorThread} \cup Workers
  /\ stored \in 0 .. Cardinality(Clients) /\ joined \in 0 .. stored
  /\ apc \in {"none", "check", "accept", "lock", "add", "store", "done"}
  /\ accepted \in Fds \cup {0}
  /\ pc \in [Workers -> {"none", "name", "check", "peer", "lock", "receive", "send",
                         "lock_remove", "remove", "done"}]
  /\ slot \in [Workers -> Slots \cup {0}]
  /\ buffer \in [Workers -> Seq(Messages)]
  /\ errno \in [Workers -> Errnos]

Init ==
  /\ ServerInit
  /\ m_peerSocketsLock = Free
  /\ stored = 0 /\ joined = 0 /\ apc = "none" /\ accepted = 0
  /\ pc = [w \in Workers |-> "none"]
  /\ slot = [w \in Workers |-> 0]
  /\ buffer = [w \in Workers |-> <<>>]
  /\ errno = [w \in Workers |-> "other"]

-----------------------------------------------------------------------------
\* main: the rest of start().
CreateAcceptor ==
  /\ main = "create" /\ main' = "serve"
  /\ apc' = "check"
  /\ UNCHANGED <<serverVars, m_isStopping, joined, m_peerSocketsLock, accepted, stored,
                 pc, localVars>>

\* stop() joins the acceptor if there is one, then the workers one by one.
JoinAcceptor ==
  /\ main = "join" /\ main' = "join_workers"
  /\ apc \in {"none", "done"}
  /\ UNCHANGED <<serverVars, m_isStopping, joined, m_peerSocketsLock, acceptorVars, pc,
                 localVars>>

JoinWorker ==
  /\ main = "join_workers" /\ joined < stored
  /\ pc[joined + 1] = "done"
  /\ joined' = joined + 1
  /\ UNCHANGED <<serverVars, mainVars, m_peerSocketsLock, acceptorVars, pc, localVars>>

Return ==
  /\ main = "join_workers" /\ main' = "returned"
  /\ joined = stored
  /\ UNCHANGED <<serverVars, m_isStopping, joined, m_peerSocketsLock, acceptorVars, pc,
                 localVars>>

Main ==
  \/ CreateAcceptor \/ JoinAcceptor \/ JoinWorker \/ Return
  \/ Start /\ UNCHANGED <<joined, m_peerSocketsLock, acceptorVars, pc, localVars>>

Operator == Stop /\ UNCHANGED <<joined, m_peerSocketsLock, acceptorVars, pc, localVars>>

-----------------------------------------------------------------------------
\* Acceptor thread.
AcceptorCheck ==
  /\ apc = "check"
  /\ apc' = IF m_isStopping THEN "done" ELSE "accept"
  /\ UNCHANGED <<serverVars, m_peerSocketsLock, accepted, stored, pc, localVars>>

\* select timed out, or accept found no descriptor for the connection.
AcceptFails ==
  /\ apc = "accept" /\ apc' = "check"
  /\ backlog = <<>> \/ FreeFds = {}
  /\ UNCHANGED <<serverVars, m_peerSocketsLock, accepted, stored, pc, localVars>>

Accept ==
  /\ apc = "accept" /\ apc' = "lock"
  /\ backlog # <<>> /\ FreeFds # {}
  /\ Accepted
  /\ accepted' = LowestFree
  /\ UNCHANGED <<killed, slotVars, m_peerSocketsLock, stored, pc, localVars>>

AcceptorLock ==
  /\ apc = "lock" /\ apc' = "add"
  /\ m_peerSocketsLock = Free /\ m_peerSocketsLock' = AcceptorThread
  /\ UNCHANGED <<serverVars, accepted, stored, pc, localVars>>

\* addPeer, then new thread: the worker runs before emplace_back has stored
\* its pointer.
CreateWorker ==
  /\ apc = "add" /\ apc' = "store"
  /\ AddPeer(accepted)
  /\ slot' = [slot EXCEPT ![stored + 1] = SlotFor]
  /\ pc' = [pc EXCEPT ![stored + 1] = "name"]
  /\ UNCHANGED <<kernelVars, killed, m_peerSocketsLock, accepted, stored, buffer, errno>>

StoreThread ==
  /\ apc = "store" /\ apc' = "check"
  /\ stored' = stored + 1
  /\ m_peerSocketsLock' = Free
  /\ accepted' = 0
  /\ UNCHANGED <<serverVars, pc, localVars>>

Acceptor ==
  /\ \/ AcceptorCheck \/ AcceptFails \/ Accept \/ AcceptorLock \/ CreateWorker
     \/ StoreThread
  /\ UNCHANGED <<mainVars, joined>>

-----------------------------------------------------------------------------
\* Worker thread w: handleClient.
Step(w, from, to) == pc[w] = from /\ pc' = [pc EXCEPT ![w] = to]

\* It names the thread m_clientThreads has under the index of its slot: in a
\* slot used again that is a thread before it.  One that main has joined has
\* a null handle, and to name that is the end of the process.
SetName(w) ==
  /\ Step(w, "name", "check")
  /\ killed' \in IF slot[w] <= joined THEN {TRUE}
                 ELSE IF apc = "store" THEN BOOLEAN ELSE {FALSE}
  /\ UNCHANGED <<kernelVars, slotVars, m_peerSocketsLock, localVars>>

\* mutant: the flag is never looked at
StopSeenNever == FALSE
StopSeen == m_isStopping

CheckStop(w) ==
  /\ Step(w, "check", IF StopSeen THEN "done" ELSE "peer")
  /\ UNCHANGED <<serverVars, m_peerSocketsLock, localVars>>

\* getPeerSocket reads m_peerSockets without the lock.
GetPeerSocket(w) ==
  /\ Step(w, "peer", "lock")
  /\ killed' \in IF apc = "add" /\ FreeSlots = {} THEN BOOLEAN ELSE {FALSE}
  /\ UNCHANGED <<kernelVars, slotVars, m_peerSocketsLock, localVars>>

Lock(w, from, to) ==
  /\ Step(w, from, to)
  /\ m_peerSocketsLock = Free /\ m_peerSocketsLock' = w
  /\ UNCHANGED <<serverVars, localVars>>

\* The connection worker w serves.
Conn(w) == PeerOf(slot[w])

\* recv blocks with the lock held until there is something to report; the
\* lock is released when it returns.
Receive(w) ==
  /\ Step(w, "receive", "send")
  /\ \E k \in 1 .. Len(inbox[Conn(w)]) :
       /\ buffer' = [buffer EXCEPT ![w] = SubSeq(inbox[Conn(w)], 1, k)]
       /\ Received(Conn(w), k)
  /\ m_peerSocketsLock' = Free
  /\ UNCHANGED <<killed, slotVars, slot, errno>>

\* recv returned 0, or an error that sets errno.  Only errno decides whether
\* the connection counts as lost; isConnectionLost then marks the socket.
ReceiveNothing(w) ==
  /\ pc[w] = "receive"
  /\ inbox[Conn(w)] = <<>> /\ peer[Conn(w)] # "open"
  /\ m_peerSocketsLock' = Free
  /\ errno' = [errno EXCEPT ![w] = ErrnoAfter(@, peer[Conn(w)])]
  /\ PeerBecomes(Conn(w), AfterReceive(peer[Conn(w)]))
  /\ IF errno'[w] = "lost"
     THEN /\ m_peerSockets' = [m_peerSockets EXCEPT ![slot[w]].state = "DISCONNECTED"]
          /\ Step(w, "receive", "lock_remove")
     ELSE Step(w, "receive", "check") /\ UNCHANGED m_peerSockets
  /\ UNCHANGED <<killed, m_peerSocketsConnectionFlags, slot, buffer>>

\* Reply; a client that said quit, and nothing else, is disconnected.
Send(w) ==
  /\ Step(w, "send", IF buffer[w] = <<"quit">> THEN "lock_remove" ELSE "check")
  /\ killed' = SendKills(peer[Conn(w)])
  /\ errno' = [errno EXCEPT ![w] = ErrnoAfter(@, peer[Conn(w)])]
  /\ PeerBecomes(Conn(w), AfterSend(peer[Conn(w)]))
  /\ buffer' = [buffer EXCEPT ![w] = <<>>]
  /\ UNCHANGED <<slotVars, m_peerSocketsLock, slot>>

\* onClientDisconnected: a lock_guard around removePeer; the worker returns.
Remove(w) ==
  /\ Step(w, "remove", "done")
  /\ RemovePeer(slot[w], m_peerSockets[slot[w]].state)
  /\ m_peerSocketsLock' = Free
  /\ UNCHANGED <<killed, localVars>>

Worker(w) ==
  /\ \/ SetName(w) \/ CheckStop(w) \/ GetPeerSocket(w)
     \/ Lock(w, "lock", "receive") \/ Receive(w) \/ ReceiveNothing(w) \/ Send(w)
     \/ Lock(w, "lock_remove", "remove") \/ Remove(w)
  /\ UNCHANGED <<mainVars, joined, acceptorVars>>

-----------------------------------------------------------------------------
\* main has returned or the process has died.
Ended == (killed \/ main = "returned") /\ UNCHANGED vars

Next ==
  \/ /\ ~killed /\ main # "returned"
     /\ \/ Main \/ Operator \/ Acceptor
        \/ \E w \in Workers : Worker(w)
        \/ Network /\ UNCHANGED <<killed, slotVars, mainVars, joined, m_peerSocketsLock,
                                  acceptorVars, pc, localVars>>
  \/ Ended

Spec == Init /\ [][Next]_vars

\* Every thread runs whenever it can.  The mutex need not be fair: nothing
\* below relies on one worker getting it while others keep taking it.
FairSpec ==
  /\ Spec
  /\ WF_vars(~killed /\ Main)
  /\ WF_vars(~killed /\ Acceptor)
  /\ \A w \in Workers : WF_vars(~killed /\ Worker(w))

-----------------------------------------------------------------------------
Active == {w \in Workers : pc[w] \notin {"none", "done"}}

\* Slots are used again, and workers look at them without the lock: still no
\* two workers share a slot or a connection, and the slot and the descriptor
\* of a worker are never freed or given away before the worker is through
\* with them.
WorkersApart ==
  /\ \A w \in Active : slot[w] \in Used /\ Conn(w) # None
  /\ \A v, w \in Active : v # w => slot[v] # slot[w] /\ Conn(v) # Conn(w)

\* A descriptor stays open only as long as a slot in use has it, or for good
\* if its client has reset the connection: what one worker's errno says is
\* never taken for another worker's connection.
OpenAccounted ==
  \A d \in Fds : fds[d] # None =>
    \/ d = accepted
    \/ \E k \in Used : m_peerSockets[k].fd = d
    \/ peer[fds[d]] = "rst_seen"

ClientsLeft == \A d \in Fds : fds[d] # None => peer[fds[d]] # "open"

\* stop() returns once every client has closed or reset its connection: no
\* worker waits for another one that waits for data.  A client that stays
\* and is silent keeps stop() waiting for good.
StopsOnceClientsLeave ==
  m_isStopping /\ ClientsLeft ~> main = "returned" \/ killed

\* The thread a worker names is itself, and its pointer is there.  The code
\* does not ensure it.
NamesItself ==
  \A w \in Workers : pc[w] = "name" => slot[w] <= stored /\ slot[w] = w

=============================================================================
