---------------------------- MODULE ReactorServer ----------------------------
(***************************************************************************)
(* The epoll server: one reactor thread waits for ready descriptors,       *)
(* accepts connections, receives, replies and disconnects; main starts it, *)
(* waits for the operator to type quit, and joins it.  setPollTimeout(-1)  *)
(* divides by 1000 and so polls without waiting.  A table maps descriptors, *)
(* which the kernel uses again, to slots.                                  *)
(***************************************************************************)
EXTENDS TCPServer

VARIABLES
  m_reactorThread,             \* the pointer to the thread has been stored
  m_peerSocketIndexTable,      \* slot of each descriptor
  registered,                  \* descriptors in the epoll set
  pc,             \* next step of the reactor thread
  batch,          \* events of this epoll_wait still to be handled
  peerIndex,      \* slot of the event being handled, 0 between events
  buffer,         \* what handleClient received
  errno           \* of the reactor thread

epollVars == <<m_peerSocketIndexTable, registered>>
eventVars == <<batch, peerIndex, buffer>>
serverVars == <<kernelVars, killed, slotVars, epollVars>>
vars == <<serverVars, mainVars, m_reactorThread, pc, eventVars, errno>>

Listening == 0      \* the descriptor of m_socket
Events == [fd : Fds, conn : Clients, valid : BOOLEAN]
            \cup [fd : {Listening}, conn : {None}, valid : {TRUE}]

TypeOK ==
  /\ ServerTypeOK
  /\ m_reactorThread \in BOOLEAN
  /\ m_peerSocketIndexTable \in [Fds -> Slots]
  /\ registered \subseteq Fds
  /\ pc \in {"none", "name", "check", "wait", "dispatch", "receive", "send", "dismiss",
            "done"}
  /\ batch \subseteq Events
  /\ peerIndex \in 0 .. Cardinality(Clients)
  /\ buffer \in Seq(Messages)
  /\ errno \in Errnos

\* operator[] of the table yields index 0 for a descriptor it does not know.
Init ==
  /\ ServerInit
  /\ m_reactorThread = FALSE
  /\ m_peerSocketIndexTable = [d \in Fds |-> 1] /\ registered = {}
  /\ pc = "none" /\ batch = {} /\ peerIndex = 0 /\ buffer = <<>> /\ errno = "other"

-----------------------------------------------------------------------------
\* new std::thread runs the thread before reset has stored the pointer.
CreateThread ==
  /\ main = "create" /\ main' = "store"
  /\ pc' = "name"
  /\ UNCHANGED <<serverVars, m_isStopping, m_reactorThread, eventVars, errno>>

StoreThread ==
  /\ main = "store" /\ main' = "serve"
  /\ m_reactorThread' = TRUE
  /\ UNCHANGED <<serverVars, m_isStopping, pc, eventVars, errno>>

\* stop() joins the thread if there is one.
JoinReactor ==
  /\ main = "join" /\ main' = "returned"
  /\ m_reactorThread => pc = "done"
  /\ UNCHANGED <<serverVars, m_isStopping, m_reactorThread, pc, eventVars, errno>>

Main ==
  \/ CreateThread \/ StoreThread \/ JoinReactor
  \/ Start /\ UNCHANGED <<epollVars, m_reactorThread, pc, eventVars, errno>>

Operator == Stop /\ UNCHANGED <<epollVars, m_reactorThread, pc, eventVars, errno>>

-----------------------------------------------------------------------------
\* The reactor thread names itself through the pointer main stores; through a
\* null pointer the process dies.
SetName ==
  /\ pc = "name" /\ pc' = "check"
  /\ killed' = ~m_reactorThread
  /\ UNCHANGED <<kernelVars, slotVars, epollVars, eventVars, errno>>

\* mutant: the flag is never looked at
StopSeenNever == FALSE
StopSeen == m_isStopping

CheckStop ==
  /\ pc = "check"
  /\ pc' = IF StopSeen THEN "done" ELSE "wait"
  /\ UNCHANGED <<serverVars, eventVars, errno>>

\* What epoll_wait reports and isValidEvent says of it.
ReadyEvents ==
  [fd : {d \in {Listening} : backlog # <<>>}, conn : {None}, valid : {TRUE}]
  \cup {[fd |-> d, conn |-> fds[d], valid |-> ~IsReset(peer[fds[d]])] :
          d \in {e \in registered : Readable(fds[e])}}

\* mutant: room for one event only, the lowest descriptor first
ReportedOne == {e \in ReadyEvents : \A f \in ReadyEvents : e.fd <= f.fd}
\* The buffer has room for 10240 events.
Reported == ReadyEvents

\* Where the reactor goes when there is no event at hand, and next.
NextEvent == IF batch' = {} THEN "check" ELSE "dispatch"

\* epoll_wait returns at once: the timeout is 0.
Wait ==
  /\ pc = "wait"
  /\ batch' = Reported
  /\ pc' = NextEvent
  /\ UNCHANGED <<serverVars, peerIndex, buffer, errno>>

-----------------------------------------------------------------------------
\* mutant: the table is filled only when the slot is new
TableKept(d, k) ==
  IF k > Len(m_peerSockets) THEN [m_peerSocketIndexTable EXCEPT ![d] = k]
  ELSE m_peerSocketIndexTable
\* mutant: indices start one too low
TableLow(d, k) == [m_peerSocketIndexTable EXCEPT ![d] = k - 1]
\* onClientConnected: the slot is entered under the descriptor.
TableWith(d, k) == [m_peerSocketIndexTable EXCEPT ![d] = k]

\* mutant: a slot used again is taken to be watched already
WatchedOnce(d, k) ==
  IF k > Len(m_peerSockets) THEN registered \cup {d} ELSE registered
\* addFileDescriptor
Watched(d, k) == registered \cup {d}

\* acceptNewConnection.  accept fails if the process has no descriptor left.
AcceptEvent ==
  /\ pc = "dispatch"
  /\ \E e \in batch : e.fd = Listening /\ batch' = batch \ {e}
  /\ pc' = NextEvent
  /\ IF FreeFds = {}
     THEN errno' = "other" /\ UNCHANGED <<kernelVars, slotVars, epollVars>>
     ELSE /\ Accepted
          /\ AddPeer(LowestFree)
          /\ m_peerSocketIndexTable' = TableWith(LowestFree, SlotFor)
          /\ registered' = Watched(LowestFree, SlotFor)
          /\ UNCHANGED errno
  /\ UNCHANGED <<killed, peerIndex, buffer>>

\* onClientDisconnected of slot k, whose socket has state s.
Disconnect(k, s) ==
  /\ registered' = registered \ {m_peerSockets[k].fd}
  /\ RemovePeer(k, s)
  /\ UNCHANGED m_peerSocketIndexTable

\* EPOLLERR or EPOLLHUP: the client has reset the connection.
InvalidEvent ==
  /\ pc = "dispatch"
  /\ \E e \in batch :
       /\ ~e.valid
       /\ batch' = batch \ {e}
       /\ LET k == m_peerSocketIndexTable[e.fd] IN Disconnect(k, m_peerSockets[k].state)
  /\ pc' = NextEvent
  /\ UNCHANGED <<killed, peerIndex, buffer, errno>>

ClientEvent ==
  /\ pc = "dispatch" /\ pc' = "receive"
  /\ \E e \in batch :
       /\ e.valid /\ e.fd # Listening
       /\ batch' = batch \ {e}
       /\ peerIndex' = m_peerSocketIndexTable[e.fd]
  /\ UNCHANGED <<serverVars, buffer, errno>>

-----------------------------------------------------------------------------
\* handleClient: the connection it works on.
Conn == PeerOf(peerIndex)

\* The locals of an event end with it.
HandlerReturns ==
  /\ peerIndex' = 0 /\ buffer' = <<>>
  /\ UNCHANGED batch
  /\ pc' = NextEvent

Receive ==
  /\ pc = "receive" /\ pc' = "send"
  /\ \E k \in 1 .. Len(inbox[Conn]) :
       buffer' = SubSeq(inbox[Conn], 1, k) /\ Received(Conn, k)
  /\ UNCHANGED <<killed, slotVars, epollVars, batch, peerIndex, errno>>

\* recv returned 0, or an error that sets errno.  errno alone decides whether
\* the connection counts as lost; isConnectionLost then marks the socket
\* DISCONNECTED before onClientDisconnected closes it.
ReceiveNothing ==
  /\ pc = "receive"
  /\ inbox[Conn] = <<>>
  /\ errno' = ErrnoAfter(errno, peer[Conn])
  /\ IF errno' = "lost" THEN Disconnect(peerIndex, "DISCONNECTED")
     ELSE UNCHANGED <<kernelVars, slotVars, epollVars>>
  /\ HandlerReturns
  /\ UNCHANGED killed

\* mutant: every message is taken for a quit
QuitsAlways == TRUE
\* mutant: no message is taken for a quit
QuitsNever == FALSE
\* The buffer is compared as a whole.
Quits == buffer = <<"quit">>

\* Reply, and then look at the buffer.  To a client that has closed the reply
\* goes out too.
Send ==
  /\ pc = "send"
  /\ errno' = ErrnoAfter(errno, peer[Conn])
  /\ killed' = SendKills(peer[Conn])
  /\ PeerBecomes(Conn, AfterSend(peer[Conn]))
  /\ IF Quits
     THEN pc' = "dismiss" /\ buffer' = <<>> /\ UNCHANGED <<batch, peerIndex>>
     ELSE HandlerReturns
  /\ UNCHANGED <<slotVars, epollVars>>

\* Disconnect a client that said quit.
Dismiss ==
  /\ pc = "dismiss"
  /\ Disconnect(peerIndex, m_peerSockets[peerIndex].state)
  /\ HandlerReturns
  /\ UNCHANGED <<killed, errno>>

Reactor ==
  /\ \/ SetName \/ CheckStop \/ Wait \/ AcceptEvent \/ InvalidEvent \/ ClientEvent
     \/ Receive \/ ReceiveNothing \/ Send \/ Dismiss
  /\ UNCHANGED <<mainVars, m_reactorThread>>

-----------------------------------------------------------------------------
\* main has returned or the process has died.
Ended == (killed \/ main = "returned") /\ UNCHANGED vars

Next ==
  \/ /\ ~killed /\ main # "returned"
     /\ \/ Reactor \/ Main \/ Operator
        \/ Network /\ UNCHANGED <<killed, slotVars, epollVars, mainVars,
                                  m_reactorThread, pc, eventVars, errno>>
  \/ Ended

Spec == Init /\ [][Next]_vars

\* main and the reactor thread run whenever they can; clients do as they like.
FairSpec == Spec /\ WF_vars(~killed /\ Reactor) /\ WF_vars(~killed /\ Main)

-----------------------------------------------------------------------------
\* Descriptors and slots are used again, and the table is never cleaned: still
\* the descriptors epoll watches and the slots in use belong together one to
\* one, through the table one way and through the socket objects the other.
TableExact ==
  /\ \A d \in registered :
       /\ m_peerSocketIndexTable[d] \in Used
       /\ m_peerSockets[m_peerSocketIndexTable[d]] = [fd |-> d, state |-> "CONNECTED"]
  /\ \A k \in Used : /\ m_peerSockets[k].fd \in registered
                     /\ m_peerSocketIndexTable[m_peerSockets[k].fd] = k
  /\ \A k \in FreeSlots : m_peerSockets[k].state = "DISCONNECTED"

\* The server never lets go of a client that keeps its end open: whatever
\* errno an earlier call left behind, only a connection that has ended and
\* has nothing more to receive loses its slot with its descriptor left open.
LiveWatched ==
  \A d \in Fds : fds[d] # None /\ d \notin registered =>
    peer[fds[d]] # "open" /\ inbox[fds[d]] = <<>>

\* Handling one event never makes another event of the same epoll_wait stale:
\* its descriptor still belongs to the connection it was reported for.
BatchFresh ==
  /\ \A e \in batch : e.fd # Listening => e.fd \in registered /\ fds[e.fd] = e.conn
  /\ (\E e \in batch : e.fd = Listening) => backlog # <<>>
  /\ pc \in {"receive", "send", "dismiss"} => peerIndex \in Used

\* What a watched client has sent is received, unless it is disconnected, the
\* server is told to stop, or the process dies.
Answered ==
  \A d \in Fds :
    (d \in registered /\ inbox[fds[d]] # <<>>)
      ~> \/ d \notin registered \/ inbox[fds[d]] = <<>> \/ m_isStopping \/ killed

\* stop() returns, also when start has failed: neither a silent client nor a
\* busy one keeps the reactor from seeing the flag.
Stops == m_isStopping ~> main = "returned" \/ killed

=============================================================================
