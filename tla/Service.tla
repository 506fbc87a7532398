------------------------------- MODULE Service -------------------------------
(***************************************************************************)
(* client_automation against the epoll server, on one machine that loses   *)
(* nothing: the threads of Client at one end of the connections, the       *)
(* reactor at the other.  The server has been started and goes on; each    *)
(* thread has the connection it needs and no other.  The clients' actions  *)
(* of Sockets, which do anything a TCP client can do, play no part here.   *)
(***************************************************************************)
EXTENDS ReactorServer

CONSTANT messageIteration

VARIABLES
  cpc, n, message, atEof, skipped, m_state, cerrno, messageCounter, messageCounterMutex,
  numberDisconnections, openFds, refused, ckilled, privileged, crashes,
  end,            \* end[c]: the server's end of connection c
  replies         \* replies[c]: those client c has not received

reactorVars == <<serverVars, m_reactorThread, pc, eventVars, errno>>
clientVars == <<cpc, n, message, atEof, skipped, m_state, cerrno, messageCounter,
                messageCounterMutex, numberDisconnections, openFds, refused, ckilled, privileged, crashes>>
serviceVars == <<reactorVars, mainVars, clientVars, end, replies>>

Program == INSTANCE Client WITH
  Threads <- Clients, FdLimit <- Cardinality(Clients), MaxCrashes <- 0, Free <- None,
  pc <- cpc, errno <- cerrno, killed <- ckilled, up <- listening

\* The server has been started, and no client has come yet.
ServiceInit ==
  /\ listening = TRUE /\ backlog = <<>>
  /\ peer = [c \in Clients |-> "none"]
  /\ fds = [d \in Fds |-> None] /\ sends = [c \in Clients |-> 0]
  /\ main = "serve" /\ killed = FALSE /\ m_isStopping = FALSE
  /\ m_peerSockets = <<>> /\ m_peerSocketsConnectionFlags = <<>>
  /\ m_peerSocketIndexTable = [d \in Fds |-> 1] /\ registered = {}
  /\ m_reactorThread = TRUE
  /\ pc = "check" /\ batch = {} /\ peerIndex = 0 /\ buffer = <<>> /\ errno = "other"
  /\ Program!Init

-----------------------------------------------------------------------------
\* A thread of the client.  Its connect enters the backlog, its sends what
\* the server can receive.  It closes without reading the reply to its
\* quit: if that has come by then, the server gets a reset, and if it comes
\* later the client's kernel answers it with one.  When the server has closed
\* its own end, nobody is left to notice.
Connects(c) == Program!Connected(c) /\ Connect(c)

Closes(c) ==
  /\ Program!Close(c)
  /\ PeerBecomes(c, IF peer[c] # "open" THEN peer[c]
                    ELSE IF replies[c] > 0 THEN "rst" ELSE "fin")

Rejects(c) ==
  /\ peer[c] = "fin_sent"
  /\ PeerBecomes(c, "fin_rst")
  /\ UNCHANGED <<clientVars, end, replies, killed, slotVars, epollVars, mainVars,
                 m_reactorThread, pc, eventVars, errno>>

ClientStep(c) ==
  /\ \/ Connects(c) \/ Closes(c)
     \/ /\ \/ Program!Refused(c) \/ Program!Lock(c) \/ Program!Send(c)
           \/ Program!Receive(c) \/ Program!ReceiveNothing(c) \/ Program!Resend(c)
           \/ Program!Quit(c)
        /\ UNCHANGED <<listening, backlog, peer, fds, sends>>
  /\ UNCHANGED <<killed, slotVars, epollVars, mainVars, m_reactorThread, pc,
                 eventVars, errno>>

\* The reactor: its reply reaches a client that is there, and its close the
\* other end, as a reset if it has left a message unread.
ServerStep ==
  /\ Reactor
  /\ replies' = [c \in Clients |->
       IF pc = "send" /\ c = Conn /\ cpc[c] # "done" THEN replies[c] + 1 ELSE replies[c]]
  /\ end' = [c \in Clients |->
       IF end[c] # "open" \/ peer'[c] # "gone" THEN end[c]
       ELSE IF inbox[c] = <<>> THEN "fin" ELSE "rst"]
  /\ UNCHANGED clientVars

ServiceNext ==
  /\ ~killed /\ ~ckilled
  /\ ServerStep \/ \E c \in Clients : ClientStep(c) \/ Rejects(c)

\* Both programs run whenever they can.
ServiceFairness ==
  /\ WF_serviceVars(~killed /\ ~ckilled /\ ServerStep)
  /\ \A c \in Clients : WF_serviceVars(~killed /\ ~ckilled /\ ClientStep(c))

ServiceSpec == ServiceInit /\ [][ServiceNext]_serviceVars /\ ServiceFairness

-----------------------------------------------------------------------------
\* The connection the reactor is at work on, and what it has received.
InHand(c) == IF peerIndex # 0 /\ Conn = c THEN Len(buffer) ELSE 0

\* A thread that waits has exactly one message under way: at the server, in
\* the reactor's buffer, or as a reply.  One that does not wait has none; so
\* quit arrives alone, which is the only way the server knows it.
Lockstep ==
  \A c \in Clients :
    LET underWay == Len(inbox[c]) + InHand(c) + replies[c]
    IN CASE cpc[c] = "receive" -> underWay = 1
         [] cpc[c] \in {"lock", "send", "quit"} -> underWay = 0
         [] OTHER -> TRUE

\* The client closes with the reply to its quit unread, or the server replies
\* to a client that has closed: a reset ends every conversation.  It always
\* comes too late to disturb anyone, when the server has sent its last reply
\* and is about to close, or has closed.  No call reports it, so there is no
\* SIGPIPE, no reconnect and no descriptor lost on either side, although the
\* server's slots and descriptors are used again.
Undisturbed ==
  /\ \A c \in Clients :
       /\ peer[c] \in {"none", "open", "fin", "gone"} \/ (pc = "dismiss" /\ Conn = c)
       /\ end[c] \in {"none", "open", "fin", "gone"}
       /\ end[c] = "fin" => cpc[c] = "close"
  /\ ~killed /\ ~ckilled /\ numberDisconnections = 0
  /\ \A d \in Fds : fds[d] # None => \E k \in Used : m_peerSockets[k].fd = d

\* With fewer descriptors than clients, each client has its turn in the end,
\* and the server gets back every descriptor and every slot.
AllServed ==
  <>[](/\ \A c \in Clients : cpc[c] = "done"
       /\ FreeFds = Fds /\ Used = {} /\ registered = {})

=============================================================================
