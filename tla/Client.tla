-------------------------------- MODULE Client --------------------------------
(***************************************************************************)
(* client_automation: one thread per client connects, sends its messages   *)
(* one by one, waits for the reply to each and says quit.  A thread that   *)
(* finds its connection lost reconnects and sends its message again.       *)
(*                                                                         *)
(* The server may be down, stop or crash, and come back: while it is down  *)
(* connections are refused, and those it had end with a FIN, or with a     *)
(* reset if it left data unread.                                           *)
(***************************************************************************)
EXTENDS Tcp, Naturals, Sequences, FiniteSets

CONSTANTS
  Threads,            \* as many as numberOfClients
  messageIteration,
  FdLimit,            \* descriptors the process has left for sockets
  MaxCrashes,         \* bound on the server's crashes
  Free                \* the mutex has no owner

ASSUME ThreadsAssumption == IsFiniteSet(Threads)
ASSUME IterationAssumption == messageIteration \in Nat
ASSUME FdAssumption == FdLimit \in Nat
ASSUME CrashesAssumption == MaxCrashes \in Nat
ASSUME FreeAssumption == Free \notin Threads

VARIABLES
  pc, n,              \* next step and loop counter of a thread
  message,            \* number of its last message
  atEof,              \* its last receive returned 0
  skipped,            \* history: it has not awaited the reply to a resend on
                      \* this connection
  m_state, errno,     \* of its socket and of the thread
  messageCounter, messageCounterMutex,
  numberDisconnections,
  openFds,            \* sockets the process has open
  refused,            \* connects that failed for want of a server
  killed,             \* the process has died of a signal
  privileged,         \* it runs with CAP_NET_ADMIN
  up, crashes,        \* the server listens; its crashes so far
  end,                \* end[t]: the server's end of the connection of t
  inbox, replies      \* messages the server, replies t has not received

threadVars == <<pc, n, atEof, skipped, m_state, errno>>
counterVars == <<message, messageCounter, messageCounterMutex>>
losses == <<numberDisconnections, refused>>
process == <<killed, privileged>>
processVars == <<openFds, losses, process>>
serverVars == <<up, crashes>>
channelVars == <<end, inbox, replies>>
vars == <<threadVars, counterVars, processVars, serverVars, channelVars>>

TypeOK ==
  /\ pc \in [Threads -> {"connect", "lock", "send", "receive", "reconnect",
                         "resend", "quit", "close", "done"}]
  /\ n \in [Threads -> 0 .. messageIteration]
  /\ message \in [Threads -> Nat]
  /\ atEof \in [Threads -> BOOLEAN] /\ skipped \in [Threads -> BOOLEAN]
  /\ m_state \in [Threads -> States]
  /\ errno \in [Threads -> Errnos]
  /\ messageCounter \in Nat
  /\ messageCounterMutex \in Threads \cup {Free}
  /\ numberDisconnections \in Nat /\ refused \in Nat
  /\ openFds \in 0 .. FdLimit
  /\ killed \in BOOLEAN /\ privileged \in BOOLEAN /\ up \in BOOLEAN
  /\ crashes \in 0 .. MaxCrashes
  /\ end \in [Threads -> Ends]
  /\ inbox \in [Threads -> Seq(Messages)]
  /\ replies \in [Threads -> Nat]

\* The server may be started before the client or after it.
Init ==
  /\ pc = [t \in Threads |-> "connect"]
  /\ n = [t \in Threads |-> 0]
  /\ message = [t \in Threads |-> 0]
  /\ atEof = [t \in Threads |-> FALSE] /\ skipped = [t \in Threads |-> FALSE]
  /\ m_state = [t \in Threads |-> "DISCONNECTED"]
  /\ errno = [t \in Threads |-> "other"]
  /\ messageCounter = 0 /\ messageCounterMutex = Free
  /\ numberDisconnections = 0 /\ openFds = 0 /\ refused = 0
  /\ killed = FALSE /\ privileged \in BOOLEAN
  /\ up \in BOOLEAN /\ crashes = 0
  /\ end = [t \in Threads |-> "none"]
  /\ inbox = [t \in Threads |-> <<>>]
  /\ replies = [t \in Threads |-> 0]

-----------------------------------------------------------------------------
Goto(t, label) == pc' = [pc EXCEPT ![t] = label]

\* mutant: the loop runs once too often
LoopOneMore(k) == IF k <= messageIteration THEN "lock" ELSE "quit"
\* The label of a thread with k messages behind it.
Loop(k) == IF k < messageIteration THEN "lock" ELSE "quit"

\* The while loop around receive is over.
NextMessage(t) ==
  /\ n' = [n EXCEPT ![t] = @ + 1]
  /\ Goto(t, Loop(n[t] + 1))

-----------------------------------------------------------------------------
\* Socket::create gets a descriptor.  The one before it is forgotten.
Created == openFds < FdLimit

\* Socket::connect reaches the server.
Reached == Created /\ up

\* create sets TCP_NODELAY at level SOL_SOCKET, where its number means
\* SO_DEBUG: that fails in a process without CAP_NET_ADMIN.
ErrnoAfterOption(t) == IF privileged THEN errno[t] ELSE "other"

\* mutant: a thread that has reconnected does not send again
AfterConnectSilent(t) == IF pc[t] = "connect" THEN Loop(0) ELSE "receive"
AfterConnect(t) == IF pc[t] = "connect" THEN Loop(0) ELSE "resend"

\* TCPConnector::connect returns a connection.
Connected(t) ==
  /\ pc[t] \in {"connect", "reconnect"}
  /\ Reached
  /\ openFds' = openFds + 1
  /\ m_state' = [m_state EXCEPT ![t] = "CONNECTED"]
  /\ errno' = [errno EXCEPT ![t] = ErrnoAfterOption(t)]
  /\ skipped' = [skipped EXCEPT ![t] = FALSE]
  /\ end' = [end EXCEPT ![t] = "open"]
  /\ inbox' = [inbox EXCEPT ![t] = <<>>]
  /\ replies' = [replies EXCEPT ![t] = 0]
  /\ Goto(t, AfterConnect(t))
  /\ UNCHANGED <<n, atEof, counterVars, losses, process, serverVars>>

\* It does not, and is called again, without end.
Refused(t) ==
  /\ pc[t] \in {"connect", "reconnect"}
  /\ ~Reached
  /\ errno' = [errno EXCEPT ![t] = "other"]
  /\ IF Created
     THEN openFds' = openFds + 1 /\ refused' = refused + 1
     ELSE UNCHANGED <<openFds, refused>>
  /\ UNCHANGED <<pc, n, atEof, skipped, m_state, counterVars, numberDisconnections,
                 process, serverVars, channelVars>>

\* TCPConnection::send of m; its result is ignored.
Sends(t, m) ==
  /\ killed' = SendKills(end[t])
  /\ errno' = [errno EXCEPT ![t] = ErrnoAfter(@, end[t])]
  /\ end' = [end EXCEPT ![t] = AfterSend(@)]
  /\ inbox' = [inbox EXCEPT ![t] = IF end[t] = "open" THEN Append(@, m) ELSE @]
  /\ UNCHANGED <<atEof, m_state, openFds, losses, privileged, serverVars, replies>>

\* mutant: nobody waits for the mutex
MutexFreeIgnored == TRUE
MutexFree == messageCounterMutex = Free

Lock(t) ==
  /\ pc[t] = "lock" /\ MutexFree
  /\ messageCounterMutex' = t
  /\ messageCounter' = messageCounter + 1
  /\ Goto(t, "send")
  /\ UNCHANGED <<n, message, atEof, skipped, m_state, errno, processVars, serverVars,
                 channelVars>>

\* mutant: the reply to the last message is not awaited
AwaitedButLast(t) == IF n[t] + 1 < messageIteration THEN "receive" ELSE "quit"
Awaited(t) == "receive"

\* The message is put together and sent with the mutex held.
Send(t) ==
  /\ pc[t] = "send"
  /\ message' = [message EXCEPT ![t] = messageCounter]
  /\ Sends(t, "message")
  /\ messageCounterMutex' = Free
  /\ Goto(t, Awaited(t))
  /\ UNCHANGED <<n, skipped, messageCounter>>

-----------------------------------------------------------------------------
\* Replies are not told apart; one receive may take several.
Receive(t) ==
  /\ pc[t] = "receive"
  /\ \E k \in 1 .. replies[t] : replies' = [replies EXCEPT ![t] = @ - k]
  /\ atEof' = [atEof EXCEPT ![t] = FALSE]
  /\ NextMessage(t)
  /\ UNCHANGED <<skipped, m_state, errno, counterVars, processVars, serverVars,
                 end, inbox>>

\* mutant: errno is looked at only when receive returned 0
IsLostAtEof(t) == errno'[t] = "lost" /\ atEof'[t]
\* isConnectionLost looks at errno alone, fresh or stale.
IsLost(t) == errno'[t] = "lost"

\* mutant: close looks at the descriptor only
FdsClosedAlways(state) == openFds - 1
\* Socket::close of a socket in a state.
FdsClosed(state) == IF state = "CONNECTED" THEN openFds - 1 ELSE openFds

\* receive returned 0, or an error.  When the connection is lost,
\* isConnectionLost has marked the socket DISCONNECTED: close and the
\* destructor of the old connector then pass over its descriptor.  When not,
\* the loop ends on 0.
ReceiveNothing(t) ==
  /\ pc[t] = "receive"
  /\ replies[t] = 0 /\ end[t] # "open"
  /\ errno' = [errno EXCEPT ![t] = ErrnoAfter(@, end[t])]
  /\ end' = [end EXCEPT ![t] = AfterReceive(@)]
  /\ atEof' = [atEof EXCEPT ![t] = end[t] # "rst"]
  /\ IF IsLost(t)
     THEN /\ m_state' = [m_state EXCEPT ![t] = "DISCONNECTED"]
          /\ openFds' = FdsClosed(m_state'[t])
          /\ numberDisconnections' = numberDisconnections + 1
          /\ Goto(t, "reconnect")
          /\ UNCHANGED n
     ELSE NextMessage(t) /\ UNCHANGED <<m_state, openFds, numberDisconnections>>
  /\ UNCHANGED <<skipped, counterVars, refused, process, serverVars, inbox, replies>>

\* The same message again.  The reply to it is awaited only if the receive
\* before did not return 0.
Resend(t) ==
  /\ pc[t] = "resend"
  /\ Sends(t, "message")
  /\ skipped' = [skipped EXCEPT ![t] = atEof[t]]
  /\ IF atEof[t] THEN NextMessage(t) ELSE Goto(t, "receive") /\ UNCHANGED n
  /\ UNCHANGED counterVars

Quit(t) ==
  /\ pc[t] = "quit"
  /\ Sends(t, "quit")
  /\ Goto(t, "close")
  /\ UNCHANGED <<n, skipped, counterVars>>

\* The destructor of the connector closes the socket.
Close(t) ==
  /\ pc[t] = "close"
  /\ openFds' = FdsClosed(m_state[t])
  /\ m_state' = [m_state EXCEPT ![t] = "DISCONNECTED"]
  /\ end' = [end EXCEPT ![t] = "gone"]
  /\ replies' = [replies EXCEPT ![t] = 0]
  /\ Goto(t, "done")
  /\ UNCHANGED <<n, atEof, skipped, errno, counterVars, losses, process, serverVars, inbox>>

Thread(t) ==
  \/ Connected(t) \/ Refused(t) \/ Lock(t) \/ Send(t) \/ Receive(t)
  \/ ReceiveNothing(t) \/ Resend(t) \/ Quit(t) \/ Close(t)

-----------------------------------------------------------------------------
\* The server takes what has arrived, one message or several, and replies
\* once; a quit that arrives alone makes it close the connection.
Serve(t) ==
  /\ end[t] = "open"
  /\ \E k \in 1 .. Len(inbox[t]) :
       /\ inbox' = [inbox EXCEPT ![t] = SubSeq(@, k + 1, Len(@))]
       /\ end' = [end EXCEPT ![t] =
                    IF SubSeq(inbox[t], 1, k) = <<"quit">> THEN "fin" ELSE @]
  /\ replies' = [replies EXCEPT ![t] = @ + 1]
  /\ UNCHANGED <<threadVars, counterVars, processVars, serverVars>>

\* It answers data for a connection it has closed with a reset.
Reject(t) ==
  /\ end[t] = "fin_sent"
  /\ end' = [end EXCEPT ![t] = "fin_rst"]
  /\ UNCHANGED <<threadVars, counterVars, processVars, serverVars, inbox, replies>>

\* It ends.  Unread data, or a connection not accepted yet, means a reset.
Crash ==
  /\ up /\ crashes < MaxCrashes
  /\ up' = FALSE /\ crashes' = crashes + 1
  /\ \E close \in [Threads -> {"fin", "rst"}] :
       end' = [t \in Threads |->
                 IF end[t] # "open" THEN end[t]
                 ELSE IF inbox[t] = <<>> THEN close[t] ELSE "rst"]
  /\ inbox' = [t \in Threads |-> <<>>]
  /\ UNCHANGED <<threadVars, counterVars, processVars, replies>>

Restart ==
  /\ ~up /\ up' = TRUE
  /\ UNCHANGED <<threadVars, counterVars, processVars, crashes, channelVars>>

Done == \A t \in Threads : pc[t] = "done"

\* main has joined the threads, or the process has died.
Ended == (killed \/ Done) /\ UNCHANGED vars

Next ==
  \/ /\ ~killed
     /\ \/ \E t \in Threads : Thread(t) \/ Serve(t) \/ Reject(t)
        \/ Crash \/ Restart
  \/ Ended

Spec == Init /\ [][Next]_vars

\* Every thread runs whenever it can; each takes the mutex a bounded number
\* of times.  The server answers while it is up, and is started again.
FairSpec ==
  /\ Spec
  /\ \A t \in Threads : /\ WF_vars(~killed /\ Thread(t))
                        /\ WF_vars(~killed /\ Serve(t))
                        /\ WF_vars(~killed /\ Reject(t))
  /\ WF_vars(~killed /\ Restart)

-----------------------------------------------------------------------------
\* Every message has a number of its own: the counter is a plain int, and the
\* mutex is held from its increment until it has been written into the message.
MessagesDistinct ==
  \A t, u \in Threads : t # u /\ message[t] # 0 => message[t] # message[u]

\* A thread that waits for a reply on a connection still open has exactly one
\* message under way, at the server or as a reply on the way: it never waits
\* in vain.  If it has skipped a reply on this connection, there may be two.
InStep ==
  \A t \in Threads : pc[t] = "receive" /\ end[t] = "open" =>
    Len(inbox[t]) + replies[t] \in 1 .. IF skipped[t] THEN 2 ELSE 1

\* On a connection on which no reply has been skipped a reset does not lead to
\* SIGPIPE: whichever call reports it first, send or recv, errno still tells
\* when the thread looks at it, and the thread has left the connection before
\* it sends again.  A thread that has skipped a reply passes over the reset:
\* it is the resend that met it, or a later send, for whose answer the thread
\* then takes the old reply.
SurvivesReset ==
  \A t \in Threads : end[t] = "rst_seen" =>
    /\ pc[t] # "resend"
    /\ pc[t] = "receive" => errno[t] = "lost"
    /\ pc[t] \in {"lock", "send", "quit"} => skipped[t]

Connections == {t \in Threads : m_state[t] = "CONNECTED"}

\* Where the descriptors are: one with every connection, one lost for good
\* with every refused connect and with every disconnection that is counted.
DescriptorsAccounted ==
  openFds = Cardinality(Connections) + refused + numberDisconnections

\* Every thread ends, in spite of refusals, crashes and resets, if the server
\* comes back: unless a SIGPIPE kills the process, or the retries have used up
\* the descriptors.
Finishes == <>(killed \/ Done) \/ <>[](openFds = FdLimit)

=============================================================================
