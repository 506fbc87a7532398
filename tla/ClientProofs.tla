----------------------------- MODULE ClientProofs -----------------------------
(***************************************************************************)
(* Proofs about Client, for any number of threads, messages, descriptors   *)
(* and crashes of the server.                                              *)
(***************************************************************************)
EXTENDS Client, FiniteSetTheorems, TLAPS

Labels == {"connect", "lock", "send", "receive", "reconnect", "resend", "quit",
           "close", "done"}

\* The loop starts at 0, and within it there is a message left to send.
LoopInv ==
  \A t \in Threads :
    /\ pc[t] = "connect" => n[t] = 0
    /\ pc[t] \in {"lock", "send", "receive", "reconnect", "resend"} => n[t] < messageIteration

\* The socket object is connected wherever the code uses it.
SocketInv ==
  \A t \in Threads :
    m_state[t] = "CONNECTED" <=> pc[t] \notin {"connect", "reconnect", "done"}

\* The owner of the mutex is the thread between Lock and Send.
MutexInv == \A t \in Threads : pc[t] = "send" <=> messageCounterMutex = t

\* The number a thread is about to send is new.
NumbersInv ==
  /\ \A t \in Threads : message[t] <= messageCounter
  /\ \A t, u \in Threads : pc[t] = "send" => message[u] < messageCounter

\* Messages at the server and replies on the way.
Out(t) == Len(inbox[t]) + replies[t]

\* How many of them there can be at each step of a thread: only one that has
\* skipped a reply on this connection gets ahead of its replies, by that one.
OutInv ==
  \A t \in Threads :
    /\ pc[t] \in {"lock", "send", "quit"} =>
         /\ ~skipped[t] => replies[t] = 0
         /\ end[t] = "open" => Out(t) <= 1 /\ (~skipped[t] => Out(t) = 0)
    /\ pc[t] = "resend" => replies[t] = 0 /\ (end[t] = "open" => Out(t) = 0)
    /\ pc[t] = "receive" =>
         /\ ~skipped[t] => replies[t] <= 1
         /\ end[t] = "open" => Out(t) \in 1 .. 2 /\ (~skipped[t] => Out(t) = 1)
         /\ end[t] = "rst_seen" /\ ~skipped[t] => replies[t] = 0

\* A thread that has been told of a reset still has the errno of it.
ResetInv ==
  \A t \in Threads : end[t] = "rst_seen" =>
    /\ pc[t] # "resend"
    /\ pc[t] \in {"lock", "send", "receive", "quit"} => errno[t] = "lost"
    /\ pc[t] \in {"lock", "send", "quit"} => skipped[t]

Inv ==
  /\ TypeOK /\ LoopInv /\ SocketInv /\ DescriptorsAccounted
  /\ MutexInv /\ NumbersInv /\ MessagesDistinct
  /\ OutInv /\ ResetInv

-----------------------------------------------------------------------------
USE ThreadsAssumption, IterationAssumption, FdAssumption, CrashesAssumption, FreeAssumption

\* One thread's socket changes its state: the number of connections follows.
LEMMA ConnectionsCount ==
  ASSUME m_state \in [Threads -> States], NEW t \in Threads, NEW s \in States,
         m_state' = [m_state EXCEPT ![t] = s]
  PROVE  /\ Cardinality(Connections) \in Nat
         /\ m_state[t] = "CONNECTED" => Cardinality(Connections) >= 1
         /\ Cardinality(Connections') =
              IF s = m_state[t] THEN Cardinality(Connections)
              ELSE IF s = "CONNECTED" THEN Cardinality(Connections) + 1
              ELSE Cardinality(Connections) - 1
  <1>1. IsFiniteSet(Connections)
    BY FS_Subset DEF Connections
  <1>2. Cardinality(Connections) \in Nat
    BY <1>1, FS_CardinalityType
  <1>3. ASSUME m_state[t] = "CONNECTED"
        PROVE  /\ t \in Connections
               /\ Cardinality(Connections \ {t}) = Cardinality(Connections) - 1
               /\ Cardinality(Connections \ {t}) \in Nat
    <2>1. t \in Connections
      BY <1>3 DEF Connections
    <2> QED BY <1>1, <2>1, FS_RemoveElement, FS_CardinalityType
  <1>4. CASE s = m_state[t]
    <2>1. Connections' = Connections
      BY <1>4 DEF Connections
    <2> QED BY <1>2, <1>3, <1>4, <2>1
  <1>5. CASE s # m_state[t] /\ s = "CONNECTED"
    <2>1. Connections' = Connections \cup {t} /\ t \notin Connections
      BY <1>5 DEF Connections
    <2> QED BY <1>1, <1>2, <1>5, <2>1, FS_AddElement
  <1>6. CASE s # m_state[t] /\ s # "CONNECTED"
    <2>1. Connections' = Connections \ {t} /\ m_state[t] = "CONNECTED"
      BY <1>6 DEF Connections, States
    <2> QED BY <1>2, <1>3, <1>6, <2>1
  <1> QED BY <1>4, <1>5, <1>6

\* A client that has not connected yet, and a server up or down.
LEMMA InitInv == Init => Inv
  <1> SUFFICES ASSUME Init
               PROVE  Inv
    OBVIOUS
  <1>1. TypeOK
    <2>1. [t \in Threads |-> <<>>] \in [Threads -> Seq(Messages)]
      OBVIOUS
    <2>2. atEof \in [Threads -> BOOLEAN] /\ skipped \in [Threads -> BOOLEAN] /\ killed \in BOOLEAN
      BY Zenon DEF Init
    <2> QED BY <2>1, <2>2 DEF Init, TypeOK, States, Errnos, Ends
  <1>2. LoopInv /\ SocketInv /\ MutexInv
    BY DEF Init, LoopInv, SocketInv, MutexInv
  <1>3. DescriptorsAccounted
    <2>1. Connections = {}
      BY DEF Init, Connections
    <2> QED BY <2>1, FS_EmptySet DEF Init, DescriptorsAccounted
  <1>4. NumbersInv /\ MessagesDistinct
    BY DEF Init, NumbersInv, MessagesDistinct
  <1>5. OutInv /\ ResetInv
    BY DEF Init, OutInv, ResetInv
  <1> QED BY <1>1, <1>2, <1>3, <1>4, <1>5 DEF Inv

-----------------------------------------------------------------------------
\* What a call on the connection leaves behind is in range.
LEMMA TcpTypes ==
  ASSUME NEW e \in Ends, NEW x \in Errnos
  PROVE  /\ AfterSend(e) \in Ends /\ AfterReceive(e) \in Ends
         /\ ErrnoAfter(x, e) \in Errnos /\ SendKills(e) \in BOOLEAN
  BY DEF Ends, Errnos, AfterSend, AfterReceive, ErrnoAfter, SendKills

\* The types after a send.
LEMMA SendsTypes ==
  ASSUME TypeOK, NEW t \in Threads, NEW m \in Messages, Sends(t, m)
  PROVE  /\ killed' \in BOOLEAN /\ privileged' \in BOOLEAN /\ up' \in BOOLEAN
         /\ errno' \in [Threads -> Errnos]
         /\ end' \in [Threads -> Ends]
         /\ inbox' \in [Threads -> Seq(Messages)]
  <1>1. end[t] \in Ends /\ errno[t] \in Errnos /\ inbox[t] \in Seq(Messages)
    BY DEF TypeOK
  <1>2. killed' \in BOOLEAN /\ privileged' \in BOOLEAN /\ up' \in BOOLEAN
    BY <1>1, TcpTypes, Zenon DEF Sends, TypeOK, serverVars
  <1>3. errno' \in [Threads -> Errnos] /\ end' \in [Threads -> Ends]
    BY <1>1, TcpTypes DEF Sends, TypeOK
  <1>4. Append(inbox[t], m) \in Seq(Messages)
    BY <1>1
  <1>5. inbox' \in [Threads -> Seq(Messages)]
    BY <1>1, <1>4 DEF Sends, TypeOK
  <1> QED BY <1>2, <1>3, <1>5

\* The next message, or the end of the loop.
LEMMA NextMessageTypes ==
  ASSUME TypeOK, LoopInv, NEW t \in Threads, pc[t] \in {"receive", "resend"},
         NextMessage(t)
  PROVE  pc' \in [Threads -> Labels] /\ n' \in [Threads -> 0 .. messageIteration]
  <1>1. n[t] \in 0 .. messageIteration /\ n[t] < messageIteration
    BY DEF TypeOK, LoopInv
  <1>2. n[t] + 1 \in 0 .. messageIteration /\ Loop(n[t] + 1) \in Labels
    BY <1>1 DEF Loop, Labels
  <1> QED BY <1>2 DEF NextMessage, Goto, TypeOK, Labels

\* A step of a thread keeps the types, the place in the loop, the state of the
\* sockets and the account of the descriptors.
LEMMA ThreadTypes ==
  ASSUME Inv, NEW t \in Threads, Thread(t)
  PROVE  TypeOK' /\ LoopInv' /\ SocketInv' /\ DescriptorsAccounted'
  <1> USE DEF Inv
  <1> USE DEF counterVars, losses, process, serverVars, channelVars, processVars, Goto
  <1>0. /\ n[t] \in 0 .. messageIteration /\ m_state[t] \in States
        /\ end[t] \in Ends /\ errno[t] \in Errnos /\ inbox[t] \in Seq(Messages)
        /\ replies[t] \in Nat
    BY DEF TypeOK
  <1>1. ASSUME UNCHANGED <<m_state, openFds, refused, numberDisconnections>>
        PROVE  DescriptorsAccounted'
    BY <1>1 DEF DescriptorsAccounted, Connections
  <1>2. CASE Connected(t)
    <2> USE <1>2 DEF Connected
    <2>1. m_state[t] # "CONNECTED" /\ openFds < FdLimit /\ AfterConnect(t) \in {"lock", "quit", "resend"}
      BY DEF SocketInv, Reached, Created, AfterConnect, Loop
    <2>2. DescriptorsAccounted'
      <3>1. Cardinality(Connections') = Cardinality(Connections) + 1
            /\ Cardinality(Connections) \in Nat
        BY <2>1, ConnectionsCount DEF TypeOK, States
      <3> QED BY <3>1 DEF DescriptorsAccounted, TypeOK
    <2>3. LoopInv' /\ SocketInv'
      <3>1. LoopInv'
        BY <2>1 DEF LoopInv, TypeOK, AfterConnect, Loop
      <3>2. SocketInv'
        BY <2>1 DEF SocketInv, TypeOK
      <3> QED BY <3>1, <3>2
    <2>4. TypeOK'
      BY <2>1 DEF TypeOK, States, Errnos, Ends, ErrnoAfterOption
    <2> QED BY <2>2, <2>3, <2>4
  <1>3. CASE Refused(t)
    <2> USE <1>3 DEF Refused
    <2>1. DescriptorsAccounted'
      <3>1. Connections' = Connections /\ Cardinality(Connections) \in Nat
        BY FS_Subset, FS_CardinalityType DEF Connections
      <3> QED BY <3>1 DEF DescriptorsAccounted, TypeOK
    <2>2. LoopInv' /\ SocketInv'
      BY DEF LoopInv, SocketInv
    <2>3. openFds' \in 0 .. FdLimit /\ refused' \in Nat
      BY DEF TypeOK, Created
    <2>4. TypeOK'
      BY <2>3 DEF TypeOK, Errnos
    <2> QED BY <2>1, <2>2, <2>4
  <1>4. CASE Lock(t)
    <2> USE <1>4 DEF Lock
    <2>1. LoopInv' /\ SocketInv'
      BY DEF LoopInv, SocketInv, TypeOK
    <2>2. TypeOK'
      BY DEF TypeOK
    <2> QED BY <1>1, <2>1, <2>2
  <1>5. CASE Send(t)
    <2> USE <1>5 DEF Send, Awaited
    <2>1. LoopInv' /\ SocketInv'
      BY DEF LoopInv, SocketInv, TypeOK, Sends
    <2>2. TypeOK'
      BY SendsTypes DEF TypeOK, Sends, Messages
    <2> QED BY <1>1, <2>1, <2>2 DEF Sends
  <1>6. CASE Receive(t)
    <2> USE <1>6 DEF Receive, NextMessage, Loop
    <2>1. LoopInv' /\ SocketInv'
      <3>1. LoopInv'
        BY <1>0 DEF LoopInv, TypeOK
      <3>2. SocketInv'
        BY <1>0 DEF SocketInv, TypeOK
      <3> QED BY <3>1, <3>2
    <2>2. replies' \in [Threads -> Nat]
      BY <1>0 DEF TypeOK
    <2>3. TypeOK'
      BY <1>0, <2>2 DEF TypeOK, LoopInv
    <2> QED BY <1>1, <2>1, <2>3
  <1>7. CASE ReceiveNothing(t)
    <2> USE <1>7 DEF ReceiveNothing, NextMessage, Loop
    <2>1. LoopInv' /\ SocketInv'
      <3>1. LoopInv'
        BY <1>0 DEF LoopInv, TypeOK
      <3>2. SocketInv'
        BY <1>0 DEF SocketInv, TypeOK
      <3> QED BY <3>1, <3>2
    <2>2. DescriptorsAccounted'
      <3>1. CASE IsLost(t)
        <4>1. m_state[t] = "CONNECTED"
          BY DEF SocketInv
        <4>2. Cardinality(Connections') = Cardinality(Connections) - 1
              /\ Cardinality(Connections) \in Nat
          BY <3>1, <4>1, ConnectionsCount DEF TypeOK, States
        <4>3. openFds' = openFds
          BY <3>1, <1>0 DEF FdsClosed, TypeOK
        <4>4. numberDisconnections' = numberDisconnections + 1 /\ refused' = refused
          BY <3>1
        <4>5. /\ openFds \in Nat /\ refused \in Nat /\ numberDisconnections \in Nat
              /\ openFds = Cardinality(Connections) + refused + numberDisconnections
          BY DEF TypeOK, DescriptorsAccounted
        <4> HIDE <1>7
        <4> QED BY <4>2, <4>3, <4>4, <4>5 DEF DescriptorsAccounted
      <3> QED BY <1>1, <3>1
    <2>3. /\ atEof' \in [Threads -> BOOLEAN]
          /\ errno' \in [Threads -> Errnos] /\ end' \in [Threads -> Ends]
      BY <1>0, TcpTypes DEF TypeOK
    <2>4. pc' \in [Threads -> Labels] /\ n' \in [Threads -> 0 .. messageIteration]
      <3>1. CASE IsLost(t)
        BY <3>1 DEF TypeOK, Labels
      <3>2. CASE ~IsLost(t)
        <4>1. NextMessage(t)
          BY <3>2
        <4> QED BY <4>1, NextMessageTypes
      <3> QED BY <3>1, <3>2
    <2>5. /\ m_state' \in [Threads -> States] /\ openFds' \in 0 .. FdLimit
          /\ numberDisconnections' \in Nat
      <3>1. CASE IsLost(t)
        <4>1. openFds' = openFds
          BY <3>1 DEF FdsClosed, TypeOK
        <4>2. /\ m_state' = [m_state EXCEPT ![t] = "DISCONNECTED"]
              /\ numberDisconnections' = numberDisconnections + 1
          BY <3>1
        <4> HIDE <1>7
        <4> QED BY <4>1, <4>2 DEF TypeOK, States
      <3>2. CASE ~IsLost(t)
        BY <3>2 DEF TypeOK
      <3> QED BY <3>1, <3>2
    <2>6. TypeOK'
      BY <2>3, <2>4, <2>5 DEF TypeOK, Labels
    <2> QED BY <2>1, <2>2, <2>6
  <1>8. CASE Resend(t)
    <2> USE <1>8 DEF Resend, NextMessage, Loop
    <2>1. LoopInv' /\ SocketInv'
      BY <1>0 DEF LoopInv, SocketInv, TypeOK, Sends
    <2>2. pc' \in [Threads -> Labels] /\ n' \in [Threads -> 0 .. messageIteration]
      <3>1. CASE atEof[t]
        <4>1. NextMessage(t)
          BY <3>1
        <4> QED BY <4>1, NextMessageTypes
      <3>2. CASE ~atEof[t]
        BY <3>2 DEF TypeOK, Labels
      <3> QED BY <3>1, <3>2
    <2>3. TypeOK'
      BY <2>2, SendsTypes DEF TypeOK, Sends, Messages, Labels
    <2> QED BY <1>1, <2>1, <2>3 DEF Sends
  <1>9. CASE Quit(t)
    <2> USE <1>9 DEF Quit
    <2>1. LoopInv' /\ SocketInv'
      BY <1>0 DEF LoopInv, SocketInv, TypeOK, Sends
    <2>2. TypeOK'
      BY <1>0, SendsTypes DEF TypeOK, Sends, Messages
    <2> QED BY <1>1, <2>1, <2>2 DEF Sends
  <1>10. CASE Close(t)
    <2> USE <1>10 DEF Close
    <2>1. m_state[t] = "CONNECTED"
      BY DEF SocketInv
    <2>2. /\ Cardinality(Connections') = Cardinality(Connections) - 1
          /\ Cardinality(Connections) \in Nat /\ Cardinality(Connections) >= 1
      BY <2>1, ConnectionsCount DEF TypeOK, States
    <2>3. openFds' = openFds - 1 /\ openFds >= 1
      BY <2>1, <2>2 DEF FdsClosed, DescriptorsAccounted, TypeOK
    <2>4. DescriptorsAccounted'
      BY <2>2, <2>3 DEF DescriptorsAccounted, TypeOK
    <2>5. LoopInv' /\ SocketInv'
      BY <1>0 DEF LoopInv, SocketInv, TypeOK
    <2>6. TypeOK'
      BY <2>3 DEF TypeOK, States, Ends
    <2> QED BY <2>4, <2>5, <2>6
  <1> QED
    BY <1>2, <1>3, <1>4, <1>5, <1>6, <1>7, <1>8, <1>9, <1>10 DEF Thread

\* A step of a thread keeps the mutex with its owner and the numbers apart.
LEMMA ThreadNumbers ==
  ASSUME Inv, NEW t \in Threads, Thread(t)
  PROVE  MutexInv' /\ NumbersInv' /\ MessagesDistinct'
  <1> USE DEF Inv
  <1> USE DEF Goto
  <1>0. /\ messageCounter \in Nat /\ messageCounterMutex \in Threads \cup {Free}
        /\ message \in [Threads -> Nat] /\ pc \in [Threads -> Labels]
    BY DEF TypeOK, Labels
  <1>1. ASSUME UNCHANGED counterVars, pc[t] # "send",
               pc' = [pc EXCEPT ![t] = pc'[t]], pc'[t] # "send"
        PROVE  MutexInv' /\ NumbersInv' /\ MessagesDistinct'
    BY <1>0, <1>1 DEF counterVars, MutexInv, NumbersInv, MessagesDistinct
  <1>2. CASE Lock(t)
    <2> USE <1>2 DEF Lock, MutexFree
    <2>1. MutexInv'
      BY <1>0 DEF MutexInv
    <2>2. NumbersInv' /\ MessagesDistinct'
      BY <1>0 DEF NumbersInv, MessagesDistinct
    <2> QED BY <2>1, <2>2
  <1>3. CASE Send(t)
    <2> USE <1>3 DEF Send, Awaited
    <2>1. MutexInv'
      BY <1>0 DEF MutexInv
    <2>2. NumbersInv'
      <3>1. \A u \in Threads : pc'[u] # "send"
        BY <1>0 DEF MutexInv
      <3> QED BY <1>0, <3>1 DEF NumbersInv
    <2>3. MessagesDistinct'
      BY <1>0 DEF NumbersInv, MessagesDistinct
    <2> QED BY <2>1, <2>2, <2>3
  <1>4. CASE Connected(t)
    BY <1>0, <1>1, <1>4 DEF Connected, AfterConnect, Loop
  <1>5. CASE Refused(t)
    BY <1>0, <1>1, <1>5 DEF Refused
  <1>6. CASE Receive(t)
    BY <1>0, <1>1, <1>6 DEF Receive, NextMessage, Loop
  <1>7. CASE ReceiveNothing(t)
    BY <1>0, <1>1, <1>7 DEF ReceiveNothing, NextMessage, Loop
  <1>8. CASE Resend(t)
    BY <1>0, <1>1, <1>8 DEF Resend, NextMessage, Loop
  <1>9. CASE Quit(t)
    BY <1>0, <1>1, <1>9 DEF Quit
  <1>10. CASE Close(t)
    BY <1>0, <1>1, <1>10 DEF Close
  <1> QED
    BY <1>2, <1>3, <1>4, <1>5, <1>6, <1>7, <1>8, <1>9, <1>10 DEF Thread

\* What a send adds.
LEMMA SendsOut ==
  ASSUME TypeOK, NEW t \in Threads, NEW m \in Messages, Sends(t, m)
  PROVE  /\ Out(t) \in Nat /\ replies[t] \in Nat
         /\ Out(t)' = IF end[t] = "open" THEN Out(t) + 1 ELSE Out(t)
         /\ end'[t] = "open" <=> end[t] = "open"
         /\ end'[t] = "rst_seen" <=> end[t] \in {"rst", "rst_seen"}
         /\ end[t] = "rst" => errno'[t] = "lost"
         /\ end[t] = "rst_seen" => errno'[t] = errno[t]
  <1>1. inbox[t] \in Seq(Messages) /\ replies[t] \in Nat /\ end[t] \in Ends
    BY DEF TypeOK
  <1>2. Len(inbox[t]) \in Nat /\ Len(Append(inbox[t], m)) = Len(inbox[t]) + 1
    BY <1>1
  <1>3. Out(t)' = IF end[t] = "open" THEN Out(t) + 1 ELSE Out(t)
    BY <1>1, <1>2 DEF Sends, Out, TypeOK
  <1>4. end'[t] = AfterSend(end[t]) /\ errno'[t] = ErrnoAfter(errno[t], end[t])
    BY DEF Sends, TypeOK
  <1> QED BY <1>1, <1>2, <1>3, <1>4 DEF Out, AfterSend, ErrnoAfter, Ends

\* What OutInv and ResetInv say of one thread.
OutOf(t) ==
  /\ pc[t] \in {"lock", "send", "quit"} =>
       /\ ~skipped[t] => replies[t] = 0
       /\ end[t] = "open" => Out(t) <= 1 /\ (~skipped[t] => Out(t) = 0)
  /\ pc[t] = "resend" => replies[t] = 0 /\ (end[t] = "open" => Out(t) = 0)
  /\ pc[t] = "receive" =>
       /\ ~skipped[t] => replies[t] <= 1
       /\ end[t] = "open" => Out(t) \in 1 .. 2 /\ (~skipped[t] => Out(t) = 1)
       /\ end[t] = "rst_seen" /\ ~skipped[t] => replies[t] = 0
ResetOf(t) ==
  end[t] = "rst_seen" =>
    /\ pc[t] # "resend"
    /\ pc[t] \in {"lock", "send", "receive", "quit"} => errno[t] = "lost"
    /\ pc[t] \in {"lock", "send", "quit"} => skipped[t]

\* A step of a thread changes nothing of another one.
LEMMA OthersKeep ==
  ASSUME TypeOK, NEW t \in Threads, Thread(t), NEW u \in Threads, u # t
  PROVE  (OutOf(u) <=> OutOf(u)') /\ (ResetOf(u) <=> ResetOf(u)')
  <1>1. /\ pc'[u] = pc[u] /\ skipped'[u] = skipped[u] /\ errno'[u] = errno[u]
        /\ end'[u] = end[u] /\ inbox'[u] = inbox[u] /\ replies'[u] = replies[u]
    <2> USE DEF TypeOK, Goto, counterVars, channelVars, losses, process, processVars,
                serverVars
    <2>1. CASE Connected(t) BY <2>1 DEF Connected
    <2>2. CASE Refused(t) BY <2>2 DEF Refused
    <2>3. CASE Lock(t) BY <2>3 DEF Lock
    <2>4. CASE Send(t) BY <2>4 DEF Send, Sends
    <2>5. CASE Receive(t) BY <2>5 DEF Receive, NextMessage
    <2>6. CASE ReceiveNothing(t) BY <2>6 DEF ReceiveNothing, NextMessage
    <2>7. CASE Resend(t) BY <2>7 DEF Resend, Sends, NextMessage
    <2>8. CASE Quit(t) BY <2>8 DEF Quit, Sends
    <2>9. CASE Close(t) BY <2>9 DEF Close
    <2> QED
      BY <2>1, <2>2, <2>3, <2>4, <2>5, <2>6, <2>7, <2>8, <2>9 DEF Thread
  <1> QED BY <1>1 DEF OutOf, ResetOf, Out

\* A step of a thread keeps what is under way in its bounds, and no reset is
\* passed over.
LEMMA ThreadOut ==
  ASSUME Inv, NEW t \in Threads, Thread(t)
  PROVE  OutInv' /\ ResetInv'
  <1> SUFFICES OutOf(t)' /\ ResetOf(t)'
    <2>1. \A u \in Threads : OutOf(u) /\ ResetOf(u)
      BY DEF Inv, OutInv, ResetInv, OutOf, ResetOf
    <2>2. ASSUME OutOf(t)', ResetOf(t)'
          PROVE  \A u \in Threads : OutOf(u)' /\ ResetOf(u)'
      BY <2>1, <2>2, OthersKeep DEF Inv
    <2> QED BY <2>2 DEF OutInv, ResetInv, OutOf, ResetOf
  <1>0. OutOf(t) /\ ResetOf(t)
    BY DEF Inv, OutInv, ResetInv, OutOf, ResetOf
  <1>1. /\ TypeOK /\ pc[t] \in Labels /\ end[t] \in Ends /\ errno[t] \in Errnos
        /\ inbox[t] \in Seq(Messages) /\ replies[t] \in Nat
        /\ Len(inbox[t]) \in Nat /\ Out(t) \in Nat
    BY DEF Inv, TypeOK, Labels, Out
  <1> USE DEF Goto, counterVars, channelVars, losses, process, processVars, serverVars
  <1>2. CASE Connected(t)
    <2>1. Out(t)' = 0 /\ replies'[t] = 0 /\ end'[t] = "open" /\ pc'[t] \in {"lock", "quit", "resend"}
      BY <1>1, <1>2 DEF Connected, Out, TypeOK, AfterConnect, Loop
    <2> QED BY <2>1 DEF OutOf, ResetOf
  <1>3. CASE Refused(t)
    BY <1>1, <1>3 DEF Refused, OutOf, ResetOf, Out
  <1>4. CASE Lock(t)
    <2>1. pc[t] = "lock" /\ pc'[t] = "send" /\ Out(t)' = Out(t)
          /\ UNCHANGED <<skipped, end, errno, replies>>
      BY <1>1, <1>4 DEF Lock, Out, TypeOK
    <2> QED BY <1>0, <2>1 DEF OutOf, ResetOf
  <1>5. CASE Send(t)
    <2>1. /\ pc[t] = "send" /\ pc'[t] = "receive" /\ Sends(t, "message")
          /\ UNCHANGED <<skipped, replies>>
      BY <1>1, <1>5 DEF Send, Awaited, Sends, TypeOK
    <2>2. /\ Out(t)' = IF end[t] = "open" THEN Out(t) + 1 ELSE Out(t)
          /\ end'[t] = "open" <=> end[t] = "open"
          /\ end'[t] = "rst_seen" <=> end[t] \in {"rst", "rst_seen"}
          /\ end[t] = "rst" => errno'[t] = "lost"
          /\ end[t] = "rst_seen" => errno'[t] = errno[t]
      BY <1>1, <2>1, SendsOut DEF Messages
    <2>3. OutOf(t)'
      BY <1>0, <1>1, <2>1, <2>2 DEF OutOf
    <2>4. ResetOf(t)'
      BY <1>0, <1>1, <2>1, <2>2 DEF ResetOf
    <2> QED BY <2>3, <2>4
  <1>6. CASE Receive(t)
    <2>1. /\ pc[t] = "receive" /\ pc'[t] \in {"lock", "quit"}
          /\ replies'[t] \in Nat /\ replies'[t] < replies[t]
          /\ UNCHANGED <<skipped, end, errno, inbox>>
      BY <1>1, <1>6 DEF Receive, NextMessage, Loop, TypeOK
    <2>2. Out(t)' \in Nat /\ Out(t)' < Out(t)
      BY <1>1, <2>1 DEF Out
    <2> QED BY <1>0, <1>1, <2>1, <2>2 DEF OutOf, ResetOf
  <1>7. CASE ReceiveNothing(t)
    <2>1. /\ pc[t] = "receive" /\ replies[t] = 0 /\ end[t] # "open"
          /\ errno'[t] = ErrnoAfter(errno[t], end[t])
          /\ end'[t] = AfterReceive(end[t])
          /\ skipped'[t] = skipped[t] /\ replies'[t] = 0
      BY <1>1, <1>7 DEF ReceiveNothing, TypeOK, Out
    <2>2. CASE IsLost(t)
      <3>1. pc'[t] = "reconnect"
        BY <1>1, <1>7, <2>2 DEF ReceiveNothing, TypeOK
      <3> QED BY <3>1 DEF OutOf, ResetOf
    <2>3. CASE ~IsLost(t)
      <3>1. pc'[t] \in {"lock", "quit"}
        BY <1>1, <1>7, <2>3 DEF ReceiveNothing, NextMessage, Loop, TypeOK
      <3>2. errno'[t] # "lost" /\ end[t] # "rst"
        BY <2>1, <2>3 DEF IsLost, ErrnoAfter
      <3>3. end[t] # "rst_seen"
        BY <1>0, <2>1, <3>2 DEF ResetOf, ErrnoAfter
      <3>4. end'[t] \notin {"open", "rst_seen"}
        BY <2>1, <3>2, <3>3 DEF AfterReceive
      <3> QED BY <1>0, <2>1, <3>1, <3>4 DEF OutOf, ResetOf
    <2> QED BY <2>2, <2>3
  <1>8. CASE Resend(t)
    <2>1. /\ pc[t] = "resend" /\ Sends(t, "message")
          /\ UNCHANGED replies /\ skipped'[t] = atEof[t]
      BY <1>8 DEF Resend, Sends, Inv, TypeOK
    <2>2. replies[t] = 0 /\ (end[t] = "open" => Out(t) = 0)
      BY <1>0, <1>1, <2>1 DEF OutOf
    <2>3. CASE atEof[t]
      <3>1. pc'[t] \in {"lock", "quit"}
        BY <1>1, <1>8, <2>3 DEF Resend, NextMessage, Loop, TypeOK
      <3> QED BY <1>0, <2>1, <2>2, <2>3, <3>1, SendsOut, <1>1 DEF OutOf, ResetOf, Messages
    <2>4. CASE ~atEof[t]
      <3>1. pc'[t] = "receive"
        BY <1>1, <1>8, <2>4 DEF Resend, TypeOK
      <3> QED BY <1>0, <2>1, <2>2, <2>4, <3>1, SendsOut, <1>1 DEF OutOf, ResetOf, Messages
    <2> QED BY <2>3, <2>4
  <1>9. CASE Quit(t)
    BY <1>1, <1>9 DEF Quit, TypeOK, OutOf, ResetOf
  <1>10. CASE Close(t)
    BY <1>1, <1>10 DEF Close, TypeOK, OutOf, ResetOf
  <1> QED
    BY <1>2, <1>3, <1>4, <1>5, <1>6, <1>7, <1>8, <1>9, <1>10 DEF Thread

-----------------------------------------------------------------------------
\* What is under way shrinks while the end stays open, without running dry,
\* and no reset is reported.
Shrinks(u) ==
  /\ end'[u] = "open" => end[u] = "open"
  /\ end'[u] = "rst_seen" => end[u] = "rst_seen"
  /\ \/ replies'[u] = replies[u]
     \/ end'[u] # "rst_seen" /\ end[u] = "open" /\ Out(u) >= 1 /\ replies'[u] <= Out(u)
  /\ end'[u] = "open" =>
       LET out == Len(inbox'[u]) + replies'[u]
       IN  out = Out(u) \/ out \in 1 .. Out(u)

\* The server answering, rejecting, crashing or coming back changes only what
\* is under way.
LEMMA ServerSteps ==
  ASSUME Inv, (\E t \in Threads : Serve(t) \/ Reject(t)) \/ Crash \/ Restart
  PROVE  Inv'
  <1>1. UNCHANGED <<threadVars, counterVars, processVars>>
    BY DEF Serve, Reject, Crash, Restart
  <1>2. /\ LoopInv' /\ SocketInv' /\ DescriptorsAccounted'
        /\ MutexInv' /\ NumbersInv' /\ MessagesDistinct'
    BY <1>1 DEF Inv, LoopInv, SocketInv, DescriptorsAccounted, Connections, MutexInv,
                NumbersInv, MessagesDistinct, threadVars, counterVars, processVars, losses
  <1>3. ASSUME /\ up' \in BOOLEAN /\ crashes' \in 0 .. MaxCrashes
               /\ end' \in [Threads -> Ends] /\ inbox' \in [Threads -> Seq(Messages)]
               /\ replies' \in [Threads -> Nat]
        PROVE  TypeOK'
    <2>1. killed' \in BOOLEAN /\ privileged' \in BOOLEAN
      BY <1>1, Zenon DEF Inv, TypeOK, processVars, process
    <2> QED BY <1>1, <1>3, <2>1 DEF Inv, TypeOK, threadVars, counterVars, processVars, losses
  <1>4. ASSUME \A u \in Threads : Shrinks(u)
        PROVE  OutInv' /\ ResetInv'
    <2> SUFFICES ASSUME NEW u \in Threads
                 PROVE  OutOf(u)' /\ ResetOf(u)'
      BY DEF OutInv, ResetInv, OutOf, ResetOf
    <2>1. /\ OutOf(u) /\ ResetOf(u) /\ Out(u) \in Nat /\ replies[u] \in Nat
      BY DEF Inv, OutInv, ResetInv, OutOf, ResetOf, TypeOK, Out
    <2>2. /\ pc'[u] = pc[u] /\ skipped'[u] = skipped[u] /\ errno'[u] = errno[u]
          /\ Out(u)' = Len(inbox'[u]) + replies'[u]
      BY <1>1 DEF threadVars, Out
    <2>. Shrinks(u)
      BY <1>4
    <2>3. ResetOf(u)'
      BY <2>1, <2>2 DEF ResetOf, Shrinks
    <2>4. OutOf(u)'
      <3>1. CASE replies'[u] = replies[u]
        BY <2>1, <2>2, <3>1 DEF OutOf, Shrinks
      <3>2. CASE replies'[u] # replies[u]
        <4>1. end[u] = "open" /\ replies'[u] <= Out(u) /\ Out(u) >= 1 /\ end'[u] # "rst_seen"
          BY <3>2 DEF Shrinks
        <4> QED BY <2>1, <2>2, <4>1 DEF OutOf, Shrinks
      <3> QED BY <3>1, <3>2
    <2> QED BY <2>3, <2>4
  <1>5. CASE \E t \in Threads : Serve(t)
    <2> PICK t \in Threads : Serve(t)
      BY <1>5
    <2>1. PICK k \in 1 .. Len(inbox[t]) :
            /\ inbox' = [inbox EXCEPT ![t] = SubSeq(@, k + 1, Len(@))]
            /\ end' = [end EXCEPT ![t] =
                         IF SubSeq(inbox[t], 1, k) = <<"quit">> THEN "fin" ELSE @]
      BY DEF Serve
    <2>2. /\ inbox[t] \in Seq(Messages) /\ Len(inbox[t]) \in Nat /\ replies[t] \in Nat
          /\ end[t] = "open" /\ replies' = [replies EXCEPT ![t] = @ + 1]
          /\ UNCHANGED serverVars
      BY DEF Serve, Inv, TypeOK
    <2>3. /\ SubSeq(inbox[t], k + 1, Len(inbox[t])) \in Seq(Messages)
          /\ Len(SubSeq(inbox[t], k + 1, Len(inbox[t]))) = Len(inbox[t]) - k
      BY <2>2
    <2>4. TypeOK'
      <3>1. up' \in BOOLEAN /\ crashes' \in 0 .. MaxCrashes
        BY <2>2 DEF Inv, TypeOK, serverVars
      <3>2. end' \in [Threads -> Ends]
        BY <2>1 DEF Inv, TypeOK, Ends
      <3>3. inbox' \in [Threads -> Seq(Messages)]
        BY <2>1, <2>3 DEF Inv, TypeOK
      <3>4. replies' \in [Threads -> Nat]
        BY <2>2 DEF Inv, TypeOK
      <3> QED BY <1>3, <3>1, <3>2, <3>3, <3>4
    <2>5. Out(t)' = Out(t) - k + 1 /\ Out(t) = Len(inbox[t]) + replies[t]
          /\ replies'[t] = replies[t] + 1 /\ end'[t] \in {"open", "fin"}
      <3>1. inbox'[t] = SubSeq(inbox[t], k + 1, Len(inbox[t])) /\ replies'[t] = replies[t] + 1
        BY <2>1, <2>2 DEF Inv, TypeOK
      <3>2. end'[t] \in {"open", "fin"}
        BY <2>1, <2>2 DEF Inv, TypeOK
      <3> QED BY <2>2, <2>3, <3>1, <3>2 DEF Out
    <2>6. \A u \in Threads \ {t} :
            end'[u] = end[u] /\ replies'[u] = replies[u] /\ Out(u)' = Out(u)
      BY <2>1, <2>2 DEF Inv, TypeOK, Out
    <2>7. OutInv' /\ ResetInv'
      <3>1. k \in Nat /\ 1 <= k /\ k <= Len(inbox[t])
        BY <2>2
      <3>2. /\ Len(inbox'[t]) + replies'[t] \in 1 .. Out(t)
            /\ replies'[t] <= Out(t) /\ Out(t) >= 1
        BY <2>2, <2>5, <3>1 DEF Out
      <3>3. \A u \in Threads \ {t} :
              /\ end'[u] = end[u] /\ replies'[u] = replies[u]
              /\ Len(inbox'[u]) + replies'[u] = Out(u)
        BY <2>6 DEF Out
      <3>4. \A u \in Threads : Shrinks(u)
        BY <2>2, <2>5, <3>2, <3>3 DEF Shrinks
      <3> QED BY <1>4, <3>4
    <2> QED BY <1>2, <2>4, <2>7 DEF Inv
  <1>6. CASE \E t \in Threads : Reject(t)
    <2> PICK t \in Threads : Reject(t)
      BY <1>6
    <2>1. TypeOK'
      BY <1>3 DEF Reject, Inv, TypeOK, serverVars, Ends
    <2>2. \A u \in Threads :
            /\ end'[u] = end[u] \/ end'[u] = "fin_rst"
            /\ replies'[u] = replies[u] /\ inbox'[u] = inbox[u]
      BY DEF Reject, Inv, TypeOK
    <2>3. \A u \in Threads : Shrinks(u)
      BY <2>2 DEF Shrinks, Out
    <2>4. OutInv' /\ ResetInv'
      BY <1>4, <2>3
    <2> QED BY <1>2, <2>1, <2>4 DEF Inv
  <1>7. CASE Crash
    <2>1. PICK close \in [Threads -> {"fin", "rst"}] :
            end' = [t \in Threads |->
                      IF end[t] # "open" THEN end[t]
                      ELSE IF inbox[t] = <<>> THEN close[t] ELSE "rst"]
      BY <1>7 DEF Crash
    <2>2. end' \in [Threads -> Ends] /\ inbox' \in [Threads -> Seq(Messages)]
      BY <1>7, <2>1 DEF Crash, Inv, TypeOK, Ends
    <2>3. TypeOK'
      <3>1. up' \in BOOLEAN /\ crashes' \in 0 .. MaxCrashes /\ replies' \in [Threads -> Nat]
        <4>1. up' = FALSE /\ crashes' = crashes + 1 /\ crashes < MaxCrashes
              /\ replies' = replies
          BY <1>7 DEF Crash
        <4>2. crashes \in 0 .. MaxCrashes /\ replies \in [Threads -> Nat]
          BY DEF Inv, TypeOK
        <4>3. up' \in BOOLEAN
          BY <4>1, Zenon
        <4>4. crashes' \in 0 .. MaxCrashes
          BY <4>1, <4>2
        <4> QED BY <4>1, <4>2, <4>3, <4>4
      <3> QED BY <1>3, <2>2, <3>1
    <2>4. OutInv' /\ ResetInv'
      <3>1. \A u \in Threads :
              /\ end'[u] # "open"
              /\ end'[u] = "rst_seen" => end[u] = "rst_seen"
              /\ replies'[u] = replies[u]
        BY <1>7, <2>1 DEF Crash
      <3>2. \A u \in Threads : Shrinks(u)
        BY <3>1 DEF Shrinks
      <3> QED BY <1>4, <3>2
    <2> QED BY <1>2, <2>3, <2>4 DEF Inv
  <1>8. CASE Restart
    <2>1. TypeOK'
      BY <1>3, <1>8 DEF Restart, Inv, TypeOK, channelVars
    <2>2. UNCHANGED <<end, inbox, replies>>
      BY <1>8 DEF Restart, channelVars
    <2>3. \A u \in Threads : Shrinks(u)
      BY <2>2 DEF Shrinks, Out
    <2>4. OutInv' /\ ResetInv'
      BY <1>4, <2>3
    <2> QED BY <1>2, <2>1, <2>4 DEF Inv
  <1> QED BY <1>5, <1>6, <1>7, <1>8

\* Every step keeps the invariant.
LEMMA NextInv == Inv /\ [Next]_vars => Inv'
  <1> SUFFICES ASSUME Inv, [Next]_vars
               PROVE  Inv'
    OBVIOUS
  <1>1. ASSUME NEW t \in Threads, Thread(t)
        PROVE  Inv'
    BY <1>1, ThreadTypes, ThreadNumbers, ThreadOut DEF Inv
  <1>2. CASE (\E t \in Threads : Serve(t) \/ Reject(t)) \/ Crash \/ Restart
    BY <1>2, ServerSteps
  <1>3. CASE UNCHANGED vars
    BY <1>3 DEF Inv, TypeOK, LoopInv, SocketInv, DescriptorsAccounted, Connections,
                MutexInv, NumbersInv, MessagesDistinct, OutInv, Out, ResetInv,
                vars, threadVars, counterVars, processVars, losses, process, serverVars,
                channelVars
  <1> QED BY <1>1, <1>2, <1>3 DEF Next, Ended

\* Every reachable state satisfies the invariant.
THEOREM Invariance == Spec => []Inv
  BY InitInv, NextInv, PTL DEF Spec

\* Every variable keeps its range; the process never closes more than it opened.
THEOREM TypeCorrect == Spec => []TypeOK
  BY Invariance, PTL DEF Inv

\* No two threads ever send a message under the same number.
THEOREM Distinct == Spec => []MessagesDistinct
  BY Invariance, PTL DEF Inv

\* Every descriptor the process has is that of a connection, or was lost by one
\* refused connect or by one disconnection.
THEOREM NoOtherLeak == Spec => []DescriptorsAccounted
  BY Invariance, PTL DEF Inv

\* A thread that waits on an open connection has one message under way, or two
\* if it has skipped a reply on this connection.
THEOREM NeverWaitsInVain == Spec => []InStep
  <1>1. Inv => InStep
    BY DEF Inv, OutInv, InStep, Out
  <1> QED BY <1>1, Invariance, PTL

\* No thread passes over a reset, except one that has skipped a reply on this
\* connection.
THEOREM ResetSurvived == Spec => []SurvivesReset
  <1>1. Inv => SurvivesReset
    BY DEF Inv, ResetInv, SurvivesReset
  <1> QED BY <1>1, Invariance, PTL

=============================================================================
