------------------------------- MODULE Sockets -------------------------------
(***************************************************************************)
(* The connections between the clients and a server, as far as the server  *)
(* can tell them apart: the backlog of the listening socket, the bytes     *)
(* that wait to be received, what the client did with its end of the       *)
(* connection, and the server's descriptors.  The clients here do whatever *)
(* a TCP client can do.                                                    *)
(***************************************************************************)
EXTENDS Tcp, Naturals, Sequences, FiniteSets

CONSTANTS
  Clients,        \* each connects once
  FdLimit,        \* descriptors the process has left for connections
  MaxSends,       \* MaxSends[c]: bound on the messages client c sends
  None            \* no connection

ASSUME ClientsAssumption == IsFiniteSet(Clients) /\ Clients # {}
ASSUME FdAssumption == FdLimit \in Nat \ {0}
ASSUME SendsAssumption == MaxSends \in [Clients -> Nat]
ASSUME NoneAssumption == None \notin Clients

Fds == 1 .. FdLimit

VARIABLES
  listening,      \* bind and listen have succeeded
  backlog,        \* connections the server has not accepted, oldest first
  peer,           \* peer[c]: the client's end of connection c
  inbox,          \* inbox[c]: messages the server has not received
  fds,            \* fds[d]: the connection behind descriptor d
  sends           \* sends[c]: messages sent so far

kernelVars == <<listening, backlog, peer, inbox, fds, sends>>

KernelTypeOK ==
  /\ listening \in BOOLEAN
  /\ backlog \in Seq(Clients)
  /\ peer \in [Clients -> Ends]
  /\ inbox \in [Clients -> Seq(Messages)]
  /\ fds \in [Fds -> Clients \cup {None}]
  /\ sends \in [Clients -> Nat] /\ \A c \in Clients : sends[c] <= MaxSends[c]

KernelInit ==
  /\ listening = FALSE
  /\ backlog = <<>>
  /\ peer = [c \in Clients |-> "none"]
  /\ inbox = [c \in Clients |-> <<>>]
  /\ fds = [d \in Fds |-> None]
  /\ sends = [c \in Clients |-> 0]

-----------------------------------------------------------------------------
\* What a client does.
Connect(c) ==
  /\ listening /\ peer[c] = "none"
  /\ peer' = [peer EXCEPT ![c] = "open"]
  /\ backlog' = Append(backlog, c)
  /\ UNCHANGED <<listening, inbox, fds, sends>>

ClientSend(c) ==
  /\ peer[c] = "open" /\ sends[c] < MaxSends[c]
  /\ \E m \in Messages : inbox' = [inbox EXCEPT ![c] = Append(@, m)]
  /\ sends' = [sends EXCEPT ![c] = @ + 1]
  /\ UNCHANGED <<listening, backlog, peer, fds>>

\* A close with a reply unread, or a crash, resets the connection; so does
\* data that reaches a client after its close.
ClientEnds(c) ==
  /\ \/ peer[c] = "open" /\ \E end \in {"fin", "rst"} : peer' = [peer EXCEPT ![c] = end]
     \/ peer[c] = "fin_sent" /\ peer' = [peer EXCEPT ![c] = "fin_rst"]
  /\ UNCHANGED <<listening, backlog, inbox, fds, sends>>

Network == \E c \in Clients : Connect(c) \/ ClientSend(c) \/ ClientEnds(c)

-----------------------------------------------------------------------------
\* What the server's calls do.
FreeFds == {d \in Fds : fds[d] = None}

\* The lowest descriptor not in use.
LowestFree == CHOOSE d \in FreeFds : \A e \in FreeFds : d <= e

\* accept takes the oldest connection.
Accepted ==
  /\ backlog' = Tail(backlog)
  /\ fds' = [fds EXCEPT ![LowestFree] = Head(backlog)]
  /\ UNCHANGED <<listening, peer, inbox, sends>>

\* recv has data, the end of the stream or an error to report.
Readable(c) == inbox[c] # <<>> \/ peer[c] # "open"

\* recv takes what has arrived: the first k messages, in one buffer.
Received(c, k) ==
  /\ inbox' = [inbox EXCEPT ![c] = SubSeq(@, k + 1, Len(@))]
  /\ UNCHANGED <<listening, backlog, peer, fds, sends>>

\* A call has changed what is known of the client's end of connection c.
PeerBecomes(c, end) ==
  /\ peer' = [peer EXCEPT ![c] = end]
  /\ UNCHANGED <<listening, backlog, inbox, fds, sends>>

\* close of descriptor d ends the server's interest in its connection.
DescriptorClosed(d) ==
  /\ peer' = [peer EXCEPT ![fds[d]] = "gone"]
  /\ inbox' = [inbox EXCEPT ![fds[d]] = <<>>]
  /\ fds' = [fds EXCEPT ![d] = None]
  /\ UNCHANGED <<listening, backlog, sends>>

=============================================================================
