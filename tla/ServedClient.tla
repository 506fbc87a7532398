---------------------------- MODULE ServedClient ----------------------------
(***************************************************************************)
(* What client_automation sees of the epoll server.  Client assumes of its *)
(* server that it takes what has arrived, replies once, and closes after a *)
(* quit that arrived alone; this module says that the reactor, step by     *)
(* step as it is, does just that and nothing else.                         *)
(***************************************************************************)
EXTENDS Service

VARIABLE left   \* left[c]: what the server had not dealt with when c closed

servedVars == <<serviceVars, left>>

\* The reactor has received from c and not replied.
Held(c) == pc = "send" /\ Conn = c

\* The messages of c the server has not replied to: Client does not part
\* receiving from replying.  What comes of them once c has closed is nothing
\* to the client.
AtServer(c) ==
  IF end[c] = "gone" THEN left[c]
  ELSE IF Held(c) THEN buffer \o inbox[c]
  ELSE inbox[c]

atServer == [c \in Clients |-> AtServer(c)]

ServedInit == ServiceInit /\ left = [c \in Clients |-> <<>>]

\* The server's end as far as the client can tell: Client does not part the
\* reply to a quit from the close after it.
EndSeen(c) ==
  IF pc = "dismiss" /\ Conn = c /\ end[c] = "open" THEN "fin" ELSE end[c]

endSeen == [c \in Clients |-> EndSeen(c)]

\* A history variable: it records, and nothing depends on it.
ServedNext ==
  /\ ServiceNext
  /\ left' = [c \in Clients |-> IF end'[c] = "gone" THEN AtServer(c) ELSE left[c]]

ServedSpec == ServedInit /\ [][ServedNext]_servedVars /\ ServiceFairness

-----------------------------------------------------------------------------
\* A step of a thread of the client is that step of Client.  The reactor's
\* Send is Serve; its other steps, accept and receive among them, do not
\* show.  No crash and no rejected data: neither Crash nor Reject is taken.
Expected == INSTANCE Client WITH
  Threads <- Clients, FdLimit <- Cardinality(Clients), MaxCrashes <- 0, Free <- None,
  pc <- cpc, errno <- cerrno, killed <- ckilled, up <- listening,
  inbox <- atServer, end <- endSeen

\* The epoll server is a server as Client assumes one: every behaviour of the
\* two programs together is one of the client program with its assumed server.
ServesAsExpected == Expected!Spec

=============================================================================
