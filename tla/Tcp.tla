--------------------------------- MODULE Tcp ---------------------------------
(***************************************************************************)
(* What a process can tell of the other end of one of its TCP connections, *)
(* and what its calls then do.  This is Linux, modelled from how servers   *)
(* and client use it.  The other end is                                    *)
(*   "none"     not connected          "open"     connected                *)
(*   "fin"      closed                 "fin_sent" closed, and data was     *)
(*                                                sent to it since         *)
(*   "fin_rst"  closed, and has answered that data with a reset            *)
(*   "rst"      reset, no call has reported it yet                         *)
(*   "rst_seen" reset, and reported                                        *)
(*   "gone"     of no interest, this process has closed its own end        *)
(***************************************************************************)
Ends == {"none", "open", "fin", "fin_sent", "fin_rst", "rst", "rst_seen", "gone"}

Messages == {"message", "quit"}

\* SOCKET_STATE as far as a connection goes through it.
States == {"CONNECTED", "DISCONNECTED"}

\* errno of a thread: one of the codes isConnectionLost knows, or another one.
Errnos == {"lost", "other"}

IsReset(end) == end \in {"fin_rst", "rst", "rst_seen"}

\* send reports a reset once.  On a connection known to be reset it raises
\* SIGPIPE, which ends the process: no call passes MSG_NOSIGNAL.
SendKills(end) == end \in {"fin_rst", "rst_seen"}
AfterSend(end) ==
  CASE end = "fin" -> "fin_sent"
    [] end = "rst" -> "rst_seen"
    [] OTHER -> end

\* recv reports a reset once, and the end of the stream ever after.
AfterReceive(end) == IF end = "rst" THEN "rst_seen" ELSE end

\* mutant: the end of the stream counts as a lost connection
ErrnoAfterAny(errno, end) == IF end # "open" THEN "lost" ELSE errno
\* errno after a call on the connection.  Only an error sets it.
ErrnoAfter(errno, end) == IF end = "rst" THEN "lost" ELSE errno

=============================================================================
