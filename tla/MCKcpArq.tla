------------------------------ MODULE MCKcpArq ------------------------------
(* Instances of KcpArq for TLC: the client c and the server s.             *)
EXTENDS KcpArq, TLC

CONSTANTS c, s

MCEndpoint == {c, s}
MCPeer == (c :> s) @@ (s :> c)

(* IKCP_WND_RCV = 3 lets a message have two chunks.                        *)
MCSndWnd == [p \in MCEndpoint |-> 2]
MCRcvWndArg == [p \in MCEndpoint |-> 1]

(* With a congestion window, which lets out any part of the smaller of the *)
(* two windows, and without: the program has modes of both kinds.          *)
MCCwnd == [p \in MCEndpoint |-> FALSE]
MCNoCwnd == [p \in MCEndpoint |-> TRUE]

(* Traffic one way, of four chunks: behind a full receive queue of three a *)
(* fourth waits in rcv_buf.                                                *)
OneWay4 == (c :> 4) @@ (s :> 0)

(* For liveness: one segment in flight at a time, and a receive queue of   *)
(* two that the third chunk waits for.                                     *)
OneWay3 == (c :> 3) @@ (s :> 0)
MCSndWnd1 == [p \in MCEndpoint |-> 1]
=============================================================================
