---------------------------- MODULE MCKcpSender -----------------------------
(* The instance of KcpSender that TLC checks.                              *)
EXTENDS KcpSender

(* What kcp_server.cc and kcp_client.cc give ikcp_nodelay: (1, 10, 0, 0)   *)
(* and (1, 10, 2, 1).                                                      *)
MCSettings == {[fastresend |-> 0, nocwnd |-> FALSE],
               [fastresend |-> 2, nocwnd |-> TRUE]}
=============================================================================
