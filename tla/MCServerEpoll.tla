---------------------------- MODULE MCServerEpoll ----------------------------
(* Instances of ServerEpoll for TLC.                                       *)
EXTENDS ServerEpoll, TLC

CONSTANTS c1, c2, c3, f1, f2

(* The message with the name is the longest: after a refused read it stays *)
(* in the queue when the next read is short.                               *)
MCSize == [m \in 1..FileChunks + 1 |-> IF m = 1 THEN 1 ELSE 0]

(* Connections are interchangeable, and so are descriptors.                *)
MCSymmetry == Permutations(Conn) \cup Permutations(Fd)
=============================================================================
