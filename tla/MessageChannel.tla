--------------------------- MODULE MessageChannel ---------------------------
(***************************************************************************)
(* What a pair of KCP control blocks promises to the two programs above    *)
(* it: every message handed to ikcp_send at one end comes out of ikcp_recv *)
(* at the other end whole, once, and in the order of the sends.  Nothing   *)
(* is said about acknowledgements, windows or the network.                 *)
(*                                                                         *)
(* ikcp_send cuts a message into chunks; a chunk's frg counts the chunks   *)
(* of its message that follow it, so frg = 0 marks a message's last chunk. *)
(***************************************************************************)
EXTENDS Naturals, Sequences

CONSTANTS Endpoint,     \* the two control blocks
          Peer,         \* Peer[p] is the other end of the session of p
          Sizes         \* the lengths, in chunks, a message may have

VARIABLES stream,       \* stream[p]: the chunks p's program has sent
          read          \* read[q]: the chunks q's program has received

vars == <<stream, read>>

(* The chunks of a message of n chunks, cut from position base of a stream. *)
Fragments(base, n) == [i \in 1..n |-> [pos |-> base + i, frg |-> n - i]]

Init == /\ stream = [p \in Endpoint |-> <<>>]
        /\ read = [p \in Endpoint |-> <<>>]

Send(p) ==
  /\ \E n \in Sizes :
       stream' = [stream EXCEPT ![p] = @ \o Fragments(Len(@), n)]
  /\ UNCHANGED read

(* One message, from the first chunk not yet read to the next frg = 0.     *)
Receive(q) ==
  LET sent  == stream[Peer[q]]
      first == Len(read[q]) + 1
  IN /\ \E last \in first..Len(sent) :
          /\ sent[last].frg = 0
          /\ \A i \in first..last-1 : sent[i].frg # 0
          /\ read' = [read EXCEPT ![q] = @ \o SubSeq(sent, first, last)]
     /\ UNCHANGED stream

Next == \E p \in Endpoint : Send(p) \/ Receive(p)

Spec == Init /\ [][Next]_vars
=============================================================================
