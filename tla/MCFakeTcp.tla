------------------------------ MODULE MCFakeTcp ------------------------------
(* Instances of FakeTcp for TLC.                                           *)
EXTENDS FakeTcp

(* A reset of another connection, and old segments of the client's own     *)
(* port, one of them a FIN.                                                *)
MCOthers ==
  {[flag |-> "rst", seq |-> 0, ack_seq |-> 0, mine |-> FALSE],
   [flag |-> "ack", seq |-> 1, ack_seq |-> Last + 3, mine |-> TRUE],
   [flag |-> "fin", seq |-> 1, ack_seq |-> Last + 3, mine |-> TRUE]}

(* A quiet host. *)
MCNoOthers == {}
=============================================================================
