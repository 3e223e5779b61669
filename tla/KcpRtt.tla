------------------------------- MODULE KcpRtt -------------------------------
(***************************************************************************)
(* The round-trip time a control block estimates and the retransmission    *)
(* timeout it derives from it: ikcp_update_ack (code/kcp/ikcp.cc), as      *)
(* operators on the three fields rx_srtt, rx_rttval and rx_rto.            *)
(*                                                                         *)
(* Times are whole numbers of any unit, as the code keeps them: every      *)
(* division rounds down.                                                   *)
(***************************************************************************)
EXTENDS Integers

CONSTANTS
  Interval,   \* kcp->interval
  MinRto,     \* kcp->rx_minrto
  MaxRto      \* IKCP_RTO_MAX

ASSUME RtoAssumption ==
  /\ Interval \in Nat /\ MinRto \in Nat /\ MaxRto \in Nat
  /\ MinRto <= MaxRto

Larger(a, b)  == IF a >= b THEN a ELSE b
Smaller(a, b) == IF a <= b THEN a ELSE b

(* The fields; an srtt of 0 says that no sample was taken yet, and a       *)
(* sample of 0 leaves it at that.                                          *)
Estimate == [srtt : Nat, rttval : Nat, rto : Nat]

Distance(a, b) == IF a >= b THEN a - b ELSE b - a

Smoothed(srtt, rtt) == Larger((7 * srtt + rtt) \div 8, 1)

Varied(rttval, srtt, rtt) == (3 * rttval + Distance(rtt, srtt)) \div 4

MutRtoOf(srtt, rttval) == Smaller(srtt + 4 * rttval, MaxRto)

(* _ibound_(rx_minrto, srtt + max(interval, 4 * rttval), IKCP_RTO_MAX).    *)
RtoOf(srtt, rttval) ==
  Smaller(Larger(MinRto, srtt + Larger(Interval, 4 * rttval)), MaxRto)

(* ikcp_update_ack: the estimate e after a sample of rtt.                  *)
UpdateAck(e, rtt) ==
  LET srtt   == IF e.srtt = 0 THEN rtt ELSE Smoothed(e.srtt, rtt)
      rttval == IF e.srtt = 0 THEN rtt \div 2
                ELSE Varied(e.rttval, e.srtt, rtt)
  IN [srtt |-> srtt, rttval |-> rttval, rto |-> RtoOf(srtt, rttval)]
=============================================================================
