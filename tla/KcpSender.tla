------------------------------ MODULE KcpSender -----------------------------
(***************************************************************************)
(* When a control block sends and sends again: the congestion window, the  *)
(* retransmission timers, the fast resend and the round-trip estimate of   *)
(* code/kcp/ikcp.cc, for one sender of one-segment messages.               *)
(*                                                                         *)
(* The unit of time is the flush interval.  Flush stands for the call of   *)
(* ikcp_update that flushes, and lets one unit pass: the model keeps how   *)
(* long ago a segment was sent (age, current - ts) and how long its timer  *)
(* has to run (left, resendts - current), never the clock itself.  The     *)
(* network loses LossCap packets at most, reorders at will, and takes      *)
(* RttMax units at most from a segment's departure to its acknowledgement. *)
(*                                                                         *)
(* The receiver is the part of ikcp_input and ikcp_flush that acknowledges *)
(* (KcpArq has all of it), with room for every segment of the instance.    *)
(***************************************************************************)
EXTENDS KcpRtt, Sequences, FiniteSets, SequencesExt

CONSTANTS
  Traffic,      \* bound: the segments the program sends
  Settings,     \* the fastresend and nocwnd that ikcp_nodelay may set
  SndWnd,       \* kcp->snd_wnd
  PeerWindows,  \* the windows the peer may advertise
  WndRcv,       \* IKCP_WND_RCV, the window assumed of the peer at first
  Mss,          \* kcp->mss
  RtoDef,       \* IKCP_RTO_DEF
  FastLimit,    \* kcp->fastlimit, IKCP_FASTACK_LIMIT
  DeadLink,     \* kcp->dead_link
  ThreshMin,    \* IKCP_THRESH_MIN, and IKCP_THRESH_INIT
  RttMax,       \* the longest round trip
  LossCap       \* bound: packets the network loses

ASSUME TrafficAssumption == Traffic \in Nat /\ LossCap \in Nat /\ RttMax \in Nat
ASSUME SettingsAssumption ==
  /\ Settings \subseteq [fastresend : Nat, nocwnd : BOOLEAN]
  /\ SndWnd \in Nat \ {0} /\ PeerWindows \subseteq Nat /\ WndRcv \in Nat
  /\ Mss \in Nat \ {0} /\ RtoDef \in MinRto..MaxRto
  /\ {FastLimit, DeadLink, ThreshMin} \subseteq Nat \ {0}

VARIABLES
  set,        \* fastresend and nocwnd
  queue,      \* nsnd_que: segments not yet numbered
  seg,        \* seg[sn]: the segment with that number, in flight
  snd_una, snd_nxt, rmt_wnd, cwnd, ssthresh, incr,
  rtt,        \* rx_srtt, rx_rttval and rx_rto
  dead,       \* state = -1, which nothing reads
  got,        \* numbers the receiver has
  acklist,    \* acknowledgements it owes, in their order of arrival
  data,       \* segments in transit
  acks,       \* packets of acknowledgements in transit
  lost,       \* history: lost[sn] copies, or acknowledgements, of sn got lost
  overtaken   \* history: overtaken[sn] packets acknowledged a later number
              \* that was sent no earlier

sender   == <<seg, snd_una, snd_nxt, rmt_wnd, cwnd, ssthresh, incr, rtt>>
receiver == <<got, acklist>>
vars     == <<set, queue, sender, dead, receiver, data, acks, lost, overtaken>>

Sn == 0..Traffic - 1

Segment == [xmit : Nat, fastack : Nat, age : Nat, left : Int, rto : Nat]
Copy    == [sn : Sn, age : Nat]
Acks    == [acks : Seq(Copy), una : Nat, wnd : Nat]

(* ikcp_create, ikcp_wndsize, ikcp_nodelay.                                *)
Init ==
  /\ set \in Settings
  /\ queue = 0 /\ seg = <<>> /\ snd_una = 0 /\ snd_nxt = 0
  /\ rmt_wnd = WndRcv
  /\ cwnd = 0 /\ incr = 0 /\ ssthresh = ThreshMin
  /\ rtt = [srtt |-> 0, rttval |-> 0, rto |-> RtoDef]
  /\ dead = FALSE
  /\ got = {} /\ acklist = <<>> /\ data = {} /\ acks = {}
  /\ lost = [n \in Sn |-> 0] /\ overtaken = [n \in Sn |-> 0]

(* ikcp_send of a message of one segment.                                  *)
Send ==
  /\ snd_nxt + queue < Traffic
  /\ queue' = queue + 1
  /\ UNCHANGED <<set, sender, dead, receiver, data, acks, lost, overtaken>>

-----------------------------------------------------------------------------
(* ikcp_flush.                                                             *)

(* The window in force.                                                    *)
Window ==
  LET peer == Smaller(SndWnd, rmt_wnd)
  IN IF set.nocwnd THEN peer ELSE Smaller(cwnd, peer)

MutAdmitted == Smaller(queue, snd_una + Window - snd_nxt)

(* The segments the window lets into snd_buf: none, when it has shrunk     *)
(* below what is in flight.                                                *)
Admitted == Smaller(queue, Larger(0, snd_una + Window - snd_nxt))

Elapsed(n) == [seg[n] EXCEPT !.age = @ + 1, !.left = @ - 1]

TimedOut == {n \in DOMAIN seg : Elapsed(n).left <= 0}

(* Segments whose duplicate acknowledgements make them due; a fastresend   *)
(* of 0 stands for 2^32 - 1 of them.                                       *)
OvertakenSegs(skip) ==
  {n \in DOMAIN seg \ skip : /\ set.fastresend > 0
                             /\ seg[n].fastack >= set.fastresend
                             /\ seg[n].xmit <= FastLimit}

FirstSent == [xmit |-> 1, fastack |-> 0, age |-> 0, left |-> rtt.rto,
              rto |-> rtt.rto]

(* A timeout makes the next one longer by half.                            *)
SentAgain(s) ==
  LET rto == s.rto + s.rto \div 2
  IN [s EXCEPT !.xmit = @ + 1, !.age = 0, !.rto = rto, !.left = rto]

SentFast(s) ==
  [s EXCEPT !.xmit = @ + 1, !.fastack = 0, !.age = 0, !.left = s.rto]

(* Half of a window, and ThreshMin at least.                               *)
Half(n) == Larger(n \div 2, ThreshMin)

MutBytes(w) == incr

(* incr of a window of w segments.                                         *)
Bytes(w) == w * Mss

MutFloor(w) == w

(* The window is never left at 0.                                          *)
Floor(w) == Larger(w, 1)

(* ssthresh, cwnd and incr after the flush: a timeout (out) outweighs a    *)
(* fast resend (fast).                                                     *)
AdaptWindow(out, fast) ==
  /\ ssthresh' = IF out THEN Half(Window)
                 ELSE IF fast THEN Half(snd_nxt' - snd_una) ELSE ssthresh
  /\ cwnd' = IF out THEN 1
             ELSE IF fast THEN ssthresh' + set.fastresend ELSE Floor(cwnd)
  /\ incr' = IF out \/ fast \/ cwnd = 0 THEN Bytes(cwnd') ELSE incr

Older(copies) == [i \in DOMAIN copies |-> [copies[i] EXCEPT !.age = @ + 1]]

(* Nothing in transit is RttMax old, and the receiver, that flushes as     *)
(* often, owes no acknowledgement.                                         *)
NoneLate ==
  /\ acklist = <<>>
  /\ \A m \in data : m.age < RttMax
  /\ \A p \in acks : \A i \in DOMAIN p.acks : p.acks[i].age < RttMax

Flush ==
  LET new  == snd_nxt..(snd_nxt + Admitted - 1)
      out  == TimedOut
      fast == OvertakenSegs(out)
  IN /\ NoneLate
     /\ seg' = [n \in DOMAIN seg \cup new |->
                  IF n \in new THEN FirstSent
                  ELSE IF n \in out THEN SentAgain(Elapsed(n))
                  ELSE IF n \in fast THEN SentFast(Elapsed(n))
                  ELSE Elapsed(n)]
     /\ snd_nxt' = snd_nxt + Admitted
     /\ queue' = queue - Admitted
     /\ AdaptWindow(out # {}, fast # {})
     /\ dead' = (dead \/ \E n \in new \cup out \cup fast : seg'[n].xmit >= DeadLink)
     /\ data' = {[m EXCEPT !.age = @ + 1] : m \in data}
                \cup {[sn |-> n, age |-> 0] : n \in new \cup out \cup fast}
     /\ acks' = {[p EXCEPT !.acks = Older(@)] : p \in acks}
     /\ UNCHANGED <<set, snd_una, rmt_wnd, rtt, receiver, lost, overtaken>>

-----------------------------------------------------------------------------
(* The receiver and the network.                                           *)

Arrive(m) ==
  /\ data' = data \ {m}
  /\ got' = got \cup {m.sn}
  /\ acklist' = Append(acklist, m)
  /\ UNCHANGED <<set, queue, sender, dead, acks, lost, overtaken>>

FirstMissing == CHOOSE n \in 0..Traffic : n \notin got /\ 0..n-1 \subseteq got

AckFlush(wnd) ==
  /\ acklist # <<>>
  /\ acks' = acks \cup {[acks |-> acklist, una |-> FirstMissing, wnd |-> wnd]}
  /\ acklist' = <<>>
  /\ UNCHANGED <<set, queue, sender, dead, got, data, lost, overtaken>>

Losses == FoldFunction(LAMBDA a, b : a + b, 0, lost)

LoseData(m) ==
  /\ Losses < LossCap
  /\ data' = data \ {m}
  /\ lost' = [lost EXCEPT ![m.sn] = @ + 1]
  /\ UNCHANGED <<set, queue, sender, dead, receiver, acks, overtaken>>

LoseAcks(p) ==
  /\ Losses < LossCap
  /\ acks' = acks \ {p}
  /\ lost' = [n \in Sn |-> lost[n] + Cardinality({i \in DOMAIN p.acks : p.acks[i].sn = n})]
  /\ UNCHANGED <<set, queue, sender, dead, receiver, data, overtaken>>

-----------------------------------------------------------------------------
(* ikcp_input of a packet of acknowledgements.                             *)

(* What parse_una and parse_ack leave in flight.                           *)
Unacked(p) ==
  {n \in DOMAIN seg : n >= p.una /\ \A i \in DOMAIN p.acks : p.acks[i].sn # n}

(* ikcp_shrink_buf.                                                        *)
FirstOf(buf) == IF buf = {} THEN snd_nxt ELSE Min(buf)

(* maxack and latest_ts: a later acknowledgement of the packet replaces    *)
(* the one kept if its number is larger and its copy was sent later.       *)
Latest(copies) ==
  FoldLeft(LAMBDA best, a : IF a.sn > best.sn /\ a.age < best.age THEN a ELSE best,
           Head(copies), Tail(copies))

(* ikcp_parse_fastack: best skips n, if it is in flight and was sent no    *)
(* earlier.                                                                *)
Skips(best, n, una) ==
  best.sn >= una /\ n < best.sn /\ best.age <= seg[n].age

(* The congestion avoidance step of incr.                                  *)
Raised == LET low == Larger(incr, Mss) IN low + (Mss * Mss) \div low + Mss \div 16

(* cwnd and incr before they are cut to the peer's window.                 *)
Grown ==
  IF cwnd < ssthresh THEN [cwnd |-> cwnd + 1, incr |-> incr + Mss]
  ELSE [incr |-> Raised,
        cwnd |-> IF (cwnd + 1) * Mss <= Raised
                   THEN (Raised + Mss - 1) \div Mss ELSE cwnd]

MutCut(g, wnd) == g

(* The peer's window bounds what has grown.                                *)
Cut(g, wnd) ==
  IF g.cwnd > wnd THEN [cwnd |-> wnd, incr |-> wnd * Mss] ELSE g

Input(p) ==
  LET buf  == Unacked(p)
      una  == FirstOf(buf)
      best == Latest(p.acks)
  IN /\ acks' = acks \ {p}
     /\ rmt_wnd' = p.wnd
     /\ rtt' = FoldLeft(LAMBDA e, a : UpdateAck(e, a.age), rtt, p.acks)
     /\ seg' = [n \in buf |-> IF Skips(best, n, una)
                                THEN [seg[n] EXCEPT !.fastack = @ + 1] ELSE seg[n]]
     /\ snd_una' = una
     /\ IF una > snd_una /\ cwnd < p.wnd
          THEN LET g == Cut(Grown, p.wnd) IN cwnd' = g.cwnd /\ incr' = g.incr
          ELSE UNCHANGED <<cwnd, incr>>
     /\ overtaken' = [n \in Sn |->
          IF n \in buf /\ \E i \in DOMAIN p.acks :
               p.acks[i].sn > n /\ p.acks[i].age <= seg[n].age
          THEN overtaken[n] + 1 ELSE overtaken[n]]
     /\ UNCHANGED <<set, queue, snd_nxt, ssthresh, dead, receiver, data, lost>>

-----------------------------------------------------------------------------
Next ==
  \/ Send
  \/ Flush
  \/ \E m \in data : Arrive(m) \/ LoseData(m)
  \/ \E wnd \in PeerWindows : AckFlush(wnd)
  \/ \E p \in acks : Input(p) \/ LoseAcks(p)

Spec == Init /\ [][Next]_vars

(* Time goes on: the program's loop calls ikcp_update for ever.  That what *)
(* is in transit arrives or is lost within RttMax is part of Flush.        *)
Fairness ==
  WF_vars(\/ Flush
          \/ \E m \in data : Arrive(m)
          \/ \E wnd \in PeerWindows : AckFlush(wnd)
          \/ \E p \in acks : Input(p))

FairSpec == Spec /\ Fairness

-----------------------------------------------------------------------------
(* Types.  Every count is a natural number, and what is in flight has      *)
(* numbers from snd_una to below snd_nxt.                                  *)
TypeOK ==
  /\ set \in Settings
  /\ queue \in Nat /\ snd_una \in Nat /\ snd_nxt \in Nat /\ rmt_wnd \in Nat
  /\ cwnd \in Nat /\ ssthresh \in Nat /\ incr \in Nat
  /\ rtt \in Estimate /\ dead \in BOOLEAN
  /\ got \subseteq Sn /\ acklist \in Seq(Copy)
  /\ data \subseteq Copy /\ acks \subseteq Acks
  /\ DOMAIN seg \subseteq snd_una..snd_nxt-1
  /\ \A n \in DOMAIN seg : seg[n] \in Segment
  /\ {lost, overtaken} \subseteq [Sn -> Nat]

(* Every transmission of a segment after its first is paid for: by a copy, *)
(* or its acknowledgement, that got lost, or by fastresend packets that    *)
(* acknowledged what was sent after it.  While no round trip reaches       *)
(* rx_minrto the timers of ikcp_flush resend nothing that would have been  *)
(* acknowledged.                                                           *)
ResendsAccounted ==
  \A n \in DOMAIN seg :
    LET skips == IF set.fastresend = 0 THEN 0
                 ELSE overtaken[n] \div set.fastresend
    IN seg[n].xmit - 1 <= lost[n] + skips

(* cwnd counts segments and incr bytes of the same window: they never      *)
(* drift a segment apart, whatever grows or cuts them.                     *)
CwndTracksIncr ==
  cwnd > 0 => (cwnd - 1) * Mss < incr /\ incr < (cwnd + 1) * Mss

(* An acknowledgement never raises the window past what the peer           *)
(* advertises, though one step of ikcp_input can raise it by two segments. *)
GrowthWithinPeer ==
  [][\A p \in acks : Input(p) => cwnd' <= Larger(cwnd, p.wnd)]_vars

(* Whatever the network loses, all that was sent is acknowledged in the    *)
(* end: neither the timers nor a congestion window that starts at 0 and    *)
(* falls with each timeout can stop the sender.                            *)
Acknowledged == snd_nxt + queue = Traffic ~> snd_una = Traffic
=============================================================================
