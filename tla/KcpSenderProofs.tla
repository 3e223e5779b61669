--------------------------- MODULE KcpSenderProofs --------------------------
(***************************************************************************)
(* What TLAPS proves of KcpRtt and KcpSender: the timeout stays in its     *)
(* bounds and, once the network is steady, above the round trip; the       *)
(* congestion window never leaves the bytes it stands for, nor, by an      *)
(* acknowledgement, the window of the peer; and what is sent again was     *)
(* lost or overtaken, never only late.  All of it for any number of        *)
(* segments, any windows and any segment size.                             *)
(***************************************************************************)
EXTENDS KcpSender, NumberFacts, FiniteSetTheorems

-----------------------------------------------------------------------------
(* The round-trip estimate.                                                *)

LEMMA RtoValue ==
  ASSUME NEW srtt \in Nat, NEW rttval \in Nat
  PROVE  /\ RtoOf(srtt, rttval) \in MinRto..MaxRto
         /\ \/ RtoOf(srtt, rttval) >= srtt + Interval
            \/ RtoOf(srtt, rttval) = MaxRto
BY RtoAssumption DEF RtoOf, Larger, Smaller

(* Whatever the sample, ikcp_update_ack leaves rx_rto between rx_minrto    *)
(* and IKCP_RTO_MAX, an interval above srtt where that maximum allows.     *)
THEOREM RtoBounds ==
  ASSUME NEW e \in Estimate, NEW sample \in Nat
  PROVE  LET u == UpdateAck(e, sample) IN
         /\ u \in Estimate
         /\ u.rto \in MinRto..MaxRto
         /\ u.rto >= u.srtt + Interval \/ u.rto = MaxRto
<1>. DEFINE srtt   == IF e.srtt = 0 THEN sample ELSE Smoothed(e.srtt, sample)
            rttval == IF e.srtt = 0 THEN sample \div 2
                      ELSE Varied(e.rttval, e.srtt, sample)
<1>1. e.srtt \in Nat /\ e.rttval \in Nat
  BY DEF Estimate
<1>2. srtt \in Nat
  BY <1>1 DEF Smoothed, Larger
<1>3. rttval \in Nat
  <2>1. Distance(sample, e.srtt) \in Nat
    BY <1>1 DEF Distance
  <2>2. Varied(e.rttval, e.srtt, sample) \in Nat
    BY <1>1, <2>1 DEF Varied
  <2>. QED
    BY <2>2
<1>4. UpdateAck(e, sample) = [srtt |-> srtt, rttval |-> rttval,
                            rto |-> RtoOf(srtt, rttval)]
  BY DEF UpdateAck
<1>. HIDE DEF srtt, rttval
<1>5. /\ RtoOf(srtt, rttval) \in MinRto..MaxRto
      /\ \/ RtoOf(srtt, rttval) >= srtt + Interval
         \/ RtoOf(srtt, rttval) = MaxRto
  BY <1>2, <1>3, RtoValue
<1>6. RtoOf(srtt, rttval) \in Nat
  BY <1>5, RtoAssumption
<1>. QED
  BY <1>2, <1>3, <1>4, <1>5, <1>6 DEF Estimate

(* The smoothed time stays among the samples it was made of: rounding down *)
(* at every step does not take it below the least of them.                 *)
LEMMA SmoothedStays ==
  ASSUME NEW low \in Nat \ {0}, NEW high \in Nat,
         NEW srtt \in low..high, NEW sample \in low..high
  PROVE  Smoothed(srtt, sample) \in low..high
<1>1. 8 * low <= 7 * srtt + sample /\ 7 * srtt + sample <= 8 * high
  OBVIOUS
<1>2. (7 * srtt + sample) \div 8 \in low..high
  BY <1>1
<1>. QED
  BY <1>2 DEF Smoothed, Larger

(* Where the smoothed time stops below a round trip that no longer         *)
(* changes: fewer than 8 ticks away, and it never falls back.              *)
LEMMA SmoothedRises ==
  ASSUME NEW srtt \in Nat \ {0}, NEW sample \in Nat, srtt <= sample
  PROVE  /\ Smoothed(srtt, sample) \in srtt..sample
         /\ sample - srtt >= 8 => Smoothed(srtt, sample) > srtt
<1>1. Smoothed(srtt, sample) \in srtt..sample
  BY SmoothedStays
<1>2. ASSUME sample - srtt >= 8 PROVE Smoothed(srtt, sample) > srtt
  <2>1. 7 * srtt + sample >= 8 * (srtt + 1)
    BY <1>2
  <2>2. (7 * srtt + sample) \div 8 >= srtt + 1
    BY <2>1
  <2>. QED
    BY <2>2 DEF Smoothed, Larger
<1>. QED
  BY <1>1, <1>2

(* Once every sample is the same, and srtt has come within the 7 ticks at  *)
(* which rounding stops it, rx_rto is above the round trip for good: with  *)
(* an interval of 8 ticks and more (the program sets 10) no segment of a   *)
(* steady network is resent by its timer.                                  *)
THEOREM SteadyRto ==
  ASSUME NEW e \in Estimate, NEW sample \in Nat, Interval >= 8,
         e.srtt > 0, e.srtt <= sample, sample - e.srtt < 8, sample < MaxRto
  PROVE  LET u == UpdateAck(e, sample) IN
         /\ u.rto > sample
         /\ u.srtt > 0 /\ u.srtt <= sample /\ sample - u.srtt < 8
<1>. DEFINE u == UpdateAck(e, sample)
<1>1. e.srtt \in Nat \ {0}
  BY DEF Estimate
<1>2. u.srtt = Smoothed(e.srtt, sample)
  BY <1>1 DEF UpdateAck
<1>3. u.srtt \in e.srtt..sample
  BY <1>1, <1>2, SmoothedRises
<1>4. u \in Estimate /\ (u.rto >= u.srtt + Interval \/ u.rto = MaxRto)
  BY RtoBounds
<1>. HIDE DEF u
<1>5. u.rto \in Nat /\ Interval \in Nat /\ MaxRto \in Nat
  BY <1>4, RtoAssumption DEF Estimate
<1>. QED
  BY <1>1, <1>3, <1>4, <1>5 DEF u

-----------------------------------------------------------------------------
(* The congestion window.                                                  *)

(* cwnd segments and incr bytes are less than a segment apart.             *)
Tracks(c, b) == IF c = 0 THEN b = 0 ELSE (c - 1) * Mss < b /\ b < (c + 1) * Mss

(* The inductive invariant: types of what the window depends on, the       *)
(* numbers in flight, and the two counts of the window together.           *)
IndInv ==
  /\ set \in Settings
  /\ queue \in Nat /\ snd_una \in Nat /\ snd_nxt \in Nat
  /\ snd_una <= snd_nxt /\ snd_nxt <= snd_una + SndWnd
  /\ DOMAIN seg \subseteq snd_una..snd_nxt - 1
  /\ rmt_wnd \in Nat
  /\ cwnd \in Nat /\ incr \in Nat /\ ssthresh \in Nat \ {0}
  /\ \A p \in acks : p.wnd \in Nat /\ "wnd" \in DOMAIN p
  /\ Tracks(cwnd, incr)

LEMMA Bounds ==
  /\ Mss \in Nat /\ Mss > 0 /\ SndWnd \in Nat /\ WndRcv \in Nat
  /\ ThreshMin \in Nat /\ ThreshMin > 0 /\ PeerWindows \subseteq Nat
  /\ \A s \in Settings : s.fastresend \in Nat
BY SettingsAssumption

LEMMA InitEstablishes == Init => IndInv
<1>. SUFFICES ASSUME Init PROVE IndInv
  OBVIOUS
<1>1. seg = <<>> /\ snd_una = 0 /\ snd_nxt = 0
  BY DEF Init
<1>2. DOMAIN seg \subseteq snd_una..snd_nxt - 1
  BY <1>1
<1>. QED
  BY <1>1, <1>2, Bounds DEF Init, IndInv, Tracks

(* A window of c segments and c * Mss bytes.                               *)
LEMMA WholeTracks ==
  ASSUME NEW c \in Nat PROVE c * Mss \in Nat /\ Tracks(c, c * Mss)
<1>1. c * Mss \in Nat /\ (c - 1) * Mss = c * Mss - Mss
        /\ (c + 1) * Mss = c * Mss + Mss /\ 0 * Mss = 0
  BY Bounds
<1>. QED
  BY <1>1, Bounds DEF Tracks

(* Slow start and congestion avoidance of ikcp_input keep the counts       *)
(* together: where cwnd follows incr it is incr in segments, rounded up.   *)
LEMMA GrownTracks ==
  ASSUME cwnd \in Nat, incr \in Nat, ssthresh \in Nat \ {0},
         Tracks(cwnd, incr)
  PROVE  /\ Grown.cwnd \in Nat /\ Grown.incr \in Nat
         /\ Tracks(Grown.cwnd, Grown.incr)
<1>. DEFINE next == (cwnd + 1) * Mss
<1>1. /\ next = cwnd * Mss + Mss /\ cwnd * Mss \in Nat
      /\ (cwnd - 1) * Mss = cwnd * Mss - Mss
      /\ (cwnd + 2) * Mss = cwnd * Mss + Mss + Mss
  BY Bounds
<1>2. CASE cwnd < ssthresh
  <2>1. Grown = [cwnd |-> cwnd + 1, incr |-> incr + Mss]
    BY <1>2 DEF Grown
  <2>2. cwnd = 0 => cwnd * Mss = 0
    BY Bounds
  <2>3. ((cwnd + 1) - 1) * Mss = cwnd * Mss
          /\ ((cwnd + 1) + 1) * Mss = cwnd * Mss + Mss + Mss
    BY <1>1, Bounds
  <2>4. Tracks(cwnd + 1, incr + Mss)
    BY <1>1, <2>2, <2>3, Bounds DEF Tracks
  <2>. QED
    BY <2>1, <2>4, Bounds
<1>3. CASE ~ (cwnd < ssthresh)
  <2>1. cwnd > 0
    BY <1>3
  <2>. DEFINE low == Larger(incr, Mss)
  <2>2. low \in Nat \ {0} /\ low >= incr
    BY Bounds DEF Larger
  <2>3. (Mss * Mss) \div low \in Nat /\ Mss \div 16 \in Nat
    <3>1. Mss * Mss \in Nat
      BY Bounds
    <3>2. (Mss * Mss) \div low \in Nat
      BY <2>2, <3>1
    <3>. QED
      BY <3>2, Bounds
  <2>4. Raised \in Nat /\ Raised >= incr
    BY <2>2, <2>3 DEF Raised
  <2>5. CASE next <= Raised
    <3>. DEFINE c == (Raised + Mss - 1) \div Mss
    <3>1. Grown = [cwnd |-> c, incr |-> Raised]
      BY <1>3, <2>5 DEF Grown
    <3>2. Raised > 0
      BY <1>1, <2>4, <2>5, Bounds
    <3>3. /\ c \in Int
          /\ Raised + Mss - 1 = c * Mss + ((Raised + Mss - 1) % Mss)
          /\ (Raised + Mss - 1) % Mss \in 0..Mss - 1
      <4>1. Raised + Mss - 1 \in Int /\ Mss \in Nat \ {0}
        BY <2>4, Bounds
      <4>. QED
        BY <4>1, Division
    <3>. HIDE DEF c
    <3>4. c * Mss >= Raised /\ c * Mss < Raised + Mss
      BY <2>4, <3>3, Bounds
    <3>5. c > 0
      <4>1. c <= 0 => c * Mss <= 0
        BY <3>3, Bounds
      <4>. QED
        BY <2>4, <3>2, <3>3, <3>4, <4>1, Bounds
    <3>6. (c - 1) * Mss = c * Mss - Mss /\ (c + 1) * Mss = c * Mss + Mss
      BY <3>3, Bounds
    <3>7. c * Mss \in Int
      BY <3>3, Bounds
    <3>8. Tracks(c, Raised)
      BY <2>4, <3>3, <3>4, <3>5, <3>6, <3>7, Bounds DEF Tracks
    <3>. QED
      BY <2>4, <3>1, <3>3, <3>5, <3>8
  <2>6. CASE ~ (next <= Raised)
    <3>1. Grown = [cwnd |-> cwnd, incr |-> Raised]
      BY <1>3, <2>6 DEF Grown
    <3>2. Tracks(cwnd, Raised)
      BY <1>1, <2>1, <2>4, <2>6, Bounds DEF Tracks
    <3>. QED
      BY <2>4, <3>1, <3>2
  <2>. QED
    BY <2>5, <2>6
<1>. QED
  BY <1>2, <1>3

(* Cut to the peer's window, they still are together.                      *)
LEMMA CutTracks ==
  ASSUME NEW g, g.cwnd \in Nat, g.incr \in Nat, Tracks(g.cwnd, g.incr),
         NEW wnd \in Nat
  PROVE  /\ Cut(g, wnd).cwnd \in Nat /\ Cut(g, wnd).incr \in Nat
         /\ Cut(g, wnd).cwnd <= wnd
         /\ Tracks(Cut(g, wnd).cwnd, Cut(g, wnd).incr)
<1>1. CASE g.cwnd > wnd
  <2>1. Cut(g, wnd) = [cwnd |-> wnd, incr |-> wnd * Mss]
    BY <1>1 DEF Cut
  <2>. QED
    BY <2>1, WholeTracks
<1>2. CASE ~ (g.cwnd > wnd)
  BY <1>2 DEF Cut
<1>. QED
  BY <1>1, <1>2

-----------------------------------------------------------------------------
(* One lemma per kind of step.                                             *)

(* Steps that leave the window, the numbers and the packets of             *)
(* acknowledgements alone.                                                 *)
LEMMA OthersPreserve ==
  ASSUME IndInv, queue' \in Nat, acks' \subseteq acks,
         UNCHANGED <<set, sender>>
  PROVE  IndInv'
BY DEF IndInv, Tracks, sender

LEMMA WindowBounded ==
  ASSUME IndInv PROVE Window \in Nat /\ Window <= SndWnd
BY Bounds DEF IndInv, Window, Smaller

LEMMA AdmittedBounded ==
  ASSUME IndInv
  PROVE  /\ Admitted \in Nat /\ Admitted <= queue
         /\ snd_nxt + Admitted <= snd_una + SndWnd
BY WindowBounded, Bounds DEF IndInv, Admitted, Smaller, Larger

LEMMA HalfPositive ==
  ASSUME NEW n \in Nat PROVE Half(n) \in Nat \ {0}
BY Bounds DEF Half, Larger

(* A flush: a timeout sets the window to one segment, a fast resend to     *)
(* ssthresh and fastresend more, and an empty window is opened; incr       *)
(* follows each time.                                                      *)
LEMMA AdaptPreserves ==
  ASSUME IndInv, NEW out \in BOOLEAN, NEW fast \in BOOLEAN,
         snd_nxt' \in Nat, snd_una <= snd_nxt',
         AdaptWindow(out, fast)
  PROVE  /\ cwnd' \in Nat /\ incr' \in Nat /\ ssthresh' \in Nat \ {0}
         /\ Tracks(cwnd', incr')
<1>1. /\ cwnd \in Nat /\ incr \in Nat /\ ssthresh \in Nat \ {0}
      /\ Tracks(cwnd, incr) /\ snd_una \in Nat /\ set \in Settings
  BY DEF IndInv
<1>2. ssthresh' \in Nat \ {0}
  <2>1. Half(Window) \in Nat \ {0}
    BY WindowBounded, HalfPositive
  <2>2. snd_nxt' - snd_una \in Nat
    <3>1. snd_una \in Nat
      BY <1>1
    <3>2. \A a \in Nat, b \in Nat : a <= b => b - a \in Nat
      OBVIOUS
    <3>. QED
      BY <3>1, <3>2
  <2>3. Half(snd_nxt' - snd_una) \in Nat \ {0}
    BY <2>2, HalfPositive
  <2>. QED
    BY <1>1, <2>1, <2>3 DEF AdaptWindow
<1>3. cwnd' \in Nat
  <2>1. set.fastresend \in Nat
    BY <1>1, Bounds
  <2>2. ssthresh' + set.fastresend \in Nat
    BY <1>2, <2>1
  <2>3. Floor(cwnd) \in Nat
    BY <1>1 DEF Floor, Larger
  <2>. QED
    BY <2>2, <2>3 DEF AdaptWindow
<1>4. CASE out \/ fast \/ cwnd = 0
  <2>1. incr' = cwnd' * Mss
    BY <1>4 DEF AdaptWindow, Bytes
  <2>. QED
    BY <1>2, <1>3, <2>1, WholeTracks
<1>5. CASE ~ (out \/ fast \/ cwnd = 0)
  <2>1. cwnd' = cwnd /\ incr' = incr
    BY <1>1, <1>5 DEF AdaptWindow, Floor, Larger
  <2>. QED
    BY <1>1, <1>2, <2>1
<1>. QED
  BY <1>4, <1>5

LEMMA FlushPreserves == ASSUME IndInv, Flush PROVE IndInv'
<1>1. /\ Admitted \in Nat /\ Admitted <= queue
      /\ snd_nxt + Admitted <= snd_una + SndWnd
  BY AdmittedBounded
<1>2. /\ queue \in Nat /\ snd_una \in Nat /\ snd_nxt \in Nat
      /\ snd_una <= snd_nxt /\ DOMAIN seg \subseteq snd_una..snd_nxt - 1
      /\ set \in Settings /\ rmt_wnd \in Nat
  BY DEF IndInv
<1>3. /\ snd_nxt' = snd_nxt + Admitted /\ queue' = queue - Admitted
      /\ snd_una' = snd_una /\ set' = set /\ rmt_wnd' = rmt_wnd
  BY DEF Flush
<1>4. /\ queue' \in Nat /\ snd_nxt' \in Nat
      /\ snd_una' <= snd_nxt' /\ snd_nxt' <= snd_una' + SndWnd
  BY <1>1, <1>2, <1>3
<1>5. DOMAIN seg' \subseteq snd_una'..snd_nxt' - 1
  <2>1. DOMAIN seg' = DOMAIN seg \cup (snd_nxt..(snd_nxt + Admitted - 1))
    BY DEF Flush
  <2>. QED
    BY <1>1, <1>2, <1>3, <2>1
<1>6. \A p \in acks' : p.wnd \in Nat /\ "wnd" \in DOMAIN p
  <2>1. acks' = {[p EXCEPT !.acks = Older(@)] : p \in acks}
    BY DEF Flush
  <2>2. \A p \in acks : p.wnd \in Nat /\ "wnd" \in DOMAIN p
    BY DEF IndInv
  <2>3. ASSUME NEW p \in acks
        PROVE  LET q == [p EXCEPT !.acks = Older(@)]
               IN q.wnd \in Nat /\ "wnd" \in DOMAIN q
    BY <2>2
  <2>. QED
    BY <2>1, <2>3
<1>7. /\ cwnd' \in Nat /\ incr' \in Nat /\ ssthresh' \in Nat \ {0}
      /\ Tracks(cwnd', incr')
  <2>1. PICK out \in BOOLEAN, fast \in BOOLEAN : AdaptWindow(out, fast)
    BY DEF Flush
  <2>. QED
    BY <1>3, <1>4, <2>1, AdaptPreserves
<1>. QED
  BY <1>2, <1>3, <1>4, <1>5, <1>6, <1>7 DEF IndInv, Tracks

LEMMA AckFlushPreserves ==
  ASSUME IndInv, NEW wnd \in PeerWindows, AckFlush(wnd) PROVE IndInv'
<1>. DEFINE new == [acks |-> acklist, una |-> FirstMissing, wnd |-> wnd]
<1>1. acks' = acks \cup {new} /\ UNCHANGED <<set, queue, sender>>
  BY DEF AckFlush
<1>2. new.wnd \in Nat /\ "wnd" \in DOMAIN new
  BY Bounds
<1>. HIDE DEF new
<1>. QED
  BY <1>1, <1>2 DEF IndInv, Tracks, sender

(* What is left in flight starts at the new snd_una, which never falls.    *)
LEMMA FirstOfBounds ==
  ASSUME IndInv, NEW buf, buf \subseteq DOMAIN seg
  PROVE  /\ FirstOf(buf) \in snd_una..snd_nxt
         /\ buf \subseteq FirstOf(buf)..snd_nxt - 1
<1>1. /\ snd_una \in Nat /\ snd_nxt \in Nat /\ snd_una <= snd_nxt
      /\ buf \subseteq snd_una..snd_nxt - 1
  BY DEF IndInv
<1>2. CASE buf = {}
  BY <1>1, <1>2 DEF FirstOf
<1>3. CASE buf # {}
  <2>1. \E x \in buf : \A y \in buf : x <= y
    <3>1. buf \subseteq Nat
      BY <1>1
    <3>. QED
      BY <1>3, <3>1, LeastExists
  <2>2. Min(buf) \in buf /\ \A y \in buf : Min(buf) <= y
    BY <2>1 DEF Min
  <2>3. FirstOf(buf) = Min(buf)
    BY <1>3 DEF FirstOf
  <2>. QED
    BY <1>1, <2>2, <2>3
<1>. QED
  BY <1>2, <1>3

(* cwnd and incr after a packet of acknowledgements.                       *)
LEMMA InputWindow ==
  ASSUME IndInv, NEW p \in acks, Input(p)
  PROVE  /\ cwnd' \in Nat /\ incr' \in Nat /\ Tracks(cwnd', incr')
         /\ cwnd' <= Larger(cwnd, p.wnd)
<1>1. /\ cwnd \in Nat /\ incr \in Nat /\ ssthresh \in Nat \ {0}
      /\ Tracks(cwnd, incr) /\ p.wnd \in Nat
  BY DEF IndInv
<1>. DEFINE g == Cut(Grown, p.wnd)
<1>2. /\ g.cwnd \in Nat /\ g.incr \in Nat /\ g.cwnd <= p.wnd
      /\ Tracks(g.cwnd, g.incr)
  <2>1. /\ Grown.cwnd \in Nat /\ Grown.incr \in Nat
        /\ Tracks(Grown.cwnd, Grown.incr)
    BY <1>1, GrownTracks
  <2>. QED
    BY <1>1, <2>1, CutTracks
<1>3. \/ cwnd' = g.cwnd /\ incr' = g.incr
      \/ cwnd' = cwnd /\ incr' = incr
  BY DEF Input
<1>. HIDE DEF g
<1>. QED
  BY <1>1, <1>2, <1>3 DEF Larger

LEMMA InputPreserves ==
  ASSUME IndInv, NEW p \in acks, Input(p) PROVE IndInv'
<1>. DEFINE buf == Unacked(p)
<1>1. buf \subseteq DOMAIN seg
  BY DEF Unacked
<1>2. /\ snd_una' = FirstOf(buf) /\ snd_nxt' = snd_nxt /\ queue' = queue
      /\ set' = set /\ ssthresh' = ssthresh /\ rmt_wnd' = p.wnd
      /\ acks' \subseteq acks /\ DOMAIN seg' = buf
  BY DEF Input
<1>. HIDE DEF buf
<1>3. /\ FirstOf(buf) \in snd_una..snd_nxt
      /\ buf \subseteq FirstOf(buf)..snd_nxt - 1
  BY <1>1, FirstOfBounds
<1>4. /\ set \in Settings /\ queue \in Nat /\ snd_una \in Nat /\ snd_nxt \in Nat
      /\ snd_nxt <= snd_una + SndWnd /\ ssthresh \in Nat \ {0}
      /\ \A q \in acks : q.wnd \in Nat /\ "wnd" \in DOMAIN q
  BY DEF IndInv
<1>5. /\ snd_una' \in Nat /\ snd_una' <= snd_nxt' /\ snd_nxt' <= snd_una' + SndWnd
      /\ DOMAIN seg' \subseteq snd_una'..snd_nxt' - 1
  BY <1>2, <1>3, <1>4, Bounds
<1>6. cwnd' \in Nat /\ incr' \in Nat /\ Tracks(cwnd', incr')
  BY InputWindow
<1>. QED
  BY <1>2, <1>4, <1>5, <1>6 DEF IndInv, Tracks

LEMMA NextPreserves == ASSUME IndInv, [Next]_vars PROVE IndInv'
<1>1. CASE Send
  <2>1. queue \in Nat
    BY DEF IndInv
  <2>2. queue' \in Nat /\ acks' \subseteq acks /\ UNCHANGED <<set, sender>>
    BY <1>1, <2>1 DEF Send
  <2>. QED
    BY <2>2, OthersPreserve
<1>2. CASE Flush
  BY <1>2, FlushPreserves
<1>3. ASSUME NEW m \in data, Arrive(m) \/ LoseData(m) PROVE IndInv'
  <2>1. queue' = queue /\ acks' \subseteq acks /\ UNCHANGED <<set, sender>>
    BY <1>3 DEF Arrive, LoseData
  <2>2. queue' \in Nat
    BY <2>1 DEF IndInv
  <2>. QED
    BY <2>1, <2>2, OthersPreserve
<1>4. ASSUME NEW wnd \in PeerWindows, AckFlush(wnd) PROVE IndInv'
  BY <1>4, AckFlushPreserves
<1>5. ASSUME NEW p \in acks, Input(p) PROVE IndInv'
  BY <1>5, InputPreserves
<1>6. ASSUME NEW p \in acks, LoseAcks(p) PROVE IndInv'
  <2>1. queue' = queue /\ acks' \subseteq acks /\ UNCHANGED <<set, sender>>
    BY <1>6 DEF LoseAcks
  <2>2. queue' \in Nat
    BY <2>1 DEF IndInv
  <2>. QED
    BY <2>1, <2>2, OthersPreserve
<1>7. CASE UNCHANGED vars
  <2>1. queue' = queue /\ acks' = acks /\ UNCHANGED <<set, sender>>
    BY <1>7 DEF vars
  <2>2. queue' \in Nat
    BY <2>1 DEF IndInv
  <2>. QED
    BY <2>1, <2>2, OthersPreserve
<1>. QED
  BY <1>1, <1>2, <1>3, <1>4, <1>5, <1>6, <1>7 DEF Next

-----------------------------------------------------------------------------
(* The inductive invariant holds in every state.                           *)
THEOREM Invariance == Spec => []IndInv
<1>. QED
  BY InitEstablishes, NextPreserves, PTL DEF Spec

(* The two counts of the congestion window, of ikcp_input and ikcp_flush,  *)
(* stay less than a segment apart, for every segment size, whatever the    *)
(* network loses.                                                          *)
THEOREM CwndTracks == Spec => []CwndTracksIncr
<1>1. IndInv => CwndTracksIncr
  BY DEF IndInv, Tracks, CwndTracksIncr
<1>. QED
  BY <1>1, Invariance, PTL

(* No more than snd_wnd numbers are in flight, which ikcp_flush compares   *)
(* with, wherever acknowledgements and the peer's windows move snd_una.    *)
THEOREM InFlightBounded == Spec => [](snd_nxt - snd_una <= SndWnd)
<1>1. IndInv => snd_nxt - snd_una <= SndWnd
  BY Bounds DEF IndInv
<1>. QED
  BY <1>1, Invariance, PTL

(* An acknowledgement leaves cwnd within the window the peer advertised    *)
(* in it, unless it was above that before.                                 *)
THEOREM GrowthBounded == Spec => GrowthWithinPeer
<1>1. ASSUME IndInv, [Next]_vars
      PROVE  [\A p \in acks : Input(p) => cwnd' <= Larger(cwnd, p.wnd)]_vars
  BY <1>1, InputWindow
<1>. QED
  BY <1>1, Invariance, PTL DEF Spec, GrowthWithinPeer

-----------------------------------------------------------------------------
(* Folds over finite sequences, through which ikcp_input goes over the     *)
(* acknowledgements of a packet, and the types they keep.                  *)

(* The greatest of a set of indices.                                       *)
LEMMA MaxOf ==
  ASSUME NEW n \in Nat, NEW s \in SUBSET (1..n), s # {}
  PROVE  Max(s) \in s /\ \A i \in s : i <= Max(s)
<1>. DEFINE T == {n - i : i \in s}
<1>1. T \subseteq Nat /\ T # {}
  OBVIOUS
<1>2. PICK t \in T : \A u \in T : t <= u
  BY <1>1, LeastExists
<1>3. PICK x \in s : t = n - x
  OBVIOUS
<1>4. ASSUME NEW i \in s PROVE i <= x
  <2>1. n - x <= n - i
    BY <1>2, <1>3
  <2>2. i \in Int /\ x \in Int
    OBVIOUS
  <2>. QED
    BY <2>1, <2>2
<1>5. \E y \in s : \A i \in s : y >= i
  <2>1. \A i \in s : x >= i
    BY <1>4
  <2>. QED
    BY <2>1
<1>. QED
  BY <1>5 DEF Max

(* A fold over the first indices exists: that over 1..k extends that over  *)
(* 1..k - 1 by what its step makes of k.                                   *)
FoldOf(g, S, base, step, k) ==
  /\ g \in [SUBSET (1..k) -> S]
  /\ g[{}] = base
  /\ \A s \in SUBSET (1..k) : s # {} => g[s] = step[<<g[s \ {Max(s)}], Max(s)>>]

LEMMA FoldExists ==
  ASSUME NEW S, NEW base \in S, NEW n \in Nat, NEW step \in [S \X (1..n) -> S]
  PROVE  \E g : FoldOf(g, S, base, step, n)
<1>. DEFINE T == {k \in 0..n : ~ \E g : FoldOf(g, S, base, step, k)}
<1>. SUFFICES ASSUME n \in T PROVE FALSE
  OBVIOUS
<1>1. PICK k \in T : \A j \in T : k <= j
  <2>1. T \subseteq Nat /\ T # {}
    OBVIOUS
  <2>. HIDE DEF T
  <2>. QED
    BY <2>1, LeastExists
<1>2. CASE k = 0
  <2>. DEFINE g == [s \in SUBSET (1..0) |-> base]
  <2>1. SUBSET (1..0) = {{}}
    OBVIOUS
  <2>2. FoldOf(g, S, base, step, 0)
    BY <2>1 DEF FoldOf
  <2>. QED
    BY <1>2, <2>2
<1>3. CASE k # 0
  <2>1. k \in 1..n /\ k - 1 \in 0..n /\ k - 1 \notin T
    BY <1>1, <1>3
  <2>2. PICK h : FoldOf(h, S, base, step, k - 1)
    BY <2>1
  <2>. HIDE DEF T
  <2>3. \A s \in SUBSET (1..k) : s \ {k} \in SUBSET (1..k - 1) /\ (k \notin s => s \in SUBSET (1..k - 1))
    BY <2>1
  <2>. DEFINE g == [s \in SUBSET (1..k) |->
                     IF k \in s THEN step[<<h[s \ {k}], k>>] ELSE h[s]]
  <2>4. g \in [SUBSET (1..k) -> S]
    BY <2>1, <2>2, <2>3 DEF FoldOf
  <2>5. g[{}] = base
    BY <2>2 DEF FoldOf
  <2>6. ASSUME NEW s \in SUBSET (1..k), s # {}
        PROVE  g[s] = step[<<g[s \ {Max(s)}], Max(s)>>]
    <3>1. Max(s) \in s /\ \A i \in s : i <= Max(s)
      <4>1. k \in Nat
        BY <2>1
      <4>. HIDE DEF g
      <4>. QED
        BY <4>1, <2>6, MaxOf
    <3>2. CASE k \in s
      <4>1. Max(s) = k
        <5>1. Max(s) \in 1..k /\ k <= Max(s)
          BY <3>1, <3>2
        <5>. QED
          BY <2>1, <5>1
      <4>2. s \ {k} \in SUBSET (1..k) /\ k \notin s \ {k}
        OBVIOUS
      <4>3. g[s \ {k}] = h[s \ {k}]
        BY <4>2
      <4>4. g[s] = step[<<h[s \ {k}], k>>]
        BY <3>2
      <4>. HIDE DEF g
      <4>. QED
        BY <4>1, <4>3, <4>4
    <3>3. CASE k \notin s
      <4>1. s \in SUBSET (1..k - 1) /\ s \ {Max(s)} \in SUBSET (1..k) /\ k \notin s \ {Max(s)}
        BY <2>3, <3>3
      <4>2. g[s] = h[s] /\ g[s \ {Max(s)}] = h[s \ {Max(s)}]
        BY <3>3, <4>1
      <4>. QED
        BY <2>2, <2>6, <4>1, <4>2 DEF FoldOf
    <3>. QED
      BY <3>2, <3>3
  <2>. HIDE DEF g
  <2>7. FoldOf(g, S, base, step, k)
    BY <2>4, <2>5, <2>6 DEF FoldOf
  <2>. QED
    BY <2>7, <1>1 DEF T
<1>. QED
  BY <1>2, <1>3

(* What a fold keeps at every step it keeps at the end.                    *)
LEMMA FoldKeeps ==
  ASSUME NEW S, NEW n \in Nat, NEW g, g[{}] \in S,
         \A s \in SUBSET (1..n) :
           s # {} /\ g[s \ {Max(s)}] \in S => g[s] \in S
  PROVE  g[1..n] \in S
<1>. DEFINE T == {k \in 0..n : \E s \in SUBSET (1..k) : g[s] \notin S}
<1>. SUFFICES ASSUME n \in T PROVE FALSE
  <2>1. n \in 0..n /\ 1..n \in SUBSET (1..n)
    OBVIOUS
  <2>. QED
    BY <2>1
<1>1. PICK k \in T : \A j \in T : k <= j
  <2>1. T \subseteq Nat /\ T # {}
    OBVIOUS
  <2>. HIDE DEF T
  <2>. QED
    BY <2>1, LeastExists
<1>2. PICK s \in SUBSET (1..k) : g[s] \notin S
  OBVIOUS
<1>3. s # {}
  BY <1>2
<1>4. k \in 0..n /\ s \in SUBSET (1..n)
  OBVIOUS
<1>5. Max(s) \in s /\ \A i \in s : i <= Max(s)
  BY <1>3, <1>4, MaxOf
<1>6. Max(s) \in 1..k /\ Max(s) - 1 \in 0..n /\ Max(s) - 1 < k
  <2>1. Max(s) \in 1..k
    BY <1>5
  <2>. QED
    BY <1>4, <2>1
<1>7. s \ {Max(s)} \in SUBSET (1..Max(s) - 1)
  <2>1. ASSUME NEW i \in s \ {Max(s)} PROVE i \in 1..Max(s) - 1
    <3>1. i \in 1..k /\ i <= Max(s) /\ i # Max(s)
      BY <1>5
    <3>. QED
      BY <1>6, <3>1
  <2>. QED
    BY <2>1
<1>8. Max(s) - 1 \notin T
  <2>1. \A j \in T : k <= j
    BY <1>1
  <2>2. k \in Int
    BY <1>4
  <2>. HIDE DEF T
  <2>. QED
    BY <1>6, <2>1, <2>2
<1>9. g[s \ {Max(s)}] \in S
  <2>. DEFINE j == Max(s) - 1
              r == s \ {Max(s)}
  <2>1. j \in 0..n /\ j \notin T /\ r \in SUBSET (1..j)
    BY <1>6, <1>7, <1>8
  <2>. HIDE DEF j, r
  <2>2. g[r] \in S
    BY <2>1
  <2>. QED
    BY <2>2 DEF r
<1>. HIDE DEF T
<1>. QED
  BY <1>2, <1>3, <1>4, <1>9

-----------------------------------------------------------------------------
(* The estimates ikcp_create and ikcp_update_ack make.                     *)
Estimates == {e \in Estimate : e.rto \in MinRto..MaxRto}

(* The samples of a packet, one after the other, leave an estimate with a  *)
(* timeout in its bounds.                                                  *)
LEMMA SamplesBounded ==
  ASSUME NEW e \in Estimates, NEW copies \in Seq(Copy)
  PROVE  FoldLeft(LAMBDA x, a : UpdateAck(x, a.age), e, copies) \in Estimates
<1>. DEFINE n    == Len(copies)
            step == [x \in Estimates \X (1..n) |->
                       UpdateAck(x[1], copies[x[2]].age)]
            Rec(g) == [s \in SUBSET (1..n) |->
                         IF s = {} THEN e
                         ELSE UpdateAck(g[s \ {Max(s)}], copies[Max(s)].age)]
            fold == CHOOSE g : g = Rec(g)
<1>1. n \in Nat /\ DOMAIN copies = 1..n
  OBVIOUS
<1>2. \A i \in 1..n : copies[i].age \in Nat
  <2>1. \A i \in 1..n : copies[i] \in Copy
    OBVIOUS
  <2>. QED
    BY <2>1 DEF Copy
<1>3. \A x \in Estimates, i \in 1..n : UpdateAck(x, copies[i].age) \in Estimates
  BY <1>2, RtoBounds DEF Estimates
<1>4. step \in [Estimates \X (1..n) -> Estimates]
  BY <1>3
<1>5. \A x \in Estimates, i \in 1..n :
        step[<<x, i>>] = UpdateAck(x, copies[i].age)
  OBVIOUS
<1>. HIDE DEF step
<1>6. PICK h : FoldOf(h, Estimates, e, step, n)
  BY <1>1, <1>4, FoldExists
<1>7. ASSUME NEW s \in SUBSET (1..n), s # {}
      PROVE  s \ {Max(s)} \in SUBSET (1..n) /\ Max(s) \in 1..n
  BY <1>1, <1>7, MaxOf
<1>8. h = Rec(h)
  <2>. HIDE DEF n
  <2>1. ASSUME NEW s \in SUBSET (1..n) PROVE h[s] = Rec(h)[s]
    <3>1. CASE s = {}
      BY <1>6, <3>1 DEF FoldOf
    <3>2. CASE s # {}
      <4>1. h[s \ {Max(s)}] \in Estimates /\ Max(s) \in 1..n
        BY <1>6, <1>7, <3>2 DEF FoldOf
      <4>2. h[s] = step[<<h[s \ {Max(s)}], Max(s)>>]
        BY <1>6, <3>2 DEF FoldOf
      <4>3. h[s] = UpdateAck(h[s \ {Max(s)}], copies[Max(s)].age)
        BY <1>5, <4>1, <4>2
      <4>. QED
        BY <3>2, <4>3
    <3>. QED
      BY <3>1, <3>2
  <2>2. DOMAIN h = SUBSET (1..n) /\ h = [s \in SUBSET (1..n) |-> h[s]]
    BY <1>6 DEF FoldOf
  <2>. QED
    BY <2>1, <2>2
<1>9. fold = Rec(fold)
  BY <1>8
<1>10. FoldLeft(LAMBDA x, a : UpdateAck(x, a.age), e, copies) = fold[1..n]
  BY <1>1 DEF FoldLeft, MapThenFoldSet
<1>. HIDE DEF fold
<1>11. fold[{}] \in Estimates
  BY <1>9
<1>12. ASSUME NEW s \in SUBSET (1..n), s # {}, fold[s \ {Max(s)}] \in Estimates
       PROVE  fold[s] \in Estimates
  <2>1. fold[s] = UpdateAck(fold[s \ {Max(s)}], copies[Max(s)].age)
    BY <1>9, <1>12
  <2>. QED
    BY <1>3, <1>7, <1>12, <2>1
<1>13. fold[1..n] \in Estimates
  <2>. HIDE DEF n
  <2>. QED
    BY <1>1, <1>11, <1>12, FoldKeeps
<1>. QED
  BY <1>10, <1>13

(* The acknowledgement that counts for the fast resend is one of the       *)
(* packet.                                                                 *)
LEMMA LatestIsOne ==
  ASSUME NEW T, NEW copies \in Seq(T), copies # <<>>
  PROVE  \E i \in DOMAIN copies : Latest(copies) = copies[i]
<1>. DEFINE S    == {copies[i] : i \in DOMAIN copies}
            tail == Tail(copies)
            n    == Len(tail)
            Pick(best, a) == IF a.sn > best.sn /\ a.age < best.age THEN a ELSE best
            step == [x \in S \X (1..n) |-> Pick(x[1], tail[x[2]])]
            Rec(g) == [s \in SUBSET (1..n) |->
                         IF s = {} THEN Head(copies)
                         ELSE Pick(g[s \ {Max(s)}], tail[Max(s)])]
            fold == CHOOSE g : g = Rec(g)
<1>1. /\ n \in Nat /\ DOMAIN tail = 1..n /\ Head(copies) \in S
      /\ \A i \in 1..n : tail[i] \in S
  <2>1. /\ Len(copies) \in Nat /\ Len(copies) >= 1 /\ DOMAIN copies = 1..Len(copies)
        /\ tail \in Seq(T) /\ Len(tail) = Len(copies) - 1
        /\ DOMAIN tail = 1..Len(tail)
        /\ Head(copies) = copies[1]
        /\ \A i \in 1..Len(tail) : tail[i] = copies[i + 1]
    OBVIOUS
  <2>2. \A i \in 1..n : i + 1 \in 1..Len(copies)
    BY <2>1
  <2>. HIDE DEF n, tail
  <2>. QED
    BY <2>1, <2>2 DEF n
<1>2. \A x \in S, i \in 1..n : Pick(x, tail[i]) \in S
  <2>. HIDE DEF S, n, tail
  <2>. QED
    BY <1>1
<1>3. \A x \in S, i \in 1..n : step[<<x, i>>] = Pick(x, tail[i])
  <2>. HIDE DEF S, n, tail, Pick
  <2>. QED
    OBVIOUS
<1>4. step \in [S \X (1..n) -> S]
  <2>. HIDE DEF S, n, tail, Pick
  <2>. QED
    BY <1>2
<1>5. Latest(copies) = fold[1..n]
  BY <1>1 DEF Latest, FoldLeft, MapThenFoldSet
<1>. HIDE DEF step, S, Pick, tail, n
<1>6. PICK h : FoldOf(h, S, Head(copies), step, n)
  BY <1>1, <1>4, FoldExists
<1>7. ASSUME NEW s \in SUBSET (1..n), s # {}
      PROVE  s \ {Max(s)} \in SUBSET (1..n) /\ Max(s) \in 1..n
  BY <1>1, <1>7, MaxOf
<1>8. h = Rec(h)
  <2>1. ASSUME NEW s \in SUBSET (1..n) PROVE h[s] = Rec(h)[s]
    <3>1. CASE s = {}
      BY <1>6, <3>1 DEF FoldOf
    <3>2. CASE s # {}
      <4>1. h[s \ {Max(s)}] \in S /\ Max(s) \in 1..n
        BY <1>6, <1>7, <3>2 DEF FoldOf
      <4>2. h[s] = step[<<h[s \ {Max(s)}], Max(s)>>]
        BY <1>6, <3>2 DEF FoldOf
      <4>3. h[s] = Pick(h[s \ {Max(s)}], tail[Max(s)])
        BY <1>3, <4>1, <4>2
      <4>. QED
        BY <3>2, <4>3
    <3>. QED
      BY <3>1, <3>2
  <2>2. DOMAIN h = SUBSET (1..n) /\ h = [s \in SUBSET (1..n) |-> h[s]]
    BY <1>6 DEF FoldOf
  <2>. QED
    BY <2>1, <2>2
<1>9. fold = Rec(fold)
  BY <1>8
<1>. HIDE DEF fold
<1>10. fold[{}] \in S
  BY <1>1, <1>9
<1>11. ASSUME NEW s \in SUBSET (1..n), s # {}, fold[s \ {Max(s)}] \in S
       PROVE  fold[s] \in S
  <2>1. fold[s] = Pick(fold[s \ {Max(s)}], tail[Max(s)])
    BY <1>9, <1>11
  <2>. QED
    BY <1>2, <1>7, <1>11, <2>1
<1>12. fold[1..n] \in S
  BY <1>1, <1>10, <1>11, FoldKeeps
<1>. QED
  BY <1>5, <1>12 DEF S

-----------------------------------------------------------------------------
(* Types.  Numbers stay below Traffic, for what is queued has room there;  *)
(* a packet of acknowledgements is never empty.                            *)
Types ==
  /\ IndInv /\ TypeOK
  /\ rtt \in Estimates
  /\ snd_nxt + queue <= Traffic
  /\ \A p \in acks : p.acks # <<>>

LEMMA InitTypes == Init => Types
<1>. SUFFICES ASSUME Init PROVE Types
  OBVIOUS
<1>1. IndInv
  BY InitEstablishes
<1>2. RtoDef \in Nat /\ RtoDef \in MinRto..MaxRto /\ Traffic \in Nat
  BY SettingsAssumption, RtoAssumption, TrafficAssumption
<1>3. rtt \in Estimates
  BY <1>2 DEF Init, Estimates, Estimate
<1>4. seg = <<>> /\ DOMAIN seg = {}
  BY DEF Init
<1>5. [n \in Sn |-> 0] \in [Sn -> Nat]
  OBVIOUS
<1>6. TypeOK
  <2>1. acklist \in Seq(Copy) /\ {lost, overtaken} \subseteq [Sn -> Nat]
    BY <1>5 DEF Init
  <2>2. \A n \in DOMAIN seg : seg[n] \in Segment
    BY <1>4
  <2>3. rtt \in Estimate /\ dead \in BOOLEAN /\ got = {} /\ data = {} /\ acks = {}
    BY <1>3 DEF Init, Estimates
  <2>. QED
    BY <1>1, <2>1, <2>2, <2>3 DEF TypeOK, IndInv
<1>. QED
  BY <1>1, <1>2, <1>3, <1>6 DEF Init, Types

(* Numbers in flight are numbers of the traffic.                           *)
LEMMA InFlightSn ==
  ASSUME Types PROVE DOMAIN seg \subseteq Sn /\ snd_nxt \in Nat /\ queue \in Nat
<1>1. /\ DOMAIN seg \subseteq snd_una..snd_nxt - 1 /\ snd_una \in Nat
      /\ snd_nxt \in Nat /\ queue \in Nat /\ snd_nxt + queue <= Traffic
  BY DEF Types, IndInv
<1>. QED
  BY <1>1, TrafficAssumption DEF Sn

(* What a flush makes of a segment, field by field.                        *)
LEMMA FieldSet ==
  ASSUME NEW s \in Segment, NEW x \in Nat, NEW f \in Nat, NEW a \in Nat,
         NEW l \in Int, NEW r \in Nat
  PROVE  /\ [s EXCEPT !.xmit = x] \in Segment
         /\ [s EXCEPT !.fastack = f] \in Segment
         /\ [s EXCEPT !.age = a] \in Segment
         /\ [s EXCEPT !.left = l] \in Segment
         /\ [s EXCEPT !.rto = r] \in Segment
BY DEF Segment

LEMMA SegmentFields ==
  ASSUME NEW s \in Segment
  PROVE  /\ s.xmit \in Nat /\ s.fastack \in Nat /\ s.age \in Nat
         /\ s.left \in Int /\ s.rto \in Nat
BY DEF Segment

LEMMA OlderSegment ==
  ASSUME NEW s \in Segment
  PROVE  LET o == [s EXCEPT !.age = @ + 1, !.left = @ - 1] IN
         /\ o \in Segment
         /\ o.xmit = s.xmit /\ o.fastack = s.fastack /\ o.age = s.age + 1
         /\ o.left = s.left - 1 /\ o.rto = s.rto
<1>. DEFINE t == [s EXCEPT !.age = s.age + 1]
<1>1. [s EXCEPT !.age = @ + 1, !.left = @ - 1] = [t EXCEPT !.left = t.left - 1]
  BY DEF Segment
<1>2. /\ t \in Segment /\ t.xmit = s.xmit /\ t.fastack = s.fastack
      /\ t.age = s.age + 1 /\ t.left = s.left /\ t.rto = s.rto
      /\ t.left - 1 \in Int
  BY SegmentFields, FieldSet DEF Segment
<1>. HIDE DEF t
<1>3. /\ [t EXCEPT !.left = t.left - 1] \in Segment
      /\ [t EXCEPT !.left = t.left - 1].xmit = t.xmit
      /\ [t EXCEPT !.left = t.left - 1].fastack = t.fastack
      /\ [t EXCEPT !.left = t.left - 1].age = t.age
      /\ [t EXCEPT !.left = t.left - 1].left = t.left - 1
      /\ [t EXCEPT !.left = t.left - 1].rto = t.rto
  BY <1>2 DEF Segment
<1>. QED
  BY <1>1, <1>2, <1>3

LEMMA AgainSegment ==
  ASSUME NEW s \in Segment
  PROVE  LET o == SentAgain(s) IN
         /\ o \in Segment
         /\ o.xmit = s.xmit + 1 /\ o.fastack = s.fastack /\ o.age = 0
         /\ o.rto = s.rto + s.rto \div 2 /\ o.left = o.rto
<1>. DEFINE r == s.rto + s.rto \div 2
            t == [s EXCEPT !.xmit = s.xmit + 1]
            u == [t EXCEPT !.age = 0]
            v == [u EXCEPT !.rto = r]
            w == [v EXCEPT !.left = r]
<1>1. r \in Nat /\ s.xmit + 1 \in Nat /\ r \in Int
  BY SegmentFields
<1>. HIDE DEF r
<1>2. SentAgain(s) = w
  BY DEF SentAgain, r
<1>3. /\ t \in Segment /\ t.xmit = s.xmit + 1 /\ t.fastack = s.fastack
  BY <1>1, FieldSet DEF Segment
<1>. HIDE DEF t
<1>4. /\ u \in Segment /\ u.xmit = t.xmit /\ u.fastack = t.fastack /\ u.age = 0
  BY <1>3, FieldSet DEF Segment
<1>. HIDE DEF u
<1>5. /\ v \in Segment /\ v.xmit = u.xmit /\ v.fastack = u.fastack
      /\ v.age = u.age /\ v.rto = r
  BY <1>1, <1>4, FieldSet DEF Segment
<1>. HIDE DEF v
<1>6. /\ w \in Segment /\ w.xmit = v.xmit /\ w.fastack = v.fastack
      /\ w.age = v.age /\ w.rto = v.rto /\ w.left = r
  BY <1>1, <1>5, FieldSet DEF Segment
<1>. QED
  BY <1>2, <1>3, <1>4, <1>5, <1>6 DEF r

LEMMA FastSegment ==
  ASSUME NEW s \in Segment
  PROVE  LET o == SentFast(s) IN
         /\ o \in Segment
         /\ o.xmit = s.xmit + 1 /\ o.fastack = 0 /\ o.age = 0
         /\ o.rto = s.rto /\ o.left = o.rto
<1>. DEFINE t == [s EXCEPT !.xmit = s.xmit + 1]
            u == [t EXCEPT !.fastack = 0]
            v == [u EXCEPT !.age = 0]
            w == [v EXCEPT !.left = s.rto]
<1>1. s.rto \in Nat /\ s.xmit + 1 \in Nat /\ s.rto \in Int
  BY SegmentFields
<1>2. SentFast(s) = w
  BY DEF SentFast
<1>3. /\ t \in Segment /\ t.xmit = s.xmit + 1 /\ t.rto = s.rto
  BY <1>1, FieldSet DEF Segment
<1>. HIDE DEF t
<1>4. /\ u \in Segment /\ u.xmit = t.xmit /\ u.fastack = 0 /\ u.rto = t.rto
  BY <1>3, FieldSet DEF Segment
<1>. HIDE DEF u
<1>5. /\ v \in Segment /\ v.xmit = u.xmit /\ v.fastack = u.fastack
      /\ v.age = 0 /\ v.rto = u.rto
  BY <1>4, FieldSet DEF Segment
<1>. HIDE DEF v
<1>6. /\ w \in Segment /\ w.xmit = v.xmit /\ w.fastack = v.fastack
      /\ w.age = v.age /\ w.rto = v.rto /\ w.left = s.rto
  BY <1>1, <1>5, FieldSet DEF Segment
<1>. QED
  BY <1>2, <1>3, <1>4, <1>5, <1>6

LEMMA NewSegment ==
  ASSUME Types
  PROVE  /\ FirstSent \in Segment
         /\ FirstSent.xmit = 1 /\ FirstSent.fastack = 0 /\ FirstSent.age = 0
         /\ FirstSent.left = FirstSent.rto /\ FirstSent.rto >= MinRto
<1>1. rtt.rto \in Nat /\ rtt.rto \in Int /\ rtt.rto >= MinRto
  BY RtoAssumption DEF Types, Estimates, Estimate
<1>. QED
  BY <1>1 DEF FirstSent, Segment

LEMMA FlushTypes == ASSUME Types, Flush PROVE Types'
<1>. DEFINE new  == snd_nxt..(snd_nxt + Admitted - 1)
            out  == TimedOut
            fast == OvertakenSegs(out)
<1>1. IndInv'
  BY FlushPreserves DEF Types
<1>2. Admitted \in Nat /\ Admitted <= queue
  BY AdmittedBounded DEF Types
<1>3. DOMAIN seg \subseteq Sn /\ snd_nxt \in Nat /\ queue \in Nat
  BY InFlightSn
<1>4. snd_nxt' = snd_nxt + Admitted /\ queue' = queue - Admitted
  BY DEF Flush
<1>5. snd_nxt' + queue' <= Traffic
  BY <1>2, <1>3, <1>4, TrafficAssumption DEF Types
<1>6. new \subseteq Sn
  BY <1>2, <1>3, TrafficAssumption DEF Types, Sn
<1>7. out \subseteq Sn /\ fast \subseteq Sn
  BY <1>3 DEF TimedOut, OvertakenSegs
<1>8. data' \subseteq Copy
  <2>1. data' = {[m EXCEPT !.age = @ + 1] : m \in data}
                  \cup {[sn |-> n, age |-> 0] : n \in new \cup out \cup fast}
    BY DEF Flush
  <2>2. data \subseteq Copy
    BY DEF Types, TypeOK
  <2>3. \A m \in Copy : [m EXCEPT !.age = @ + 1] \in Copy
    BY DEF Copy
  <2>4. \A n \in Sn : [sn |-> n, age |-> 0] \in Copy
    BY DEF Copy
  <2>. HIDE DEF new, out, fast
  <2>. QED
    BY <1>6, <1>7, <2>1, <2>2, <2>3, <2>4
<1>9. acks' \subseteq Acks /\ \A p \in acks' : p.acks # <<>>
  <2>1. acks' = {[p EXCEPT !.acks = Older(@)] : p \in acks}
    BY DEF Flush
  <2>2. ASSUME NEW p \in acks
        PROVE  LET q == [p EXCEPT !.acks = Older(@)]
               IN q \in Acks /\ q.acks # <<>>
    <3>1. p \in Acks /\ p.acks \in Seq(Copy) /\ p.acks # <<>>
      BY DEF Types, TypeOK, Acks
    <3>2. Older(p.acks) \in Seq(Copy) /\ Older(p.acks) # <<>>
      <4>. DEFINE cs == p.acks
      <4>1. Older(cs) = [i \in 1..Len(cs) |-> [cs[i] EXCEPT !.age = @ + 1]]
        BY <3>1 DEF Older
      <4>2. Len(cs) \in Nat /\ Len(cs) # 0
        BY <3>1
      <4>3. \A i \in 1..Len(cs) : [cs[i] EXCEPT !.age = @ + 1] \in Copy
        <5>1. \A i \in 1..Len(cs) : cs[i] \in Copy
          BY <3>1
        <5>. QED
          BY <5>1 DEF Copy
      <4>. HIDE DEF cs
      <4>4. Older(cs) \in Seq(Copy) /\ Len(Older(cs)) = Len(cs)
        BY <4>1, <4>2, <4>3
      <4>. QED
        BY <4>2, <4>4 DEF cs
    <3>. QED
      BY <3>1, <3>2 DEF Acks
  <2>. QED
    BY <2>1, <2>2
<1>10. \A n \in DOMAIN seg' : seg'[n] \in Segment
  <2>1. seg' = [n \in DOMAIN seg \cup new |->
                  IF n \in new THEN FirstSent
                  ELSE IF n \in out THEN SentAgain(Elapsed(n))
                  ELSE IF n \in fast THEN SentFast(Elapsed(n))
                  ELSE Elapsed(n)]
    BY DEF Flush
  <2>2. \A n \in DOMAIN seg : Elapsed(n) \in Segment
    BY OlderSegment DEF Types, TypeOK, Elapsed
  <2>3. \A n \in DOMAIN seg : /\ SentAgain(Elapsed(n)) \in Segment
                              /\ SentFast(Elapsed(n)) \in Segment
    BY <2>2, AgainSegment, FastSegment
  <2>4. FirstSent \in Segment
    BY NewSegment
  <2>. HIDE DEF new, out, fast
  <2>. QED
    BY <2>1, <2>2, <2>3, <2>4
<1>11. dead' \in BOOLEAN
  BY DEF Flush, Types, TypeOK
<1>12. UNCHANGED <<set, snd_una, rmt_wnd, rtt, receiver, lost, overtaken>>
  BY DEF Flush
<1>13. TypeOK'
  BY <1>1, <1>8, <1>9, <1>10, <1>11, <1>12 DEF Types, TypeOK, IndInv, receiver
<1>. QED
  BY <1>1, <1>5, <1>9, <1>12, <1>13 DEF Types

(* The first number the receiver misses.                                   *)
LEMMA FirstMissingIsNat == ASSUME got \subseteq Sn PROVE FirstMissing \in Nat
<1>. DEFINE T == {n \in 0..Traffic : n \notin got}
<1>1. T \subseteq Nat /\ Traffic \in T
  BY TrafficAssumption DEF Sn
<1>2. PICK n \in T : \A m \in T : n <= m
  BY <1>1, LeastExists
<1>3. n \in 0..Traffic /\ n \notin got /\ 0..n - 1 \subseteq got
  <2>1. \A m \in 0..n - 1 : m \in 0..Traffic /\ ~ (n <= m)
    BY TrafficAssumption
  <2>. QED
    BY <1>2, <2>1
<1>4. FirstMissing \in 0..Traffic
  BY <1>3 DEF FirstMissing
<1>. QED
  BY <1>4, TrafficAssumption

LEMMA CountIsNat ==
  ASSUME NEW copies \in Seq(Copy), NEW n
  PROVE  /\ {i \in DOMAIN copies : copies[i].sn = n} \subseteq 1..Len(copies)
         /\ IsFiniteSet({i \in DOMAIN copies : copies[i].sn = n})
         /\ Cardinality({i \in DOMAIN copies : copies[i].sn = n}) \in Nat
<1>. DEFINE K == {i \in DOMAIN copies : copies[i].sn = n}
<1>1. K \subseteq 1..Len(copies) /\ Len(copies) \in Nat
  OBVIOUS
<1>. HIDE DEF K
<1>2. IsFiniteSet(1..Len(copies))
  BY <1>1, FS_Interval
<1>3. IsFiniteSet(K)
  BY <1>1, <1>2, FS_Subset
<1>4. Cardinality(K) \in Nat
  BY <1>3, FS_CardinalityType
<1>. QED
  BY <1>1, <1>3, <1>4 DEF K

LEMMA ArriveTypes ==
  ASSUME Types, NEW m \in data, Arrive(m) PROVE Types'
<1>1. IndInv'
  <2>1. queue' = queue /\ acks' \subseteq acks /\ UNCHANGED <<set, sender>>
    BY DEF Arrive
  <2>. QED
    BY <2>1, OthersPreserve DEF Types, TypeOK
<1>2. m \in Copy /\ m.sn \in Sn /\ acklist \in Seq(Copy) /\ got \subseteq Sn
  BY DEF Types, TypeOK, Copy
<1>3. acklist' \in Seq(Copy) /\ got' \subseteq Sn /\ data' \subseteq data
  BY <1>2 DEF Arrive
<1>4. UNCHANGED <<set, queue, sender, dead, acks, lost, overtaken>>
  BY DEF Arrive
<1>5. TypeOK'
  BY <1>3, <1>4 DEF Types, TypeOK, sender
<1>. QED
  BY <1>1, <1>4, <1>5 DEF Types, sender

LEMMA AckFlushTypes ==
  ASSUME Types, NEW wnd \in PeerWindows, AckFlush(wnd) PROVE Types'
<1>1. IndInv'
  BY AckFlushPreserves DEF Types
<1>. DEFINE p == [acks |-> acklist, una |-> FirstMissing, wnd |-> wnd]
<1>2. p \in Acks /\ p.acks # <<>>
  <2>1. acklist \in Seq(Copy) /\ acklist # <<>> /\ wnd \in Nat
    BY Bounds DEF Types, TypeOK, AckFlush
  <2>2. FirstMissing \in Nat
    BY FirstMissingIsNat DEF Types, TypeOK
  <2>. QED
    BY <2>1, <2>2 DEF Acks
<1>3. /\ acks' = acks \cup {p} /\ acklist' = <<>>
      /\ UNCHANGED <<set, queue, sender, dead, got, data, lost, overtaken>>
  BY DEF AckFlush
<1>. HIDE DEF p
<1>4. TypeOK'
  BY <1>2, <1>3 DEF Types, TypeOK, sender
<1>. QED
  BY <1>1, <1>2, <1>3, <1>4 DEF Types, sender

LEMMA LoseDataTypes ==
  ASSUME Types, NEW m \in data, LoseData(m) PROVE Types'
<1>1. IndInv'
  <2>1. queue' = queue /\ acks' \subseteq acks /\ UNCHANGED <<set, sender>>
    BY DEF LoseData
  <2>. QED
    BY <2>1, OthersPreserve DEF Types, TypeOK
<1>2. m.sn \in Sn /\ lost \in [Sn -> Nat]
  BY DEF Types, TypeOK, Copy
<1>3. lost' \in [Sn -> Nat] /\ data' \subseteq data
  BY <1>2 DEF LoseData
<1>4. UNCHANGED <<set, queue, sender, dead, receiver, acks, overtaken>>
  BY DEF LoseData
<1>5. TypeOK'
  BY <1>3, <1>4 DEF Types, TypeOK, sender, receiver
<1>. QED
  BY <1>1, <1>4, <1>5 DEF Types, sender

LEMMA LoseAcksTypes ==
  ASSUME Types, NEW p \in acks, LoseAcks(p) PROVE Types'
<1>1. IndInv'
  <2>1. queue' = queue /\ acks' \subseteq acks /\ UNCHANGED <<set, sender>>
    BY DEF LoseAcks
  <2>. QED
    BY <2>1, OthersPreserve DEF Types, TypeOK
<1>2. p.acks \in Seq(Copy) /\ lost \in [Sn -> Nat]
  BY DEF Types, TypeOK, Acks
<1>3. lost' \in [Sn -> Nat]
  <2>1. ASSUME NEW n \in Sn
        PROVE  lost[n] + Cardinality({i \in DOMAIN p.acks : p.acks[i].sn = n}) \in Nat
    <3>1. Cardinality({i \in DOMAIN p.acks : p.acks[i].sn = n}) \in Nat
      BY <1>2, CountIsNat
    <3>2. lost[n] \in Nat
      BY <1>2
    <3>. QED
      BY <3>1, <3>2
  <2>. QED
    BY <2>1 DEF LoseAcks
<1>4. /\ acks' \subseteq acks
      /\ UNCHANGED <<set, queue, sender, dead, receiver, data, overtaken>>
  BY DEF LoseAcks
<1>5. TypeOK'
  BY <1>3, <1>4 DEF Types, TypeOK, sender, receiver
<1>. QED
  BY <1>1, <1>4, <1>5 DEF Types, sender

LEMMA InputTypes ==
  ASSUME Types, NEW p \in acks, Input(p) PROVE Types'
<1>1. IndInv'
  BY InputPreserves DEF Types
<1>2. p \in Acks /\ p.acks \in Seq(Copy)
  BY DEF Types, TypeOK, Acks
<1>3. rtt' \in Estimates
  <2>1. rtt' = FoldLeft(LAMBDA x, a : UpdateAck(x, a.age), rtt, p.acks)
    BY DEF Input
  <2>2. rtt \in Estimates
    BY DEF Types
  <2>3. FoldLeft(LAMBDA x, a : UpdateAck(x, a.age), rtt, p.acks) \in Estimates
    BY <1>2, <2>2, SamplesBounded
  <2>. QED
    BY <2>1, <2>3
<1>4. \A n \in DOMAIN seg' : seg'[n] \in Segment
  <2>. DEFINE buf == Unacked(p)
  <2>1. /\ DOMAIN seg' = buf
        /\ \A n \in buf : \/ seg'[n] = seg[n]
                          \/ seg'[n] = [seg[n] EXCEPT !.fastack = @ + 1]
    BY DEF Input
  <2>2. buf \subseteq DOMAIN seg
    BY DEF Unacked
  <2>. HIDE DEF buf
  <2>3. ASSUME NEW s \in Segment PROVE [s EXCEPT !.fastack = @ + 1] \in Segment
    <3>1. s.fastack + 1 \in Nat
      BY SegmentFields
    <3>. QED
      BY <3>1 DEF Segment
  <2>. QED
    BY <2>1, <2>2, <2>3 DEF Types, TypeOK
<1>5. overtaken' \in [Sn -> Nat]
  <2>1. \A n \in Sn : overtaken[n] \in Nat /\ overtaken[n] + 1 \in Nat
    BY DEF Types, TypeOK
  <2>. QED
    BY <2>1 DEF Input
<1>6. /\ acks' \subseteq acks
      /\ UNCHANGED <<set, queue, snd_nxt, ssthresh, dead, receiver, data, lost>>
  BY DEF Input
<1>7. rtt' \in Estimate
  BY <1>3 DEF Estimates
<1>8. TypeOK'
  BY <1>1, <1>4, <1>5, <1>6, <1>7 DEF Types, TypeOK, IndInv, receiver
<1>. QED
  BY <1>1, <1>3, <1>6, <1>8 DEF Types

LEMMA SendTypes == ASSUME Types, Send PROVE Types'
<1>1. /\ queue \in Nat /\ snd_nxt \in Nat /\ snd_nxt + queue < Traffic
      /\ queue' = queue + 1
      /\ UNCHANGED <<set, sender, dead, receiver, data, acks, lost, overtaken>>
  BY DEF Types, TypeOK, Send
<1>2. queue' \in Nat /\ snd_nxt + queue' <= Traffic
  BY <1>1, TrafficAssumption
<1>3. IndInv'
  <2>1. acks' \subseteq acks /\ UNCHANGED <<set, sender>>
    BY <1>1
  <2>. QED
    BY <1>2, <2>1, OthersPreserve DEF Types
<1>4. TypeOK'
  BY <1>1, <1>2 DEF Types, TypeOK, sender, receiver
<1>. QED
  BY <1>1, <1>2, <1>3, <1>4 DEF Types, sender

LEMMA NextTypes == ASSUME Types, [Next]_vars PROVE Types'
<1>1. CASE UNCHANGED vars
  <2>1. queue' \in Nat /\ acks' \subseteq acks /\ UNCHANGED <<set, sender>>
    BY <1>1 DEF vars, Types, TypeOK
  <2>2. IndInv'
    BY <2>1, OthersPreserve DEF Types
  <2>3. TypeOK'
    BY <1>1 DEF vars, Types, TypeOK, sender, receiver
  <2>. QED
    BY <1>1, <2>2, <2>3 DEF vars, Types, sender
<1>. QED
  BY <1>1, SendTypes, FlushTypes, ArriveTypes, LoseDataTypes, AckFlushTypes,
     InputTypes, LoseAcksTypes DEF Next

(* Every variable of the sender, the receiver and the network between them *)
(* keeps its type; the timeout its bounds, through every fold over the     *)
(* acknowledgements of a packet.                                           *)
THEOREM TypesInvariant == Spec => []Types
<1>. QED
  BY InitTypes, NextTypes, PTL DEF Spec

(* The part of it that the runs check.                                     *)
THEOREM TypeCorrect == Spec => []TypeOK
<1>1. Types => TypeOK
  BY DEF Types
<1>. QED
  BY <1>1, TypesInvariant, PTL

-----------------------------------------------------------------------------
(* What is sent again is accounted for.                                    *)

(* Copies in transit, their acknowledgements included.                     *)
Under(c) ==
  \/ c \in data
  \/ \E i \in DOMAIN acklist : acklist[i] = c
  \/ \E p \in acks : \E i \in DOMAIN p.acks : p.acks[i] = c

(* How old the copies of n in transit are: no two are of one age.          *)
Ages(n) == {a \in 0..RttMax : Under([sn |-> n, age |-> a])}

(* Fast resends that the packets that overtook n have paid for, those      *)
(* counted in fastack left out.                                            *)
PaidFast(n) ==
  IF set.fastresend = 0 THEN 0
  ELSE (overtaken[n] - seg[n].fastack) \div set.fastresend

(* The timer of a segment in flight runs for rx_minrto at least from its   *)
(* last transmission; every copy of it is lost or still in transit, and    *)
(* none is younger than that transmission.                                 *)
Timer(s) == s.age + s.left = s.rto /\ s.rto >= MinRto

Copies(n) ==
  /\ \A a \in Ages(n) : a >= seg[n].age
  /\ seg[n].xmit <= lost[n] + Cardinality(Ages(n))

Paid(n) ==
  /\ seg[n].fastack <= overtaken[n]
  /\ seg[n].xmit - 1 <= lost[n] + PaidFast(n)

Accounted ==
  /\ \A c \in Copy : Under(c) => c.age <= RttMax
  /\ \A n \in DOMAIN seg : Timer(seg[n]) /\ Copies(n) /\ Paid(n)

LEMMA AgesCount ==
  ASSUME NEW A, A \subseteq 0..RttMax
  PROVE  IsFiniteSet(A) /\ Cardinality(A) \in Nat
<1>1. IsFiniteSet(0..RttMax)
  BY FS_Interval, TrafficAssumption
<1>2. IsFiniteSet(A)
  BY <1>1, FS_Subset
<1>. QED
  BY <1>2, FS_CardinalityType

LEMMA MoreCounted ==
  ASSUME NEW A, NEW B, A \subseteq B, B \subseteq 0..RttMax
  PROVE  Cardinality(A) <= Cardinality(B)
BY AgesCount, FS_Subset

(* What is missing from B is in R.                                         *)
LEMMA RestCounted ==
  ASSUME NEW A, NEW B, NEW R, A \subseteq B \cup R,
         B \subseteq 0..RttMax, IsFiniteSet(R)
  PROVE  Cardinality(A) <= Cardinality(B) + Cardinality(R)
<1>1. IsFiniteSet(B) /\ Cardinality(B) \in Nat
  BY AgesCount
<1>2. Cardinality(R) \in Nat
  BY FS_CardinalityType
<1>3. IsFiniteSet(B \cup R)
      /\ Cardinality(B \cup R) = Cardinality(B) + Cardinality(R) - Cardinality(B \cap R)
  BY <1>1, FS_Union
<1>4. Cardinality(B \cap R) \in Nat
  <2>1. IsFiniteSet(B \cap R)
    BY <1>1, FS_Intersection
  <2>. QED
    BY <2>1, FS_CardinalityType
<1>5. Cardinality(A) <= Cardinality(B \cup R)
  BY <1>3, FS_Subset
<1>6. Cardinality(A) \in Nat
  <2>1. IsFiniteSet(A)
    BY <1>3, FS_Subset
  <2>. QED
    BY <2>1, FS_CardinalityType
<1>. QED
  BY <1>1, <1>2, <1>3, <1>4, <1>5, <1>6

(* Everything one unit older, and as many.                                 *)
LEMMA AgedCounted ==
  ASSUME NEW A, NEW B, A \subseteq 0..RttMax, B \subseteq 0..RttMax,
         \A a \in A : a + 1 \in B
  PROVE  /\ Cardinality(A) <= Cardinality(B)
         /\ 0 \in B => Cardinality(A) + 1 <= Cardinality(B)
<1>. DEFINE C == B \ {0}
            f == [a \in A |-> a + 1]
<1>1. IsFiniteSet(B) /\ Cardinality(B) \in Nat /\ IsFiniteSet(C) /\ Cardinality(C) \in Nat
  BY AgesCount
<1>2. \A a \in A : a \in Nat /\ a + 1 \in C
  OBVIOUS
<1>3. f \in Injection(A, C)
  <2>1. f \in [A -> C]
    BY <1>2
  <2>2. \A a, b \in A : f[a] = f[b] => a = b
    BY <1>2
  <2>. HIDE DEF f
  <2>. QED
    BY <2>1, <2>2 DEF Injection, IsInjective
<1>. HIDE DEF f
<1>4. Cardinality(A) <= Cardinality(C) /\ Cardinality(A) \in Nat
  <2>1. Cardinality(A) <= Cardinality(C)
    BY <1>1, <1>3, FS_Injection
  <2>. QED
    BY <2>1, AgesCount
<1>5. Cardinality(C) = IF 0 \in B THEN Cardinality(B) - 1 ELSE Cardinality(B)
  BY <1>1, FS_RemoveElement
<1>. HIDE DEF C
<1>. QED
  BY <1>1, <1>4, <1>5

(* Division of counts.                                                     *)
LEMMA DivRises ==
  ASSUME NEW d \in Nat \ {0}, NEW a \in Nat, NEW b \in Nat
  PROVE  /\ a \div d \in Nat
         /\ a <= b => a \div d <= b \div d
         /\ a + d <= b => (a \div d) + 1 <= b \div d
<1>. DEFINE p == a \div d
            q == b \div d
<1>1. /\ p \in Int /\ a = p * d + (a % d) /\ a % d \in 0..d - 1
      /\ q \in Int /\ b = q * d + (b % d) /\ b % d \in 0..d - 1
  BY Division
<1>. HIDE DEF p, q
<1>2. p >= 0
  <2>1. p <= 0 - 1 => p * d <= 0 - d
    BY <1>1
  <2>. QED
    BY <1>1, <2>1
<1>3. ASSUME a <= b PROVE p <= q
  <2>1. p >= q + 1 => p * d >= q * d + d
    BY <1>1
  <2>2. p * d \in Int /\ q * d \in Int
    BY <1>1
  <2>. QED
    BY <1>1, <1>3, <2>1, <2>2
<1>4. ASSUME a + d <= b PROVE p + 1 <= q
  <2>1. p >= q => p * d >= q * d
    BY <1>1
  <2>2. p * d \in Int /\ q * d \in Int
    BY <1>1
  <2>. QED
    BY <1>1, <1>4, <2>1, <2>2
<1>. QED
  BY <1>1, <1>2, <1>3, <1>4 DEF p, q

LEMMA CountTypes ==
  ASSUME Types, NEW n \in DOMAIN seg
  PROVE  /\ n \in Sn /\ lost[n] \in Nat /\ overtaken[n] \in Nat
         /\ seg[n] \in Segment /\ seg[n].xmit \in Nat /\ seg[n].fastack \in Nat
         /\ Ages(n) \subseteq 0..RttMax /\ Cardinality(Ages(n)) \in Nat
         /\ set.fastresend \in Nat
<1>1. n \in Sn
  BY InFlightSn
<1>2. lost[n] \in Nat /\ overtaken[n] \in Nat /\ seg[n] \in Segment
  BY <1>1 DEF Types, TypeOK
<1>3. Ages(n) \subseteq 0..RttMax
  BY DEF Ages
<1>4. set.fastresend \in Nat
  BY Bounds DEF Types, TypeOK
<1>. QED
  BY <1>1, <1>2, <1>3, <1>4, AgesCount, SegmentFields

LEMMA InitAccounted == Init => Accounted
<1>. SUFFICES ASSUME Init PROVE Accounted
  OBVIOUS
<1>1. DOMAIN seg = {}
  <2>1. seg = <<>>
    BY DEF Init
  <2>. QED
    BY <2>1
<1>2. acklist = <<>> /\ DOMAIN acklist = {} /\ data = {} /\ acks = {}
  BY DEF Init
<1>. QED
  BY <1>1, <1>2 DEF Accounted, Under

(* Steps that move copies, and lose none without counting it.              *)
LEMMA LossesPaid ==
  ASSUME Types, Accounted, Types', UNCHANGED <<set, seg, overtaken>>,
         \A c \in Copy : Under(c)' => Under(c),
         \A n \in DOMAIN seg : \E R :
            /\ IsFiniteSet(R) /\ Ages(n) \subseteq Ages(n)' \cup R
            /\ lost[n] + Cardinality(R) <= lost'[n]
  PROVE  Accounted'
<1>1. \A c \in Copy : Under(c)' => c.age <= RttMax
  BY DEF Accounted
<1>2. ASSUME NEW n \in DOMAIN seg
      PROVE  Timer(seg[n]) /\ Copies(n)' /\ Paid(n)'
  <2>1. PICK R : /\ IsFiniteSet(R) /\ Ages(n) \subseteq Ages(n)' \cup R
                 /\ lost[n] + Cardinality(R) <= lost'[n]
    OBVIOUS
  <2>2. Cardinality(R) \in Nat
    BY <2>1, FS_CardinalityType
  <2>3. /\ lost[n] \in Nat /\ overtaken[n] \in Nat /\ seg[n].xmit \in Nat
        /\ seg[n].fastack \in Nat /\ Cardinality(Ages(n)) \in Nat
        /\ n \in Sn
    BY CountTypes
  <2>4. lost'[n] \in Nat
    BY <2>3 DEF Types, TypeOK
  <2>5. Ages(n)' \subseteq 0..RttMax
    BY DEF Ages
  <2>6. Cardinality(Ages(n)') \in Nat
        /\ Cardinality(Ages(n)) <= Cardinality(Ages(n)') + Cardinality(R)
    BY <2>1, <2>5, AgesCount, RestCounted
  <2>7. seg[n].xmit <= lost'[n] + Cardinality(Ages(n)')
    <3>1. seg[n].xmit <= lost[n] + Cardinality(Ages(n))
      BY DEF Accounted, Copies
    <3>. QED
      BY <2>1, <2>2, <2>3, <2>4, <2>6, <3>1
  <2>8. \A a \in Ages(n)' : a >= seg[n].age
    <3>1. Ages(n)' \subseteq Ages(n)
      <4>1. \A a \in 0..RttMax : [sn |-> n, age |-> a] \in Copy
        BY <2>3 DEF Copy
      <4>. QED
        BY <4>1 DEF Ages
    <3>. QED
      BY <3>1 DEF Accounted, Copies
  <2>9. Copies(n)'
    BY <2>7, <2>8 DEF Copies
  <2>10. PaidFast(n)' = PaidFast(n) /\ PaidFast(n) \in Nat
    <3>1. PaidFast(n)' = PaidFast(n)
      BY DEF PaidFast
    <3>2. CASE set.fastresend = 0
      BY <3>1, <3>2 DEF PaidFast
    <3>3. CASE set.fastresend # 0
      <4>1. set.fastresend \in Nat \ {0} /\ overtaken[n] - seg[n].fastack \in Nat
        <5>1. seg[n].fastack <= overtaken[n]
          BY DEF Accounted, Paid
        <5>. QED
          BY <2>3, <3>3, <5>1, CountTypes
      <4>2. (overtaken[n] - seg[n].fastack) \div set.fastresend \in Nat
        BY <4>1, DivRises
      <4>. QED
        BY <3>1, <3>3, <4>2 DEF PaidFast
    <3>. QED
      BY <3>2, <3>3
  <2>11. Paid(n)'
    <3>1. seg[n].fastack <= overtaken[n] /\ seg[n].xmit - 1 <= lost[n] + PaidFast(n)
      BY DEF Accounted, Paid
    <3>2. lost[n] <= lost'[n]
      BY <2>1, <2>2, <2>3, <2>4
    <3>3. seg[n].xmit - 1 <= lost'[n] + PaidFast(n)
      BY <2>3, <2>4, <2>10, <3>1, <3>2
    <3>. QED
      BY <2>10, <3>1, <3>3 DEF Paid
  <2>. QED
    BY <2>9, <2>11 DEF Accounted
<1>. QED
  BY <1>1, <1>2 DEF Accounted

LEMMA CopiesStay ==
  ASSUME Types, Accounted, Types', UNCHANGED <<set, seg, lost, overtaken>>,
         \A c \in Copy : Under(c)' <=> Under(c)
  PROVE  Accounted'
<1>1. ASSUME NEW n \in DOMAIN seg
      PROVE  /\ IsFiniteSet({}) /\ Ages(n) \subseteq Ages(n)' \cup {}
             /\ lost[n] + Cardinality({}) <= lost'[n]
  <2>1. IsFiniteSet({}) /\ Cardinality({}) = 0
    BY FS_EmptySet
  <2>2. n \in Sn /\ lost[n] \in Nat
    BY CountTypes
  <2>3. \A a \in 0..RttMax : [sn |-> n, age |-> a] \in Copy
    BY <2>2 DEF Copy
  <2>. QED
    BY <2>1, <2>2, <2>3 DEF Ages
<1>2. \A n \in DOMAIN seg : \E R :
            /\ IsFiniteSet(R) /\ Ages(n) \subseteq Ages(n)' \cup R
            /\ lost[n] + Cardinality(R) <= lost'[n]
  BY <1>1
<1>. QED
  BY <1>2, LossesPaid

LEMMA ArriveAccounted ==
  ASSUME Types, Accounted, Types', NEW m \in data, Arrive(m) PROVE Accounted'
<1>1. /\ data' = data \ {m} /\ acklist' = Append(acklist, m) /\ acks' = acks
      /\ UNCHANGED <<set, seg, lost, overtaken>> /\ acklist \in Seq(Copy) /\ m \in Copy
  BY DEF Arrive, sender, Types, TypeOK
<1>2. /\ \A i \in DOMAIN acklist : i \in DOMAIN acklist' /\ acklist'[i] = acklist[i]
      /\ \A i \in DOMAIN acklist' : i \in DOMAIN acklist \/ acklist'[i] = m
      /\ \E i \in DOMAIN acklist' : acklist'[i] = m
  <2>1. /\ Len(acklist) \in Nat /\ DOMAIN acklist = 1..Len(acklist)
        /\ DOMAIN acklist' = 1..Len(acklist) + 1
        /\ \A i \in 1..Len(acklist) : acklist'[i] = acklist[i]
        /\ acklist'[Len(acklist) + 1] = m
    BY <1>1
  <2>2. /\ Len(acklist) + 1 \in 1..Len(acklist) + 1
        /\ \A i \in 1..Len(acklist) : i \in 1..Len(acklist) + 1
        /\ \A i \in 1..Len(acklist) + 1 : i \in 1..Len(acklist) \/ i = Len(acklist) + 1
    BY <2>1
  <2>. QED
    BY <2>1, <2>2
<1>3. \A c \in Copy : Under(c)' <=> Under(c)
  BY <1>1, <1>2 DEF Under
<1>. QED
  BY <1>1, <1>3, CopiesStay

LEMMA AckFlushAccounted ==
  ASSUME Types, Accounted, Types', NEW wnd \in PeerWindows, AckFlush(wnd)
  PROVE  Accounted'
<1>. DEFINE p == [acks |-> acklist, una |-> FirstMissing, wnd |-> wnd]
<1>1. /\ acks' = acks \cup {p} /\ acklist' = <<>> /\ data' = data
      /\ UNCHANGED <<set, seg, lost, overtaken>>
  BY DEF AckFlush, sender
<1>2. p.acks = acklist /\ DOMAIN acklist' = {}
  BY <1>1
<1>. HIDE DEF p
<1>3. \A c \in Copy : Under(c)' <=> Under(c)
  BY <1>1, <1>2 DEF Under
<1>. QED
  BY <1>1, <1>3, CopiesStay

LEMMA LoseDataAccounted ==
  ASSUME Types, Accounted, Types', NEW m \in data, LoseData(m) PROVE Accounted'
<1>1. /\ data' = data \ {m} /\ acklist' = acklist /\ acks' = acks
      /\ lost' = [lost EXCEPT ![m.sn] = @ + 1]
      /\ UNCHANGED <<set, seg, overtaken>> /\ lost \in [Sn -> Nat]
      /\ m \in Copy /\ m.sn \in Sn /\ m = [sn |-> m.sn, age |-> m.age]
  BY DEF LoseData, sender, receiver, Types, TypeOK, Copy
<1>2. \A c \in Copy : Under(c)' => Under(c)
  BY <1>1 DEF Under
<1>3. \A c \in Copy : Under(c) => Under(c)' \/ c = m
  BY <1>1 DEF Under
<1>4. ASSUME NEW n \in DOMAIN seg
      PROVE  \E R : /\ IsFiniteSet(R) /\ Ages(n) \subseteq Ages(n)' \cup R
                    /\ lost[n] + Cardinality(R) <= lost'[n]
  <2>1. n \in Sn /\ lost[n] \in Nat
    BY CountTypes
  <2>2. \A a \in 0..RttMax : [sn |-> n, age |-> a] \in Copy
    BY <2>1 DEF Copy
  <2>3. \A a \in Ages(n) : a \in Ages(n)' \/ [sn |-> n, age |-> a] = m
    BY <1>3, <2>2 DEF Ages
  <2>4. CASE n = m.sn
    <3>1. Ages(n) \subseteq Ages(n)' \cup {m.age}
      <4>1. \A a \in Ages(n) : [sn |-> n, age |-> a] = m => a = m.age
        BY <1>1
      <4>. QED
        BY <2>3, <4>1
    <3>2. IsFiniteSet({m.age}) /\ Cardinality({m.age}) = 1
      BY FS_Singleton
    <3>3. lost'[n] = lost[n] + 1
      BY <1>1, <2>1, <2>4
    <3>. QED
      BY <2>1, <3>1, <3>2, <3>3
  <2>5. CASE n # m.sn
    <3>1. Ages(n) \subseteq Ages(n)' \cup {}
      <4>1. \A a \in Ages(n) : [sn |-> n, age |-> a] # m
        BY <1>1, <2>5
      <4>. QED
        BY <2>3, <4>1
    <3>2. IsFiniteSet({}) /\ Cardinality({}) = 0
      BY FS_EmptySet
    <3>3. lost'[n] = lost[n]
      BY <1>1, <2>1, <2>5
    <3>4. lost[n] + Cardinality({}) <= lost'[n]
      BY <2>1, <3>2, <3>3
    <3>. QED
      BY <3>1, <3>2, <3>4
  <2>. QED
    BY <2>4, <2>5
<1>. QED
  BY <1>1, <1>2, <1>4, LossesPaid

LEMMA LoseAcksAccounted ==
  ASSUME Types, Accounted, Types', NEW p \in acks, LoseAcks(p) PROVE Accounted'
<1>1. /\ data' = data /\ acklist' = acklist /\ acks' = acks \ {p}
      /\ UNCHANGED <<set, seg, overtaken>> /\ p.acks \in Seq(Copy)
  BY DEF LoseAcks, sender, receiver, Types, TypeOK, Acks
<1>2. \A c \in Copy : Under(c)' => Under(c)
  BY <1>1 DEF Under
<1>3. \A c \in Copy : Under(c) => Under(c)' \/ \E i \in DOMAIN p.acks : p.acks[i] = c
  BY <1>1 DEF Under
<1>4. ASSUME NEW n \in DOMAIN seg
      PROVE  \E R : /\ IsFiniteSet(R) /\ Ages(n) \subseteq Ages(n)' \cup R
                    /\ lost[n] + Cardinality(R) <= lost'[n]
  <2>. DEFINE K == {i \in DOMAIN p.acks : p.acks[i].sn = n}
              R == {p.acks[i].age : i \in K}
              f == [i \in K |-> p.acks[i].age]
  <2>1. n \in Sn /\ lost[n] \in Nat
    BY CountTypes
  <2>2. \A a \in 0..RttMax : [sn |-> n, age |-> a] \in Copy
    BY <2>1 DEF Copy
  <2>3. Ages(n) \subseteq Ages(n)' \cup R
    <3>1. ASSUME NEW a \in Ages(n), NEW i \in DOMAIN p.acks,
                 p.acks[i] = [sn |-> n, age |-> a]
          PROVE  a \in R
      <4>1. p.acks[i].sn = n /\ p.acks[i].age = a
        BY <3>1
      <4>. QED
        BY <4>1
    <3>. HIDE DEF R, K
    <3>2. \A a \in Ages(n) :
            a \in Ages(n)' \/ \E i \in DOMAIN p.acks : p.acks[i] = [sn |-> n, age |-> a]
      BY <1>3, <2>2 DEF Ages
    <3>. QED
      BY <3>1, <3>2
  <2>4. IsFiniteSet(K) /\ Cardinality(K) \in Nat
    BY <1>1, CountIsNat
  <2>5. f \in Surjection(K, R)
    BY DEF Surjection
  <2>6. lost'[n] = lost[n] + Cardinality(K)
    BY <2>1 DEF LoseAcks
  <2>. HIDE DEF K, R, f
  <2>7. IsFiniteSet(R) /\ Cardinality(R) <= Cardinality(K)
    BY <2>4, <2>5, FS_Surjection
  <2>8. Cardinality(R) \in Nat
    BY <2>7, FS_CardinalityType
  <2>9. lost[n] + Cardinality(R) <= lost'[n]
    BY <2>1, <2>4, <2>6, <2>7, <2>8
  <2>. QED
    BY <2>3, <2>7, <2>9
<1>. QED
  BY <1>1, <1>2, <1>4, LossesPaid

(* Fast resends: fastack counts the overtakings that no fast resend has    *)
(* been paid with.                                                         *)
LEMMA PaidLater ==
  ASSUME NEW fr \in Nat, NEW x \in Nat, NEW l \in Nat,
         NEW o \in Nat, NEW f \in Nat, f <= o,
         x - 1 <= l + (IF fr = 0 THEN 0 ELSE (o - f) \div fr),
         NEW o2 \in Nat, NEW f2 \in Nat, f2 <= o2, o - f <= o2 - f2
  PROVE  /\ x - 1 <= l + (IF fr = 0 THEN 0 ELSE (o2 - f2) \div fr)
         /\ fr > 0 /\ (o - f) + fr <= o2 - f2
              => x <= l + (IF fr = 0 THEN 0 ELSE (o2 - f2) \div fr)
<1>1. CASE fr = 0
  BY <1>1
<1>2. CASE fr # 0
  <2>1. fr \in Nat \ {0} /\ o - f \in Nat /\ o2 - f2 \in Nat
    BY <1>2
  <2>. DEFINE d == (o - f) \div fr
              e == (o2 - f2) \div fr
  <2>2. d \in Nat /\ e \in Nat /\ d <= e
    BY <2>1, DivRises
  <2>3. (o - f) + fr <= o2 - f2 => d + 1 <= e
    BY <2>1, DivRises
  <2>4. x - 1 <= l + d
    BY <1>2
  <2>. HIDE DEF d, e
  <2>5. x - 1 <= l + e /\ ((o - f) + fr <= o2 - f2 => x <= l + e)
    BY <2>2, <2>3, <2>4
  <2>. QED
    BY <1>2, <2>5 DEF d, e
<1>. QED
  BY <1>1, <1>2

LEMMA InputAccounted ==
  ASSUME Types, Accounted, Types', NEW p \in acks, Input(p) PROVE Accounted'
<1>. DEFINE buf  == Unacked(p)
            una  == FirstOf(buf)
            best == Latest(p.acks)
<1>1. /\ data' = data /\ acklist' = acklist /\ acks' = acks \ {p}
      /\ set' = set /\ lost' = lost
      /\ seg' = [n \in buf |-> IF Skips(best, n, una)
                                 THEN [seg[n] EXCEPT !.fastack = @ + 1] ELSE seg[n]]
      /\ overtaken' = [n \in Sn |->
          IF n \in buf /\ \E i \in DOMAIN p.acks :
               p.acks[i].sn > n /\ p.acks[i].age <= seg[n].age
          THEN overtaken[n] + 1 ELSE overtaken[n]]
  BY DEF Input, receiver
<1>2. \A n \in buf : n \in DOMAIN seg /\ \A i \in DOMAIN p.acks : p.acks[i].sn # n
  BY DEF Unacked
<1>3. \E i \in DOMAIN p.acks : best = p.acks[i]
  <2>1. p.acks \in Seq(Copy) /\ p.acks # <<>>
    BY DEF Types, TypeOK, Acks
  <2>. QED
    BY <2>1, LatestIsOne
<1>. HIDE DEF buf, una, best
<1>4. \A c \in Copy : Under(c)' => Under(c)
  BY <1>1 DEF Under
<1>5. \A c \in Copy : Under(c) => Under(c)' \/ \E i \in DOMAIN p.acks : p.acks[i] = c
  BY <1>1 DEF Under
<1>6. ASSUME NEW n \in buf
      PROVE  (Timer(seg[n]) /\ Copies(n) /\ Paid(n))'
  <2>1. /\ n \in Sn /\ n \in DOMAIN seg /\ lost[n] \in Nat /\ overtaken[n] \in Nat
        /\ seg[n] \in Segment /\ seg[n].xmit \in Nat /\ seg[n].fastack \in Nat
        /\ set.fastresend \in Nat
    BY <1>2, CountTypes
  <2>2. Timer(seg[n]) /\ Copies(n) /\ Paid(n)
    BY <2>1 DEF Accounted
  <2>3. Ages(n)' = Ages(n)
    <3>1. \A a \in 0..RttMax : [sn |-> n, age |-> a] \in Copy
      BY <2>1 DEF Copy
    <3>2. \A a \in 0..RttMax, i \in DOMAIN p.acks : p.acks[i] # [sn |-> n, age |-> a]
      <4>1. \A i \in DOMAIN p.acks : p.acks[i].sn # n
        BY <1>2
      <4>. QED
        BY <4>1
    <3>3. \A a \in 0..RttMax : Under([sn |-> n, age |-> a])' <=> Under([sn |-> n, age |-> a])
      BY <1>4, <1>5, <3>1, <3>2
    <3>. QED
      BY <3>3 DEF Ages
  <2>4. /\ overtaken'[n] \in {overtaken[n], overtaken[n] + 1}
        /\ Skips(best, n, una) => overtaken'[n] = overtaken[n] + 1
    <3>1. Skips(best, n, una) => \E i \in DOMAIN p.acks :
               p.acks[i].sn > n /\ p.acks[i].age <= seg[n].age
      <4>1. \A i \in DOMAIN p.acks : p.acks[i].sn \in Int
        <5>1. \A i \in DOMAIN p.acks : p.acks[i] \in Copy
          <6>1. p.acks \in Seq(Copy)
            BY DEF Types, TypeOK, Acks
          <6>. QED
            BY <6>1
        <5>. QED
          BY <5>1 DEF Copy, Sn
      <4>2. n \in Int
        BY <2>1 DEF Sn
      <4>. QED
        BY <1>3, <4>1, <4>2 DEF Skips
    <3>. QED
      BY <1>1, <2>1, <3>1
  <2>5. CASE Skips(best, n, una)
    <3>1. seg'[n] = [seg[n] EXCEPT !.fastack = @ + 1]
      BY <1>1, <2>5
    <3>2. /\ seg'[n].xmit = seg[n].xmit /\ seg'[n].fastack = seg[n].fastack + 1
          /\ seg'[n].age = seg[n].age /\ seg'[n].left = seg[n].left
          /\ seg'[n].rto = seg[n].rto
      BY <2>1, <3>1 DEF Segment
    <3>3. overtaken'[n] = overtaken[n] + 1
      BY <2>4, <2>5
    <3>4. (overtaken[n] + 1) - (seg[n].fastack + 1) = overtaken[n] - seg[n].fastack
      BY <2>1
    <3>5. Timer(seg'[n]) /\ Copies(n)'
      BY <1>1, <2>2, <2>3, <3>2 DEF Timer, Copies
    <3>6. Paid(n)'
      BY <1>1, <2>1, <2>2, <3>2, <3>3, <3>4 DEF Paid, PaidFast
    <3>. QED
      BY <3>5, <3>6
  <2>6. CASE ~ Skips(best, n, una)
    <3>1. seg'[n] = seg[n]
      BY <1>1, <2>6
    <3>2. Timer(seg'[n]) /\ Copies(n)'
      BY <1>1, <2>2, <2>3, <3>1 DEF Timer, Copies
    <3>3. Paid(n)'
      <4>1. /\ seg[n].fastack <= overtaken[n]
            /\ seg[n].xmit - 1 <= lost[n] + (IF set.fastresend = 0 THEN 0
                 ELSE (overtaken[n] - seg[n].fastack) \div set.fastresend)
        BY <2>2 DEF Paid, PaidFast
      <4>2. /\ overtaken'[n] \in Nat /\ seg[n].fastack <= overtaken'[n]
            /\ overtaken[n] - seg[n].fastack <= overtaken'[n] - seg[n].fastack
        BY <2>1, <2>4, <4>1
      <4>3. seg[n].xmit - 1 <= lost[n] + (IF set.fastresend = 0 THEN 0
                 ELSE (overtaken'[n] - seg[n].fastack) \div set.fastresend)
        BY <2>1, <4>1, <4>2, PaidLater
      <4>4. PaidFast(n)' = IF set.fastresend = 0 THEN 0
                 ELSE (overtaken'[n] - seg[n].fastack) \div set.fastresend
        <5>1. set' = set /\ seg'[n] = seg[n]
          BY <1>1, <3>1
        <5>. QED
          BY <5>1 DEF PaidFast
      <4>5. lost'[n] = lost[n] /\ seg'[n] = seg[n]
        BY <1>1, <3>1
      <4>. QED
        BY <4>2, <4>3, <4>4, <4>5 DEF Paid
    <3>. QED
      BY <3>2, <3>3
  <2>. QED
    BY <2>5, <2>6
<1>7. DOMAIN seg' = buf
  BY <1>1
<1>8. \A c \in Copy : Under(c)' => c.age <= RttMax
  BY <1>4 DEF Accounted
<1>. QED
  BY <1>6, <1>7, <1>8 DEF Accounted

(* What a flush sends again by a timer has no copy in transit: the timer   *)
(* ran for rx_minrto at least, and nothing is RttMax old.                  *)
LEMMA TimeoutAlone ==
  ASSUME Types, Accounted, RttMax < MinRto, NoneLate, NEW n \in TimedOut
  PROVE  n \in DOMAIN seg /\ Ages(n) = {}
<1>1. n \in DOMAIN seg /\ Elapsed(n).left <= 0
  BY DEF TimedOut
<1>2. seg[n] \in Segment
  BY <1>1, CountTypes
<1>3. seg[n].left - 1 <= 0 /\ seg[n].left \in Int /\ seg[n].age \in Nat /\ seg[n].rto \in Nat
  <2>1. Elapsed(n).left = seg[n].left - 1
    BY <1>2, OlderSegment DEF Elapsed
  <2>. QED
    BY <1>1, <1>2, <2>1, SegmentFields
<1>4. seg[n].age >= RttMax
  <2>1. seg[n].age + seg[n].left = seg[n].rto /\ seg[n].rto >= MinRto
    BY <1>1 DEF Accounted, Timer
  <2>. QED
    BY <1>3, <2>1, RtoAssumption, TrafficAssumption
<1>5. ASSUME NEW a \in Ages(n) PROVE FALSE
  <2>1. a >= RttMax /\ a \in 0..RttMax
    <3>1. a \in 0..RttMax /\ a >= seg[n].age
      BY <1>1 DEF Accounted, Copies, Ages
    <3>. QED
      BY <1>3, <1>4, <3>1, TrafficAssumption
  <2>2. a < RttMax
    <3>. DEFINE c == [sn |-> n, age |-> a]
    <3>1. Under(c) /\ c.age = a
      BY DEF Ages
    <3>. HIDE DEF c
    <3>2. DOMAIN acklist = {}
      BY DEF NoneLate
    <3>. QED
      BY <3>1, <3>2 DEF Under, NoneLate
  <2>. QED
    BY <2>1, <2>2, TrafficAssumption
<1>. QED
  BY <1>1, <1>5

(* What is in transit after a flush.                                       *)
LEMMA FlushedUnder ==
  ASSUME Types, Accounted, Flush, NEW n, NEW a
  PROVE  LET new  == snd_nxt..(snd_nxt + Admitted - 1)
             out  == TimedOut
             fast == OvertakenSegs(out) IN
         Under([sn |-> n, age |-> a])' <=>
           \/ n \in new \cup out \cup fast /\ a = 0
           \/ \E c \in Copy : Under(c) /\ n = c.sn /\ a = c.age + 1
<1>. DEFINE new  == snd_nxt..(snd_nxt + Admitted - 1)
            out  == TimedOut
            fast == OvertakenSegs(out)
            sent == new \cup out \cup fast
            d    == [sn |-> n, age |-> a]
<1>1. /\ data' = {[m EXCEPT !.age = @ + 1] : m \in data}
                  \cup {[sn |-> k, age |-> 0] : k \in sent}
      /\ acks' = {[p EXCEPT !.acks = Older(@)] : p \in acks}
      /\ acklist = <<>> /\ acklist' = <<>>
  BY DEF Flush, NoneLate, receiver
<1>2. DOMAIN acklist = {} /\ DOMAIN acklist' = {}
  BY <1>1
<1>3. data \subseteq Copy /\ \A p \in acks : p \in Acks /\ p.acks \in Seq(Copy)
  BY DEF Types, TypeOK, Acks
<1>. HIDE DEF new, out, fast, sent
<1>4. \A m \in Copy : [m EXCEPT !.age = @ + 1] = [sn |-> m.sn, age |-> m.age + 1]
  BY DEF Copy
<1>5. \A m \in Copy : ([m EXCEPT !.age = @ + 1] = d <=> n = m.sn /\ a = m.age + 1)
  BY <1>4
<1>6. d \in data' <=> \/ n \in sent /\ a = 0
                      \/ \E m \in data : n = m.sn /\ a = m.age + 1
  <2>1. \A k : ([sn |-> k, age |-> 0] = d <=> k = n /\ a = 0)
    OBVIOUS
  <2>. HIDE DEF d
  <2>. QED
    BY <1>1, <1>3, <1>5, <2>1
<1>7. (\E p \in acks' : \E i \in DOMAIN p.acks : p.acks[i] = d)
        <=> \E p \in acks : \E i \in DOMAIN p.acks :
               n = p.acks[i].sn /\ a = p.acks[i].age + 1
  <2>1. \A p \in acks : /\ [p EXCEPT !.acks = Older(@)].acks = Older(p.acks)
                        /\ DOMAIN Older(p.acks) = DOMAIN p.acks
                        /\ \A i \in DOMAIN p.acks :
                             Older(p.acks)[i] = [p.acks[i] EXCEPT !.age = @ + 1]
    BY <1>3 DEF Older, Acks
  <2>2. \A p \in acks : \A i \in DOMAIN p.acks : p.acks[i] \in Copy
    BY <1>3
  <2>. HIDE DEF d
  <2>3. ASSUME NEW p \in acks
        PROVE  (\E i \in DOMAIN Older(p.acks) : Older(p.acks)[i] = d)
                 <=> \E i \in DOMAIN p.acks : n = p.acks[i].sn /\ a = p.acks[i].age + 1
    <3>1. \A i \in DOMAIN p.acks :
            Older(p.acks)[i] = d <=> n = p.acks[i].sn /\ a = p.acks[i].age + 1
      <4>1. ASSUME NEW i \in DOMAIN p.acks
            PROVE  Older(p.acks)[i] = d <=> n = p.acks[i].sn /\ a = p.acks[i].age + 1
        <5>1. p.acks[i] \in Copy /\ Older(p.acks)[i] = [p.acks[i] EXCEPT !.age = @ + 1]
          BY <2>1, <2>2
        <5>2. [p.acks[i] EXCEPT !.age = @ + 1] = d
                <=> n = p.acks[i].sn /\ a = p.acks[i].age + 1
          BY <1>5, <5>1
        <5>. QED
          BY <5>1, <5>2
      <4>. QED
        BY <4>1
    <3>2. DOMAIN Older(p.acks) = DOMAIN p.acks
      BY <2>1
    <3>. QED
      BY <3>1, <3>2
  <2>4. (\E q \in acks' : \E i \in DOMAIN q.acks : q.acks[i] = d)
          <=> \E p \in acks : \E i \in DOMAIN Older(p.acks) : Older(p.acks)[i] = d
    <3>1. \A p \in acks : [p EXCEPT !.acks = Older(@)].acks = Older(p.acks)
      BY <2>1
    <3>2. ASSUME NEW q \in acks' PROVE \E p \in acks : q.acks = Older(p.acks)
      BY <1>1, <3>1
    <3>3. ASSUME NEW p \in acks PROVE \E q \in acks' : q.acks = Older(p.acks)
      BY <1>1, <3>1
    <3>. QED
      BY <3>2, <3>3
  <2>. QED
    BY <2>3, <2>4
<1>8. (\E c \in Copy : Under(c) /\ n = c.sn /\ a = c.age + 1)
        <=> \/ \E m \in data : n = m.sn /\ a = m.age + 1
            \/ \E p \in acks : \E i \in DOMAIN p.acks :
               n = p.acks[i].sn /\ a = p.acks[i].age + 1
  <2>1. \A p \in acks : \A i \in DOMAIN p.acks : p.acks[i] \in Copy
    BY <1>3
  <2>. QED
    BY <1>2, <1>3, <2>1 DEF Under
<1>9. Under(d)' <=> \/ d \in data'
                   \/ \E p \in acks' : \E i \in DOMAIN p.acks : p.acks[i] = d
  BY <1>2 DEF Under
<1>. HIDE DEF d
<1>10. Under(d)' <=> \/ n \in sent /\ a = 0
                    \/ \E c \in Copy : Under(c) /\ n = c.sn /\ a = c.age + 1
  BY <1>6, <1>7, <1>8, <1>9
<1>. QED
  BY <1>10 DEF d, sent, new, out, fast

LEMMA NumberBelow ==
  ASSUME NEW una \in Nat, NEW nxt \in Nat, NEW q \in Nat, nxt + q <= Traffic,
         NEW n \in una..nxt - 1
  PROVE  n \in Sn
BY TrafficAssumption DEF Sn

LEMMA FlushAccounted ==
  ASSUME Types, Accounted, Types', RttMax < MinRto, Flush PROVE Accounted'
<1>. DEFINE new  == snd_nxt..(snd_nxt + Admitted - 1)
            out  == TimedOut
            fast == OvertakenSegs(out)
            sent == new \cup out \cup fast
<1>1. /\ NoneLate /\ set' = set /\ lost' = lost /\ overtaken' = overtaken
      /\ seg' = [n \in DOMAIN seg \cup new |->
                  IF n \in new THEN FirstSent
                  ELSE IF n \in out THEN SentAgain(Elapsed(n))
                  ELSE IF n \in fast THEN SentFast(Elapsed(n))
                  ELSE Elapsed(n)]
  BY DEF Flush
<1>2. \A n, a : Under([sn |-> n, age |-> a])' <=>
           \/ n \in sent /\ a = 0
           \/ \E c \in Copy : Under(c) /\ n = c.sn /\ a = c.age + 1
  BY FlushedUnder
<1>3. \A c \in Copy : Under(c) => c.age \in 0..RttMax - 1
  <2>1. acklist = <<>> /\ DOMAIN acklist = {}
    BY <1>1 DEF NoneLate
  <2>2. \A c \in Copy : Under(c) => c.age < RttMax
    BY <1>1, <2>1 DEF Under, NoneLate
  <2>. QED
    BY <2>2, TrafficAssumption DEF Copy
<1>4. out \subseteq DOMAIN seg /\ fast \subseteq DOMAIN seg \ out
  BY DEF TimedOut, OvertakenSegs
<1>5. \A n \in fast : /\ set.fastresend > 0 /\ seg[n].fastack >= set.fastresend
  BY DEF OvertakenSegs
<1>6. \A n \in out : Ages(n) = {}
  BY <1>1, TimeoutAlone
<1>7. \A n \in new : n \notin DOMAIN seg
  <2>1. DOMAIN seg \subseteq snd_una..snd_nxt - 1 /\ snd_una \in Nat /\ snd_nxt \in Nat
    BY DEF Types, IndInv
  <2>2. Admitted \in Nat
    BY AdmittedBounded DEF Types
  <2>. QED
    BY <2>1, <2>2
<1>. HIDE DEF new, out, fast
<1>8. \A c \in Copy : Under(c)' => c.age <= RttMax
  <2>1. ASSUME NEW c \in Copy, Under(c)' PROVE c.age <= RttMax
    <3>1. c = [sn |-> c.sn, age |-> c.age] /\ c.age \in Nat
      BY DEF Copy
    <3>2. c.age = 0 \/ \E d \in Copy : Under(d) /\ c.age = d.age + 1
      <4>1. Under([sn |-> c.sn, age |-> c.age])'
        BY <2>1, <3>1
      <4>. QED
        BY <1>2, <4>1
    <3>. QED
      BY <1>3, <3>1, <3>2, TrafficAssumption
  <2>. QED
    BY <2>1
<1>9. \A n : Ages(n)' \subseteq 0..RttMax
  BY DEF Ages
<1>10. \A n : \A a \in Ages(n)' : (n \in sent /\ a = 0) \/ (a - 1 \in Ages(n))
  <2>1. ASSUME NEW n, NEW a \in Ages(n)', ~ (n \in sent /\ a = 0)
        PROVE  a - 1 \in Ages(n)
    <3>1. PICK c \in Copy : Under(c) /\ n = c.sn /\ a = c.age + 1
      BY <1>2, <2>1 DEF Ages
    <3>2. c = [sn |-> n, age |-> c.age] /\ c.age \in 0..RttMax
      BY <3>1, <1>3, TrafficAssumption DEF Copy
    <3>3. c.age \in Ages(n)
      BY <3>1, <3>2 DEF Ages
    <3>4. a - 1 = c.age
      BY <3>1, <3>2
    <3>. QED
      BY <3>3, <3>4
  <2>. QED
    BY <2>1
<1>11. \A n \in sent : 0 \in Ages(n)'
  BY <1>2, TrafficAssumption DEF Ages
<1>12. ASSUME NEW n \in DOMAIN seg, NEW a \in Ages(n) PROVE a + 1 \in Ages(n)'
  <2>. DEFINE c == [sn |-> n, age |-> a]
  <2>1. c \in Copy /\ Under(c) /\ c.sn = n /\ c.age = a
    <3>1. n \in Sn
      BY CountTypes
    <3>2. a \in 0..RttMax
      BY DEF Ages
    <3>3. a \in Nat
      BY <3>2, TrafficAssumption
    <3>. QED
      BY <3>1, <3>3 DEF Copy, Ages
  <2>. HIDE DEF c
  <2>2. a + 1 \in 0..RttMax
    BY <1>3, <2>1, TrafficAssumption
  <2>3. Under([sn |-> n, age |-> a + 1])'
    BY <1>2, <2>1
  <2>. QED
    BY <2>2, <2>3 DEF Ages
<1>13. ASSUME NEW n \in new PROVE (Timer(seg[n]) /\ Copies(n) /\ Paid(n))'
  <2>1. seg'[n] = FirstSent
    BY <1>1, <1>13
  <2>2. /\ seg'[n].xmit = 1 /\ seg'[n].fastack = 0 /\ seg'[n].age = 0
        /\ seg'[n].left = seg'[n].rto /\ seg'[n].rto >= MinRto
        /\ seg'[n].rto \in Int
    BY <2>1, NewSegment DEF Segment
  <2>3. /\ n \in Sn /\ lost'[n] \in Nat /\ overtaken'[n] \in Nat
        /\ set'.fastresend \in Nat
    <3>1. n \in DOMAIN seg'
      BY <1>1
    <3>2. n \in Sn
      <4>1. /\ n \in snd_una'..snd_nxt' - 1 /\ snd_una' \in Nat /\ snd_nxt' \in Nat
            /\ queue' \in Nat /\ snd_nxt' + queue' <= Traffic
        BY <3>1 DEF Types, IndInv
      <4>. QED
        BY <4>1, NumberBelow DEF Sn
    <3>. QED
      BY <3>2, Bounds DEF Types, TypeOK
  <2>4. Timer(seg'[n])
    BY <2>2 DEF Timer
  <2>5. Copies(n)'
    <3>1. \A a \in Ages(n)' : a >= 0
      BY <1>9
    <3>2. Cardinality(Ages(n)') \in Nat /\ Cardinality({0}) = 1
          /\ Cardinality({0}) <= Cardinality(Ages(n)')
      <4>1. {0} \subseteq Ages(n)' /\ Ages(n)' \subseteq 0..RttMax
        BY <1>9, <1>11
      <4>. QED
        BY <4>1, AgesCount, MoreCounted, FS_Singleton
    <3>. QED
      BY <2>2, <2>3, <3>1, <3>2 DEF Copies
  <2>6. PaidFast(n)' \in Nat
    <3>1. CASE set'.fastresend = 0
      BY <3>1 DEF PaidFast
    <3>2. CASE set'.fastresend # 0
      <4>1. set'.fastresend \in Nat \ {0} /\ overtaken'[n] - seg'[n].fastack \in Nat
        BY <2>2, <2>3, <3>2
      <4>2. (overtaken'[n] - seg'[n].fastack) \div set'.fastresend \in Nat
        BY <4>1, DivRises
      <4>. QED
        BY <3>2, <4>2 DEF PaidFast
    <3>. QED
      BY <3>1, <3>2
  <2>7. Paid(n)'
    BY <2>2, <2>3, <2>6 DEF Paid
  <2>. QED
    BY <2>4, <2>5, <2>7
<1>14. ASSUME NEW n \in DOMAIN seg
       PROVE  (Timer(seg[n]) /\ Copies(n) /\ Paid(n))'
  <2>. DEFINE s == seg[n]
              o == Elapsed(n)
              A == Ages(n)
              B == Ages(n)'
  <2>1. /\ n \in Sn /\ lost[n] \in Nat /\ overtaken[n] \in Nat
        /\ s \in Segment /\ s.xmit \in Nat /\ s.fastack \in Nat
        /\ s.age \in Nat /\ s.left \in Int /\ s.rto \in Nat
        /\ set.fastresend \in Nat /\ A \subseteq 0..RttMax /\ Cardinality(A) \in Nat
        /\ B \subseteq 0..RttMax /\ Cardinality(B) \in Nat
    BY <1>9, CountTypes, SegmentFields, AgesCount
  <2>2. /\ o \in Segment
        /\ o.xmit = s.xmit /\ o.fastack = s.fastack /\ o.age = s.age + 1
        /\ o.left = s.left - 1 /\ o.rto = s.rto
    BY <2>1, OlderSegment DEF Elapsed
  <2>3. /\ s.age + s.left = s.rto /\ s.rto >= MinRto
        /\ \A a \in A : a >= s.age
        /\ s.xmit <= lost[n] + Cardinality(A)
        /\ s.fastack <= overtaken[n]
        /\ s.xmit - 1 <= lost[n] + PaidFast(n)
    BY DEF Accounted, Timer, Copies, Paid
  <2>4. /\ Cardinality(A) <= Cardinality(B)
        /\ 0 \in B => Cardinality(A) + 1 <= Cardinality(B)
    BY <1>12, <2>1, AgedCounted
  <2>5. \A b \in B : b >= 0 /\ ((b = 0 /\ n \in sent) \/ b >= s.age + 1)
    <3>1. ASSUME NEW b \in B PROVE b >= 0 /\ ((b = 0 /\ n \in sent) \/ b >= s.age + 1)
      <4>1. b \in 0..RttMax /\ ((b = 0 /\ n \in sent) \/ b - 1 \in A)
        BY <1>10, <2>1
      <4>2. b - 1 \in A => b - 1 >= s.age
        BY <2>3
      <4>. QED
        BY <2>1, <4>1, <4>2
    <3>. QED
      BY <3>1
  <2>6. n \notin new /\ set' = set /\ lost'[n] = lost[n] /\ overtaken'[n] = overtaken[n]
    BY <1>1, <1>7
  <2>7. n \in sent => 0 \in B
    BY <1>11
  <2>. HIDE DEF A, B, s, o
  <2>8. CASE n \in out
    <3>. DEFINE t == SentAgain(o)
    <3>1. seg'[n] = t
      BY <1>1, <1>4, <2>6, <2>8 DEF o
    <3>2. /\ t.xmit = s.xmit + 1 /\ t.fastack = s.fastack /\ t.age = 0
          /\ t.rto = s.rto + s.rto \div 2 /\ t.left = t.rto
      BY <2>2, AgainSegment
    <3>. HIDE DEF t
    <3>3. A = {} /\ Cardinality(A) = 0
      BY <1>6, <2>8, FS_EmptySet DEF A
    <3>4. Timer(t)
      <4>1. s.rto \div 2 \in Nat
        BY <2>1
      <4>. QED
        BY <2>1, <2>3, <3>2, <4>1, RtoAssumption DEF Timer
    <3>5. s.xmit <= lost[n]
      BY <2>1, <2>3, <3>3
    <3>6. Copies(n)'
      <4>1. t.xmit <= lost[n] + Cardinality(B)
        BY <2>1, <2>4, <2>7, <2>8, <3>2, <3>3, <3>5
      <4>2. \A b \in B : b >= t.age
        BY <2>5, <3>2
      <4>. QED
        BY <2>6, <3>1, <4>1, <4>2 DEF Copies, B
    <3>7. PaidFast(n)' = PaidFast(n) /\ PaidFast(n) \in Nat
      <4>1. PaidFast(n)' = PaidFast(n)
        BY <2>6, <3>1, <3>2 DEF PaidFast, s
      <4>2. CASE set.fastresend # 0
        <5>1. set.fastresend \in Nat \ {0} /\ overtaken[n] - s.fastack \in Nat
          BY <2>1, <2>3, <4>2
        <5>2. (overtaken[n] - s.fastack) \div set.fastresend \in Nat
          BY <5>1, DivRises
        <5>. QED
          BY <4>1, <4>2, <5>2 DEF PaidFast, s
      <4>3. CASE set.fastresend = 0
        BY <4>1, <4>3 DEF PaidFast
      <4>. QED
        BY <4>1, <4>2, <4>3
    <3>8. Paid(n)'
      <4>1. s.xmit <= lost[n] + PaidFast(n)
        BY <2>1, <3>5, <3>7
      <4>2. t.xmit - 1 <= lost[n] + PaidFast(n)
        BY <2>1, <3>2, <4>1
      <4>. QED
        BY <2>3, <2>6, <3>1, <3>2, <3>7, <4>2 DEF Paid
    <3>. QED
      BY <3>1, <3>4, <3>6, <3>8
  <2>9. CASE n \notin out /\ n \in fast
    <3>. DEFINE t == SentFast(o)
    <3>1. seg'[n] = t
      BY <1>1, <2>6, <2>9 DEF o
    <3>2. /\ t.xmit = s.xmit + 1 /\ t.fastack = 0 /\ t.age = 0
          /\ t.rto = s.rto /\ t.left = t.rto
      BY <2>2, FastSegment
    <3>. HIDE DEF t
    <3>3. Timer(t)
      BY <2>1, <2>3, <3>2 DEF Timer
    <3>4. Copies(n)'
      <4>1. t.xmit <= lost[n] + Cardinality(B)
        BY <2>1, <2>3, <2>4, <2>7, <2>9, <3>2
      <4>2. \A b \in B : b >= t.age
        BY <2>5, <3>2
      <4>. QED
        BY <2>6, <3>1, <4>1, <4>2 DEF Copies, B
    <3>5. Paid(n)'
      <4>1. set.fastresend > 0 /\ s.fastack >= set.fastresend
        BY <1>5, <2>9 DEF s
      <4>2. /\ 0 \in Nat /\ 0 <= overtaken[n]
            /\ overtaken[n] - s.fastack <= overtaken[n] - 0
            /\ (overtaken[n] - s.fastack) + set.fastresend <= overtaken[n] - 0
        BY <2>1, <4>1
      <4>3. s.xmit - 1 <= lost[n] + (IF set.fastresend = 0 THEN 0
                ELSE (overtaken[n] - s.fastack) \div set.fastresend)
        BY <2>3 DEF PaidFast, s
      <4>4. s.xmit <= lost[n] + (IF set.fastresend = 0 THEN 0
                ELSE (overtaken[n] - 0) \div set.fastresend)
        BY <2>1, <2>3, <4>1, <4>2, <4>3, PaidLater
      <4>5. PaidFast(n)' = IF set.fastresend = 0 THEN 0
                ELSE (overtaken[n] - 0) \div set.fastresend
        BY <2>6, <3>1, <3>2 DEF PaidFast
      <4>6. t.xmit - 1 = s.xmit
        BY <2>1, <3>2
      <4>. QED
        BY <2>6, <3>1, <3>2, <4>2, <4>4, <4>5, <4>6 DEF Paid
    <3>. QED
      BY <3>1, <3>3, <3>4, <3>5
  <2>10. CASE n \notin out /\ n \notin fast
    <3>1. seg'[n] = o
      BY <1>1, <2>6, <2>10 DEF o
    <3>2. Timer(o)
      BY <2>1, <2>2, <2>3 DEF Timer
    <3>3. Copies(n)'
      <4>1. o.xmit <= lost[n] + Cardinality(B)
        BY <2>1, <2>2, <2>3, <2>4
      <4>2. \A b \in B : b >= o.age
        BY <2>2, <2>5, <2>6, <2>10
      <4>. QED
        BY <2>6, <3>1, <4>1, <4>2 DEF Copies, B
    <3>4. Paid(n)'
      <4>1. PaidFast(n)' = PaidFast(n)
        BY <2>2, <2>6, <3>1 DEF PaidFast, s
      <4>. QED
        BY <2>2, <2>3, <2>6, <3>1, <4>1 DEF Paid
    <3>. QED
      BY <3>1, <3>2, <3>3, <3>4
  <2>. QED
    BY <2>8, <2>9, <2>10
<1>15. DOMAIN seg' = DOMAIN seg \cup new
  BY <1>1
<1>. QED
  BY <1>8, <1>13, <1>14, <1>15 DEF Accounted

LEMMA NextAccounted ==
  ASSUME Types, Accounted, RttMax < MinRto, [Next]_vars PROVE Accounted'
<1>1. Types'
  BY NextTypes
<1>2. CASE Send \/ UNCHANGED vars
  <2>1. UNCHANGED <<set, seg, lost, overtaken, data, acklist, acks>>
    BY <1>2 DEF Send, vars, sender, receiver
  <2>2. \A c \in Copy : Under(c)' <=> Under(c)
    BY <2>1 DEF Under
  <2>. QED
    BY <1>1, <2>1, <2>2, CopiesStay
<1>. QED
  BY <1>1, <1>2, FlushAccounted, ArriveAccounted, LoseDataAccounted,
     AckFlushAccounted, InputAccounted, LoseAcksAccounted DEF Next

(* Where every round trip is shorter than rx_minrto, each transmission of  *)
(* a segment after its first is paid for by a loss or by fastresend        *)
(* packets that overtook it: timers and fast resends repeat nothing that   *)
(* was only late.                                                          *)
THEOREM ResendsPaid ==
  ASSUME RttMax < MinRto PROVE Spec => []ResendsAccounted
<1>1. Init => Types /\ Accounted
  BY InitTypes, InitAccounted
<1>2. Types /\ Accounted /\ [Next]_vars => (Types /\ Accounted)'
  BY NextTypes, NextAccounted
<1>3. Types /\ Accounted => ResendsAccounted
  <2>1. ASSUME Types, Accounted, NEW n \in DOMAIN seg
        PROVE  seg[n].xmit - 1 <= lost[n] + (IF set.fastresend = 0 THEN 0
                 ELSE overtaken[n] \div set.fastresend)
    <3>1. /\ lost[n] \in Nat /\ overtaken[n] \in Nat /\ seg[n].xmit \in Nat
          /\ seg[n].fastack \in Nat /\ set.fastresend \in Nat
      BY <2>1, CountTypes
    <3>2. /\ seg[n].fastack <= overtaken[n]
          /\ seg[n].xmit - 1 <= lost[n] + (IF set.fastresend = 0 THEN 0
               ELSE (overtaken[n] - seg[n].fastack) \div set.fastresend)
      BY <2>1 DEF Accounted, Paid, PaidFast
    <3>3. /\ 0 \in Nat /\ 0 <= overtaken[n] /\ overtaken[n] - 0 = overtaken[n]
          /\ overtaken[n] - seg[n].fastack <= overtaken[n] - 0
      BY <3>1, <3>2
    <3>4. seg[n].xmit - 1 <= lost[n] + (IF set.fastresend = 0 THEN 0
               ELSE (overtaken[n] - 0) \div set.fastresend)
      BY <3>1, <3>2, <3>3, PaidLater
    <3>. QED
      BY <3>3, <3>4
  <2>. QED
    BY <2>1 DEF ResendsAccounted
<1>. QED
  BY <1>1, <1>2, <1>3, PTL DEF Spec
=============================================================================
