------------------------------ MODULE KcpClock -------------------------------
(***************************************************************************)
(* When a control block flushes and retransmits: ikcp_update, ikcp_check   *)
(* and the resend times of ikcp_flush (code/kcp/ikcp.cc), over a           *)
(* millisecond clock that wraps at twice Half (iclock keeps 32 bits of the *)
(* time of day).                                                           *)
(*                                                                         *)
(* One segment at most is in flight; its retransmission timeout grows by   *)
(* half with each resend, up to the bound RtoCap of the model.  Between    *)
(* two calls the clock moves on by Late ticks at most, or, being the time  *)
(* of day, is set to any reading.                                          *)
(***************************************************************************)
EXTENDS Integers

CONSTANTS
  Half,       \* 2^31 in the code: half the range of the clock
  Interval,   \* kcp->interval
  Jump,       \* 10000 in the code: a difference ikcp_update takes for a jump
  Rto,        \* kcp->rx_rto
  RtoCap,     \* bound: the largest timeout of a segment
  Late,       \* the most the clock moves on between two calls of ikcp_update
  None        \* no segment in flight

Modulus == 2 * Half
Time    == 0..Modulus - 1

ASSUME HalfAssumption == Half \in Nat \ {0}
ASSUME TimesAssumption == /\ {Interval, Rto, RtoCap} \subseteq 1..Half - 1
                          /\ Rto <= RtoCap
                          /\ Jump \in Interval..Half - 1 /\ Late \in 0..Jump - 1
ASSUME NoneAssumption  == None \notin Time

VARIABLES
  current,    \* kcp->current
  ts_flush,   \* kcp->ts_flush
  updated,    \* kcp->updated
  resendts,   \* resendts of the segment in flight, or None
  rto,        \* its timeout
  waiting,    \* a segment waits in snd_queue
  elapsed,    \* history: how far the clock moved on since the last flush
  set,        \* history: the clock was set since the last flush
  skewed      \* history: it was set since resendts got its value

kcb  == <<current, ts_flush, updated, resendts, rto, waiting>>
vars == <<kcb, elapsed, set, skewed>>

(* _itimediff: the difference as a signed number of 32 bits.               *)
Diff(later, earlier) ==
  LET d == (later - earlier) % Modulus
  IN IF d < Half THEN d ELSE d - Modulus

Plus(t, d) == (t + d) % Modulus

Least(a, b) == IF a < b THEN a ELSE b

Jumped(slap) == slap >= Jump \/ slap < -Jump

(* The first reading of the clock may be any.                              *)
Init ==
  /\ current \in Time /\ ts_flush = Interval % Modulus
  /\ updated = FALSE
  /\ resendts = None /\ rto = 0
  /\ waiting = FALSE
  /\ elapsed = 0 /\ set = FALSE /\ skewed = FALSE

(* ikcp_send, and the acknowledgement that takes the segment out.          *)
Send ==
  /\ ~ waiting
  /\ waiting' = TRUE
  /\ UNCHANGED <<current, ts_flush, updated, resendts, rto, elapsed, set, skewed>>

Acknowledge ==
  /\ resendts # None
  /\ resendts' = None /\ rto' = 0
  /\ UNCHANGED <<current, ts_flush, updated, waiting, elapsed, set, skewed>>

Grown(r) == IF r + r \div 2 < RtoCap THEN r + r \div 2 ELSE RtoCap

MutDue(now) == Diff(now, resendts) > Interval

Due(now) == Diff(now, resendts) >= 0

(* ikcp_flush: the segment goes out for the first time, or again when due. *)
Flush(now) ==
  IF resendts = None
    THEN /\ resendts' = IF waiting THEN Plus(now, Rto) ELSE None
         /\ rto' = IF waiting THEN Rto ELSE 0
         /\ waiting' = FALSE
    ELSE /\ rto' = IF Due(now) THEN Grown(rto) ELSE rto
         /\ resendts' = IF Due(now) THEN Plus(now, rto') ELSE resendts
         /\ UNCHANGED waiting

MutNextFlush(now, base) == Plus(base, Interval)

(* ts_flush += interval, or a fresh start when that is past as well.       *)
NextFlush(now, base) ==
  IF Diff(now, Plus(base, Interval)) >= 0 THEN Plus(now, Interval)
                                          ELSE Plus(base, Interval)

MutFlushBase(now) == IF updated THEN ts_flush ELSE now

(* ts_flush before the comparison: the first call and a jump restart it.   *)
FlushBase(now) ==
  IF ~ updated \/ Jumped(Diff(now, ts_flush)) THEN now ELSE ts_flush

(* ikcp_update(kcp, now), d the way the clock went since the last call.    *)
Update(now, d, isSet) ==
  LET base == FlushBase(now)
  IN /\ current' = now
     /\ updated' = TRUE
     /\ IF Diff(now, base) >= 0
          THEN /\ ts_flush' = NextFlush(now, base)
               /\ Flush(now)
               /\ elapsed' = 0 /\ set' = FALSE
               /\ skewed' = (resendts' = resendts /\ resendts # None
                               /\ (skewed \/ isSet))
          ELSE /\ ts_flush' = base
               /\ elapsed' = Least(elapsed + d, Modulus)
               /\ set' = (set \/ isSet)
               /\ skewed' = (skewed \/ isSet)
               /\ UNCHANGED <<resendts, rto, waiting>>

MovesOn == \E d \in 0..Late : Update(Plus(current, d), d, FALSE)

IsSet == \E now \in Time : Update(now, 0, TRUE)

Next == Send \/ Acknowledge \/ MovesOn \/ IsSet

Spec == Init /\ [][Next]_vars

MutCapped(d) == d

(* The wait is never longer than an interval.                              *)
Capped(d) == Least(d, Interval)

(* ikcp_check(kcp, now).                                                   *)
Check(now) ==
  LET base   == IF Jumped(Diff(now, ts_flush)) THEN now ELSE ts_flush
      packet == IF resendts = None THEN Half - 1 ELSE Diff(resendts, now)
  IN IF ~ updated \/ Diff(now, base) >= 0 \/ packet <= 0 THEN now
     ELSE Plus(now, Capped(Least(packet, Diff(base, now))))

-----------------------------------------------------------------------------
(* Types: every time is a reading of the clock, and wraps with it.         *)
TypeOK ==
  /\ {current, ts_flush} \subseteq Time
  /\ {updated, waiting} \subseteq BOOLEAN
  /\ resendts \in Time \cup {None} /\ rto \in 0..RtoCap
  /\ elapsed \in 0..Modulus /\ {set, skewed} \subseteq BOOLEAN

(* After a call, the next flush is ahead by an interval at most: late      *)
(* calls do not pile up flushes, across the wrap of the clock too; and a   *)
(* call that comes an interval or more after the last flush flushes.  Once *)
(* the clock was set this holds again from the next flush on.              *)
FlushInTime ==
  updated /\ ~ set => Diff(ts_flush, current) \in 1..Interval /\ elapsed < Interval

(* When the clock is set, forward or back, flushes stop for the jump       *)
(* threshold at most.                                                      *)
FlushAfterJump == updated => Diff(ts_flush, current) \in 1..Jump

(* A segment whose resend time has come waits less than an interval for    *)
(* the flush that sends it again, if the clock was not set meanwhile.      *)
ResendInTime ==
  resendts # None /\ ~ set /\ ~ skewed => Diff(current, resendts) < Interval

(* ikcp_check never lets the caller sleep past a flush, nor for longer     *)
(* than an interval, whenever it is asked.                                 *)
CheckNeverLate ==
  updated => \A now \in Time :
    /\ Diff(Check(now), now) \in 0..Interval
    /\ ~ Jumped(Diff(now, ts_flush)) /\ Diff(now, ts_flush) < 0
         => Diff(ts_flush, Check(now)) >= 0
=============================================================================
