--------------------------- MODULE KcpClockProofs ---------------------------
(***************************************************************************)
(* What TLAPS proves of KcpClock for a clock of any range, any interval    *)
(* and any timeouts the assumptions of the module allow.                   *)
(*                                                                         *)
(* Numbers on the clock are compared by Diff, a remainder by an unknown    *)
(* modulus.  The first lemmas replace it by what the provers can add up:   *)
(* a difference that is off by a whole turn of the clock, or not at all.   *)
(***************************************************************************)
EXTENDS KcpClock, NumberFacts

(* _itimediff returns the difference up to one turn of the clock.          *)
LEMMA DiffValue ==
  ASSUME NEW a \in Time, NEW b \in Time
  PROVE  /\ Diff(a, b) \in -Half..Half - 1
         /\ \/ Diff(a, b) = a - b
            \/ Diff(a, b) = a - b + Modulus
            \/ Diff(a, b) = a - b - Modulus
<1>. DEFINE m == Modulus
<1>1. m \in Nat \ {0} /\ m = Half + Half /\ Half \in Nat
  BY HalfAssumption DEF Modulus
<1>2. a \in 0..m - 1 /\ b \in 0..m - 1
  BY DEF Time
<1>. HIDE DEF m
<1>3. (a - b) % m = IF a >= b THEN a - b ELSE a - b + m
  <2>1. CASE a >= b
    <3>1. 0 * m <= a - b /\ a - b < 0 * m + m
      BY <1>1, <1>2, <2>1
    <3>2. (a - b) % m = (a - b) - 0 * m
      BY <1>1, <1>2, <3>1, RemainderExact
    <3>. QED
      BY <1>1, <1>2, <2>1, <3>2
  <2>2. CASE a < b
    <3>1. (-1) * m <= a - b /\ a - b < (-1) * m + m
      BY <1>1, <1>2, <2>2
    <3>2. (a - b) % m = (a - b) - (-1) * m
      BY <1>1, <1>2, <3>1, RemainderExact
    <3>. QED
      BY <1>1, <1>2, <2>2, <3>2
  <2>. QED
    BY <1>2, <2>1, <2>2
<1>4. Diff(a, b) = IF (a - b) % m < Half THEN (a - b) % m ELSE ((a - b) % m) - m
  BY DEF Diff, m
<1>5. m = Modulus
  BY DEF m
<1>. QED
  BY <1>1, <1>2, <1>3, <1>4, <1>5

(* Numbers that grow for ever and are kept modulo the range, like sn, una  *)
(* and every time of the control block: _itimediff of what is kept is the  *)
(* difference of the numbers, as long as they are less than Half apart     *)
(* (ikcp.cc:136; the windows are far smaller).                             *)
THEOREM DiffExact ==
  ASSUME NEW a \in Int, NEW b \in Int, -Half <= a - b, a - b < Half
  PROVE  Diff(a % Modulus, b % Modulus) = a - b
<1>. DEFINE m == Modulus
            x == a % m
            y == b % m
<1>1. m \in Nat \ {0} /\ m = Half + Half /\ Half \in Nat
  BY HalfAssumption DEF Modulus
<1>. HIDE DEF m
<1>2. PICK p \in Int : a = p * m + x /\ x \in 0..m - 1
  BY <1>1, Division
<1>3. PICK q \in Int : b = q * m + y /\ y \in 0..m - 1
  BY <1>1, Division
<1>. HIDE DEF x, y
<1>4. x - y = (a - b) + (q - p) * m
  <2>1. (q - p) * m = q * m - p * m
    BY <1>1, <1>2, <1>3
  <2>. QED
    BY <1>1, <1>2, <1>3, <2>1
<1>5. Diff(x, y) = IF (x - y) % m < Half THEN (x - y) % m
                                         ELSE ((x - y) % m) - m
  BY DEF Diff, m
<1>6. CASE a - b >= 0
  <2>1. (q - p) * m <= x - y /\ x - y < (q - p) * m + m
    BY <1>1, <1>2, <1>3, <1>4, <1>6
  <2>2. (x - y) % m = (x - y) - (q - p) * m
    <3>1. x - y \in Int /\ q - p \in Int
      BY <1>1, <1>2, <1>3
    <3>. QED
      BY <1>1, <2>1, <3>1, RemainderExact
  <2>3. (x - y) % m = a - b
    BY <1>1, <1>2, <1>3, <1>4, <2>2
  <2>. QED
    BY <1>1, <1>5, <2>3 DEF m, x, y
<1>7. CASE a - b < 0
  <2>. DEFINE k == (q - p) - 1
  <2>1. k * m = (q - p) * m - m
    BY <1>1, <1>2, <1>3
  <2>2. k * m <= x - y /\ x - y < k * m + m
    BY <1>1, <1>2, <1>3, <1>4, <1>7, <2>1
  <2>3. (x - y) % m = (x - y) - k * m
    BY <1>1, <1>2, <1>3, <2>2, RemainderExact
  <2>4. (x - y) % m = a - b + m
    BY <1>1, <1>2, <1>3, <1>4, <2>1, <2>3
  <2>. QED
    BY <1>1, <1>5, <1>7, <2>4 DEF m, x, y
<1>. QED
  BY <1>6, <1>7

(* A time ahead is the sum, or the sum less one turn.                      *)
LEMMA PlusValue ==
  ASSUME NEW t \in Time, NEW d \in 0..Modulus - 1
  PROVE  /\ Plus(t, d) \in Time
         /\ Plus(t, d) = t + d \/ Plus(t, d) = t + d - Modulus
<1>. DEFINE m == Modulus
<1>1. m \in Nat \ {0} /\ t \in 0..m - 1 /\ d \in 0..m - 1
  BY HalfAssumption DEF Modulus, Time
<1>2. Plus(t, d) = (t + d) % m /\ Time = 0..m - 1 /\ m = Modulus
  BY DEF Plus, Time
<1>. HIDE DEF m
<1>3. CASE t + d < m
  <2>1. 0 * m <= t + d /\ t + d < 0 * m + m
    BY <1>1, <1>3
  <2>2. (t + d) % m = (t + d) - 0 * m
    BY <1>1, <2>1, RemainderExact
  <2>. QED
    BY <1>1, <1>2, <1>3, <2>2
<1>4. CASE t + d >= m
  <2>1. 1 * m <= t + d /\ t + d < 1 * m + m
    BY <1>1, <1>4
  <2>2. (t + d) % m = (t + d) - 1 * m
    BY <1>1, <2>1, RemainderExact
  <2>. QED
    BY <1>1, <1>2, <1>4, <2>2
<1>. QED
  BY <1>1, <1>3, <1>4
-----------------------------------------------------------------------------
(* The inductive invariant.                                                *)

(* The flush that comes next is ahead, at most by the threshold of a jump, *)
(* and unless the clock was set the time since the last flush and the time *)
(* to the next make up an interval at most.                                *)
Ahead ==
  updated => /\ Diff(ts_flush, current) \in 1..Jump
             /\ ~ set => Diff(ts_flush, current) + elapsed <= Interval

(* A segment in flight has a timeout, and its resend time was still ahead  *)
(* at the last flush, unless the clock was set since.                      *)
InFlight ==
  resendts # None =>
    /\ updated /\ rto > 0
    /\ ~ set /\ ~ skewed => Diff(current, resendts) < elapsed

IndInv == TypeOK /\ Ahead /\ InFlight

(* What the assumptions on the constants say, in the form the steps use.   *)
LEMMA Bounds ==
  /\ Half \in Nat /\ Half > 0 /\ Modulus = Half + Half /\ Modulus \in Nat
  /\ Interval \in 1..Half - 1 /\ Rto \in 1..RtoCap
  /\ RtoCap \in 1..Half - 1
  /\ Jump \in Interval..Half - 1 /\ Late \in 0..Jump - 1
BY HalfAssumption, TimesAssumption DEF Modulus

LEMMA InitEstablishes == Init => IndInv
<1>. SUFFICES ASSUME Init PROVE IndInv
  OBVIOUS
<1>1. Interval \in 0..Modulus - 1 /\ 0 \in Time
  BY Bounds DEF Time
<1>2. Interval % Modulus = Interval - 0 * Modulus
  BY <1>1, Bounds, RemainderExact
<1>3. ts_flush \in Time
  BY <1>1, <1>2, Bounds DEF Init, Time
<1>4. 0 \in 0..RtoCap /\ 0 \in 0..Modulus
  BY Bounds
<1>5. TypeOK
  BY <1>3, <1>4 DEF Init, TypeOK
<1>. QED
  BY <1>5 DEF Init, IndInv, Ahead, InFlight

(* ikcp_send and an acknowledgement touch neither clock nor schedule.      *)
LEMMA SendKeeps == IndInv /\ Send => IndInv'
BY DEF IndInv, TypeOK, Ahead, InFlight, Send, Diff

LEMMA AcknowledgeKeeps == IndInv /\ Acknowledge => IndInv'
BY Bounds DEF IndInv, TypeOK, Ahead, InFlight, Acknowledge, Diff

(* Where ikcp_update leaves ts_flush when it flushes: one to Interval      *)
(* ticks ahead.                                                            *)
LEMMA NextFlushValue ==
  ASSUME NEW now \in Time, NEW base \in Time, Diff(now, base) >= 0
  PROVE  /\ NextFlush(now, base) \in Time
         /\ Diff(NextFlush(now, base), now) \in 1..Interval
<1>1. Interval \in 0..Modulus - 1
  BY Bounds
<1>. DEFINE ahead == Plus(now, Interval)
            after == Plus(base, Interval)
<1>2. /\ ahead \in Time
      /\ ahead = now + Interval \/ ahead = now + Interval - Modulus
  BY <1>1, PlusValue
<1>3. /\ after \in Time
      /\ after = base + Interval \/ after = base + Interval - Modulus
  BY <1>1, PlusValue
<1>4. NextFlush(now, base) = IF Diff(now, after) >= 0 THEN ahead ELSE after
  BY DEF NextFlush
<1>. HIDE DEF ahead, after
<1>5. now \in 0..Modulus - 1 /\ base \in 0..Modulus - 1
  BY DEF Time
<1>6. CASE Diff(now, after) >= 0
  <2>1. /\ Diff(ahead, now) \in -Half..Half - 1
        /\ \/ Diff(ahead, now) = ahead - now
           \/ Diff(ahead, now) = ahead - now + Modulus
           \/ Diff(ahead, now) = ahead - now - Modulus
    BY <1>2, DiffValue
  <2>2. Diff(ahead, now) = Interval
    BY <1>2, <1>5, <2>1, Bounds
  <2>. QED
    BY <1>2, <1>4, <1>6, <2>2, Bounds
<1>7. CASE ~ (Diff(now, after) >= 0)
  <2>1. /\ Diff(after, now) \in -Half..Half - 1
        /\ \/ Diff(after, now) = after - now
           \/ Diff(after, now) = after - now + Modulus
           \/ Diff(after, now) = after - now - Modulus
    BY <1>3, DiffValue
  <2>2. /\ Diff(now, after) \in -Half..Half - 1
        /\ \/ Diff(now, after) = now - after
           \/ Diff(now, after) = now - after + Modulus
           \/ Diff(now, after) = now - after - Modulus
    BY <1>3, DiffValue
  <2>3. /\ Diff(now, base) \in -Half..Half - 1
        /\ \/ Diff(now, base) = now - base
           \/ Diff(now, base) = now - base + Modulus
           \/ Diff(now, base) = now - base - Modulus
    BY DiffValue
  <2>. HIDE DEF Diff
  <2>4. Diff(after, now) \in 1..Interval
    BY <1>3, <1>5, <1>7, <2>1, <2>2, <2>3, Bounds
  <2>. QED
    BY <1>3, <1>4, <1>7, <2>4
<1>. QED
  BY <1>6, <1>7

(* A resend time is ahead when it is set.                                  *)
LEMMA ResendAhead ==
  ASSUME NEW now \in Time, NEW r \in 1..RtoCap
  PROVE  Plus(now, r) \in Time /\ Diff(now, Plus(now, r)) < 0
<1>1. r \in 0..Modulus - 1
  BY Bounds
<1>. DEFINE due == Plus(now, r)
<1>2. due \in Time /\ (due = now + r \/ due = now + r - Modulus)
  BY <1>1, PlusValue
<1>. HIDE DEF due
<1>3. /\ Diff(now, due) \in -Half..Half - 1
      /\ \/ Diff(now, due) = now - due
         \/ Diff(now, due) = now - due + Modulus
         \/ Diff(now, due) = now - due - Modulus
  BY <1>2, DiffValue
<1>4. now \in 0..Modulus - 1
  BY DEF Time
<1>5. Diff(now, due) < 0
  BY <1>1, <1>2, <1>3, <1>4, Bounds
<1>. QED
  BY <1>2, <1>5 DEF due

(* The timeout grows by half and stays positive.                           *)
LEMMA GrownValue ==
  ASSUME NEW r \in 1..RtoCap PROVE Grown(r) \in 1..RtoCap
<1>1. r \div 2 \in Nat
  BY Bounds
<1>. QED
  BY <1>1, Bounds DEF Grown

(* What ikcp_flush does to the segment: in flight afterwards, it has a     *)
(* timeout and a resend time that is still ahead.                          *)
LEMMA FlushKeeps ==
  ASSUME TypeOK, InFlight, NEW now \in Time, Flush(now)
  PROVE  /\ resendts' \in Time \cup {None} /\ rto' \in 0..RtoCap
         /\ waiting' \in BOOLEAN
         /\ resendts' # None => rto' > 0 /\ Diff(now, resendts') < 0
<1>1. Rto \in 1..RtoCap /\ 0 \in 0..RtoCap
  BY Bounds
<1>2. waiting \in BOOLEAN /\ resendts \in Time \cup {None}
        /\ rto \in 0..RtoCap
  BY DEF TypeOK
<1>3. CASE resendts = None
  <2>1. /\ resendts' = IF waiting THEN Plus(now, Rto) ELSE None
        /\ rto' = IF waiting THEN Rto ELSE 0
        /\ waiting' = FALSE
    BY <1>3 DEF Flush
  <2>2. Plus(now, Rto) \in Time /\ Diff(now, Plus(now, Rto)) < 0
    BY <1>1, ResendAhead
  <2>3. CASE waiting
    <3>1. resendts' = Plus(now, Rto) /\ rto' = Rto /\ waiting' = FALSE
      BY <2>1, <2>3
    <3>2. Rto \in 0..RtoCap /\ Rto > 0
      BY <1>1, Bounds
    <3>. QED
      BY <2>2, <3>1, <3>2
  <2>4. CASE ~ waiting
    BY <1>1, <2>1, <2>4
  <2>. QED
    BY <2>3, <2>4
<1>4. CASE resendts # None
  <2>1. /\ rto' = IF Due(now) THEN Grown(rto) ELSE rto
        /\ resendts' = IF Due(now) THEN Plus(now, rto') ELSE resendts
        /\ waiting' = waiting
    BY <1>4 DEF Flush
  <2>2. rto \in 1..RtoCap /\ resendts \in Time
    BY <1>2, <1>4, Bounds DEF InFlight
  <2>3. CASE Due(now)
    <3>1. rto' \in 1..RtoCap
      BY <2>1, <2>2, <2>3, GrownValue
    <3>2. resendts' \in Time /\ Diff(now, resendts') < 0
      BY <2>1, <2>3, <3>1, ResendAhead
    <3>. QED
      BY <1>2, <2>1, <3>1, <3>2, Bounds
  <2>4. CASE ~ Due(now)
    <3>1. Diff(now, resendts) \in -Half..Half - 1
      BY <2>2, DiffValue
    <3>2. Diff(now, resendts) < 0
      BY <2>4, <3>1, Bounds DEF Due
    <3>. QED
      BY <1>2, <2>1, <2>2, <2>4, <3>2, Bounds
  <2>. QED
    BY <2>3, <2>4
<1>. QED
  BY <1>3, <1>4

LEMMA BaseInTime ==
  ASSUME TypeOK, NEW now \in Time
  PROVE  FlushBase(now) \in Time
BY DEF TypeOK, FlushBase

(* A call of ikcp_update that flushes.                                     *)
LEMMA FlushingKeeps ==
  ASSUME IndInv, NEW now \in Time, NEW d, NEW isSet \in BOOLEAN,
         Update(now, d, isSet), Diff(now, FlushBase(now)) >= 0
  PROVE  IndInv'
<1>1. /\ current' = now /\ updated' = TRUE
      /\ ts_flush' = NextFlush(now, FlushBase(now))
      /\ Flush(now)
      /\ elapsed' = 0 /\ set' = FALSE
      /\ skewed' = (resendts' = resendts /\ resendts # None
                      /\ (skewed \/ isSet))
  BY DEF Update
<1>2. FlushBase(now) \in Time
  BY BaseInTime DEF IndInv
<1>3. ts_flush' \in Time /\ Diff(ts_flush', now) \in 1..Interval
  BY <1>1, <1>2, NextFlushValue
<1>4. /\ resendts' \in Time \cup {None} /\ rto' \in 0..RtoCap
      /\ waiting' \in BOOLEAN
      /\ resendts' # None => rto' > 0 /\ Diff(now, resendts') < 0
  BY <1>1, FlushKeeps DEF IndInv
<1>5. skewed' \in BOOLEAN
  BY <1>1
<1>6. TypeOK'
  <2>1. elapsed' \in 0..Modulus
    BY <1>1, Bounds
  <2>. QED
    BY <1>1, <1>3, <1>4, <1>5, <2>1 DEF TypeOK
<1>7. Diff(ts_flush, current)' = Diff(ts_flush', now)
  BY <1>1 DEF Diff, Modulus
<1>8. Diff(current, resendts)' = Diff(now, resendts')
  BY <1>1 DEF Diff, Modulus
<1>9. Ahead'
  <2>1. Diff(ts_flush, current)' \in 1..Jump
    BY <1>3, <1>7, Bounds
  <2>2. Diff(ts_flush, current)' + elapsed' <= Interval
    BY <1>1, <1>3, <1>7, Bounds
  <2>. QED
    BY <2>1, <2>2 DEF Ahead
<1>10. InFlight'
  BY <1>1, <1>4, <1>8 DEF InFlight
<1>. QED
  BY <1>6, <1>9, <1>10 DEF IndInv

(* A call of ikcp_update that comes too early to flush.                    *)
LEMMA WaitingKeeps ==
  ASSUME IndInv, NEW now \in Time, NEW d \in 0..Late, NEW isSet \in BOOLEAN,
         Update(now, d, isSet), ~ (Diff(now, FlushBase(now)) >= 0),
         isSet \/ now = Plus(current, d)
  PROVE  IndInv'
<1>1. /\ current' = now /\ updated' = TRUE
      /\ ts_flush' = FlushBase(now)
      /\ elapsed' = Least(elapsed + d, Modulus)
      /\ set' = (set \/ isSet) /\ skewed' = (skewed \/ isSet)
      /\ resendts' = resendts /\ rto' = rto /\ waiting' = waiting
  BY DEF Update
<1>2. Diff(now, now) = 0
  <2>1. /\ Diff(now, now) \in -Half..Half - 1
        /\ \/ Diff(now, now) = now - now
           \/ Diff(now, now) = now - now + Modulus
           \/ Diff(now, now) = now - now - Modulus
    BY DiffValue
  <2>. QED
    BY <2>1, Bounds DEF Time
<1>3. updated /\ ~ Jumped(Diff(now, ts_flush)) /\ FlushBase(now) = ts_flush
  BY <1>2 DEF FlushBase
<1>4. /\ ts_flush \in Time /\ current \in Time
      /\ resendts \in Time \cup {None} /\ rto \in 0..RtoCap
      /\ waiting \in BOOLEAN /\ set \in BOOLEAN /\ skewed \in BOOLEAN
      /\ elapsed \in 0..Modulus
  BY DEF IndInv, TypeOK
<1>5. d \in Nat /\ d < Jump /\ d \in 0..Modulus - 1
  BY Bounds
<1>6. TypeOK'
  <2>1. elapsed' \in 0..Modulus
    BY <1>1, <1>4, <1>5, Bounds DEF Least
  <2>. QED
    BY <1>1, <1>3, <1>4, <2>1 DEF TypeOK
<1>7. Diff(ts_flush, current)' = Diff(ts_flush, now)
  BY <1>1, <1>3 DEF Diff, Modulus
<1>8. Diff(current, resendts)' = Diff(now, resendts)
  BY <1>1 DEF Diff, Modulus
<1>9. /\ Diff(now, ts_flush) \in -Half..Half - 1
      /\ \/ Diff(now, ts_flush) = now - ts_flush
         \/ Diff(now, ts_flush) = now - ts_flush + Modulus
         \/ Diff(now, ts_flush) = now - ts_flush - Modulus
  BY <1>4, DiffValue
<1>10. /\ Diff(ts_flush, now) \in -Half..Half - 1
       /\ \/ Diff(ts_flush, now) = ts_flush - now
          \/ Diff(ts_flush, now) = ts_flush - now + Modulus
          \/ Diff(ts_flush, now) = ts_flush - now - Modulus
  BY <1>4, DiffValue
<1>11. now \in 0..Modulus - 1 /\ ts_flush \in 0..Modulus - 1
         /\ current \in 0..Modulus - 1
  BY <1>4 DEF Time
<1>12. Diff(now, ts_flush) < 0 /\ Diff(now, ts_flush) >= -Jump
  BY <1>3, <1>9, Bounds DEF Jumped
<1>13. Diff(ts_flush, now) = -Diff(now, ts_flush)
  BY <1>9, <1>10, <1>11, <1>12, Bounds
<1>14. Diff(ts_flush, now) \in 1..Jump
  BY <1>9, <1>12, <1>13, Bounds
<1>15. Ahead /\ InFlight
  BY DEF IndInv
<1>16. ASSUME ~ isSet, ~ set
       PROVE  /\ Diff(ts_flush, now) + elapsed' <= Interval
              /\ elapsed' = elapsed + d
  <2>1. now = Plus(current, d)
    BY <1>16
  <2>2. now = current + d \/ now = current + d - Modulus
    BY <1>4, <1>5, <2>1, PlusValue
  <2>3. Diff(ts_flush, current) \in 1..Jump
          /\ Diff(ts_flush, current) + elapsed <= Interval
    BY <1>3, <1>15, <1>16 DEF Ahead
  <2>4. \/ Diff(ts_flush, current) = ts_flush - current
        \/ Diff(ts_flush, current) = ts_flush - current + Modulus
        \/ Diff(ts_flush, current) = ts_flush - current - Modulus
    BY <1>4, DiffValue
  <2>5. Diff(ts_flush, now) = Diff(ts_flush, current) - d
    BY <1>5, <1>10, <1>11, <2>2, <2>3, <2>4, Bounds
  <2>6. elapsed + d < Modulus
    BY <1>4, <1>5, <1>14, <2>3, <2>5, Bounds
  <2>7. elapsed' = elapsed + d
    BY <1>1, <1>4, <1>5, <2>6, Bounds DEF Least
  <2>. QED
    BY <1>4, <1>5, <2>3, <2>5, <2>7, Bounds
<1>17. Ahead'
  <2>1. CASE set \/ isSet
    BY <1>1, <1>4, <1>7, <1>14, <2>1 DEF Ahead
  <2>2. CASE ~ set /\ ~ isSet
    BY <1>1, <1>7, <1>14, <1>16, <2>2 DEF Ahead
  <2>. QED
    BY <2>1, <2>2
<1>18. InFlight'
  <2>1. SUFFICES ASSUME resendts # None
                 PROVE  /\ updated' /\ rto' > 0
                        /\ ~ set' /\ ~ skewed' =>
                             Diff(current, resendts)' < elapsed'
    BY <1>1 DEF InFlight
  <2>2. updated' /\ rto' > 0
    BY <1>1, <1>15, <2>1 DEF InFlight
  <2>3. ASSUME ~ set', ~ skewed' PROVE Diff(now, resendts) < elapsed'
    <3>1. ~ isSet /\ ~ set /\ ~ skewed
      BY <1>1, <1>4, <2>3
    <3>2. Diff(current, resendts) < elapsed
      BY <1>15, <2>1, <3>1 DEF InFlight
    <3>3. now = current + d \/ now = current + d - Modulus
      BY <1>4, <1>5, <3>1, PlusValue
    <3>4. resendts \in Time
      BY <1>4, <2>1
    <3>5. /\ Diff(current, resendts) \in -Half..Half - 1
          /\ \/ Diff(current, resendts) = current - resendts
             \/ Diff(current, resendts) = current - resendts + Modulus
             \/ Diff(current, resendts) = current - resendts - Modulus
      BY <1>4, <3>4, DiffValue
    <3>6. /\ Diff(now, resendts) \in -Half..Half - 1
          /\ \/ Diff(now, resendts) = now - resendts
             \/ Diff(now, resendts) = now - resendts + Modulus
             \/ Diff(now, resendts) = now - resendts - Modulus
      BY <3>4, DiffValue
    <3>7. elapsed' = elapsed + d /\ elapsed + d < Interval
      BY <1>4, <1>5, <1>14, <1>16, <3>1, Bounds
    <3>8. resendts \in 0..Modulus - 1
      BY <3>4 DEF Time
    <3>. QED
      BY <1>4, <1>5, <1>11, <3>2, <3>3, <3>5, <3>6, <3>7, <3>8, Bounds
  <2>. QED
    BY <1>8, <2>2, <2>3
<1>. QED
  BY <1>6, <1>17, <1>18 DEF IndInv

LEMMA UpdateKeeps ==
  ASSUME IndInv, NEW now \in Time, NEW d \in 0..Late, NEW isSet \in BOOLEAN,
         Update(now, d, isSet), isSet \/ now = Plus(current, d)
  PROVE  IndInv'
<1>1. CASE Diff(now, FlushBase(now)) >= 0
  BY <1>1, FlushingKeeps
<1>2. CASE ~ (Diff(now, FlushBase(now)) >= 0)
  BY <1>2, WaitingKeeps
<1>. QED
  BY <1>1, <1>2

LEMMA NextKeeps == IndInv /\ [Next]_vars => IndInv'
<1>. SUFFICES ASSUME IndInv, [Next]_vars PROVE IndInv'
  OBVIOUS
<1>1. CASE Send
  BY <1>1, SendKeeps
<1>2. CASE Acknowledge
  BY <1>2, AcknowledgeKeeps
<1>3. CASE MovesOn
  <2>1. PICK d \in 0..Late : Update(Plus(current, d), d, FALSE)
    BY <1>3 DEF MovesOn
  <2>2. d \in 0..Modulus - 1 /\ current \in Time
    BY Bounds DEF IndInv, TypeOK
  <2>3. Plus(current, d) \in Time
    BY <2>2, PlusValue
  <2>. QED
    BY <2>1, <2>3, UpdateKeeps
<1>4. CASE IsSet
  <2>1. PICK now \in Time : Update(now, 0, TRUE)
    BY <1>4 DEF IsSet
  <2>2. 0 \in 0..Late
    BY Bounds
  <2>. QED
    BY <2>1, <2>2, UpdateKeeps
<1>5. CASE UNCHANGED vars
  BY <1>5 DEF vars, kcb, IndInv, TypeOK, Ahead, InFlight, Diff
<1>. QED
  BY <1>1, <1>2, <1>3, <1>4, <1>5 DEF Next

THEOREM Invariance == Spec => []IndInv
<1>1. Init => IndInv
  BY InitEstablishes
<1>2. IndInv /\ [Next]_vars => IndInv'
  BY NextKeeps
<1>. QED
  BY <1>1, <1>2, PTL DEF Spec

-----------------------------------------------------------------------------
(* The invariants of the run, for every clock.                             *)

(* Times are readings of the clock and timeouts stay below RtoCap.         *)
THEOREM TypeCorrect == Spec => []TypeOK
<1>1. IndInv => TypeOK
  BY DEF IndInv
<1>. QED
  BY <1>1, Invariance, PTL

(* ikcp_update schedules the next flush within an interval, however late   *)
(* its calls are and wherever the clock wraps, and no call a whole         *)
(* interval after a flush fails to flush.                                  *)
THEOREM FlushesInTime == Spec => []FlushInTime
<1>1. IndInv => FlushInTime
  <2>. SUFFICES ASSUME IndInv, updated, ~ set
                PROVE  Diff(ts_flush, current) \in 1..Interval /\ elapsed < Interval
    BY DEF FlushInTime
  <2>1. Ahead /\ elapsed \in 0..Modulus
    BY DEF IndInv, TypeOK
  <2>2. Diff(ts_flush, current) \in 1..Jump
          /\ Diff(ts_flush, current) + elapsed <= Interval
    BY <2>1 DEF Ahead
  <2>. QED
    BY <2>1, <2>2, Bounds
<1>. QED
  BY <1>1, Invariance, PTL

(* A clock that is set stops the flushes for the jump threshold at most.   *)
THEOREM FlushesAfterJump == Spec => []FlushAfterJump
<1>1. IndInv => FlushAfterJump
  BY DEF IndInv, Ahead, FlushAfterJump
<1>. QED
  BY <1>1, Invariance, PTL

(* A segment is sent again less than an interval after its time.           *)
THEOREM ResendsInTime == Spec => []ResendInTime
<1>1. IndInv => ResendInTime
  <2>. SUFFICES ASSUME IndInv, resendts # None, ~ set, ~ skewed
                PROVE  Diff(current, resendts) < Interval
    BY DEF ResendInTime
  <2>1. Ahead /\ InFlight /\ elapsed \in 0..Modulus /\ resendts \in Time
          /\ current \in Time
    BY DEF IndInv, TypeOK
  <2>2. updated /\ Diff(current, resendts) < elapsed
    BY <2>1 DEF InFlight
  <2>3. Diff(ts_flush, current) \in 1..Jump
          /\ Diff(ts_flush, current) + elapsed <= Interval
    BY <2>1, <2>2 DEF Ahead
  <2>4. Diff(current, resendts) \in -Half..Half - 1
    BY <2>1, DiffValue
  <2>. QED
    BY <2>1, <2>2, <2>3, <2>4, Bounds
<1>. QED
  BY <1>1, Invariance, PTL

(* A difference that is not the least one changes sign with its operands.  *)
LEMMA DiffReversed ==
  ASSUME NEW a \in Time, NEW b \in Time, -Half < Diff(a, b)
  PROVE  Diff(b, a) = -Diff(a, b)
<1>1. /\ Diff(a, b) \in -Half..Half - 1
      /\ \/ Diff(a, b) = a - b
         \/ Diff(a, b) = a - b + Modulus
         \/ Diff(a, b) = a - b - Modulus
  BY DiffValue
<1>2. /\ Diff(b, a) \in -Half..Half - 1
      /\ \/ Diff(b, a) = b - a
         \/ Diff(b, a) = b - a + Modulus
         \/ Diff(b, a) = b - a - Modulus
  BY DiffValue
<1>3. a \in 0..Modulus - 1 /\ b \in 0..Modulus - 1
  BY DEF Time
<1>. QED
  BY <1>1, <1>2, <1>3, Bounds

(* A wait of at most Interval, from now towards a time goal ahead.         *)
LEMMA TowardsGoal ==
  ASSUME NEW now \in Time, NEW goal \in Time, NEW w \in 0..Interval,
         w <= Diff(goal, now)
  PROVE  /\ Diff(Plus(now, w), now) = w
         /\ Diff(goal, Plus(now, w)) >= 0
<1>1. w \in 0..Modulus - 1 /\ w < Half
  BY Bounds
<1>. DEFINE then == Plus(now, w)
<1>2. then \in Time /\ (then = now + w \/ then = now + w - Modulus)
  BY <1>1, PlusValue
<1>. HIDE DEF then
<1>3. /\ Diff(then, now) \in -Half..Half - 1
      /\ \/ Diff(then, now) = then - now
         \/ Diff(then, now) = then - now + Modulus
         \/ Diff(then, now) = then - now - Modulus
  BY <1>2, DiffValue
<1>4. /\ Diff(goal, then) \in -Half..Half - 1
      /\ \/ Diff(goal, then) = goal - then
         \/ Diff(goal, then) = goal - then + Modulus
         \/ Diff(goal, then) = goal - then - Modulus
  BY <1>2, DiffValue
<1>5. /\ Diff(goal, now) \in -Half..Half - 1
      /\ \/ Diff(goal, now) = goal - now
         \/ Diff(goal, now) = goal - now + Modulus
         \/ Diff(goal, now) = goal - now - Modulus
  BY DiffValue
<1>6. now \in 0..Modulus - 1 /\ goal \in 0..Modulus - 1
        /\ then \in 0..Modulus - 1
  BY <1>2 DEF Time
<1>7. Diff(then, now) = w
  BY <1>1, <1>2, <1>3, <1>6, Bounds
<1>8. Diff(goal, then) >= 0
  BY <1>1, <1>2, <1>4, <1>5, <1>6, Bounds
<1>. QED
  BY <1>7, <1>8 DEF then

(* ikcp_check: whenever it is asked, the time it names is at most an       *)
(* interval away and not past the next flush.                              *)
THEOREM ChecksNeverLate == Spec => []CheckNeverLate
<1>1. IndInv => CheckNeverLate
  <2>. SUFFICES ASSUME IndInv, updated, NEW now \in Time
                PROVE  /\ Diff(Check(now), now) \in 0..Interval
                       /\ ~ Jumped(Diff(now, ts_flush))
                            /\ Diff(now, ts_flush) < 0
                              => Diff(ts_flush, Check(now)) >= 0
    BY DEF CheckNeverLate
  <2>1. ts_flush \in Time /\ resendts \in Time \cup {None}
    BY DEF IndInv, TypeOK
  <2>2. Diff(now, ts_flush) \in -Half..Half - 1
          /\ Diff(ts_flush, now) \in -Half..Half - 1
    BY <2>1, DiffValue
  <2>3. Diff(now, now) = 0
    <3>1. /\ Diff(now, now) \in -Half..Half - 1
          /\ \/ Diff(now, now) = now - now
             \/ Diff(now, now) = now - now + Modulus
             \/ Diff(now, now) = now - now - Modulus
      BY DiffValue
    <3>. QED
      BY <3>1, Bounds DEF Time
  <2>4. ASSUME ~ Jumped(Diff(now, ts_flush)), Diff(now, ts_flush) < 0
        PROVE  Diff(ts_flush, now) \in 1..Jump
    <3>1. Diff(now, ts_flush) >= -Jump
      BY <2>2, <2>4, Bounds DEF Jumped
    <3>2. Diff(ts_flush, now) = -Diff(now, ts_flush)
      BY <2>1, <2>2, <3>1, DiffReversed, Bounds
    <3>. QED
      BY <2>2, <2>4, <3>1, <3>2, Bounds
  <2>. DEFINE base   == IF Jumped(Diff(now, ts_flush)) THEN now ELSE ts_flush
              packet == IF resendts = None THEN Half - 1
                                           ELSE Diff(resendts, now)
              w      == Capped(Least(packet, Diff(base, now)))
  <2>5. packet \in Int
    BY <2>1, DiffValue, Bounds
  <2>6. Check(now) = IF ~ updated \/ Diff(now, base) >= 0 \/ packet <= 0
                     THEN now ELSE Plus(now, w)
    BY DEF Check
  <2>. HIDE DEF w, packet
  <2>7. CASE Check(now) = now
    <3>1. Diff(Check(now), now) \in 0..Interval
      BY <2>3, <2>7, Bounds
    <3>2. ~ Jumped(Diff(now, ts_flush)) /\ Diff(now, ts_flush) < 0
            => Diff(ts_flush, Check(now)) >= 0
      BY <2>4, <2>7, Bounds
    <3>. QED
      BY <3>1, <3>2
  <2>8. CASE Check(now) # now
    <3>1. /\ ~ (Diff(now, base) >= 0) /\ ~ (packet <= 0)
          /\ Check(now) = Plus(now, w)
      BY <2>6, <2>8
    <3>2. ~ Jumped(Diff(now, ts_flush)) /\ base = ts_flush
      BY <2>3, <3>1
    <3>3. Diff(now, ts_flush) < 0
      BY <2>2, <3>1, <3>2, Bounds
    <3>4. Diff(ts_flush, now) \in 1..Jump
      BY <2>4, <3>2, <3>3
    <3>5. w = Capped(Least(packet, Diff(ts_flush, now)))
      BY <3>2 DEF w
    <3>6. w \in 0..Interval /\ w <= Diff(ts_flush, now)
      BY <2>5, <3>1, <3>4, <3>5, Bounds DEF Capped, Least
    <3>7. Diff(Plus(now, w), now) = w /\ Diff(ts_flush, Plus(now, w)) >= 0
      BY <2>1, <3>6, TowardsGoal
    <3>. QED
      BY <3>1, <3>6, <3>7
  <2>. QED
    BY <2>7, <2>8
<1>. QED
  BY <1>1, Invariance, PTL
=============================================================================
