---------------------------- MODULE KcpArqProofs ----------------------------
(***************************************************************************)
(* Proofs about KcpArq, for every pair of endpoints, every window and      *)
(* every amount of traffic.  The argument is the one of IndInv: a chunk is *)
(* found in each queue, buffer or segment at the place its number says, a  *)
(* number the receiver once holds it holds for ever, and only numbers the  *)
(* receiver holds are acknowledged.                                        *)
(***************************************************************************)
EXTENDS KcpArq, NumberFacts, SequenceTheorems

-----------------------------------------------------------------------------
(* Operators on sets and sequences.                                        *)

(* A set of natural numbers that is not empty has a least element, the one *)
(* ikcp_shrink_buf finds at the head of snd_buf.                           *)
LEMMA LeastElement ==
  ASSUME NEW T, T \subseteq Nat, T # {}
  PROVE  Min(T) \in T /\ \A y \in T : Min(T) <= y
<1>1. PICK x \in T : \A y \in T : x <= y
  BY LeastExists
<1>. QED
  BY <1>1 DEF Min

(* FirstUnacked is the lowest number of a buffer below nxt, or nxt.        *)
LEMMA FirstUnackedProperties ==
  ASSUME NEW buf, buf \subseteq Segment, NEW nxt \in Nat,
         \A s \in buf : s.sn < nxt
  PROVE  /\ FirstUnacked(buf, nxt) \in Nat
         /\ FirstUnacked(buf, nxt) <= nxt
         /\ \A s \in buf : FirstUnacked(buf, nxt) <= s.sn
         /\ FirstUnacked(buf, nxt) < nxt =>
              \E s \in buf : s.sn = FirstUnacked(buf, nxt)
<1>1. CASE buf = {}
  BY <1>1 DEF FirstUnacked
<1>2. CASE buf # {}
  <2> DEFINE T == {s.sn : s \in buf}
  <2>1. T \subseteq Nat /\ T # {}
    BY <1>2 DEF Segment
  <2>2. Min(T) \in T /\ \A y \in T : Min(T) <= y
    BY <2>1, LeastElement
  <2>3. FirstUnacked(buf, nxt) = Min(T)
    BY <1>2 DEF FirstUnacked
  <2>4. QED
    BY <2>1, <2>2, <2>3
<1>3. QED
  BY <1>1, <1>2

(* ikcp_send's chunks, and the sequence of chunks they extend.             *)
LEMMA FragmentsType ==
  ASSUME NEW base \in Nat, NEW n \in Nat
  PROVE  /\ Fragments(base, n) \in Seq(Chunk)
         /\ Len(Fragments(base, n)) = n
         /\ \A i \in 1..n : Fragments(base, n)[i].frg = n - i
<1>1. \A i \in 1..n : [pos |-> base + i, frg |-> n - i] \in Chunk
  BY DEF Chunk
<1>2. Fragments(base, n) \in Seq(Chunk)
  BY <1>1, IsASeq DEF Fragments
<1>3. QED
  BY <1>2 DEF Fragments

(* What a stream says of its slices, its chunks and its fragment numbers   *)
(* still holds when ikcp_send has appended to it.                          *)
LEMMA ConcatParts ==
  ASSUME NEW s \in Seq(Chunk), NEW t \in Seq(Chunk)
  PROVE  /\ s \o t \in Seq(Chunk)
         /\ Len(s) \in Nat /\ Len(t) \in Nat
         /\ Len(s \o t) = Len(s) + Len(t)
         /\ \A i \in 1..Len(s) : (s \o t)[i] = s[i]
         /\ \A i \in 1..Len(t) : (s \o t)[Len(s) + i] = t[i]
<1>1. /\ s \o t \in Seq(Chunk)
      /\ Len(s \o t) = Len(s) + Len(t)
      /\ \A i \in 1..Len(s) + Len(t) :
           (s \o t)[i] = IF i <= Len(s) THEN s[i] ELSE t[i - Len(s)]
  BY ConcatProperties
<1>2. Len(s) \in Nat /\ Len(t) \in Nat
  OBVIOUS
<1>3. \A i \in 1..Len(s) : (s \o t)[i] = s[i]
  BY <1>1, <1>2
<1>4. ASSUME NEW i \in 1..Len(t)
      PROVE  (s \o t)[Len(s) + i] = t[i]
  <2>1. /\ Len(s) + i \in 1..Len(s) + Len(t) /\ ~ (Len(s) + i <= Len(s))
        /\ (Len(s) + i) - Len(s) = i
    BY <1>2
  <2>2. QED
    BY <1>1, <2>1
<1>5. QED
  BY <1>1, <1>2, <1>3, <1>4

LEMMA SliceGrows ==
  ASSUME NEW st \in Seq(Chunk), NEW t \in Seq(Chunk), NEW s \in Seq(Chunk),
         NEW base \in Nat, Slice(s, st, base)
  PROVE  Slice(s, st \o t, base)
<1>1. \A i \in 1..Len(s) : base + i \in 1..Len(st)
  BY DEF Slice
<1>2. QED
  BY <1>1, ConcatParts DEF Slice

LEMMA SliceAppend ==
  ASSUME NEW st \in Seq(Chunk), NEW t \in Seq(Chunk), NEW s \in Seq(Chunk),
         NEW base \in Nat, Slice(s, st, base), Len(st) = base + Len(s)
  PROVE  Slice(s \o t, st \o t, base) /\ Len(st \o t) = base + Len(s \o t)
<1>a. Len(st \o t) = Len(st) + Len(t) /\ Len(st) \in Nat /\ Len(t) \in Nat
  BY ConcatParts
<1>b. Len(s \o t) = Len(s) + Len(t) /\ Len(s) \in Nat
  BY ConcatParts
<1>1. Len(st \o t) = base + Len(s \o t)
  BY <1>a, <1>b
<1>2. ASSUME NEW i \in 1..Len(s \o t)
      PROVE  (s \o t)[i] = (st \o t)[base + i]
  <2>1. CASE i \in 1..Len(s)
    <3>1. base + i \in 1..Len(st)
      BY <2>1
    <3>2. QED
      BY <2>1, <3>1, ConcatParts DEF Slice
  <2>2. CASE i \notin 1..Len(s)
    <3> DEFINE j == i - Len(s)
    <3>1. j \in 1..Len(t) /\ i = Len(s) + j /\ base + i = Len(st) + j
      BY <2>2, ConcatParts
    <3> HIDE DEF j
    <3>2. QED
      BY <3>1, ConcatParts
  <2>3. QED
    BY <2>1, <2>2
<1>3. QED
  BY <1>1, <1>2 DEF Slice

LEMMA CarriesGrows ==
  ASSUME NEW st \in Seq(Chunk), NEW t \in Seq(Chunk), NEW sn \in Nat, NEW chunk,
         Carries(st, sn, chunk)
  PROVE  Carries(st \o t, sn, chunk)
<1>1. sn + 1 \in 1..Len(st)
  BY DEF Carries
<1>2. QED
  BY <1>1, ConcatParts DEF Carries

LEMMA CountsDownGrows ==
  ASSUME NEW st \in Seq(Chunk), NEW n \in Nat, n < WND_RCV, CountsDown(st)
  PROVE  CountsDown(st \o Fragments(Len(st), n))
<1> DEFINE C == Fragments(Len(st), n)
           all == st \o C
<1>1. C \in Seq(Chunk) /\ Len(C) = n /\ \A i \in 1..n : C[i].frg = n - i
  BY FragmentsType
<1> HIDE DEF C
<1>2. /\ Len(st) \in Nat /\ Len(all) = Len(st) + n
      /\ \A i \in 1..Len(st) : all[i] = st[i]
      /\ \A i \in 1..n : all[Len(st) + i] = C[i]
  BY <1>1, ConcatParts
<1> HIDE DEF all
<1> SUFFICES ASSUME NEW i \in 1..Len(all)
             PROVE  /\ all[i].frg + 1 < WND_RCV
                    /\ \A d \in 0..all[i].frg :
                         /\ i + d <= Len(all)
                         /\ all[i + d].frg = all[i].frg - d
  BY DEF CountsDown, all, C
<1>3. CASE i \in 1..Len(st)
  <2>0. st[i] \in Chunk
    BY <1>3, ElementOfSeq
  <2>1. st[i].frg \in Nat /\ all[i] = st[i]
    BY <1>2, <1>3, <2>0 DEF Chunk
  <2>2. ASSUME NEW d \in 0..st[i].frg
        PROVE  i + d \in 1..Len(st) /\ st[i + d].frg = st[i].frg - d
    BY <1>3, <2>1 DEF CountsDown
  <2>3. QED
    BY <1>2, <1>3, <2>1, <2>2 DEF CountsDown
<1>4. CASE i \notin 1..Len(st)
  <2> DEFINE j == i - Len(st)
  <2>1. j \in 1..n /\ i = Len(st) + j
    BY <1>2, <1>4
  <2> HIDE DEF j
  <2>2. all[i].frg = n - j
    BY <1>1, <1>2, <2>1
  <2>3. ASSUME NEW d \in 0..n - j
        PROVE  i + d <= Len(all) /\ all[i + d].frg = (n - j) - d
    <3>1. j + d \in 1..n /\ i + d = Len(st) + (j + d)
      BY <1>2, <2>1
    <3>2. all[Len(st) + (j + d)] = C[j + d] /\ C[j + d].frg = n - (j + d)
      BY <1>1, <1>2, <3>1
    <3>3. QED
      BY <1>2, <2>1, <3>1, <3>2
  <2>4. n - j + 1 < WND_RCV
    BY <2>1, WindowAssumption
  <2>5. QED
    BY <2>2, <2>3, <2>4
<1>5. QED
  BY <1>3, <1>4

LEMMA RcvWndType ==
  ASSUME NEW p \in Endpoint
  PROVE  RcvWnd(p) \in Nat /\ WND_RCV <= RcvWnd(p)
BY WindowAssumption DEF RcvWnd

(* The move loop from a queue that is the slice of st after base, and a    *)
(* buffer whose segments are of st too: the queue still is, it is not      *)
(* longer than the window, and no number is lost between the two.          *)
Movable(q, nxt, queue, buf, st, base, top) ==
  /\ nxt \in Nat /\ queue \in Seq(Chunk) /\ buf \in SUBSET Segment
  /\ st \in Seq(Chunk) /\ base \in Nat /\ top \in Nat
  /\ nxt = base + Len(queue) /\ nxt <= top /\ top <= Len(st)
  /\ Len(queue) <= RcvWnd(q)
  /\ Slice(queue, st, base)
  /\ \A s \in buf : /\ nxt <= s.sn
                    /\ s.sn < nxt + RcvWnd(q)
                    /\ s.sn < top
                    /\ Carries(st, s.sn, s.chunk)

Moves(q, nxt, queue, buf, nq, nb, nn) ==
  \E k \in 0..Room(q, queue) :
    /\ Contiguous(buf, nxt, Room(q, queue), k)
    /\ nq = queue \o [i \in 1..k |-> ChunkAt(buf, nxt + i - 1)]
    /\ nb = {s \in buf : s.sn \notin nxt..(nxt + k - 1)}
    /\ nn = nxt + k

Moved(q, nxt, buf, st, base, top, nq, nb, nn) ==
  /\ nq \in Seq(Chunk) /\ nb \in SUBSET buf /\ nn \in Nat
  /\ nn = base + Len(nq)
  /\ nxt <= nn /\ nn <= top
  /\ Len(nq) <= RcvWnd(q)
  /\ Slice(nq, st, base)
  /\ \A s \in nb : nn <= s.sn /\ s.sn < nn + RcvWnd(q)
  /\ \A n \in Nat : (n < nxt \/ \E s \in buf : s.sn = n)
                      => (n < nn \/ \E s \in nb : s.sn = n)

LEMMA MoveProperties ==
  ASSUME NEW q \in Endpoint, NEW nxt, NEW queue, NEW buf, NEW st, NEW base, NEW top,
         NEW nq, NEW nb, NEW nn,
         Movable(q, nxt, queue, buf, st, base, top),
         Moves(q, nxt, queue, buf, nq, nb, nn)
  PROVE  Moved(q, nxt, buf, st, base, top, nq, nb, nn)
<1> USE DEF Movable
<1>k. PICK k \in 0..Room(q, queue) :
        /\ Contiguous(buf, nxt, Room(q, queue), k)
        /\ nq = queue \o [i \in 1..k |-> ChunkAt(buf, nxt + i - 1)]
        /\ nb = {s \in buf : s.sn \notin nxt..(nxt + k - 1)}
        /\ nn = nxt + k
  BY DEF Moves
<1>0. /\ Len(queue) \in Nat /\ Len(st) \in Nat
      /\ \A i \in 1..Len(queue) : queue[i] = st[base + i]
      /\ \A s \in buf : s.sn < top /\ s.chunk = st[s.sn + 1]
  BY DEF Slice, Carries
<1> DEFINE moved == [i \in 1..k |-> ChunkAt(buf, nxt + i - 1)]
<1>2. RcvWnd(q) \in Nat /\ k \in Nat /\ Len(queue) + k <= RcvWnd(q)
  BY <1>0, RcvWndType DEF Room
<1>3. \A i \in 1..k : \E s \in buf : s.sn = nxt + i - 1
  <2> TAKE i \in 1..k
  <2>1. i - 1 \in 0..k-1 /\ nxt + (i - 1) = nxt + i - 1
    BY <1>2
  <2>2. QED
    BY <1>k, <2>1 DEF Contiguous
<1>4. \A i \in 1..k : ChunkAt(buf, nxt + i - 1) = st[nxt + i]
  <2> TAKE i \in 1..k
  <2> DEFINE t == CHOOSE s \in buf : s.sn = nxt + i - 1
  <2>1. t \in buf /\ t.sn = nxt + i - 1
    BY <1>3
  <2>2. t.chunk = st[t.sn + 1]
    BY <1>0, <2>1
  <2>3. t.sn + 1 = nxt + i
    BY <1>2, <2>1
  <2>4. QED
    BY <2>2, <2>3 DEF ChunkAt
<1>5. \A i \in 1..k : ChunkAt(buf, nxt + i - 1) \in Chunk
  BY <1>3 DEF ChunkAt, Segment
<1>6. moved \in Seq(Chunk) /\ Len(moved) = k
  <2>1. moved \in Seq(Chunk)
    BY <1>2, <1>5, IsASeq
  <2>2. QED
    BY <1>2, <2>1
<1>7. /\ nq \in Seq(Chunk)
      /\ Len(nq) = Len(queue) + k
      /\ \A i \in 1..Len(queue) + k :
           nq[i] = IF i <= Len(queue) THEN queue[i] ELSE moved[i - Len(queue)]
  <2>1. nq = queue \o moved
    BY <1>k
  <2> HIDE DEF moved
  <2>2. /\ queue \o moved \in Seq(Chunk)
        /\ Len(queue \o moved) = Len(queue) + k
        /\ \A i \in 1..Len(queue) + k :
             (queue \o moved)[i] = IF i <= Len(queue) THEN queue[i]
                                                    ELSE moved[i - Len(queue)]
    BY <1>6, ConcatProperties
  <2>3. QED
    BY <2>1, <2>2
<1>8. \A i \in 1..Len(nq) : nq[i] = st[base + i]
  <2> TAKE i \in 1..Len(nq)
  <2> HIDE DEF moved
  <2>0. Len(queue) \in Nat /\ i \in 1..Len(queue) + k /\ i \in Nat
    BY <1>2, <1>7
  <2>1. CASE i <= Len(queue)
    <3>1. i \in 1..Len(queue)
      BY <2>0, <2>1
    <3>2. nq[i] = queue[i]
      BY <1>7, <2>0, <2>1
    <3>3. QED
      BY <1>0, <3>1, <3>2
  <2>2. CASE i > Len(queue)
    <3>1. i - Len(queue) \in 1..k /\ ~ (i <= Len(queue))
      BY <1>2, <2>0, <2>2
    <3>2. nq[i] = moved[i - Len(queue)]
      BY <1>7, <2>0, <3>1
    <3>3. moved[i - Len(queue)] = st[nxt + (i - Len(queue))]
      BY <1>4, <3>1 DEF moved
    <3>4. nxt + (i - Len(queue)) = base + i
      BY <1>2, <3>1
    <3>5. QED
      BY <3>2, <3>3, <3>4
  <2>3. QED
    BY <2>1, <2>2
<1>9. nxt + k <= top
  <2>1. CASE k = 0
    BY <2>1
  <2>2. CASE k > 0
    <3>0. k \in 1..k
      BY <1>2, <2>2
    <3>1. PICK s \in buf : s.sn = nxt + k - 1
      BY <1>3, <3>0
    <3>2. s.sn < top
      BY <1>0, <3>1
    <3>3. QED
      BY <1>2, <3>1, <3>2
  <2>3. QED
    BY <1>2, <2>1, <2>2
<1>10. \A s \in nb : nxt + k <= s.sn /\ s.sn < nxt + k + RcvWnd(q)
  <2> TAKE s \in nb
  <2>1. s.sn \in Nat /\ nxt <= s.sn /\ s.sn < nxt + RcvWnd(q) /\ s.sn \notin nxt..(nxt + k - 1)
    BY <1>k DEF Segment
  <2>2. QED
    BY <1>2, <2>1
<1>11. \A n \in Nat : (n < nxt \/ \E s \in buf : s.sn = n)
                        => (n < nxt + k \/ \E s \in nb : s.sn = n)
  <2> SUFFICES ASSUME NEW n \in Nat, n < nxt \/ \E s \in buf : s.sn = n
               PROVE  n < nxt + k \/ \E s \in nb : s.sn = n
    OBVIOUS
  <2>1. CASE n < nxt
    BY <1>2, <2>1
  <2>2. CASE \E s \in buf : s.sn = n
    <3>1. PICK s \in buf : s.sn = n
      BY <2>2
    <3>2. CASE s \in nb
      BY <3>1, <3>2
    <3>3. CASE s \notin nb
      BY <1>2, <1>k, <3>1, <3>3
    <3>4. QED
      BY <3>2, <3>3
  <2>3. QED
    BY <2>1, <2>2
<1>12. /\ nb \in SUBSET buf /\ nxt + k \in Nat /\ nxt + k = base + Len(nq)
       /\ nxt <= nxt + k /\ Len(nq) <= RcvWnd(q)
  <2>1. nb \in SUBSET buf
    BY <1>k
  <2>2. QED
    BY <1>0, <1>2, <1>7, <2>1
<1>13. Slice(nq, st, base)
  <2>1. base + Len(nq) <= Len(st)
    BY <1>0, <1>9, <1>12
  <2>2. QED
    BY <1>8, <2>1 DEF Slice
<1>14. QED
  BY <1>7, <1>9, <1>10, <1>11, <1>12, <1>13, <1>k DEF Moved

-----------------------------------------------------------------------------
(* The inductive invariant, action by action.                              *)

LEMMA InitIndInv == Init => IndInv
<1> SUFFICES ASSUME Init PROVE IndInv
  OBVIOUS
<1> USE EndpointAssumption, WindowAssumption
<1>1. TypeOK
  BY DEF Init, TypeOK
<1>2. \A p \in Endpoint : SndQueueInv(p) /\ SndBufInv(p) /\ SndUnaInv(p)
  BY DEF Init, SndQueueInv, SndBufInv, SndUnaInv, Slice
<1>3. \A p \in Endpoint : CountsDown(stream[p])
  BY DEF Init, CountsDown
<1>4. \A p \in Endpoint : RcvQueueInv(p) /\ RcvBufInv(p) /\ AckListInv(p)
  BY RcvWndType DEF Init, RcvQueueInv, RcvBufInv, AckListInv, Slice
<1>5. (\A m \in net : PacketInv(m)) /\ AckedIsHeld
  BY DEF Init, AckedIsHeld
<1>6. QED
  BY <1>1, <1>2, <1>3, <1>4, <1>5 DEF IndInv

(* What a program appends to a stream disturbs nothing that refers to the  *)
(* chunks before it.                                                       *)
LEMMA SendIndInv ==
  ASSUME IndInv, NEW p \in Endpoint, Send(p)
  PROVE  IndInv'
<1> USE EndpointAssumption
<1>1. PICK n \in 1..Traffic[p] :
        /\ Sendable(n)
        /\ snd_queue' = [snd_queue EXCEPT ![p] = @ \o Fragments(Len(stream[p]), n)]
        /\ stream' = [stream EXCEPT ![p] = @ \o Fragments(Len(stream[p]), n)]
  BY DEF Send
<1> DEFINE C == Fragments(Len(stream[p]), n)
<1>2. TypeOK /\ \A e \in Endpoint : Peer[e] \in Endpoint
  BY DEF IndInv
<1>3. stream[p] \in Seq(Chunk) /\ snd_queue[p] \in Seq(Chunk)
  BY <1>2 DEF TypeOK
<1>4. n \in Nat /\ n < WND_RCV /\ Len(stream[p]) \in Nat
  BY <1>1, <1>3, BoundAssumption, WindowAssumption DEF Sendable
<1>5. C \in Seq(Chunk)
  BY <1>4, FragmentsType
<1>6. UNCHANGED <<snd_buf, snd_una, snd_nxt, rmt_wnd, probing, rcv_queue,
                  rcv_buf, rcv_nxt, acklist, tell, net, read>>
  BY DEF Send, rcvVars
<1>7. /\ stream'[p] = stream[p] \o C /\ snd_queue'[p] = snd_queue[p] \o C
      /\ \A e \in Endpoint : e # p => /\ stream'[e] = stream[e]
                                      /\ snd_queue'[e] = snd_queue[e]
  BY <1>1, <1>2 DEF TypeOK
<1>8. stream[p] \o C \in Seq(Chunk) /\ snd_queue[p] \o C \in Seq(Chunk)
  BY <1>3, <1>5, ConcatParts
<1>9. CountsDown(stream[p]) => CountsDown(stream[p] \o C)
  BY <1>3, <1>4, CountsDownGrows
<1> HIDE DEF C
<1>10. TypeOK'
  BY <1>1, <1>2, <1>6, <1>8 DEF TypeOK, C
<1>11. ASSUME NEW e \in Endpoint, NEW s \in Seq(Chunk), NEW base \in Nat,
              Slice(s, stream[e], base)
       PROVE  Slice(s, stream'[e], base)
  <2>1. CASE e = p
    <3>1. Slice(s, stream[p] \o C, base)
      BY <1>3, <1>5, <1>11, <2>1, SliceGrows
    <3>2. QED
      BY <1>7, <2>1, <3>1
  <2>2. CASE e # p
    BY <1>7, <1>11, <2>2
  <2>3. QED
    BY <2>1, <2>2
<1>12. ASSUME NEW e \in Endpoint, NEW sn \in Nat, NEW chunk,
              Carries(stream[e], sn, chunk)
       PROVE  Carries(stream'[e], sn, chunk)
  <2>1. CASE e = p
    <3>1. Carries(stream[p] \o C, sn, chunk)
      BY <1>3, <1>5, <1>12, <2>1, CarriesGrows
    <3>2. QED
      BY <1>7, <2>1, <3>1
  <2>2. CASE e # p
    BY <1>7, <1>12, <2>2
  <2>3. QED
    BY <2>1, <2>2
<1>13. ASSUME NEW e \in Endpoint PROVE SndQueueInv(e)'
  <2>1. SndQueueInv(e) /\ snd_nxt[e] \in Nat
    BY <1>2 DEF IndInv, TypeOK
  <2>2. CASE e = p
    <3>1. /\ Slice(snd_queue[p] \o C, stream[p] \o C, snd_nxt[p])
          /\ Len(stream[p] \o C) = snd_nxt[p] + Len(snd_queue[p] \o C)
      BY <1>3, <1>5, <2>1, <2>2, SliceAppend DEF SndQueueInv
    <3>2. snd_nxt'[p] = snd_nxt[p]
      BY <1>6
    <3>3. QED
      BY <1>7, <2>2, <3>1, <3>2 DEF SndQueueInv
  <2>3. CASE e # p
    BY <1>6, <1>7, <2>1, <2>3 DEF SndQueueInv
  <2>4. QED
    BY <2>2, <2>3
<1>14. ASSUME NEW e \in Endpoint PROVE SndBufInv(e)' /\ SndUnaInv(e)'
  <2>1. SndBufInv(e) /\ SndUnaInv(e) /\ \A s \in snd_buf[e] : s.sn \in Nat
    BY <1>2 DEF IndInv, TypeOK, Segment
  <2>2. SndBufInv(e)'
    BY <1>6, <1>12, <2>1 DEF SndBufInv
  <2>3. QED
    BY <1>6, <2>1, <2>2 DEF SndUnaInv
<1>15. ASSUME NEW e \in Endpoint PROVE CountsDown(stream[e])'
  <2>1. CountsDown(stream[e])
    BY DEF IndInv
  <2>2. CASE e = p
    <3>1. stream'[e] = stream[p] \o C
      BY <1>7, <2>2
    <3>2. QED
      BY <1>9, <2>1, <2>2, <3>1
  <2>3. CASE e # p
    BY <1>7, <2>1, <2>3
  <2>4. QED
    BY <2>2, <2>3
<1>16. ASSUME NEW e \in Endpoint
       PROVE  RcvQueueInv(e)' /\ RcvBufInv(e)' /\ AckListInv(e)'
  <2>1. RcvQueueInv(e) /\ RcvBufInv(e) /\ AckListInv(e)
    BY DEF IndInv
  <2>2. /\ Peer[e] \in Endpoint
        /\ read[e] \in Seq(Chunk) /\ rcv_queue[e] \in Seq(Chunk)
        /\ Len(read[e]) \in Nat /\ \A s \in rcv_buf[e] : s.sn \in Nat
    BY <1>2 DEF TypeOK, Segment
  <2>3. /\ Slice(read[e], stream'[Peer[e]], 0)
        /\ Slice(rcv_queue[e], stream'[Peer[e]], Len(read[e]))
    BY <1>11, <2>1, <2>2 DEF RcvQueueInv
  <2>4. RcvQueueInv(e)'
    BY <1>6, <2>1, <2>3 DEF RcvQueueInv, RcvWnd
  <2>5. RcvBufInv(e)'
    BY <1>6, <1>12, <2>1, <2>2 DEF RcvBufInv, RcvWnd
  <2>6. AckListInv(e)'
    BY <1>6, <2>1 DEF AckListInv, Holds
  <2>7. QED
    BY <2>4, <2>5, <2>6
<1>17. ASSUME NEW m \in net' PROVE PacketInv(m)'
  <2>1. m \in net /\ PacketInv(m) /\ Peer[m.to] \in Endpoint
    BY <1>2, <1>6 DEF IndInv, TypeOK, Packet
  <2>2. m.cmd = "PUSH" => m.sn \in Nat
    BY <1>2, <2>1 DEF TypeOK, Packet
  <2>3. QED
    BY <1>6, <1>12, <2>1, <2>2 DEF PacketInv, Holds
<1>18. AckedIsHeld'
  BY <1>6 DEF IndInv, AckedIsHeld, Holds
<1>19. QED
  BY <1>10, <1>13, <1>14, <1>15, <1>16, <1>17, <1>18 DEF IndInv

LEMMA LoseIndInv ==
  ASSUME IndInv, NEW m \in net, Lose(m)
  PROVE  IndInv'
<1>1. /\ net' \subseteq net
      /\ UNCHANGED <<sndVars, rcvVars, history>>
  BY DEF Lose
<1> USE DEF sndVars, rcvVars, history
<1>2. TypeOK'
  BY <1>1 DEF IndInv, TypeOK
<1>3. \A e \in Endpoint : /\ SndQueueInv(e)' /\ SndBufInv(e)' /\ SndUnaInv(e)'
                          /\ CountsDown(stream[e])'
  BY <1>1 DEF IndInv, SndQueueInv, SndBufInv, SndUnaInv
<1>4. \A e \in Endpoint : RcvQueueInv(e)' /\ RcvBufInv(e)' /\ AckListInv(e)'
  BY <1>1 DEF IndInv, RcvQueueInv, RcvBufInv, AckListInv, RcvWnd, Holds
<1>5. \A k \in net' : PacketInv(k)'
  BY <1>1 DEF IndInv, PacketInv, Holds
<1>6. AckedIsHeld'
  BY <1>1 DEF IndInv, AckedIsHeld, Holds
<1>7. QED
  BY <1>2, <1>3, <1>4, <1>5, <1>6 DEF IndInv

(* What is left of a slice when its first k elements are taken off.        *)
LEMMA SliceTail ==
  ASSUME NEW st \in Seq(Chunk), NEW queue \in Seq(Chunk), NEW base \in Nat,
         Slice(queue, st, base), NEW k \in 0..Len(queue)
  PROVE  LET rest == SubSeq(queue, k + 1, Len(queue))
         IN /\ rest \in Seq(Chunk)
            /\ Len(rest) = Len(queue) - k
            /\ Slice(rest, st, base + k)
<1> DEFINE rest == SubSeq(queue, k + 1, Len(queue))
<1>1. /\ Len(queue) \in Nat /\ k \in Nat /\ k <= Len(queue)
      /\ base + Len(queue) <= Len(st) /\ Len(st) \in Nat
  BY DEF Slice
<1>2. \A i \in 1..Len(queue) : queue[i] \in Chunk /\ queue[i] = st[base + i]
  BY ElementOfSeq DEF Slice
<1>3. \A i \in k + 1..Len(queue) : queue[i] \in Chunk
  BY <1>1, <1>2
<1>4. /\ rest \in Seq(Chunk)
      /\ Len(rest) = IF k + 1 <= Len(queue) THEN Len(queue) - (k + 1) + 1 ELSE 0
      /\ \A i \in 1..Len(queue) - (k + 1) + 1 : rest[i] = queue[k + 1 + i - 1]
  BY <1>1, <1>3, SubSeqProperties
<1>5. Len(queue) - (k + 1) + 1 = Len(queue) - k
  BY <1>1
<1> HIDE DEF rest
<1>6. Len(rest) = Len(queue) - k
  <2>1. CASE k + 1 <= Len(queue)
    BY <1>4, <1>5, <2>1
  <2>2. CASE ~ (k + 1 <= Len(queue))
    <3>1. Len(queue) - k = 0
      BY <1>1, <2>2
    <3>2. QED
      BY <1>4, <2>2, <3>1
  <2>3. QED
    BY <2>1, <2>2
<1>7. ASSUME NEW i \in 1..Len(queue) - k
      PROVE  rest[i] = st[(base + k) + i]
  <2>1. rest[i] = queue[k + 1 + i - 1]
    BY <1>4, <1>5
  <2>2. k + 1 + i - 1 = k + i /\ k + i \in 1..Len(queue)
        /\ base + (k + i) = (base + k) + i
    BY <1>1
  <2>3. queue[k + i] = st[base + (k + i)]
    BY <1>2, <2>2
  <2>4. QED
    BY <2>1, <2>2, <2>3
<1>8. (base + k) + (Len(queue) - k) <= Len(st)
  BY <1>1
<1>9. Slice(rest, st, base + k)
  BY <1>6, <1>7, <1>8 DEF Slice
<1>10. QED
  BY <1>4, <1>6, <1>9 DEF rest

(* What a reading program takes off the queue moves the border between     *)
(* read and rcv_queue.                                                     *)
LEMMA SliceSplit ==
  ASSUME NEW st \in Seq(Chunk), NEW rd \in Seq(Chunk), NEW queue \in Seq(Chunk),
         Slice(rd, st, 0), Slice(queue, st, Len(rd)), NEW k \in 1..Len(queue)
  PROVE  LET head == SubSeq(queue, 1, k)
             rest == SubSeq(queue, k + 1, Len(queue))
         IN /\ rd \o head \in Seq(Chunk) /\ rest \in Seq(Chunk)
            /\ Len(rd \o head) = Len(rd) + k
            /\ Len(rest) = Len(queue) - k
            /\ Slice(rd \o head, st, 0)
            /\ Slice(rest, st, Len(rd) + k)
<1> DEFINE head == SubSeq(queue, 1, k)
           rest == SubSeq(queue, k + 1, Len(queue))
<1>1. /\ Len(rd) \in Nat /\ Len(queue) \in Nat /\ k \in Nat /\ 1 <= k
      /\ k <= Len(queue) /\ Len(rd) + Len(queue) <= Len(st) /\ Len(st) \in Nat
  BY DEF Slice
<1>2. \A i \in 1..Len(queue) : queue[i] \in Chunk /\ queue[i] = st[Len(rd) + i]
  BY ElementOfSeq DEF Slice
<1>3. /\ head \in Seq(Chunk) /\ Len(head) = k
      /\ \A i \in 1..k : head[i] = queue[i]
  <2>1. \A i \in 1..k : queue[i] \in Chunk
    BY <1>1, <1>2
  <2>2. /\ head \in Seq(Chunk)
        /\ Len(head) = IF 1 <= k THEN k - 1 + 1 ELSE 0
        /\ \A i \in 1..k - 1 + 1 : head[i] = queue[1 + i - 1]
    BY <1>1, <2>1, SubSeqProperties
  <2>3. k - 1 + 1 = k /\ \A i \in 1..k : 1 + i - 1 = i
    BY <1>1
  <2>4. QED
    BY <1>1, <2>2, <2>3
<1>4. /\ rest \in Seq(Chunk) /\ Len(rest) = Len(queue) - k
      /\ Slice(rest, st, Len(rd) + k)
  <2>1. k \in 0..Len(queue) /\ Len(rd) \in Nat
    BY <1>1
  <2>2. QED
    BY <2>1, SliceTail
<1> HIDE DEF head, rest
<1>5. /\ rd \o head \in Seq(Chunk) /\ Len(rd \o head) = Len(rd) + k
      /\ \A i \in 1..Len(rd) : (rd \o head)[i] = rd[i]
      /\ \A i \in 1..k : (rd \o head)[Len(rd) + i] = head[i]
  BY <1>3, ConcatParts
<1>6. Slice(rd \o head, st, 0)
  <2>1. ASSUME NEW i \in 1..Len(rd) + k PROVE (rd \o head)[i] = st[i]
    <3>1. CASE i \in 1..Len(rd)
      BY <1>5, <3>1 DEF Slice
    <3>2. CASE i \notin 1..Len(rd)
      <4> DEFINE j == i - Len(rd)
      <4>1. j \in 1..k /\ j \in 1..Len(queue) /\ i = Len(rd) + j
        BY <1>1, <3>2
      <4> HIDE DEF j
      <4>2. QED
        BY <1>2, <1>3, <1>5, <4>1
    <3>3. QED
      BY <3>1, <3>2
  <2>2. \A i \in 1..Len(rd) + k : 0 + i = i
    BY <1>1
  <2>3. QED
    BY <1>1, <1>5, <2>1, <2>2 DEF Slice
<1>7. QED
  BY <1>4, <1>5, <1>6 DEF head, rest

(* The receiver's half of ikcp_recv and of ikcp_parse_data: rd, queue and  *)
(* buf are what the move loop starts from.                                 *)
LEMMA ReceiverStep ==
  ASSUME IndInv, NEW q \in Endpoint,
         NEW rd \in Seq(Chunk), NEW queue \in Seq(Chunk), NEW buf \in SUBSET Segment,
         rcv_nxt[q] = Len(rd) + Len(queue),
         Len(queue) <= RcvWnd(q),
         Slice(rd, stream[Peer[q]], 0), Slice(queue, stream[Peer[q]], Len(rd)),
         rcv_buf[q] \subseteq buf,
         \A s \in buf : /\ rcv_nxt[q] <= s.sn
                        /\ s.sn < rcv_nxt[q] + RcvWnd(q)
                        /\ s.sn < snd_nxt[Peer[q]]
                        /\ Carries(stream[Peer[q]], s.sn, s.chunk),
         Refill(q, queue, buf),
         read' = [read EXCEPT ![q] = rd],
         UNCHANGED <<stream, snd_nxt>>
  PROVE  /\ rcv_queue' \in [Endpoint -> Seq(Chunk)]
         /\ rcv_buf' \in [Endpoint -> SUBSET Segment]
         /\ rcv_nxt' \in [Endpoint -> Nat]
         /\ read' \in [Endpoint -> Seq(Chunk)]
         /\ \A e \in Endpoint : RcvQueueInv(e)' /\ RcvBufInv(e)'
         /\ \A e \in Endpoint : rcv_nxt[e] <= rcv_nxt'[e]
         /\ \A e \in Endpoint : \A n \in Nat : Holds(e, n) => Holds(e, n)'
         /\ \A s \in buf : Holds(q, s.sn)'
<1> USE EndpointAssumption
<1>1. /\ TypeOK /\ Peer[q] \in Endpoint /\ rcv_nxt[q] \in Nat
      /\ stream[Peer[q]] \in Seq(Chunk) /\ snd_nxt[Peer[q]] \in Nat
  BY DEF IndInv, TypeOK
<1>2. rcv_nxt[q] <= snd_nxt[Peer[q]] /\ snd_nxt[Peer[q]] <= Len(stream[Peer[q]])
  <2>1. rcv_nxt[q] <= snd_nxt[Peer[q]]
    BY DEF IndInv, RcvQueueInv
  <2>2. snd_nxt[Peer[q]] + Len(snd_queue[Peer[q]]) <= Len(stream[Peer[q]])
    BY <1>1 DEF IndInv, SndQueueInv, Slice
  <2>3. snd_queue[Peer[q]] \in Seq(Chunk)
    BY <1>1 DEF TypeOK
  <2>4. snd_queue \in [Endpoint -> Seq(Chunk)] /\ stream \in [Endpoint -> Seq(Chunk)]
        /\ snd_nxt \in [Endpoint -> Nat]
    BY <1>1 DEF TypeOK
  <2>5. Len(snd_queue[Peer[q]]) \in Nat /\ Len(stream[Peer[q]]) \in Nat
    BY <1>1, <2>3, LenProperties
  <2>6. QED
    BY <1>1, <2>1, <2>2, <2>4, <2>5
<1>3. Len(rd) \in Nat
  OBVIOUS
<1>a. PICK st : st = stream[Peer[q]]
  OBVIOUS
<1>b. PICK top : top = snd_nxt[Peer[q]]
  OBVIOUS
<1>c. PICK nxt : nxt = rcv_nxt[q]
  OBVIOUS
<1>d. PICK base : base = Len(rd)
  OBVIOUS
<1>3a. /\ st \in Seq(Chunk) /\ top \in Nat /\ base \in Nat
       /\ rcv_nxt[q] = base + Len(queue) /\ rcv_nxt[q] <= top /\ top <= Len(st)
       /\ Slice(queue, st, base)
       /\ \A s \in buf : /\ rcv_nxt[q] <= s.sn
                        /\ s.sn < rcv_nxt[q] + RcvWnd(q)
                        /\ s.sn < top
                        /\ Carries(st, s.sn, s.chunk)
  BY <1>1, <1>2, <1>3, <1>a, <1>b, <1>d
<1>3b. PICK nq, nb, nn : /\ Moves(q, nxt, queue, buf, nq, nb, nn)
                         /\ rcv_queue' = [rcv_queue EXCEPT ![q] = nq]
                         /\ rcv_buf' = [rcv_buf EXCEPT ![q] = nb]
                         /\ rcv_nxt' = [rcv_nxt EXCEPT ![q] = nn]
  <2>1. PICK k \in 0..Room(q, queue) :
          /\ Contiguous(buf, nxt, Room(q, queue), k)
          /\ rcv_queue' = [rcv_queue EXCEPT ![q] =
                             queue \o [i \in 1..k |-> ChunkAt(buf, nxt + i - 1)]]
          /\ rcv_buf' = [rcv_buf EXCEPT ![q] =
                           {s \in buf : s.sn \notin nxt..(nxt + k - 1)}]
          /\ rcv_nxt' = [rcv_nxt EXCEPT ![q] = nxt + k]
    BY <1>c DEF Refill
  <2>2. PICK nq : nq = queue \o [i \in 1..k |-> ChunkAt(buf, nxt + i - 1)]
    OBVIOUS
  <2>3. PICK nb : nb = {s \in buf : s.sn \notin nxt..(nxt + k - 1)}
    OBVIOUS
  <2>4. PICK nn : nn = nxt + k
    OBVIOUS
  <2>5. Moves(q, nxt, queue, buf, nq, nb, nn)
    BY <2>1, <2>2, <2>3, <2>4 DEF Moves
  <2>6. QED
    BY <2>1, <2>2, <2>3, <2>4, <2>5
<1>3c. nxt \in Nat
  BY <1>1, <1>c
<1>3d. /\ nxt = base + Len(queue) /\ nxt <= top
       /\ \A s \in buf : /\ nxt <= s.sn
                        /\ s.sn < nxt + RcvWnd(q)
                        /\ s.sn < top
                        /\ Carries(st, s.sn, s.chunk)
  BY <1>3a, <1>c
<1>4. /\ nq \in Seq(Chunk) /\ nb \in SUBSET buf /\ nn \in Nat
      /\ rcv_queue' = [rcv_queue EXCEPT ![q] = nq]
      /\ rcv_buf' = [rcv_buf EXCEPT ![q] = nb]
      /\ rcv_nxt' = [rcv_nxt EXCEPT ![q] = nn]
      /\ nn = base + Len(nq)
      /\ rcv_nxt[q] <= nn /\ nn <= top
      /\ Len(nq) <= RcvWnd(q)
      /\ Slice(nq, st, base)
      /\ \A s \in nb : nn <= s.sn /\ s.sn < nn + RcvWnd(q)
      /\ \A n \in Nat : (n < rcv_nxt[q] \/ \E s \in buf : s.sn = n)
                          => (n < nn \/ \E s \in nb : s.sn = n)
  <2>1. Movable(q, nxt, queue, buf, st, base, top)
    BY <1>3a, <1>3c, <1>3d DEF Movable
  <2>2. Moved(q, nxt, buf, st, base, top, nq, nb, nn)
    BY <1>3b, <2>1, MoveProperties
  <2>3. QED
    BY <1>3b, <1>c, <2>2 DEF Moved
<1>4a. \A n \in Nat : (n < rcv_nxt[q] \/ \E s \in buf : s.sn = n)
                            => (n < nn \/ \E s \in nb : s.sn = n)
  BY <1>4
<1>5. /\ rcv_queue'[q] = nq /\ rcv_buf'[q] = nb /\ rcv_nxt'[q] = nn /\ read'[q] = rd
      /\ \A e \in Endpoint : e # q => /\ rcv_queue'[e] = rcv_queue[e]
                                      /\ rcv_buf'[e] = rcv_buf[e]
                                      /\ rcv_nxt'[e] = rcv_nxt[e]
                                      /\ read'[e] = read[e]
  BY <1>1, <1>4 DEF TypeOK
<1>6. /\ rcv_queue' \in [Endpoint -> Seq(Chunk)]
      /\ rcv_buf' \in [Endpoint -> SUBSET Segment]
      /\ rcv_nxt' \in [Endpoint -> Nat]
      /\ read' \in [Endpoint -> Seq(Chunk)]
  BY <1>1, <1>4 DEF TypeOK
<1>7. ASSUME NEW e \in Endpoint PROVE RcvQueueInv(e)' /\ RcvBufInv(e)'
  <2>1. CASE e = q
    <3>1. RcvQueueInv(q)'
      BY <1>4, <1>5, <1>a, <1>b, <1>d DEF RcvQueueInv, RcvWnd
    <3>2. RcvBufInv(q)'
      BY <1>4, <1>5 DEF RcvBufInv, RcvWnd
    <3>3. QED
      BY <2>1, <3>1, <3>2
  <2>2. CASE e # q
    BY <1>5, <2>2 DEF IndInv, RcvQueueInv, RcvBufInv, RcvWnd
  <2>3. QED
    BY <2>1, <2>2
<1>8. ASSUME NEW e \in Endpoint PROVE rcv_nxt[e] <= rcv_nxt'[e]
  <2>1. rcv_nxt[e] \in Nat
    BY <1>1 DEF TypeOK
  <2>2. CASE e = q
    BY <1>1, <1>4, <1>5, <1>6, <2>2
  <2>3. CASE e # q
    BY <1>5, <1>6, <2>1, <2>3 DEF TypeOK
  <2>4. QED
    BY <2>2, <2>3
<1>9. ASSUME NEW e \in Endpoint, NEW n \in Nat, Holds(e, n)
      PROVE  Holds(e, n)'
  <2>1. CASE e = q
    <3>1. n < rcv_nxt[q] \/ \E s \in buf : s.sn = n
      BY <1>9, <2>1 DEF Holds
    <3>2. n < nn \/ \E s \in nb : s.sn = n
      BY <1>4a, <3>1
    <3>3. QED
      BY <1>5, <2>1, <3>2 DEF Holds
  <2>2. CASE e # q
    BY <1>5, <1>9, <2>2 DEF Holds
  <2>3. QED
    BY <2>1, <2>2
<1>10. ASSUME NEW s \in buf PROVE Holds(q, s.sn)'
  <2>1. s.sn \in Nat
    BY DEF Segment
  <2>2. QED
    <3>1. s.sn < nn \/ \E t \in nb : t.sn = s.sn
      BY <1>4a, <2>1
    <3>2. QED
      BY <1>5, <3>1 DEF Holds
<1>11. QED
  BY <1>6, <1>7, <1>8, <1>9, <1>10

(* Where the receiver's state only grows and the sender's is untouched,    *)
(* what is in transit and what was acknowledged stays right.               *)
LEMMA ReceiverGrows ==
  ASSUME IndInv,
         UNCHANGED <<snd_buf, snd_nxt, stream>>,
         net' \subseteq net,
         \A e \in Endpoint : rcv_nxt[e] <= rcv_nxt'[e],
         \A e \in Endpoint : rcv_nxt'[e] \in Nat,
         \A e \in Endpoint : \A n \in Nat : Holds(e, n) => Holds(e, n)'
  PROVE  /\ \A m \in net' : PacketInv(m)'
         /\ AckedIsHeld'
<1> USE EndpointAssumption
<1>1. TypeOK
  BY DEF IndInv
<1>2. ASSUME NEW m \in net' PROVE PacketInv(m)'
  <2>1. PacketInv(m) /\ m \in Packet
    BY <1>1 DEF IndInv, TypeOK
  <2>2. m.to \in Endpoint /\ m.una \in Nat /\ (m.cmd = "ACK" => m.sn \in Nat)
    BY <2>1 DEF Packet
  <2>3. Peer[m.to] \in Endpoint
    BY <2>2
  <2>4. rcv_nxt[Peer[m.to]] \in Nat /\ rcv_nxt'[Peer[m.to]] \in Nat
    BY <1>1, <2>3 DEF TypeOK
  <2>5. m.una <= rcv_nxt[Peer[m.to]] /\ rcv_nxt[Peer[m.to]] <= rcv_nxt'[Peer[m.to]]
    BY <2>1, <2>3 DEF PacketInv
  <2>6. m.una <= rcv_nxt'[Peer[m.to]]
    BY <2>2, <2>4, <2>5
  <2>7. m.cmd = "ACK" => Holds(Peer[m.to], m.sn)'
    BY <2>1, <2>2, <2>3 DEF PacketInv
  <2>8. QED
    BY <2>1, <2>6, <2>7 DEF PacketInv
<1>3. AckedIsHeld'
  <2> SUFFICES ASSUME NEW p \in Endpoint, NEW n \in 0..snd_nxt[p] - 1
               PROVE  (\E s \in snd_buf[p] : s.sn = n) \/ Holds(Peer[p], n)'
    BY DEF AckedIsHeld
  <2>1. (\E s \in snd_buf[p] : s.sn = n) \/ Holds(Peer[p], n)
    BY DEF IndInv, AckedIsHeld
  <2>2. n \in Nat /\ Peer[p] \in Endpoint
    BY <1>1 DEF TypeOK
  <2>3. QED
    BY <2>1, <2>2
<1>4. QED
  BY <1>2, <1>3

LEMMA RecvIndInv ==
  ASSUME IndInv, NEW q \in Endpoint, NEW len \in BufferLen, Recv(q, len)
  PROVE  IndInv'
<1> USE EndpointAssumption
<1>1. /\ TypeOK
      /\ read[q] \in Seq(Chunk) /\ rcv_queue[q] \in Seq(Chunk)
      /\ rcv_buf[q] \in SUBSET Segment
      /\ stream[Peer[q]] \in Seq(Chunk)
  BY DEF IndInv, TypeOK
<1>2. /\ RcvQueueInv(q) /\ RcvBufInv(q)
  BY DEF IndInv
<1>3. PICK queue : queue = rcv_queue[q]
  OBVIOUS
<1>4. PICK k \in 1..Len(queue) :
        /\ read' = [read EXCEPT ![q] = read[q] \o SubSeq(queue, 1, k)]
        /\ Refill(q, SubSeq(queue, k + 1, Len(queue)), rcv_buf[q])
  BY <1>3 DEF Recv
<1>5. /\ UNCHANGED <<sndVars, acklist, net, stream>>
      /\ tell' = [tell EXCEPT ![q] =
                    @ \/ (Len(queue) >= RcvWnd(q)
                          /\ Len(rcv_queue'[q]) < RcvWnd(q))]
  BY <1>3 DEF Recv
<1>6. UNCHANGED <<snd_queue, snd_buf, snd_una, snd_nxt, rmt_wnd, probing,
                  acklist, net, stream>>
  BY <1>5 DEF sndVars
<1>7. PICK old : old = read[q]
  OBVIOUS
<1>8. PICK rd : rd = old \o SubSeq(queue, 1, k)
  OBVIOUS
<1>9. PICK rest : rest = SubSeq(queue, k + 1, Len(queue))
  OBVIOUS
<1>10. PICK st : st = stream[Peer[q]]
  OBVIOUS
<1>11. /\ st \in Seq(Chunk) /\ old \in Seq(Chunk) /\ queue \in Seq(Chunk)
       /\ Slice(old, st, 0) /\ Slice(queue, st, Len(old))
  BY <1>1, <1>2, <1>3, <1>7, <1>10 DEF RcvQueueInv
<1>12. /\ rd \in Seq(Chunk) /\ rest \in Seq(Chunk)
       /\ Len(rd) = Len(old) + k
       /\ Len(rest) = Len(queue) - k
       /\ Slice(rd, st, 0)
       /\ Slice(rest, st, Len(old) + k)
  BY <1>8, <1>9, <1>11, SliceSplit
<1>13. PICK buf : buf = rcv_buf[q]
  OBVIOUS
<1>14. /\ buf \in SUBSET Segment /\ rcv_buf[q] \subseteq buf
       /\ Refill(q, rest, buf)
       /\ read' = [read EXCEPT ![q] = rd]
  BY <1>1, <1>4, <1>7, <1>8, <1>9, <1>13
<1>15. /\ rcv_nxt[q] = Len(rd) + Len(rest)
       /\ Len(rest) <= RcvWnd(q)
       /\ Slice(rd, stream[Peer[q]], 0)
       /\ Slice(rest, stream[Peer[q]], Len(rd))
  <2>1. /\ rcv_nxt[q] = Len(old) + Len(queue) /\ Len(queue) <= RcvWnd(q)
    BY <1>2, <1>3, <1>7 DEF RcvQueueInv
  <2>2. /\ Len(old) \in Nat /\ Len(queue) \in Nat /\ k \in Nat /\ k <= Len(queue)
        /\ RcvWnd(q) \in Nat
    BY <1>4, <1>11, RcvWndType
  <2>3. /\ rcv_nxt[q] = Len(rd) + Len(rest)
        /\ Len(rest) <= RcvWnd(q)
    BY <1>12, <2>1, <2>2
  <2>4. QED
    BY <1>10, <1>12, <2>3
<1>16. \A s \in buf : /\ rcv_nxt[q] <= s.sn
                      /\ s.sn < rcv_nxt[q] + RcvWnd(q)
                      /\ s.sn < snd_nxt[Peer[q]]
                      /\ Carries(stream[Peer[q]], s.sn, s.chunk)
  BY <1>2, <1>13 DEF RcvBufInv
<1>17. /\ rcv_queue' \in [Endpoint -> Seq(Chunk)]
       /\ rcv_buf' \in [Endpoint -> SUBSET Segment]
       /\ rcv_nxt' \in [Endpoint -> Nat]
       /\ read' \in [Endpoint -> Seq(Chunk)]
       /\ \A e \in Endpoint : RcvQueueInv(e)' /\ RcvBufInv(e)'
       /\ \A e \in Endpoint : rcv_nxt[e] <= rcv_nxt'[e]
       /\ \A e \in Endpoint : \A n \in Nat : Holds(e, n) => Holds(e, n)'
  BY <1>6, <1>12, <1>14, <1>15, <1>16, ReceiverStep
<1>18. TypeOK'
  <2>1. tell' \in [Endpoint -> BOOLEAN]
    BY <1>1, <1>5 DEF TypeOK
  <2>2. QED
    BY <1>1, <1>6, <1>17, <2>1 DEF TypeOK
<1>19. \A e \in Endpoint : /\ SndQueueInv(e)' /\ SndBufInv(e)' /\ SndUnaInv(e)'
                           /\ CountsDown(stream[e])'
  BY <1>6 DEF IndInv, SndQueueInv, SndBufInv, SndUnaInv
<1>20. \A e \in Endpoint : AckListInv(e)'
  <2> SUFFICES ASSUME NEW e \in Endpoint, NEW n \in acklist[e]
               PROVE  Holds(e, n)'
    BY <1>6 DEF AckListInv
  <2>1. Holds(e, n) /\ n \in Nat
    BY <1>1 DEF IndInv, AckListInv, TypeOK
  <2>2. QED
    BY <1>17, <2>1
<1>21. /\ \A m \in net' : PacketInv(m)'
       /\ AckedIsHeld'
  BY <1>6, <1>17, ReceiverGrows
<1>22. QED
  BY <1>17, <1>18, <1>19, <1>20, <1>21 DEF IndInv

(* The segments a flush numbers are the next k of the stream.              *)
LEMMA NumberedProperties ==
  ASSUME NEW p \in Endpoint, NEW nxt \in Nat, nxt = snd_nxt[p],
         NEW queue \in Seq(Chunk), queue = snd_queue[p],
         NEW st \in Seq(Chunk), Slice(queue, st, nxt), NEW k \in 0..Len(queue)
  PROVE  /\ \A s \in Numbered(p, k) : /\ s \in Segment
                                      /\ nxt <= s.sn /\ s.sn < nxt + k
                                      /\ Carries(st, s.sn, s.chunk)
         /\ \A n \in nxt..nxt + k - 1 : \E s \in Numbered(p, k) : s.sn = n
<1>1. /\ Len(queue) \in Nat /\ k \in Nat /\ k <= Len(queue)
      /\ nxt + Len(queue) <= Len(st) /\ Len(st) \in Nat
  BY DEF Slice
<1>2. \A i \in 1..Len(queue) : queue[i] \in Chunk /\ queue[i] = st[nxt + i]
  BY ElementOfSeq DEF Slice
<1>3. Numbered(p, k) = {[sn |-> nxt + i - 1, chunk |-> queue[i]] : i \in 1..k}
  BY DEF Numbered
<1>4. ASSUME NEW s \in Numbered(p, k)
      PROVE  /\ s \in Segment
             /\ nxt <= s.sn /\ s.sn < nxt + k
             /\ Carries(st, s.sn, s.chunk)
  <2>1. PICK i \in 1..k : s = [sn |-> nxt + i - 1, chunk |-> queue[i]]
    BY <1>3
  <2>2. i \in 1..Len(queue) /\ nxt + i - 1 \in Nat
        /\ nxt <= nxt + i - 1 /\ nxt + i - 1 < nxt + k
        /\ nxt + i - 1 + 1 = nxt + i /\ nxt + i - 1 < Len(st)
    BY <1>1
  <2>3. queue[i] \in Chunk /\ queue[i] = st[nxt + i]
    BY <1>2, <2>2
  <2>4. QED
    BY <2>1, <2>2, <2>3 DEF Segment, Carries
<1>5. ASSUME NEW n \in nxt..nxt + k - 1
      PROVE  \E s \in Numbered(p, k) : s.sn = n
  <2>1. n - nxt + 1 \in 1..k /\ nxt + (n - nxt + 1) - 1 = n
    BY <1>1
  <2>2. [sn |-> nxt + (n - nxt + 1) - 1, chunk |-> queue[n - nxt + 1]]
          \in Numbered(p, k)
    BY <1>3, <2>1
  <2>3. QED
    BY <2>1, <2>2
<1>6. QED
  BY <1>4, <1>5

(* A flush never lets more than the send window into snd_buf.              *)
LEMMA AdmittedProperties ==
  ASSUME NEW p \in Endpoint, NEW una \in Nat, NEW nxt \in Nat, NEW queue \in Seq(Chunk),
         NEW rmt \in Nat,
         una = snd_una[p], nxt = snd_nxt[p], queue = snd_queue[p], rmt = rmt_wnd[p],
         nxt <= una + SndWnd[p],
         NEW wnd \in SendWindows(p)
  PROVE  /\ Admitted(p, wnd) \in 0..Len(queue)
         /\ nxt + Admitted(p, wnd) <= una + SndWnd[p]
<1>1. SndWnd[p] \in Nat /\ Len(queue) \in Nat
  BY WindowAssumption
<1>2. wnd \in Nat /\ wnd <= SndWnd[p]
  <2>1. PICK max : max = Lesser(SndWnd[p], rmt_wnd[p])
    OBVIOUS
  <2>2. max \in Nat /\ max <= SndWnd[p]
    BY <1>1, <2>1 DEF Lesser
  <2>3. wnd = max \/ wnd \in 0..max
    BY <2>1 DEF SendWindows
  <2>4. QED
    BY <1>1, <2>2, <2>3
<1>3. PICK free : free = una + wnd - nxt
  OBVIOUS
<1>4. Admitted(p, wnd) = IF free < 0 THEN 0 ELSE Lesser(free, Len(queue))
  BY <1>3 DEF Admitted
<1>5. free \in Int
  BY <1>2, <1>3
<1>6. CASE free < 0
  BY <1>1, <1>4, <1>6
<1>7. CASE ~ (free < 0)
  <2>1. Lesser(free, Len(queue)) \in 0..Len(queue) /\ Lesser(free, Len(queue)) <= free
    BY <1>1, <1>5, <1>7 DEF Lesser
  <2>2. PICK k : k = Lesser(free, Len(queue))
    OBVIOUS
  <2>3. k \in 0..Len(queue) /\ k <= free /\ Admitted(p, wnd) = k
    BY <1>4, <1>7, <2>1, <2>2
  <2>4. nxt + k <= una + wnd
    BY <1>1, <1>2, <1>3, <2>3
  <2>5. nxt + k <= una + SndWnd[p]
    BY <1>1, <1>2, <2>3, <2>4
  <2>6. QED
    BY <2>3, <2>5
<1>8. QED
  BY <1>6, <1>7

LEMMA FlushIndInv ==
  ASSUME IndInv, NEW p \in Endpoint, Flush(p)
  PROVE  IndInv'
<1> USE EndpointAssumption
<1>1. /\ TypeOK /\ SndQueueInv(p) /\ SndBufInv(p) /\ SndUnaInv(p)
      /\ \A e \in Endpoint : AckListInv(e)
      /\ \A m \in net : PacketInv(m)
  BY DEF IndInv
<1>2. PICK wnd \in SendWindows(p) :
        \E kept \in SUBSET Output(p, Numbered(p, Admitted(p, wnd))) :
          FlushWith(p, wnd, kept)
  BY DEF Flush
<1>3. PICK k : k = Admitted(p, wnd)
  OBVIOUS
<1>4. PICK new : new = Numbered(p, k)
  OBVIOUS
<1>5. PICK kept \in SUBSET Output(p, new) : FlushWith(p, wnd, kept)
  BY <1>2, <1>3, <1>4
<1>6. /\ net' = net \cup kept
      /\ snd_queue' = [snd_queue EXCEPT ![p] = SubSeq(snd_queue[p], k + 1, Len(snd_queue[p]))]
      /\ snd_buf' = [snd_buf EXCEPT ![p] = snd_buf[p] \cup new]
      /\ snd_nxt' = [snd_nxt EXCEPT ![p] = snd_nxt[p] + k]
      /\ probing' = [probing EXCEPT ![p] = rmt_wnd[p] = 0]
      /\ acklist' = [acklist EXCEPT ![p] = {}]
      /\ tell' = [tell EXCEPT ![p] = FALSE]
      /\ UNCHANGED <<snd_una, rmt_wnd, rcv_queue, rcv_buf, rcv_nxt, history>>
  BY <1>3, <1>4, <1>5 DEF FlushWith
<1>7. UNCHANGED <<stream, read>>
  BY <1>6 DEF history
<1>8. PICK queue, nxt, una, rmt, st :
        /\ queue = snd_queue[p] /\ nxt = snd_nxt[p] /\ una = snd_una[p]
        /\ rmt = rmt_wnd[p] /\ st = stream[p]
  OBVIOUS
<1>9. /\ queue \in Seq(Chunk) /\ st \in Seq(Chunk)
      /\ nxt \in Nat /\ una \in Nat /\ rmt \in Nat
  BY <1>1, <1>8 DEF TypeOK
<1>10. /\ Len(st) = nxt + Len(queue)
       /\ Slice(queue, st, nxt)
       /\ una <= nxt /\ nxt <= una + SndWnd[p]
  BY <1>1, <1>8 DEF SndQueueInv, SndUnaInv
<1>11. k \in 0..Len(queue) /\ nxt + k <= una + SndWnd[p]
  BY <1>3, <1>8, <1>9, <1>10, AdmittedProperties
<1>12. /\ \A s \in new : /\ s \in Segment
                         /\ nxt <= s.sn /\ s.sn < nxt + k
                         /\ Carries(st, s.sn, s.chunk)
       /\ \A n \in nxt..nxt + k - 1 : \E s \in new : s.sn = n
  BY <1>4, <1>8, <1>9, <1>10, <1>11, NumberedProperties
<1>13. PICK rest : rest = SubSeq(queue, k + 1, Len(queue))
  OBVIOUS
<1>14. /\ rest \in Seq(Chunk) /\ Len(rest) = Len(queue) - k
       /\ Slice(rest, st, nxt + k)
  BY <1>9, <1>10, <1>11, <1>13, SliceTail
<1>15. /\ snd_queue' = [snd_queue EXCEPT ![p] = rest]
       /\ snd_nxt' = [snd_nxt EXCEPT ![p] = nxt + k]
  BY <1>6, <1>8, <1>13
<1>16. Len(queue) \in Nat /\ k \in Nat /\ Len(st) \in Nat /\ nxt + k \in Nat
       /\ k <= Len(queue)
  BY <1>9, <1>11
<1>17. /\ snd_queue'[p] = rest /\ snd_nxt'[p] = nxt + k
       /\ snd_buf'[p] = snd_buf[p] \cup new /\ snd_una'[p] = una /\ stream'[p] = st
  BY <1>1, <1>6, <1>7, <1>8, <1>15 DEF TypeOK
<1>18. \A e \in Endpoint : e # p => /\ snd_queue'[e] = snd_queue[e]
                                    /\ snd_nxt'[e] = snd_nxt[e]
                                    /\ snd_buf'[e] = snd_buf[e]
  BY <1>1, <1>6, <1>15 DEF TypeOK
<1>19. SndQueueInv(p)'
  <2>1. Len(st) = (nxt + k) + Len(rest)
    BY <1>9, <1>10, <1>14, <1>16
  <2>2. QED
    BY <1>14, <1>17, <2>1 DEF SndQueueInv
<1>20. SndBufInv(p)'
  <2> SUFFICES ASSUME NEW s \in snd_buf'[p]
               PROVE  una <= s.sn /\ s.sn < nxt + k /\ Carries(st, s.sn, s.chunk)
    BY <1>17 DEF SndBufInv
  <2>1. CASE s \in snd_buf[p]
    <3>1. una <= s.sn /\ s.sn < nxt /\ Carries(st, s.sn, s.chunk)
      BY <1>1, <1>8, <2>1 DEF SndBufInv
    <3>2. s.sn \in Nat
      BY <1>1, <2>1 DEF TypeOK, Segment
    <3>3. QED
      BY <1>9, <1>16, <3>1, <3>2
  <2>2. CASE s \in new
    <3>1. s \in Segment /\ nxt <= s.sn /\ s.sn < nxt + k /\ Carries(st, s.sn, s.chunk)
      BY <1>12, <2>2
    <3>2. s.sn \in Nat
      BY <3>1 DEF Segment
    <3>3. QED
      BY <1>9, <1>10, <3>1, <3>2
  <2>3. QED
    BY <1>17, <2>1, <2>2
<1>21. SndUnaInv(p)'
  <2>1. una <= nxt + k
    BY <1>9, <1>10, <1>16
  <2>2. ASSUME una < nxt + k
        PROVE  \E s \in snd_buf'[p] : s.sn = una
    <3>1. CASE una < nxt
      <4>1. \E s \in snd_buf[p] : s.sn = una
        BY <1>1, <1>8, <3>1 DEF SndUnaInv
      <4>2. QED
        BY <1>17, <4>1
    <3>2. CASE una = nxt
      <4>1. una \in nxt..nxt + k - 1
        BY <1>9, <1>16, <2>2, <3>2
      <4>2. QED
        BY <1>12, <1>17, <4>1
    <3>3. QED
      BY <1>9, <1>10, <3>1, <3>2
  <2>3. QED
    BY <1>11, <1>17, <2>1, <2>2 DEF SndUnaInv
<1>22. ASSUME NEW e \in Endpoint
       PROVE  /\ SndQueueInv(e)' /\ SndBufInv(e)' /\ SndUnaInv(e)'
              /\ CountsDown(stream[e])'
  <2>1. CountsDown(stream[e])'
    BY <1>7 DEF IndInv
  <2>2. CASE e = p
    BY <1>19, <1>20, <1>21, <2>1, <2>2
  <2>3. CASE e # p
    BY <1>6, <1>7, <1>18, <2>1, <2>3 DEF IndInv, SndQueueInv, SndBufInv, SndUnaInv
  <2>4. QED
    BY <2>2, <2>3
<1>23. \A e \in Endpoint : snd_nxt[e] <= snd_nxt'[e] /\ snd_nxt[e] \in Nat
                           /\ snd_nxt'[e] \in Nat
  <2> SUFFICES ASSUME NEW e \in Endpoint
               PROVE  snd_nxt[e] <= snd_nxt'[e] /\ snd_nxt[e] \in Nat /\ snd_nxt'[e] \in Nat
    OBVIOUS
  <2>1. snd_nxt[e] \in Nat
    BY <1>1 DEF TypeOK
  <2>2. CASE e = p
    BY <1>8, <1>9, <1>16, <1>17, <2>2
  <2>3. CASE e # p
    BY <1>18, <2>1, <2>3
  <2>4. QED
    BY <2>2, <2>3
<1>24. ASSUME NEW e \in Endpoint PROVE RcvQueueInv(e)' /\ RcvBufInv(e)' /\ AckListInv(e)'
  <2>0. Peer[e] \in Endpoint
    OBVIOUS
  <2>1. RcvQueueInv(e) /\ RcvBufInv(e) /\ AckListInv(e)
    BY DEF IndInv
  <2>2. rcv_nxt[e] \in Nat /\ rcv_nxt[e] <= snd_nxt'[Peer[e]]
    <3>1. rcv_nxt[e] \in Nat /\ rcv_nxt[e] <= snd_nxt[Peer[e]]
      BY <1>1, <2>1 DEF TypeOK, RcvQueueInv
    <3>2. snd_nxt[Peer[e]] <= snd_nxt'[Peer[e]] /\ snd_nxt[Peer[e]] \in Nat
          /\ snd_nxt'[Peer[e]] \in Nat
      BY <1>23, <2>0
    <3>3. QED
      BY <3>1, <3>2
  <2>3. RcvQueueInv(e)'
    BY <1>6, <1>7, <2>1, <2>2 DEF RcvQueueInv, RcvWnd
  <2>4. ASSUME NEW s \in rcv_buf[e] PROVE s.sn < snd_nxt'[Peer[e]]
    <3>1. s.sn \in Nat /\ s.sn < snd_nxt[Peer[e]]
      BY <1>1, <2>1 DEF TypeOK, RcvBufInv, Segment
    <3>2. snd_nxt[Peer[e]] <= snd_nxt'[Peer[e]] /\ snd_nxt[Peer[e]] \in Nat
          /\ snd_nxt'[Peer[e]] \in Nat
      BY <1>23, <2>0
    <3>3. QED
      BY <3>1, <3>2
  <2>5. RcvBufInv(e)'
    BY <1>6, <1>7, <2>1, <2>4 DEF RcvBufInv, RcvWnd
  <2>6. AckListInv(e)'
    <3>1. acklist'[e] \subseteq acklist[e]
      BY <1>1, <1>6 DEF TypeOK
    <3>2. QED
      BY <1>6, <2>1, <3>1 DEF AckListInv, Holds
  <2>7. QED
    BY <2>3, <2>5, <2>6
<1>25. ASSUME NEW m \in kept
       PROVE  m \in Packet /\ PacketInv(m)'
  <2>1. /\ Peer[p] \in Endpoint /\ Peer[Peer[p]] = p
        /\ rcv_nxt[p] \in Nat /\ WndUnused(p) \in Nat /\ rcv_nxt'[p] = rcv_nxt[p]
    <3>1. rcv_nxt[p] \in Nat /\ rcv_queue[p] \in Seq(Chunk) /\ RcvWnd(p) \in Nat
      BY <1>1, RcvWndType DEF TypeOK
    <3>2. Len(rcv_queue[p]) \in Nat
      BY <3>1
    <3>3. QED
      BY <1>6, <3>1, <3>2 DEF WndUnused
  <2>2. m \in Output(p, new)
    BY <1>5
  <2>3. CASE \E n \in acklist[p] : m = AckPacket(p, n)
    <3>1. PICK n \in acklist[p] : m = AckPacket(p, n)
      BY <2>3
    <3>2. n \in Nat /\ Holds(p, n)
      BY <1>1 DEF TypeOK, AckListInv
    <3>3. Holds(p, n)'
      BY <1>6, <3>2 DEF Holds
    <3>4. m = [cmd |-> "ACK", to |-> Peer[p], wnd |-> WndUnused(p), una |-> rcv_nxt[p],
               sn |-> n]
      BY <3>1 DEF AckPacket
    <3>5. m \in Packet
      BY <2>1, <3>2, <3>4 DEF Packet
    <3>6. m.to = Peer[p] /\ m.una = rcv_nxt[p] /\ m.cmd = "ACK" /\ m.sn = n
      BY <3>4
    <3>7. PacketInv(m)'
      BY <2>1, <3>3, <3>6 DEF PacketInv
    <3>8. QED
      BY <3>5, <3>7
  <2>4. CASE m = Packet0(p, "WASK") \/ m = Packet0(p, "WINS")
    <3>1. m.to = Peer[p] /\ m.una = rcv_nxt[p] /\ m.cmd # "ACK" /\ m.cmd # "PUSH"
      BY <2>4 DEF Packet0
    <3>2. m \in Packet
      BY <2>1, <2>4 DEF Packet, Packet0
    <3>3. QED
      BY <2>1, <3>1, <3>2 DEF PacketInv
  <2>5. CASE \E s \in snd_buf[p] \cup new : m = PushPacket(p, s)
    <3>1. PICK s \in snd_buf[p] \cup new : m = PushPacket(p, s)
      BY <2>5
    <3>2. s \in Segment
      BY <1>1, <1>12 DEF TypeOK
    <3>3. s.sn < nxt + k /\ Carries(st, s.sn, s.chunk)
      BY <1>17, <1>20, <3>1 DEF SndBufInv
    <3>4. m = [cmd |-> "PUSH", to |-> Peer[p], wnd |-> WndUnused(p), una |-> rcv_nxt[p],
               sn |-> s.sn, chunk |-> s.chunk]
      BY <3>1 DEF PushPacket
    <3>5. m \in Packet
      BY <2>1, <3>2, <3>4 DEF Packet, Segment
    <3>6. m.to = Peer[p] /\ m.una = rcv_nxt[p] /\ m.cmd = "PUSH" /\ m.sn = s.sn
          /\ m.chunk = s.chunk
      BY <3>4
    <3>7. PacketInv(m)'
      BY <1>17, <2>1, <3>3, <3>6 DEF PacketInv
    <3>8. QED
      BY <3>5, <3>7
  <2>6. QED
    BY <2>2, <2>3, <2>4, <2>5 DEF Output
<1>26. ASSUME NEW m \in net' PROVE PacketInv(m)'
  <2>1. CASE m \in kept
    BY <1>25, <2>1
  <2>2. CASE m \in net
    <3>1. PacketInv(m) /\ m \in Packet
      BY <1>1, <2>2 DEF TypeOK
    <3>2. Peer[m.to] \in Endpoint /\ (m.cmd = "PUSH" => m.sn \in Nat)
      BY <3>1 DEF Packet
    <3>3. m.cmd = "PUSH" => m.sn < snd_nxt'[Peer[m.to]]
      <4>1. snd_nxt[Peer[m.to]] <= snd_nxt'[Peer[m.to]] /\ snd_nxt[Peer[m.to]] \in Nat
            /\ snd_nxt'[Peer[m.to]] \in Nat
        BY <1>23, <3>2
      <4>2. m.cmd = "PUSH" => m.sn < snd_nxt[Peer[m.to]]
        BY <3>1 DEF PacketInv
      <4>3. QED
        BY <3>2, <4>1, <4>2
    <3>4. QED
      BY <1>6, <1>7, <3>1, <3>3 DEF PacketInv, Holds
  <2>3. QED
    BY <1>6, <2>1, <2>2
<1>27. AckedIsHeld'
  <2> SUFFICES ASSUME NEW e \in Endpoint, NEW n \in 0..snd_nxt'[e] - 1
               PROVE  (\E s \in snd_buf'[e] : s.sn = n) \/ Holds(Peer[e], n)'
    BY DEF AckedIsHeld
  <2>1. ASSUME n \in 0..snd_nxt[e] - 1
        PROVE  (\E s \in snd_buf'[e] : s.sn = n) \/ Holds(Peer[e], n)'
    <3>1. (\E s \in snd_buf[e] : s.sn = n) \/ Holds(Peer[e], n)
      BY <2>1 DEF IndInv, AckedIsHeld
    <3>2. snd_buf[e] \subseteq snd_buf'[e]
      BY <1>17, <1>18
    <3>3. Holds(Peer[e], n) => Holds(Peer[e], n)'
      BY <1>6 DEF Holds
    <3>4. QED
      BY <3>1, <3>2, <3>3
  <2>2. CASE e # p
    BY <1>18, <2>1, <2>2
  <2>3. CASE e = p
    <3>1. n \in 0..nxt - 1 \/ n \in nxt..nxt + k - 1
      BY <1>9, <1>16, <1>17, <2>3
    <3>2. CASE n \in 0..nxt - 1
      BY <1>8, <2>1, <2>3, <3>2
    <3>3. CASE n \in nxt..nxt + k - 1
      BY <1>12, <1>17, <2>3, <3>3
    <3>4. QED
      BY <3>1, <3>2, <3>3
  <2>4. QED
    BY <2>2, <2>3
<1>28. TypeOK'
  <2>1. snd_queue' \in [Endpoint -> Seq(Chunk)] /\ snd_nxt' \in [Endpoint -> Nat]
    BY <1>1, <1>14, <1>15, <1>16 DEF TypeOK
  <2>2. snd_buf' \in [Endpoint -> SUBSET Segment]
    <3>1. new \subseteq Segment /\ snd_buf[p] \subseteq Segment
      BY <1>1, <1>12 DEF TypeOK
    <3>2. snd_buf[p] \cup new \in SUBSET Segment
      BY <3>1
    <3>3. QED
      BY <1>1, <1>6, <3>2 DEF TypeOK
  <2>3. net' \in SUBSET Packet
    BY <1>1, <1>6, <1>25 DEF TypeOK
  <2>4. probing' \in [Endpoint -> BOOLEAN] /\ tell' \in [Endpoint -> BOOLEAN]
        /\ acklist' \in [Endpoint -> SUBSET Nat]
    BY <1>1, <1>6 DEF TypeOK
  <2>5. QED
    BY <1>1, <1>6, <1>7, <2>1, <2>2, <2>3, <2>4 DEF TypeOK
<1>29. QED
  BY <1>22, <1>24, <1>26, <1>27, <1>28 DEF IndInv

(* What ikcp_parse_una, ikcp_parse_ack and ikcp_shrink_buf leave of the    *)
(* sender: snd_una is again the first number in flight, and every number   *)
(* that left snd_buf is one the receiver holds.                            *)
LEMMA AcknowledgeStep ==
  ASSUME IndInv, NEW m \in net, NEW q \in Endpoint, q = m.to, Acknowledge(q, m)
  PROVE  /\ snd_buf' \in [Endpoint -> SUBSET Segment]
         /\ snd_una' \in [Endpoint -> Nat]
         /\ rmt_wnd' \in [Endpoint -> Nat]
         /\ UNCHANGED <<snd_queue, snd_nxt, probing, stream, read>>
         /\ \A e \in Endpoint : SndQueueInv(e)' /\ SndBufInv(e)' /\ SndUnaInv(e)'
         /\ AckedIsHeld
         /\ \A e \in Endpoint : \A n \in 0..snd_nxt[e] - 1 :
              (\E s \in snd_buf'[e] : s.sn = n) \/ Holds(Peer[e], n)
<1> USE EndpointAssumption
<1>1. /\ TypeOK /\ m \in Packet /\ PacketInv(m) /\ AckedIsHeld
      /\ SndBufInv(q) /\ SndUnaInv(q)
  BY DEF IndInv, TypeOK
<1>2. PICK una0, nxt, una, low, buf, old :
        /\ old = snd_buf[q] /\ nxt = snd_nxt[q] /\ una0 = snd_una[q]
        /\ low = AfterUna(old, m.una)
        /\ una = FirstUnacked(low, nxt)
        /\ buf = IF m.cmd = "ACK" THEN AfterAck(low, una, nxt, m.sn) ELSE low
  OBVIOUS
<1>3. PICK new : new = FirstUnacked(buf, nxt)
  OBVIOUS
<1>4. /\ snd_buf' = [snd_buf EXCEPT ![q] = buf]
      /\ snd_una' = [snd_una EXCEPT ![q] = new]
      /\ rmt_wnd' = [rmt_wnd EXCEPT ![q] = m.wnd]
      /\ UNCHANGED <<snd_queue, snd_nxt, probing, history>>
  BY <1>2, <1>3 DEF Acknowledge
<1>5. UNCHANGED <<snd_queue, snd_nxt, probing, stream, read>>
  BY <1>4 DEF history
<1>6. /\ old \in SUBSET Segment /\ nxt \in Nat /\ una0 \in Nat
      /\ m.una \in Nat /\ m.wnd \in Nat /\ (m.cmd = "ACK" => m.sn \in Nat)
  BY <1>1, <1>2 DEF TypeOK, Packet
<1>7. /\ low \subseteq old /\ buf \subseteq low
      /\ \A s \in old : s \notin low => s.sn < m.una
      /\ \A s \in low : s \notin buf => m.cmd = "ACK" /\ s.sn = m.sn
  <2>1. \A s \in old : s.sn \in Nat
    BY <1>6 DEF Segment
  <2>2. low \subseteq old /\ \A s \in old : s \notin low => s.sn < m.una
    BY <1>2, <1>6, <2>1 DEF AfterUna
  <2>3. buf \subseteq low /\ \A s \in low : s \notin buf => m.cmd = "ACK" /\ s.sn = m.sn
    BY <1>2 DEF AfterAck
  <2>4. QED
    BY <2>2, <2>3
<1>8. \A s \in old : una0 <= s.sn /\ s.sn < nxt /\ Carries(stream[q], s.sn, s.chunk)
  BY <1>1, <1>2 DEF SndBufInv
<1>9. una0 <= nxt /\ nxt <= una0 + SndWnd[q] /\ SndWnd[q] \in Nat
  BY <1>1, <1>2, WindowAssumption DEF SndUnaInv
<1>10. /\ new \in Nat /\ new <= nxt
       /\ \A s \in buf : new <= s.sn
       /\ new < nxt => \E s \in buf : s.sn = new
       /\ una0 <= new
  <2>1. buf \in SUBSET Segment
    BY <1>6, <1>7
  <2>2. \A s \in buf : una0 <= s.sn /\ s.sn < nxt
    BY <1>7, <1>8
  <2>3. QED
    BY <1>3, <1>6, <1>9, <2>1, <2>2, FirstUnackedProperties
<1>11. /\ snd_buf'[q] = buf /\ snd_una'[q] = new
       /\ \A e \in Endpoint : e # q => snd_buf'[e] = snd_buf[e] /\ snd_una'[e] = snd_una[e]
  BY <1>1, <1>4 DEF TypeOK
<1>12. /\ snd_buf' \in [Endpoint -> SUBSET Segment]
       /\ snd_una' \in [Endpoint -> Nat]
       /\ rmt_wnd' \in [Endpoint -> Nat]
  BY <1>1, <1>4, <1>6, <1>7, <1>10 DEF TypeOK
<1>13. SndBufInv(q)'
  <2>1. \A s \in buf : new <= s.sn /\ s.sn < nxt /\ Carries(stream[q], s.sn, s.chunk)
    BY <1>7, <1>8, <1>10
  <2>2. QED
    BY <1>2, <1>5, <1>11, <2>1 DEF SndBufInv
<1>14. SndUnaInv(q)'
  <2>1. nxt <= new + SndWnd[q]
    BY <1>6, <1>9, <1>10
  <2>2. QED
    BY <1>2, <1>5, <1>10, <1>11, <2>1 DEF SndUnaInv
<1>15. ASSUME NEW e \in Endpoint
       PROVE  SndQueueInv(e)' /\ SndBufInv(e)' /\ SndUnaInv(e)'
  <2>1. SndQueueInv(e)'
    BY <1>5 DEF IndInv, SndQueueInv
  <2>2. CASE e = q
    BY <1>13, <1>14, <2>1, <2>2
  <2>3. CASE e # q
    BY <1>5, <1>11, <2>1, <2>3 DEF IndInv, SndBufInv, SndUnaInv
  <2>4. QED
    BY <2>2, <2>3
<1>16. ASSUME NEW e \in Endpoint, NEW n \in 0..snd_nxt[e] - 1
       PROVE  (\E s \in snd_buf'[e] : s.sn = n) \/ Holds(Peer[e], n)
  <2>1. (\E s \in snd_buf[e] : s.sn = n) \/ Holds(Peer[e], n)
    BY <1>1 DEF AckedIsHeld
  <2>2. CASE e # q
    BY <1>11, <2>1, <2>2
  <2>3. CASE e = q
    <3>1. SUFFICES ASSUME NEW s \in old, s.sn = n
                   PROVE  (\E t \in buf : t.sn = n) \/ Holds(Peer[q], n)
      BY <1>2, <1>11, <2>1, <2>3
    <3>2. CASE s \in buf
      BY <3>1, <3>2
    <3>3. CASE s \in low /\ s \notin buf
      <4>1. m.cmd = "ACK" /\ m.sn = n
        BY <1>7, <3>1, <3>3
      <4>2. QED
        BY <1>1, <4>1 DEF PacketInv
    <3>4. CASE s \notin low
      <4>1. s.sn < m.una
        BY <1>7, <3>4
      <4>2. m.una <= rcv_nxt[Peer[q]] /\ rcv_nxt[Peer[q]] \in Nat
        BY <1>1 DEF PacketInv, TypeOK
      <4>3. s.sn \in Nat
        BY <1>6 DEF Segment
      <4>4. n < rcv_nxt[Peer[q]]
        BY <1>6, <3>1, <4>1, <4>2, <4>3
      <4>5. QED
        BY <4>4 DEF Holds
    <3>5. QED
      BY <1>7, <3>2, <3>3, <3>4
  <2>4. QED
    BY <2>2, <2>3
<1>17. QED
  BY <1>1, <1>5, <1>12, <1>15, <1>16

(* The three commands that carry no data leave the receiver alone.         *)
LEMMA NoDataIndInv ==
  ASSUME IndInv, NEW m \in net, NEW q \in Endpoint, q = m.to, Acknowledge(q, m),
         net' \subseteq net, tell' \in [Endpoint -> BOOLEAN],
         UNCHANGED <<rcv_queue, rcv_buf, rcv_nxt, acklist>>
  PROVE  IndInv'
<1> USE EndpointAssumption
<1>1. /\ snd_buf' \in [Endpoint -> SUBSET Segment]
      /\ snd_una' \in [Endpoint -> Nat]
      /\ rmt_wnd' \in [Endpoint -> Nat]
      /\ UNCHANGED <<snd_queue, snd_nxt, probing, stream, read>>
      /\ \A e \in Endpoint : SndQueueInv(e)' /\ SndBufInv(e)' /\ SndUnaInv(e)'
      /\ \A e \in Endpoint : \A n \in 0..snd_nxt[e] - 1 :
           (\E s \in snd_buf'[e] : s.sn = n) \/ Holds(Peer[e], n)
  BY AcknowledgeStep
<1>2. TypeOK'
  BY <1>1 DEF IndInv, TypeOK
<1>3. \A e \in Endpoint : /\ RcvQueueInv(e)' /\ RcvBufInv(e)' /\ AckListInv(e)'
                          /\ CountsDown(stream[e])'
  <2> SUFFICES ASSUME NEW e \in Endpoint
               PROVE  RcvQueueInv(e)' /\ RcvBufInv(e)' /\ AckListInv(e)'
                      /\ CountsDown(stream[e])'
    OBVIOUS
  <2>1. RcvQueueInv(e) /\ RcvBufInv(e) /\ AckListInv(e) /\ CountsDown(stream[e])
    BY DEF IndInv
  <2>2. RcvQueueInv(e)'
    BY <1>1, <2>1 DEF RcvQueueInv, RcvWnd
  <2>3. RcvBufInv(e)'
    BY <1>1, <2>1 DEF RcvBufInv, RcvWnd
  <2>4. AckListInv(e)'
    BY <2>1 DEF AckListInv, Holds
  <2>5. CountsDown(stream[e])'
    BY <1>1, <2>1
  <2>6. QED
    BY <2>2, <2>3, <2>4, <2>5
<1>4. \A k \in net' : PacketInv(k)'
  BY <1>1 DEF IndInv, PacketInv, Holds
<1>5. AckedIsHeld'
  BY <1>1 DEF AckedIsHeld, Holds
<1>6. QED
  BY <1>1, <1>2, <1>3, <1>4, <1>5 DEF IndInv

(* A segment with data: past the window, delivered before, already in      *)
(* rcv_buf, or new.                                                        *)
LEMMA PushIndInv ==
  ASSUME IndInv, NEW m \in net, InputPush(m)
  PROVE  IndInv'
<1> USE EndpointAssumption
<1>1. /\ TypeOK /\ m \in Packet /\ PacketInv(m) /\ m.cmd = "PUSH"
  BY DEF IndInv, TypeOK, InputPush
<1>2. PICK q : q = m.to
  OBVIOUS
<1>3. /\ q \in Endpoint /\ Peer[q] \in Endpoint /\ m.sn \in Nat /\ m.chunk \in Chunk
  BY <1>1, <1>2 DEF Packet
<1>4. /\ Acknowledge(q, m) /\ net' \subseteq net /\ tell' = tell
  BY <1>2 DEF InputPush, Taken
<1>5. /\ snd_buf' \in [Endpoint -> SUBSET Segment]
      /\ snd_una' \in [Endpoint -> Nat]
      /\ rmt_wnd' \in [Endpoint -> Nat]
      /\ UNCHANGED <<snd_queue, snd_nxt, probing, stream, read>>
      /\ \A e \in Endpoint : SndQueueInv(e)' /\ SndBufInv(e)' /\ SndUnaInv(e)'
      /\ \A e \in Endpoint : \A n \in 0..snd_nxt[e] - 1 :
           (\E s \in snd_buf'[e] : s.sn = n) \/ Holds(Peer[e], n)
  BY <1>2, <1>3, <1>4, AcknowledgeStep
<1>6. CASE ~ InRcvWindow(q, m.sn)
  <2>1. UNCHANGED <<rcv_queue, rcv_buf, rcv_nxt, acklist>>
    BY <1>2, <1>6 DEF InputPush
  <2>2. tell' \in [Endpoint -> BOOLEAN]
    BY <1>1, <1>4 DEF TypeOK
  <2>3. QED
    BY <1>2, <1>3, <1>4, <2>1, <2>2, NoDataIndInv
<1>7. CASE InRcvWindow(q, m.sn)
  <2>1. acklist' = [acklist EXCEPT ![q] = acklist[q] \cup {m.sn}]
    BY <1>2, <1>7 DEF InputPush
  <2>2. /\ rcv_queue' \in [Endpoint -> Seq(Chunk)]
        /\ rcv_buf' \in [Endpoint -> SUBSET Segment]
        /\ rcv_nxt' \in [Endpoint -> Nat]
        /\ \A e \in Endpoint : RcvQueueInv(e)' /\ RcvBufInv(e)'
        /\ \A e \in Endpoint : rcv_nxt[e] <= rcv_nxt'[e]
        /\ \A e \in Endpoint : \A n \in Nat : Holds(e, n) => Holds(e, n)'
        /\ Holds(q, m.sn)'
    <3>1. CASE m.sn < rcv_nxt[q]
      <4>1. UNCHANGED <<rcv_queue, rcv_buf, rcv_nxt>>
        BY <1>2, <1>7, <3>1 DEF InputPush
      <4>2. \A e \in Endpoint : RcvQueueInv(e)' /\ RcvBufInv(e)'
        BY <1>5, <4>1 DEF IndInv, RcvQueueInv, RcvBufInv, RcvWnd
      <4>3. /\ rcv_queue' \in [Endpoint -> Seq(Chunk)]
            /\ rcv_buf' \in [Endpoint -> SUBSET Segment]
            /\ rcv_nxt' \in [Endpoint -> Nat]
        BY <1>1, <4>1 DEF TypeOK
      <4>4. \A e \in Endpoint : rcv_nxt[e] <= rcv_nxt'[e]
        BY <1>1, <4>1 DEF TypeOK
      <4>5. \A e \in Endpoint : \A n \in Nat : Holds(e, n) => Holds(e, n)'
        BY <4>1 DEF Holds
      <4>6. Holds(q, m.sn)'
        BY <3>1, <4>1 DEF Holds
      <4>7. QED
        BY <4>2, <4>3, <4>4, <4>5, <4>6
    <3>2. CASE ~ (m.sn < rcv_nxt[q])
      <4>1. PICK arrived : arrived = IF Known(q, m.sn) THEN {}
                                     ELSE {[sn |-> m.sn, chunk |-> m.chunk]}
        OBVIOUS
      <4>2. PICK buf : buf = rcv_buf[q] \cup arrived
        OBVIOUS
      <4>3. PICK queue, rd : queue = rcv_queue[q] /\ rd = read[q]
        OBVIOUS
      <4>4. Refill(q, queue, buf)
        <5>1. Refill(q, rcv_queue[q], rcv_buf[q] \cup arrived)
          BY <1>2, <1>7, <3>2, <4>1 DEF InputPush
        <5>2. QED
          BY <4>2, <4>3, <5>1
      <4>5. /\ queue \in Seq(Chunk) /\ rd \in Seq(Chunk)
            /\ rcv_buf[q] \in SUBSET Segment
            /\ read' = [read EXCEPT ![q] = rd]
        BY <1>1, <1>3, <1>5, <4>3 DEF TypeOK
      <4>6. /\ rcv_nxt[q] = Len(rd) + Len(queue)
            /\ Len(queue) <= RcvWnd(q)
            /\ Slice(rd, stream[Peer[q]], 0)
            /\ Slice(queue, stream[Peer[q]], Len(rd))
        BY <1>3, <4>3 DEF IndInv, RcvQueueInv
      <4>7. /\ arrived \in SUBSET Segment
            /\ \A s \in arrived : s.sn = m.sn /\ s.chunk = m.chunk
            /\ arrived = {} => \E s \in rcv_buf[q] : s.sn = m.sn
            /\ arrived # {} => \E s \in arrived : s.sn = m.sn
        <5>1. Known(q, m.sn) => \E s \in rcv_buf[q] : s.sn = m.sn
          BY <3>2 DEF Known
        <5>2. [sn |-> m.sn, chunk |-> m.chunk] \in Segment
          BY <1>3 DEF Segment
        <5>3. QED
          BY <4>1, <5>1, <5>2
      <4>8. buf \in SUBSET Segment /\ rcv_buf[q] \subseteq buf
        BY <4>2, <4>5, <4>7
      <4>9. /\ rcv_nxt[q] <= m.sn /\ m.sn < rcv_nxt[q] + RcvWnd(q)
            /\ m.sn < snd_nxt[Peer[q]]
            /\ Carries(stream[Peer[q]], m.sn, m.chunk)
        <5>1. rcv_nxt[q] \in Nat
          BY <1>1, <1>3 DEF TypeOK
        <5>2. QED
          BY <1>1, <1>2, <1>3, <1>7, <3>2, <5>1 DEF InRcvWindow, PacketInv
      <4>10. \A s \in buf : /\ rcv_nxt[q] <= s.sn
                            /\ s.sn < rcv_nxt[q] + RcvWnd(q)
                            /\ s.sn < snd_nxt[Peer[q]]
                            /\ Carries(stream[Peer[q]], s.sn, s.chunk)
        <5>1. RcvBufInv(q)
          BY <1>3 DEF IndInv
        <5>2. QED
          BY <4>2, <4>7, <4>9, <5>1 DEF RcvBufInv
      <4>11. UNCHANGED <<stream, snd_nxt>>
        BY <1>5
      <4>12. /\ rcv_queue' \in [Endpoint -> Seq(Chunk)]
             /\ rcv_buf' \in [Endpoint -> SUBSET Segment]
             /\ rcv_nxt' \in [Endpoint -> Nat]
             /\ \A e \in Endpoint : RcvQueueInv(e)' /\ RcvBufInv(e)'
             /\ \A e \in Endpoint : rcv_nxt[e] <= rcv_nxt'[e]
             /\ \A e \in Endpoint : \A n \in Nat : Holds(e, n) => Holds(e, n)'
             /\ \A s \in buf : Holds(q, s.sn)'
        BY <1>3, <4>4, <4>5, <4>6, <4>8, <4>10, <4>11, ReceiverStep
      <4>13. \E s \in buf : s.sn = m.sn
        BY <4>2, <4>7
      <4>14. QED
        BY <4>12, <4>13
    <3>3. QED
      BY <3>1, <3>2
  <2>3. TypeOK'
    <3>1. acklist' \in [Endpoint -> SUBSET Nat]
      BY <1>1, <1>3, <2>1 DEF TypeOK
    <3>2. QED
      BY <1>1, <1>4, <1>5, <2>2, <3>1 DEF TypeOK
  <2>4. \A e \in Endpoint : AckListInv(e)'
    <3> SUFFICES ASSUME NEW e \in Endpoint, NEW n \in acklist'[e]
                 PROVE  Holds(e, n)'
      BY DEF AckListInv
    <3>1. n \in acklist[e] \/ (e = q /\ n = m.sn)
      BY <1>1, <2>1 DEF TypeOK
    <3>2. CASE n \in acklist[e]
      <4>1. n \in Nat /\ Holds(e, n)
        BY <1>1, <3>2 DEF IndInv, AckListInv, TypeOK
      <4>2. QED
        BY <2>2, <4>1
    <3>3. CASE e = q /\ n = m.sn
      BY <2>2, <3>3
    <3>4. QED
      BY <3>1, <3>2, <3>3
  <2>5. \A k \in net' : PacketInv(k)'
    <3> SUFFICES ASSUME NEW k \in net' PROVE PacketInv(k)'
      OBVIOUS
    <3>1. PacketInv(k) /\ k \in Packet
      BY <1>1, <1>4 DEF IndInv, TypeOK
    <3>2. PICK r : r = Peer[k.to]
      OBVIOUS
    <3>3. r \in Endpoint /\ k.una \in Nat /\ (k.cmd = "ACK" => k.sn \in Nat)
      BY <3>1, <3>2 DEF Packet
    <3>4. rcv_nxt[r] \in Nat /\ rcv_nxt'[r] \in Nat /\ rcv_nxt[r] <= rcv_nxt'[r]
      BY <1>1, <2>2, <3>3 DEF TypeOK
    <3>5. k.una <= rcv_nxt[r] /\ (k.cmd = "ACK" => Holds(r, k.sn))
      BY <3>1, <3>2 DEF PacketInv
    <3>6. k.una <= rcv_nxt'[r] /\ (k.cmd = "ACK" => Holds(r, k.sn)')
      BY <2>2, <3>3, <3>4, <3>5
    <3>7. QED
      BY <1>5, <3>1, <3>2, <3>6 DEF PacketInv
  <2>6. AckedIsHeld'
    <3> SUFFICES ASSUME NEW p \in Endpoint, NEW n \in 0..snd_nxt[p] - 1
                 PROVE  (\E s \in snd_buf'[p] : s.sn = n) \/ Holds(Peer[p], n)'
      BY <1>5 DEF AckedIsHeld
    <3>1. n \in Nat /\ Peer[p] \in Endpoint
      BY <1>1 DEF TypeOK
    <3>2. QED
      BY <1>5, <2>2, <3>1
  <2>7. \A e \in Endpoint : CountsDown(stream[e])'
    BY <1>5 DEF IndInv
  <2>8. QED
    BY <1>5, <2>2, <2>3, <2>4, <2>5, <2>6, <2>7 DEF IndInv
<1>8. QED
  BY <1>6, <1>7

LEMMA InputIndInv ==
  ASSUME IndInv, NEW m \in net, Input(m)
  PROVE  IndInv'
<1>1. m \in Packet /\ TypeOK
  BY DEF IndInv, TypeOK
<1>2. PICK q : q = m.to
  OBVIOUS
<1>3. q \in Endpoint
  BY <1>1, <1>2 DEF Packet
<1>4. CASE InputPush(m)
  BY <1>4, PushIndInv
<1>5. CASE InputAck(m) \/ InputWask(m) \/ InputWins(m)
  <2>1. /\ Acknowledge(q, m) /\ net' \subseteq net
        /\ UNCHANGED <<rcv_queue, rcv_buf, rcv_nxt, acklist>>
    BY <1>2, <1>5 DEF InputAck, InputWask, InputWins, Taken, rcvVars
  <2>2. tell' \in [Endpoint -> BOOLEAN]
    BY <1>1, <1>5 DEF InputAck, InputWask, InputWins, rcvVars, TypeOK
  <2>3. QED
    BY <1>2, <1>3, <2>1, <2>2, NoDataIndInv
<1>6. QED
  BY <1>4, <1>5 DEF Input

LEMMA StutterIndInv ==
  ASSUME IndInv, UNCHANGED vars
  PROVE  IndInv'
<1>1. /\ UNCHANGED <<snd_queue, snd_buf, snd_una, snd_nxt, rmt_wnd, probing>>
      /\ UNCHANGED <<rcv_queue, rcv_buf, rcv_nxt, acklist, tell>>
      /\ UNCHANGED <<net, stream, read>>
  BY DEF vars, sndVars, rcvVars, history
<1>2. TypeOK'
  BY <1>1 DEF IndInv, TypeOK
<1>3. \A e \in Endpoint : /\ SndQueueInv(e)' /\ SndBufInv(e)' /\ SndUnaInv(e)'
                          /\ CountsDown(stream[e])'
  BY <1>1 DEF IndInv, SndQueueInv, SndBufInv, SndUnaInv
<1>4. \A e \in Endpoint : RcvQueueInv(e)' /\ RcvBufInv(e)' /\ AckListInv(e)'
  BY <1>1 DEF IndInv, RcvQueueInv, RcvBufInv, AckListInv, RcvWnd, Holds
<1>5. (\A k \in net' : PacketInv(k)') /\ AckedIsHeld'
  BY <1>1 DEF IndInv, PacketInv, AckedIsHeld, Holds
<1>6. QED
  BY <1>2, <1>3, <1>4, <1>5 DEF IndInv

-----------------------------------------------------------------------------
(* The theorems.                                                           *)

(* The inductive invariant holds of every reachable state of two control   *)
(* blocks, whatever their windows, traffic and network.                    *)
THEOREM Invariance == Spec => []IndInv
<1>1. Init => IndInv
  BY InitIndInv
<1>2. IndInv /\ [Next]_vars => IndInv'
  <2> SUFFICES ASSUME IndInv, [Next]_vars
               PROVE  IndInv'
    OBVIOUS
  <2>1. ASSUME NEW p \in Endpoint, Send(p) PROVE IndInv'
    BY <2>1, SendIndInv
  <2>2. ASSUME NEW q \in Endpoint, NEW len \in BufferLen, Recv(q, len) PROVE IndInv'
    BY <2>2, RecvIndInv
  <2>3. ASSUME NEW p \in Endpoint, Flush(p) PROVE IndInv'
    BY <2>3, FlushIndInv
  <2>4. ASSUME NEW m \in net, Input(m) PROVE IndInv'
    BY <2>4, InputIndInv
  <2>5. ASSUME NEW m \in net, Lose(m) PROVE IndInv'
    BY <2>5, LoseIndInv
  <2>6. CASE UNCHANGED vars
    BY <2>6, StutterIndInv
  <2>7. QED
    BY <2>1, <2>2, <2>3, <2>4, <2>5, <2>6 DEF Next
<1>3. QED
  BY <1>1, <1>2, PTL DEF Spec

(* Every queue, buffer and number of a control block keeps its type.       *)
THEOREM TypeCorrect == Spec => []TypeOK
<1>1. IndInv => TypeOK
  BY DEF IndInv
<1>2. QED
  BY <1>1, Invariance, PTL

(* ikcp_recv returns exactly the chunks ikcp_send accepted, in order, with *)
(* none lost and none repeated, for all windows and every network.         *)
THEOREM DeliveryInOrder == Spec => []InOrderDelivery
<1>1. IndInv => InOrderDelivery
  <2> SUFFICES ASSUME IndInv, NEW q \in Endpoint
               PROVE  /\ Len(read[q]) <= Len(stream[Peer[q]])
                      /\ \A i \in 1..Len(read[q]) : read[q][i] = stream[Peer[q]][i]
    BY DEF InOrderDelivery
  <2>1. PICK rd, st : rd = read[q] /\ st = stream[Peer[q]]
    OBVIOUS
  <2>2. rd \in Seq(Chunk) /\ Slice(rd, st, 0)
    BY <2>1 DEF IndInv, TypeOK, RcvQueueInv
  <2>3. Len(rd) \in Nat /\ 0 + Len(rd) <= Len(st)
        /\ \A i \in 1..Len(rd) : rd[i] = st[0 + i]
    BY <2>2 DEF Slice
  <2>4. Len(rd) <= Len(st) /\ \A i \in 1..Len(rd) : rd[i] = st[i]
    BY <2>3
  <2>5. QED
    BY <2>1, <2>4
<1>2. QED
  BY <1>1, Invariance, PTL

(* What an acknowledgement removes from snd_buf is in the receiver's hands.*)
THEOREM AcknowledgedIsHeld == Spec => []AckedIsHeld
<1>1. IndInv => AckedIsHeld
  BY DEF IndInv
<1>2. QED
  BY <1>1, Invariance, PTL

(* A full receive queue can be read from, so it cannot block its session   *)
(* for ever: the reason for the lower bound on rcv_wnd in ikcp_wndsize and *)
(* the upper bound on fragments in ikcp_send.                              *)
THEOREM FullQueueReadable == Spec => []FullQueueIsReadable
<1>1. IndInv => FullQueueIsReadable
  <2> SUFFICES ASSUME IndInv, NEW q \in Endpoint, Room(q, rcv_queue[q]) = 0
               PROVE  Complete(rcv_queue[q])
    BY DEF FullQueueIsReadable
  <2> USE EndpointAssumption
  <2>1. PICK queue, st, base :
          queue = rcv_queue[q] /\ st = stream[Peer[q]] /\ base = Len(read[q])
    OBVIOUS
  <2>2. /\ queue \in Seq(Chunk) /\ st \in Seq(Chunk) /\ base \in Nat
        /\ Slice(queue, st, base) /\ CountsDown(st)
    BY <2>1 DEF IndInv, TypeOK, RcvQueueInv
  <2>3. Len(queue) \in Nat /\ RcvWnd(q) \in Nat /\ WND_RCV <= RcvWnd(q)
        /\ WND_RCV \in Nat /\ WND_RCV > 1
    BY <2>2, RcvWndType, WindowAssumption
  <2>4. RcvWnd(q) <= Len(queue)
    BY <2>1, <2>3 DEF Room
  <2>5. 1 \in 1..Len(queue) /\ base + 1 \in 1..Len(st)
    BY <2>2, <2>3, <2>4 DEF Slice
  <2>6. queue[1] = st[base + 1] /\ queue[1] \in Chunk
    BY <2>2, <2>5, ElementOfSeq DEF Slice
  <2>7. queue[1].frg \in Nat /\ queue[1].frg + 1 < WND_RCV
    BY <2>2, <2>5, <2>6 DEF CountsDown, Chunk
  <2>8. queue # <<>> /\ Len(queue) >= queue[1].frg + 1
    BY <2>3, <2>4, <2>7
  <2>9. QED
    BY <2>1, <2>8 DEF Complete
<1>2. QED
  BY <1>1, Invariance, PTL

(* The receive queue, the segments ahead of it and those in flight stay    *)
(* within the windows.                                                     *)
THEOREM WindowsBoundBuffers == Spec => []BuffersBounded
<1>1. IndInv => BuffersBounded
  <2> SUFFICES ASSUME IndInv, NEW p \in Endpoint
               PROVE  /\ Len(rcv_queue[p]) <= RcvWnd(p)
                      /\ \A s \in rcv_buf[p] :
                           s.sn \in rcv_nxt[p]..(rcv_nxt[p] + RcvWnd(p) - 1)
                      /\ snd_nxt[p] <= snd_una[p] + SndWnd[p]
    BY DEF BuffersBounded
  <2>1. RcvQueueInv(p) /\ RcvBufInv(p) /\ SndUnaInv(p)
    BY DEF IndInv
  <2>2. ASSUME NEW s \in rcv_buf[p]
        PROVE  s.sn \in rcv_nxt[p]..(rcv_nxt[p] + RcvWnd(p) - 1)
    <3>1. s.sn \in Nat /\ rcv_nxt[p] \in Nat /\ RcvWnd(p) \in Nat
      BY RcvWndType DEF IndInv, TypeOK, Segment
    <3>2. rcv_nxt[p] <= s.sn /\ s.sn < rcv_nxt[p] + RcvWnd(p)
      BY <2>1 DEF RcvBufInv
    <3>3. QED
      BY <3>1, <3>2
  <2>3. QED
    BY <2>1, <2>2 DEF RcvQueueInv, SndUnaInv
<1>2. QED
  BY <1>1, Invariance, PTL

(* snd_una is the number of the oldest segment in flight.                  *)
THEOREM SndUnaFirst == Spec => []SndUnaIsFirst
<1>1. IndInv => SndUnaIsFirst
  BY DEF IndInv, SndUnaIsFirst, SndBufInv, SndUnaInv
<1>2. QED
  BY <1>1, Invariance, PTL

(* The right edge of the advertised window is what has been read plus the  *)
(* whole window, whichever queue the chunks are in.                        *)
LEMMA RightEdge ==
  IndInv => \A p \in Endpoint :
              rcv_nxt[p] + WndUnused(p) = Len(read[p]) + RcvWnd(p)
<1> SUFFICES ASSUME IndInv, NEW p \in Endpoint
             PROVE  rcv_nxt[p] + WndUnused(p) = Len(read[p]) + RcvWnd(p)
  OBVIOUS
<1>1. rcv_nxt[p] \in Nat /\ Len(read[p]) \in Nat /\ Len(rcv_queue[p]) \in Nat
      /\ RcvWnd(p) \in Nat
  BY RcvWndType, LenProperties DEF IndInv, TypeOK
<1>2. rcv_nxt[p] = Len(read[p]) + Len(rcv_queue[p]) /\ Len(rcv_queue[p]) <= RcvWnd(p)
  BY DEF IndInv, RcvQueueInv
<1>3. WndUnused(p) = IF Len(rcv_queue[p]) < RcvWnd(p)
                       THEN RcvWnd(p) - Len(rcv_queue[p]) ELSE 0
  BY DEF WndUnused
<1>4. PICK nxt, done, held, size :
        /\ nxt = rcv_nxt[p] /\ done = Len(read[p])
        /\ held = Len(rcv_queue[p]) /\ size = RcvWnd(p)
  OBVIOUS
<1>5. nxt + (IF held < size THEN size - held ELSE 0) = done + size
  <2>1. nxt \in Nat /\ done \in Nat /\ held \in Nat /\ size \in Nat
    BY <1>1, <1>4
  <2>2. nxt = done + held /\ held <= size
    BY <1>2, <1>4
  <2>3. QED
    BY <2>1, <2>2
<1>6. QED
  BY <1>3, <1>4, <1>5

(* ikcp_recv only adds to what was read, and nothing else changes it.      *)
LEMMA ReadGrows ==
  ASSUME IndInv, Next, NEW p \in Endpoint
  PROVE  Len(read'[p]) >= Len(read[p]) /\ Len(read[p]) \in Nat
<1>0. read \in [Endpoint -> Seq(Chunk)] /\ rcv_queue \in [Endpoint -> Seq(Chunk)]
  BY DEF IndInv, TypeOK
<1>1. ASSUME NEW q \in Endpoint, NEW len \in BufferLen, Recv(q, len)
      PROVE  Len(read'[p]) >= Len(read[p])
  <2>1. PICK k \in 1..Len(rcv_queue[q]) :
          read' = [read EXCEPT ![q] = @ \o SubSeq(rcv_queue[q], 1, k)]
    BY <1>1 DEF Recv
  <2>2. SubSeq(rcv_queue[q], 1, k) \in Seq(Chunk)
    BY <1>0
  <2>3. PICK old, new : old = read[q] /\ new = SubSeq(rcv_queue[q], 1, k)
    OBVIOUS
  <2>4. old \in Seq(Chunk) /\ new \in Seq(Chunk)
    BY <1>0, <2>2, <2>3
  <2>5. Len(old \o new) >= Len(old)
    BY <2>4, ConcatParts
  <2>6. CASE p = q
    BY <1>0, <2>1, <2>3, <2>5, <2>6
  <2>7. CASE p # q
    BY <1>0, <2>1, <2>7
  <2>8. QED
    BY <2>6, <2>7
<1>2. ASSUME UNCHANGED read PROVE Len(read'[p]) >= Len(read[p])
  BY <1>0, <1>2
<1>3. \A q \in Endpoint : Send(q) \/ Flush(q) => UNCHANGED read
  BY DEF Send, Flush, FlushWith, history
<1>4. \A m \in net : Input(m) \/ Lose(m) => UNCHANGED read
  BY DEF Input, InputAck, InputPush, InputWask, InputWins, Acknowledge, Lose, history
<1>5. QED
  BY <1>0, <1>1, <1>2, <1>3, <1>4 DEF Next

(* The advertised window never withdraws room it has offered: its right    *)
(* edge moves with what ikcp_recv has returned.                            *)
THEOREM OfferedRoomStays == Spec => WindowNeverShrinks
<1>0. IndInv' => (\A p \in Endpoint :
                    rcv_nxt[p] + WndUnused(p) = Len(read[p]) + RcvWnd(p))'
  BY RightEdge, PTL
<1>1. IndInv /\ IndInv' /\ [Next]_vars =>
        [\A p \in Endpoint :
           rcv_nxt'[p] + WndUnused(p)' >= rcv_nxt[p] + WndUnused(p)]_vars
  <2> SUFFICES ASSUME IndInv, IndInv', Next, NEW p \in Endpoint
               PROVE  rcv_nxt'[p] + WndUnused(p)' >= rcv_nxt[p] + WndUnused(p)
    OBVIOUS
  <2>1. rcv_nxt[p] + WndUnused(p) = Len(read[p]) + RcvWnd(p)
    BY RightEdge
  <2>2. rcv_nxt'[p] + WndUnused(p)' = Len(read'[p]) + RcvWnd(p)
    BY <1>0 DEF RcvWnd
  <2>3. Len(read'[p]) >= Len(read[p]) /\ Len(read[p]) \in Nat
    BY ReadGrows
  <2>4. Len(read'[p]) \in Nat /\ RcvWnd(p) \in Nat
    BY RcvWndType, LenProperties DEF IndInv, TypeOK
  <2>5. QED
    BY <2>1, <2>2, <2>3, <2>4
<1>2. QED
  BY <1>1, Invariance, PTL DEF Spec, WindowNeverShrinks

(* A read takes one message of the sender's stream: the queue is the part  *)
(* of it after base, and the fragment counts lead from its first chunk to  *)
(* the message's last one.                                                 *)
LEMMA MessageOfQueue ==
  ASSUME NEW st \in Seq(Chunk), NEW queue \in Seq(Chunk), NEW base \in Nat,
         Slice(queue, st, base), CountsDown(st), Complete(queue),
         NEW k \in 1..Len(queue), EndsMessage(queue, k)
  PROVE  /\ base + k \in base + 1..Len(st)
         /\ st[base + k].frg = 0
         /\ \A i \in base + 1..base + k - 1 : st[i].frg # 0
         /\ SubSeq(queue, 1, k) = SubSeq(st, base + 1, base + k)
<1>1. /\ Len(queue) \in Nat /\ Len(st) \in Nat /\ k \in Nat
      /\ 1 <= k /\ k <= Len(queue) /\ base + Len(queue) <= Len(st)
  BY DEF Slice
<1>2. \A i \in 1..Len(queue) : queue[i] = st[base + i] /\ queue[i] \in Chunk
  BY ElementOfSeq DEF Slice
<1>3. PICK f : f = queue[1].frg
  OBVIOUS
<1>4. f \in Nat /\ Len(queue) >= f + 1
  <2>1. queue[1] \in Chunk
    BY <1>1, <1>2
  <2>2. QED
    BY <1>3, <2>1 DEF Complete, Chunk
<1>5. \A d \in 0..f : queue[d + 1].frg = f - d
  <2> SUFFICES ASSUME NEW d \in 0..f PROVE queue[d + 1].frg = f - d
    OBVIOUS
  <2>1. base + 1 \in 1..Len(st) /\ st[base + 1].frg = f
    BY <1>1, <1>2, <1>3
  <2>2. st[(base + 1) + d].frg = f - d
    BY <2>1 DEF CountsDown
  <2>3. (base + 1) + d = base + (d + 1) /\ d + 1 \in 1..Len(queue)
    BY <1>1, <1>4
  <2>4. QED
    BY <1>2, <2>2, <2>3
<1>6. k = f + 1
  <2>1. queue[f + 1].frg = 0
    <3>1. queue[f + 1].frg = f - f
      BY <1>4, <1>5
    <3>2. QED
      BY <1>4, <3>1
  <2>2. ~ (f + 1 < k)
    <3>1. f + 1 < k => f + 1 \in 1..k - 1
      BY <1>1, <1>4
    <3>2. QED
      BY <2>1, <3>1 DEF EndsMessage
  <2>3. ~ (k < f + 1)
    <3> SUFFICES ASSUME k < f + 1 PROVE FALSE
      OBVIOUS
    <3>1. k - 1 \in 0..f /\ (k - 1) + 1 = k /\ f - (k - 1) # 0
      BY <1>1, <1>4
    <3>2. queue[(k - 1) + 1].frg = f - (k - 1)
      BY <1>5, <3>1
    <3>3. queue[k].frg # 0
      BY <3>1, <3>2
    <3>4. k # Len(queue)
      BY <1>1, <1>4
    <3>5. QED
      BY <3>3, <3>4 DEF EndsMessage
  <2>4. QED
    BY <1>1, <1>4, <2>2, <2>3
<1>7. base + k \in base + 1..Len(st)
  BY <1>1
<1>8. st[base + k].frg = 0
  <2>1. queue[f + 1].frg = f - f /\ f - f = 0
    BY <1>4, <1>5
  <2>2. QED
    BY <1>1, <1>2, <1>6, <2>1
<1>9. ASSUME NEW i \in base + 1..base + k - 1 PROVE st[i].frg # 0
  <2>1. i - base \in 1..k - 1 /\ base + (i - base) = i /\ i - base \in 1..Len(queue)
    BY <1>1
  <2>2. queue[i - base].frg # 0
    BY <2>1 DEF EndsMessage
  <2>3. QED
    BY <1>2, <2>1, <2>2
<1>10. SubSeq(queue, 1, k) = SubSeq(st, base + 1, base + k)
  <2> DEFINE part == SubSeq(queue, 1, k)
             whole == SubSeq(st, base + 1, base + k)
  <2>1. \A i \in 1..k : queue[i] \in Chunk
    BY <1>1, <1>2
  <2>2. \A i \in base + 1..base + k : st[i] \in Chunk
    BY <1>1, ElementOfSeq
  <2>3. /\ part \in Seq(Chunk) /\ Len(part) = IF 1 <= k THEN k - 1 + 1 ELSE 0
        /\ \A i \in 1..k - 1 + 1 : part[i] = queue[1 + i - 1]
    BY <1>1, <2>1, SubSeqProperties
  <2>4. /\ whole \in Seq(Chunk)
        /\ Len(whole) = IF base + 1 <= base + k THEN (base + k) - (base + 1) + 1 ELSE 0
        /\ \A i \in 1..(base + k) - (base + 1) + 1 : whole[i] = st[base + 1 + i - 1]
    BY <1>1, <2>2, SubSeqProperties
  <2> HIDE DEF part, whole
  <2>5. Len(part) = k /\ Len(whole) = k
    BY <1>1, <2>3, <2>4
  <2>6. ASSUME NEW i \in 1..k PROVE part[i] = whole[i]
    <3>1. part[i] = queue[1 + i - 1] /\ 1 + i - 1 = i
      BY <1>1, <2>3
    <3>2. whole[i] = st[base + 1 + i - 1] /\ base + 1 + i - 1 = base + i
      BY <1>1, <2>4
    <3>3. QED
      BY <1>1, <1>2, <3>1, <3>2
  <2>7. part = whole
    BY <2>3, <2>4, <2>5, <2>6, SeqEqual
  <2>8. QED
    BY <2>7 DEF part, whole
<1>11. QED
  BY <1>7, <1>8, <1>9, <1>10

LEMMA RecvIsReceive ==
  ASSUME IndInv, NEW q \in Endpoint, NEW len \in BufferLen, Recv(q, len)
  PROVE  Channel!Receive(q)
<1> USE EndpointAssumption
<1>1. PICK st, queue, done :
        st = stream[Peer[q]] /\ queue = rcv_queue[q] /\ done = read[q]
  OBVIOUS
<1>2. /\ st \in Seq(Chunk) /\ queue \in Seq(Chunk) /\ Len(done) \in Nat
      /\ Slice(queue, st, Len(done)) /\ CountsDown(st)
  BY <1>1, LenProperties DEF IndInv, TypeOK, RcvQueueInv
<1>3. Complete(queue)
  BY <1>1 DEF Recv
<1>4. PICK k \in 1..Len(queue) :
        /\ EndsMessage(queue, k)
        /\ read' = [read EXCEPT ![q] = @ \o SubSeq(queue, 1, k)]
  BY <1>1 DEF Recv
<1>5. PICK last : last = Len(done) + k
  OBVIOUS
<1>6. /\ last \in Len(done) + 1..Len(st)
      /\ st[last].frg = 0
      /\ \A i \in Len(done) + 1..last - 1 : st[i].frg # 0
      /\ SubSeq(queue, 1, k) = SubSeq(st, Len(done) + 1, last)
  BY <1>2, <1>3, <1>4, <1>5, MessageOfQueue
<1>7. read' = [read EXCEPT ![q] = @ \o SubSeq(st, Len(done) + 1, last)]
  BY <1>4, <1>6
<1>8. UNCHANGED stream
  BY DEF Recv
<1>9. QED
  BY <1>1, <1>6, <1>7, <1>8 DEF Channel!Receive

LEMMA SendIsSend ==
  ASSUME NEW p \in Endpoint, Send(p)
  PROVE  Channel!Send(p)
<1>1. PICK n \in 1..Traffic[p] :
        /\ Sendable(n)
        /\ stream' = [stream EXCEPT ![p] = @ \o Fragments(Len(stream[p]), n)]
        /\ UNCHANGED read
  BY DEF Send
<1>2. n \in 1..WND_RCV - 1
  BY <1>1, WindowAssumption, BoundAssumption DEF Sendable
<1>3. Fragments(Len(stream[p]), n) = Channel!Fragments(Len(stream[p]), n)
  BY DEF Fragments, Channel!Fragments
<1>4. stream' = [stream EXCEPT ![p] = @ \o Channel!Fragments(Len(@), n)]
  BY <1>1, <1>3
<1>5. QED
  BY <1>1, <1>2, <1>4 DEF Channel!Send

(* The protocol implements the message channel: each ikcp_send and each    *)
(* ikcp_recv is a step of it, and nothing else the two control blocks or   *)
(* the network do can be seen by the programs above.                       *)
THEOREM ImplementsChannel == Spec => ChannelSpec
<1>1. Init => Channel!Init
  BY DEF Init, Channel!Init
<1>2. IndInv /\ [Next]_vars => [Channel!Next]_(Channel!vars)
  <2> SUFFICES ASSUME IndInv, [Next]_vars
               PROVE  Channel!Next \/ UNCHANGED <<stream, read>>
    BY DEF Channel!vars
  <2>1. ASSUME NEW p \in Endpoint, Send(p) PROVE Channel!Next
    BY <2>1, SendIsSend DEF Channel!Next
  <2>2. ASSUME NEW q \in Endpoint, NEW len \in BufferLen, Recv(q, len) PROVE Channel!Next
    BY <2>2, RecvIsReceive DEF Channel!Next
  <2>3. ASSUME NEW p \in Endpoint, Flush(p) PROVE UNCHANGED <<stream, read>>
    BY <2>3 DEF Flush, FlushWith, history
  <2>4. ASSUME NEW m \in net, Input(m) \/ Lose(m) PROVE UNCHANGED <<stream, read>>
    BY <2>4 DEF Input, InputAck, InputPush, InputWask, InputWins, Acknowledge,
                Lose, history
  <2>5. CASE UNCHANGED vars
    BY <2>5 DEF vars, history
  <2>6. QED
    BY <2>1, <2>2, <2>3, <2>4, <2>5 DEF Next
<1>3. QED
  BY <1>1, <1>2, Invariance, PTL DEF Spec, ChannelSpec, Channel!Spec
=============================================================================
