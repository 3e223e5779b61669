---------------------------- MODULE FakeTcpProofs ---------------------------
(***************************************************************************)
(* What TLAPS proves of FakeTcp, for any number of segments in either      *)
(* direction and whatever else the raw socket receives: the handshake was  *)
(* answered by the server, an acknowledged FIN means that the server's     *)
(* kernel has all data before it, and no FIN ends the stream before what   *)
(* was sent when the client began to close, although client_loop may go on *)
(* sending beside the FIN.                                                 *)
(***************************************************************************)
EXTENDS FakeTcp, NumberFacts

(* The number is that of whole data segments.                              *)
Even(n) == \E k \in 0..Segments : n = 2 * k

(* Before the transfer is over there is no FIN of this connection.         *)
Early == {"start", "handshake", "transfer"}

(* The server's socket has not come to the end of the stream.              *)
Open == {"listen", "synrcvd", "established"}

(* Where the client is, and the numbers it has used.  seq is 0 until the   *)
(* SYN is acknowledged and 1 until the server's FIN answers its own.       *)
Position ==
  /\ pc \in {"start", "handshake"} => seq = 0
  /\ seq = 0 => CLIENT_SUM_SEND = 0 /\ loops = "none"
  /\ pc = "transfer" => seq = 1 /\ s_state = "TCP_ESTABLISHED"
  /\ pc = "waving" => seq >= 1
  /\ pc = "waving" /\ s_state \in {"TCP_ESTABLISHED", "TCP_FIN_WAIT1", "TCP_FIN_WAIT2"}
       => seq = 1
  /\ Even(CLIENT_SUM_SEND) /\ sent <= CLIENT_SUM_SEND
  /\ loops = "sending" => CLIENT_SUM_SEND < Last

(* What is on its way to the server: FINs at numbers behind what was sent  *)
(* when the client began to close, and data, which begins where whole      *)
(* segments end as long as seq was not counted on.                         *)
Sent ==
  \A m \in toServer :
    /\ m.flag = "data" => /\ m.seq \in 1..Last
                          /\ seq < 2 => Even(m.seq - 1)
    /\ m.flag = "fin" => /\ m.seq = 0 \/ m.seq > sent
                         /\ m.seq <= Last + 1 /\ pc \notin Early

(* What an acknowledgement says: all whole segments before it are held, or *)
(* all before a FIN that ended the stream.                                 *)
Told(a) ==
  \/ a = 0
  \/ Even(a - 1) /\ 1..a - 1 \subseteq got
  \/ a - 1 \in fins /\ 1..a - 2 \subseteq got /\ srv \notin Open

(* What the server's kernel said of this connection stays true.            *)
Answers ==
  \A m \in toClient \ Others :
    m.mine => srv # "listen" /\ (seq < 2 => Told(m.ack_seq))

(* Data is held by whole segments.                                         *)
Paired(held) ==
  \A n \in held : \E k \in 1..Segments :
    {2 * k - 1, 2 * k} \subseteq held /\ n \in {2 * k - 1, 2 * k}

ServerNumbers ==
  /\ got \subseteq 1..Last + 1 /\ fins \subseteq 1..Last + 1
  /\ seq < 2 => Paired(got)
  /\ \A f \in fins : f > sent
  /\ pc \in Early => fins = {}
  /\ srv \in Open => Missing(got) \notin fins
  /\ srv \in {"close_wait", "last_ack"} => Missing(got) \in fins
  /\ srv \in {"synrcvd", "established", "close_wait"} => snd_nxt \in 1..Replies + 1

(* The inductive invariant.                                                *)
IndInv ==
  /\ TypeOK
  /\ Position /\ Sent /\ Answers /\ ServerNumbers
  /\ EstablishedWasAnswered

-----------------------------------------------------------------------------
LEMMA LastIs == Last \in Nat /\ Last = 2 * Segments
BY BoundAssumption DEF Last, DataLength

(* The first missing number: all below it are held.                        *)
LEMMA MissingBounds ==
  ASSUME NEW held, held \subseteq 1..Last + 1
  PROVE  /\ Missing(held) \in 1..Last + 2 /\ Missing(held) \notin held
         /\ 1..Missing(held) - 1 \subseteq held
<1>. DEFINE free == {n \in 1..Last + 2 : n \notin held}
<1>0. Last \in Nat
  BY LastIs
<1>1. Last + 2 \in free
  BY <1>0
<1>2. PICK k \in free : \A n \in free : k <= n
  <2>1. free \subseteq Nat /\ free # {}
    BY <1>1
  <2>. QED
    BY <2>1, LeastExists
<1>3. k \in 1..Last + 2 /\ k \notin held
  BY <1>2
<1>4. 1..k - 1 \subseteq held
  <2>1. ASSUME NEW n \in 1..k - 1 PROVE n \in held
    <3>1. n \in 1..Last + 2 /\ n < k
      BY <1>3, <1>0
    <3>. QED
      BY <1>2, <3>1
  <2>. QED
    BY <2>1
<1>5. \E n \in 1..Last + 2 : n \notin held /\ 1..n - 1 \subseteq held
  BY <1>3, <1>4
<1>. QED
  BY <1>5 DEF Missing

(* Of whole segments the first missing number is that of one more.         *)
LEMMA MissingIsWhole ==
  ASSUME NEW held, held \subseteq 1..Last + 1, Paired(held)
  PROVE  Even(Missing(held) - 1)
<1>. DEFINE n == Missing(held)
<1>. SUFFICES Even(n - 1)
  OBVIOUS
<1>1. n \in 1..Last + 2 /\ n \notin held /\ 1..n - 1 \subseteq held
  BY MissingBounds
<1>. HIDE DEF n
<1>2. Last \in Nat /\ Last = 2 * Segments /\ Segments \in Nat
  BY LastIs, BoundAssumption
<1>3. CASE n = 1
  <2>1. n - 1 = 2 * 0 /\ 0 \in 0..Segments
    BY <1>2, <1>3
  <2>. QED
    BY <2>1 DEF Even
<1>4. CASE n # 1
  <2>1. n - 1 \in held
    BY <1>1, <1>2, <1>4
  <2>2. PICK k \in 1..Segments :
          {2 * k - 1, 2 * k} \subseteq held /\ n - 1 \in {2 * k - 1, 2 * k}
    BY <2>1 DEF Paired
  <2>3. n - 1 # 2 * k - 1
    <3>1. SUFFICES ASSUME n - 1 = 2 * k - 1 PROVE FALSE
      OBVIOUS
    <3>2. n = 2 * k
      BY <3>1, <1>1, <1>2
    <3>. QED
      BY <3>2, <2>2, <1>1
  <2>4. n - 1 = 2 * k /\ k \in 0..Segments
    BY <2>2, <2>3, <1>2
  <2>. QED
    BY <2>4 DEF Even
<1>. QED
  BY <1>3, <1>4

LEMMA InitEstablishes == Init => IndInv
<1>. SUFFICES ASSUME Init PROVE IndInv
  OBVIOUS
<1>0. Last \in Nat /\ Segments \in Nat /\ Replies \in Nat
  BY LastIs, BoundAssumption
<1>1. TypeOK
  BY <1>0, OthersAssumption DEF Init, TypeOK, OptionLength
<1>2. Even(0)
  BY <1>0 DEF Even
<1>3. Position /\ Sent /\ Answers /\ EstablishedWasAnswered
  BY <1>0, <1>2 DEF Init, Position, Sent, Answers, EstablishedWasAnswered
<1>4. ServerNumbers
  BY <1>0 DEF Init, ServerNumbers, Paired, Open
<1>. QED
  BY <1>1, <1>3, <1>4 DEF IndInv

-----------------------------------------------------------------------------
(* The server's steps.  Each leaves the client alone; what the kernel      *)
(* holds only grows, and what it says of it is true.                       *)

ClientSide == <<client, toServer>>

LEMMA ServerPreserves ==
  ASSUME IndInv, UNCHANGED ClientSide,
         srv' \in {"listen", "synrcvd", "established", "close_wait", "last_ack",
                   "closed"},
         srv' = "listen" => srv = "listen",
         got \subseteq got',
         srv \notin Open => srv' \notin Open /\ fins' = fins,
         ServerNumbers', snd_nxt' \in 0..Replies + 2,
         toClient \subseteq toClient', toClient' \subseteq ToClient,
         \A m \in toClient' \ toClient :
           srv' # "listen" /\ (seq < 2 => Told(m.ack_seq)')
  PROVE  IndInv'
<1>1. /\ s_state' = s_state /\ pc' = pc /\ seq' = seq
      /\ CLIENT_SUM_SEND' = CLIENT_SUM_SEND /\ server_ack_seq' = server_ack_seq
      /\ loops' = loops /\ sent' = sent /\ toServer' = toServer
  BY DEF ClientSide, client, threads
<1>2. TypeOK'
  BY <1>1 DEF IndInv, TypeOK, ServerNumbers
<1>3. Position' /\ Sent'
  BY <1>1 DEF IndInv, Position, Sent
<1>4. Answers'
  <2>1. ASSUME NEW m \in toClient' \ Others, m.mine
        PROVE  srv' # "listen" /\ (seq' < 2 => Told(m.ack_seq)')
    <3>1. CASE m \in toClient
      <4>1. srv # "listen" /\ (seq < 2 => Told(m.ack_seq))
        BY <2>1, <3>1 DEF IndInv, Answers
      <4>2. Told(m.ack_seq) => Told(m.ack_seq)'
        BY DEF Told
      <4>. QED
        BY <4>1, <4>2, <1>1
    <3>2. CASE m \notin toClient
      BY <2>1, <3>2, <1>1
    <3>. QED
      BY <3>1, <3>2
  <2>. QED
    BY <2>1 DEF Answers
<1>5. EstablishedWasAnswered'
  BY <1>1 DEF IndInv, EstablishedWasAnswered
<1>. QED
  BY <1>2, <1>3, <1>4, <1>5 DEF IndInv

(* An answer of the kernel is a segment of the right kind, and says what   *)
(* it holds then.                                                          *)
LEMMA AnswerTrue ==
  ASSUME NEW flag \in Flags, NEW held, held \subseteq 1..Last + 1, NEW ends,
         snd_nxt \in 0..Replies + 2
  PROVE  /\ Answer(flag, held, ends) \in ToClient
         /\ Missing(held) \notin ends /\ Paired(held)
              => /\ Even(Answer(flag, held, ends).ack_seq - 1)
                 /\ 1..Answer(flag, held, ends).ack_seq - 1 \subseteq held
         /\ Missing(held) \in ends
              => /\ Answer(flag, held, ends).ack_seq - 1 \in ends
                 /\ 1..Answer(flag, held, ends).ack_seq - 2 \subseteq held
<1>. DEFINE n == Missing(held)
            a == Answer(flag, held, ends)
<1>1. n \in 1..Last + 2 /\ 1..n - 1 \subseteq held /\ Last \in Nat
  BY MissingBounds, LastIs
<1>2. Paired(held) => Even(n - 1)
  BY MissingIsWhole
<1>3. a.ack_seq = IF n \in ends THEN n + 1 ELSE n
  BY DEF Answer, RcvNxt
<1>4. a = [flag |-> flag, seq |-> snd_nxt, ack_seq |-> a.ack_seq, mine |-> TRUE]
  BY DEF Answer
<1>. HIDE DEF n, a
<1>5. a.ack_seq \in 0..Last + 3
  BY <1>1, <1>3
<1>6. a \in ToClient
  <2>1. [flag |-> flag, seq |-> snd_nxt, ack_seq |-> a.ack_seq, mine |-> TRUE] \in ToClient
    BY <1>5 DEF ToClient
  <2>. QED
    BY <1>4, <2>1
<1>7. n \notin ends /\ Paired(held)
        => Even(a.ack_seq - 1) /\ 1..a.ack_seq - 1 \subseteq held
  BY <1>1, <1>2, <1>3
<1>8. n \in ends => a.ack_seq - 1 = n /\ a.ack_seq - 2 = n - 1
  BY <1>1, <1>3
<1>9. n \in ends => a.ack_seq - 1 \in ends /\ 1..a.ack_seq - 2 \subseteq held
  BY <1>1, <1>8
<1>. QED
  BY <1>6, <1>7, <1>9 DEF n, a

(* The types a server's step starts from.                                  *)
LEMMA ServerTypes ==
  ASSUME IndInv
  PROVE  /\ srv \in {"listen", "synrcvd", "established", "close_wait",
                     "last_ack", "closed"}
         /\ got \subseteq 1..Last + 1 /\ fins \subseteq 1..Last + 1
         /\ snd_nxt \in 0..Replies + 2 /\ toClient \subseteq ToClient
         /\ srv \in {"synrcvd", "established", "close_wait"} => snd_nxt \in 1..Replies + 1
         /\ Last \in Nat /\ Replies \in Nat
BY LastIs, BoundAssumption DEF IndInv, TypeOK, ServerNumbers

(* Steps that leave alone what the kernel holds.                           *)
LEMMA NumbersKept ==
  ASSUME IndInv, UNCHANGED <<ClientSide, got, fins>>,
         srv' \in Open => srv \in Open,
         srv' \in {"close_wait", "last_ack"} => srv \in {"close_wait", "last_ack"},
         srv' \in {"synrcvd", "established", "close_wait"} => snd_nxt' \in 1..Replies + 1
  PROVE  ServerNumbers'
<1>1. pc' = pc /\ seq' = seq /\ sent' = sent /\ got' = got /\ fins' = fins
  BY DEF ClientSide, client, threads
<1>2. Missing(got') = Missing(got) /\ (Paired(got) => Paired(got'))
  BY <1>1
<1>. QED
  BY <1>1, <1>2 DEF IndInv, ServerNumbers

LEMMA ServerSynPreserves == ASSUME IndInv, ServerSyn PROVE IndInv'
<1>. DEFINE m == [flag |-> "syn", seq |-> 0, ack_seq |-> 1, mine |-> TRUE]
<1>1. m \in ToClient
  BY ServerTypes DEF ToClient, Flags
<1>2. Told(m.ack_seq)'
  <2>1. Even(1 - 1)
    BY BoundAssumption DEF Even
  <2>. QED
    BY <2>1 DEF Told
<1>3. toClient' = toClient \cup {m}
  BY DEF ServerSyn
<1>. HIDE DEF m
<1>4. /\ srv \in {"listen", "synrcvd"}
      /\ srv' = "synrcvd" /\ snd_nxt' = 1 /\ got' = got /\ fins' = fins
      /\ UNCHANGED ClientSide
  BY DEF ServerSyn, ClientSide
<1>5. snd_nxt' \in 0..Replies + 2 /\ snd_nxt' \in 1..Replies + 1
  BY <1>4, ServerTypes
<1>6. ServerNumbers'
  BY <1>4, <1>5, NumbersKept DEF Open
<1>. QED
  BY <1>1, <1>2, <1>3, <1>4, <1>5, <1>6, ServerTypes, ServerPreserves DEF Open

LEMMA ServerOpenPreserves == ASSUME IndInv, ServerOpen PROVE IndInv'
<1>. DEFINE m == [flag |-> "rst", seq |-> 1, ack_seq |-> 0, mine |-> TRUE]
<1>1. m \in ToClient
  BY ServerTypes DEF ToClient, Flags
<1>2. Told(m.ack_seq)'
  BY DEF Told
<1>3. \/ toClient' = toClient \cup {m} /\ srv' = srv
      \/ toClient' = toClient /\ srv' = "established"
  BY DEF ServerOpen
<1>. HIDE DEF m
<1>4. /\ srv = "synrcvd" /\ snd_nxt' = snd_nxt /\ got' = got /\ fins' = fins
      /\ UNCHANGED ClientSide
  BY DEF ServerOpen, ClientSide
<1>5. ServerNumbers'
  BY <1>3, <1>4, ServerTypes, NumbersKept DEF Open
<1>. QED
  BY <1>1, <1>2, <1>3, <1>4, <1>5, ServerTypes, ServerPreserves DEF Open

(* Data added by whole segments leaves whole segments.                     *)
LEMMA PairedGrows ==
  ASSUME NEW held, Paired(held), NEW n \in 1..Last, Even(n - 1)
  PROVE  Paired(held \cup (n..n + 1))
<1>1. PICK j \in 0..Segments : n - 1 = 2 * j
  BY DEF Even
<1>2. Last = 2 * Segments /\ Segments \in Nat
  BY LastIs, BoundAssumption
<1>. DEFINE k == j + 1
<1>3. k \in 1..Segments /\ n = 2 * k - 1 /\ n + 1 = 2 * k
  BY <1>1, <1>2
<1>. HIDE DEF k
<1>4. n..n + 1 = {2 * k - 1, 2 * k}
  BY <1>3
<1>. QED
  BY <1>3, <1>4 DEF Paired

LEMMA ServerTakePreserves == ASSUME IndInv, ServerTake PROVE IndInv'
<1>1. PICK m \in toServer :
        /\ m.flag \in {"data", "fin"} /\ m.seq >= 1
        /\ IF srv = "established"
             THEN /\ got' = got \cup Span(m)
                  /\ fins' = IF m.flag = "fin" THEN fins \cup ({m.seq} \ got)
                                               ELSE fins \ Span(m)
             ELSE UNCHANGED <<got, fins>>
  BY DEF ServerTake
<1>2. /\ srv \in {"established", "close_wait", "last_ack"}
      /\ srv' = IF srv = "established" /\ Missing(got') \in fins'
                  THEN "close_wait" ELSE srv
      /\ snd_nxt' = snd_nxt /\ UNCHANGED ClientSide
  BY DEF ServerTake, ClientSide
<1>3. /\ pc' = pc /\ seq' = seq /\ sent' = sent
  BY <1>2 DEF ClientSide, client, threads
<1>4. /\ m.seq \in Nat
      /\ m.flag = "data" => /\ m.seq \in 1..Last
                            /\ seq < 2 => Even(m.seq - 1)
      /\ m.flag = "fin" => m.seq > sent /\ m.seq <= Last + 1 /\ pc \notin Early
  <2>1. m.seq \in Nat
    BY LastIs DEF IndInv, TypeOK, ToServer
  <2>. QED
    BY <1>1, <2>1 DEF IndInv, Sent
<1>5. Span(m) = IF m.flag = "data" THEN m.seq..m.seq + 1 ELSE {}
  BY <1>4 DEF Span, DataLength
<1>6. /\ got \subseteq got' /\ got' \subseteq 1..Last + 1
      /\ fins' \subseteq 1..Last + 1
      /\ srv # "established" => got' = got /\ fins' = fins
  BY <1>1, <1>4, <1>5, ServerTypes
<1>7. seq < 2 => Paired(got')
  <2>1. SUFFICES ASSUME seq < 2 PROVE Paired(got')
    OBVIOUS
  <2>2. Paired(got)
    BY <2>1 DEF IndInv, ServerNumbers
  <2>3. CASE srv = "established" /\ m.flag = "data"
    <3>1. got' = got \cup (m.seq..m.seq + 1)
      BY <1>1, <1>5, <2>3
    <3>2. m.seq \in 1..Last /\ Even(m.seq - 1)
      BY <1>4, <2>1, <2>3
    <3>. DEFINE n == m.seq
    <3>. HIDE DEF n
    <3>3. Paired(got \cup (n..n + 1))
      BY <2>2, <3>2, PairedGrows DEF n
    <3>. QED
      BY <3>1, <3>3 DEF n
  <2>4. CASE ~ (srv = "established" /\ m.flag = "data")
    <3>1. got' = got
      BY <1>1, <1>5, <2>4
    <3>. QED
      BY <2>2, <3>1
  <2>. QED
    BY <2>3, <2>4
<1>8. (\A f \in fins' : f > sent) /\ (pc \in Early => fins' = {})
  BY <1>1, <1>4, <1>5 DEF IndInv, ServerNumbers
<1>9. /\ srv' \in Open => Missing(got') \notin fins'
      /\ srv' \notin Open => Missing(got') \in fins'
  <2>1. CASE srv = "established"
    BY <1>2, <2>1 DEF Open
  <2>2. CASE srv # "established"
    BY <1>2, <1>6, <2>2 DEF IndInv, ServerNumbers, Open
  <2>. QED
    BY <2>1, <2>2
<1>10. ServerNumbers'
  BY <1>2, <1>3, <1>6, <1>7, <1>8, <1>9, ServerTypes DEF ServerNumbers, Open
<1>. PICK a : a = Answer("ack", got', fins')
  OBVIOUS
<1>11. toClient' = toClient \cup {a}
  BY DEF ServerTake
<1>12. /\ a \in ToClient
       /\ Missing(got') \notin fins' /\ Paired(got')
            => Even(a.ack_seq - 1) /\ 1..a.ack_seq - 1 \subseteq got'
       /\ Missing(got') \in fins'
            => a.ack_seq - 1 \in fins' /\ 1..a.ack_seq - 2 \subseteq got'
  BY <1>6, ServerTypes, AnswerTrue DEF Flags
<1>13. srv' # "listen" /\ (seq < 2 => Told(a.ack_seq)')
  BY <1>2, <1>7, <1>9, <1>12 DEF Told
<1>. QED
  BY <1>2, <1>6, <1>10, <1>11, <1>12, <1>13, ServerTypes, ServerPreserves DEF Open

(* The steps that say something and take a number, or end the connection.  *)
LEMMA ServerSaysPreserves ==
  ASSUME IndInv, ServerSend \/ ServerClose \/ ServerReset PROVE IndInv'
<1>1. PICK flag \in Flags : toClient' = toClient \cup {Answer(flag, got, fins)}
  BY DEF ServerSend, ServerClose, ServerReset, Flags
<1>. PICK a : a = Answer(flag, got, fins)
  OBVIOUS
<1>2. /\ a \in ToClient
      /\ Missing(got) \notin fins /\ Paired(got)
           => Even(a.ack_seq - 1) /\ 1..a.ack_seq - 1 \subseteq got
      /\ Missing(got) \in fins
           => a.ack_seq - 1 \in fins /\ 1..a.ack_seq - 2 \subseteq got
  BY ServerTypes, AnswerTrue
<1>3. toClient' = toClient \cup {a}
  BY <1>1
<1>4. /\ srv \in {"established", "close_wait"} /\ got' = got /\ fins' = fins
      /\ UNCHANGED ClientSide
  BY DEF ServerSend, ServerClose, ServerReset, ClientSide
<1>5. /\ srv' \in {"established", "close_wait", "last_ack", "closed"}
      /\ srv' \in {srv, "closed"} \/ srv = "close_wait"
      /\ srv' = "established" => srv = "established"
      /\ srv' \in {"close_wait", "last_ack"} => srv = "close_wait"
      /\ snd_nxt' \in 0..Replies + 2
      /\ srv' \in {"synrcvd", "established", "close_wait"} => snd_nxt' \in 1..Replies + 1
  <2>1. CASE ServerSend
    BY <1>4, <2>1, ServerTypes DEF ServerSend
  <2>2. CASE ServerClose
    BY <1>4, <2>2, ServerTypes DEF ServerClose
  <2>3. CASE ServerReset
    BY <1>4, <2>3, ServerTypes DEF ServerReset
  <2>. QED
    BY <2>1, <2>2, <2>3
<1>6. ServerNumbers'
  BY <1>4, <1>5, NumbersKept DEF Open
<1>7. srv' # "listen" /\ (seq < 2 => Told(a.ack_seq)')
  <2>1. /\ seq < 2 => Paired(got)
        /\ srv \in Open => Missing(got) \notin fins
        /\ srv \notin Open => Missing(got) \in fins
    BY <1>4 DEF IndInv, ServerNumbers, Open
  <2>2. srv \notin Open => srv' \notin Open
    BY <1>4, <1>5 DEF Open
  <2>. QED
    BY <1>2, <1>4, <1>5, <2>1, <2>2 DEF Told
<1>8. srv \notin Open => srv' \notin Open
  BY <1>4, <1>5 DEF Open
<1>. QED
  BY <1>2, <1>3, <1>4, <1>5, <1>6, <1>7, <1>8, ServerTypes, ServerPreserves

LEMMA ServerClosedPreserves == ASSUME IndInv, ServerClosed PROVE IndInv'
<1>1. /\ srv = "last_ack" /\ srv' = "closed" /\ snd_nxt' = snd_nxt
      /\ got' = got /\ fins' = fins
      /\ toClient' = toClient /\ UNCHANGED ClientSide
  BY DEF ServerClosed, ClientSide
<1>2. ServerNumbers'
  BY <1>1, NumbersKept DEF Open
<1>. QED
  BY <1>1, <1>2, ServerTypes, ServerPreserves DEF Open

-----------------------------------------------------------------------------
(* The client's steps.                                                     *)

LEMMA ClientTypes ==
  ASSUME IndInv
  PROVE  /\ s_state \in {"TCP_CLOSED", "TCP_SYN_SEND", "TCP_ESTABLISHED",
                         "TCP_FIN_WAIT1", "TCP_FIN_WAIT2", "TCP_CLOSE_WAIT",
                         "TCP_CLOSING"}
         /\ pc \in {"start", "handshake", "transfer", "waving", "returned", "aborted"}
         /\ seq \in 0..2 /\ CLIENT_SUM_SEND \in 0..Last /\ sent \in 0..Last
         /\ loops \in {"none", "running", "sending"}
         /\ server_ack_seq \in 0..Replies + OptionLength + 2
         /\ toServer \subseteq ToServer
         /\ \A m \in toClient : m.seq \in 0..Replies + 2 /\ m.ack_seq \in 0..Last + 3
         /\ Last \in Nat /\ Replies \in Nat
BY LastIs, BoundAssumption DEF IndInv, TypeOK, ToClient

(* A segment the client sends has the types of the fields it fills in.     *)
LEMMA SegmentTyped ==
  ASSUME NEW flag \in {"syn", "ack", "data", "fin"}, NEW n \in 0..Last + 2,
         NEW k \in 0..Replies + OptionLength + 2
  PROVE  [flag |-> flag, seq |-> n, ack_seq |-> k] \in ToServer
BY DEF ToServer

LEMMA SegmentIs ==
  ASSUME IndInv, NEW flag \in {"syn", "ack", "data", "fin"}
  PROVE  /\ Segment(flag) \in ToServer
         /\ Segment(flag).flag = flag
         /\ Segment(flag).seq = seq + CLIENT_SUM_SEND
<1>1. seq + CLIENT_SUM_SEND \in 0..Last + 2
  BY ClientTypes
<1>2. server_ack_seq \in 0..Replies + OptionLength + 2
  BY ClientTypes
<1>. QED
  BY <1>1, <1>2, SegmentTyped DEF Segment

(* What the server says and holds is as it was.                            *)
LEMMA ClientPreserves ==
  ASSUME IndInv, UNCHANGED <<toClient, server>>,
         s_state' \in {"TCP_CLOSED", "TCP_SYN_SEND", "TCP_ESTABLISHED",
                       "TCP_FIN_WAIT1", "TCP_FIN_WAIT2", "TCP_CLOSE_WAIT",
                       "TCP_CLOSING"},
         pc' \in {"start", "handshake", "transfer", "waving", "returned", "aborted"},
         pc' \in Early => pc \in Early,
         seq' \in 0..2, seq <= seq', CLIENT_SUM_SEND' \in 0..Last,
         loops' \in {"none", "running", "sending"}, sent' \in 0..Last,
         pc \in Early \/ sent' = sent,
         server_ack_seq' \in 0..Replies + OptionLength + 2,
         toServer' \subseteq ToServer,
         Position', Sent', EstablishedWasAnswered'
  PROVE  IndInv'
<1>1. /\ toClient' = toClient /\ srv' = srv /\ got' = got /\ fins' = fins
      /\ snd_nxt' = snd_nxt
  BY DEF server
<1>2. TypeOK'
  BY <1>1 DEF IndInv, TypeOK
<1>3. seq' < 2 => seq < 2
  BY ClientTypes
<1>4. Answers'
  BY <1>1, <1>3 DEF IndInv, Answers, Told
<1>5. /\ \A f \in fins' : f > sent'
      /\ pc' \in Early => fins' = {}
  BY <1>1 DEF IndInv, ServerNumbers
<1>6. Missing(got') = Missing(got) /\ (Paired(got) => Paired(got'))
  BY <1>1
<1>7. ServerNumbers'
  BY <1>1, <1>3, <1>5, <1>6 DEF IndInv, ServerNumbers
<1>. QED
  BY <1>2, <1>4, <1>7 DEF IndInv

(* An acknowledgement within the numbers of this connection is not an old  *)
(* one, so what it says of the server holds.                               *)
LEMMA Believed ==
  ASSUME IndInv, NEW m \in toClient, m.mine, m.ack_seq \in 1..Last + 2
  PROVE  srv # "listen" /\ (seq < 2 => Told(m.ack_seq))
<1>1. m \notin Others
  BY OldAssumption
<1>. QED
  BY <1>1 DEF IndInv, Answers

LEMMA SendSynPreserves == ASSUME IndInv, SendSyn PROVE IndInv'
<1>. DEFINE d == Segment("syn")
<1>1. /\ toServer' = toServer \cup {d}
      /\ s_state' = "TCP_SYN_SEND" /\ pc' \in {"handshake", "returned"}
      /\ seq' = seq /\ CLIENT_SUM_SEND' = CLIENT_SUM_SEND
      /\ loops' = loops /\ sent' = sent
      /\ server_ack_seq' = server_ack_seq /\ UNCHANGED <<toClient, server>>
      /\ pc = "start"
  BY DEF SendSyn, threads
<1>2. d \in ToServer /\ d.flag = "syn"
  BY SegmentIs
<1>. HIDE DEF d
<1>3. Sent'
  BY <1>1, <1>2 DEF IndInv, Sent, Early
<1>4. Position' /\ EstablishedWasAnswered'
  BY <1>1 DEF IndInv, Position, EstablishedWasAnswered
<1>5. seq <= seq'
  BY <1>1, ClientTypes
<1>. QED
  BY <1>1, <1>2, <1>3, <1>4, <1>5, ClientTypes, ClientPreserves DEF Early

LEMMA HandshakeFinPreserves == ASSUME IndInv, HandshakeFin PROVE IndInv'
<1>. DEFINE d == Segment("fin")
<1>1. /\ toServer' = toServer \cup {d}
      /\ s_state' = "TCP_FIN_WAIT1" /\ pc' = "returned"
      /\ seq' = seq /\ CLIENT_SUM_SEND' = CLIENT_SUM_SEND
      /\ loops' = loops /\ sent' = sent
      /\ server_ack_seq' = server_ack_seq /\ UNCHANGED <<toClient, server>>
      /\ pc = "handshake"
  BY DEF HandshakeFin, threads
<1>2. seq = 0 /\ CLIENT_SUM_SEND = 0
  BY <1>1 DEF IndInv, Position
<1>3. d \in ToServer /\ d.flag = "fin" /\ d.seq = 0
  BY <1>2, SegmentIs
<1>. HIDE DEF d
<1>4. Sent'
  BY <1>1, <1>3, ClientTypes DEF IndInv, Sent, Early
<1>5. Position' /\ EstablishedWasAnswered'
  BY <1>1 DEF IndInv, Position, EstablishedWasAnswered
<1>6. seq <= seq'
  BY <1>1, ClientTypes
<1>. QED
  BY <1>1, <1>3, <1>4, <1>5, <1>6, ClientTypes, ClientPreserves DEF Early

LEMMA HandshakeAnswerPreserves == ASSUME IndInv, HandshakeAnswer PROVE IndInv'
<1>1. seq = 0 /\ CLIENT_SUM_SEND = 0 /\ loops = "none" /\ pc = "handshake"
  BY DEF IndInv, Position, HandshakeAnswer
<1>2. CLIENT_SUM_SEND' = CLIENT_SUM_SEND /\ sent' = sent /\ UNCHANGED <<toClient, server>>
  BY DEF HandshakeAnswer
<1>3. PICK m \in toClient :
        /\ m.mine
        /\ IF AcksSyn(m)
             THEN /\ seq' = seq + 1 /\ server_ack_seq' = m.seq + 1
                  /\ toServer' = toServer \cup
                       {[flag |-> "ack", seq |-> seq' + CLIENT_SUM_SEND,
                         ack_seq |-> server_ack_seq']}
                  /\ s_state' = "TCP_ESTABLISHED" /\ pc' = "transfer"
                  /\ loops' = "running"
             ELSE /\ pc' = "returned"
                  /\ UNCHANGED <<s_state, seq, server_ack_seq, loops, toServer>>
  BY DEF HandshakeAnswer
<1>4. CASE AcksSyn(m)
  <2>1. m.ack_seq = 1
    BY <1>1, <1>4 DEF AcksSyn
  <2>2. srv # "listen"
    BY <1>3, <2>1, Believed, ClientTypes
  <2>. DEFINE a == [flag |-> "ack", seq |-> seq' + CLIENT_SUM_SEND,
                    ack_seq |-> server_ack_seq']
  <2>3. /\ seq' = 1 /\ server_ack_seq' = m.seq + 1
        /\ toServer' = toServer \cup {a} /\ loops' = "running"
        /\ s_state' = "TCP_ESTABLISHED" /\ pc' = "transfer"
    BY <1>1, <1>3, <1>4
  <2>4. server_ack_seq' \in 0..Replies + OptionLength + 2
    BY <2>3, ClientTypes DEF OptionLength
  <2>5. a \in ToServer
    <3>1. seq' + CLIENT_SUM_SEND \in 0..Last + 2
      BY <1>1, <2>3, ClientTypes
    <3>. QED
      BY <2>4, <3>1, SegmentTyped
  <2>6. a.flag = "ack"
    OBVIOUS
  <2>. HIDE DEF a
  <2>7. Sent'
    BY <1>1, <1>2, <2>3, <2>6 DEF IndInv, Sent, Early
  <2>8. Position' /\ EstablishedWasAnswered'
    BY <1>1, <1>2, <2>2, <2>3
       DEF IndInv, Position, EstablishedWasAnswered, server
  <2>9. seq <= seq'
    BY <1>1, <2>3
  <2>. QED
    BY <1>1, <1>2, <2>3, <2>4, <2>5, <2>7, <2>8, <2>9, ClientTypes, ClientPreserves
       DEF Early
<1>5. CASE ~ AcksSyn(m)
  <2>1. /\ pc' = "returned" /\ s_state' = s_state /\ seq' = seq
        /\ server_ack_seq' = server_ack_seq /\ loops' = loops /\ toServer' = toServer
    BY <1>3, <1>5
  <2>2. Sent'
    BY <1>1, <1>2, <2>1 DEF IndInv, Sent, Early
  <2>3. Position' /\ EstablishedWasAnswered'
    BY <1>1, <1>2, <2>1
       DEF IndInv, Position, EstablishedWasAnswered, server
  <2>4. seq <= seq'
    BY <1>1, <2>1
  <2>. QED
    BY <1>2, <2>1, <2>2, <2>3, <2>4, ClientTypes, ClientPreserves DEF Early
<1>. QED
  BY <1>4, <1>5

(* Steps that only leave a phase, or end the threads.                      *)
LEMMA LeavePreserves ==
  ASSUME IndInv, HandshakeTimeout \/ EndLoops \/ EndTransfer \/ Finish PROVE IndInv'
<1>1. /\ UNCHANGED <<s_state, seq, CLIENT_SUM_SEND, server_ack_seq, toServer,
                     toClient, server>>
      /\ pc \in {"handshake", "transfer", "waving", "returned"}
      /\ pc' = pc \/ pc' \in {"waving", "returned"}
      /\ pc' = "waving" => pc \in {"transfer", "waving"}
      /\ pc' \in Early => pc \in Early
      /\ loops' = loops \/ loops' = "none"
      /\ sent' = sent \/ (pc = "transfer" /\ sent' = CLIENT_SUM_SEND)
  BY DEF HandshakeTimeout, EndLoops, stopFlag, EndTransfer, Finish, threads, Early
<1>2. Position'
  BY <1>1, ClientTypes DEF IndInv, Position
<1>3. Sent'
  <2>1. pc = "transfer" => \A m \in toServer : m.flag # "fin"
    BY DEF IndInv, Sent, Early
  <2>. QED
    BY <1>1, <2>1 DEF IndInv, Sent
<1>4. EstablishedWasAnswered'
  BY <1>1 DEF IndInv, EstablishedWasAnswered, server
<1>5. seq <= seq'
  BY <1>1, ClientTypes
<1>6. pc \in Early \/ sent' = sent
  BY <1>1 DEF Early
<1>. QED
  BY <1>1, <1>2, <1>3, <1>4, <1>5, <1>6, ClientTypes, ClientPreserves

LEMMA OutputPreserves == ASSUME IndInv, Output PROVE IndInv'
<1>. DEFINE d == Segment("data")
<1>1. /\ loops = "running" /\ CLIENT_SUM_SEND < Last
      /\ toServer' = toServer \cup {d} /\ loops' = "sending"
      /\ UNCHANGED <<s_state, pc, seq, CLIENT_SUM_SEND, server_ack_seq, sent,
                     toClient, server>>
  BY DEF Output
<1>2. d \in ToServer /\ d.flag = "data" /\ d.seq = seq + CLIENT_SUM_SEND
  BY SegmentIs
<1>. HIDE DEF d
<1>3. PICK k \in 0..Segments : CLIENT_SUM_SEND = 2 * k
  BY DEF IndInv, Position, Even
<1>4. seq \in 1..2
  BY <1>1, ClientTypes DEF IndInv, Position
<1>5. d.seq \in 1..Last
  BY <1>1, <1>2, <1>3, <1>4, LastIs, BoundAssumption
<1>6. seq < 2 => Even(d.seq - 1)
  <2>1. seq < 2 => d.seq - 1 = 2 * k
    BY <1>2, <1>3, <1>4
  <2>. QED
    BY <2>1 DEF Even
<1>7. Sent'
  <2>1. ASSUME NEW m \in toServer'
        PROVE  /\ m.flag = "data" => /\ m.seq \in 1..Last
                                     /\ seq' < 2 => Even(m.seq - 1)
               /\ m.flag = "fin" => /\ m.seq = 0 \/ m.seq > sent'
                                    /\ m.seq <= Last + 1 /\ pc' \notin Early
    <3>1. CASE m \in toServer
      BY <1>1, <3>1 DEF IndInv, Sent
    <3>2. CASE m = d
      BY <1>1, <1>2, <1>5, <1>6, <3>2
    <3>. QED
      BY <1>1, <2>1, <3>1, <3>2
  <2>. QED
    BY <2>1 DEF Sent
<1>8. Position' /\ EstablishedWasAnswered'
  BY <1>1, <1>4 DEF IndInv, Position, EstablishedWasAnswered, server
<1>9. seq <= seq'
  BY <1>1, ClientTypes
<1>. QED
  BY <1>1, <1>2, <1>7, <1>8, <1>9, ClientTypes, ClientPreserves

LEMMA OutputCountedPreserves == ASSUME IndInv, OutputCounted PROVE IndInv'
<1>1. /\ loops = "sending" /\ loops' = "running"
      /\ CLIENT_SUM_SEND' = CLIENT_SUM_SEND + 2
      /\ UNCHANGED <<s_state, pc, seq, server_ack_seq, sent, toServer, toClient,
                     server>>
  BY DEF OutputCounted, DataLength
<1>2. PICK k \in 0..Segments : CLIENT_SUM_SEND = 2 * k
  BY DEF IndInv, Position, Even
<1>3. CLIENT_SUM_SEND < Last /\ seq # 0 /\ sent <= CLIENT_SUM_SEND
  BY <1>1 DEF IndInv, Position
<1>. DEFINE j == k + 1
<1>4. j \in 0..Segments /\ CLIENT_SUM_SEND' = 2 * j /\ CLIENT_SUM_SEND' \in 0..Last
  BY <1>1, <1>2, <1>3, LastIs, BoundAssumption
<1>5. sent' <= CLIENT_SUM_SEND'
  BY <1>1, <1>3, ClientTypes
<1>. HIDE DEF j
<1>6. Even(CLIENT_SUM_SEND')
  BY <1>4 DEF Even
<1>7. Position'
  BY <1>1, <1>3, <1>5, <1>6 DEF IndInv, Position, Even
<1>8. Sent' /\ EstablishedWasAnswered'
  BY <1>1 DEF IndInv, Sent, EstablishedWasAnswered, server
<1>9. seq <= seq'
  BY <1>1, ClientTypes
<1>. QED
  BY <1>1, <1>4, <1>7, <1>8, <1>9, ClientTypes, ClientPreserves

LEMMA ReceivePreserves == ASSUME IndInv, Receive PROVE IndInv'
<1>1. PICK m \in toClient : server_ack_seq' = m.seq + Length(m)
  BY DEF Receive
<1>2. Length(m) \in 0..2
  BY DEF Length, OptionLength
<1>3. server_ack_seq' \in 0..Replies + OptionLength + 2
  BY <1>1, <1>2, ClientTypes DEF OptionLength
<1>4. /\ UNCHANGED <<s_state, pc, seq, CLIENT_SUM_SEND, toServer, toClient, server>>
      /\ loops' = loops /\ sent' = sent
  BY DEF Receive, threads
<1>5. Position' /\ Sent' /\ EstablishedWasAnswered'
  BY <1>4 DEF IndInv, Position, Sent, EstablishedWasAnswered, server
<1>6. seq <= seq'
  BY <1>4, ClientTypes
<1>. QED
  BY <1>3, <1>4, <1>5, <1>6, ClientTypes, ClientPreserves

LEMMA WavingSendFinPreserves == ASSUME IndInv, WavingSendFin PROVE IndInv'
<1>. DEFINE d == Segment("fin")
<1>1. /\ pc = "waving" /\ s_state = "TCP_ESTABLISHED"
      /\ toServer' = toServer \cup {d}
      /\ s_state' = "TCP_FIN_WAIT1"
      /\ UNCHANGED <<pc, seq, CLIENT_SUM_SEND, server_ack_seq, toClient, server>>
      /\ loops' = loops /\ sent' = sent
  BY DEF WavingSendFin, threads
<1>2. seq = 1 /\ sent <= CLIENT_SUM_SEND
  BY <1>1 DEF IndInv, Position
<1>3. d \in ToServer /\ d.flag = "fin" /\ d.seq = 1 + CLIENT_SUM_SEND
  BY <1>2, SegmentIs
<1>. HIDE DEF d
<1>4. d.seq > sent /\ d.seq <= Last + 1
  BY <1>2, <1>3, ClientTypes
<1>5. Sent'
  BY <1>1, <1>3, <1>4 DEF IndInv, Sent, Early
<1>6. Position' /\ EstablishedWasAnswered'
  BY <1>1, <1>2 DEF IndInv, Position, EstablishedWasAnswered, server
<1>7. seq <= seq'
  BY <1>1, ClientTypes
<1>. QED
  BY <1>1, <1>3, <1>5, <1>6, <1>7, ClientTypes, ClientPreserves

(* Beyond CLIENT_SUM_SEND whole segments end at no odd number: what        *)
(* acknowledges the FIN's number does so because the FIN came.             *)
LEMMA AckedFin ==
  ASSUME IndInv, seq = 1, NEW m \in toClient, AcksFin(m)
  PROVE  1..CLIENT_SUM_SEND \subseteq got /\ CLIENT_SUM_SEND + 1 \in fins
<1>1. CLIENT_SUM_SEND \in 0..Last /\ Last \in Nat
  BY ClientTypes
<1>2. m.mine /\ m.ack_seq = CLIENT_SUM_SEND + 2
  BY <1>1 DEF AcksFin
<1>3. m.ack_seq \in 1..Last + 2 /\ m.ack_seq # 0
  BY <1>1, <1>2
<1>4. Told(m.ack_seq)
  BY <1>2, <1>3, Believed
<1>5. ~ Even(m.ack_seq - 1)
  <2>1. SUFFICES ASSUME NEW j \in 0..Segments, m.ack_seq - 1 = 2 * j PROVE FALSE
    BY DEF Even
  <2>2. PICK k \in 0..Segments : CLIENT_SUM_SEND = 2 * k
    BY DEF IndInv, Position, Even
  <2>3. 2 * k + 1 = 2 * j
    BY <1>2, <2>1, <2>2
  <2>. QED
    BY <2>3
<1>6. m.ack_seq - 1 \in fins /\ 1..m.ack_seq - 2 \subseteq got
  BY <1>3, <1>4, <1>5 DEF Told
<1>7. m.ack_seq - 1 = CLIENT_SUM_SEND + 1 /\ m.ack_seq - 2 = CLIENT_SUM_SEND
  BY <1>1, <1>2
<1>. QED
  BY <1>6, <1>7

LEMMA WavingRecvAckPreserves == ASSUME IndInv, WavingRecvAck PROVE IndInv'
<1>1. /\ pc = "waving" /\ s_state = "TCP_FIN_WAIT1"
      /\ UNCHANGED <<pc, CLIENT_SUM_SEND, toServer, toClient, server>>
      /\ loops' = loops /\ sent' = sent
  BY DEF WavingRecvAck, threads
<1>2. seq = 1
  BY <1>1 DEF IndInv, Position
<1>3. PICK m \in toClient :
       \/ /\ s_state' = "TCP_CLOSING"
          /\ UNCHANGED <<seq, server_ack_seq>>
       \/ /\ m.flag = "fin"
          /\ s_state' = "TCP_CLOSE_WAIT"
          /\ seq' = Counted(m) /\ server_ack_seq' = m.seq + 1
       \/ /\ m.flag \notin {"rst", "fin"}
          /\ s_state' = "TCP_FIN_WAIT2"
          /\ seq' = Counted(m) /\ UNCHANGED server_ack_seq
       \/ /\ s_state' = "TCP_ESTABLISHED"
          /\ UNCHANGED <<seq, server_ack_seq>>
  BY DEF WavingRecvAck
<1>4. seq' \in 1..2 /\ (s_state' # "TCP_CLOSE_WAIT" => seq' = 1)
  BY <1>2, <1>3 DEF Counted
<1>5. server_ack_seq' \in 0..Replies + OptionLength + 2
  BY <1>3, ClientTypes DEF OptionLength
<1>6. Position' /\ Sent'
  BY <1>1, <1>2, <1>4 DEF IndInv, Position, Sent
<1>7. EstablishedWasAnswered'
  BY <1>1, <1>4 DEF IndInv, EstablishedWasAnswered, server
<1>8. seq <= seq'
  BY <1>2, <1>4
<1>. QED
  BY <1>1, <1>3, <1>4, <1>5, <1>6, <1>7, <1>8, ClientTypes, ClientPreserves

LEMMA WavingRecvFinPreserves == ASSUME IndInv, WavingRecvFin PROVE IndInv'
<1>1. /\ pc = "waving" /\ s_state = "TCP_FIN_WAIT2"
      /\ UNCHANGED <<CLIENT_SUM_SEND, toServer, toClient, server>>
      /\ loops' = loops /\ sent' = sent
  BY DEF WavingRecvFin, threads
<1>2. seq = 1
  BY <1>1 DEF IndInv, Position
<1>3. PICK m \in toClient :
       \/ /\ s_state' = "TCP_CLOSING"
          /\ UNCHANGED <<pc, seq, server_ack_seq>>
       \/ /\ s_state' = "TCP_CLOSE_WAIT"
          /\ seq' = Counted(m) /\ server_ack_seq' = m.seq + 1
          /\ UNCHANGED pc
       \/ /\ pc' = "aborted"
          /\ UNCHANGED <<s_state, seq, server_ack_seq>>
       \/ /\ s_state' = "TCP_ESTABLISHED"
          /\ UNCHANGED <<pc, seq, server_ack_seq>>
  BY DEF WavingRecvFin
<1>4. seq' \in 1..2 /\ (s_state' # "TCP_CLOSE_WAIT" => seq' = 1)
  BY <1>2, <1>3 DEF Counted
<1>5. server_ack_seq' \in 0..Replies + OptionLength + 2
  BY <1>3, ClientTypes DEF OptionLength
<1>6. pc' \in {"waving", "aborted"} /\ pc \notin Early /\ pc' \notin Early
  BY <1>1, <1>3 DEF Early
<1>7. Position' /\ Sent'
  BY <1>1, <1>2, <1>4, <1>6 DEF IndInv, Position, Sent
<1>8. EstablishedWasAnswered'
  BY <1>1, <1>4, <1>6 DEF IndInv, EstablishedWasAnswered, server
<1>9. seq <= seq'
  BY <1>2, <1>4
<1>. QED
  BY <1>1, <1>3, <1>4, <1>5, <1>6, <1>7, <1>8, <1>9, ClientTypes, ClientPreserves

LEMMA WavingSendAckPreserves == ASSUME IndInv, WavingSendAck PROVE IndInv'
<1>. DEFINE d == Segment("ack")
<1>1. /\ pc = "waving" /\ s_state' = "TCP_CLOSING"
      /\ toServer' = toServer \cup {d}
      /\ UNCHANGED <<pc, seq, CLIENT_SUM_SEND, server_ack_seq, toClient, server>>
      /\ loops' = loops /\ sent' = sent
  BY DEF WavingSendAck, threads
<1>2. d \in ToServer /\ d.flag = "ack"
  BY SegmentIs
<1>. HIDE DEF d
<1>3. Position' /\ Sent'
  BY <1>1, <1>2 DEF IndInv, Position, Sent
<1>4. EstablishedWasAnswered'
  BY <1>1 DEF IndInv, EstablishedWasAnswered, server
<1>5. seq <= seq'
  BY <1>1, ClientTypes
<1>. QED
  BY <1>1, <1>2, <1>3, <1>4, <1>5, ClientTypes, ClientPreserves

LEMMA StutterPreserves == ASSUME IndInv, UNCHANGED vars PROVE IndInv'
<1>1. /\ UNCHANGED <<toClient, server>>
      /\ s_state' = s_state /\ pc' = pc /\ seq' = seq
      /\ CLIENT_SUM_SEND' = CLIENT_SUM_SEND /\ server_ack_seq' = server_ack_seq
      /\ loops' = loops /\ sent' = sent /\ toServer' = toServer
  BY DEF vars, client, threads
<1>2. Position' /\ Sent' /\ EstablishedWasAnswered'
  BY <1>1 DEF IndInv, Position, Sent, EstablishedWasAnswered, server
<1>3. seq <= seq'
  BY <1>1, ClientTypes
<1>. QED
  BY <1>1, <1>2, <1>3, ClientTypes, ClientPreserves

LEMMA NextPreserves == ASSUME IndInv, [Next]_vars PROVE IndInv'
<1>1. CASE Server
  BY <1>1, ServerSynPreserves, ServerOpenPreserves, ServerTakePreserves,
     ServerSaysPreserves, ServerClosedPreserves DEF Server
<1>2. CASE Client
  BY <1>2, SendSynPreserves, HandshakeFinPreserves, HandshakeAnswerPreserves,
     LeavePreserves, OutputPreserves, OutputCountedPreserves, ReceivePreserves,
     WavingSendFinPreserves, WavingRecvAckPreserves, WavingRecvFinPreserves,
     WavingSendAckPreserves
     DEF Client
<1>3. CASE UNCHANGED vars
  BY <1>3, StutterPreserves
<1>. QED
  BY <1>1, <1>2, <1>3 DEF Next

-----------------------------------------------------------------------------
(* The inductive invariant holds in every state.                           *)
THEOREM Invariance == Spec => []IndInv
<1>. QED
  BY InitEstablishes, NextPreserves, PTL DEF Spec

(* No number of either side leaves its range, whatever the raw socket      *)
(* receives.                                                               *)
THEOREM TypeCorrect == Spec => []TypeOK
<1>1. IndInv => TypeOK
  BY DEF IndInv
<1>. QED
  BY <1>1, Invariance, PTL

(* start_hand_shake takes no old segment for the answer to its SYN.        *)
THEOREM HandshakeAnswered == Spec => []EstablishedWasAnswered
<1>1. IndInv => EstablishedWasAnswered
  BY DEF IndInv
<1>. QED
  BY <1>1, Invariance, PTL

(* waving_recv_ack: when the FIN is seen to be acknowledged, the server's  *)
(* kernel has taken it behind every data segment counted so far, although  *)
(* none was ever repeated and client_loop may be sending.                  *)
THEOREM FinMeansDelivered == Spec => AckedFinMeansDelivered
<1>1. ASSUME IndInv, [Next]_vars, s_state = "TCP_FIN_WAIT1",
             s_state' \in {"TCP_FIN_WAIT2", "TCP_CLOSE_WAIT"}
      PROVE  1..CLIENT_SUM_SEND \subseteq got /\ CLIENT_SUM_SEND + 1 \in fins
  <2>1. WavingRecvAck
    BY <1>1 DEF Next, Server, Client, vars, client, ServerSyn, ServerOpen,
       ServerTake, ServerSend, ServerClose, ServerReset, ServerClosed, SendSyn,
       HandshakeFin, HandshakeAnswer, HandshakeTimeout, Output, OutputCounted,
       Receive, EndLoops, EndTransfer, WavingSendFin, WavingRecvFin,
       WavingSendAck, Finish
  <2>2. \E m \in toClient : AcksFin(m)
    BY <1>1, <2>1 DEF WavingRecvAck
  <2>3. seq = 1
    BY <1>1, <2>1 DEF WavingRecvAck, IndInv, Position
  <2>. QED
    BY <1>1, <2>2, <2>3, AckedFin
<1>2. IndInv /\ [Next]_vars
        => [s_state = "TCP_FIN_WAIT1" /\ s_state' \in {"TCP_FIN_WAIT2", "TCP_CLOSE_WAIT"}
              => 1..CLIENT_SUM_SEND \subseteq got /\ CLIENT_SUM_SEND + 1 \in fins]_vars
  BY <1>1
<1>. QED
  BY <1>2, Invariance, PTL DEF Spec, AckedFinMeansDelivered

(* Whatever FIN ends the stream, the server's kernel has all that was out  *)
(* when the client began to close.                                         *)
THEOREM EndIsComplete == Spec => []EndOfStreamIsComplete
<1>1. ASSUME IndInv, srv \in {"close_wait", "last_ack"}
      PROVE  1..sent \subseteq got
  <2>. DEFINE n == Missing(got)
  <2>1. n \in fins /\ n > sent
    BY <1>1 DEF IndInv, ServerNumbers
  <2>2. n \in 1..Last + 2 /\ 1..n - 1 \subseteq got
    BY <1>1, ServerTypes, MissingBounds
  <2>. HIDE DEF n
  <2>3. 1..sent \subseteq 1..n - 1
    BY <1>1, <2>1, <2>2, ClientTypes
  <2>. QED
    BY <2>2, <2>3
<1>2. IndInv => EndOfStreamIsComplete
  BY <1>1 DEF EndOfStreamIsComplete
<1>. QED
  BY <1>2, Invariance, PTL
=============================================================================
