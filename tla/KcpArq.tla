------------------------------- MODULE KcpArq -------------------------------
(***************************************************************************)
(* The automatic-repeat-request protocol of code/kcp/ikcp.cc: two KCP      *)
(* control blocks (ikcpcb) joined by a network that may lose, duplicate    *)
(* and reorder what ikcp_flush hands to its output callback.               *)
(*                                                                         *)
(* One action per entry point of the library: ikcp_send, ikcp_recv,        *)
(* ikcp_input (one action per command byte) and ikcp_flush.  A segment of  *)
(* the network is one 24-byte header with its data: a kernel TCP stream    *)
(* regroups the segments a flush packs together, so each travels alone.    *)
(*                                                                         *)
(* Time is abstract.  When the retransmission timer or the duplicate-ack   *)
(* count of a segment, or the window-probe timer, has run out is a free    *)
(* choice of Flush, and so is the congestion window where it is in force.  *)
(* Sequence numbers are unbounded here: the wrap of the 32-bit numbers is  *)
(* not modelled in this module.                                            *)
(***************************************************************************)
EXTENDS Integers, Sequences, FiniteSets, FiniteSetsExt

CONSTANTS
  Endpoint,       \* the two control blocks of a session
  Peer,           \* Peer[p]: the control block at the other end
  WND_RCV,        \* IKCP_WND_RCV: 128 in the code, small here
  SndWnd,         \* SndWnd[p]: the sndwnd argument of ikcp_wndsize
  RcvWndArg,      \* RcvWndArg[p]: its rcvwnd argument
  NoCwnd,         \* NoCwnd[p]: the nc argument of ikcp_nodelay
  Traffic,        \* bound: Traffic[p] chunks at most are sent by p
  BufferLen,      \* the buffers given to ikcp_recv, by the chunks they hold
  NetCap,         \* bound: segments the network holds at a time
  Duplicates      \* whether the network may deliver a segment twice

ASSUME EndpointAssumption ==
  /\ Peer \in [Endpoint -> Endpoint]
  /\ \A p \in Endpoint : Peer[p] # p /\ Peer[Peer[p]] = p

ASSUME WindowAssumption ==
  /\ WND_RCV \in Nat /\ WND_RCV > 1
  /\ SndWnd \in [Endpoint -> Nat \ {0}]
  /\ RcvWndArg \in [Endpoint -> Nat \ {0}]
  /\ NoCwnd \in [Endpoint -> BOOLEAN]

ASSUME ReaderAssumption == BufferLen \subseteq Nat

ASSUME BoundAssumption ==
  /\ Traffic \in [Endpoint -> Nat]
  /\ NetCap \in Nat
  /\ Duplicates \in BOOLEAN

VARIABLES
  snd_queue,  \* snd_queue[p]: chunks accepted and not yet numbered
  snd_buf,    \* snd_buf[p]: numbered segments not yet acknowledged
  snd_una,    \* snd_una[p]: the first unacknowledged number
  snd_nxt,    \* snd_nxt[p]: the next number to assign
  rmt_wnd,    \* rmt_wnd[p]: the window the peer last advertised
  probing,    \* probing[p]: probe_wait # 0, the probe timer is armed
  rcv_queue,  \* rcv_queue[p]: chunks in order, ready for ikcp_recv
  rcv_buf,    \* rcv_buf[p]: segments received ahead of a gap or a full queue
  rcv_nxt,    \* rcv_nxt[p]: the next number the receive queue takes
  acklist,    \* acklist[p]: numbers to acknowledge in the next flush
  tell,       \* tell[p]: IKCP_ASK_TELL is set in probe
  net,        \* the segments in transit
  stream,     \* history: stream[p] is every chunk ikcp_send accepted from p
  read        \* history: read[p] is every chunk ikcp_recv gave to p

sndVars  == <<snd_queue, snd_buf, snd_una, snd_nxt, rmt_wnd, probing>>
rcvVars  == <<rcv_queue, rcv_buf, rcv_nxt, acklist, tell>>
history  == <<stream, read>>
vars     == <<sndVars, rcvVars, net, history>>

Chunk   == [pos : Nat, frg : Nat]
Segment == [sn : Nat, chunk : Chunk]

(* A header on the wire: conv, ts and len carry nothing the model tells    *)
(* apart.  to is the control block whose ikcp_input gets it.               *)
Packet ==      [cmd : {"PUSH"}, to : Endpoint, wnd : Nat, una : Nat,
                sn : Nat, chunk : Chunk]
          \cup [cmd : {"ACK"}, to : Endpoint, wnd : Nat, una : Nat, sn : Nat]
          \cup [cmd : {"WASK", "WINS"}, to : Endpoint, wnd : Nat, una : Nat]

-----------------------------------------------------------------------------
(* Windows.                                                                *)

Lesser(a, b) == IF a < b THEN a ELSE b

MutRcvWnd(p) == RcvWndArg[p]

(* ikcp_wndsize never lets the receive window be smaller than IKCP_WND_RCV. *)
RcvWnd(p) == IF RcvWndArg[p] > WND_RCV THEN RcvWndArg[p] ELSE WND_RCV

MutWndUnused(p) ==
  IF Len(rcv_queue[p]) + Cardinality(rcv_buf[p]) < RcvWnd(p)
  THEN RcvWnd(p) - Len(rcv_queue[p]) - Cardinality(rcv_buf[p]) ELSE 0

(* Only the delivered, unread chunks count against the advertised window.  *)
WndUnused(p) ==
  IF Len(rcv_queue[p]) < RcvWnd(p) THEN RcvWnd(p) - Len(rcv_queue[p]) ELSE 0

-----------------------------------------------------------------------------
(* The initial state: ikcp_create, then ikcp_wndsize and ikcp_nodelay.     *)

Init ==
  /\ snd_queue = [p \in Endpoint |-> <<>>]
  /\ snd_buf   = [p \in Endpoint |-> {}]
  /\ snd_una   = [p \in Endpoint |-> 0]
  /\ snd_nxt   = [p \in Endpoint |-> 0]
  /\ rmt_wnd   = [p \in Endpoint |-> WND_RCV]
  /\ probing   = [p \in Endpoint |-> FALSE]
  /\ rcv_queue = [p \in Endpoint |-> <<>>]
  /\ rcv_buf   = [p \in Endpoint |-> {}]
  /\ rcv_nxt   = [p \in Endpoint |-> 0]
  /\ acklist   = [p \in Endpoint |-> {}]
  /\ tell      = [p \in Endpoint |-> FALSE]
  /\ net       = {}
  /\ stream    = [p \in Endpoint |-> <<>>]
  /\ read      = [p \in Endpoint |-> <<>>]

-----------------------------------------------------------------------------
(* ikcp_send.                                                              *)

(* A message of n chunks; frg counts the chunks that follow.               *)
Fragments(base, n) == [i \in 1..n |-> [pos |-> base + i, frg |-> n - i]]

(* ikcp_send refuses a message of IKCP_WND_RCV chunks or more.             *)
Sendable(n) == n < WND_RCV

Send(p) ==
  \E n \in 1..Traffic[p] :
    /\ Sendable(n)
    /\ Len(stream[p]) + n <= Traffic[p]
    /\ LET chunks == Fragments(Len(stream[p]), n)
       IN /\ snd_queue' = [snd_queue EXCEPT ![p] = @ \o chunks]
          /\ stream'    = [stream EXCEPT ![p] = @ \o chunks]
    /\ UNCHANGED <<snd_buf, snd_una, snd_nxt, rmt_wnd, probing, rcvVars,
                   net, read>>

-----------------------------------------------------------------------------
(* The receive queue.                                                      *)

(* The chunks a receive queue may still take.                              *)
Room(p, queue) ==
  IF Len(queue) < RcvWnd(p) THEN RcvWnd(p) - Len(queue) ELSE 0

(* How far the loop that moves rcv_buf to rcv_queue goes: k segments, up   *)
(* to the first missing number or to a full queue.                         *)
Contiguous(buf, nxt, room, k) ==
  /\ \A i \in 0..k-1 : \E s \in buf : s.sn = nxt + i
  /\ k = room \/ ~ \E s \in buf : s.sn = nxt + k

ChunkAt(buf, n) == (CHOOSE s \in buf : s.sn = n).chunk

(* The loop: queue and buf are the receive queue and buffer it starts      *)
(* from.                                                                   *)
Refill(p, queue, buf) ==
  LET nxt == rcv_nxt[p]
  IN \E k \in 0..Room(p, queue) :
       /\ Contiguous(buf, nxt, Room(p, queue), k)
       /\ rcv_queue' = [rcv_queue EXCEPT ![p] =
                          queue \o [i \in 1..k |-> ChunkAt(buf, nxt + i - 1)]]
       /\ rcv_buf' = [rcv_buf EXCEPT ![p] =
                        {s \in buf : s.sn \notin nxt..(nxt + k - 1)}]
       /\ rcv_nxt' = [rcv_nxt EXCEPT ![p] = nxt + k]

-----------------------------------------------------------------------------
(* ikcp_recv.                                                              *)

MutComplete(queue) == queue # <<>>

(* ikcp_peeksize: the queue holds its first chunk's whole message.         *)
Complete(queue) ==
  /\ queue # <<>>
  /\ Len(queue) >= queue[1].frg + 1

(* The loop that merges fragments stops at the first frg = 0.              *)
EndsMessage(queue, k) ==
  /\ k = Len(queue) \/ queue[k].frg = 0
  /\ \A i \in 1..k-1 : queue[i].frg # 0

(* One call, with a buffer for len chunks.  The early returns change       *)
(* nothing: -1 and -2 when no message is complete, -3 when the next one is *)
(* longer than the buffer, which leaves it in the queue.                   *)
Recv(q, len) ==
  LET queue == rcv_queue[q]
      rest(k) == SubSeq(queue, k + 1, Len(queue))
  IN /\ Complete(queue)
     /\ \E k \in 1..Len(queue) :
          /\ EndsMessage(queue, k)
          /\ k <= len
          /\ read' = [read EXCEPT ![q] = @ \o SubSeq(queue, 1, k)]
          /\ Refill(q, rest(k), rcv_buf[q])
     /\ tell' = [tell EXCEPT ![q] =
                   @ \/ (Len(queue) >= RcvWnd(q)
                         /\ Len(rcv_queue'[q]) < RcvWnd(q))]
     /\ UNCHANGED <<sndVars, acklist, net, stream>>

-----------------------------------------------------------------------------
(* ikcp_flush.                                                             *)

Packet0(p, cmd) == [cmd |-> cmd, to |-> Peer[p], wnd |-> WndUnused(p),
                    una |-> rcv_nxt[p]]
AckPacket(p, n) == [cmd |-> "ACK", to |-> Peer[p], wnd |-> WndUnused(p),
                    una |-> rcv_nxt[p], sn |-> n]
PushPacket(p, s) == [cmd |-> "PUSH", to |-> Peer[p], wnd |-> WndUnused(p),
                     una |-> rcv_nxt[p], sn |-> s.sn, chunk |-> s.chunk]

MutAskSend(p) == rmt_wnd[p] = 0 /\ probing[p] /\ snd_queue[p] # <<>>

(* A probe may be sent when the peer's window is zero and an earlier flush *)
(* has armed the probe timer.                                              *)
AskSend(p) == rmt_wnd[p] = 0 /\ probing[p]

MutNumbered(p, k) ==
  {[sn |-> snd_una[p] + i - 1, chunk |-> snd_queue[p][i]] : i \in 1..k}

(* The first k chunks of snd_queue, numbered from snd_nxt on.              *)
Numbered(p, k) ==
  {[sn |-> snd_nxt[p] + i - 1, chunk |-> snd_queue[p][i]] : i \in 1..k}

MutAdmitted(p, wnd) == Lesser(wnd, Len(snd_queue[p]))

(* The chunks a window of wnd segments lets into snd_buf.                  *)
Admitted(p, wnd) ==
  LET free == snd_una[p] + wnd - snd_nxt[p]
  IN IF free < 0 THEN 0 ELSE Lesser(free, Len(snd_queue[p]))

(* cwnd in force: the congestion window may only lower the two windows.    *)
SendWindows(p) ==
  LET wnd == Lesser(SndWnd[p], rmt_wnd[p])
  IN IF NoCwnd[p] THEN {wnd} ELSE 0..wnd

(* All that a flush could put on the wire: acknowledgements, probe, answer *)
(* to a probe, the newly numbered segments, and those retransmitted.       *)
Output(p, new) ==
  {AckPacket(p, n) : n \in acklist[p]}
  \cup (IF AskSend(p) THEN {Packet0(p, "WASK")} ELSE {})
  \cup (IF tell[p] THEN {Packet0(p, "WINS")} ELSE {})
  \cup {PushPacket(p, s) : s \in snd_buf[p] \cup new}

(* One flush.  wnd is the window in force.  kept is the part of the output *)
(* that some timer or counter made due and the network does not lose.      *)
FlushWith(p, wnd, kept) ==
  LET k   == Admitted(p, wnd)
      new == Numbered(p, k)
  IN /\ kept \subseteq Output(p, new)
     /\ Cardinality(net \cup kept) <= NetCap
     /\ net' = net \cup kept
     /\ snd_queue' = [snd_queue EXCEPT ![p] = SubSeq(@, k + 1, Len(@))]
     /\ snd_buf' = [snd_buf EXCEPT ![p] = @ \cup new]
     /\ snd_nxt' = [snd_nxt EXCEPT ![p] = @ + k]
     /\ probing' = [probing EXCEPT ![p] = rmt_wnd[p] = 0]
     /\ acklist' = [acklist EXCEPT ![p] = {}]
     /\ tell' = [tell EXCEPT ![p] = FALSE]
     /\ UNCHANGED <<snd_una, rmt_wnd, rcv_queue, rcv_buf, rcv_nxt, history>>

Flush(p) ==
  \E wnd \in SendWindows(p) :
    \E kept \in SUBSET Output(p, Numbered(p, Admitted(p, wnd))) :
      FlushWith(p, wnd, kept)

-----------------------------------------------------------------------------
(* ikcp_input, on one segment taken from the network.                      *)

Taken(m) == \/ net' = net \ {m}
            \/ Duplicates /\ net' = net

MutAfterUna(buf, una) == {s \in buf : s.sn > una}

(* ikcp_parse_una drops every segment below the peer's rcv_nxt.            *)
AfterUna(buf, una) == {s \in buf : s.sn >= una}

(* ikcp_parse_ack drops one segment, if it is in flight.                   *)
AfterAck(buf, una, nxt, sn) ==
  IF sn < una \/ sn >= nxt THEN buf ELSE {s \in buf : s.sn # sn}

(* ikcp_shrink_buf.                                                        *)
FirstUnacked(buf, nxt) == IF buf = {} THEN nxt ELSE Min({s.sn : s \in buf})

(* The sender's half, common to the four commands.                         *)
Acknowledge(q, m) ==
  LET low == AfterUna(snd_buf[q], m.una)
      una == FirstUnacked(low, snd_nxt[q])
      buf == IF m.cmd = "ACK" THEN AfterAck(low, una, snd_nxt[q], m.sn) ELSE low
  IN /\ snd_buf' = [snd_buf EXCEPT ![q] = buf]
     /\ snd_una' = [snd_una EXCEPT ![q] = FirstUnacked(buf, snd_nxt[q])]
     /\ rmt_wnd' = [rmt_wnd EXCEPT ![q] = m.wnd]
     /\ UNCHANGED <<snd_queue, snd_nxt, probing, history>>

InputAck(m) ==
  /\ m.cmd = "ACK"
  /\ Acknowledge(m.to, m)
  /\ Taken(m)
  /\ UNCHANGED rcvVars

MutInRcvWindow(q, sn) == sn >= rcv_nxt[q] /\ sn < rcv_nxt[q] + RcvWnd(q)

(* Numbers at or past this bound are neither stored nor acknowledged.      *)
InRcvWindow(q, sn) == sn < rcv_nxt[q] + RcvWnd(q)

(* A number that was delivered, or waits in rcv_buf, is acknowledged again *)
(* and its data dropped.                                                   *)
Known(q, sn) ==
  sn < rcv_nxt[q] \/ \E s \in rcv_buf[q] : s.sn = sn

(* ikcp_ack_push, then ikcp_parse_data.                                    *)
InputPush(m) ==
  LET q == m.to
      arrived == IF Known(q, m.sn) THEN {}
                 ELSE {[sn |-> m.sn, chunk |-> m.chunk]}
  IN /\ m.cmd = "PUSH"
     /\ Acknowledge(q, m)
     /\ Taken(m)
     /\ IF InRcvWindow(q, m.sn)
          THEN /\ acklist' = [acklist EXCEPT ![q] = @ \cup {m.sn}]
               /\ IF m.sn < rcv_nxt[q]
                    THEN UNCHANGED <<rcv_queue, rcv_buf, rcv_nxt>>
                    ELSE Refill(q, rcv_queue[q], rcv_buf[q] \cup arrived)
          ELSE UNCHANGED <<acklist, rcv_queue, rcv_buf, rcv_nxt>>
     /\ UNCHANGED tell

InputWask(m) ==
  /\ m.cmd = "WASK"
  /\ Acknowledge(m.to, m)
  /\ Taken(m)
  /\ tell' = [tell EXCEPT ![m.to] = TRUE]
  /\ UNCHANGED <<rcv_queue, rcv_buf, rcv_nxt, acklist>>

InputWins(m) ==
  /\ m.cmd = "WINS"
  /\ Acknowledge(m.to, m)
  /\ Taken(m)
  /\ UNCHANGED rcvVars

Input(m) == InputAck(m) \/ InputPush(m) \/ InputWask(m) \/ InputWins(m)

(* A segment is lost on its way. *)
Lose(m) == net' = net \ {m} /\ UNCHANGED <<sndVars, rcvVars, history>>

-----------------------------------------------------------------------------
Next ==
  \/ \E p \in Endpoint : Send(p) \/ Flush(p)
  \/ \E q \in Endpoint, len \in BufferLen : Recv(q, len)
  \/ \E m \in net : Input(m) \/ Lose(m)

Spec == Init /\ [][Next]_vars

-----------------------------------------------------------------------------
(* Fairness.  updateKcp and client_loop call ikcp_update for ever and every *)
(* timer that is armed runs out, so what is due is sent again and again; a *)
(* network that loses some of what it is given does not lose every copy.   *)
(* Only the first unacknowledged segment needs this: the others wait for   *)
(* their turn.  Whatever is in the network leaves it in the end.  Nothing  *)
(* is assumed of the program that reads: it may leave a message for ever,  *)
(* or give ikcp_recv a buffer that is too short for it.                    *)

FlushKeeps(p, cmd) ==
  \E wnd \in SendWindows(p) :
    \E m \in Output(p, Numbered(p, Admitted(p, wnd))) :
      /\ m.cmd = cmd
      /\ cmd = "PUSH" => m.sn = snd_una[p]
      /\ FlushWith(p, wnd, {m})

Arrives(p, cmd) ==
  \E m \in net : /\ m.cmd = cmd
                 /\ m.to = Peer[p]
                 /\ cmd = "PUSH" => m.sn = snd_una[p]
                 /\ Input(m)

GetsThrough(p, cmd) ==
  SF_vars(FlushKeeps(p, cmd)) /\ SF_vars(Arrives(p, cmd))

Fairness ==
  /\ WF_vars(\E m \in net : Input(m) \/ Lose(m))
  /\ \A p \in {e \in Endpoint : Traffic[e] > 0} :
       /\ WF_vars(Flush(p))
       /\ GetsThrough(p, "PUSH")
       /\ GetsThrough(Peer[p], "ACK")
       /\ GetsThrough(p, "WASK")
       /\ GetsThrough(Peer[p], "WINS")

FairSpec == Spec /\ Fairness

-----------------------------------------------------------------------------
(* Types.  Every number of the control blocks is a natural number and      *)
(* every queue holds chunks.                                               *)
TypeOK ==
  /\ snd_queue \in [Endpoint -> Seq(Chunk)]
  /\ snd_buf   \in [Endpoint -> SUBSET Segment]
  /\ snd_una   \in [Endpoint -> Nat]
  /\ snd_nxt   \in [Endpoint -> Nat]
  /\ rmt_wnd   \in [Endpoint -> Nat]
  /\ probing   \in [Endpoint -> BOOLEAN]
  /\ rcv_queue \in [Endpoint -> Seq(Chunk)]
  /\ rcv_buf   \in [Endpoint -> SUBSET Segment]
  /\ rcv_nxt   \in [Endpoint -> Nat]
  /\ acklist   \in [Endpoint -> SUBSET Nat]
  /\ tell      \in [Endpoint -> BOOLEAN]
  /\ net       \in SUBSET Packet
  /\ stream    \in [Endpoint -> Seq(Chunk)]
  /\ read      \in [Endpoint -> Seq(Chunk)]

(* What one program has read is a prefix of what the other has written:    *)
(* nothing is lost, repeated or out of order, whatever the network does.   *)
InOrderDelivery ==
  \A q \in Endpoint :
    /\ Len(read[q]) <= Len(stream[Peer[q]])
    /\ \A i \in 1..Len(read[q]) : read[q][i] = stream[Peer[q]][i]

(* The receiver has number n, in its queue's past or in its buffer.        *)
Holds(q, n) == n < rcv_nxt[q] \/ \E s \in rcv_buf[q] : s.sn = n

(* A number that left the sender's buffer is held by the receiver, so an   *)
(* acknowledgement (sn or una) never releases data that could still be     *)
(* lost.                                                                   *)
AckedIsHeld ==
  \A p \in Endpoint : \A n \in 0..snd_nxt[p]-1 :
    (\E s \in snd_buf[p] : s.sn = n) \/ Holds(Peer[p], n)

(* A full receive queue always starts with a complete message.  Otherwise  *)
(* no buffer would be long enough for ikcp_recv, the queue would stay full and the       *)
(* missing fragments could never enter it: this is why ikcp_wndsize keeps  *)
(* rcv_wnd at IKCP_WND_RCV or above and ikcp_send limits the fragments.    *)
FullQueueIsReadable ==
  \A q \in Endpoint : Room(q, rcv_queue[q]) = 0 => Complete(rcv_queue[q])

(* Both windows bound what is stored: the queue of delivered chunks, the   *)
(* segments ahead of it, and the segments in flight.                       *)
BuffersBounded ==
  \A p \in Endpoint :
    /\ Len(rcv_queue[p]) <= RcvWnd(p)
    /\ \A s \in rcv_buf[p] : s.sn \in rcv_nxt[p]..(rcv_nxt[p] + RcvWnd(p) - 1)
    /\ snd_nxt[p] <= snd_una[p] + SndWnd[p]

(* snd_una is the first unacknowledged number, as kcp.h says of it.        *)
SndUnaIsFirst ==
  \A p \in Endpoint :
    /\ snd_una[p] <= snd_nxt[p]
    /\ \A s \in snd_buf[p] : snd_una[p] <= s.sn
    /\ snd_una[p] < snd_nxt[p] => \E s \in snd_buf[p] : s.sn = snd_una[p]

(* The right edge of the window a receiver advertises, rcv_nxt + wnd,      *)
(* never moves back: room once offered is never withdrawn.                 *)
WindowNeverShrinks ==
  [][\A p \in Endpoint :
       rcv_nxt'[p] + WndUnused(p)' >= rcv_nxt[p] + WndUnused(p)]_vars

(* The protocol implements the message channel.                            *)
Channel == INSTANCE MessageChannel WITH Sizes <- 1..WND_RCV-1
ChannelSpec == Channel!Spec

(* The program at q makes room in its receive queue again and again.       *)
KeepsRoom(q) == []<>(Room(q, rcv_queue[q]) > 0)

(* Every chunk sent reaches the receive queue, in its place, over a        *)
(* network that loses but is fair, if the program there keeps making room. *)
EverythingArrives ==
  \A p \in Endpoint : KeepsRoom(Peer[p]) =>
    \A n \in 1..Traffic[p] : Len(stream[p]) >= n ~> rcv_nxt[Peer[p]] >= n

(* A closed window opens again once the program at the other end has made  *)
(* room: the probe, its answer or the unasked notice of ikcp_recv gets the *)
(* new window to the sender.                                               *)
WindowReopens ==
  \A p \in Endpoint : KeepsRoom(Peer[p]) =>
    (rmt_wnd[p] = 0 ~> rmt_wnd[p] > 0)

-----------------------------------------------------------------------------
(* The inductive invariant behind the safety properties, by parts: what    *)
(* each queue, buffer and segment in transit holds is the part of the      *)
(* sender's stream its numbers say.                                        *)

(* The sequence s is the part of the stream st that follows position base. *)
Slice(s, st, base) ==
  /\ base + Len(s) <= Len(st)
  /\ \A i \in 1..Len(s) : s[i] = st[base + i]

(* chunk is the one with number sn of the stream st.                       *)
Carries(st, sn, chunk) == sn < Len(st) /\ chunk = st[sn + 1]

(* Fragment numbers count down to the end of their message.                *)
CountsDown(st) ==
  \A i \in 1..Len(st) :
    /\ st[i].frg + 1 < WND_RCV
    /\ \A d \in 0..st[i].frg :
         i + d <= Len(st) /\ st[i + d].frg = st[i].frg - d

SndQueueInv(p) ==
  /\ Len(stream[p]) = snd_nxt[p] + Len(snd_queue[p])
  /\ Slice(snd_queue[p], stream[p], snd_nxt[p])

SndBufInv(p) ==
  \A s \in snd_buf[p] : /\ snd_una[p] <= s.sn
                       /\ s.sn < snd_nxt[p]
                       /\ Carries(stream[p], s.sn, s.chunk)

SndUnaInv(p) ==
  /\ snd_una[p] <= snd_nxt[p]
  /\ snd_una[p] < snd_nxt[p] => \E s \in snd_buf[p] : s.sn = snd_una[p]
  /\ snd_nxt[p] <= snd_una[p] + SndWnd[p]

RcvQueueInv(q) ==
  /\ rcv_nxt[q] = Len(read[q]) + Len(rcv_queue[q])
  /\ rcv_nxt[q] <= snd_nxt[Peer[q]]
  /\ Len(rcv_queue[q]) <= RcvWnd(q)
  /\ Slice(read[q], stream[Peer[q]], 0)
  /\ Slice(rcv_queue[q], stream[Peer[q]], Len(read[q]))

RcvBufInv(q) ==
  \A s \in rcv_buf[q] : /\ rcv_nxt[q] <= s.sn
                       /\ s.sn < rcv_nxt[q] + RcvWnd(q)
                       /\ s.sn < snd_nxt[Peer[q]]
                       /\ Carries(stream[Peer[q]], s.sn, s.chunk)

AckListInv(q) == \A n \in acklist[q] : Holds(q, n)

PacketInv(m) ==
  LET q == Peer[m.to]
  IN /\ m.una <= rcv_nxt[q]
     /\ m.cmd = "ACK" => Holds(q, m.sn)
     /\ m.cmd = "PUSH" => /\ m.sn < snd_nxt[q]
                          /\ Carries(stream[q], m.sn, m.chunk)

(* The conjunction of the parts; every safety property follows from it.    *)
IndInv ==
  /\ TypeOK
  /\ \A p \in Endpoint :
       /\ SndQueueInv(p) /\ SndBufInv(p) /\ SndUnaInv(p)
       /\ CountsDown(stream[p])
       /\ RcvQueueInv(p) /\ RcvBufInv(p) /\ AckListInv(p)
  /\ \A m \in net : PacketInv(m)
  /\ AckedIsHeld
=============================================================================
