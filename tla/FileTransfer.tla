---------------------------- MODULE FileTransfer ---------------------------
(***************************************************************************)
(* The bytes of a file on their way from the client to the server: the     *)
(* messages of KcpClient::send_file, the packets ikcp_flush fills with     *)
(* their segments, the TCP segments tcp_client_cb makes of the packets,    *)
(* and the TCP byte stream in which the server's read (startEpoll of       *)
(* code/kcp/server_epoll.cc) finds them again: up to RECV_MAX_SIZE bytes   *)
(* at a time, wherever the client's packets end.                           *)
(*                                                                         *)
(* A byte is named by the segment it belongs to and its place there, so a  *)
(* read that begins in the middle of a segment shows no header, and        *)
(* ikcp_input finds a foreign conv (the model leaves out payloads that     *)
(* look like a header).  All lengths are those of the code, scaled down:   *)
(* a packet holds the name with one chunk or two short messages, never two *)
(* chunks, and a read holds a packet but not two full ones.                *)
(*                                                                         *)
(* What comes back is simple here, for KcpArq and FakeTcp have it: the     *)
(* server's acknowledgements arrive, late (one that the client reads right *)
(* behind a raw "send_finish" is refused with it, and comes again with the *)
(* next copy).  The client's segments arrive in order, for the server's    *)
(* kernel holds back what follows a hole.                                  *)
(***************************************************************************)
EXTENDS Checksum, FiniteSets, FiniteSetsExt, SequencesExt

CONSTANTS
  Files,       \* the messages' lengths, one sequence for each file: the name
               \* and size first, then the chunks
  Overhead,    \* IKCP_OVERHEAD
  Mtu,         \* kcp->mtu
  UdpMtu,      \* UDP_MTU, the most tcp_client_cb puts in a TCP segment
  ReadMax,     \* RECV_MAX_SIZE
  NameLen,     \* 8 + 128
  Early,       \* bound: resends while earlier bytes are still under way
  Addresses, Ports, Numbers \* words of the headers

ASSUME LengthAssumption ==
  /\ {Overhead, Mtu, UdpMtu, ReadMax, NameLen} \subseteq Nat \ {0}
  /\ Files \subseteq Seq(Nat \ {0}) /\ Early \in Nat
  /\ \A lens \in Files : lens # <<>> /\ lens[1] = NameLen
  /\ \A lens \in Files : \A i \in DOMAIN lens : Overhead + lens[i] <= Mtu
ASSUME HeaderAssumption == {Addresses, Ports, Numbers} \subseteq Seq(Word)

VARIABLES
  lens,      \* the messages of this file
  queued,    \* messages given to ikcp_send
  snd_nxt,   \* segments that were sent; segment sn carries message sn + 1
  snd_buf,   \* of those, the ones not acknowledged
  early,     \* resends into a stream that was not empty
  wire,      \* TCP segments under way
  stream,    \* bytes in the server's socket buffer
  rcv_nxt, rcv_buf, rcv_queue, acklist, \* the server's control block
  refused,   \* history: an ikcp_input returned less than 0
  read_file, \* the name was read
  written,   \* the messages in the file, in the order of the writes
  answered   \* how often "send_finish" was given to ikcp_send

client == <<lens, queued, snd_nxt, snd_buf, early>>
rcv    == <<rcv_nxt, rcv_buf, rcv_queue, acklist>>
app    == <<read_file, written, answered>>
vars   == <<client, wire, stream, rcv, refused, app>>

Sn == 0..Len(lens) - 1

(* Segments in the order in which snd_buf and rcv_buf keep them.           *)
InOrder(sns) ==
  CHOOSE due \in [1..Cardinality(sns) -> sns] :
    \A i, j \in DOMAIN due : i < j => due[i] < due[j]

(* The bytes of a segment as ikcp_encode_seg and memcpy lay them out, and  *)
(* some value for each.                                                    *)

Size(sn) == Overhead + lens[sn + 1]

Encoded(sn) == [k \in 1..Size(sn) |-> <<sn, k>>]

Value(byte) == (251 * byte[1] + 89 * byte[2]) % 256

Values(bytes) == [i \in DOMAIN bytes |-> Value(bytes[i])]

FileSize == MapThenSumSet(LAMBDA i : lens[i], 2..Len(lens))

Written(file) == MapThenSumSet(LAMBDA i : lens[file[i] + 1], DOMAIN file)

Init ==
  /\ lens \in Files
  /\ queued = 0 /\ snd_nxt = 0 /\ snd_buf = {} /\ early = 0
  /\ wire = <<>> /\ stream = <<>>
  /\ rcv_nxt = 0 /\ rcv_buf = {} /\ rcv_queue = <<>> /\ acklist = {}
  /\ refused = FALSE
  /\ read_file = FALSE /\ written = <<>> /\ answered = 0
-----------------------------------------------------------------------------
(* The client. *)

(* send_file: the name's message, then a message for each chunk.           *)
SendMessage ==
  /\ queued < Len(lens)
  /\ queued' = queued + 1
  /\ UNCHANGED <<lens, snd_nxt, snd_buf, early, wire, stream, rcv, refused,
                 app>>

(* ikcp_flush packs the segments that are due, in the order of snd_buf: a  *)
(* packet goes out when the next segment does not fit; opens[i] is the     *)
(* place in due of the segment that opened the packet the i-th one is in.  *)
Bytes(due, a, b) == FlattenSeq([i \in 1..b + 1 - a |-> Encoded(due[a + i - 1])])

MutFits(due, a, b) == Len(Bytes(due, a, b - 1)) <= Mtu

Fits(due, a, b) == Len(Bytes(due, a, b)) <= Mtu

Packets(due) ==
  LET opens[i \in DOMAIN due] ==
        IF i > 1 /\ Fits(due, opens[i - 1], i) THEN opens[i - 1] ELSE i
      Packet(a) == Bytes(due, a, Max({i \in DOMAIN due : opens[i] = a}))
  IN  [i \in DOMAIN due |-> IF opens[i] = i THEN Packet(i) ELSE <<>>]

(* tcp_client_cb cuts a packet that is longer than UDP_MTU; each part gets *)
(* the checksum of as many bytes of the buffer, from its beginning.        *)
Part(buffer, sended) ==
  LET s == Min({Len(buffer) - sended, UdpMtu})
      data == SubSeq(buffer, sended + 1, sended + s)
      summed == SubSeq(buffer, 1, s)
  IN  [data |-> data,
       check |-> TcpChecksum(Addresses, Header(Ports, Numbers, 0),
                             Values(summed))]

Parts(buffer) ==
  [i \in 1..(Len(buffer) + UdpMtu - 1) \div UdpMtu |->
     Part(buffer, (i - 1) * UdpMtu)]

Output(due) == FlattenSeq([i \in DOMAIN due |-> Parts(Packets(due)[i])])

(* With nothing under way, every timer of snd_buf may have run out.        *)
Quiet == wire = <<>> /\ stream = <<>>

(* client_loop: ikcp_update, when it flushes.  How many new segments the   *)
(* window lets out and which timers ran out is left open (see KcpSender).  *)
Flush ==
  \E nxt \in snd_nxt..queued, again \in SUBSET snd_buf :
    LET new == snd_nxt..nxt - 1 IN
    /\ new \cup again # {}
    /\ \/ again = {} /\ UNCHANGED early
       \/ again # {} /\ Quiet /\ UNCHANGED early
       \/ again # {} /\ ~Quiet /\ early < Early /\ early' = early + 1
    /\ snd_nxt' = nxt
    /\ snd_buf' = snd_buf \cup new
    /\ wire' = wire \o Output(InOrder(new \cup again))
    /\ UNCHANGED <<lens, queued, stream, rcv, refused, app>>

(* run_tcp_client hands a packet of the server's acknowledgements, and its *)
(* una, to ikcp_input.                                                     *)
MutReleased(sn) == \E acked \in acklist : sn <= acked

Released(sn) == sn \in acklist \/ sn < rcv_nxt

Acknowledge ==
  /\ acklist # {}
  /\ snd_buf' = {sn \in snd_buf : ~Released(sn)}
  /\ acklist' = {}
  /\ UNCHANGED <<lens, queued, snd_nxt, early, wire, stream,
                 rcv_nxt, rcv_buf, rcv_queue, refused, app>>

(* The server's kernel takes a TCP segment whose checksum is right.        *)
Arrive ==
  /\ wire # <<>>
  /\ Verifies(Addresses, Header(Ports, Numbers, Head(wire).check),
              Values(Head(wire).data))
  /\ wire' = Tail(wire)
  /\ stream' = stream \o Head(wire).data
  /\ UNCHANGED <<client, rcv, refused, app>>
-----------------------------------------------------------------------------
(* The server. *)

(* ikcp_input over the bytes of a read.  It goes from segment to segment,  *)
(* so it refuses at once what does not begin with a header, and stops with *)
(* an error at a segment that is cut, when at least its header is there;   *)
(* the segments before that one are taken.                                 *)
Begins(bytes) == {i \in DOMAIN bytes : bytes[i][2] = 1}

IsWhole(bytes, i) == i + Size(bytes[i][1]) - 1 <= Len(bytes)

MutTaken(bytes) ==
  {bytes[i][1] : i \in {b \in {1} : bytes[1][2] = 1 /\ IsWhole(bytes, b)
                                   /\ Len(bytes) = Size(bytes[1][1])}}

Taken(bytes) ==
  IF bytes[1][2] # 1 THEN {}
  ELSE {bytes[i][1] : i \in {b \in Begins(bytes) : IsWhole(bytes, b)}}

Refuses(bytes) ==
  \/ Len(bytes) < Overhead
  \/ bytes[1][2] # 1
  \/ \E i \in Begins(bytes) : /\ ~IsWhole(bytes, i)
                              /\ Len(bytes) - i + 1 >= Overhead

(* ikcp_parse_data for these segments: the windows of the program are      *)
(* wider than its files here, every one is acknowledged, and rcv_queue     *)
(* gets what is in order.                                                  *)
MutUpto(sns) == Max(sns \cup {rcv_nxt - 1}) + 1

Upto(sns) == CHOOSE n \in rcv_nxt..Len(lens) :
               rcv_nxt..n - 1 \subseteq sns /\ n \notin sns

MutKept(held) == held

Kept(held) == {sn \in held : sn >= Upto(held)}

ParseData(sns) ==
  LET held == {sn \in rcv_buf \cup sns : sn >= rcv_nxt} IN
  /\ rcv_nxt' = Upto(held)
  /\ rcv_buf' = Kept(held)
  /\ acklist' = acklist \cup sns

InQueue(sns) == rcv_queue \o InOrder({sn \in rcv_buf \cup sns :
                                        sn \in rcv_nxt..rcv_nxt' - 1})

(* ikcp_recv with a buffer of size bytes, again and again until it returns *)
(* less than 0: the messages that are read.                                *)
MutReadable(queue, size) == Min({1, Len(queue)})

Readable(queue, size) ==
  Max({n \in 0..Len(queue) : \A i \in 1..n : lens[queue[i] + 1] <= size})

(* What startEpoll does with the messages it reads: the first one names    *)
(* the file, the others are written to it, and each one with which all of  *)
(* the file is there is answered.                                          *)
MutComplete(file) == Written(file) + NameLen >= FileSize

Complete(file) == Written(file) >= FileSize

Process(messages) ==
  LET data == IF read_file \/ messages = <<>> THEN messages ELSE Tail(messages)
  IN  /\ read_file' = (read_file \/ messages # <<>>)
      /\ written' = written \o data
      /\ answered' = answered +
           Cardinality({i \in Len(written) + 1..Len(written'):
                          Complete(SubSeq(written', 1, i))})

(* One read of startEpoll's loop.  When ikcp_input refuses, the raw        *)
(* "send_finish" goes out, and the loop goes on without ikcp_recv.         *)
Read ==
  LET size  == Min({Len(stream), ReadMax})
      bytes == SubSeq(stream, 1, size)
      taken == IF size < Overhead THEN {} ELSE Taken(bytes)
      queue == InQueue(taken)
      n     == IF Refuses(bytes) THEN 0 ELSE Readable(queue, size)
  IN
    /\ stream # <<>>
    /\ stream' = SubSeq(stream, size + 1, Len(stream))
    /\ refused' = (refused \/ Refuses(bytes))
    /\ ParseData(taken)
    /\ rcv_queue' = SubSeq(queue, n + 1, Len(queue))
    /\ Process(SubSeq(queue, 1, n))
    /\ UNCHANGED <<client, wire>>

Next == SendMessage \/ Acknowledge \/ Arrive \/ Read \/ Flush

Spec == Init /\ [][Next]_vars

(* send_file goes on, acknowledgements come back, and something happens as *)
(* long as something can: client_loop calls ikcp_update again and again,   *)
(* both kernels deliver, epoll reports what arrived.                       *)
FairSpec ==
  Spec /\ WF_vars(Next) /\ WF_vars(SendMessage) /\ WF_vars(Acknowledge)
-----------------------------------------------------------------------------
TypeOK ==
  /\ lens \in Files
  /\ queued \in 0..Len(lens) /\ snd_nxt \in 0..queued
  /\ snd_buf \subseteq 0..snd_nxt - 1
  /\ early \in 0..Early
  /\ \A i \in DOMAIN wire : /\ Len(wire[i].data) \in 1..UdpMtu
                            /\ wire[i].check \in Word
  /\ \A i \in DOMAIN stream : /\ stream[i][1] \in 0..snd_nxt - 1
                              /\ stream[i][2] \in 1..Size(stream[i][1])
  /\ rcv_nxt \in 0..snd_nxt
  /\ rcv_buf \subseteq rcv_nxt + 1..snd_nxt - 1
  /\ \A i \in DOMAIN rcv_queue : rcv_queue[i] \in 0..rcv_nxt - 1
  /\ acklist \subseteq 0..snd_nxt - 1
  /\ {refused, read_file} \subseteq BOOLEAN
  /\ \A i \in DOMAIN written : written[i] \in 1..rcv_nxt - 1
  /\ answered \in Nat

(* No packet of ikcp_flush is longer than what tcp_client_cb puts in one   *)
(* TCP segment: of a longer one the second part would have the checksum of *)
(* the first bytes of the buffer (kcp_client.cc:57), the server's kernel   *)
(* would drop it, and the connection would have a hole for ever.           *)
ChecksumsVerify ==
  \A i \in DOMAIN wire :
    Verifies(Addresses, Header(Ports, Numbers, wire[i].check),
             Values(wire[i].data))

(* However reads cut the stream, what the client forgets has arrived whole *)
(* at the server: ikcp_input acknowledges a segment only when all its      *)
(* bytes are in the read (ikcp.cc:791).                                    *)
ForgottenIsHeld ==
  \A sn \in 0..snd_nxt - 1 : sn \in snd_buf \/ sn < rcv_nxt \/ sn \in rcv_buf

(* The file on the server is the beginning of the file on the client, in   *)
(* its order, nothing twice and nothing left out, and the message with the *)
(* name is no part of it (startEpoll's assert(len >= 128 + 8)).            *)
FileIsPrefix ==
  /\ written = [i \in 1..Len(written) |-> i]
  /\ read_file = (rcv_nxt - Len(rcv_queue) > 0)
  /\ Len(written) = Max({0, rcv_nxt - Len(rcv_queue) - 1})

(* "send_finish" is sent with the last byte of the file, once.             *)
AnswerMeansWritten ==
  answered = IF Len(written) = Len(lens) - 1 THEN 1 ELSE 0

(* As long as no input was refused, every message is read as soon as it is *)
(* complete, although ikcp_recv gets the size of the last read as its      *)
(* buffer size (server_epoll.cc:347): the read that completes a message    *)
(* holds it whole.  After a refused input messages do stay behind.         *)
ReadAtOnce == rcv_queue # <<>> => refused

(* Reads cut segments in two, and both halves are lost; still every        *)
(* message reaches the server's queue, for the first segment of a flush    *)
(* into an empty stream is never cut.                                      *)
EveryMessageArrives == <>(rcv_nxt = Len(lens))
=============================================================================
