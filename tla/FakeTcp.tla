------------------------------- MODULE FakeTcp -------------------------------
(***************************************************************************)
(* The TCP connection a KcpClient plays over its raw socket                *)
(* (code/kcp/kcp_client.cc: start_hand_shake, tcp_client_cb, the header    *)
(* work of run_tcp_client, finish and the waving_ functions) against a     *)
(* server whose kernel has real TCP.                                       *)
(*                                                                         *)
(* The client keeps seq, CLIENT_SUM_SEND and server_ack_seq; it repeats no *)
(* data segment, and repeats its FIN only after unrelated packets kept it  *)
(* from the answer until a deadline.  Its threads client_loop and          *)
(* run_tcp_client go on beside the closing handshake until they look at    *)
(* stopFlag.  The server's part is what its kernel does with the segments: *)
(* it reassembles by number, acknowledges, drops a segment that            *)
(* acknowledges what was never sent, and what follows the end of the       *)
(* stream.                                                                 *)
(*                                                                         *)
(* Segments in transit are sets that only grow, so each may be lost, come  *)
(* late, twice or out of order.  Numbers count from the initial sequence   *)
(* numbers, 0 for each side; a data segment of the client has length 2, a  *)
(* FIN 1.  A deadline may pass at any look at the clock.                   *)
(***************************************************************************)
EXTENDS Integers, FiniteSets

CONSTANTS
  Segments,   \* bound: data segments of the client
  Replies,    \* bound: data segments of the server
  Fins,       \* bound: FINs of the client that differ
  Others      \* what else the raw socket receives: old or foreign segments

VARIABLES
  s_state,          \* the client's connection state
  pc,               \* "start", "handshake", "transfer", "waving", "returned"
                    \* or, at a failed assertion, "aborted"
  seq, CLIENT_SUM_SEND, server_ack_seq,
  loops,            \* the two threads: "none", "running", or client_loop is
                    \* "sending", in tcp_client_cb between sendto and count
  sent,             \* history: CLIENT_SUM_SEND when finish was called
  toServer, toClient,
  srv,              \* state of the server's socket
  got,              \* numbers of the client's data the kernel holds
  fins,             \* numbers of the client's FINs it holds
  snd_nxt           \* next number of the server

threads == <<loops, sent>>
client  == <<s_state, pc, seq, CLIENT_SUM_SEND, server_ack_seq, threads>>
server  == <<srv, got, fins, snd_nxt>>
vars    == <<client, toServer, toClient, server>>

(* SYN|ACK carries the maximum segment size, which the client takes for    *)
(* payload when it sees it after the handshake.                            *)
OptionLength == 2

(* The length of the client's data segments: a KCP segment has 24 bytes    *)
(* and more, so none is as long as a FIN.                                  *)
DataLength == 2

(* The data numbers of the client: seq is 1 or 2 when they are used.       *)
Last == DataLength * Segments

Flags == {"syn", "ack", "data", "fin", "rst"}

ToServer == [flag : {"syn", "ack", "data", "fin"}, seq : 0..Last + 2,
             ack_seq : 0..Replies + OptionLength + 2]

ToClient == [flag : Flags, seq : 0..Replies + 2, ack_seq : 0..Last + 3,
             mine : BOOLEAN]

ASSUME BoundAssumption == {Segments, Replies, Fins} \subseteq Nat
ASSUME OthersAssumption == Others \subseteq ToClient

(* The constructor takes rand() for seq: an old segment of the port does   *)
(* not acknowledge a number this connection uses.                          *)
ASSUME OldAssumption ==
  \A m \in Others : m.mine => m.ack_seq \notin 1..Last + 2

Init ==
  /\ s_state = "TCP_CLOSED" /\ pc = "start"
  /\ seq = 0 /\ CLIENT_SUM_SEND = 0 /\ server_ack_seq = 0
  /\ loops = "none" /\ sent = 0
  /\ toServer = {} /\ toClient = Others
  /\ srv = "listen" /\ got = {} /\ fins = {} /\ snd_nxt = 0

MutSegment(flag) == [flag |-> flag, ack_seq |-> server_ack_seq,
                     seq |-> IF flag = "fin" THEN seq ELSE seq + CLIENT_SUM_SEND]

(* build_ip_tcp_header and sendto. *)
Segment(flag) == [flag |-> flag, seq |-> seq + CLIENT_SUM_SEND,
                  ack_seq |-> server_ack_seq]

Length(m) == CASE m.flag = "data" -> 1
               [] m.flag = "syn"  -> OptionLength
               [] OTHER           -> 0

-----------------------------------------------------------------------------
(* The server's kernel and process.                                        *)

(* The first number that is missing.                                       *)
Missing(held) == CHOOSE n \in 1..Last + 2 :
                   n \notin held /\ 1..n - 1 \subseteq held

(* A FIN at the end of what is held takes a number too.                    *)
RcvNxt(held, ends) ==
  IF Missing(held) \in ends THEN Missing(held) + 1 ELSE Missing(held)

Answer(flag, held, ends) == [flag |-> flag, seq |-> snd_nxt,
                             ack_seq |-> RcvNxt(held, ends), mine |-> TRUE]

ServerSyn ==
  /\ srv \in {"listen", "synrcvd"}
  /\ \E m \in toServer : m.flag = "syn"
  /\ srv' = "synrcvd" /\ snd_nxt' = 1
  /\ toClient' = toClient \cup {[flag |-> "syn", seq |-> 0, ack_seq |-> 1,
                                 mine |-> TRUE]}
  /\ UNCHANGED <<client, toServer, got, fins>>

(* A segment that acknowledges the SYN|ACK opens the connection; one that  *)
(* acknowledges something else is answered with a reset.                   *)
ServerOpen ==
  /\ srv = "synrcvd"
  /\ \E m \in toServer :
       /\ m.flag # "syn"
       /\ IF m.ack_seq = 1
            THEN srv' = "established" /\ UNCHANGED toClient
            ELSE /\ toClient' = toClient \cup
                      {[flag |-> "rst", seq |-> 1, ack_seq |-> 0, mine |-> TRUE]}
                 /\ UNCHANGED srv
  /\ UNCHANGED <<client, toServer, got, fins, snd_nxt>>

Span(m) == IF m.flag = "data" THEN m.seq..m.seq + DataLength - 1 ELSE {}

(* Data takes the place of a FIN that waits at its numbers, and a FIN at a *)
(* number that is held is old.  Past the end of the stream all is dropped. *)
ServerTake ==
  /\ srv \in {"established", "close_wait", "last_ack"}
  /\ \E m \in toServer :
       /\ m.flag \in {"data", "fin"} /\ m.ack_seq <= snd_nxt /\ m.seq >= 1
       /\ IF srv = "established"
            THEN /\ got' = got \cup Span(m)
                 /\ fins' = IF m.flag = "fin" THEN fins \cup ({m.seq} \ got)
                                              ELSE fins \ Span(m)
            ELSE UNCHANGED <<got, fins>>
  /\ srv' = IF srv = "established" /\ Missing(got') \in fins'
              THEN "close_wait" ELSE srv
  /\ toClient' = toClient \cup {Answer("ack", got', fins')}
  /\ UNCHANGED <<client, toServer, snd_nxt>>

(* The update thread's ikcp_update sends until the handle is destroyed.    *)
ServerSend ==
  /\ srv \in {"established", "close_wait"} /\ snd_nxt <= Replies
  /\ toClient' = toClient \cup {Answer("data", got, fins)}
  /\ snd_nxt' = snd_nxt + 1
  /\ UNCHANGED <<client, toServer, srv, got, fins>>

ServerClose ==
  /\ srv = "close_wait"
  /\ toClient' = toClient \cup {Answer("fin", got, fins)}
  /\ snd_nxt' = snd_nxt + 1
  /\ srv' = "last_ack"
  /\ UNCHANGED <<client, toServer, got, fins>>

(* The process ends with data unread.                                      *)
ServerReset ==
  /\ srv \in {"established", "close_wait"}
  /\ toClient' = toClient \cup {Answer("rst", got, fins)}
  /\ srv' = "closed"
  /\ UNCHANGED <<client, toServer, got, fins, snd_nxt>>

ServerClosed ==
  /\ srv = "last_ack"
  /\ \E m \in toServer : m.flag # "syn" /\ m.ack_seq = snd_nxt
  /\ srv' = "closed"
  /\ UNCHANGED <<client, toServer, toClient, got, fins, snd_nxt>>

-----------------------------------------------------------------------------
(* start_hand_shake.                                                       *)

SendSyn ==
  /\ pc = "start"
  /\ toServer' = toServer \cup {Segment("syn")}
  /\ s_state' = "TCP_SYN_SEND"
  /\ pc' \in {"handshake", "returned"}
  /\ UNCHANGED <<seq, CLIENT_SUM_SEND, server_ack_seq, threads, toClient,
                 server>>

(* A FIN for the port is answered with one FIN, and nothing more.          *)
HandshakeFin ==
  /\ pc = "handshake"
  /\ \E m \in toClient : m.mine /\ m.flag = "fin"
  /\ toServer' = toServer \cup {Segment("fin")}
  /\ s_state' = "TCP_FIN_WAIT1" /\ pc' = "returned"
  /\ UNCHANGED <<seq, CLIENT_SUM_SEND, server_ack_seq, threads, toClient,
                 server>>

MutAcksSyn(m) == TRUE

AcksSyn(m) == m.ack_seq = seq + 1

(* Established, the client starts its threads (kcp_client_start).          *)
HandshakeAnswer ==
  /\ pc = "handshake"
  /\ \E m \in toClient :
       /\ m.mine /\ m.flag # "fin"
       /\ IF AcksSyn(m)
            THEN /\ seq' = seq + 1 /\ server_ack_seq' = m.seq + 1
                 /\ toServer' = toServer \cup
                      {[flag |-> "ack", seq |-> seq' + CLIENT_SUM_SEND,
                        ack_seq |-> server_ack_seq']}
                 /\ s_state' = "TCP_ESTABLISHED" /\ pc' = "transfer"
                 /\ loops' = "running"
            ELSE /\ pc' = "returned"
                 /\ UNCHANGED <<s_state, seq, server_ack_seq, loops, toServer>>
  /\ UNCHANGED <<CLIENT_SUM_SEND, sent, toClient, server>>

(* The deadline is looked at after a packet of another connection only.    *)
HandshakeTimeout ==
  /\ pc = "handshake"
  /\ \E m \in toClient : ~ m.mine
  /\ pc' = "returned"
  /\ UNCHANGED <<s_state, seq, CLIENT_SUM_SEND, server_ack_seq, threads,
                 toServer, toClient, server>>

-----------------------------------------------------------------------------
(* The threads: tcp_client_cb sends what ikcp_flush puts out, and counts   *)
(* it afterwards; run_tcp_client notes the number after every packet it    *)
(* receives.  main neither stops nor awaits client_loop before it closes   *)
(* the connection, and goes without run_tcp_client where finish_loop, not  *)
(* initialised, reads TRUE.                                                *)

Output ==
  /\ loops = "running" /\ pc # "aborted" /\ CLIENT_SUM_SEND < Last
  /\ toServer' = toServer \cup {Segment("data")}
  /\ loops' = "sending"
  /\ UNCHANGED <<s_state, pc, seq, CLIENT_SUM_SEND, server_ack_seq, sent,
                 toClient, server>>

OutputCounted ==
  /\ loops = "sending" /\ pc # "aborted"
  /\ CLIENT_SUM_SEND' = CLIENT_SUM_SEND + DataLength
  /\ loops' = "running"
  /\ UNCHANGED <<s_state, pc, seq, server_ack_seq, sent, toServer, toClient,
                 server>>

Receive ==
  /\ loops # "none" /\ pc # "aborted"
  /\ \E m \in toClient : m.mine /\ server_ack_seq' = m.seq + Length(m)
  /\ UNCHANGED <<s_state, pc, seq, CLIENT_SUM_SEND, threads, toServer, toClient,
                 server>>

(* stopFlag, which send_file sets before finish, and Close after it.       *)
stopFlag == pc \in {"waving", "returned"}

EndLoops ==
  /\ loops = "running" /\ stopFlag
  /\ loops' = "none"
  /\ UNCHANGED <<s_state, pc, seq, CLIENT_SUM_SEND, server_ack_seq, sent,
                 toServer, toClient, server>>

(* send_file goes on to finish, or gives up at one of its deadlines.       *)
EndTransfer ==
  /\ pc = "transfer"
  /\ \/ pc' = "waving" /\ sent' = CLIENT_SUM_SEND
     \/ pc' = "returned" /\ UNCHANGED sent
  /\ UNCHANGED <<s_state, seq, CLIENT_SUM_SEND, server_ack_seq, loops, toServer,
                 toClient, server>>

-----------------------------------------------------------------------------
(* finish: start_waving again and again, by s_state.                       *)

WavingSendFin ==
  /\ pc = "waving" /\ s_state = "TCP_ESTABLISHED"
  /\ toServer' = toServer \cup {Segment("fin")}
  /\ Cardinality({m \in toServer' : m.flag = "fin"}) <= Fins
  /\ s_state' = "TCP_FIN_WAIT1"
  /\ UNCHANGED <<pc, seq, CLIENT_SUM_SEND, server_ack_seq, threads, toClient,
                 server>>

MutAcksFin(m) == m.mine /\ m.ack_seq >= seq + CLIENT_SUM_SEND

AcksFin(m) == m.mine /\ m.ack_seq = seq + CLIENT_SUM_SEND + 1

(* The client's FIN takes a number once the server's has come.             *)
Counted(m) == IF m.flag = "fin" THEN seq + 1 ELSE seq

(* A reset ends the wait whatever its port; other packets go by until the  *)
(* deadline, when the FIN is to be sent again.                             *)
WavingRecvAck ==
  /\ pc = "waving" /\ s_state = "TCP_FIN_WAIT1"
  /\ \E m \in toClient :
       \/ /\ m.flag = "rst"
          /\ s_state' = "TCP_CLOSING"
          /\ UNCHANGED <<seq, server_ack_seq>>
       \/ /\ m.flag = "fin" /\ AcksFin(m)
          /\ s_state' = "TCP_CLOSE_WAIT"
          /\ seq' = Counted(m) /\ server_ack_seq' = m.seq + 1
       \/ /\ m.flag \notin {"rst", "fin"} /\ AcksFin(m)
          /\ s_state' = "TCP_FIN_WAIT2"
          /\ seq' = Counted(m) /\ UNCHANGED server_ack_seq
       \/ /\ m.flag # "rst" /\ ~ AcksFin(m)
          /\ s_state' = "TCP_ESTABLISHED"
          /\ UNCHANGED <<seq, server_ack_seq>>
  /\ UNCHANGED <<pc, CLIENT_SUM_SEND, threads, toServer, toClient, server>>

(* A packet for the port has to be a reset or a FIN.                       *)
WavingRecvFin ==
  /\ pc = "waving" /\ s_state = "TCP_FIN_WAIT2"
  /\ \E m \in toClient :
       \/ /\ m.mine /\ m.flag = "rst"
          /\ s_state' = "TCP_CLOSING"
          /\ UNCHANGED <<pc, seq, server_ack_seq>>
       \/ /\ m.mine /\ m.flag = "fin"
          /\ s_state' = "TCP_CLOSE_WAIT"
          /\ seq' = Counted(m) /\ server_ack_seq' = m.seq + 1
          /\ UNCHANGED pc
       \/ /\ m.mine /\ m.flag \notin {"rst", "fin"}
          /\ pc' = "aborted"
          /\ UNCHANGED <<s_state, seq, server_ack_seq>>
       \/ /\ ~ m.mine
          /\ s_state' = "TCP_ESTABLISHED"
          /\ UNCHANGED <<pc, seq, server_ack_seq>>
  /\ UNCHANGED <<CLIENT_SUM_SEND, threads, toServer, toClient, server>>

WavingSendAck ==
  /\ pc = "waving" /\ s_state = "TCP_CLOSE_WAIT"
  /\ toServer' = toServer \cup {Segment("ack")}
  /\ s_state' = "TCP_CLOSING"
  /\ UNCHANGED <<pc, seq, CLIENT_SUM_SEND, server_ack_seq, threads, toClient,
                 server>>

(* finish returns in TCP_CLOSING or when its own time is up.               *)
Finish ==
  /\ pc = "waving"
  /\ pc' = "returned"
  /\ UNCHANGED <<s_state, seq, CLIENT_SUM_SEND, server_ack_seq, threads,
                 toServer, toClient, server>>

-----------------------------------------------------------------------------
Server == \/ ServerSyn \/ ServerOpen \/ ServerTake \/ ServerSend
          \/ ServerClose \/ ServerReset \/ ServerClosed

Client == \/ SendSyn \/ HandshakeFin \/ HandshakeAnswer \/ HandshakeTimeout
          \/ Output \/ OutputCounted \/ Receive \/ EndLoops \/ EndTransfer
          \/ WavingSendFin \/ WavingRecvAck \/ WavingRecvFin \/ WavingSendAck
          \/ Finish

Next == Server \/ Client

Spec == Init /\ [][Next]_vars

-----------------------------------------------------------------------------
(* Types.  The client's SYN and FIN take one number each, no more.         *)
TypeOK ==
  /\ s_state \in {"TCP_CLOSED", "TCP_SYN_SEND", "TCP_ESTABLISHED",
                  "TCP_FIN_WAIT1", "TCP_FIN_WAIT2", "TCP_CLOSE_WAIT",
                  "TCP_CLOSING"}
  /\ pc \in {"start", "handshake", "transfer", "waving", "returned", "aborted"}
  /\ seq \in 0..2 /\ {CLIENT_SUM_SEND, sent} \subseteq 0..Last
  /\ loops \in {"none", "running", "sending"}
  /\ server_ack_seq \in 0..Replies + OptionLength + 2
  /\ toServer \subseteq ToServer /\ toClient \subseteq ToClient
  /\ srv \in {"listen", "synrcvd", "established", "close_wait", "last_ack",
              "closed"}
  /\ got \subseteq 1..Last + 1 /\ fins \subseteq 1..Last + 1
  /\ snd_nxt \in 0..Replies + 2

(* A client that takes its connection for established was answered by the  *)
(* server's kernel for this very SYN, old segments of its port or not.     *)
EstablishedWasAnswered ==
  pc \in {"transfer", "waving"} => srv # "listen" /\ seq >= 1

(* When the client sees its FIN acknowledged, the server's kernel has      *)
(* taken that FIN and all data counted so far, although no segment was     *)
(* ever sent twice and client_loop may send more beside the FIN.           *)
AckedFinMeansDelivered ==
  [][s_state = "TCP_FIN_WAIT1" /\ s_state' \in {"TCP_FIN_WAIT2", "TCP_CLOSE_WAIT"}
       => 1..CLIENT_SUM_SEND \subseteq got /\ CLIENT_SUM_SEND + 1 \in fins]_vars

(* The server's process reads the end of the stream only behind everything *)
(* the client had put out when it began to close, however late, lost or    *)
(* reordered, and whatever client_loop sends after the FIN.                *)
EndOfStreamIsComplete ==
  srv \in {"close_wait", "last_ack"} => 1..sent \subseteq got

(* assert(info.fin) of waving_recv_fin.                                    *)
AssertFin == pc # "aborted"
=============================================================================
