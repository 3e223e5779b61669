---------------------------- MODULE ClientThreads ----------------------------
(***************************************************************************)
(* The three threads of one KcpClient (code/kcp/kcp_client.cc) from        *)
(* send_file to the destructor: the thread that called start_hand_shake    *)
(* (main), client_loop (loop) and run_tcp_client (recv).  They share the   *)
(* control block m_kcp, kcp_mutex, the raw socket and three flags.         *)
(*                                                                         *)
(* The threads are detached: main learns that recv has ended from          *)
(* finish_loop only, waits for it at most WaitTime (3 s), while recv may   *)
(* sit in select for SelectTime (5 s).  Time is counted in ticks; no tick  *)
(* passes while a thread can go on, and the socket is always writable.     *)
(*                                                                         *)
(* The constructor does not initialise finish_loop: it starts with         *)
(* whatever its memory holds, which garbage remembers.                     *)
(***************************************************************************)
EXTENDS Integers, Sequences

CONSTANTS
  Messages,        \* messages of the file, the one with its name included
  WaitTime,        \* ticks of every wait of main
  SelectTime,      \* ticks of recv's select
  ArriveCap        \* bound: packets the socket receives

ASSUME MessagesAssumption == Messages \in Nat \ {0}
ASSUME TimeAssumption     == {WaitTime, SelectTime, ArriveCap} \subseteq Nat

VARIABLES
  mpc,          \* where main is
  caller,       \* who called Close: "send_file" or "destructor"
  mwait,        \* ticks left of main's wait
  lpc,          \* where client_loop is
  rpc,          \* where run_tcp_client is
  rwait,        \* ticks left of its select
  packet,       \* the packet recv works on
  data,         \* "send_finish" messages ikcp_recv has ready
  m_kcp,        \* the control block: "live", "released" or "null"
  stopFlag, finishSend, finish_loop,
  garbage,      \* history: what finish_loop held after construction
  queued,       \* messages given to ikcp_send
  flushed,      \* messages ikcp_flush has put on the network
  acked,        \* messages acknowledged
  socket,       \* packets in the raw socket
  arrived       \* packets that came so far

main  == <<mpc, caller, mwait>>
recv  == <<rpc, rwait, packet, data>>
flags == <<stopFlag, finishSend, finish_loop, garbage>>
kcb   == <<queued, flushed, acked>>
net   == <<socket, arrived>>
vars  == <<main, lpc, recv, m_kcp, flags, kcb, net>>

(* A segment of the server carries una, the number it expects next; its    *)
(* "send_finish" follows the whole file.  Junk is what ikcp_input refuses, *)
(* with or without the FIN flag, and other a packet without payload or of  *)
(* another connection.                                                     *)
Packet == [kind : {"ack", "finish"}, una : 0..Messages]
            \cup {[kind |-> k, una |-> 0] : k \in {"junk", "junkfin", "other"}}

Init ==
  /\ mpc = "start" /\ caller = "send_file" /\ mwait = 0
  /\ lpc = "none" /\ rpc = "none" /\ rwait = 0
  /\ packet = [kind |-> "other", una |-> 0] /\ data = 0
  /\ m_kcp = "live"
  /\ stopFlag = FALSE /\ finishSend = FALSE
  /\ finish_loop \in BOOLEAN /\ garbage = finish_loop
  /\ queued = 0 /\ flushed = 0 /\ acked = 0
  /\ socket = <<>> /\ arrived = 0

LoopLocks == lpc = "update"
RecvLocks == rpc \in {"update", "input", "recv"}
Unlocked  == ~ LoopLocks /\ ~ RecvLocks

Waitsnd == queued - acked

-----------------------------------------------------------------------------
(* The server and the network.                                             *)

Sent == [kind : {"ack"}, una : 0..flushed]
          \cup (IF flushed = Messages
                  THEN [kind : {"finish"}, una : {Messages}] ELSE {})
          \cup [kind : {"junk", "junkfin", "other"}, una : {0}]

Arrive ==
  /\ arrived < ArriveCap /\ mpc # "gone"
  /\ \E p \in Sent : socket' = Append(socket, p)
  /\ arrived' = arrived + 1
  /\ UNCHANGED <<main, lpc, recv, m_kcp, flags, kcb>>

-----------------------------------------------------------------------------
(* main: send_file, Close and the destructor.                              *)

(* kcp_client_start, then the file is opened, or Close is called.          *)
Start ==
  /\ mpc = "start"
  /\ stopFlag' = FALSE
  /\ lpc' = "check" /\ rpc' = "check"
  /\ mpc' \in {"send", "close"}
  /\ UNCHANGED <<caller, mwait, rwait, packet, data, m_kcp, finishSend,
                 finish_loop, garbage, kcb, net>>

SendMessage ==
  /\ mpc = "send" /\ Unlocked
  /\ queued' = queued + 1
  /\ IF queued' = Messages THEN mpc' = "answer" /\ mwait' = WaitTime
                           ELSE UNCHANGED <<mpc, mwait>>
  /\ UNCHANGED <<caller, lpc, recv, m_kcp, flags, flushed, acked, net>>

MutExpired == FALSE

Expired == mwait = 0

Answered == finishSend

AwaitAnswer ==
  /\ mpc = "answer"
  /\ \/ Answered /\ mpc' = "drain" /\ mwait' = WaitTime
     \/ ~ Answered /\ Expired /\ mpc' = "close" /\ UNCHANGED mwait
  /\ UNCHANGED <<caller, lpc, recv, m_kcp, flags, kcb, net>>

(* Until ikcp_waitsnd is 0; at the deadline send_file returns.             *)
Drain ==
  /\ mpc = "drain" /\ Unlocked
  /\ Waitsnd = 0 \/ Expired
  /\ mpc' = IF Waitsnd = 0 THEN "loopend" ELSE "destroy"
  /\ mwait' = WaitTime
  /\ stopFlag' = (stopFlag \/ Waitsnd = 0)
  /\ UNCHANGED <<caller, lpc, recv, m_kcp, finishSend, finish_loop, garbage, kcb,
                 net>>

MutLoopEnded == TRUE

LoopEnded == finish_loop

AwaitLoop ==
  /\ mpc = "loopend"
  /\ \/ LoopEnded /\ mpc' = "waving" /\ mwait' = WaitTime
     \/ ~ LoopEnded /\ Expired /\ mpc' = "destroy" /\ UNCHANGED mwait
  /\ UNCHANGED <<caller, lpc, recv, m_kcp, flags, kcb, net>>

(* finish: main itself reads the socket, until the connection is closed or *)
(* its time is up.                                                         *)
WavingRead ==
  /\ mpc = "waving" /\ socket # <<>>
  /\ socket' = Tail(socket)
  /\ UNCHANGED <<main, lpc, recv, m_kcp, flags, kcb, arrived>>

WavingEnd ==
  /\ mpc = "waving"
  /\ mpc' = "destroy"
  /\ UNCHANGED <<caller, mwait, lpc, recv, m_kcp, flags, kcb, net>>

Close ==
  /\ mpc = "close"
  /\ stopFlag' = TRUE
  /\ mpc' = "closing" /\ mwait' = WaitTime
  /\ UNCHANGED <<caller, lpc, recv, m_kcp, finishSend, finish_loop, garbage, kcb,
                 net>>

MutReturned == "gone"

(* Close returns to send_file or to the destructor.                        *)
Returned == IF caller = "send_file" THEN "destroy" ELSE "gone"

MutRecvEnded == TRUE

RecvEnded == finish_loop

AwaitClose ==
  /\ mpc = "closing"
  /\ \/ RecvEnded /\ m_kcp' = "released" /\ mpc' = "release"
     \/ ~ RecvEnded /\ Expired /\ mpc' = Returned /\ UNCHANGED m_kcp
  /\ UNCHANGED <<caller, mwait, lpc, recv, flags, kcb, net>>

(* ikcp_release has returned; kcp_mutex is not taken.                      *)
Release ==
  /\ mpc = "release"
  /\ m_kcp' = "null"
  /\ mpc' = Returned
  /\ UNCHANGED <<caller, mwait, lpc, recv, flags, kcb, net>>

(* The owner destroys the client: Close once more, then close(fd) and the  *)
(* memory is gone.                                                         *)
Destroy ==
  /\ mpc = "destroy"
  /\ caller' = "destructor"
  /\ mpc' = IF m_kcp = "null" THEN "gone" ELSE "close"
  /\ UNCHANGED <<mwait, lpc, recv, m_kcp, flags, kcb, net>>

-----------------------------------------------------------------------------
(* client_loop: ikcp_update under the mutex every millisecond.  Calling an *)
(* ikcp_ function with a control block that is gone ends the process (the  *)
(* build stops at uses of freed memory): no step follows.                  *)

LoopCheck ==
  /\ lpc = "check"
  /\ lpc' = IF stopFlag THEN "ended" ELSE "lock"
  /\ UNCHANGED <<main, recv, m_kcp, flags, kcb, net>>

LoopLock ==
  /\ lpc = "lock" /\ Unlocked /\ m_kcp = "live"
  /\ lpc' = "update"
  /\ UNCHANGED <<main, recv, m_kcp, flags, kcb, net>>

LoopUpdate ==
  /\ lpc = "update"
  /\ flushed' = queued
  /\ lpc' = "sleep"
  /\ UNCHANGED <<main, recv, m_kcp, flags, queued, acked, net>>

LoopWake ==
  /\ lpc = "sleep"
  /\ lpc' = "check"
  /\ UNCHANGED <<main, recv, m_kcp, flags, kcb, net>>

-----------------------------------------------------------------------------
(* run_tcp_client.                                                         *)

MutStopped == FALSE

Stopped == stopFlag

RecvCheck ==
  /\ rpc = "check"
  /\ rpc' = IF Stopped THEN "leave" ELSE "lock"
  /\ UNCHANGED <<main, lpc, rwait, packet, data, m_kcp, flags, kcb, net>>

RecvLock ==
  /\ Unlocked /\ m_kcp = "live"
  /\ LET held == [lock |-> "update", lockinput |-> "input", lockrecv |-> "recv"]
     IN rpc \in DOMAIN held /\ rpc' = held[rpc]
  /\ UNCHANGED <<main, lpc, rwait, packet, data, m_kcp, flags, kcb, net>>

RecvUpdate ==
  /\ rpc = "update"
  /\ flushed' = queued
  /\ rpc' = "select" /\ rwait' = SelectTime
  /\ UNCHANGED <<main, lpc, packet, data, m_kcp, flags, queued, acked, net>>

(* select and recvfrom; a packet without payload is passed over.           *)
Select ==
  /\ rpc = "select"
  /\ \/ /\ socket # <<>>
        /\ packet' = Head(socket) /\ socket' = Tail(socket)
        /\ rpc' = IF packet'.kind = "other" THEN "check" ELSE "lockinput"
     \/ /\ socket = <<>> /\ rwait = 0
        /\ rpc' = "check"
        /\ UNCHANGED <<packet, socket>>
  /\ UNCHANGED <<main, lpc, rwait, data, m_kcp, flags, kcb, arrived>>

Finishes(p) == p.kind = "finish"

MutParseUna(p) == acked

(* ikcp_input takes the una of every segment, one with a message too.      *)
ParseUna(p) == IF p.una > acked THEN p.una ELSE acked

Input ==
  /\ rpc = "input"
  /\ acked' = ParseUna(packet)
  /\ data' = IF Finishes(packet) THEN data + 1 ELSE data
  /\ rpc' = CASE packet.kind = "junk"    -> "check"
              [] packet.kind = "junkfin" -> "leave"
              [] OTHER                   -> "lockrecv"
  /\ UNCHANGED <<main, lpc, rwait, packet, m_kcp, flags, queued, flushed, net>>

(* ikcp_recv has nothing. *)
Exhausted == data = 0

(* ikcp_recv until it has nothing; every message here is "send_finish".    *)
Recv ==
  /\ rpc = "recv"
  /\ IF Exhausted
       THEN rpc' = "check" /\ UNCHANGED <<data, finishSend>>
       ELSE rpc' = "lockrecv" /\ data' = data - 1 /\ finishSend' = TRUE
  /\ UNCHANGED <<main, lpc, rwait, packet, m_kcp, stopFlag, finish_loop, garbage,
                 kcb, net>>

Leave ==
  /\ rpc = "leave"
  /\ finish_loop' = TRUE
  /\ rpc' = "ended"
  /\ UNCHANGED <<main, lpc, rwait, packet, data, m_kcp, stopFlag, finishSend,
                 garbage, kcb, net>>

-----------------------------------------------------------------------------
(* Time.  It passes when every thread sleeps or is over.                   *)

MainSleeps ==
  \/ mpc = "answer" /\ ~ Answered /\ mwait > 0
  \/ mpc = "drain" /\ Waitsnd # 0 /\ mwait > 0
  \/ mpc = "loopend" /\ ~ LoopEnded /\ mwait > 0
  \/ mpc = "closing" /\ ~ RecvEnded /\ mwait > 0
  \/ mpc = "waving" /\ socket = <<>> /\ mwait > 0
  \/ mpc = "gone"

RecvSleeps ==
  \/ rpc = "ended"
  \/ rpc = "select" /\ socket = <<>> /\ rwait > 0

Tick ==
  /\ MainSleeps /\ RecvSleeps /\ lpc \in {"sleep", "ended"}
  /\ mpc # "gone" \/ rpc # "ended" \/ lpc # "ended"
  /\ mwait' = IF mwait > 0 THEN mwait - 1 ELSE 0
  /\ rwait' = IF rwait > 0 THEN rwait - 1 ELSE 0
  /\ lpc' = IF lpc = "sleep" THEN "check" ELSE lpc
  /\ UNCHANGED <<mpc, caller, rpc, packet, data, m_kcp, flags, kcb, net>>

-----------------------------------------------------------------------------
MainThread == \/ Start \/ SendMessage \/ AwaitAnswer \/ Drain \/ AwaitLoop
              \/ WavingRead \/ WavingEnd \/ Close \/ AwaitClose \/ Release
              \/ Destroy

LoopThread == LoopCheck \/ LoopLock \/ LoopUpdate

RecvThread == \/ RecvCheck \/ RecvLock \/ RecvUpdate \/ Select \/ Input
              \/ Recv \/ Leave

Next == MainThread \/ LoopThread \/ LoopWake \/ RecvThread \/ Arrive \/ Tick

Spec == Init /\ [][Next]_vars

(* The threads run and time passes.  No thread starves for kcp_mutex: the  *)
(* loop and main sleep a millisecond between two uses, recv in select.     *)
Fairness ==
  /\ WF_vars(MainThread) /\ WF_vars(RecvThread) /\ WF_vars(LoopThread)
  /\ SF_vars(SendMessage) /\ SF_vars(Drain)
  /\ SF_vars(RecvLock) /\ SF_vars(LoopLock)
  /\ SF_vars(Tick)

FairSpec == Spec /\ Fairness

-----------------------------------------------------------------------------
(* Types.  run_tcp_client holds at most one answer it has not read.        *)
TypeOK ==
  /\ mpc \in {"start", "send", "answer", "drain", "loopend", "waving", "close",
              "closing", "release", "destroy", "gone"}
  /\ caller \in {"send_file", "destructor"} /\ mwait \in 0..WaitTime
  /\ lpc \in {"none", "check", "lock", "update", "sleep", "ended"}
  /\ rpc \in {"none", "check", "lock", "update", "select", "lockinput", "input",
              "lockrecv", "recv", "leave", "ended"}
  /\ rwait \in 0..SelectTime /\ packet \in Packet /\ data \in 0..1
  /\ m_kcp \in {"live", "released", "null"}
  /\ {stopFlag, finishSend, finish_loop, garbage} \subseteq BOOLEAN
  /\ queued \in 0..Messages /\ flushed \in 0..queued /\ acked \in 0..flushed
  /\ arrived \in 0..ArriveCap
  /\ \A i \in 1..Len(socket) : socket[i] \in Packet

(* When the server's answer was read nothing is left to be acknowledged:   *)
(* the answer's own una covers the file, so the wait on ikcp_waitsnd that  *)
(* follows never takes its deadline, which would leave without Close.      *)
AnswerMeansDrained == finishSend => Waitsnd = 0

(* The FIN goes out only after the whole file was acknowledged and the     *)
(* server has answered.                                                    *)
FinAfterAnswer == mpc = "waving" => finishSend /\ acked = Messages

(* Unless finish_loop started TRUE, main reads the socket for the closing  *)
(* handshake only once recv is over: no thread takes the segment the other *)
(* waits for.                                                              *)
OneReader == mpc = "waving" => rpc = "ended" \/ garbage

(* Nothing but a finish_loop that started TRUE releases the control block  *)
(* while recv is in an ikcp_ function.                                     *)
ReceiverUsesLive == RecvLocks => m_kcp = "live" \/ garbage

(* When the client's memory goes, recv is over: two waits of 3 s outlast   *)
(* its select of 5 s, whichever way send_file returned.  Only a            *)
(* finish_loop that started TRUE cuts these waits short.                   *)
ReceiverOutlived == mpc = "gone" => rpc = "ended" \/ garbage

(* assert(kcp) of ikcp_recv: when recv is about to call it, the pointer it *)
(* will pass is not null (a null m_kcp stays null).                        *)
AssertKcp == rpc = "lockrecv" => m_kcp # "null"

(* send_file and the destructor return whatever the server does.           *)
ClientEnds == <>(mpc = "gone")

(* Once the client stops, recv ends, unless the control block was taken    *)
(* from under it.                                                          *)
ReceiverEnds == stopFlag ~> rpc = "ended" \/ m_kcp # "live"
=============================================================================
