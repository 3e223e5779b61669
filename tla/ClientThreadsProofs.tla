------------------------- MODULE ClientThreadsProofs ------------------------
(***************************************************************************)
(* What TLAPS proves of ClientThreads, for any number of messages and any  *)
(* deadlines: the FIN follows the answer, and unless finish_loop started   *)
(* TRUE, main reads the socket alone, run_tcp_client never uses a control  *)
(* block that is gone, and, if main's two waits together are longer than   *)
(* its select, is over before the object goes.                             *)
(***************************************************************************)
EXTENDS ClientThreads, TLAPS

(* A packet that may be in the socket when fl messages are on the network. *)
Genuine(p, fl) ==
  /\ p \in Packet /\ p.una <= fl
  /\ p.kind = "finish" => p.una = Messages

(* What the server said, and what was made of it.                          *)
Counts ==
  /\ socket \in Seq(Packet)
  /\ \A i \in 1..Len(socket) : Genuine(socket[i], flushed)
  /\ Genuine(packet, flushed)
  /\ mpc \in {"start", "send"} => queued < Messages
  /\ data = 1 => rpc \in {"lockrecv", "recv"} /\ acked = Messages
  /\ finishSend => acked = Messages

(* Where main can be, with which flags.                                    *)
Phases ==
  /\ mpc = "start" <=> rpc = "none"
  /\ mpc \in {"drain", "loopend", "waving"} => finishSend
  /\ caller = "destructor" => mpc \in {"close", "closing", "release", "gone"}
  /\ mpc = "gone" => caller = "destructor"
  /\ \/ mpc \in {"loopend", "waving", "closing", "release", "destroy", "gone"}
     \/ mpc = "close" /\ caller = "destructor"
     => stopFlag

(* finish_loop, and what main concludes from it, rightly unless it held    *)
(* TRUE from the start.                                                    *)
Ended ==
  ~ garbage =>
    /\ finish_loop => rpc = "ended"
    /\ m_kcp # "live" => rpc = "ended"
    /\ mpc \in {"waving", "release"} => rpc = "ended"

(* The ticks since stopFlag was set, by the wait main is in.               *)
Waited ==
  CASE mpc \in {"loopend", "closing"} /\ caller = "send_file"  -> WaitTime - mwait
    [] mpc = "closing" /\ caller = "destructor" -> 2 * WaitTime - mwait
    [] mpc = "destroy" -> WaitTime
    [] mpc = "close" /\ caller = "destructor" -> WaitTime
    [] mpc = "gone" -> 2 * WaitTime
    [] OTHER -> 0

(* Once a tick has passed since then, run_tcp_client is in the select it   *)
(* was in, or on its way from there to its end.                            *)
OnTime ==
  ~ garbage /\ Waited > 0 /\ rpc # "ended" =>
    /\ rpc \in {"select", "lockinput", "input", "lockrecv", "recv", "check",
                "leave"}
    /\ Waited <= SelectTime
    /\ rpc = "select" => rwait + Waited <= SelectTime

(* The inductive invariant.                                                *)
IndInv == TypeOK /\ Counts /\ Phases /\ Ended /\ OnTime

LEMMA Bounds ==
  /\ Messages \in Nat /\ Messages > 0
  /\ WaitTime \in Nat /\ SelectTime \in Nat /\ ArriveCap \in Nat
BY MessagesAssumption, TimeAssumption

LEMMA InitEstablishes == Init => IndInv
<1>. SUFFICES ASSUME Init PROVE IndInv
  OBVIOUS
<1>1. packet \in Packet /\ packet.una = 0 /\ packet.kind = "other"
  BY DEF Init, Packet
<1>2. TypeOK
  <2>1. Len(socket) = 0 /\ {finish_loop, garbage} \subseteq BOOLEAN
    BY DEF Init
  <2>2. \A i \in 1..Len(socket) : socket[i] \in Packet
    BY <2>1
  <2>3. {stopFlag, finishSend, finish_loop, garbage} \subseteq BOOLEAN
    BY <2>1 DEF Init
  <2>4. /\ queued \in 0..Messages /\ flushed \in 0..queued /\ acked \in 0..flushed
        /\ arrived \in 0..ArriveCap /\ data \in 0..1
        /\ mwait \in 0..WaitTime /\ rwait \in 0..SelectTime
    BY Bounds DEF Init
  <2>. QED
    BY <1>1, <2>2, <2>3, <2>4 DEF Init, TypeOK
<1>3. Counts
  BY <1>1, Bounds DEF Init, Counts, Genuine
<1>4. Phases /\ Ended
  BY DEF Init, Phases, Ended
<1>5. OnTime
  BY DEF Init, OnTime, Waited
<1>. QED
  BY <1>2, <1>3, <1>4, <1>5 DEF IndInv

-----------------------------------------------------------------------------
(* main. *)

LEMMA StartPreserves == ASSUME IndInv, Start PROVE IndInv'
<1>. USE DEF Start, flags, kcb, net
<1>1. TypeOK'
  BY DEF IndInv, TypeOK
<1>2. Counts'
  BY DEF IndInv, Counts, Genuine, Phases
<1>3. Phases' /\ Ended'
  BY DEF IndInv, Phases, Ended, TypeOK
<1>4. OnTime'
  BY DEF IndInv, Phases, OnTime, Waited
<1>. QED
  BY <1>1, <1>2, <1>3, <1>4 DEF IndInv

LEMMA SendPreserves == ASSUME IndInv, SendMessage PROVE IndInv'
<1>. USE DEF SendMessage, recv, flags, net
<1>1. TypeOK'
  BY Bounds DEF IndInv, TypeOK, Counts
<1>2. Counts'
  BY Bounds DEF IndInv, TypeOK, Counts, Genuine
<1>3. Phases' /\ Ended'
  BY DEF IndInv, Phases, Ended, TypeOK
<1>4. OnTime'
  BY DEF IndInv, Phases, OnTime, Waited
<1>. QED
  BY <1>1, <1>2, <1>3, <1>4 DEF IndInv
(* finishSend means that nothing is left to be acknowledged.               *)
LEMMA AnsweredIsDrained ==
  ASSUME TypeOK, Counts, finishSend PROVE Waitsnd = 0 /\ acked = Messages
BY Bounds DEF TypeOK, Counts, Waitsnd

(* The steps of main that change nothing but its own state, stopFlag and   *)
(* m_kcp: what the other threads and the network have stays.               *)
Others == <<lpc, rpc, rwait, packet, data, finishSend, finish_loop, garbage, kcb, net>>

LEMMA MainPreserves ==
  ASSUME IndInv, UNCHANGED Others,
         mpc' \in {"answer", "drain", "loopend", "waving", "close", "closing",
                   "release", "destroy", "gone"},
         mpc # "start",
         caller' \in {"send_file", "destructor"}, mwait' \in 0..WaitTime,
         m_kcp' \in {"live", "released", "null"}, stopFlag' \in BOOLEAN,
         Phases', Ended', OnTime'
  PROVE  IndInv'
<1>. USE DEF Others, kcb, net
<1>1. TypeOK'
  BY DEF IndInv, TypeOK
<1>2. Counts'
  BY DEF IndInv, Counts, Genuine
<1>. QED
  BY <1>1, <1>2 DEF IndInv

LEMMA AwaitAnswerPreserves == ASSUME IndInv, AwaitAnswer PROVE IndInv'
<1>. USE DEF AwaitAnswer, recv, flags
<1>1. mwait' \in 0..WaitTime
  BY Bounds DEF IndInv, TypeOK
<1>2. Phases' /\ Ended'
  BY DEF IndInv, Phases, Ended, TypeOK, Answered
<1>3. OnTime'
  BY DEF IndInv, Phases, OnTime, Waited
<1>. QED
  BY <1>1, <1>2, <1>3, MainPreserves DEF IndInv, TypeOK, Others

LEMMA DrainPreserves == ASSUME IndInv, Drain PROVE IndInv'
<1>. USE DEF Drain, recv
<1>1. Waitsnd = 0 /\ finishSend
  BY AnsweredIsDrained DEF IndInv, Phases
<1>2. mpc' = "loopend" /\ stopFlag' = TRUE /\ mwait' = WaitTime
  BY <1>1
<1>3. Phases' /\ Ended'
  BY <1>1, <1>2 DEF IndInv, Phases, Ended, TypeOK
<1>4. OnTime'
  BY <1>2, Bounds DEF IndInv, Phases, OnTime, Waited
<1>. QED
  BY <1>2, <1>3, <1>4, Bounds, MainPreserves DEF IndInv, TypeOK, Others

LEMMA AwaitLoopPreserves == ASSUME IndInv, AwaitLoop PROVE IndInv'
<1>. USE DEF AwaitLoop, recv, flags
<1>1. mwait' \in 0..WaitTime
  BY Bounds DEF IndInv, TypeOK
<1>2. Phases' /\ Ended'
  BY DEF IndInv, Phases, Ended, TypeOK, LoopEnded
<1>3. OnTime'
  <2>1. CASE LoopEnded
    BY <2>1 DEF IndInv, Ended, OnTime, LoopEnded
  <2>2. CASE ~ LoopEnded
    <3>1. /\ mwait = 0 /\ mpc = "loopend" /\ mpc' = "destroy"
          /\ caller = "send_file" /\ rpc' = rpc /\ rwait' = rwait
      BY <2>2 DEF Expired, IndInv, Phases, TypeOK
    <3>2. Waited' = WaitTime /\ Waited = WaitTime - 0
      BY <3>1 DEF Waited
    <3>3. Waited' = Waited
      BY <3>2, Bounds
    <3>. QED
      BY <3>1, <3>3 DEF IndInv, OnTime
  <2>. QED
    BY <2>1, <2>2
<1>. QED
  BY <1>1, <1>2, <1>3, MainPreserves DEF IndInv, TypeOK, Others

LEMMA WavingPreserves == ASSUME IndInv, WavingEnd PROVE IndInv'
<1>. USE DEF WavingEnd, recv, flags
<1>1. Phases' /\ Ended'
  BY DEF IndInv, Phases, Ended, TypeOK
<1>2. OnTime'
  BY DEF IndInv, Ended, OnTime
<1>. QED
  BY <1>1, <1>2, MainPreserves DEF IndInv, TypeOK, Others

LEMMA ClosePreserves == ASSUME IndInv, Close PROVE IndInv'
<1>. USE DEF Close, recv
<1>1. Phases' /\ Ended'
  BY DEF IndInv, Phases, Ended, TypeOK
<1>2. OnTime'
  BY Bounds DEF IndInv, TypeOK, Phases, OnTime, Waited
<1>. QED
  BY <1>1, <1>2, Bounds, MainPreserves DEF IndInv, TypeOK, Others

LEMMA AwaitClosePreserves == ASSUME IndInv, AwaitClose PROVE IndInv'
<1>. USE DEF AwaitClose, recv, flags
<1>1. mpc' \in {"release", "destroy", "gone"}
  BY DEF Returned
<1>2. Phases' /\ Ended'
  BY DEF IndInv, Phases, Ended, TypeOK, RecvEnded, Returned
<1>3. OnTime'
  <2>1. CASE RecvEnded
    BY <2>1 DEF IndInv, Ended, OnTime, RecvEnded
  <2>2. CASE ~ RecvEnded
    <3>1. /\ mwait = 0 /\ mpc = "closing" /\ mpc' = Returned
          /\ caller' = caller /\ rpc' = rpc /\ rwait' = rwait
      BY <2>2 DEF Expired
    <3>2. Waited' = Waited
      <4>1. CASE caller = "send_file"
        <5>1. mpc' = "destroy"
          BY <3>1, <4>1 DEF Returned
        <5>2. Waited' = WaitTime /\ Waited = WaitTime - 0
          BY <3>1, <4>1, <5>1 DEF Waited
        <5>. QED
          BY <5>2, Bounds
      <4>2. CASE caller = "destructor"
        <5>1. mpc' = "gone"
          BY <3>1, <4>2 DEF Returned
        <5>2. Waited' = 2 * WaitTime /\ Waited = 2 * WaitTime - 0
          BY <3>1, <4>2, <5>1 DEF Waited
        <5>. QED
          BY <5>2, Bounds
      <4>. QED
        BY <4>1, <4>2 DEF IndInv, TypeOK
    <3>. QED
      BY <3>1, <3>2 DEF IndInv, OnTime
  <2>. QED
    BY <2>1, <2>2
<1>. QED
  BY <1>1, <1>2, <1>3, MainPreserves DEF IndInv, TypeOK, Others

LEMMA ReleasePreserves == ASSUME IndInv, Release PROVE IndInv'
<1>. USE DEF Release, recv, flags
<1>1. mpc' \in {"destroy", "gone"}
  BY DEF Returned
<1>2. Phases' /\ Ended'
  BY DEF IndInv, Phases, Ended, TypeOK, Returned
<1>3. OnTime'
  BY DEF IndInv, Ended, OnTime
<1>. QED
  BY <1>1, <1>2, <1>3, MainPreserves DEF IndInv, TypeOK, Others

LEMMA DestroyPreserves == ASSUME IndInv, Destroy PROVE IndInv'
<1>. USE DEF Destroy, recv, flags
<1>1. mpc' \in {"close", "gone"}
  OBVIOUS
<1>2. Phases' /\ Ended'
  BY DEF IndInv, Phases, Ended, TypeOK
<1>3. OnTime'
  <2>1. CASE m_kcp = "null"
    BY <2>1 DEF IndInv, Ended, OnTime
  <2>2. CASE m_kcp # "null"
    <3>1. mpc' = "close" /\ caller' = "destructor" /\ rpc' = rpc /\ rwait' = rwait
      BY <2>2
    <3>2. Waited' = WaitTime /\ Waited = WaitTime
      BY <3>1 DEF Waited
    <3>. QED
      BY <3>1, <3>2 DEF IndInv, OnTime
  <2>. QED
    BY <2>1, <2>2
<1>. QED
  BY <1>1, <1>2, <1>3, MainPreserves DEF IndInv, TypeOK, Others
-----------------------------------------------------------------------------
(* The network, and main when it reads the socket.                         *)

LEMMA ArrivePreserves == ASSUME IndInv, Arrive PROVE IndInv'
<1>1. /\ arrived < ArriveCap /\ arrived' = arrived + 1
      /\ UNCHANGED <<main, lpc, recv, m_kcp, flags, kcb>>
  BY DEF Arrive
<1>2. PICK p \in Sent : socket' = Append(socket, p)
  BY DEF Arrive
<1>3. /\ flushed \in 0..Messages /\ flushed <= queued /\ queued \in 0..Messages
      /\ socket \in Seq(Packet)
      /\ \A i \in 1..Len(socket) : Genuine(socket[i], flushed)
      /\ arrived \in 0..ArriveCap
  BY Bounds DEF IndInv, TypeOK, Counts
<1>4. Genuine(p, flushed)
  <2>1. CASE p \in [kind : {"ack"}, una : 0..flushed]
    BY <2>1, <1>3, Bounds DEF Genuine, Packet
  <2>2. CASE flushed = Messages /\ p \in [kind : {"finish"}, una : {Messages}]
    BY <2>2, <1>3, Bounds DEF Genuine, Packet
  <2>3. CASE p \in [kind : {"junk", "junkfin", "other"}, una : {0}]
    <3>1. p = [kind |-> p.kind, una |-> 0] /\ p.kind \in {"junk", "junkfin", "other"}
      BY <2>3
    <3>. QED
      BY <3>1, <1>3, Bounds DEF Genuine, Packet
  <2>. QED
    BY <2>1, <2>2, <2>3 DEF Sent
<1>5. /\ socket' \in Seq(Packet)
      /\ \A i \in 1..Len(socket') : Genuine(socket'[i], flushed)
  <2>1. p \in Packet
    BY <1>4 DEF Genuine
  <2>2. Len(socket') = Len(socket) + 1 /\ Len(socket) \in Nat
    BY <1>2, <1>3, <2>1
  <2>3. ASSUME NEW i \in 1..Len(socket') PROVE Genuine(socket'[i], flushed)
    <3>1. CASE i = Len(socket) + 1
      BY <1>2, <1>3, <1>4, <3>1
    <3>2. CASE i # Len(socket) + 1
      <4>1. i \in 1..Len(socket)
        BY <2>2, <3>2
      <4>2. socket'[i] = socket[i]
        BY <1>2, <1>3, <2>1, <4>1
      <4>. QED
        BY <1>3, <4>1, <4>2
    <3>. QED
      BY <3>1, <3>2
  <2>4. socket' \in Seq(Packet)
    BY <1>2, <1>3, <2>1
  <2>. QED
    BY <2>3, <2>4
<1>6. TypeOK'
  <2>1. arrived' \in 0..ArriveCap
    BY <1>1, <1>3, Bounds
  <2>2. \A i \in 1..Len(socket') : socket'[i] \in Packet
    BY <1>5 DEF Genuine
  <2>. QED
    BY <1>1, <2>1, <2>2 DEF IndInv, TypeOK, main, recv, flags, kcb
<1>7. Counts'
  BY <1>1, <1>5 DEF IndInv, Counts, main, recv, flags, kcb, Genuine
<1>8. Phases' /\ Ended' /\ OnTime'
  BY <1>1 DEF IndInv, Phases, Ended, OnTime, Waited, main, recv, flags
<1>. QED
  BY <1>6, <1>7, <1>8 DEF IndInv

(* Taking the first packet leaves genuine ones.                            *)
LEMMA TailGenuine ==
  ASSUME Counts, socket # <<>>
  PROVE  /\ Genuine(Head(socket), flushed)
         /\ Tail(socket) \in Seq(Packet)
         /\ \A i \in 1..Len(Tail(socket)) : Genuine(Tail(socket)[i], flushed)
<1>1. socket \in Seq(Packet) /\ \A i \in 1..Len(socket) : Genuine(socket[i], flushed)
  BY DEF Counts
<1>2. /\ Len(socket) \in Nat /\ Len(socket) > 0 /\ Head(socket) = socket[1]
      /\ Len(Tail(socket)) = Len(socket) - 1 /\ Tail(socket) \in Seq(Packet)
  BY <1>1
<1>3. ASSUME NEW i \in 1..Len(Tail(socket)) PROVE Genuine(Tail(socket)[i], flushed)
  <2>1. Tail(socket)[i] = socket[i + 1] /\ i + 1 \in 1..Len(socket)
    BY <1>1, <1>2
  <2>. QED
    BY <1>1, <2>1
<1>. QED
  BY <1>1, <1>2, <1>3

LEMMA WavingReadPreserves == ASSUME IndInv, WavingRead PROVE IndInv'
<1>1. /\ socket # <<>> /\ socket' = Tail(socket)
      /\ UNCHANGED <<main, lpc, recv, m_kcp, flags, kcb, arrived>>
  BY DEF WavingRead
<1>2. /\ socket' \in Seq(Packet)
      /\ \A i \in 1..Len(socket') : Genuine(socket'[i], flushed)
  BY <1>1, TailGenuine DEF IndInv
<1>3. TypeOK'
  <2>1. \A i \in 1..Len(socket') : socket'[i] \in Packet
    BY <1>2 DEF Genuine
  <2>. QED
    BY <1>1, <2>1 DEF IndInv, TypeOK, main, recv, flags, kcb
<1>4. Counts'
  BY <1>1, <1>2 DEF IndInv, Counts, main, recv, flags, kcb, Genuine
<1>5. Phases' /\ Ended' /\ OnTime'
  BY <1>1 DEF IndInv, Phases, Ended, OnTime, Waited, main, recv, flags
<1>. QED
  BY <1>3, <1>4, <1>5 DEF IndInv

-----------------------------------------------------------------------------
(* client_loop, and time.                                                  *)

LEMMA LoopPreserves ==
  ASSUME IndInv, LoopCheck \/ LoopLock \/ LoopWake PROVE IndInv'
<1>1. /\ lpc' \in {"check", "lock", "update", "ended"}
      /\ UNCHANGED <<main, recv, m_kcp, flags, kcb, net>>
  BY DEF LoopCheck, LoopLock, LoopWake
<1>2. TypeOK' /\ Counts'
  BY <1>1 DEF IndInv, TypeOK, Counts, Genuine, main, recv, flags, kcb, net
<1>3. Phases' /\ Ended' /\ OnTime'
  BY <1>1 DEF IndInv, Phases, Ended, OnTime, Waited, main, recv, flags
<1>. QED
  BY <1>2, <1>3 DEF IndInv

(* What ikcp_flush puts on the network only adds to what a packet can say. *)
LEMMA FlushedGrows ==
  ASSUME IndInv, flushed' = queued, UNCHANGED <<queued, acked, net>>
  PROVE  /\ flushed' \in 0..queued' /\ acked' \in 0..flushed'
         /\ \A p : Genuine(p, flushed) => Genuine(p, flushed')
<1>1. /\ queued \in 0..Messages /\ flushed \in 0..queued /\ acked \in 0..flushed
  BY DEF IndInv, TypeOK
<1>2. \A p \in Packet : p.una \in Nat
  BY Bounds DEF Packet
<1>. QED
  BY <1>1, <1>2, Bounds DEF Genuine

LEMMA LoopUpdatePreserves == ASSUME IndInv, LoopUpdate PROVE IndInv'
<1>1. /\ flushed' = queued /\ lpc' = "sleep"
      /\ UNCHANGED <<main, recv, m_kcp, flags, queued, acked, net>>
  BY DEF LoopUpdate
<1>2. /\ flushed' \in 0..queued' /\ acked' \in 0..flushed'
      /\ \A p : Genuine(p, flushed) => Genuine(p, flushed')
  BY <1>1, FlushedGrows
<1>3. TypeOK'
  BY <1>1, <1>2 DEF IndInv, TypeOK, main, recv, flags, net
<1>4. Counts'
  BY <1>1, <1>2 DEF IndInv, Counts, main, recv, flags, net
<1>5. Phases' /\ Ended' /\ OnTime'
  BY <1>1 DEF IndInv, Phases, Ended, OnTime, Waited, main, recv, flags
<1>. QED
  BY <1>3, <1>4, <1>5 DEF IndInv

LEMMA WaitedNat == ASSUME TypeOK PROVE Waited \in Nat
<1>1. mwait \in 0..WaitTime
  BY DEF TypeOK
<1>2. WaitTime - mwait \in Nat /\ 2 * WaitTime - mwait \in Nat /\ 2 * WaitTime \in Nat
  BY <1>1, Bounds
<1>. QED
  BY <1>2, Bounds DEF Waited

LEMMA TickPreserves == ASSUME IndInv, Tick PROVE IndInv'
<1>1. /\ MainSleeps /\ RecvSleeps
      /\ mwait' = IF mwait > 0 THEN mwait - 1 ELSE 0
      /\ rwait' = IF rwait > 0 THEN rwait - 1 ELSE 0
      /\ lpc' \in {lpc, "check"}
      /\ UNCHANGED <<mpc, caller, rpc, packet, data, m_kcp, flags, kcb, net>>
  BY DEF Tick
<1>2. mwait \in 0..WaitTime /\ rwait \in 0..SelectTime
  BY DEF IndInv, TypeOK
<1>3. mwait' \in 0..WaitTime /\ rwait' \in 0..SelectTime
  BY <1>1, <1>2, Bounds
<1>4. TypeOK' /\ Counts'
  BY <1>1, <1>3 DEF IndInv, TypeOK, Counts, Genuine, flags, kcb, net
<1>5. Phases' /\ Ended'
  BY <1>1 DEF IndInv, Phases, Ended, flags
<1>6. OnTime'
  <2>1. SUFFICES ASSUME Waited' > 0, rpc' # "ended" PROVE OnTime'
    BY DEF OnTime
  <2>2. rpc' = rpc /\ rpc = "select" /\ rwait > 0 /\ rwait' = rwait - 1
    BY <1>1, <1>2, <2>1 DEF RecvSleeps
  <2>3. mpc # "gone" => Waited' = Waited + 1
    BY <1>1, <1>2, <2>1, Bounds DEF MainSleeps, Waited, IndInv, Ended, Phases,
       LoopEnded, RecvEnded, TypeOK
  <2>4. mpc = "gone" => Waited' = Waited
    BY <1>1 DEF Waited
  <2>5. Waited \in Nat /\ OnTime
    BY WaitedNat DEF IndInv
  <2>6. CASE Waited = 0
    <3>1. Waited' = 1
      BY <2>1, <2>3, <2>4, <2>6
    <3>. QED
      BY <1>2, <2>2, <3>1, Bounds DEF OnTime
  <2>7. CASE Waited > 0
    BY <1>1, <1>2, <2>2, <2>3, <2>4, <2>5, <2>7, Bounds DEF OnTime, flags
  <2>. QED
    BY <2>5, <2>6, <2>7
<1>. QED
  BY <1>4, <1>5, <1>6 DEF IndInv
-----------------------------------------------------------------------------
(* run_tcp_client. *)

(* Steps that only move it, once it has started.                           *)
LEMMA RecvMoves ==
  ASSUME IndInv, UNCHANGED <<main, lpc, packet, m_kcp, flags, kcb, net>>,
         rpc \notin {"none", "ended"},
         rpc' \in {"check", "lock", "update", "select", "lockinput", "input",
                   "lockrecv", "recv", "leave"},
         rwait' \in 0..SelectTime, data' = data,
         data = 1 => rpc' \in {"lockrecv", "recv"},
         OnTime'
  PROVE  IndInv'
<1>1. TypeOK'
  BY DEF IndInv, TypeOK, main, flags, kcb, net
<1>2. Counts'
  BY DEF IndInv, Counts, Genuine, main, flags, kcb, net
<1>3. Phases' /\ Ended'
  BY DEF IndInv, Phases, Ended, main, flags
<1>. QED
  BY <1>1, <1>2, <1>3 DEF IndInv

LEMMA RecvCheckPreserves == ASSUME IndInv, RecvCheck PROVE IndInv'
<1>1. /\ UNCHANGED <<main, lpc, rwait, packet, data, m_kcp, flags, kcb, net>>
      /\ rpc = "check" /\ rpc' \in {"leave", "lock"}
      /\ rpc' = "lock" => ~ stopFlag
  BY DEF RecvCheck, Stopped
<1>2. data # 1
  BY <1>1 DEF IndInv, Counts
<1>3. Waited' = Waited /\ rwait' = rwait
  BY <1>1 DEF Waited, main
<1>4. ~ stopFlag => Waited = 0
  BY DEF IndInv, Phases, Waited, TypeOK
<1>5. OnTime'
  BY <1>1, <1>3, <1>4 DEF IndInv, OnTime, flags
<1>. QED
  BY <1>1, <1>2, <1>5, RecvMoves DEF IndInv, TypeOK

LEMMA RecvLockPreserves == ASSUME IndInv, RecvLock PROVE IndInv'
<1>1. /\ UNCHANGED <<main, lpc, rwait, packet, data, m_kcp, flags, kcb, net>>
      /\ \/ rpc = "lock" /\ rpc' = "update"
         \/ rpc = "lockinput" /\ rpc' = "input"
         \/ rpc = "lockrecv" /\ rpc' = "recv"
  BY DEF RecvLock
<1>2. data = 1 => rpc' \in {"lockrecv", "recv"}
  BY <1>1 DEF IndInv, Counts
<1>3. Waited' = Waited /\ rwait' = rwait
  BY <1>1 DEF Waited, main
<1>4. OnTime'
  BY <1>1, <1>3 DEF IndInv, OnTime, flags
<1>. QED
  BY <1>1, <1>2, <1>4, RecvMoves DEF IndInv, TypeOK

LEMMA RecvUpdatePreserves == ASSUME IndInv, RecvUpdate PROVE IndInv'
<1>1. /\ rpc = "update" /\ rpc' = "select" /\ rwait' = SelectTime
      /\ flushed' = queued
      /\ UNCHANGED <<main, lpc, packet, data, m_kcp, flags, queued, acked, net>>
  BY DEF RecvUpdate
<1>2. /\ flushed' \in 0..queued' /\ acked' \in 0..flushed'
      /\ \A p : Genuine(p, flushed) => Genuine(p, flushed')
  BY <1>1, FlushedGrows
<1>3. TypeOK'
  BY <1>1, <1>2, Bounds DEF IndInv, TypeOK, main, flags, net
<1>4. Counts'
  BY <1>1, <1>2 DEF IndInv, Counts, main, flags, net
<1>5. Phases' /\ Ended'
  BY <1>1 DEF IndInv, Phases, Ended, main, flags
<1>6. Waited' = Waited /\ (~ garbage => ~ (Waited > 0))
  BY <1>1 DEF IndInv, OnTime, Waited, main
<1>7. OnTime'
  BY <1>1, <1>6 DEF OnTime, flags
<1>. QED
  BY <1>3, <1>4, <1>5, <1>7 DEF IndInv

LEMMA SelectPreserves == ASSUME IndInv, Select PROVE IndInv'
<1>1. /\ rpc = "select" /\ UNCHANGED <<main, lpc, rwait, data, m_kcp, flags, kcb, arrived>>
      /\ rpc' \in {"check", "lockinput"}
  BY DEF Select
<1>2. /\ Genuine(packet', flushed)
      /\ socket' \in Seq(Packet)
      /\ \A i \in 1..Len(socket') : Genuine(socket'[i], flushed)
  <2>1. CASE socket # <<>> /\ packet' = Head(socket) /\ socket' = Tail(socket)
    BY <2>1, TailGenuine DEF IndInv
  <2>2. CASE UNCHANGED <<packet, socket>>
    BY <2>2 DEF IndInv, Counts, Genuine
  <2>. QED
    BY <2>1, <2>2 DEF Select
<1>3. TypeOK'
  <2>1. packet' \in Packet /\ \A i \in 1..Len(socket') : socket'[i] \in Packet
    BY <1>2 DEF Genuine
  <2>. QED
    BY <1>1, <2>1 DEF IndInv, TypeOK, main, flags, kcb
<1>4. Counts'
  BY <1>1, <1>2 DEF IndInv, Counts, main, flags, kcb, Genuine
<1>5. Phases' /\ Ended'
  BY <1>1 DEF IndInv, Phases, Ended, main, flags
<1>6. Waited' = Waited
  BY <1>1 DEF Waited, main
<1>7. OnTime'
  BY <1>1, <1>6 DEF IndInv, OnTime, flags
<1>. QED
  BY <1>3, <1>4, <1>5, <1>7 DEF IndInv

LEMMA InputPreserves == ASSUME IndInv, Input PROVE IndInv'
<1>1. /\ rpc = "input" /\ rpc' \in {"check", "leave", "lockrecv"}
      /\ packet.kind = "finish" => rpc' = "lockrecv"
      /\ UNCHANGED <<main, lpc, rwait, packet, m_kcp, flags, queued, flushed, net>>
      /\ acked' = IF packet.una > acked THEN packet.una ELSE acked
      /\ data' = IF packet.kind = "finish" THEN data + 1 ELSE data
  BY DEF Input, Finishes, ParseUna
<1>2. /\ queued \in 0..Messages /\ flushed \in 0..queued /\ acked \in 0..flushed
      /\ data \in 0..1 /\ data # 1 /\ Genuine(packet, flushed)
      /\ finishSend => acked = Messages
  BY <1>1 DEF IndInv, TypeOK, Counts
<1>3. packet.una \in Nat /\ packet.una <= flushed
  BY <1>2, Bounds DEF Genuine, Packet
<1>4. /\ acked' \in 0..flushed' /\ data' \in 0..1
      /\ data' = 1 => rpc' = "lockrecv" /\ acked' = Messages
      /\ finishSend => acked' = Messages
  BY <1>1, <1>2, <1>3, Bounds DEF Genuine
<1>5. TypeOK'
  BY <1>1, <1>4 DEF IndInv, TypeOK, main, flags, net
<1>6. Counts'
  BY <1>1, <1>4 DEF IndInv, Counts, main, flags, net, Genuine
<1>7. Phases' /\ Ended'
  BY <1>1 DEF IndInv, Phases, Ended, main, flags
<1>8. Waited' = Waited
  BY <1>1 DEF Waited, main
<1>9. OnTime'
  BY <1>1, <1>8 DEF IndInv, OnTime, flags
<1>. QED
  BY <1>5, <1>6, <1>7, <1>9 DEF IndInv

LEMMA RecvPreserves == ASSUME IndInv, Recv PROVE IndInv'
<1>1. /\ rpc = "recv"
      /\ \/ data = 0 /\ rpc' = "check" /\ UNCHANGED <<data, finishSend>>
         \/ data # 0 /\ rpc' = "lockrecv" /\ data' = data - 1 /\ finishSend' = TRUE
      /\ UNCHANGED <<main, lpc, rwait, packet, m_kcp, stopFlag, finish_loop, garbage,
                     kcb, net>>
  BY DEF Recv, Exhausted
<1>2. data \in 0..1 /\ (data = 1 => acked = Messages)
  BY DEF IndInv, TypeOK, Counts
<1>3. /\ data' = 0 /\ finishSend' \in BOOLEAN
      /\ finishSend' => acked = Messages
      /\ finishSend => finishSend'
  <2>1. finishSend \in BOOLEAN /\ (finishSend => acked = Messages)
    BY DEF IndInv, TypeOK, Counts
  <2>2. CASE data = 0
    BY <1>1, <2>1, <2>2
  <2>3. CASE data # 0
    <3>1. data = 1 /\ data' = 0 /\ finishSend' = TRUE
      BY <1>1, <1>2, <2>3
    <3>. QED
      BY <1>2, <3>1
  <2>. QED
    BY <2>2, <2>3
<1>4. TypeOK'
  BY <1>1, <1>3 DEF IndInv, TypeOK, main, kcb, net
<1>5. Counts'
  BY <1>1, <1>3 DEF IndInv, Counts, main, kcb, net, Genuine
<1>6. Phases' /\ Ended'
  BY <1>1, <1>3 DEF IndInv, Phases, Ended, main
<1>7. Waited' = Waited
  BY <1>1 DEF Waited, main
<1>8. OnTime'
  BY <1>1, <1>7 DEF IndInv, OnTime
<1>. QED
  BY <1>4, <1>5, <1>6, <1>8 DEF IndInv

LEMMA LeavePreserves == ASSUME IndInv, Leave PROVE IndInv'
<1>1. /\ rpc = "leave" /\ rpc' = "ended" /\ finish_loop' = TRUE
      /\ UNCHANGED <<main, lpc, rwait, packet, data, m_kcp, stopFlag, finishSend,
                     garbage, kcb, net>>
  BY DEF Leave
<1>2. TypeOK'
  BY <1>1 DEF IndInv, TypeOK, main, kcb, net
<1>3. Counts'
  BY <1>1 DEF IndInv, Counts, main, kcb, net, Genuine
<1>4. Phases' /\ Ended' /\ OnTime'
  BY <1>1 DEF IndInv, Phases, Ended, OnTime, main
<1>. QED
  BY <1>2, <1>3, <1>4 DEF IndInv

-----------------------------------------------------------------------------
LEMMA NextPreserves == ASSUME IndInv, [Next]_vars PROVE IndInv'
<1>1. CASE MainThread
  BY <1>1, StartPreserves, SendPreserves, AwaitAnswerPreserves, DrainPreserves,
     AwaitLoopPreserves, WavingReadPreserves, WavingPreserves, ClosePreserves,
     AwaitClosePreserves, ReleasePreserves, DestroyPreserves DEF MainThread
<1>2. CASE LoopThread \/ LoopWake
  BY <1>2, LoopPreserves, LoopUpdatePreserves DEF LoopThread
<1>3. CASE RecvThread
  BY <1>3, RecvCheckPreserves, RecvLockPreserves, RecvUpdatePreserves,
     SelectPreserves, InputPreserves, RecvPreserves, LeavePreserves
     DEF RecvThread
<1>4. CASE Arrive
  BY <1>4, ArrivePreserves
<1>5. CASE Tick
  BY <1>5, TickPreserves
<1>6. CASE UNCHANGED vars
  <2>1. TypeOK' /\ Counts'
    BY <1>6 DEF IndInv, TypeOK, Counts, Genuine, vars, main, recv, flags, kcb, net
  <2>2. Phases' /\ Ended' /\ OnTime'
    BY <1>6 DEF IndInv, Phases, Ended, OnTime, Waited, vars, main, recv, flags
  <2>. QED
    BY <2>1, <2>2 DEF IndInv
<1>. QED
  BY <1>1, <1>2, <1>3, <1>4, <1>5, <1>6 DEF Next

-----------------------------------------------------------------------------
(* The inductive invariant holds in every state.                           *)
THEOREM Invariance == Spec => []IndInv
<1>1. Init => IndInv
  BY InitEstablishes
<1>. QED
  BY <1>1, NextPreserves, PTL DEF Spec

(* Counts of messages and packets stay in their ranges, with one answer    *)
(* unread at most.                                                         *)
THEOREM TypeCorrect == Spec => []TypeOK
<1>1. IndInv => TypeOK
  BY DEF IndInv
<1>. QED
  BY <1>1, Invariance, PTL

(* send_file: once finishSend is set, ikcp_waitsnd is 0.                   *)
THEOREM AnswerIsLast == Spec => []AnswerMeansDrained
<1>1. IndInv => AnswerMeansDrained
  BY AnsweredIsDrained DEF IndInv, AnswerMeansDrained
<1>. QED
  BY <1>1, Invariance, PTL

(* finish runs only after the answer to a file that was acknowledged.      *)
THEOREM FinIsAnswered == Spec => []FinAfterAnswer
<1>1. IndInv => FinAfterAnswer
  BY DEF IndInv, Phases, Counts, FinAfterAnswer
<1>. QED
  BY <1>1, Invariance, PTL

(* finish and run_tcp_client read the socket at the same time only when    *)
(* finish_loop started TRUE.                                               *)
THEOREM ReadsAlone == Spec => []OneReader
<1>1. IndInv => OneReader
  BY DEF IndInv, Ended, OneReader
<1>. QED
  BY <1>1, Invariance, PTL

(* Close releases m_kcp only when run_tcp_client is over, or finish_loop   *)
(* started TRUE.                                                           *)
THEOREM UsesLive == Spec => []ReceiverUsesLive
<1>1. IndInv => ReceiverUsesLive
  BY DEF IndInv, Ended, ReceiverUsesLive, RecvLocks
<1>. QED
  BY <1>1, Invariance, PTL

(* The destructor returns after run_tcp_client, for all waits of which two *)
(* last longer than its select (3 s and 5 s in the code), unless           *)
(* finish_loop started TRUE.                                               *)
THEOREM OutlivesReceiver ==
  ASSUME 2 * WaitTime > SelectTime
  PROVE  Spec => []ReceiverOutlived
<1>1. ASSUME IndInv PROVE ReceiverOutlived
  <2>1. mpc = "gone" => Waited = 2 * WaitTime
    BY DEF Waited
  <2>. QED
    BY <1>1, <2>1, Bounds DEF IndInv, OnTime, ReceiverOutlived
<1>. QED
  BY <1>1, Invariance, PTL
=============================================================================
