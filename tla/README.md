# Verification of kcp-fakeTCP

TLA+ models of `kcp-fakeTCP`: the KCP protocol over a TCP connection that the
client only pretends to have, so that firewalls let it pass, and that the server
has for real. The modules are checked with TLC on small instances; TLAPS proves
their safety properties for every value of the constants.

## The system

| Component | Code | State | Operations | Interacts with |
|---|---|---|---|---|
| KCP reliable transfer | `ikcp.cc` | `snd_queue`, `snd_buf`, `rcv_buf`, `rcv_queue`, `acklist`, `snd_una`, `snd_nxt`, `rcv_nxt`, windows, probe flags | `ikcp_send`, `ikcp_recv`, `ikcp_input`, `ikcp_flush` | output callback, the owner's mutex |
| KCP clock | `ikcp.cc`, `iclock` | `current`, `ts_flush`, `updated`, `resendts` and `rto` of each segment | `ikcp_update`, `ikcp_check` | the threads that call it |
| KCP congestion control | `ikcp.cc` | `cwnd`, `ssthresh`, `incr`, `rx_srtt`, `rx_rttval`, `rx_rto`, `fastack`, `xmit`, `state` | `ikcp_update_ack`, parts of `ikcp_input` and `ikcp_flush` | decides what a flush sends, and sends again |
| Server process | `server_epoll.cc`, `kcp_server.cc` | `clients`, interest list, `KcpHandleClient` objects | `startEpoll` (epoll thread), `updateKcp` (update thread) | both threads share `clients`, `update_mutex`, `kcp_mutex` |
| Client threads | `kcp_client.cc` | `m_kcp`, `stopFlag`, `finishSend`, `finish_loop` | `send_file`, `client_loop`, `run_tcp_client`, `Close`, `~KcpClient` | three threads, `kcp_mutex`, the raw socket |
| Fake TCP connection | `kcp_client.cc` | `s_state`, `seq`, `CLIENT_SUM_SEND`, `server_ack_seq` | `start_hand_shake`, `tcp_client_cb`, `finish`, `waving_*` | the server's kernel |
| Packets, checksums | `kcp_socket.cc` | none | `prase_tcp_packet`, `calculate_tcp_checksum`, `calculate_ip_checksum` | called for every segment the client sends |
| File transfer | client and server | `file_size`, `file_sended`, `read_file` | name message, data, `send_finish` | KCP messages |
| Unused code | `model.cc`, `code/kcp.cc`, `run_tcp_server*` | | | in no build target, or never called |
| Programs | `tests/`, `stript/` | | command lines, 500 clients, 4 forked servers | create and destroy the objects above |

Hard parts: packets lost, repeated and reordered under KCP; two threads that share
handles whose descriptor numbers are used again; three client threads with deadlines
of 3 s and 5 s and no join; a TCP whose sender repeats nothing; 32-bit clocks that
wrap or are set. `PROJECT.json` lists each hazard at its line.

## Modules

### MessageChannel, KcpArq, KcpArqProofs

`MessageChannel` is what a KCP session promises: each direction is a FIFO of chunks
grouped in messages; a read returns the oldest message, whole.

`KcpArq` is two control blocks and the network between them. One action per call:
`Send` (`ikcp_send`), `Recv` (`ikcp_recv`, with the refill of `rcv_queue` and the
window tell; a buffer of `BufferLen` chunks that is too short for the next message leaves
it in the queue), `Input` (`ikcp_input` of one packet: acknowledgement, push, window ask,
window tell, each with its una), `Flush` (`ikcp_flush`: acknowledgements, probes,
numbering within the window, segments), and `Lose`. What a flush retransmits depends
on time and on the congestion window; the model lets it send any subset of the
segments in flight and number any count the window admits, so the safety results
hold for every timeout and every congestion window. The network is a set of packets:
a packet is received any number of times, late, out of order, or lost. Payload is the
position of a chunk in the sender's stream, so that delivery of the right chunk is visible.

Checked and proved: `InOrderDelivery` (what is read is a prefix of what was written),
`AckedIsHeld` (a released segment is held or was read by the peer),
`FullQueueIsReadable` (a full receive queue starts with a whole message),
`BuffersBounded`, `WindowNeverShrinks` (the right
edge of the advertised window never moves back) and the refinement `ChannelSpec`.
Proved: `TypeOK` and `SndUnaIsFirst`. Checked under fairness: `EverythingArrives` and
`WindowReopens`, each for an end whose program keeps making room in its receive queue
(`KeepsRoom`, the premise of the property): whether it does is the program's affair.

### KcpClock, KcpClockProofs

`ikcp_update`, the resend times of `ikcp_flush` and `ikcp_check` over a clock that wraps at
`2 * Half`. `Update` is the whole call, flush included; between two calls the clock moves on
(`MovesOn`, by at most `Late`) or, being the time of day, is set to any reading
(`IsSet`). All differences are signed differences as `_itimediff` has them, so the wrap
of the clock is part of every behaviour. Three history variables say how far the clock moved
since the last flush (`elapsed`) and whether it was set since the last flush (`set`)
or since the segment in flight got its resend time (`skewed`): the code guards
`ts_flush` against a clock that is set, and guards `resendts` against nothing.

### KcpRtt, KcpSender, KcpSenderProofs

`KcpRtt` is `ikcp_update_ack` as an operator on `rx_srtt`, `rx_rttval` and `rx_rto`, with
the divisions of the code. `KcpSender` is the sender with everything `KcpArq` leaves to free
choice: `cwnd`, `incr` and `ssthresh`, the timer of each segment and its back-off by half,
`fastack` and the fast resend with its limit, `xmit` and `dead_link`. The unit of time is
the flush interval: `Flush` is one unit, and a segment carries its `age` and the time
`left` of its timer. `Input` is `ikcp_input` of one packet of acknowledgements,
with the round-trip samples in their order, `ikcp_shrink_buf`, `ikcp_parse_fastack` and the
growth of the window. The receiver has what acknowledges: `Arrive` and `AckFlush`.

`ResendsAccounted` says what the timers and the fast resend are worth: each transmission after
the first is paid for by a loss or by packets that overtook the segment. `lost` and
`overtaken` are history variables that count these, independent of `fastack`. `CwndTracksIncr`
says that the two counts of the window, which the code changes in different places, stay
together; `GrowthWithinPeer` that an acknowledgement does not raise the window above the
peer's; `Acknowledged` that everything gets through.

### Checksum, FileTransfer, FileTransferProofs

`Checksum` is `calculate_tcp_checksum` on words, with the sum a receiver makes of the same segment
(`Verifies`).

`FileTransfer` composes the client's `send_file`, its control block, `tcp_client_cb`, the byte
stream of the server's kernel, the reads of `startEpoll` and `ikcp_input` of what a
read holds. `SendMessage` is one `ikcp_send` of `send_file` (the name and size, then chunks);
`Flush` packs segments into packets of the KCP MTU as `ikcp_flush` does (`Packets`), cuts them
for the fake TCP (`Parts`) and checksums each part (`Header`, `Part`); `Arrive` appends a part
to the stream; `Read` takes any prefix of it up to the length of the buffer, feeds it to
`ikcp_input`, which refuses segments that are not whole (`Taken`, `Refuses`), and then
receives messages with the size of the *read* as its buffer size (`Readable`), writes them
to the file and answers (`Process`). Lengths are scaled down and keep the order they
have in the code. A segment that waits in the stream is cut wherever a read ends: that is
where the two halves are refused.

### ServerEpoll, ServerEpollProofs

The epoll thread, the update thread, the clients and the kernel's accept queue, descriptor
table and readiness. The program counter `epc` of the epoll thread steps through
`epoll_wait`, `accept`, insertion (under `update_mutex`), the lookup `clients[fd]` (under
no lock), `read` with `ikcp_input`, `ikcp_recv` until it returns nothing, and the end of a
connection; `upc` through the scan of the map. `update_mutex` is held exactly while
the update thread scans (`Locked`). A `shared_ptr` is a variable that names a
connection: whenever one is dropped, handles that nothing names any more are destroyed
(`Destroy`: `ikcp_release`, then `close`). An accepted connection may be closed again because
`setNonBlocking` or `epoll_ctl` fails (`AcceptDrops`).

KCP itself is abstract: a read holds some messages whole, has a length, and is refused or not.
A refused read is answered with a bare `send_finish` past KCP (`raw`) and the reading goes on;
what it did not hold whole is gone until the client sends it again, so messages may come after
later ones. `ikcp_recv` hands out messages in order, and none that is longer than the last
read (`Drained`), whose length the code gives as the size of its buffer.

### ClientThreads, ClientThreadsProofs

`send_file`, `Close` and the destructor (`mpc`), `client_loop` (`lpc`) and
`run_tcp_client` (`rpc`). Who holds `kcp_mutex` follows from the program counters.
The model is timed: `Tick` lets one second pass when each thread sleeps or
has ended, the waits of main and the `select` of the receiving thread count down. The
socket is assumed writable, so that no thread blocks in the `select` of `tcp_client_cb`.
The server's answer carries an una that covers the whole file, because the server sends
it after reading the whole file in order.

`finish_loop` is not initialised by the constructor. It starts with either value: false when
the memory happens to be zero, true with the fill pattern (0xbe) of the AddressSanitizer the
build turns on. The history variable `garbage` keeps what it started with, and a property that
a true one breaks names it, so each says exactly what that value can do.

### FakeTcp, FakeTcpProofs

The client's handshake, data numbers and closing handshake (`pc`, `s_state`) against
a server whose kernel reassembles, acknowledges, resets. `client_loop` and `run_tcp_client` (`loops`)
go on beside `finish`, which nothing makes wait for them: `Output` is `tcp_client_cb` up to
`sendto`, `OutputCounted` its change of `CLIENT_SUM_SEND`, and both may come between any two
steps of the closing handshake. So data may follow a FIN at the FIN's number, and a repeated FIN
may have another number. Segments sent stay in two
sets and may be received any number of times or never. `Others` is what else a raw
socket receives: packets of other connections, old segments of the same port.
Deadlines are choices: wherever the code looks at the clock, it may be late.

## Runs

| Run | Instance | Shows |
|---|---|---|
| `arq_safe` | one end sends 4 chunks; send window 2, any congestion window, receive window 3, two packets in transit, duplicates | order, acknowledged segments held, no blocked queue, bounded buffers, a window that keeps its edge, the channel implemented |
| `arq_live` | one end sends 3 chunks, send window 1, receive window 2, network that loses, a program that reads or does not | `EverythingArrives`, `WindowReopens` |
| `clock` | clock of 24 readings, interval 3, jump threshold 6, calls up to 5 late, clock set to any reading | flushes neither pile up nor come late, a set clock stops them for the threshold at most, resends in time, `ikcp_check` never late |
| `server_safe` | 3 connections, 2 descriptors | no use after release, no stolen descriptor, no event without handle, `accept` never blocks |
| `server_live` | 2 connections, 1 descriptor, a read refused or resent | one answer at most through KCP, and that at the read which completes the file unless a read was refused; ended connections are released, whole files answered |
| `server_torn` | lookups that race with `erase` | violated: `assert(client)` |
| `client` | `finish_loop` starts with either value, waits 3, select 5 | nothing left to acknowledge once the answer is read; unless `finish_loop` starts true: one reader, no use after release by the receiving thread, which ends before the object goes; `send_file` and destructor return, the receiving thread ends |
| `client_assert` | the same | violated: `assert(kcp)` in `ikcp_recv` |
| `faketcp_safe` | 2 segments of the client, 1 of the server, 2 FINs that differ, old and foreign segments | handshake answered, acknowledged FIN means that FIN and all before it arrived, no FIN ends the stream before what was sent when the closing began |
| `faketcp_assert` | 1 segment each way | violated: `assert(info.fin)` |
| `sender` | 3 segments, window 3, the peer's window 2 or 3, 2 losses, both settings of `ikcp_nodelay` the program uses | no resend without a loss or an overtaking, `cwnd` and `incr` together, growth within the peer's window, all acknowledged |
| `transfer` | files of 1 to 3 messages, reads that end anywhere | the checksums cover what is sent, nothing is forgotten that has not come whole, the file is a prefix of what was sent, the answer means all is written, messages are read when they come unless an input was refused, every message arrives |

The three violated properties are assertions of the repository; the `findings` of
`PROJECT.json` quote them. They are the same specifications as those of the runs that pass
(`server_torn` with lookups that race).

Bounds, and why they are enough:
- `arq_*`: a send window of 2, a receive window of 3 and messages of at most 2 fragments
  let every queue fill, a message block the queue, be too long for the reader's buffer, and a
  segment come beyond the window. In `arq_live` the receive queue holds 2, so that the third
  chunk needs a read and the news of it. The network holds two different packets at a time (`NetCap`), each of which may
  be received again and again: enough for every pair that overtakes each other. Chunks
  go one way in both runs, for with chunks both ways a fourth chunk is out of TLC's reach; the
  theorems are about any traffic in both directions. The
  code's own relation of the constants (a message shorter than 128 fragments,
  `rcv_wnd` at least 128) is an assumption of the module.
- `server_*`: with fewer descriptors than connections a number is used again while
  the other thread may still hold the old handle. `FileChunks = 1` separates the message
  with the name from the data; the one with the name is the longer one (`Size`), so that it may
  stay in the queue when a short read follows a refused one. `NoiseCap` bounds the reads that are
  refused or hold resends, `InboxCap` those that wait in a socket. `server_safe` has none refused:
  refused reads change no handle, descriptor or map entry, and the theorems have them.
- `client`: 3 and 5 are the seconds of the code; `ArriveCap` packets are enough to
  restart `select` and to end the receiving thread early.
- `faketcp_*`: two segments let one be missing in front of another, and one be sent before
  the FIN and one after; two FINs let the second have the number the first did not.
- `clock`: a jump threshold well below half the clock's range, as 10000 is below 2^31;
  `RtoCap` bounds the growth of the timeout.

- `sender`: three segments let one be overtaken twice, `fastresend` being 2; two losses
  let a segment be lost again after its timer backed off. `RttMax` 2 is below `MinRto` 3,
  the relation `ResendsAccounted` needs; `dead_link` 3 is passed within the run. The peer's
  window is never 0: probing a closed window is in `KcpArq` (`WindowReopens`).
- `transfer`: overhead 2, name 1, chunk 4, KCP MTU 9, `UDP_MTU` 10, read buffer 11 keep the
  code's relations (a packet fits a part, two packets do not fit a read, a chunk and
  its overhead are less than a packet). `Early` bounds reads that end inside a packet.

Deadlock checking is off where the system really stops: all traffic done, all
connections released, the client gone.

## Fairness

- `KcpArq`: both ends call `ikcp_update` for ever (the update thread, `client_loop`); a packet
  that is sent again and again is received in the end (`FairSpec`). Nothing is assumed of
  the programs that read: the server's gives `ikcp_recv` the size of its last read, and may leave a
  message in the queue for ever. The properties have room in that queue as their premise.
- `ServerEpoll`: both threads run. Insertion gets strong fairness: the update thread
  frees `update_mutex` for the 10 ms it sleeps in every round. Clients owe nothing.
- `KcpSender`: time goes on, and what is in transit arrives or is lost before it is `RttMax` old.
- `FileTransfer`: some step is taken while one is possible, the program goes on sending, and
  the server's acknowledgements come back in the end.
- `ClientThreads`: the threads run and time passes. Strong fairness for taking
  `kcp_mutex`: its holders sleep a millisecond, or in `select`, between two uses. The server owes nothing.

## Proofs

`KcpArqProofs` proves, for all windows, traffic limits and networks that satisfy the module's
named assumptions, `Spec => []P` for P each of `TypeOK`, `InOrderDelivery`, `AckedIsHeld`,
`FullQueueIsReadable`, `BuffersBounded`, `SndUnaIsFirst`; the action property
`WindowNeverShrinks`; and that the protocol implements `MessageChannel` (`ChannelSpec`).

None of these is inductive. A packet in transit may be older than anything the
ends still remember, so the invariant `IndInv` says of every packet in the network what was true
when it was sent and stays true: a push segment carries the chunk its number
stands for in the sender's stream; an acknowledgement or una names only numbers the
receiver holds or has passed. It ties `snd_buf` and `snd_queue` to the end of the
stream, `rcv_queue` and `rcv_buf` to its middle, what was read to its beginning, and places the
fragment counters so that a full queue ends a message. It is proved inductive with one
lemma per action; each property then follows from it.

`WindowNeverShrinks` follows because, by `IndInv`, the right edge is what was read
plus the whole window, and what was read only grows (`RightEdge`, `ReadGrows`). For the
refinement, `MessageOfQueue` shows that the loop of `ikcp_recv` stops at the end of one
whole message of the sender's stream; `Send` and `Recv` are steps of the channel and
every other action leaves `stream` and `read` alone.

`KcpClockProofs` proves `TypeOK` and the four other invariants of `KcpClock` for every width of the clock,
interval, jump threshold and timeout that satisfy the module's assumptions. They are not
inductive because a reading of the clock says little by itself: the invariant places
`ts_flush` (`Ahead`) and `resendts` (`InFlight`) at a true distance from `current`, small enough
that `_itimediff` returns it. That rests on `DiffExact`: a signed difference is exact for any two
times less than half the range apart. The same lemma covers `sn` and `una`, which `ikcp.cc`
compares with the same function and `KcpArq` counts without a wrap.

`KcpSenderProofs` proves of `KcpRtt`, for every sample and estimate, that `rx_rto` stays
in its bounds (`RtoBounds`), and that with an interval of 8 ticks and more a steady network, once the estimate
is within the 7 ticks at which its rounding stops, never resends by a timer (`SteadyRto`);
and of `KcpSender` the invariant `CwndTracksIncr` (through `Tracks`, which also says that a window
of 0 has no bytes, without which the first growth would break it), that never more than
`snd_wnd` segments are in flight (`InFlightBounded`), the action property
`GrowthWithinPeer`, `TypeOK` and `ResendsAccounted`. For `TypeOK` the folds over the acknowledgements
of a packet (the round-trip samples, the latest acknowledgement, the losses) are
unfolded to functions on the prefixes of the packet, of which least numbers then say
what they bound. `ResendsAccounted` assumes `RttMax < MinRto`, without which a late packet is
resent for nothing. `Accounted` says of each segment that its transmissions are at most its
losses and its copies on the way (`Copies`), that none of these copies is younger than the last
transmission, whose timer was set to `rx_minrto` at least (`Timer`), and that the losses and
the overtakings pay for every transmission but the first (`Paid`). A copy on the way when the timer
runs out would be older than `RttMax`; so there is none, and the last transmission was lost.

`FileTransferProofs` proves of `Checksum` that a receiver verifies what
`calculate_tcp_checksum` gives for its data (`OwnChecksumVerifies`), and the invariants of `FileTransfer`
for any files, lengths of header, mtu and buffers that satisfy the module's assumptions. The
inductive invariant has three parts: `Typed`, in which a byte anywhere on its way
belongs to a segment that was sent; `HeldOnce`, that what is acknowledged or has left
`snd_buf` is held by the server; and `Delivered`, that `rcv_queue` is the run of messages before
`rcv_nxt`, and the file the run before that one without the name. `OutputIs` and `BytesAre` follow the
packing of `ikcp_flush` and the cutting of `tcp_client_cb`, `UptoIs` and `ReadableIs` the loops of
`ikcp_parse_data` and `ikcp_recv`, `OneSum` the size a file has reached. Three
theorems have an assumption the code justifies: `ChecksumsAlwaysVerify` and `ReadWhenComplete` that
`Mtu <= UdpMtu`, which are 1400 and 1448 in the code (of a longer packet every part but the first
has a wrong checksum, which is what the first property is about), and `AnsweredWhenWritten` that no
file is empty, for an empty one is never answered (a hazard of the list).

`ReadWhenComplete` proves `ReadAtOnce` from the order of all bytes on their way (`FlowInv`): those
in the stream and behind them those the TCP segments carry (`Whole`). As long as no input was
refused they are whole segments one behind another (`Laid`); each is an old one, the next one,
or has its predecessor in front of it (`Chained`); and every segment that the server lacks is
among them (`Coming`). So a read that is not refused takes the next segments in
order, nothing waits in `rcv_buf`, and each message it completes lies in that read whole, which makes
it short enough for the size `ikcp_recv` is given. A read may end inside a header without being
refused; the next one then begins inside a segment and is refused (`Cut`). `FlushedIs` says
that a flush adds each of its segments whole and in order, however `ikcp_flush` packs them (`PacketsSpan`).

`ServerEpollProofs` proves the invariants of `ServerEpoll`, `TypeOK` among them, for any
connections, descriptors and length of file, with lookups torn or not. Each says something of one
moment; what carries them from step to step is a chain of ownership. `Owned` pairs
live handles with open descriptors. `Watching` says that a watched descriptor belongs to a
connection that was not stopped and is in the map, or was accepted just now;
`Scanning` that only what was stopped is erased. So nothing in the interest list is ever
erased, every event finds its handle (`Batch`), and `DestroyKeeps` shows that destroying
what no `shared_ptr` names touches neither the interest list nor a descriptor
that is in use. `AnswersWhole` is about every read, refused ones included. `Answers` has the answer given
at the message that completes the file, and only there. As long as no read of a connection was refused,
its messages come without gaps (`Gapless`; `GaplessGrows` for what the client sends, `GaplessShrinks`
for a read, `GaplessCut` for the end of a connection), so what `ikcp_recv` has not returned came with the last read, and is no longer than that
(`Readable`): when it stops, nothing is left.

`ClientThreadsProofs` proves the invariants of `ClientThreads` for any number of messages, any
deadlines, and whatever `finish_loop` starts with: the types, that the answer leaves nothing to
acknowledge, and that the FIN waits for it hold in any case; the other three say that
only a flag that started true (`garbage`) breaks them, as `client_assert` shows it does. `ReceiverOutlived`
alone assumes `2 * WaitTime > SelectTime`, as 3 s and 5 s of the code satisfy. `Ended` says what main may conclude
from `finish_loop`; `OnTime` adds the seconds since `stopFlag` was set to those the receiving
thread's `select` has left, which is how two waits of main outlast it. Also proved here, from
the answer's una: `AnswerMeansDrained`, that once the answer is read `ikcp_waitsnd`
is 0, so the wait on it never leaves `send_file` without `Close`.

`FakeTcpProofs` proves the invariants of `FakeTcp` for any number of segments and FINs, with
`client_loop` sending until it sees `stopFlag`. `Answers` is the part that makes them inductive: an
acknowledgement the server's kernel ever sent stays true, because what it holds only grows.
`CLIENT_SUM_SEND` counts whole segments (`Even`), and the kernel holds them whole (`Paired`): as no
data segment is one byte long, an acknowledgement of one byte more than whole segments is
that of a FIN, and not of data that went out at its number. `EndIsComplete` needs less, that
every FIN has a number behind what was sent when the closing began (`Sent`). The module assumes of old segments that they do not
acknowledge numbers of this connection (`OldAssumption`): the client takes the first
number from `rand()` seeded with the second and compares nothing else, so without
it the properties fail.

`NumberFacts` has the lemmas on remainders and least numbers that `KcpClockProofs`,
`KcpSenderProofs`, `FileTransferProofs` and `FakeTcpProofs` rest on.

Only model-checked: liveness, which depends on fairness and is out of the prover's
reach. What is named "proved" only needs no run.

## What is not modelled

- `ikcp_check` names the current time whenever a segment's resend time has come, although
  `ikcp_update` flushes at `ts_flush` only. Nothing calls `ikcp_check`; `KcpClock` has it as it is.
- Stream mode of KCP, which nothing turns on, its log and its queries.
- `calculate_ip_checksum`: the kernel fills that field of a raw socket's packets.
  `prase_tcp_packet` copies header fields; sockets are set up by I/O calls.
- Partial sends of the server's socket: what the server sends is short.
- `model.cc`, `code/kcp.cc`, `code/kcp.h`, `run_tcp_server*`: not built or never called.
- `client_loop` after `Close`: it has no flag that says it ended, and may be inside
  `ikcp_update` when the block is released. `ClientThreads` contains these states; the
  properties speak of the receiving thread.
- What the models show and no statement of the repository contradicts is listed as a hazard
  with a note, not as a finding: connections left in the accept queue, an empty file that is
  never answered, and a transfer that stalls after a refused read (the name, a chunk and a last
  chunk that is cut: it comes again alone, its read is shorter than the chunk that waits in
  the queue, and `ikcp_recv` is told that size).

## Plan

Every safety invariant and action property of the runs has its theorem. What is left is
`client_loop` after `Close`, with a property of its own, if the code gets a flag that says it
ended.
