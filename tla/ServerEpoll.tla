----------------------------- MODULE ServerEpoll -----------------------------
(***************************************************************************)
(* The server process of code/kcp/server_epoll.cc: the epoll thread        *)
(* (startEpoll) accepts connections, reads them and feeds their control    *)
(* blocks; the update thread (updateKcp) calls ikcp_update for every       *)
(* client and erases those that stopped.  The two share the map clients.   *)
(*                                                                         *)
(* Insertion and the update thread's scan hold update_mutex; the lookup    *)
(* clients[fd] of the epoll thread holds no lock.  A handle                *)
(* (KcpHandleClient) lives as long as some shared_ptr refers to it; its    *)
(* destructor releases the control block and closes its descriptor.        *)
(*                                                                         *)
(* The kernel's part is its accept queue, the edge-triggered readiness of  *)
(* the listening socket, the level-triggered readiness of connections and  *)
(* the table of descriptors, whose numbers are used again once closed.     *)
(* What KCP does with a read is abstract: it takes the messages that the   *)
(* read holds whole, whatever their order, and hands them out in order to  *)
(* a caller whose buffer is long enough.  ikcp_input refuses a read that   *)
(* cuts a segment; what was cut off is gone until the client resends it.   *)
(***************************************************************************)
EXTENDS Integers, Sequences, FiniteSets

CONSTANTS
  Conn,         \* the connections clients make, each with its handle
  Fd,           \* the descriptors the process may have for connections
  None,         \* no handle
  Null,         \* the null pointer clients[fd] inserts for an absent key
  FileChunks,   \* messages of a file after the one with its name and size
  Size,         \* Size[m]: the length of message m
  NoiseCap,     \* bound: reads that are refused or hold resends
  InboxCap,     \* bound: reads that wait in the socket of a connection
  TornLookup    \* whether a lookup that races with erase may miss its key

ASSUME HandleAssumption == None \notin Conn /\ Null \notin Conn /\ None # Null
ASSUME FileAssumption   == {FileChunks, NoiseCap, InboxCap} \subseteq Nat
                             /\ Size \in [1..FileChunks + 1 -> Nat]
ASSUME TornAssumption   == TornLookup \in BOOLEAN

VARIABLES
  backlog,    \* connections in the accept queue of the listening socket
  edge,       \* a connection arrived since epoll_wait last reported it
  owner,      \* owner[f]: the connection descriptor f is open for, or None
  watched,    \* the descriptors in the interest list of epoll_fd
  written,    \* written[c]: messages client c has sent
  noise,      \* reads that were refused or held resends
  inbox,      \* inbox[c]: what read has not returned yet
  ended,      \* ended[c]: "no", "fin" or "reset" by the client, or "dropped"
  fd,         \* fd[c]: the descriptor the handle of c remembers
  kcp,        \* kcp[c]: the control block: "none", "live" or "released"
  stop,       \* stop[c]: stopFlag of the handle
  taken,      \* taken[c]: the messages ikcp_input has accepted
  got,        \* got[c]: messages ikcp_recv returned
  finished,   \* finished[c]: "send_finish" messages given to ikcp_send
  raw,        \* raw[c]: "send_finish" sent past KCP, for refused reads
  clients,    \* the map from descriptors to handles, None where absent
  epc,        \* where the epoll thread is
  batch,      \* the events of epoll_wait not yet handled
  client,     \* the epoll thread's local shared_ptr
  efd,        \* the descriptor of the event it handles
  ret,        \* the length of its last read
  upc,        \* where the update thread is
  todo,       \* the entries its scan has still to visit
  uclient     \* its local shared_ptr

kernel  == <<backlog, edge, owner, watched>>
peers   == <<written, noise, inbox, ended>>
handles == <<fd, kcp, stop, taken, got, finished, raw>>
epoll   == <<epc, batch, client, efd, ret>>
update  == <<upc, todo, uclient>>
vars    == <<kernel, peers, handles, clients, epoll, update>>

Handle == Conn \cup {None, Null}
Listen == [kind |-> "listen"]
Events == {Listen} \cup [kind : {"conn"}, fd : Fd, hup : BOOLEAN]

Message == 1..FileChunks + 1

(* The length of a read matters by the messages that are no longer.        *)
Sizes == {0} \cup {Size[m] : m \in Message}

(* A read: the messages it holds whole, its length, and whether ikcp_input *)
(* refuses it, at the first segment that is cut or at no segment at all    *)
(* (its length is then not used).                                          *)
Read == {r \in [holds : SUBSET Message, size : Sizes, refused : BOOLEAN] :
           IF r.refused THEN r.size = 0 ELSE \A m \in r.holds : Size[m] <= r.size}

(* update_mutex is held for the whole scan of the update thread.           *)
Locked == upc # "sleep"

Init ==
  /\ backlog = {} /\ edge = FALSE /\ watched = {}
  /\ owner = [f \in Fd |-> None]
  /\ written = [c \in Conn |-> 0] /\ noise = 0
  /\ inbox = [c \in Conn |-> <<>>]
  /\ ended = [c \in Conn |-> "no"]
  /\ fd = [c \in Conn |-> None]
  /\ kcp = [c \in Conn |-> "none"]
  /\ stop = [c \in Conn |-> FALSE]
  /\ taken = [c \in Conn |-> {}] /\ got = [c \in Conn |-> 0]
  /\ finished = [c \in Conn |-> 0] /\ raw = [c \in Conn |-> 0]
  /\ clients = [f \in Fd |-> None]
  /\ epc = "wait" /\ batch = {} /\ client = None /\ efd = None /\ ret = 0
  /\ upc = "sleep" /\ todo = {} /\ uclient = None

-----------------------------------------------------------------------------
(* The clients, through the kernel.                                        *)

Open(c) == c \in backlog \/ \E f \in Fd : owner[f] = c

Connect(c) ==
  /\ ~ Open(c) /\ kcp[c] = "none" /\ ended[c] = "no"
  /\ backlog' = backlog \cup {c}
  /\ edge' = TRUE
  /\ UNCHANGED <<owner, watched, peers, handles, clients, epoll, update>>

(* The next part of the file on its own, or a read with resends in it, or  *)
(* one that is refused.                                                    *)
AsPlanned(c, r, n) == ~ r.refused /\ n > 0 /\ r.holds = written[c] + 1..written[c] + n

Write(c) ==
  /\ Open(c) /\ ended[c] = "no" /\ Len(inbox[c]) < InboxCap
  /\ \E r \in Read, n \in 0..FileChunks + 1 - written[c] :
       /\ r.holds \subseteq 1..written[c] + n
       /\ r.refused \/ written[c] + 1..written[c] + n \subseteq r.holds
       /\ \A m \in r.holds : m > written[c] + 1 => m - 1 \in r.holds
       /\ inbox' = [inbox EXCEPT ![c] = Append(@, r)]
       /\ written' = [written EXCEPT ![c] = @ + n]
       /\ IF AsPlanned(c, r, n)
            THEN UNCHANGED noise
            ELSE noise < NoiseCap /\ noise' = noise + 1
  /\ UNCHANGED <<kernel, ended, handles, clients, epoll, update>>

(* A reset throws away what was not read.                                  *)
End(c) ==
  /\ Open(c) /\ ended[c] = "no"
  /\ \/ ended' = [ended EXCEPT ![c] = "fin"] /\ UNCHANGED inbox
     \/ /\ ended' = [ended EXCEPT ![c] = "reset"]
        /\ inbox' = [inbox EXCEPT ![c] = <<>>]
  /\ UNCHANGED <<kernel, written, noise, handles, clients, epoll, update>>

-----------------------------------------------------------------------------
(* Destruction.  Each step that drops a shared_ptr destroys the handles    *)
(* that no other refers to: ikcp_release, then close of the descriptor     *)
(* number, which also takes it out of the interest list.                   *)

Held(c, map, e, u) == e = c \/ u = c \/ \E f \in Fd : map[f] = c

Dropped(map, e, u) == {c \in Conn : kcp[c] = "live" /\ ~ Held(c, map, e, u)}

Destroy(gone) ==
  /\ kcp' = [c \in Conn |-> IF c \in gone THEN "released" ELSE kcp[c]]
  /\ owner' = [f \in Fd |->
                 IF \E c \in gone : fd[c] = f THEN None ELSE owner[f]]
  /\ watched' = watched \ {fd[c] : c \in gone}

-----------------------------------------------------------------------------
(* The epoll thread.                                                       *)

ConnEvent(f) == [kind |-> "conn", fd |-> f, hup |-> ended[owner[f]] = "reset"]

ReadyFds == {f \in watched : inbox[owner[f]] # <<>> \/ ended[owner[f]] # "no"}

(* Edge-triggered: the listening socket is reported once per new edge.     *)
EpollWait ==
  /\ epc = "wait"
  /\ batch' = {ConnEvent(f) : f \in ReadyFds}
                \cup (IF edge THEN {Listen} ELSE {})
  /\ batch' # {}
  /\ edge' = FALSE
  /\ epc' = "dispatch"
  /\ UNCHANGED <<backlog, owner, watched, peers, handles, clients, client, efd, ret, update>>

BatchDone ==
  /\ epc = "dispatch" /\ batch = {}
  /\ epc' = "wait"
  /\ UNCHANGED <<kernel, peers, handles, clients, batch, client, efd, ret, update>>

MutAccepted == batch

(* One accept per event, with no loop around it.                           *)
Accepted == batch \ {Listen}

(* The handle is in the interest list before it is in the map.             *)
Accept ==
  /\ epc = "dispatch" /\ Listen \in batch
  /\ batch' = Accepted
  /\ \E c \in backlog, f \in {g \in Fd : owner[g] = None} :
       /\ backlog' = backlog \ {c}
       /\ owner' = [owner EXCEPT ![f] = c]
       /\ watched' = watched \cup {f}
       /\ fd' = [fd EXCEPT ![c] = f]
       /\ kcp' = [kcp EXCEPT ![c] = "live"]
       /\ client' = c
  /\ epc' = "insert"
  /\ UNCHANGED <<edge, peers, stop, taken, got, finished, raw, clients, efd, ret,
                 update>>

(* setNonBlocking or epoll_ctl fails: the connection is closed again.      *)
AcceptDrops ==
  /\ epc = "dispatch" /\ Listen \in batch
  /\ \E f \in Fd : owner[f] = None
  /\ batch' = Accepted
  /\ \E c \in backlog :
       /\ backlog' = backlog \ {c}
       /\ ended' = [ended EXCEPT ![c] = "dropped"]
       /\ inbox' = [inbox EXCEPT ![c] = <<>>]
  /\ UNCHANGED <<edge, owner, watched, written, noise, handles, clients, epc,
                 client, efd, ret, update>>

(* accept fails when the process has no descriptor left.                   *)
AcceptFails ==
  /\ epc = "dispatch" /\ Listen \in batch
  /\ \A f \in Fd : owner[f] # None
  /\ batch' = batch \ {Listen}
  /\ UNCHANGED <<kernel, peers, handles, clients, epc, client, efd, ret, update>>

Insert ==
  /\ epc = "insert" /\ ~ Locked
  /\ clients' = [clients EXCEPT ![fd[client]] = client]
  /\ client' = None
  /\ Destroy(Dropped(clients', None, uclient))
  /\ epc' = "dispatch"
  /\ UNCHANGED <<backlog, edge, peers, fd, stop, taken, got, finished, raw,
                 batch, efd, ret, update>>

(* client = clients[fd], with no lock: an absent key gets a null pointer,  *)
(* and so may a key that is missed while erase relinks the tree.           *)
Found(f) ==
  IF clients[f] = None THEN {Null}
  ELSE {clients[f]} \cup (IF TornLookup /\ upc = "erase" THEN {Null} ELSE {})

Lookup ==
  /\ epc = "dispatch"
  /\ \E e \in batch \ {Listen} :
       /\ batch' = batch \ {e}
       /\ efd' = e.fd
       /\ client' \in Found(e.fd)
       /\ clients' = [clients EXCEPT ![e.fd] = IF @ = None THEN Null ELSE @]
       /\ epc' = IF e.hup THEN "hangup" ELSE "read"
  /\ UNCHANGED <<kernel, peers, handles, ret, update>>

(* read, ikcp_input and its error path, which sends "send_finish" outside  *)
(* KCP and reads on.  read needs only the descriptor.                      *)
ReadMessage ==
  /\ epc = "read" /\ client # Null
  /\ inbox[owner[efd]] # <<>>
  /\ LET c == owner[efd]
         r == Head(inbox[c])
     IN /\ inbox' = [inbox EXCEPT ![c] = Tail(@)]
        /\ taken' = [taken EXCEPT ![client] = @ \cup r.holds]
        /\ IF r.refused
             THEN raw' = [raw EXCEPT ![client] = @ + 1] /\ UNCHANGED <<epc, ret>>
             ELSE epc' = "recv" /\ ret' = r.size /\ UNCHANGED raw
  /\ UNCHANGED <<kernel, written, noise, ended, fd, kcp, stop, got, finished,
                 clients, batch, client, efd, update>>

ReadEnd ==
  /\ epc = "read" /\ inbox[owner[efd]] = <<>>
  /\ epc' = IF ended[owner[efd]] = "fin" THEN "eof" ELSE "done"
  /\ UNCHANGED <<kernel, peers, handles, clients, batch, client, efd, ret, update>>

MutComplete(n) == n >= FileChunks

(* n messages: the one with name and size, then at least file_size of data *)
(* (the test stands after the first message's continue).                   *)
Complete(n) == n > 1 /\ n - 1 >= FileChunks

MutDrained(c) == got[c] + 2 \notin taken[c]

(* ikcp_recv has nothing more, or its next message is longer than the last *)
(* read, whose length it is given for its buffer's: the message stays.     *)
Drained(c) == got[c] + 1 \in taken[c] => Size[got[c] + 1] > ret

Recv ==
  /\ epc = "recv"
  /\ IF Drained(client)
       THEN epc' = "read" /\ ret' = 0 /\ UNCHANGED got
       ELSE /\ got' = [got EXCEPT ![client] = @ + 1]
            /\ epc' = IF Complete(got[client] + 1) THEN "reply" ELSE "recv"
            /\ UNCHANGED ret
  /\ UNCHANGED <<kernel, peers, fd, kcp, stop, taken, finished, raw, clients, batch,
                 client, efd, update>>

(* ikcp_send of "send_finish". *)
Reply ==
  /\ epc = "reply"
  /\ finished' = [finished EXCEPT ![client] = @ + 1]
  /\ epc' = "recv"
  /\ UNCHANGED <<kernel, peers, fd, kcp, stop, taken, got, raw, clients, batch,
                 client, efd, ret, update>>

(* The lines commented out after the stop flag: close(fd), client->Close() *)
(* and, at a hang-up, the missing EPOLL_CTL_DEL or flag.                   *)
MutStopClosing(c) ==
  /\ watched' = watched \ {fd[c]}
  /\ stop' = [stop EXCEPT ![c] = TRUE]
  /\ owner' = [owner EXCEPT ![fd[c]] = None]
  /\ UNCHANGED kcp

MutStopReleasing(c) ==
  /\ watched' = watched \ {fd[c]}
  /\ stop' = [stop EXCEPT ![c] = TRUE]
  /\ kcp' = [kcp EXCEPT ![c] = "released"]
  /\ UNCHANGED owner

MutStopWatched(c) ==
  /\ stop' = [stop EXCEPT ![c] = TRUE]
  /\ UNCHANGED <<watched, owner, kcp>>

MutStopSilent(c) ==
  /\ watched' = watched \ {fd[c]}
  /\ UNCHANGED <<stop, owner, kcp>>

(* EPOLL_CTL_DEL, then stopFlag: the update thread does the rest.          *)
Stop(c) ==
  /\ watched' = watched \ {fd[c]}
  /\ stop' = [stop EXCEPT ![c] = TRUE]
  /\ UNCHANGED <<owner, kcp>>

Finish ==
  /\ epc \in {"hangup", "eof"} /\ client # Null
  /\ Stop(client)
  /\ epc' = "done"
  /\ UNCHANGED <<backlog, edge, peers, fd, taken, got, finished, raw, clients,
                 batch, client, efd, ret, update>>

(* The end of an event's iteration: the local shared_ptr goes.             *)
Done ==
  /\ epc = "done"
  /\ epc' = "dispatch" /\ client' = None /\ efd' = None
  /\ Destroy(Dropped(clients, None, uclient))
  /\ UNCHANGED <<backlog, edge, peers, fd, stop, taken, got, finished, raw,
                 clients, batch, ret, update>>

-----------------------------------------------------------------------------
(* The update thread.                                                      *)

Scan ==
  /\ upc = "sleep"
  /\ upc' = "scan"
  /\ todo' = {f \in Fd : clients[f] # None}
  /\ UNCHANGED <<kernel, peers, handles, clients, epoll, uclient>>

Visit ==
  /\ upc = "scan"
  /\ \E f \in todo :
       /\ clients[f] # Null
       /\ todo' = todo \ {f}
       /\ uclient' = clients[f]
       /\ upc' = IF stop[clients[f]] THEN "erase" ELSE "update"
  /\ UNCHANGED <<kernel, peers, handles, clients, epoll>>

(* ikcp_update, then the local shared_ptr goes.                            *)
UpdateOne ==
  /\ upc = "update"
  /\ upc' = "scan" /\ uclient' = None
  /\ Destroy(Dropped(clients, client, None))
  /\ UNCHANGED <<backlog, edge, peers, fd, stop, taken, got, finished, raw,
                 clients, epoll, todo>>

Erase ==
  /\ upc = "erase"
  /\ upc' = "scan" /\ uclient' = None
  /\ clients' = [clients EXCEPT ![fd[uclient]] = None]
  /\ Destroy(Dropped(clients', client, None))
  /\ UNCHANGED <<backlog, edge, peers, fd, stop, taken, got, finished, raw,
                 epoll, todo>>

Sleep ==
  /\ upc = "scan" /\ todo = {}
  /\ upc' = "sleep"
  /\ UNCHANGED <<kernel, peers, handles, clients, epoll, todo, uclient>>

-----------------------------------------------------------------------------
EpollThread == \/ EpollWait \/ BatchDone \/ Accept \/ AcceptDrops \/ AcceptFails
               \/ Insert \/ Lookup \/ ReadMessage \/ ReadEnd \/ Recv \/ Reply
               \/ Finish \/ Done

UpdateThread == Scan \/ Visit \/ UpdateOne \/ Erase \/ Sleep

Next == \/ \E c \in Conn : Connect(c) \/ Write(c) \/ End(c)
        \/ EpollThread
        \/ UpdateThread

Spec == Init /\ [][Next]_vars

(* Both threads run; update_mutex is free for the 10 ms the update thread  *)
(* sleeps, so the epoll thread gets it in the end.                         *)
Fairness == WF_vars(EpollThread) /\ SF_vars(Insert) /\ WF_vars(UpdateThread)

FairSpec == Spec /\ Fairness

-----------------------------------------------------------------------------
(* Types of the two threads' state and of the map.                         *)
TypeOK ==
  /\ backlog \subseteq Conn /\ edge \in BOOLEAN
  /\ owner \in [Fd -> Conn \cup {None}] /\ watched \subseteq Fd
  /\ written \in [Conn -> 0..FileChunks + 1] /\ noise \in 0..NoiseCap
  /\ \A c \in Conn : \A i \in 1..Len(inbox[c]) : inbox[c][i] \in Read
  /\ ended \in [Conn -> {"no", "fin", "reset", "dropped"}]
  /\ fd \in [Conn -> Fd \cup {None}]
  /\ kcp \in [Conn -> {"none", "live", "released"}]
  /\ stop \in [Conn -> BOOLEAN]
  /\ taken \in [Conn -> SUBSET Message] /\ got \in [Conn -> 0..FileChunks + 1]
  /\ finished \in [Conn -> Nat] /\ raw \in [Conn -> Nat]
  /\ clients \in [Fd -> Handle]
  /\ epc \in {"wait", "dispatch", "insert", "hangup", "read", "recv", "reply",
              "eof", "done"}
  /\ batch \subseteq Events /\ client \in Handle /\ efd \in Fd \cup {None}
  /\ ret \in Sizes
  /\ upc \in {"sleep", "scan", "update", "erase"}
  /\ todo \subseteq Fd /\ uclient \in Conn \cup {None}

(* A thread that is inside an ikcp_ function has a control block that was  *)
(* not released: erase never pulls it from under the epoll thread, nor the *)
(* end of a connection from under ikcp_update.                             *)
UsedIsLive ==
  /\ epc \in {"read", "recv", "reply"} /\ client # Null => kcp[client] = "live"
  /\ upc = "update" => kcp[uclient] = "live"

(* The descriptor of a live handle is open for its own connection: a       *)
(* number is never closed early and given to the next connection, which    *)
(* the old handle's destructor would then close.                           *)
DescriptorOwned ==
  \A c \in Conn : kcp[c] = "live" => owner[fd[c]] = c

(* Every event at hand is of a descriptor in the map, so that clients[fd]  *)
(* never inserts a null handle.                                            *)
EventsHaveClients ==
  \A e \in batch \ {Listen} : clients[e.fd] \in Conn

(* The listening socket blocks; whenever accept is called for an event, a  *)
(* connection waits.                                                       *)
AcceptNeverBlocks == Listen \in batch => backlog # {}

(* Through KCP a client gets one answer at most, when the server has       *)
(* written its whole file; and while no read of it was refused, it gets    *)
(* that answer before the server is done with the read that completes the  *)
(* file: no message stays behind in the queue.  (After a refused read one  *)
(* may, and the "send_finish" the client then has was sent past KCP.)  An  *)
(* empty file is not answered.                                             *)
AnsweredIfWhole ==
  \A c \in Conn :
    /\ finished[c] <= 1
    /\ finished[c] = 1 => got[c] = FileChunks + 1
    /\ taken[c] = Message /\ raw[c] = 0 /\ FileChunks > 0
         => finished[c] = 1 \/ (epc \in {"recv", "reply"} /\ client = c)

(* assert(client): the handle of the event was found.                      *)
AssertClient == epc = "eof" => client # Null

(* A connection the client ended is released in the end, and its           *)
(* descriptor with it.                                                     *)
EndedIsReleased ==
  \A c \in Conn : kcp[c] = "live" /\ ended[c] # "no" ~> kcp[c] = "released"

(* A client that has sent its whole file is answered, unless it resets, or *)
(* one of its reads is refused and it is sent "send_finish" past KCP.      *)
WholeFileIsAnswered ==
  \A c \in Conn :
    kcp[c] = "live" /\ written[c] = FileChunks + 1
      ~> finished[c] = 1 \/ ended[c] = "reset" \/ raw[c] > 0
=============================================================================
