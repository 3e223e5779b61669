-------------------------- MODULE ServerEpollProofs -------------------------
(***************************************************************************)
(* What TLAPS proves of ServerEpoll, for any connections and descriptors,  *)
(* any length of the file and of its messages and lookups torn or not: no  *)
(* thread uses a control block that was released, no descriptor is closed  *)
(* under a connection that owns it, every event finds its handle in the    *)
(* map, accept never blocks, and a file is answered once through KCP, at   *)
(* the read that completes it unless a read was refused.                   *)
(***************************************************************************)
EXTENDS ServerEpoll, FiniteSetTheorems, TLAPS

(* The types, sharper than TypeOK: the map never holds a null pointer.     *)
Typed ==
  /\ TypeOK
  /\ inbox \in [Conn -> Seq(Read)]
  /\ clients \in [Fd -> Conn \cup {None}]

(* Live handles and open descriptors belong to each other.                 *)
Owned ==
  /\ \A c \in Conn : /\ kcp[c] = "live" => fd[c] \in Fd /\ owner[fd[c]] = c
                     /\ c \in backlog => kcp[c] = "none"
                     /\ stop[c] => kcp[c] # "none"
  /\ \A f \in Fd : owner[f] # None => /\ kcp[owner[f]] = "live"
                                      /\ fd[owner[f]] = f

(* Whatever a shared_ptr refers to is live, and in the map at its place.   *)
Refs ==
  /\ client \in Conn => kcp[client] = "live"
  /\ uclient \in Conn => kcp[uclient] = "live"
  /\ \A f \in Fd : clients[f] \in Conn => /\ kcp[clients[f]] = "live"
                                          /\ fd[clients[f]] = f

(* The interest list: connections that were not stopped, in the map but    *)
(* for the one accepted last.                                              *)
Watching ==
  \A f \in watched : /\ owner[f] \in Conn /\ ~ stop[owner[f]]
                     /\ \/ clients[f] = owner[f]
                        \/ epc = "insert" /\ client = owner[f]

(* The events at hand, one for each descriptor, are of watched ones.       *)
Batch ==
  /\ \A e \in batch \ {Listen} : e.fd \in watched /\ clients[e.fd] \in Conn
  /\ \A d, e \in batch \ {Listen} : d.fd = e.fd => d = e
  /\ epc = "wait" => batch = {}

(* The event the epoll thread handles.                                     *)
Handling ==
  /\ epc \in {"hangup", "read", "recv", "reply", "eof"} =>
       /\ efd \in Fd /\ clients[efd] \in Conn /\ ~ stop[clients[efd]]
       /\ client \in {clients[efd], Null}
       /\ \A e \in batch \ {Listen} : e.fd # efd
  /\ epc \in {"recv", "reply"} => client # Null
  /\ epc = "insert" => client \in Conn /\ ~ stop[client]

(* The scan of the update thread: what is still to visit is in the map,    *)
(* and only what was stopped is erased.                                    *)
Scanning ==
  /\ upc \in {"update", "erase"} =>
       /\ uclient \in Conn /\ fd[uclient] \notin todo
       /\ clients[fd[uclient]] = uclient
  /\ upc = "erase" => stop[uclient]
  /\ upc # "sleep" => \A f \in todo : clients[f] \in Conn

(* A connection waits for every event of the listening socket.             *)
Backlog ==
  /\ edge \/ Listen \in batch => backlog # {}
  /\ edge /\ Listen \in batch => \E c, d \in backlog : c # d

(* What came out of the control blocks, and what was answered.             *)
Answers ==
  /\ \A c \in Conn :
       /\ finished[c] <= 1
       /\ finished[c] = 1 => got[c] = FileChunks + 1
       /\ got[c] = FileChunks + 1 /\ FileChunks > 0
            => finished[c] = 1 \/ (epc = "reply" /\ client = c)
  /\ epc = "reply" => got[client] = FileChunks + 1 /\ finished[client] = 0

(* Message n of c is in its control block, or in the first i reads to come.*)
Coming(c, i, n) == n \in taken[c] \/ \E j \in 1..i : n \in inbox[c][j].holds

(* None of the first i reads to come will be refused.                      *)
Smooth(c, i) == \A j \in 1..i : ~ inbox[c][j].refused

(* As long as no read of it was refused, the messages of a connection come *)
(* without gaps, up to the first read that will be.                        *)
Gapless(c) ==
  /\ \A m \in taken[c] : \A n \in 1..m : n \in taken[c]
  /\ \A i \in 1..Len(inbox[c]) : Smooth(c, i) =>
       \A m \in inbox[c][i].holds : \A n \in 1..m : Coming(c, i, n)
  /\ ended[c] = "no" /\ Smooth(c, Len(inbox[c])) =>
       \A n \in 1..written[c] : Coming(c, Len(inbox[c]), n)

InOrder == \A c \in Conn : raw[c] = 0 => Gapless(c)

(* As long as no read was refused, what ikcp_recv has not returned is what *)
(* the last read brought, none of it longer than that read.                *)
Readable ==
  \A c \in Conn : raw[c] = 0 =>
    \A m \in taken[c] : m <= got[c] \/ /\ epc \in {"recv", "reply"} /\ client = c
                                       /\ Size[m] <= ret

Messages == Answers /\ InOrder /\ Readable

(* The inductive invariant.                                                *)
IndInv ==
  /\ Typed /\ Owned /\ Refs /\ Watching /\ Batch /\ Handling /\ Scanning
  /\ Backlog /\ Messages

-----------------------------------------------------------------------------
LEMMA ReadFits ==
  ASSUME NEW r \in Read
  PROVE  /\ r.holds \subseteq Message /\ r.size \in Sizes /\ r.refused \in BOOLEAN
         /\ ~ r.refused => \A m \in r.holds : Size[m] <= r.size
BY DEF Read

LEMMA SizesNat ==
  /\ FileChunks \in Nat /\ Message \subseteq Nat \ {0} /\ 0 \in Sizes /\ Sizes \subseteq Nat
  /\ \A m \in Message : Size[m] \in Nat
BY FileAssumption DEF Sizes, Message

LEMMA GaplessStays ==
  ASSUME NEW c, Gapless(c), taken'[c] = taken[c], inbox'[c] = inbox[c],
         ended'[c] = ended[c], written'[c] = written[c]
  PROVE  Gapless(c)'
BY DEF Gapless, Coming, Smooth

(* A step of the other thread, or one of the epoll thread away from        *)
(* ikcp_recv, leaves the messages alone.                                   *)

LEMMA MessagesStay ==
  ASSUME IndInv, UNCHANGED <<written, inbox, ended, taken, got, finished, raw>>,
         \/ UNCHANGED <<epc, client, ret>>
         \/ epc \notin {"recv", "reply"} /\ epc' \notin {"recv", "reply"}
  PROVE  Messages'
<1>1. Answers'
  BY DEF IndInv, Messages, Answers
<1>2. InOrder'
  <2>1. InOrder
    BY DEF IndInv, Messages
  <2>2. \A c \in Conn : Gapless(c) => Gapless(c)'
    BY GaplessStays
  <2>. QED
    BY <2>1, <2>2 DEF InOrder
<1>3. Readable'
  BY DEF IndInv, Messages, Readable
<1>. QED
  BY <1>1, <1>2, <1>3 DEF Messages

-----------------------------------------------------------------------------
LEMMA InitEstablishes == Init => IndInv
<1>. SUFFICES ASSUME Init PROVE IndInv
  OBVIOUS
<1>1. Typed
  <2>1. \A c \in Conn : inbox[c] = <<>>
    BY DEF Init
  <2>2. \A c \in Conn : \A i \in 1..Len(inbox[c]) : inbox[c][i] \in Read
    BY <2>1
  <2>3. inbox \in [Conn -> Seq(Read)]
    BY DEF Init
  <2>4. 0 \in 0..FileChunks + 1 /\ 0 \in 0..NoiseCap /\ 0 \in Sizes
    BY FileAssumption, SizesNat
  <2>5. clients \in [Fd -> Conn \cup {None}] /\ clients \in [Fd -> Handle]
    BY DEF Init, Handle
  <2>6. TypeOK
    BY <2>2, <2>4, <2>5 DEF Init, TypeOK, Handle
  <2>. QED
    BY <2>3, <2>5, <2>6 DEF Typed
<1>2. Owned /\ Refs /\ Watching /\ Batch
  BY HandleAssumption DEF Init, Owned, Refs, Watching, Batch
<1>3. Handling /\ Scanning /\ Backlog
  BY DEF Init, Handling, Scanning, Backlog
<1>4. Messages
  <2>1. Answers
    BY FileAssumption DEF Init, Answers
  <2>2. ASSUME NEW c \in Conn PROVE Gapless(c)
    <3>1. taken[c] = {} /\ inbox[c] = <<>> /\ written[c] = 0
      BY DEF Init
    <3>. QED
      BY <3>1 DEF Gapless
  <2>3. Readable
    BY DEF Init, Readable
  <2>. QED
    BY <2>1, <2>2, <2>3 DEF Messages, InOrder
<1>. QED
  BY <1>1, <1>2, <1>3, <1>4 DEF IndInv

-----------------------------------------------------------------------------
(* Destroying what no shared_ptr refers to.                                *)

LEMMA DestroyKeeps ==
  ASSUME IndInv, NEW map \in [Fd -> Conn \cup {None}], NEW e, NEW u,
         Destroy(Dropped(map, e, u)), UNCHANGED <<fd, stop, backlog>>,
         \A f \in watched : Held(owner[f], map, e, u)
  PROVE  /\ owner' \in [Fd -> Conn \cup {None}] /\ watched' = watched
         /\ kcp' \in [Conn -> {"none", "live", "released"}]
         /\ Owned'
         /\ \A c \in Conn : kcp[c] = "live" /\ Held(c, map, e, u) => kcp'[c] = "live"
         /\ \A f \in watched : owner'[f] = owner[f]
<1>. DEFINE gone == Dropped(map, e, u)
<1>1. /\ kcp \in [Conn -> {"none", "live", "released"}]
      /\ owner \in [Fd -> Conn \cup {None}] /\ watched \subseteq Fd
      /\ fd \in [Conn -> Fd \cup {None}]
  BY DEF IndInv, Typed, TypeOK
<1>2. /\ gone \subseteq Conn
      /\ \A c \in gone : kcp[c] = "live" /\ ~ Held(c, map, e, u)
      /\ \A c \in Conn : kcp[c] = "live" /\ Held(c, map, e, u) => c \notin gone
  BY DEF Dropped
<1>3. /\ kcp' = [c \in Conn |-> IF c \in gone THEN "released" ELSE kcp[c]]
      /\ owner' = [f \in Fd |-> IF \E c \in gone : fd[c] = f THEN None ELSE owner[f]]
      /\ watched' = watched \ {fd[c] : c \in gone}
  BY DEF Destroy
<1>. HIDE DEF gone
<1>4. \A c \in Conn : kcp[c] = "live" => fd[c] \in Fd /\ owner[fd[c]] = c
  BY DEF IndInv, Owned
<1>5. \A f \in watched, c \in gone : fd[c] # f
  BY <1>2, <1>4
<1>6. watched' = watched
  BY <1>3, <1>5
<1>7. \A f \in watched : owner'[f] = owner[f]
  BY <1>1, <1>3, <1>5
<1>8. \A c \in Conn : kcp'[c] = IF c \in gone THEN "released" ELSE kcp[c]
  BY <1>3
<1>9. kcp' \in [Conn -> {"none", "live", "released"}]
  BY <1>1, <1>3
<1>10. owner' \in [Fd -> Conn \cup {None}]
  BY <1>1, <1>3
<1>11. \A f \in Fd : owner'[f] = IF \E c \in gone : fd[c] = f THEN None ELSE owner[f]
  BY <1>3
<1>12. \A c, d \in Conn : kcp[c] = "live" /\ kcp[d] = "live" /\ fd[c] = fd[d] => c = d
  BY <1>4
<1>13. Owned'
  <2>1. ASSUME NEW c \in Conn, kcp'[c] = "live"
        PROVE  fd'[c] \in Fd /\ owner'[fd'[c]] = c
    <3>1. c \notin gone /\ kcp[c] = "live"
      BY <1>8, <2>1
    <3>2. ~ \E d \in gone : fd[d] = fd[c]
      BY <1>2, <1>12, <3>1
    <3>. QED
      BY <1>4, <1>11, <3>1, <3>2
  <2>2. \A c \in Conn : kcp'[c] = "none" <=> kcp[c] = "none"
    BY <1>2, <1>8
  <2>3. ASSUME NEW c \in Conn
        PROVE  /\ c \in backlog' => kcp'[c] = "none"
               /\ stop'[c] => kcp'[c] # "none"
    BY <2>2 DEF IndInv, Owned
  <2>4. ASSUME NEW f \in Fd, owner'[f] # None
        PROVE  kcp'[owner'[f]] = "live" /\ fd'[owner'[f]] = f
    <3>1. owner'[f] = owner[f] /\ ~ \E c \in gone : fd[c] = f
      BY <1>11, <2>4
    <3>2. owner[f] \in Conn /\ kcp[owner[f]] = "live" /\ fd[owner[f]] = f
      BY <1>1, <2>4, <3>1 DEF IndInv, Owned
    <3>. QED
      BY <1>8, <3>1, <3>2
  <2>. QED
    BY <2>1, <2>3, <2>4 DEF Owned
<1>. QED
  BY <1>2, <1>6, <1>7, <1>8, <1>9, <1>10, <1>13

(* What the interest list says of the map.                                 *)

LEMMA WatchedInMap ==
  ASSUME IndInv, epc # "insert", NEW f \in watched
  PROVE  clients[f] = owner[f] /\ owner[f] \in Conn /\ ~ stop[owner[f]]
BY DEF IndInv, Watching

LEMMA Numbers ==
  ASSUME IndInv, NEW c \in Conn
  PROVE  /\ got[c] \in 0..FileChunks + 1 /\ written[c] \in 0..FileChunks + 1
         /\ finished[c] \in Nat /\ raw[c] \in Nat /\ taken[c] \subseteq Message
         /\ inbox[c] \in Seq(Read)
BY DEF IndInv, Typed, TypeOK

LEMMA ItemsTyped ==
  ASSUME NEW b \in [Conn -> Seq(Read)]
  PROVE  \A c \in Conn : \A i \in 1..Len(b[c]) : b[c][i] \in Read
<1>. SUFFICES ASSUME NEW c \in Conn, NEW i \in 1..Len(b[c])
              PROVE  b[c][i] \in Read
  OBVIOUS
<1>1. b[c] \in Seq(Read)
  OBVIOUS
<1>. QED
  BY <1>1

(* The handle of the event at hand, unless its lookup missed.              *)

LEMMA Handled ==
  ASSUME IndInv, epc \in {"hangup", "read", "recv", "reply", "eof"}, client # Null
  PROVE  /\ client \in Conn /\ clients[efd] = client /\ kcp[client] = "live"
         /\ efd \in Fd /\ fd[client] = efd /\ owner[efd] = client
<1>1. client = clients[efd] /\ client \in Conn /\ efd \in Fd
  BY DEF IndInv, Handling
<1>2. kcp[client] = "live" /\ fd[client] = efd
  BY <1>1 DEF IndInv, Refs
<1>. QED
  BY <1>1, <1>2 DEF IndInv, Owned

-----------------------------------------------------------------------------
(* The actions, one by one.                                                *)

LEMMA ConnectKeeps ==
  ASSUME IndInv, NEW c \in Conn, Connect(c)
  PROVE  IndInv'
<1>1. Typed'
  BY DEF IndInv, Connect, peers, handles, epoll, update, Typed, TypeOK, Handle, Events, Listen
<1>2. Owned'
  BY DEF IndInv, Connect, peers, handles, epoll, update, Owned
<1>3. Refs'
  BY DEF IndInv, Connect, peers, handles, epoll, update, Refs
<1>4. Watching'
  BY DEF IndInv, Connect, peers, handles, epoll, update, Watching
<1>5. Batch'
  BY DEF IndInv, Connect, peers, handles, epoll, update, Batch
<1>6. Handling'
  BY DEF IndInv, Connect, peers, handles, epoll, update, Handling
<1>7. Scanning'
  BY DEF IndInv, Connect, peers, handles, epoll, update, Scanning
<1>8. Backlog'
  <2>1. c \notin backlog
    BY DEF Connect, Open
  <2>. QED
    BY <2>1 DEF IndInv, Connect, epoll, Backlog
<1>9. Messages'
  BY MessagesStay DEF Connect, peers, handles, epoll, update
<1>. QED
  BY <1>1, <1>2, <1>3, <1>4, <1>5, <1>6, <1>7, <1>8, <1>9 DEF IndInv

(* A read more.                                                            *)

LEMMA GaplessGrows ==
  ASSUME NEW c, NEW r \in Read, NEW n \in Nat, Gapless(c), inbox[c] \in Seq(Read),
         inbox'[c] = Append(inbox[c], r), taken'[c] = taken[c],
         ended[c] = "no", written[c] \in Nat, written'[c] = written[c] + n,
         r.holds \subseteq 1..written[c] + n,
         r.refused \/ written[c] + 1..written[c] + n \subseteq r.holds
  PROVE  Gapless(c)'
<1>0. PICK L : L = Len(inbox[c])
  OBVIOUS
<1>1. /\ L \in Nat /\ Len(inbox'[c]) = L + 1 /\ inbox'[c][L + 1] = r
      /\ \A j \in 1..L : inbox'[c][j] = inbox[c][j]
  BY <1>0
<1>2. \A i \in 1..L : 1..i \subseteq 1..L
  BY <1>1
<1>3. \A i \in 1..L : /\ Smooth(c, i)' => Smooth(c, i)
                      /\ \A m : Coming(c, i, m) => Coming(c, i, m)'
  BY <1>1, <1>2 DEF Smooth, Coming
<1>4. Smooth(c, L + 1)' => Smooth(c, L) /\ ~ r.refused
  BY <1>1 DEF Smooth
<1>5. \A m : Coming(c, L, m) \/ m \in r.holds => Coming(c, L + 1, m)'
  BY <1>1 DEF Coming
<1>6. ASSUME Smooth(c, L + 1)', NEW m \in 1..written[c] + n
      PROVE  Coming(c, L + 1, m)'
  <2>1. Smooth(c, L) /\ ~ r.refused
    BY <1>4, <1>6
  <2>2. CASE m \in 1..written[c]
    BY <1>0, <1>5, <2>1, <2>2 DEF Gapless
  <2>3. CASE m \in written[c] + 1..written[c] + n
    BY <1>5, <2>1, <2>3
  <2>. QED
    BY <2>2, <2>3
<1>7. ASSUME NEW i \in 1..L + 1, Smooth(c, i)', NEW m \in inbox'[c][i].holds, NEW k \in 1..m
      PROVE  Coming(c, i, k)'
  <2>1. CASE i = L + 1
    <3>1. m \in 1..written[c] + n
      BY <1>1, <1>7, <2>1
    <3>2. k \in 1..written[c] + n
      BY <1>7, <3>1
    <3>. QED
      BY <1>6, <1>7, <2>1, <3>2
  <2>2. CASE i # L + 1
    <3>1. i \in 1..L /\ inbox'[c][i] = inbox[c][i]
      BY <1>1, <1>7, <2>2
    <3>2. Smooth(c, i) /\ i \in 1..Len(inbox[c]) /\ m \in inbox[c][i].holds
      BY <1>0, <1>3, <1>7, <3>1
    <3>3. Coming(c, i, k)
      BY <1>7, <3>2 DEF Gapless
    <3>. QED
      BY <1>3, <3>1, <3>3
  <2>. QED
    BY <2>1, <2>2
<1>8. \A m \in taken'[c] : \A k \in 1..m : k \in taken'[c]
  BY DEF Gapless
<1>9. written'[c] = written[c] + n /\ Len(inbox'[c]) = L + 1
  BY <1>1
<1>. QED
  BY <1>6, <1>7, <1>8, <1>9 DEF Gapless

LEMMA WriteKeeps ==
  ASSUME IndInv, NEW c \in Conn, Write(c)
  PROVE  IndInv'
<1>1. PICK r \in Read, n \in 0..FileChunks + 1 - written[c] :
        /\ r.holds \subseteq 1..written[c] + n
        /\ r.refused \/ written[c] + 1..written[c] + n \subseteq r.holds
        /\ inbox' = [inbox EXCEPT ![c] = Append(@, r)]
        /\ written' = [written EXCEPT ![c] = @ + n]
  BY DEF Write
<1>2. /\ inbox \in [Conn -> Seq(Read)] /\ written \in [Conn -> 0..FileChunks + 1]
      /\ noise \in 0..NoiseCap
  BY DEF IndInv, Typed, TypeOK
<1>3. /\ written[c] \in Nat /\ n \in Nat /\ written[c] + n \in 0..FileChunks + 1
      /\ inbox[c] \in Seq(Read) /\ ended[c] = "no"
  BY <1>2, FileAssumption DEF Write
<1>4. inbox' \in [Conn -> Seq(Read)]
  <2>1. Append(inbox[c], r) \in Seq(Read)
    BY <1>3
  <2>. QED
    BY <1>1, <1>2, <2>1
<1>5. Typed'
  <2>1. written' \in [Conn -> 0..FileChunks + 1]
    BY <1>1, <1>2, <1>3
  <2>2. noise' \in 0..NoiseCap
    BY <1>2, FileAssumption DEF Write
  <2>3. \A d \in Conn : \A i \in 1..Len(inbox'[d]) : inbox'[d][i] \in Read
    BY <1>4, ItemsTyped
  <2>4. TypeOK'
    BY <2>1, <2>2, <2>3 DEF IndInv, Typed, TypeOK, Write, kernel, handles, epoll, update
  <2>. QED
    BY <1>4, <2>4 DEF IndInv, Typed, Write
<1>6. Owned' /\ Refs'
  BY DEF IndInv, Write, kernel, handles, epoll, update, Owned, Refs
<1>7. Watching' /\ Batch'
  BY DEF IndInv, Write, kernel, handles, epoll, update, Watching, Batch
<1>8. Handling' /\ Scanning' /\ Backlog'
  BY DEF IndInv, Write, kernel, handles, epoll, update, Handling, Scanning, Backlog
<1>9. Messages'
  <2>1. UNCHANGED <<taken, got, finished, raw, ended, epc, client, ret>>
    BY DEF Write, handles, epoll
  <2>2. Answers' /\ Readable'
    BY <2>1 DEF IndInv, Messages, Answers, Readable
  <2>3. ASSUME NEW d \in Conn, Gapless(d) PROVE Gapless(d)'
    <3>1. CASE d # c
      BY <1>1, <1>2, <2>1, <2>3, <3>1, GaplessStays
    <3>2. CASE d = c
      <4>1. inbox'[c] = Append(inbox[c], r) /\ written'[c] = written[c] + n
        BY <1>1, <1>2
      <4>. QED
        BY <1>1, <1>3, <2>1, <2>3, <3>2, <4>1, GaplessGrows
    <3>. QED
      BY <3>1, <3>2
  <2>. QED
    BY <2>1, <2>2, <2>3 DEF IndInv, Messages, InOrder
<1>. QED
  BY <1>5, <1>6, <1>7, <1>8, <1>9 DEF IndInv

(* What was not read is thrown away, with the connection.                  *)

LEMMA GaplessCut ==
  ASSUME NEW c, Gapless(c), inbox'[c] = <<>>, taken'[c] = taken[c], ended'[c] # "no"
  PROVE  Gapless(c)'
BY DEF Gapless

LEMMA EndKeeps ==
  ASSUME IndInv, NEW c \in Conn, End(c)
  PROVE  IndInv'
<1>1. inbox \in [Conn -> Seq(Read)] /\ <<>> \in Seq(Read)
  BY DEF IndInv, Typed
<1>2. inbox' \in [Conn -> Seq(Read)]
  BY <1>1 DEF End
<1>4. Typed'
  <2>1. \A d \in Conn : \A i \in 1..Len(inbox'[d]) : inbox'[d][i] \in Read
    BY <1>2, ItemsTyped
  <2>2. ended' \in [Conn -> {"no", "fin", "reset", "dropped"}]
    <3>1. \/ ended' = [ended EXCEPT ![c] = "fin"]
          \/ ended' = [ended EXCEPT ![c] = "reset"]
      BY DEF End
    <3>. QED
      BY <3>1 DEF IndInv, Typed, TypeOK
  <2>3. TypeOK'
    BY <2>1, <2>2 DEF IndInv, Typed, TypeOK, End, kernel, handles, epoll, update
  <2>. QED
    BY <1>2, <2>3 DEF IndInv, Typed, End
<1>5. Owned'
  BY DEF IndInv, End, kernel, handles, epoll, update, Owned
<1>6. Refs'
  BY DEF IndInv, End, kernel, handles, epoll, update, Refs
<1>7. Watching'
  BY DEF IndInv, End, kernel, handles, epoll, update, Watching
<1>8. Batch'
  BY DEF IndInv, End, kernel, handles, epoll, update, Batch
<1>9. Handling'
  BY DEF IndInv, End, kernel, handles, epoll, update, Handling
<1>10. Scanning'
  BY DEF IndInv, End, kernel, handles, epoll, update, Scanning
<1>11. Backlog'
  BY DEF IndInv, End, kernel, handles, epoll, update, Backlog
<1>12. Messages'
  <2>1. UNCHANGED <<taken, got, finished, raw, written, epc, client, ret>>
    BY DEF End, handles, epoll
  <2>2. Answers' /\ Readable'
    BY <2>1 DEF IndInv, Messages, Answers, Readable
  <2>3. ended \in [Conn -> {"no", "fin", "reset", "dropped"}]
    BY DEF IndInv, Typed, TypeOK
  <2>4. ASSUME NEW d \in Conn, Gapless(d) PROVE Gapless(d)'
    <3>1. CASE d # c
      <4>1. inbox'[d] = inbox[d] /\ ended'[d] = ended[d]
        BY <1>1, <2>3, <3>1 DEF End
      <4>. QED
        BY <2>1, <2>4, <4>1, GaplessStays
    <3>2. CASE d = c /\ ended'[c] = "fin" /\ inbox' = inbox
      BY <2>1, <2>4, <3>2 DEF Gapless, Coming, Smooth
    <3>3. CASE d = c /\ ended'[c] = "reset" /\ inbox'[c] = <<>>
      BY <2>1, <2>4, <3>3, GaplessCut
    <3>. QED
      BY <1>1, <2>3, <3>1, <3>2, <3>3 DEF End
  <2>. QED
    BY <2>1, <2>2, <2>4 DEF IndInv, Messages, InOrder
<1>. QED
  BY <1>4, <1>5, <1>6, <1>7, <1>8, <1>9, <1>10, <1>11, <1>12 DEF IndInv

LEMMA EpollWaitKeeps ==
  ASSUME IndInv, EpollWait
  PROVE  IndInv'
<1>1. /\ watched \subseteq Fd
      /\ \A f \in watched : clients[f] = owner[f] /\ owner[f] \in Conn /\ ~ stop[owner[f]]
  BY WatchedInMap DEF IndInv, Typed, TypeOK, EpollWait
<1>2. \A f : ConnEvent(f).fd = f /\ ConnEvent(f) # Listen
  BY DEF ConnEvent, Listen
<1>3. \A e \in batch' \ {Listen} : \E f \in watched : e = ConnEvent(f)
  BY DEF EpollWait, ReadyFds
<1>4. Listen \in batch' => edge
  BY <1>2 DEF EpollWait
<1>5. Typed'
  <2>1. \A f \in watched : ConnEvent(f) \in Events
    BY <1>1 DEF ConnEvent, Events
  <2>2. batch' \subseteq Events
    BY <1>3, <2>1 DEF Events
  <2>. QED
    BY <2>2 DEF IndInv, EpollWait, peers, handles, update, Typed, TypeOK
<1>6. Owned'
  BY DEF IndInv, EpollWait, ReadyFds, ConnEvent, peers, handles, update, Owned
<1>7. Refs'
  BY DEF IndInv, EpollWait, ReadyFds, ConnEvent, peers, handles, update, Refs
<1>8. Watching'
  BY DEF IndInv, EpollWait, ReadyFds, ConnEvent, peers, handles, update, Watching
<1>9. Batch'
  <2>1. \A e \in batch' \ {Listen} : e.fd \in watched /\ e = ConnEvent(e.fd)
    BY <1>2, <1>3
  <2>2. watched' = watched /\ clients' = clients /\ epc' = "dispatch"
    BY DEF EpollWait, handles
  <2>3. \A e \in batch' \ {Listen} : clients[e.fd] \in Conn
    BY <1>1, <2>1
  <2>4. \A d, e \in batch' \ {Listen} : d.fd = e.fd => d = e
    BY <2>1
  <2>. QED
    BY <2>1, <2>2, <2>3, <2>4 DEF Batch
<1>10. Handling'
  BY DEF IndInv, EpollWait, ReadyFds, ConnEvent, peers, handles, update, Handling
<1>11. Scanning'
  BY DEF IndInv, EpollWait, ReadyFds, ConnEvent, peers, handles, update, Scanning
<1>12. Backlog'
  BY <1>4 DEF IndInv, EpollWait, Backlog
<1>13. Messages'
  BY MessagesStay DEF EpollWait, ReadyFds, ConnEvent, peers, handles, update
<1>. QED
  BY <1>5, <1>6, <1>7, <1>8, <1>9, <1>10, <1>11, <1>12, <1>13 DEF IndInv

LEMMA BatchDoneKeeps ==
  ASSUME IndInv, BatchDone
  PROVE  IndInv'
<1>1. Typed'
  BY DEF IndInv, BatchDone, kernel, peers, handles, update, Typed, TypeOK, Handle, Events, Listen
<1>2. Owned'
  BY DEF IndInv, BatchDone, kernel, peers, handles, update, Owned
<1>3. Refs'
  BY DEF IndInv, BatchDone, kernel, peers, handles, update, Refs
<1>4. Watching'
  BY DEF IndInv, BatchDone, kernel, peers, handles, update, Watching
<1>5. Batch'
  BY DEF IndInv, BatchDone, kernel, peers, handles, update, Batch
<1>6. Handling'
  BY DEF IndInv, BatchDone, kernel, peers, handles, update, Handling
<1>7. Scanning'
  BY DEF IndInv, BatchDone, kernel, peers, handles, update, Scanning
<1>8. Backlog'
  BY DEF IndInv, BatchDone, kernel, peers, handles, update, Backlog
<1>9. Messages'
  BY MessagesStay DEF BatchDone, kernel, peers, handles, update
<1>. QED
  BY <1>1, <1>2, <1>3, <1>4, <1>5, <1>6, <1>7, <1>8, <1>9 DEF IndInv

LEMMA AcceptKeeps ==
  ASSUME IndInv, Accept
  PROVE  IndInv'
<1>1. PICK c \in backlog, f \in {g \in Fd : owner[g] = None} :
        /\ backlog' = backlog \ {c}
        /\ owner' = [owner EXCEPT ![f] = c]
        /\ watched' = watched \cup {f}
        /\ fd' = [fd EXCEPT ![c] = f]
        /\ kcp' = [kcp EXCEPT ![c] = "live"]
        /\ client' = c
  BY DEF Accept
<1>2. /\ c \in Conn /\ c # None /\ f \in Fd /\ owner[f] = None
      /\ kcp[c] = "none" /\ ~ stop[c]
  BY HandleAssumption DEF IndInv, Typed, TypeOK, Owned
<1>3. /\ \A d \in Conn : /\ fd'[d] = IF d = c THEN f ELSE fd[d]
                         /\ kcp'[d] = IF d = c THEN "live" ELSE kcp[d]
      /\ \A g \in Fd : owner'[g] = IF g = f THEN c ELSE owner[g]
  BY <1>1, <1>2 DEF IndInv, Typed, TypeOK
<1>4. \A d \in Conn : kcp[d] = "live" => fd[d] # f /\ d # c
  BY <1>2, HandleAssumption DEF IndInv, Owned
<1>5. f \notin watched /\ watched \subseteq Fd
  BY <1>2, HandleAssumption DEF IndInv, Typed, TypeOK, Watching
<1>6. epc = "dispatch" /\ epc' = "insert" /\ batch' = batch \ {Listen}
  BY DEF Accept, Accepted
<1>7. /\ stop' = stop /\ clients' = clients /\ efd' = efd
      /\ upc' = upc /\ todo' = todo /\ uclient' = uclient
  BY DEF Accept, update
<1>8. Typed'
  <2>1. /\ owner' \in [Fd -> Conn \cup {None}] /\ fd' \in [Conn -> Fd \cup {None}]
        /\ kcp' \in [Conn -> {"none", "live", "released"}]
    BY <1>1, <1>2 DEF IndInv, Typed, TypeOK
  <2>2. backlog' \subseteq Conn /\ watched' \subseteq Fd /\ client' \in Handle
    BY <1>1, <1>2 DEF IndInv, Typed, TypeOK, Handle
  <2>. QED
    BY <1>6, <1>7, <2>1, <2>2 DEF IndInv, Accept, peers, Typed, TypeOK
<1>9. Owned'
  <2>1. ASSUME NEW d \in Conn
        PROVE  /\ kcp'[d] = "live" => fd'[d] \in Fd /\ owner'[fd'[d]] = d
               /\ d \in backlog' => kcp'[d] = "none"
               /\ stop'[d] => kcp'[d] # "none"
    <3>1. CASE d = c
      BY <1>1, <1>2, <1>3, <3>1
    <3>2. CASE d # c
      BY <1>1, <1>2, <1>3, <1>4, <1>7, <3>2 DEF IndInv, Owned
    <3>. QED
      BY <3>1, <3>2
  <2>2. ASSUME NEW g \in Fd, owner'[g] # None
        PROVE  kcp'[owner'[g]] = "live" /\ fd'[owner'[g]] = g
    <3>1. CASE g = f
      BY <1>2, <1>3, <3>1
    <3>2. CASE g # f
      <4>1. owner'[g] = owner[g] /\ owner[g] \in Conn
        BY <1>3, <2>2, <3>2 DEF IndInv, Typed, TypeOK
      <4>2. kcp[owner[g]] = "live" /\ fd[owner[g]] = g
        BY <2>2, <4>1 DEF IndInv, Owned
      <4>. QED
        BY <1>3, <1>4, <4>1, <4>2
    <3>. QED
      BY <3>1, <3>2
  <2>. QED
    BY <2>1, <2>2 DEF Owned
<1>10. Refs'
  BY <1>1, <1>2, <1>3, <1>4, <1>7 DEF IndInv, Refs
<1>11. Watching'
  <2>1. ASSUME NEW g \in watched'
        PROVE  /\ owner'[g] \in Conn /\ ~ stop'[owner'[g]]
               /\ clients'[g] = owner'[g] \/ client' = owner'[g]
    <3>1. CASE g = f
      BY <1>1, <1>2, <1>3, <1>7, <3>1
    <3>2. CASE g # f
      <4>1. g \in watched /\ owner'[g] = owner[g]
        BY <1>1, <1>3, <1>5, <3>2
      <4>2. clients[g] = owner[g] /\ owner[g] \in Conn /\ ~ stop[owner[g]]
        BY <1>6, <4>1, WatchedInMap
      <4>. QED
        BY <1>7, <4>1, <4>2
    <3>. QED
      BY <3>1, <3>2
  <2>. QED
    BY <1>6, <2>1 DEF Watching
<1>12. Batch'
  BY DEF IndInv, Accept, Accepted, peers, update, Batch
<1>13. Handling'
  BY <1>1, <1>2, <1>6, <1>7 DEF Handling
<1>14. Scanning'
  <2>1. uclient \in Conn => fd'[uclient] = fd[uclient]
    BY <1>3, <1>4 DEF IndInv, Refs
  <2>. QED
    BY <1>7, <2>1 DEF IndInv, Scanning
<1>15. Backlog'
  BY DEF IndInv, Accept, Accepted, peers, update, Backlog
<1>16. Messages'
  BY MessagesStay DEF Accept, Accepted, peers, update
<1>. QED
  BY <1>8, <1>9, <1>10, <1>11, <1>12, <1>13, <1>14, <1>15, <1>16 DEF IndInv

LEMMA AcceptDropsKeeps ==
  ASSUME IndInv, AcceptDrops
  PROVE  IndInv'
<1>1. PICK c \in backlog :
        /\ backlog' = backlog \ {c}
        /\ ended' = [ended EXCEPT ![c] = "dropped"]
        /\ inbox' = [inbox EXCEPT ![c] = <<>>]
  BY DEF AcceptDrops
<1>2. /\ epc = "dispatch" /\ epc' = epc /\ batch' = batch \ {Listen}
      /\ UNCHANGED <<edge, owner, watched, written, noise, handles, clients,
                     client, efd, ret, update>>
  BY DEF AcceptDrops, Accepted
<1>3. /\ c \in Conn /\ inbox \in [Conn -> Seq(Read)] /\ <<>> \in Seq(Read)
      /\ ended \in [Conn -> {"no", "fin", "reset", "dropped"}]
  BY DEF IndInv, Typed, TypeOK
<1>4. Typed'
  <2>1. /\ inbox' \in [Conn -> Seq(Read)]
        /\ ended' \in [Conn -> {"no", "fin", "reset", "dropped"}]
    BY <1>1, <1>3
  <2>2. \A d \in Conn : \A i \in 1..Len(inbox'[d]) : inbox'[d][i] \in Read
    BY <2>1, ItemsTyped
  <2>. QED
    BY <1>1, <1>2, <2>1, <2>2 DEF IndInv, Typed, TypeOK, handles, update
<1>5. Owned' /\ Refs'
  BY <1>1, <1>2 DEF IndInv, Owned, Refs, handles, update
<1>6. Watching' /\ Batch' /\ Handling' /\ Scanning'
  BY <1>2 DEF IndInv, Watching, Batch, Handling, Scanning, handles, update
<1>7. Backlog'
  BY <1>1, <1>2 DEF IndInv, Backlog, AcceptDrops
<1>8. Messages'
  <2>1. UNCHANGED <<taken, got, finished, raw, written, epc, client, ret>>
    BY <1>2 DEF handles
  <2>2. Answers' /\ Readable'
    BY <2>1 DEF IndInv, Messages, Answers, Readable
  <2>3. ASSUME NEW d \in Conn, Gapless(d) PROVE Gapless(d)'
    <3>1. CASE d # c
      BY <1>1, <1>3, <2>1, <2>3, <3>1, GaplessStays
    <3>2. CASE d = c
      BY <1>1, <1>3, <2>1, <2>3, <3>2, GaplessCut
    <3>. QED
      BY <3>1, <3>2
  <2>. QED
    BY <2>1, <2>2, <2>3 DEF IndInv, Messages, InOrder
<1>. QED
  BY <1>4, <1>5, <1>6, <1>7, <1>8 DEF IndInv

LEMMA AcceptFailsKeeps ==
  ASSUME IndInv, AcceptFails
  PROVE  IndInv'
<1>1. Typed'
  BY DEF IndInv, AcceptFails, kernel, peers, handles, update, Typed, TypeOK, Handle, Events, Listen
<1>2. Owned'
  BY DEF IndInv, AcceptFails, kernel, peers, handles, update, Owned
<1>3. Refs'
  BY DEF IndInv, AcceptFails, kernel, peers, handles, update, Refs
<1>4. Watching'
  BY DEF IndInv, AcceptFails, kernel, peers, handles, update, Watching
<1>5. Batch'
  BY DEF IndInv, AcceptFails, kernel, peers, handles, update, Batch
<1>6. Handling'
  BY DEF IndInv, AcceptFails, kernel, peers, handles, update, Handling
<1>7. Scanning'
  BY DEF IndInv, AcceptFails, kernel, peers, handles, update, Scanning
<1>8. Backlog'
  BY DEF IndInv, AcceptFails, kernel, peers, handles, update, Backlog
<1>9. Messages'
  BY MessagesStay DEF AcceptFails, kernel, peers, handles, update
<1>. QED
  BY <1>1, <1>2, <1>3, <1>4, <1>5, <1>6, <1>7, <1>8, <1>9 DEF IndInv

LEMMA InsertKeeps ==
  ASSUME IndInv, Insert
  PROVE  IndInv'
<1>1. /\ epc = "insert" /\ upc = "sleep" /\ client \in Conn /\ kcp[client] = "live"
      /\ clients' = [clients EXCEPT ![fd[client]] = client]
  BY DEF IndInv, Handling, Refs, Insert, Locked
<1>2. fd[client] \in Fd /\ owner[fd[client]] = client
  BY <1>1 DEF IndInv, Owned
<1>3. /\ clients' \in [Fd -> Conn \cup {None}]
      /\ \A f \in Fd : clients'[f] = IF f = fd[client] THEN client ELSE clients[f]
  BY <1>1, <1>2 DEF IndInv, Typed
<1>4. /\ Destroy(Dropped(clients', None, uclient))
      /\ UNCHANGED <<fd, stop, backlog, batch, upc, todo, uclient, edge>>
      /\ client' = None /\ epc' = "dispatch"
  BY DEF Insert, update
<1>5. \A f \in watched : f \in Fd /\ clients'[f] = owner[f] /\ owner[f] \in Conn
                                 /\ ~ stop[owner[f]]
  <2>1. ASSUME NEW f \in watched, client = owner[f]
        PROVE  f = fd[client]
    BY <2>1, <1>1, HandleAssumption DEF IndInv, Typed, TypeOK, Owned
  <2>. QED
    BY <1>1, <1>2, <1>3, <2>1 DEF IndInv, Typed, TypeOK, Watching
<1>6. \A f \in watched : Held(owner[f], clients', None, uclient)
  BY <1>5 DEF Held
<1>7. /\ owner' \in [Fd -> Conn \cup {None}] /\ watched' = watched
      /\ kcp' \in [Conn -> {"none", "live", "released"}] /\ Owned'
      /\ \A c \in Conn : kcp[c] = "live" /\ Held(c, clients', None, uclient)
                           => kcp'[c] = "live"
      /\ \A f \in watched : owner'[f] = owner[f]
  <2>. DEFINE map == clients'
  <2>1. /\ map \in [Fd -> Conn \cup {None}] /\ Destroy(Dropped(map, None, uclient))
        /\ \A f \in watched : Held(owner[f], map, None, uclient)
    BY <1>3, <1>4, <1>6
  <2>. HIDE DEF map
  <2>2. /\ owner' \in [Fd -> Conn \cup {None}] /\ watched' = watched
        /\ kcp' \in [Conn -> {"none", "live", "released"}] /\ Owned'
        /\ \A c \in Conn : kcp[c] = "live" /\ Held(c, map, None, uclient)
                             => kcp'[c] = "live"
        /\ \A f \in watched : owner'[f] = owner[f]
    BY <1>4, <2>1, DestroyKeeps
  <2>. QED
    BY <2>2 DEF map
<1>8. Typed'
  BY <1>3, <1>4, <1>7 DEF IndInv, Insert, peers, Typed, TypeOK, Handle
<1>9. Owned'
  BY <1>7
<1>10. Refs'
  <2>1. \A f \in Fd : clients'[f] \in Conn => /\ kcp[clients'[f]] = "live"
                                              /\ fd[clients'[f]] = f
    BY <1>1, <1>2, <1>3 DEF IndInv, Refs
  <2>2. \A f \in Fd : clients'[f] \in Conn => kcp'[clients'[f]] = "live"
    BY <1>7, <2>1 DEF Held
  <2>3. uclient \in Conn => kcp'[uclient] = "live"
    BY <1>7 DEF IndInv, Refs, Held
  <2>. QED
    BY <1>4, <2>1, <2>2, <2>3, HandleAssumption DEF Refs
<1>11. Watching'
  BY <1>4, <1>5, <1>7 DEF Watching
<1>12. Batch'
  BY <1>4, <1>5, <1>7 DEF IndInv, Batch
<1>13. Handling'
  BY <1>4 DEF Handling
<1>14. Scanning'
  BY <1>1, <1>4 DEF Scanning
<1>15. Backlog'
  BY DEF IndInv, Insert, Locked, peers, update, Backlog
<1>16. Messages'
  BY MessagesStay DEF Insert, Locked, peers, update
<1>. QED
  BY <1>8, <1>9, <1>10, <1>11, <1>12, <1>13, <1>14, <1>15, <1>16 DEF IndInv

LEMMA LookupKeeps ==
  ASSUME IndInv, Lookup
  PROVE  IndInv'
<1>1. epc = "dispatch" /\ UNCHANGED <<owner, watched, fd, kcp, stop, upc, todo, uclient>>
  BY DEF Lookup, kernel, handles, update
<1>2. PICK e \in batch \ {Listen} :
        /\ batch' = batch \ {e} /\ efd' = e.fd
        /\ client' \in Found(e.fd)
        /\ clients' = [clients EXCEPT ![e.fd] = IF @ = None THEN Null ELSE @]
        /\ epc' \in {"hangup", "read"}
  BY DEF Lookup
<1>3. /\ e.fd \in watched /\ e.fd \in Fd /\ clients[e.fd] \in Conn
      /\ clients[e.fd] # None
  BY HandleAssumption DEF IndInv, Typed, TypeOK, Batch
<1>4. clients' = clients
  BY <1>2, <1>3 DEF IndInv, Typed
<1>5. client' \in {clients[e.fd], Null}
  BY <1>2, <1>3 DEF Found
<1>6. clients[e.fd] = owner[e.fd] /\ ~ stop[clients[e.fd]]
  BY <1>1, <1>3, WatchedInMap
<1>7. Typed'
  <2>1. client' \in Handle /\ efd' \in Fd
    BY <1>2, <1>3, <1>5 DEF Handle
  <2>. QED
    BY <1>2, <1>4, <2>1 DEF IndInv, Lookup, kernel, peers, handles, update, Typed, TypeOK
<1>8. Owned'
  BY DEF IndInv, Lookup, Found, kernel, peers, handles, update, Owned
<1>9. Refs'
  BY <1>1, <1>3, <1>4, <1>5, HandleAssumption DEF IndInv, Refs
<1>10. Watching'
  BY <1>1, <1>2, <1>4 DEF IndInv, Watching
<1>11. Batch'
  BY <1>1, <1>2, <1>4 DEF IndInv, Batch
<1>12. Handling'
  <2>1. \A d \in batch' \ {Listen} : d.fd # e.fd
    BY <1>2 DEF IndInv, Batch
  <2>. QED
    BY <1>1, <1>2, <1>3, <1>4, <1>5, <1>6, <2>1 DEF Handling
<1>13. Scanning'
  BY <1>1, <1>4 DEF IndInv, Scanning
<1>14. Backlog'
  BY DEF IndInv, Lookup, Found, kernel, peers, handles, update, Backlog
<1>15. Messages'
  BY MessagesStay DEF Lookup, Found, kernel, peers, handles, update
<1>. QED
  BY <1>7, <1>8, <1>9, <1>10, <1>11, <1>12, <1>13, <1>14, <1>15 DEF IndInv

(* The first read goes into the control block.                             *)

LEMMA GaplessShrinks ==
  ASSUME NEW c, NEW r, Gapless(c), inbox[c] \in Seq(Read), inbox[c] # <<>>,
         r = Head(inbox[c]), inbox'[c] = Tail(inbox[c]), ~ r.refused,
         taken'[c] = taken[c] \cup r.holds,
         ended'[c] = ended[c], written'[c] = written[c]
  PROVE  Gapless(c)'
<1>0. PICK L : L = Len(inbox[c])
  OBVIOUS
<1>1. /\ L \in Nat \ {0} /\ Len(inbox'[c]) = L - 1 /\ r = inbox[c][1]
      /\ \A j \in 1..L - 1 : inbox'[c][j] = inbox[c][j + 1]
  BY <1>0
<1>2. ASSUME NEW i \in 0..L - 1
      PROVE  /\ Smooth(c, i)' => Smooth(c, i + 1)
             /\ \A m : Coming(c, i + 1, m) => Coming(c, i, m)'
  <2>1. ASSUME NEW j \in 1..i + 1
        PROVE  j = 1 \/ (j - 1 \in 1..i /\ inbox'[c][j - 1] = inbox[c][j])
    BY <1>1, <1>2
  <2>2. Smooth(c, i)' => Smooth(c, i + 1)
    BY <1>1, <2>1 DEF Smooth
  <2>3. \A m : Coming(c, i + 1, m) => Coming(c, i, m)'
    BY <1>1, <2>1 DEF Coming
  <2>. QED
    BY <2>2, <2>3
<1>3. \A m \in taken'[c] : \A k \in 1..m : k \in taken'[c]
  <2>1. ASSUME NEW m \in r.holds, NEW k \in 1..m PROVE k \in taken'[c]
    <3>1. Smooth(c, 1)
      BY <1>1 DEF Smooth
    <3>2. Coming(c, 1, k)
      BY <1>1, <2>1, <3>1 DEF Gapless
    <3>. QED
      BY <1>1, <3>2 DEF Coming
  <2>. QED
    BY <2>1 DEF Gapless
<1>4. ASSUME NEW i \in 1..L - 1, Smooth(c, i)', NEW m \in inbox'[c][i].holds, NEW k \in 1..m
      PROVE  Coming(c, i, k)'
  <2>1. i + 1 \in 1..L /\ i \in 0..L - 1 /\ m \in inbox[c][i + 1].holds
    BY <1>1, <1>4
  <2>2. Smooth(c, i + 1)
    BY <1>2, <1>4, <2>1
  <2>3. Coming(c, i + 1, k)
    BY <1>0, <1>4, <2>1, <2>2 DEF Gapless
  <2>. QED
    BY <1>2, <2>1, <2>3
<1>5. ASSUME ended'[c] = "no", Smooth(c, L - 1)', NEW k \in 1..written'[c]
      PROVE  Coming(c, L - 1, k)'
  <2>1. L - 1 \in 0..L - 1 /\ (L - 1) + 1 = L
    BY <1>1
  <2>2. Smooth(c, L)
    BY <1>2, <1>5, <2>1
  <2>3. Coming(c, L, k)
    BY <1>0, <1>5, <2>2 DEF Gapless
  <2>. QED
    BY <1>2, <2>1, <2>3
<1>. QED
  BY <1>1, <1>3, <1>4, <1>5 DEF Gapless

LEMMA ReadMessageKeeps ==
  ASSUME IndInv, ReadMessage
  PROVE  IndInv'
<1>1. /\ client \in Conn /\ owner[efd] = client /\ epc = "read"
      /\ inbox[client] # <<>>
  BY Handled DEF ReadMessage
<1>2. inbox \in [Conn -> Seq(Read)] /\ inbox[client] \in Seq(Read)
  BY <1>1 DEF IndInv, Typed
<1>3. PICK r : r = Head(inbox[client])
  OBVIOUS
<1>4. r \in Read
  BY <1>1, <1>2, <1>3
<1>5. /\ inbox' = [inbox EXCEPT ![client] = Tail(@)]
      /\ taken' = [taken EXCEPT ![client] = @ \cup r.holds]
      /\ \/ /\ r.refused /\ raw' = [raw EXCEPT ![client] = @ + 1]
            /\ epc' = epc /\ ret' = ret
         \/ /\ ~ r.refused /\ raw' = raw
            /\ epc' = "recv" /\ ret' = r.size
  BY <1>1, <1>3 DEF ReadMessage
<1>6. inbox' \in [Conn -> Seq(Read)]
  BY <1>1, <1>2, <1>5
<1>7. /\ taken \in [Conn -> SUBSET Message] /\ raw \in [Conn -> Nat]
      /\ got \in [Conn -> 0..FileChunks + 1] /\ ret \in Sizes
  BY DEF IndInv, Typed, TypeOK
<1>8. /\ r.holds \subseteq Message /\ r.size \in Sizes
      /\ ~ r.refused => \A m \in r.holds : Size[m] <= r.size
  BY <1>4, ReadFits
<1>9. Typed'
  <2>1. /\ taken' \in [Conn -> SUBSET Message]
        /\ raw' \in [Conn -> Nat]
        /\ ret' \in Sizes
    <3>1. taken[client] \cup r.holds \in SUBSET Message /\ raw[client] + 1 \in Nat
      BY <1>1, <1>7, <1>8
    <3>. QED
      BY <1>5, <1>7, <1>8, <3>1
  <2>2. \A d \in Conn : \A i \in 1..Len(inbox'[d]) : inbox'[d][i] \in Read
    BY <1>6, ItemsTyped
  <2>3. epc' \in {"read", "recv"}
    BY <1>1, <1>5
  <2>4. TypeOK'
    BY <2>1, <2>2, <2>3 DEF IndInv, Typed, TypeOK, ReadMessage, kernel, update
  <2>. QED
    BY <1>6, <2>4 DEF IndInv, Typed, ReadMessage
<1>10. Owned' /\ Refs'
  BY DEF IndInv, ReadMessage, kernel, update, Owned, Refs
<1>11. Watching' /\ Batch'
  BY DEF IndInv, ReadMessage, kernel, update, Watching, Batch
<1>12. Handling'
  BY DEF IndInv, ReadMessage, kernel, update, Handling
<1>13. Scanning' /\ Backlog'
  BY DEF IndInv, ReadMessage, kernel, update, Scanning, Backlog
<1>14. Messages'
  <2>1. /\ UNCHANGED <<got, written, ended, finished, client>>
        /\ epc' \in {"read", "recv"}
    BY <1>1, <1>5 DEF ReadMessage
  <2>2. Answers'
    BY <1>1, <2>1 DEF IndInv, Messages, Answers
  <2>3. ASSUME NEW d \in Conn, d # client
        PROVE  inbox'[d] = inbox[d] /\ taken'[d] = taken[d] /\ raw'[d] = raw[d]
    BY <1>2, <1>5, <1>7, <2>3
  <2>4. /\ inbox'[client] = Tail(inbox[client])
        /\ taken'[client] = taken[client] \cup r.holds
    BY <1>1, <1>2, <1>5, <1>7
  <2>5. raw'[client] = 0 =>
          ~ r.refused /\ raw[client] = 0 /\ epc' = "recv" /\ ret' = r.size
    BY <1>1, <1>5, <1>7
  <2>6. InOrder'
    <3>1. ASSUME NEW d \in Conn, raw'[d] = 0 PROVE Gapless(d)'
      <4>1. CASE d # client
        <5>1. Gapless(d)
          BY <2>3, <3>1, <4>1 DEF IndInv, Messages, InOrder
        <5>. QED
          BY <2>1, <2>3, <4>1, <5>1, GaplessStays
      <4>2. CASE d = client
        <5>1. Gapless(client) /\ ~ r.refused
          BY <1>1, <2>5, <3>1, <4>2 DEF IndInv, Messages, InOrder
        <5>. QED
          BY <1>1, <1>2, <1>3, <2>1, <2>4, <4>2, <5>1, GaplessShrinks
      <4>. QED
        BY <4>1, <4>2
    <3>. QED
      BY <3>1 DEF InOrder
  <2>7. Readable'
    <3>1. ASSUME NEW d \in Conn, raw'[d] = 0, NEW m \in taken'[d]
          PROVE  m <= got[d] \/ /\ epc' \in {"recv", "reply"} /\ client = d
                                /\ Size[m] <= ret'
      <4>1. CASE d # client \/ m \in taken[d]
        <5>1. m \in taken[d] /\ raw[d] = 0
          BY <2>3, <2>5, <3>1, <4>1
        <5>. QED
          BY <1>1, <5>1 DEF IndInv, Messages, Readable
      <4>2. CASE d = client /\ m \in r.holds
        BY <1>8, <2>5, <3>1, <4>2
      <4>. QED
        BY <2>4, <3>1, <4>1, <4>2
    <3>. QED
      BY <2>1, <3>1 DEF Readable
  <2>. QED
    BY <2>2, <2>6, <2>7 DEF Messages
<1>. QED
  BY <1>9, <1>10, <1>11, <1>12, <1>13, <1>14 DEF IndInv

LEMMA ReadEndKeeps ==
  ASSUME IndInv, ReadEnd
  PROVE  IndInv'
<1>1. Typed'
  BY DEF IndInv, ReadEnd, kernel, peers, handles, update, Typed, TypeOK, Handle, Events, Listen
<1>2. Owned'
  BY DEF IndInv, ReadEnd, kernel, peers, handles, update, Owned
<1>3. Refs'
  BY DEF IndInv, ReadEnd, kernel, peers, handles, update, Refs
<1>4. Watching'
  BY DEF IndInv, ReadEnd, kernel, peers, handles, update, Watching
<1>5. Batch'
  BY DEF IndInv, ReadEnd, kernel, peers, handles, update, Batch
<1>6. Handling'
  BY DEF IndInv, ReadEnd, kernel, peers, handles, update, Handling
<1>7. Scanning'
  BY DEF IndInv, ReadEnd, kernel, peers, handles, update, Scanning
<1>8. Backlog'
  BY DEF IndInv, ReadEnd, kernel, peers, handles, update, Backlog
<1>9. Messages'
  BY MessagesStay DEF ReadEnd, kernel, peers, handles, update
<1>. QED
  BY <1>1, <1>2, <1>3, <1>4, <1>5, <1>6, <1>7, <1>8, <1>9 DEF IndInv

LEMMA RecvKeeps ==
  ASSUME IndInv, Recv
  PROVE  IndInv'
<1>1. epc = "recv" /\ client \in Conn
  BY Handled DEF IndInv, Handling, Recv
<1>2. /\ got[client] \in Nat /\ got[client] <= FileChunks + 1
      /\ taken[client] \subseteq Message /\ FileChunks \in Nat
      /\ got \in [Conn -> 0..FileChunks + 1]
      /\ ret \in Nat
  BY <1>1, Numbers, FileAssumption, SizesNat DEF IndInv, Typed, TypeOK
<1>3. \/ /\ Drained(client) /\ epc' = "read" /\ ret' = 0 /\ got' = got
      \/ /\ ~ Drained(client) /\ ret' = ret
         /\ got' = [got EXCEPT ![client] = @ + 1]
         /\ epc' = IF Complete(got[client] + 1) THEN "reply" ELSE "recv"
  BY DEF Recv
<1>4. ~ Drained(client) => got[client] + 1 \in taken[client]
  BY DEF Drained
<1>5. ~ Drained(client) => got[client] + 1 \in 1..FileChunks + 1
  BY <1>2, <1>4 DEF Message
<1>6. Typed'
  <2>1. got' \in [Conn -> 0..FileChunks + 1]
    <3>1. ~ Drained(client) => got[client] + 1 \in 0..FileChunks + 1
      BY <1>2, <1>5
    <3>. QED
      BY <1>2, <1>3, <3>1
  <2>2. epc' \in {"read", "recv", "reply"} /\ ret' \in {0, ret} /\ 0 \in Sizes
    BY <1>3, SizesNat
  <2>. QED
    BY <2>1, <2>2 DEF IndInv, Typed, TypeOK, Recv, kernel, peers, update
<1>7. Owned'
  BY DEF IndInv, Recv, Complete, Drained, kernel, peers, update, Owned
<1>8. Refs'
  BY DEF IndInv, Recv, Complete, Drained, kernel, peers, update, Refs
<1>9. Watching'
  BY DEF IndInv, Recv, Complete, Drained, kernel, peers, update, Watching
<1>10. Batch'
  BY DEF IndInv, Recv, Complete, Drained, kernel, peers, update, Batch
<1>11. Handling'
  BY DEF IndInv, Recv, Complete, Drained, kernel, peers, update, Handling
<1>12. Scanning'
  BY DEF IndInv, Recv, Complete, Drained, kernel, peers, update, Scanning
<1>13. Backlog'
  BY DEF IndInv, Recv, Complete, Drained, kernel, peers, update, Backlog
<1>14. Messages'
  <2>1. UNCHANGED <<inbox, written, ended, taken, finished, raw, client>>
    BY DEF Recv, peers
  <2>2. Answers /\ InOrder /\ Readable
    BY DEF IndInv, Messages
  <2>3. InOrder'
    BY <2>1, <2>2, GaplessStays DEF InOrder
  <2>4. CASE Drained(client)
    <3>1. Answers'
      BY <1>1, <1>3, <2>1, <2>2, <2>4 DEF Answers
    <3>2. ASSUME NEW d \in Conn, raw[d] = 0, NEW m \in taken[d] PROVE m <= got[d]
      <4>1. CASE d # client
        BY <2>2, <3>2, <4>1 DEF Readable
      <4>2. CASE d = client
        <5>1. SUFFICES ASSUME ~ (m <= got[d]) PROVE FALSE
          OBVIOUS
        <5>2. got[d] + 1 \in 1..m /\ got[d] + 1 \in Nat /\ ~ (got[d] + 1 <= got[d])
          <6>1. m \in Nat /\ got[d] \in Nat
            BY <1>2, <3>2, <4>2, SizesNat
          <6>. QED
            BY <5>1, <6>1
        <5>3. got[d] + 1 \in taken[d]
          BY <2>2, <3>2, <5>2 DEF InOrder, Gapless
        <5>4. Size[got[d] + 1] <= ret /\ Size[got[d] + 1] \in Nat
          BY <1>2, <2>2, <3>2, <4>2, <5>2, <5>3, SizesNat DEF Readable
        <5>. QED
          BY <1>2, <2>4, <4>2, <5>3, <5>4 DEF Drained
      <4>. QED
        BY <4>1, <4>2
    <3>. QED
      BY <1>3, <2>1, <2>3, <2>4, <3>1, <3>2 DEF Messages, Readable
  <2>5. CASE ~ Drained(client)
    <3>1. /\ got' = [got EXCEPT ![client] = @ + 1] /\ ret' = ret
          /\ epc' = IF Complete(got[client] + 1) THEN "reply" ELSE "recv"
          /\ got[client] < FileChunks + 1
      BY <1>2, <1>3, <1>5, <2>5
    <3>2. \A d \in Conn : got'[d] = IF d = client THEN got[d] + 1 ELSE got[d]
      BY <1>2, <3>1
    <3>3. finished[client] = 0
      BY <1>1, <1>2, <2>2, <3>1, Numbers DEF Answers
    <3>4. Complete(got[client] + 1) <=> got[client] + 1 = FileChunks + 1 /\ FileChunks > 0
      BY <1>2, <3>1 DEF Complete
    <3>5. Answers'
      BY <1>1, <1>2, <2>1, <2>2, <3>1, <3>2, <3>3, <3>4 DEF Answers
    <3>6. ASSUME NEW d \in Conn, raw[d] = 0, NEW m \in taken[d]
          PROVE  m <= got'[d] \/ (client = d /\ Size[m] <= ret)
      <4>1. m <= got[d] \/ (client = d /\ Size[m] <= ret)
        BY <2>2, <3>6 DEF Readable
      <4>2. m \in Nat /\ got[d] \in Nat
        <5>1. taken[d] \subseteq Message /\ got[d] \in Nat
          BY <3>6, FileAssumption, Numbers
        <5>. QED
          BY <3>6, <5>1, SizesNat
      <4>. QED
        BY <3>2, <4>1, <4>2
    <3>7. Readable'
      BY <2>1, <3>1, <3>6 DEF Readable
    <3>. QED
      BY <2>3, <3>5, <3>7 DEF Messages
  <2>. QED
    BY <2>4, <2>5
<1>. QED
  BY <1>6, <1>7, <1>8, <1>9, <1>10, <1>11, <1>12, <1>13, <1>14 DEF IndInv

LEMMA ReplyKeeps ==
  ASSUME IndInv, Reply
  PROVE  IndInv'
<1>1. /\ epc = "reply" /\ client \in Conn /\ finished \in [Conn -> Nat]
      /\ got[client] = FileChunks + 1 /\ finished[client] = 0
  BY Handled DEF IndInv, Typed, TypeOK, Handling, Messages, Answers, Reply
<1>2. finished' = [finished EXCEPT ![client] = 1]
  BY <1>1 DEF Reply
<1>3. Typed'
  <2>1. finished' \in [Conn -> Nat]
    BY <1>1, <1>2
  <2>. QED
    BY <2>1 DEF IndInv, Typed, TypeOK, Reply, kernel, peers, update
<1>4. Owned'
  BY DEF IndInv, Reply, kernel, peers, update, Owned
<1>5. Refs'
  BY DEF IndInv, Reply, kernel, peers, update, Refs
<1>6. Watching'
  BY DEF IndInv, Reply, kernel, peers, update, Watching
<1>7. Batch'
  BY DEF IndInv, Reply, kernel, peers, update, Batch
<1>8. Handling'
  BY DEF IndInv, Reply, kernel, peers, update, Handling
<1>9. Scanning'
  BY DEF IndInv, Reply, kernel, peers, update, Scanning
<1>10. Backlog'
  BY DEF IndInv, Reply, kernel, peers, update, Backlog
<1>11. Messages'
  <2>1. \A d \in Conn : finished'[d] = IF d = client THEN 1 ELSE finished[d]
    BY <1>1, <1>2
  <2>2. /\ UNCHANGED <<inbox, written, ended, taken, got, raw, client, ret>>
        /\ epc' = "recv"
    BY DEF Reply, peers
  <2>3. Answers'
    BY <1>1, <2>1, <2>2 DEF IndInv, Messages, Answers
  <2>4. InOrder'
    BY <2>2, GaplessStays DEF IndInv, Messages, InOrder
  <2>5. Readable'
    BY <2>2 DEF IndInv, Messages, Readable
  <2>. QED
    BY <2>3, <2>4, <2>5 DEF Messages
<1>. QED
  BY <1>3, <1>4, <1>5, <1>6, <1>7, <1>8, <1>9, <1>10, <1>11 DEF IndInv

LEMMA FinishKeeps ==
  ASSUME IndInv, Finish
  PROVE  IndInv'
<1>1. /\ client \in Conn /\ clients[efd] = client /\ kcp[client] = "live"
      /\ efd \in Fd /\ fd[client] = efd /\ owner[efd] = client
      /\ epc \in {"hangup", "eof"}
  BY Handled DEF Finish
<1>2. /\ watched' = watched \ {efd} /\ stop' = [stop EXCEPT ![client] = TRUE]
      /\ epc' = "done"
      /\ UNCHANGED <<backlog, owner, kcp, fd, clients, batch, client, efd, upc, todo, uclient>>
  BY <1>1 DEF Finish, Stop, update
<1>3. \A c \in Conn : stop'[c] = (stop[c] \/ c = client)
  BY <1>2 DEF IndInv, Typed, TypeOK
<1>4. \A e \in batch \ {Listen} : e.fd # efd
  BY <1>1 DEF IndInv, Handling
<1>5. Typed'
  BY DEF IndInv, Finish, Stop, peers, update, Typed, TypeOK, Handle, Events, Listen
<1>6. Owned'
  BY <1>1, <1>2, <1>3 DEF IndInv, Owned
<1>7. Refs'
  BY DEF IndInv, Finish, Stop, peers, update, Refs
<1>8. Watching'
  <2>1. ASSUME NEW f \in watched'
        PROVE  owner[f] \in Conn /\ ~ stop'[owner[f]] /\ clients[f] = owner[f]
    <3>1. f \in watched /\ f # efd /\ f \in Fd
      BY <1>2 DEF IndInv, Typed, TypeOK
    <3>2. clients[f] = owner[f] /\ owner[f] \in Conn /\ ~ stop[owner[f]]
      BY <1>1, <3>1, WatchedInMap
    <3>3. fd[owner[f]] = f
      BY <3>1, <3>2, HandleAssumption DEF IndInv, Owned
    <3>. QED
      BY <1>1, <1>3, <3>1, <3>2, <3>3
  <2>. QED
    BY <1>2, <2>1 DEF Watching
<1>9. Batch'
  BY <1>1, <1>2, <1>4 DEF IndInv, Batch
<1>10. Handling'
  BY <1>2 DEF Handling
<1>11. Scanning'
  <2>1. upc = "erase" => stop'[uclient]
    BY <1>3 DEF IndInv, Scanning
  <2>. QED
    BY <1>2, <2>1 DEF IndInv, Scanning
<1>12. Backlog'
  BY DEF IndInv, Finish, Stop, peers, update, Backlog
<1>13. Messages'
  BY MessagesStay DEF Finish, Stop, peers, update
<1>. QED
  BY <1>5, <1>6, <1>7, <1>8, <1>9, <1>10, <1>11, <1>12, <1>13 DEF IndInv

LEMMA DoneKeeps ==
  ASSUME IndInv, Done
  PROVE  IndInv'
<1>1. /\ epc = "done" /\ epc' = "dispatch" /\ client' = None /\ efd' = None
      /\ Destroy(Dropped(clients, None, uclient))
      /\ UNCHANGED <<fd, stop, backlog, clients, batch, upc, todo, uclient>>
  BY DEF Done, update
<1>2. clients \in [Fd -> Conn \cup {None}] /\ watched \subseteq Fd
  BY DEF IndInv, Typed, TypeOK
<1>3. \A f \in watched : clients[f] = owner[f] /\ owner[f] \in Conn /\ ~ stop[owner[f]]
  BY <1>1, WatchedInMap
<1>4. \A f \in watched : Held(owner[f], clients, None, uclient)
  BY <1>2, <1>3 DEF Held
<1>5. /\ owner' \in [Fd -> Conn \cup {None}] /\ watched' = watched
      /\ kcp' \in [Conn -> {"none", "live", "released"}] /\ Owned'
      /\ \A c \in Conn : kcp[c] = "live" /\ Held(c, clients, None, uclient) => kcp'[c] = "live"
      /\ \A f \in watched : owner'[f] = owner[f]
  BY <1>1, <1>2, <1>4, DestroyKeeps
<1>6. Typed'
  BY <1>1, <1>5 DEF IndInv, Done, peers, Typed, TypeOK, Handle
<1>7. Owned'
  BY <1>5
<1>8. Refs'
  <2>1. \A f \in Fd : clients[f] \in Conn => kcp'[clients[f]] = "live" /\ fd[clients[f]] = f
    BY <1>5 DEF IndInv, Refs, Held
  <2>2. uclient \in Conn => kcp'[uclient] = "live"
    BY <1>5 DEF IndInv, Refs, Held
  <2>. QED
    BY <1>1, <2>1, <2>2, HandleAssumption DEF Refs
<1>9. Watching'
  BY <1>1, <1>3, <1>5 DEF Watching
<1>10. Batch'
  BY <1>1, <1>5 DEF IndInv, Batch
<1>11. Handling'
  BY <1>1 DEF Handling
<1>12. Scanning'
  BY <1>1 DEF IndInv, Scanning
<1>13. Backlog'
  BY DEF IndInv, Done, peers, update, Backlog
<1>14. Messages'
  BY MessagesStay DEF Done, peers, update
<1>. QED
  BY <1>6, <1>7, <1>8, <1>9, <1>10, <1>11, <1>12, <1>13, <1>14 DEF IndInv

LEMMA ScanKeeps ==
  ASSUME IndInv, Scan
  PROVE  IndInv'
<1>1. Typed'
  BY DEF IndInv, Scan, kernel, peers, handles, epoll, Typed, TypeOK, Handle, Events, Listen
<1>2. Owned'
  BY DEF IndInv, Scan, kernel, peers, handles, epoll, Owned
<1>3. Refs'
  BY DEF IndInv, Scan, kernel, peers, handles, epoll, Refs
<1>4. Watching'
  BY DEF IndInv, Scan, kernel, peers, handles, epoll, Watching
<1>5. Batch'
  BY DEF IndInv, Scan, kernel, peers, handles, epoll, Batch
<1>6. Handling'
  BY DEF IndInv, Scan, kernel, peers, handles, epoll, Handling
<1>7. Scanning'
  <2>1. \A f \in todo' : clients'[f] \in Conn
    BY DEF IndInv, Typed, Scan
  <2>. QED
    BY <2>1 DEF Scan, Scanning
<1>8. Backlog'
  BY DEF IndInv, Scan, kernel, peers, handles, epoll, Backlog
<1>9. Messages'
  BY MessagesStay DEF Scan, kernel, peers, handles, epoll
<1>. QED
  BY <1>1, <1>2, <1>3, <1>4, <1>5, <1>6, <1>7, <1>8, <1>9 DEF IndInv

LEMMA VisitKeeps ==
  ASSUME IndInv, Visit
  PROVE  IndInv'
<1>1. PICK f \in todo :
        /\ todo' = todo \ {f} /\ uclient' = clients[f]
        /\ upc' = IF stop[clients[f]] THEN "erase" ELSE "update"
  BY DEF Visit
<1>2. upc = "scan" /\ UNCHANGED <<fd, kcp, stop, clients, client>>
  BY DEF Visit, handles, epoll
<1>3. f \in Fd /\ clients[f] \in Conn
  BY <1>2 DEF IndInv, Typed, TypeOK, Scanning
<1>4. kcp[clients[f]] = "live" /\ fd[clients[f]] = f
  BY <1>3 DEF IndInv, Refs
<1>5. Typed'
  BY <1>1, <1>3 DEF IndInv, Visit, kernel, peers, handles, epoll, Typed, TypeOK
<1>6. Owned'
  BY DEF IndInv, Visit, kernel, peers, handles, epoll, Owned
<1>7. Refs'
  BY <1>1, <1>2, <1>3, <1>4 DEF IndInv, Refs
<1>8. Watching'
  BY DEF IndInv, Visit, kernel, peers, handles, epoll, Watching
<1>9. Batch'
  BY DEF IndInv, Visit, kernel, peers, handles, epoll, Batch
<1>10. Handling'
  BY DEF IndInv, Visit, kernel, peers, handles, epoll, Handling
<1>11. Scanning'
  BY <1>1, <1>2, <1>3, <1>4 DEF IndInv, Scanning
<1>12. Backlog'
  BY DEF IndInv, Visit, kernel, peers, handles, epoll, Backlog
<1>13. Messages'
  BY MessagesStay DEF Visit, kernel, peers, handles, epoll
<1>. QED
  BY <1>5, <1>6, <1>7, <1>8, <1>9, <1>10, <1>11, <1>12, <1>13 DEF IndInv

LEMMA UpdateOneKeeps ==
  ASSUME IndInv, UpdateOne
  PROVE  IndInv'
<1>1. /\ upc = "update" /\ upc' = "scan" /\ uclient' = None
      /\ Destroy(Dropped(clients, client, None))
      /\ UNCHANGED <<fd, stop, backlog, clients, epc, batch, client, efd, todo>>
  BY DEF UpdateOne, epoll
<1>2. clients \in [Fd -> Conn \cup {None}] /\ watched \subseteq Fd
  BY DEF IndInv, Typed, TypeOK
<1>3. \A f \in watched : Held(owner[f], clients, client, None)
  BY <1>2 DEF IndInv, Watching, Held
<1>4. /\ owner' \in [Fd -> Conn \cup {None}] /\ watched' = watched
      /\ kcp' \in [Conn -> {"none", "live", "released"}] /\ Owned'
      /\ \A c \in Conn : kcp[c] = "live" /\ Held(c, clients, client, None) => kcp'[c] = "live"
      /\ \A f \in watched : owner'[f] = owner[f]
  BY <1>1, <1>2, <1>3, DestroyKeeps
<1>5. Typed'
  BY <1>1, <1>4 DEF IndInv, UpdateOne, peers, epoll, Typed, TypeOK, Handle
<1>6. Owned'
  BY <1>4
<1>7. Refs'
  <2>1. \A f \in Fd : clients[f] \in Conn => kcp'[clients[f]] = "live" /\ fd[clients[f]] = f
    BY <1>4 DEF IndInv, Refs, Held
  <2>2. client \in Conn => kcp'[client] = "live"
    BY <1>4 DEF IndInv, Refs, Held
  <2>. QED
    BY <1>1, <2>1, <2>2, HandleAssumption DEF Refs
<1>8. Watching'
  BY <1>1, <1>4 DEF IndInv, Watching
<1>9. Batch'
  BY <1>1, <1>4 DEF IndInv, Batch
<1>10. Handling'
  BY <1>1 DEF IndInv, Handling
<1>11. Scanning'
  BY <1>1 DEF IndInv, Scanning
<1>12. Backlog'
  BY DEF IndInv, UpdateOne, peers, epoll, Backlog
<1>13. Messages'
  BY MessagesStay DEF UpdateOne, peers, epoll
<1>. QED
  BY <1>5, <1>6, <1>7, <1>8, <1>9, <1>10, <1>11, <1>12, <1>13 DEF IndInv

LEMMA EraseKeeps ==
  ASSUME IndInv, Erase
  PROVE  IndInv'
<1>1. /\ upc = "erase" /\ upc' = "scan" /\ uclient' = None
      /\ clients' = [clients EXCEPT ![fd[uclient]] = None]
      /\ Destroy(Dropped(clients', client, None))
      /\ UNCHANGED <<fd, stop, backlog, epc, batch, client, efd, todo>>
  BY DEF Erase, epoll
<1>2. /\ uclient \in Conn /\ stop[uclient] /\ fd[uclient] \notin todo
      /\ clients[fd[uclient]] = uclient /\ kcp[uclient] = "live"
  BY <1>1 DEF IndInv, Scanning, Refs
<1>3. fd[uclient] \in Fd /\ owner[fd[uclient]] = uclient
  BY <1>2 DEF IndInv, Owned
<1>4. /\ clients' \in [Fd -> Conn \cup {None}] /\ watched \subseteq Fd
      /\ \A f \in Fd : clients'[f] = IF f = fd[uclient] THEN None ELSE clients[f]
  BY <1>1, <1>3 DEF IndInv, Typed, TypeOK
<1>5. \A f \in watched : f # fd[uclient] /\ clients'[f] = clients[f]
  BY <1>2, <1>3, <1>4 DEF IndInv, Watching
<1>6. \A f \in watched : Held(owner[f], clients', client, None)
  BY <1>4, <1>5 DEF IndInv, Watching, Held
<1>7. /\ owner' \in [Fd -> Conn \cup {None}] /\ watched' = watched
      /\ kcp' \in [Conn -> {"none", "live", "released"}] /\ Owned'
      /\ \A c \in Conn : kcp[c] = "live" /\ Held(c, clients', client, None) => kcp'[c] = "live"
      /\ \A f \in watched : owner'[f] = owner[f]
  <2>. DEFINE map == clients'
  <2>1. /\ map \in [Fd -> Conn \cup {None}] /\ Destroy(Dropped(map, client, None))
        /\ \A f \in watched : Held(owner[f], map, client, None)
    BY <1>1, <1>4, <1>6
  <2>. HIDE DEF map
  <2>2. /\ owner' \in [Fd -> Conn \cup {None}] /\ watched' = watched
        /\ kcp' \in [Conn -> {"none", "live", "released"}] /\ Owned'
        /\ \A c \in Conn : kcp[c] = "live" /\ Held(c, map, client, None)
                             => kcp'[c] = "live"
        /\ \A f \in watched : owner'[f] = owner[f]
    BY <1>1, <2>1, DestroyKeeps
  <2>. QED
    BY <2>2 DEF map
<1>8. Typed'
  BY <1>1, <1>4, <1>7 DEF IndInv, Erase, peers, epoll, Typed, TypeOK, Handle
<1>9. Owned'
  BY <1>7
<1>10. Refs'
  <2>1. \A f \in Fd : clients'[f] \in Conn => kcp[clients'[f]] = "live" /\ fd[clients'[f]] = f
    BY <1>4, HandleAssumption DEF IndInv, Refs
  <2>2. \A f \in Fd : clients'[f] \in Conn => kcp'[clients'[f]] = "live"
    BY <1>7, <2>1 DEF Held
  <2>3. client \in Conn => kcp'[client] = "live"
    BY <1>7 DEF IndInv, Refs, Held
  <2>. QED
    BY <1>1, <2>1, <2>2, <2>3, HandleAssumption DEF Refs
<1>11. Watching'
  BY <1>1, <1>5, <1>7 DEF IndInv, Watching
<1>12. Batch'
  BY <1>1, <1>5, <1>7 DEF IndInv, Batch
<1>13. Handling'
  <2>1. epc \in {"hangup", "read", "recv", "reply", "eof"} => clients'[efd] = clients[efd]
    BY <1>2, <1>4 DEF IndInv, Handling
  <2>. QED
    BY <1>1, <2>1 DEF IndInv, Handling
<1>14. Scanning'
  <2>1. \A f \in todo : f \in Fd /\ f # fd[uclient] /\ clients[f] \in Conn
    BY <1>1, <1>2 DEF IndInv, Typed, TypeOK, Scanning
  <2>. QED
    BY <1>1, <1>4, <2>1 DEF Scanning
<1>15. Backlog'
  BY DEF IndInv, Erase, peers, epoll, Backlog
<1>16. Messages'
  BY MessagesStay DEF Erase, peers, epoll
<1>. QED
  BY <1>8, <1>9, <1>10, <1>11, <1>12, <1>13, <1>14, <1>15, <1>16 DEF IndInv

LEMMA SleepKeeps ==
  ASSUME IndInv, Sleep
  PROVE  IndInv'
<1>1. Typed'
  BY DEF IndInv, Sleep, kernel, peers, handles, epoll, Typed, TypeOK, Handle, Events, Listen
<1>2. Owned'
  BY DEF IndInv, Sleep, kernel, peers, handles, epoll, Owned
<1>3. Refs'
  BY DEF IndInv, Sleep, kernel, peers, handles, epoll, Refs
<1>4. Watching'
  BY DEF IndInv, Sleep, kernel, peers, handles, epoll, Watching
<1>5. Batch'
  BY DEF IndInv, Sleep, kernel, peers, handles, epoll, Batch
<1>6. Handling'
  BY DEF IndInv, Sleep, kernel, peers, handles, epoll, Handling
<1>7. Scanning'
  BY DEF IndInv, Sleep, kernel, peers, handles, epoll, Scanning
<1>8. Backlog'
  BY DEF IndInv, Sleep, kernel, peers, handles, epoll, Backlog
<1>9. Messages'
  BY MessagesStay DEF Sleep, kernel, peers, handles, epoll
<1>. QED
  BY <1>1, <1>2, <1>3, <1>4, <1>5, <1>6, <1>7, <1>8, <1>9 DEF IndInv

-----------------------------------------------------------------------------
LEMMA NextPreserves == IndInv /\ [Next]_vars => IndInv'
<1>. SUFFICES ASSUME IndInv, [Next]_vars PROVE IndInv'
  OBVIOUS
<1>1. CASE UNCHANGED vars
  <2>1. UNCHANGED <<kernel, peers, handles, clients, epoll, update>>
    BY <1>1 DEF vars
  <2>2. Messages'
    BY <2>1, MessagesStay DEF peers, handles, epoll
  <2>3. Typed' /\ Owned' /\ Refs' /\ Watching' /\ Batch' /\ Handling' /\ Scanning' /\ Backlog'
    BY <2>1 DEF kernel, peers, handles, epoll, update, IndInv, Typed, TypeOK,
       Owned, Refs, Watching, Batch, Handling, Scanning, Backlog
  <2>. QED
    BY <2>2, <2>3 DEF IndInv
<1>2. ASSUME NEW c \in Conn, Connect(c) \/ Write(c) \/ End(c)
      PROVE  IndInv'
  BY <1>2, ConnectKeeps, WriteKeeps, EndKeeps
<1>3. CASE EpollThread
  BY <1>3, EpollWaitKeeps, BatchDoneKeeps, AcceptKeeps, AcceptDropsKeeps, AcceptFailsKeeps,
     InsertKeeps, LookupKeeps, ReadMessageKeeps, ReadEndKeeps, RecvKeeps,
     ReplyKeeps, FinishKeeps, DoneKeeps DEF EpollThread
<1>4. CASE UpdateThread
  BY <1>4, ScanKeeps, VisitKeeps, UpdateOneKeeps, EraseKeeps, SleepKeeps
  DEF UpdateThread
<1>. QED
  BY <1>1, <1>2, <1>3, <1>4 DEF Next

(* Every reachable state satisfies the inductive invariant.                *)
THEOREM Invariance == Spec => []IndInv
BY InitEstablishes, NextPreserves, PTL DEF Spec

(* The state of both threads, the handles and the map keep their types: no *)
(* more messages come out of a control block than the file has.            *)
THEOREM TypeCorrect == Spec => []TypeOK
<1>1. IndInv => TypeOK
  BY DEF IndInv, Typed
<1>. QED
  BY <1>1, Invariance, PTL

(* Neither thread uses a control block that the other's dropping of a      *)
(* shared_ptr released: erase leaves the epoll thread's reference, Done    *)
(* leaves the update thread's.                                             *)
THEOREM NoUseAfterRelease == Spec => []UsedIsLive
<1>1. IndInv => UsedIsLive
  BY Handled DEF IndInv, Refs, Scanning, UsedIsLive
<1>. QED
  BY <1>1, Invariance, PTL

(* A handle's destructor closes the descriptor of its own connection: no   *)
(* number is given to another connection while a handle remembers it.      *)
THEOREM ClosesItsOwn == Spec => []DescriptorOwned
<1>1. IndInv => DescriptorOwned
  BY DEF IndInv, Owned, DescriptorOwned
<1>. QED
  BY <1>1, Invariance, PTL

(* The lookup clients[fd] of an event always has its key in the map: a     *)
(* handle is erased only after its descriptor left the interest list, and  *)
(* no event of it is then at hand.                                         *)
THEOREM LookupsFind == Spec => []EventsHaveClients
<1>1. IndInv => EventsHaveClients
  BY DEF IndInv, Batch, EventsHaveClients
<1>. QED
  BY <1>1, Invariance, PTL

(* The blocking accept is called only when a connection waits.             *)
THEOREM AcceptFinds == Spec => []AcceptNeverBlocks
<1>1. IndInv => AcceptNeverBlocks
  BY DEF IndInv, Backlog, AcceptNeverBlocks
<1>. QED
  BY <1>1, Invariance, PTL

(* The answer through KCP is given to ikcp_send once at most, when the     *)
(* whole file was read; and unless a read was refused, before the epoll    *)
(* thread is done with the read that completed the file, although          *)
(* ikcp_recv gets the length of that read as the size of its buffer.       *)
THEOREM AnswersWhole == Spec => []AnsweredIfWhole
<1>1. ASSUME IndInv PROVE AnsweredIfWhole
  <2>1. Answers /\ Readable
    BY <1>1 DEF IndInv, Messages
  <2>2. ASSUME NEW c \in Conn, taken[c] = Message, raw[c] = 0, FileChunks > 0,
               ~ (epc \in {"recv", "reply"} /\ client = c)
        PROVE  finished[c] = 1
    <3>1. FileChunks + 1 \in taken[c]
      BY <2>2, FileAssumption DEF Message
    <3>2. FileChunks + 1 <= got[c]
      BY <2>1, <2>2, <3>1 DEF Readable
    <3>3. got[c] = FileChunks + 1
      BY <1>1, <3>2, Numbers, FileAssumption
    <3>. QED
      BY <2>1, <2>2, <3>3 DEF Answers
  <2>. QED
    BY <2>1, <2>2 DEF AnsweredIfWhole, Answers
<1>. QED
  BY <1>1, Invariance, PTL
=============================================================================
