------------------------- MODULE PeerNetworkProofs -------------------------
(***************************************************************************)
(* Proofs about PeerNetwork, for any peers, names, contents and bounds, in *)
(* four parts.                                                             *)
(*                                                                         *)
(* Types and the server, whose part comes from IndexServerProofs: every    *)
(* step of the network is a step its specification allows.                 *)
(*                                                                         *)
(* The processes of a peer share its socket without losing count, and what *)
(* follows for peers that hang.  There the network loses nothing, users do *)
(* not rename a peer, and nobody uses 'O', whose answers have no fixed     *)
(* number.                                                                 *)
(*                                                                         *)
(* What the list of the server says about peers that register, deregister, *)
(* list, rename and quit but do not download, while the network may lose   *)
(* any datagram.                                                           *)
(*                                                                         *)
(* How a file changes hands: a child that asks alone deregisters it before *)
(* it closes the stream, whatever users do and the network loses.          *)
(***************************************************************************)
EXTENDS PeerHandOver, SequenceTheorems, FiniteSetTheorems, FunctionTheorems, TLAPS

Proved == INSTANCE IndexServerProofs

(* What a parent has in its memory when it is at work. *)
AtWork(m) ==
    /\ m.at \in {"register", "search", "download", "publish"} => m.content \in Contents
    /\ m.at = "quit" => m.left < Len(m.regs)

Working == \A p \in Peers : AtWork(main[p])

(* Only searches for a content are answered by 'S'. *)
SearchAnswers ==
    \A p \in Peers : \A i \in 1..Len(outbox[p]) :
        outbox[p][i].type = "S" => outbox[p][i].content \in Contents

(* q reads a stream to p that nobody has closed. *)
Reads(q, p) ==
    /\ main[q].at = "download"
    /\ conn[q] \in Connection
    /\ conn[q].open
    /\ conn[q].to = p

(* Whoever is in p's queue, or served by a child of p, reads such a stream, *)
(* and is there once.                                                      *)
Queued ==
    \A p \in Peers :
        /\ \A i \in 1..Len(backlog[p]) : Reads(backlog[p][i], p)
        /\ \A i, j \in 1..Len(backlog[p]) : backlog[p][i] = backlog[p][j] => i = j

Served ==
    \A p \in Peers : \A k \in Kids : kid[p][k] # None =>
        /\ Reads(kid[p][k].client, p)
        /\ \A j \in Kids : kid[p][j] # None /\ kid[p][j].client = kid[p][k].client => j = k
        /\ \A i \in 1..Len(backlog[p]) : backlog[p][i] # kid[p][k].client

(* And whoever reads such a stream is there. *)
Attended ==
    \A q \in Peers : main[q].at = "download" =>
        /\ conn[q] \in Connection
        /\ conn[q].open =>
              \/ \E i \in 1..Len(backlog[conn[q].to]) : backlog[conn[q].to][i] = q
              \/ \E k \in Kids : /\ kid[conn[q].to][k] # None
                                 /\ kid[conn[q].to][k].client = q

(* Who has left has no queue. *)
Left == \A p \in Peers : ~ Listens(p) => backlog[p] = <<>>

Links == Queued /\ Served /\ Attended /\ Left

Inv == TypeOK /\ Working /\ SearchAnswers /\ Links
-----------------------------------------------------------------------------
(* The server's own definitions, and those its proofs are about. *)
LEMMA SameTypes ==
    /\ Server!TypeOK <=> Proved!TypeOK
    /\ Server!TypeOK <=> (index \in Seq(Entry) /\ ChannelsTypeOK)
    /\ Server!TypeOK' <=> Proved!TypeOK'
    /\ Server!TypeOK' <=> (index' \in Seq(Entry) /\ ChannelsTypeOK')
BY Zenon DEF Server!TypeOK, Server!ChannelsTypeOK, Server!Entry, Server!Request, Server!Reply,
   Server!AnyName, Server!NoName, Server!Taken, Server!Duplicate, Server!Spill,
   Proved!TypeOK, Proved!ChannelsTypeOK, Proved!Entry, Proved!Request, Proved!Reply,
   Proved!AnyName, Proved!NoName, Proved!Taken, Proved!Duplicate, Proved!Spill,
   ChannelsTypeOK, Entry, Request, Reply, AnyName, NoName, Taken, Duplicate, Spill

LEMMA SameNext ==
    Server!Next = Proved!Next
BY Zenon DEF Server!Next, Server!Serve, Server!Register, Server!Search, Server!Deregister,
   Server!List, Server!Ignore, Server!Stops, Server!FirstStop, Server!Provider, Server!Unlink,
   Server!UnlinkInTail, Server!Hit, Server!Matches, Server!Environment, Server!Lose,
   Server!ClientTurn, Server!Answer, Server!Send, Server!Receive, Server!DropAt, Server!Echo,
   Server!EntryOf, Server!Line, Server!Closing, Server!Listing, Server!Request, Server!Reply,
   Server!AnyName, Server!NoName, Server!Taken, Server!Duplicate, Server!Refusal, Server!Spill,
   Proved!Next, Proved!Serve, Proved!Register, Proved!Search, Proved!Deregister,
   Proved!List, Proved!Ignore, Proved!Stops, Proved!FirstStop, Proved!Provider, Proved!Unlink,
   Proved!UnlinkInTail, Proved!Hit, Proved!Matches, Proved!Environment, Proved!Lose,
   Proved!ClientTurn, Proved!Answer, Proved!Send, Proved!Receive, Proved!DropAt, Proved!Echo,
   Proved!EntryOf, Proved!Line, Proved!Closing, Proved!Listing, Proved!Request, Proved!Reply,
   Proved!AnyName, Proved!NoName, Proved!Taken, Proved!Duplicate, Proved!Refusal, Proved!Spill

LEMMA SameSpec ==
    Server!Spec <=> Proved!Spec
<1>1. Server!Init <=> Proved!Init
    BY Zenon DEF Server!Init, Proved!Init, Server!ChannelsInit, Proved!ChannelsInit
<1>2. [Server!Next]_Server!vars <=> [Proved!Next]_Proved!vars
    BY SameNext, Zenon DEF Server!vars, Proved!vars
<1>3. QED
    BY <1>1, <1>2, PTL DEF Server!Spec, Proved!Spec

LEMMA ServerTypes ==
    ASSUME TypeOK, [Server!Next]_server
    PROVE  index' \in Seq(Entry) /\ ChannelsTypeOK' /\ Server!TypeOK'
<1>1. Proved!TypeOK
    BY SameTypes DEF TypeOK
<1>2. [Proved!Next]_Proved!vars
    BY SameNext DEF server, Proved!vars
<1>3. Proved!TypeOK'
    BY <1>1, <1>2, MaxInboxAssumption, Proved!NextTypeOK
<1>4. QED
    BY <1>3, SameTypes

LEMMA InvTypes ==
    ASSUME Inv
    PROVE  /\ TypeOK /\ ChannelsTypeOK /\ index \in Seq(Entry)
           /\ \A p \in Peers :
                 /\ main[p] \in Memory /\ AtWork(main[p])
                 /\ outbox[p] \in Seq(Reply)
                 /\ backlog[p] \in Seq(Peers)
                 /\ conn[p] \in Connection \cup {None}
                 /\ \A k \in Kids : kid[p][k] \in Child \cup {None}
BY SameTypes DEF Inv, TypeOK, Working, ChannelsTypeOK
-----------------------------------------------------------------------------
(* What the steps do to the memory of a parent. *)
LEMMA DoneMemory ==
    ASSUME NEW m \in Memory
    PROVE  /\ Done(m) \in Memory /\ AtWork(Done(m))
           /\ Done(m).at \in {"menu", "accept"}
<1>1. [m EXCEPT !.at = IF m.ready THEN "accept" ELSE "menu", !.ready = FALSE] \in Memory
    BY DEF Memory, Places
<1>2. [m EXCEPT !.at = IF m.ready THEN "accept" ELSE "menu", !.ready = FALSE].at
        = IF m.ready THEN "accept" ELSE "menu"
    BY DEF Memory
<1>3. Done(m) \in Memory /\ Done(m).at \in {"menu", "accept"}
    BY <1>1, <1>2 DEF Done
<1>4. QED
    BY <1>3 DEF AtWork

LEMMA RememberMemory ==
    ASSUME NEW m \in Memory, m.content \in Contents
    PROVE  Remember(m) \in Memory
<1>1. m.regs \in Seq(Contents)
    BY DEF Memory
<1>2. Append(m.regs, m.content) \in Seq(Contents)
    BY <1>1, AppendProperties
<1> DEFINE rs == IF Len(m.regs) < MaxRegs THEN Append(m.regs, m.content) ELSE m.regs
<1>3. rs \in Seq(Contents)
    BY <1>1, <1>2
<1>4. Remember(m) = [m EXCEPT !.regs = rs]
    BY DEF Remember
<1> HIDE DEF rs
<1>5. QED
    BY <1>3, <1>4 DEF Memory

LEMMA PickedTypes ==
    ASSUME NEW p \in Peers, main[p] \in Memory
    PROVE  Picked(p) \in Memory /\ Picked(p).regs = main[p].regs
<1> DEFINE t == main[p].typed + 1
           b == (backlog[p] # <<>>)
<1>1. t \in Nat /\ b \in BOOLEAN
    BY DEF Memory
<1>2. Picked(p) = [main[p] EXCEPT !.typed = t, !.ready = b]
    BY DEF Picked
<1> HIDE DEF t, b
<1>3. [main[p] EXCEPT !.typed = t, !.ready = b] \in Memory
    BY <1>1 DEF Memory
<1>4. [main[p] EXCEPT !.typed = t, !.ready = b].regs = main[p].regs
    BY DEF Memory
<1>5. QED
    BY <1>2, <1>3, <1>4

LEMMA PickedAt ==
    ASSUME NEW p \in Peers, main[p] \in Memory, NEW x \in Places
    PROVE  \E m \in Memory : m = [Picked(p) EXCEPT !.at = x] /\ m.at = x
<1>1. Picked(p) \in Memory
    BY PickedTypes
<1>2. ASSUME NEW m \in Memory
      PROVE  [m EXCEPT !.at = x] \in Memory /\ [m EXCEPT !.at = x].at = x
    BY DEF Memory
<1>3. QED
    BY <1>1, <1>2

WithContent(m, x, c) == [m EXCEPT !.at = x, !.content = c]

WithLeft(m, x, n) == [m EXCEPT !.at = x, !.left = n]

LEMMA PickedContent ==
    ASSUME NEW p \in Peers, main[p] \in Memory, NEW x \in Places, NEW c \in Contents
    PROVE  /\ WithContent(Picked(p), x, c) \in Memory
           /\ WithContent(Picked(p), x, c).at = x
           /\ WithContent(Picked(p), x, c).content = c
<1>1. Picked(p) \in Memory
    BY PickedTypes
<1>2. ASSUME NEW m \in Memory
      PROVE  /\ WithContent(m, x, c) \in Memory
             /\ WithContent(m, x, c).at = x
             /\ WithContent(m, x, c).content = c
    BY DEF Memory, WithContent
<1>3. QED
    BY <1>1, <1>2

LEMMA PickedLeft ==
    ASSUME NEW p \in Peers, main[p] \in Memory, NEW x \in Places, NEW n \in Nat
    PROVE  /\ WithLeft(Picked(p), x, n) \in Memory
           /\ WithLeft(Picked(p), x, n).at = x
           /\ WithLeft(Picked(p), x, n).left = n
           /\ WithLeft(Picked(p), x, n).regs = main[p].regs
<1>1. Picked(p) \in Memory /\ Picked(p).regs = main[p].regs
    BY PickedTypes
<1>2. ASSUME NEW m \in Memory
      PROVE  /\ WithLeft(m, x, n) \in Memory
             /\ WithLeft(m, x, n).at = x
             /\ WithLeft(m, x, n).left = n
             /\ WithLeft(m, x, n).regs = m.regs
    BY DEF Memory, WithLeft
<1>3. QED
    BY <1>1, <1>2
-----------------------------------------------------------------------------
(* A step that changes only where one parent is, and neither into nor out  *)
(* of a download, nor out of the program.                                  *)
LEMMA MemoryMoves ==
    ASSUME Inv, NEW p \in Peers, NEW m \in Memory, AtWork(m),
           m.at \notin {"gone", "failed", "download"}, main[p].at # "download",
           main' = [main EXCEPT ![p] = m], UNCHANGED local
    PROVE  /\ main' \in [Peers -> Memory]
           /\ Working'
           /\ Links'
<1>1. main \in [Peers -> Memory]
    BY InvTypes DEF TypeOK
<1>2. main' \in [Peers -> Memory]
    BY <1>1
<1>3. main'[p] = m /\ \A q \in Peers : q # p => main'[q] = main[q]
    BY <1>1
<1>4. Working'
  <2>1. ASSUME NEW q \in Peers PROVE AtWork(main'[q])
    BY <1>3 DEF Inv, Working
  <2>2. QED
    BY <2>1 DEF Working, AtWork
<1>5. UNCHANGED <<kid, files, backlog, conn>>
    BY DEF local
<1>6. \A q \in Peers : main'[q].at = "download" <=> main[q].at = "download"
    BY <1>3
<1>7. \A q \in Peers, r \in Peers : Reads(q, r)' <=> Reads(q, r)
    BY <1>5, <1>6 DEF Reads
<1>8. \A q \in Peers : backlog[q] \in Seq(Peers)
    BY InvTypes
<1>9. Queued'
  <2>1. \A q \in Peers : \A i \in 1..Len(backlog[q]) : backlog[q][i] \in Peers
    BY <1>8, ElementOfSeq
  <2>2. QED
    BY <1>5, <1>7, <2>1 DEF Inv, Links, Queued, Reads
<1>10. Served'
  <2>1. ASSUME NEW q \in Peers, NEW k \in Kids, kid[q][k] # None
        PROVE  kid[q][k].client \in Peers
    BY <2>1, InvTypes DEF Child
  <2>2. QED
    BY <1>5, <1>7, <2>1 DEF Inv, Links, Served, Reads
<1>11. Attended'
    BY <1>5, <1>6 DEF Inv, Links, Attended
<1>12. Left'
  <2>1. \A q \in Peers : ~ Listens(q)' => ~ Listens(q)
    BY <1>3 DEF Listens
  <2>2. QED
    BY <1>5, <2>1 DEF Inv, Links, Left, Listens
<1>13. QED
    BY <1>2, <1>4, <1>9, <1>10, <1>11, <1>12 DEF Links

(* A peer that leaves by Q or by exit(-1) takes its queue with it. *)
LEMMA LeaveLinks ==
    ASSUME Inv, NEW p \in Peers, NEW x \in {"gone", "failed"}, Leave(p, x),
           main[p].at = "download" => ~ conn[p].open
    PROVE  /\ main' \in [Peers -> Memory]
           /\ Working'
           /\ Links'
           /\ conn' \in [Peers -> Connection \cup {None}]
           /\ backlog' \in [Peers -> Seq(Peers)]
<1>1. /\ main \in [Peers -> Memory]
      /\ conn \in [Peers -> Connection \cup {None}]
      /\ backlog \in [Peers -> Seq(Peers)]
    BY InvTypes DEF TypeOK
<1>2. /\ main'[p] = [main[p] EXCEPT !.at = x]
      /\ \A q \in Peers : q # p => main'[q] = main[q]
      /\ DOMAIN main' = Peers
    BY <1>1 DEF Leave
<1>3. [main[p] EXCEPT !.at = x] \in Memory /\ [main[p] EXCEPT !.at = x].at = x
    BY <1>1 DEF Memory, Places
<1>4. main' \in [Peers -> Memory]
  <2>1. main' = [main EXCEPT ![p] = [main[p] EXCEPT !.at = x]]
    BY DEF Leave
  <2>2. QED
    BY <1>1, <1>3, <2>1
<1>5. Working'
  <2>1. ASSUME NEW q \in Peers PROVE AtWork(main'[q])
    <3>1. CASE q = p
      BY <1>2, <1>3, <3>1 DEF AtWork
    <3>2. CASE q # p
      BY <1>2, <3>2 DEF Inv, Working
    <3>3. QED
      BY <3>1, <3>2
  <2>2. QED
    BY <2>1 DEF Working, AtWork
<1>6. /\ backlog' = [backlog EXCEPT ![p] = <<>>]
      /\ backlog'[p] = <<>>
      /\ \A q \in Peers : q # p => backlog'[q] = backlog[q]
      /\ backlog' \in [Peers -> Seq(Peers)]
  <2>1. <<>> \in Seq(Peers)
    OBVIOUS
  <2>2. QED
    BY <1>1, <2>1 DEF Leave
<1>7. ASSUME NEW q \in Peers, Contains(backlog[p], q)
      PROVE  /\ Reads(q, p)
             /\ conn'[q] \in Connection /\ ~ conn'[q].open
  <2>1. PICK i \in 1..Len(backlog[p]) : backlog[p][i] = q
    BY <1>7 DEF Contains
  <2>2. Reads(q, p)
    BY <2>1 DEF Inv, Links, Queued
  <2>3. conn'[q] = [conn[q] EXCEPT !.open = FALSE]
    BY <1>7 DEF Leave
  <2>4. conn[q] \in Connection
    BY <2>2 DEF Reads
  <2>5. conn'[q] \in Connection /\ ~ conn'[q].open
    BY <2>3, <2>4 DEF Connection
  <2>6. QED
    BY <2>2, <2>5
<1>8. ASSUME NEW q \in Peers, ~ Contains(backlog[p], q)
      PROVE  conn'[q] = conn[q]
    BY <1>8 DEF Leave
<1>9. conn' \in [Peers -> Connection \cup {None}]
  <2>1. \A q \in Peers : conn'[q] \in Connection \cup {None}
    BY <1>1, <1>7, <1>8
  <2>2. conn' = [q \in Peers |-> conn'[q]]
    BY DEF Leave
  <2>3. QED
    BY <2>1, <2>2
<1>10. /\ \A q \in Peers : main'[q].at = "download" => main[q].at = "download"
       /\ \A q, r \in Peers : Reads(q, r) => main'[q].at = "download"
    BY <1>2, <1>3 DEF Reads
(* Readers of other peers, and those served by a child, still read.        *)
<1>11. ASSUME NEW q \in Peers, NEW r \in Peers, Reads(q, r), ~ Contains(backlog[p], q)
       PROVE  Reads(q, r)'
    BY <1>8, <1>10, <1>11 DEF Reads
<1>12. UNCHANGED kid
    BY DEF Leave
<1>13. ASSUME NEW r \in Peers, NEW i \in 1..Len(backlog[r]), r # p
       PROVE  backlog[r][i] \in Peers /\ ~ Contains(backlog[p], backlog[r][i])
  <2>1. backlog[r][i] \in Peers
    BY <1>1, ElementOfSeq
  <2>2. Reads(backlog[r][i], r)
    BY DEF Inv, Links, Queued
  <2>3. QED
    BY <1>7, <1>13, <2>1, <2>2 DEF Reads
<1>14. Queued'
  <2>1. ASSUME NEW r \in Peers
        PROVE  /\ \A i \in 1..Len(backlog'[r]) : Reads(backlog[r][i], r)' /\ backlog'[r] = backlog[r]
               /\ \A i, j \in 1..Len(backlog'[r]) : backlog'[r][i] = backlog'[r][j] => i = j
    <3>1. CASE r = p
      BY <1>6, <3>1
    <3>2. CASE r # p
      <4>1. \A i \in 1..Len(backlog[r]) : Reads(backlog[r][i], r)
        BY DEF Inv, Links, Queued
      <4>2. ASSUME NEW i \in 1..Len(backlog[r]) PROVE Reads(backlog[r][i], r)'
        <5>1. PICK q \in Peers : q = backlog[r][i] /\ ~ Contains(backlog[p], q)
          BY <1>13, <3>2
        <5>2. Reads(q, r)'
          BY <1>11, <4>1, <5>1
        <5>3. backlog'[r][i] = q
          BY <1>6, <3>2, <5>1
        <5>4. QED
          BY <5>2, <5>3 DEF Reads
      <4>3. \A i, j \in 1..Len(backlog[r]) : backlog[r][i] = backlog[r][j] => i = j
        BY DEF Inv, Links, Queued
      <4>4. QED
        BY <1>6, <3>2, <4>2, <4>3
    <3>3. QED
      BY <3>1, <3>2
  <2>2. QED
    BY <2>1 DEF Queued, Reads
<1>15. Served'
  <2>1. ASSUME NEW r \in Peers, NEW k \in Kids, kid[r][k] # None
        PROVE  /\ Reads(kid[r][k].client, r)'
               /\ \A j \in Kids : kid[r][j] # None /\ kid[r][j].client = kid[r][k].client => j = k
               /\ \A i \in 1..Len(backlog'[r]) : backlog'[r][i] # kid[r][k].client
    <3>1. /\ Reads(kid[r][k].client, r)
          /\ \A j \in Kids : kid[r][j] # None /\ kid[r][j].client = kid[r][k].client => j = k
          /\ \A i \in 1..Len(backlog[r]) : backlog[r][i] # kid[r][k].client
      BY <2>1 DEF Inv, Links, Served
    <3>2. kid[r][k].client \in Peers
      BY <2>1, InvTypes DEF Child
    <3>3. ~ Contains(backlog[p], kid[r][k].client)
      <4>1. CASE r = p
        BY <3>1, <4>1 DEF Contains
      <4>2. CASE r # p
        BY <1>7, <3>1, <3>2, <4>2 DEF Reads
      <4>3. QED
        BY <4>1, <4>2
    <3>4. Reads(kid[r][k].client, r)'
      BY <1>8, <1>10, <1>12, <3>1, <3>2, <3>3 DEF Reads
    <3>5. \A i \in 1..Len(backlog'[r]) : backlog'[r][i] # kid[r][k].client
      BY <1>6, <3>1
    <3>6. QED
      BY <3>1, <3>4, <3>5
  <2>2. QED
    BY <1>12, <2>1 DEF Served, Reads
<1>16. Attended'
  <2>1. ASSUME NEW q \in Peers, main'[q].at = "download"
        PROVE  /\ conn'[q] \in Connection
               /\ conn'[q].open =>
                     \/ \E i \in 1..Len(backlog'[conn'[q].to]) : backlog'[conn'[q].to][i] = q
                     \/ \E k \in Kids : kid[conn'[q].to][k] # None /\ kid[conn'[q].to][k].client = q
    <3>1. CASE Contains(backlog[p], q)
      BY <1>7, <3>1
    <3>2. CASE ~ Contains(backlog[p], q)
      <4>1. conn'[q] = conn[q] /\ main[q].at = "download"
        BY <1>8, <1>10, <2>1, <3>2
      <4>2. /\ conn[q] \in Connection
            /\ conn[q].open =>
                  \/ \E i \in 1..Len(backlog[conn[q].to]) : backlog[conn[q].to][i] = q
                  \/ \E k \in Kids : kid[conn[q].to][k] # None /\ kid[conn[q].to][k].client = q
        BY <4>1 DEF Inv, Links, Attended
      <4>3. conn[q].to \in Peers
        BY <4>2 DEF Connection
      <4>4. ASSUME NEW i \in 1..Len(backlog[conn[q].to]), backlog[conn[q].to][i] = q
            PROVE  conn[q].to # p
        BY <3>2, <4>4 DEF Contains
      <4>5. QED
        BY <1>6, <4>1, <4>2, <4>3, <4>4
    <3>3. QED
      BY <3>1, <3>2
  <2>2. QED
    BY <1>12, <2>1 DEF Attended
<1>17. Left'
  <2>1. ASSUME NEW r \in Peers, ~ Listens(r)' PROVE backlog'[r] = <<>>
    BY <1>2, <1>6, <2>1 DEF Listens, Inv, Links, Left
  <2>2. QED
    BY <2>1 DEF Left, Listens
<1>18. QED
    BY <1>4, <1>5, <1>6, <1>9, <1>14, <1>15, <1>16, <1>17 DEF Links

(* The end of a search: the peer queues for a stream, and nobody else      *)
(* knows it yet.                                                           *)
LEMMA ConnectLinks ==
    ASSUME Inv, NEW p \in Peers, main[p].at = "search", NEW a \in Reply,
           a.type = "S" => a.content \in Contents, Connect(p, a)
    PROVE  /\ main' \in [Peers -> Memory]
           /\ files' \in [Peers -> SUBSET Contents]
           /\ backlog' \in [Peers -> Seq(Peers)]
           /\ conn' \in [Peers -> Connection \cup {None}]
           /\ Working'
           /\ Links'
<1> DEFINE d == a.addr
           c == [to |-> a.addr, want |-> main[p].content, file |-> a.content,
                 got |-> "nothing", open |-> TRUE]
<1>1. /\ main \in [Peers -> Memory]
      /\ files \in [Peers -> SUBSET Contents]
      /\ conn \in [Peers -> Connection \cup {None}]
      /\ backlog \in [Peers -> Seq(Peers)]
    BY InvTypes DEF TypeOK
<1>2. d \in Peers /\ d # p /\ Listens(d) /\ a.content \in Contents
    BY DEF Connect, Reply
<1>3. main[p].content \in Contents
    BY DEF Inv, Working, AtWork
<1>4. "nothing" \in Stream
    BY DEF Stream
<1>5. /\ c \in Connection /\ c.to = d /\ c.open
    BY <1>2, <1>3, <1>4 DEF Connection
<1>6. conn' = [conn EXCEPT ![p] = c]
    BY DEF Connect
<1>7. backlog' = [backlog EXCEPT ![d] = Append(backlog[d], p)]
    BY DEF Connect
<1> HIDE DEF c, d
<1>8. /\ conn'[p] = c /\ \A q \in Peers : q # p => conn'[q] = conn[q]
      /\ conn' \in [Peers -> Connection \cup {None}]
    BY <1>1, <1>5, <1>6
<1>9. /\ Append(backlog[d], p) \in Seq(Peers)
      /\ Len(Append(backlog[d], p)) = Len(backlog[d]) + 1
      /\ \A i \in 1..Len(backlog[d]) : Append(backlog[d], p)[i] = backlog[d][i]
      /\ Append(backlog[d], p)[Len(backlog[d]) + 1] = p
      /\ Len(backlog[d]) \in Nat
    BY <1>1, <1>2, AppendProperties, LenProperties
<1>10. /\ backlog' \in [Peers -> Seq(Peers)]
       /\ backlog'[d] = Append(backlog[d], p)
       /\ \A q \in Peers : q # d => backlog'[q] = backlog[q]
    BY <1>1, <1>2, <1>7, <1>9
<1>longer. ASSUME NEW r \in Peers
       PROVE  /\ \A i \in 1..Len(backlog[r]) :
                    i \in 1..Len(backlog'[r]) /\ backlog'[r][i] = backlog[r][i]
              /\ \A i \in 1..Len(backlog'[r]) :
                    \/ i \in 1..Len(backlog[r]) /\ backlog'[r][i] = backlog[r][i]
                    \/ r = d /\ i = Len(backlog[d]) + 1 /\ backlog'[r][i] = p
  <2>1. CASE r = d
    <3>1. PICK n \in Nat : n = Len(backlog[d])
      BY <1>9
    <3>2. Len(backlog'[r]) = n + 1 /\ Len(backlog[r]) = n
      BY <1>9, <1>10, <2>1, <3>1
    <3>3. \A i \in 1..n : backlog'[r][i] = backlog[r][i]
      BY <1>9, <1>10, <2>1, <3>1
    <3>4. backlog'[r][n + 1] = p
      BY <1>9, <1>10, <2>1, <3>1
    <3>5. QED
      BY <2>1, <3>1, <3>2, <3>3, <3>4
  <2>2. CASE r # d
    BY <1>10, <2>2
  <2>3. QED
    BY <2>1, <2>2
<1>11. files' \in [Peers -> SUBSET Contents]
  <2>1. files' = [files EXCEPT ![p] = files[p] \cup {a.content}]
    BY DEF Connect
  <2>2. files[p] \cup {a.content} \in SUBSET Contents
    BY <1>1, <1>2
  <2>3. QED
    BY <1>1, <2>1, <2>2
<1>12. [main[p] EXCEPT !.at = "download"] \in Memory /\ [main[p] EXCEPT !.at = "download"].at = "download"
       /\ [main[p] EXCEPT !.at = "download"].content = main[p].content
    BY <1>1 DEF Memory, Places
<1>13. /\ main' \in [Peers -> Memory]
       /\ main'[p] = [main[p] EXCEPT !.at = "download"]
       /\ \A q \in Peers : q # p => main'[q] = main[q]
  <2>1. main' = [main EXCEPT ![p] = [main[p] EXCEPT !.at = "download"]]
    BY DEF Connect
  <2>2. QED
    BY <1>1, <1>12, <2>1
<1>14. Working'
  <2>1. ASSUME NEW q \in Peers PROVE AtWork(main'[q])
    <3>1. CASE q = p
      BY <1>3, <1>12, <1>13, <3>1 DEF AtWork
    <3>2. CASE q # p
      BY <1>13, <3>2 DEF Inv, Working
    <3>3. QED
      BY <3>1, <3>2
  <2>2. QED
    BY <2>1 DEF Working, AtWork
<1>15. UNCHANGED kid
    BY DEF Connect
<1>16. \A r \in Peers : ~ Reads(p, r)
    BY DEF Reads
<1>17. \A q \in Peers, r \in Peers : Reads(q, r) => Reads(q, r)'
    BY <1>8, <1>13, <1>16 DEF Reads
<1>18. Reads(p, d)'
    BY <1>5, <1>8, <1>12, <1>13 DEF Reads
<1>19. Queued'
  <2>1. ASSUME NEW r \in Peers, NEW i \in 1..Len(backlog[r])
        PROVE  backlog[r][i] \in Peers /\ backlog[r][i] # p
               /\ \A q \in Peers : q = backlog[r][i] => Reads(q, r)'
    <3>1. backlog[r][i] \in Peers
      BY <1>1, ElementOfSeq
    <3>2. Reads(backlog[r][i], r)
      BY DEF Inv, Links, Queued
    <3>3. QED
      BY <1>16, <1>17, <3>1, <3>2
  <2>2. ASSUME NEW r \in Peers, NEW i \in 1..Len(backlog'[r])
        PROVE  \A q \in Peers : q = backlog'[r][i] => Reads(q, r)'
    <3>1. CASE r # d
      BY <1>10, <2>1, <3>1
    <3>2. CASE r = d /\ i \in 1..Len(backlog[d])
      <4>1. backlog'[r][i] = backlog[r][i]
        BY <1>9, <1>10, <3>2
      <4>2. \A q \in Peers : q = backlog[r][i] => Reads(q, r)'
        BY <2>1, <3>2
      <4>3. QED
        BY <4>1, <4>2
    <3>3. CASE r = d /\ i = Len(backlog[d]) + 1
      BY <1>9, <1>10, <1>18, <3>3 DEF Reads
    <3>4. QED
      BY <1>9, <1>10, <3>1, <3>2, <3>3
  <2>3. ASSUME NEW r \in Peers, NEW i \in 1..Len(backlog'[r]), NEW j \in 1..Len(backlog'[r]),
               backlog'[r][i] = backlog'[r][j]
        PROVE  i = j
    <3>1. \A x, y \in 1..Len(backlog[r]) : backlog[r][x] = backlog[r][y] => x = y
      BY DEF Inv, Links, Queued
    <3>2. \A x \in 1..Len(backlog[r]) : backlog[r][x] # p
      BY <2>1
    <3>3. \/ i \in 1..Len(backlog[r]) /\ backlog'[r][i] = backlog[r][i]
          \/ i = Len(backlog[d]) + 1 /\ backlog'[r][i] = p
      BY <1>longer
    <3>4. \/ j \in 1..Len(backlog[r]) /\ backlog'[r][j] = backlog[r][j]
          \/ j = Len(backlog[d]) + 1 /\ backlog'[r][j] = p
      BY <1>longer
    <3>5. QED
      BY <2>3, <3>1, <3>2, <3>3, <3>4
  <2>4. ASSUME NEW r \in Peers, NEW i \in 1..Len(backlog'[r])
        PROVE  Reads(backlog[r][i], r)'
    <3>1. backlog'[r][i] \in Peers
      BY <1>10, ElementOfSeq
    <3>2. QED
      BY <2>2, <3>1
  <2>5. QED
    BY <2>3, <2>4 DEF Queued, Reads
<1>20. Served'
  <2>1. ASSUME NEW r \in Peers, NEW k \in Kids, kid[r][k] # None
        PROVE  /\ Reads(kid[r][k].client, r)'
               /\ \A j \in Kids : kid[r][j] # None /\ kid[r][j].client = kid[r][k].client => j = k
               /\ \A i \in 1..Len(backlog'[r]) : backlog'[r][i] # kid[r][k].client
    <3>1. /\ Reads(kid[r][k].client, r)
          /\ \A j \in Kids : kid[r][j] # None /\ kid[r][j].client = kid[r][k].client => j = k
          /\ \A i \in 1..Len(backlog[r]) : backlog[r][i] # kid[r][k].client
      BY <2>1 DEF Inv, Links, Served
    <3>2. kid[r][k].client \in Peers /\ kid[r][k].client # p
      BY <1>16, <2>1, <3>1, InvTypes DEF Child
    <3>3. \A i \in 1..Len(backlog'[r]) : backlog'[r][i] # kid[r][k].client
      BY <1>longer, <3>1, <3>2
    <3>4. Reads(kid[r][k].client, r)'
      BY <1>15, <1>17, <3>1, <3>2 DEF Reads
    <3>5. QED
      BY <3>1, <3>3, <3>4
  <2>2. QED
    BY <1>15, <2>1 DEF Served, Reads
<1>21. Attended'
  <2>1. ASSUME NEW q \in Peers, main'[q].at = "download"
        PROVE  /\ conn'[q] \in Connection
               /\ conn'[q].open =>
                     \/ \E i \in 1..Len(backlog'[conn'[q].to]) : backlog'[conn'[q].to][i] = q
                     \/ \E k \in Kids : kid[conn'[q].to][k] # None /\ kid[conn'[q].to][k].client = q
    <3>1. CASE q = p
      <4>1. Len(backlog[d]) + 1 \in 1..Len(backlog'[d]) /\ backlog'[d][Len(backlog[d]) + 1] = p
        BY <1>9, <1>10
      <4>2. QED
        BY <1>5, <1>8, <3>1, <4>1
    <3>2. CASE q # p
      <4>1. conn'[q] = conn[q] /\ main[q].at = "download"
        BY <1>8, <1>13, <2>1, <3>2
      <4>2. /\ conn[q] \in Connection
            /\ conn[q].open =>
                  \/ \E i \in 1..Len(backlog[conn[q].to]) : backlog[conn[q].to][i] = q
                  \/ \E k \in Kids : kid[conn[q].to][k] # None /\ kid[conn[q].to][k].client = q
        BY <4>1 DEF Inv, Links, Attended
      <4>3. conn[q].to \in Peers
        BY <4>2 DEF Connection
      <4>4. \A i \in 1..Len(backlog[conn[q].to]) :
               i \in 1..Len(backlog'[conn[q].to]) /\ backlog'[conn[q].to][i] = backlog[conn[q].to][i]
        BY <1>longer, <4>3
      <4>5. QED
        BY <4>1, <4>2, <4>4
    <3>3. QED
      BY <3>1, <3>2
  <2>2. QED
    BY <1>15, <2>1 DEF Attended
<1>22. Left'
  <2>1. ASSUME NEW r \in Peers, ~ Listens(r)' PROVE backlog'[r] = <<>>
    BY <1>2, <1>10, <1>12, <1>13, <2>1 DEF Listens, Inv, Links, Left
  <2>2. QED
    BY <2>1 DEF Left, Listens
<1>23. QED
    BY <1>8, <1>10, <1>11, <1>13, <1>14, <1>19, <1>20, <1>21, <1>22 DEF Links

(* The end of a stream: it was closed, so nobody has it any more.          *)
LEMMA HangUpLinks ==
    ASSUME Inv, NEW p \in Peers, NEW m \in Memory, AtWork(m),
           m.at \notin {"gone", "failed", "download"},
           main[p].at = "download", ~ conn[p].open,
           main' = [main EXCEPT ![p] = m], conn' = [conn EXCEPT ![p] = None],
           UNCHANGED <<kid, backlog>>
    PROVE  /\ main' \in [Peers -> Memory]
           /\ conn' \in [Peers -> Connection \cup {None}]
           /\ Working'
           /\ Links'
<1>1. /\ main \in [Peers -> Memory]
      /\ conn \in [Peers -> Connection \cup {None}]
      /\ \A q \in Peers : backlog[q] \in Seq(Peers)
    BY InvTypes DEF TypeOK
<1>2. /\ main' \in [Peers -> Memory] /\ conn' \in [Peers -> Connection \cup {None}]
      /\ main'[p] = m
      /\ \A q \in Peers : q # p => main'[q] = main[q] /\ conn'[q] = conn[q]
    BY <1>1
<1>3. Working'
  <2>1. \A q \in Peers : AtWork(main'[q])
    BY <1>2 DEF Inv, Working
  <2>2. QED
    BY <2>1 DEF Working, AtWork
<1>4. \A q \in Peers, r \in Peers : Reads(q, r) => q # p /\ Reads(q, r)'
    BY <1>2 DEF Reads
<1>5. Queued'
  <2>1. \A q \in Peers : \A i \in 1..Len(backlog[q]) : backlog[q][i] \in Peers
    BY <1>1, ElementOfSeq
  <2>2. QED
    BY <1>4, <2>1 DEF Inv, Links, Queued, Reads
<1>6. Served'
  <2>1. \A q \in Peers : \A k \in Kids : kid[q][k] # None => kid[q][k].client \in Peers
    BY InvTypes DEF Child
  <2>2. QED
    BY <1>4, <2>1 DEF Inv, Links, Served, Reads
<1>7. Attended'
  <2>1. ASSUME NEW q \in Peers, main'[q].at = "download" PROVE q # p
    BY <1>2, <2>1
  <2>2. QED
    BY <1>2, <2>1 DEF Inv, Links, Attended
<1>8. Left'
    BY <1>2 DEF Inv, Links, Left, Listens
<1>9. QED
    BY <1>2, <1>3, <1>5, <1>6, <1>7, <1>8 DEF Links

(* accept() takes the oldest client out of the queue, for a new child.     *)
LEMMA AcceptLinks ==
    ASSUME Inv, NEW p \in Peers, NEW k \in Kids, Accept(p, k)
    PROVE  /\ main' \in [Peers -> Memory]
           /\ kid' \in [Peers -> [Kids -> Child \cup {None}]]
           /\ backlog' \in [Peers -> Seq(Peers)]
           /\ Working'
           /\ Links'
<1> DEFINE q0 == Head(backlog[p])
           c == [client |-> q0, name |-> main[p].name, content |-> None]
<1>1. /\ main \in [Peers -> Memory]
      /\ kid \in [Peers -> [Kids -> Child \cup {None}]]
      /\ backlog \in [Peers -> Seq(Peers)]
    BY InvTypes DEF TypeOK
<1>2. backlog[p] \in Seq(Peers) /\ backlog[p] # <<>> /\ kid[p][k] = None
    BY <1>1 DEF Accept
<1>3. PICK n \in Nat : n = Len(backlog[p])
    BY <1>2, LenProperties
<1>4. /\ q0 \in Peers /\ q0 = backlog[p][1] /\ n > 0
      /\ Tail(backlog[p]) \in Seq(Peers) /\ Len(Tail(backlog[p])) = n - 1
      /\ \A i \in 1..(n - 1) : Tail(backlog[p])[i] = backlog[p][i + 1]
    BY <1>2, <1>3, HeadTailProperties
<1>5. c \in Child /\ c # None /\ c.client = q0
  <2>1. main[p].name \in Names
    BY <1>1 DEF Memory
  <2>2. c \in Child /\ c.client = q0
    BY <1>4, <2>1 DEF Child
  <2>3. QED
    BY <2>2, NoneAssumption
<1>6. /\ kid' = [kid EXCEPT ![p] = [kid[p] EXCEPT ![k] = c]]
      /\ backlog' = [backlog EXCEPT ![p] = Tail(backlog[p])]
      /\ UNCHANGED conn
    BY DEF Accept
<1> HIDE DEF c, q0
<1>7. /\ kid' \in [Peers -> [Kids -> Child \cup {None}]]
      /\ kid'[p][k] = c
      /\ \A j \in Kids : j # k => kid'[p][j] = kid[p][j]
      /\ \A r \in Peers : r # p => kid'[r] = kid[r]
    BY <1>1, <1>5, <1>6
<1>8. /\ backlog' \in [Peers -> Seq(Peers)]
      /\ backlog'[p] = Tail(backlog[p])
      /\ \A r \in Peers : r # p => backlog'[r] = backlog[r]
    BY <1>1, <1>4, <1>6
<1>shift. /\ Len(backlog'[p]) = n - 1
         /\ \A i \in 1..(n - 1) : i + 1 \in 1..n /\ backlog'[p][i] = backlog[p][i + 1]
  <2>1. backlog'[p] = Tail(backlog[p])
    BY <1>8
  <2>2. Len(backlog'[p]) = n - 1
    BY <1>4, <2>1
  <2>3. ASSUME NEW i \in 1..(n - 1)
        PROVE  i + 1 \in 1..n /\ backlog'[p][i] = backlog[p][i + 1]
    <3>1. i + 1 \in 1..n
      OBVIOUS
    <3>2. Tail(backlog[p])[i] = backlog[p][i + 1]
      BY <1>4
    <3>3. QED
      BY <2>1, <3>1, <3>2
  <2>4. QED
    BY <2>2, <2>3
<1>9. PICK m \in Memory : /\ AtWork(m) /\ m.at \in {"menu", "accept"}
                          /\ main' = [main EXCEPT ![p] = m]
  <2>1. main[p] \in Memory
    BY <1>1
  <2>2. [main[p] EXCEPT !.at = "menu"] \in Memory /\ [main[p] EXCEPT !.at = "menu"].at = "menu"
    BY <2>1 DEF Memory, Places
  <2>3. AtWork([main[p] EXCEPT !.at = "menu"])
    BY <2>2 DEF AtWork
  <2>4. CASE main[p].at = "await"
    <3>1. main' = [main EXCEPT ![p] = Done(main[p])]
      BY <2>4 DEF Accept
    <3>2. QED
      BY <2>1, <3>1, DoneMemory
  <2>5. CASE main[p].at # "await"
    <3>1. main' = [main EXCEPT ![p] = [main[p] EXCEPT !.at = "menu"]]
      BY <2>5 DEF Accept
    <3>2. QED
      BY <2>2, <2>3, <3>1
  <2>6. QED
    BY <2>4, <2>5
<1>10. /\ main' \in [Peers -> Memory] /\ main'[p] = m
       /\ \A r \in Peers : r # p => main'[r] = main[r]
    BY <1>1, <1>9
<1>11. Working'
  <2>1. \A r \in Peers : AtWork(main'[r])
    BY <1>9, <1>10 DEF Inv, Working
  <2>2. QED
    BY <2>1 DEF Working, AtWork
<1>12. main[p].at # "download" /\ Listens(p)
    BY DEF Accept, Listens
<1>13. \A r \in Peers : main'[r].at = "download" <=> main[r].at = "download"
    BY <1>9, <1>10, <1>12
<1>14. \A q \in Peers, r \in Peers : Reads(q, r) => Reads(q, r)'
    BY <1>6, <1>13 DEF Reads
(* The queue of p loses its first client, and no two were the same.        *)
<1>15. /\ \A i \in 1..n : backlog[p][i] \in Peers /\ Reads(backlog[p][i], p)
       /\ \A i, j \in 1..n : backlog[p][i] = backlog[p][j] => i = j
    BY <1>2, <1>3, ElementOfSeq DEF Inv, Links, Queued
<1>16. Queued'
  <2>1. ASSUME NEW r \in Peers
        PROVE  /\ \A i \in 1..Len(backlog'[r]) : Reads(backlog[r][i], r)'
               /\ \A i, j \in 1..Len(backlog'[r]) : backlog'[r][i] = backlog'[r][j] => i = j
    <3>1. CASE r # p
      <4>1. \A i \in 1..Len(backlog[r]) : backlog[r][i] \in Peers
        BY <1>1, ElementOfSeq
      <4>2. ASSUME NEW i \in 1..Len(backlog[r]) PROVE Reads(backlog[r][i], r)'
        <5>1. PICK q \in Peers : q = backlog[r][i] /\ Reads(q, r)
          BY <4>1 DEF Inv, Links, Queued
        <5>2. Reads(q, r)' /\ backlog'[r][i] = q
          BY <1>8, <1>14, <3>1, <5>1
        <5>3. QED
          BY <5>2 DEF Reads
      <4>3. \A i, j \in 1..Len(backlog[r]) : backlog[r][i] = backlog[r][j] => i = j
        BY DEF Inv, Links, Queued
      <4>4. QED
        BY <1>8, <3>1, <4>2, <4>3
    <3>2. CASE r = p
      <4>1. \A i \in 1..(n - 1) : i + 1 \in 1..n /\ backlog'[p][i] = backlog[p][i + 1]
        BY <1>shift
      <4>2. Len(backlog'[p]) = n - 1
        BY <1>shift
      <4>3. ASSUME NEW i \in 1..(n - 1) PROVE Reads(backlog[p][i], p)'
        <5>1. backlog[p][i + 1] \in Peers /\ Reads(backlog[p][i + 1], p)
          BY <1>15, <4>1
        <5>2. \A q \in Peers : q = backlog[p][i + 1] => Reads(q, p)'
          BY <1>14, <5>1
        <5>3. QED
          BY <4>1, <5>1, <5>2 DEF Reads
      <4>4. \A i, j \in 1..(n - 1) : backlog'[p][i] = backlog'[p][j] => i + 1 = j + 1
        BY <1>15, <4>1
      <4>5. QED
        BY <3>2, <4>2, <4>3, <4>4
    <3>3. QED
      BY <3>1, <3>2
  <2>2. QED
    BY <2>1 DEF Queued, Reads
<1>17. Served'
  <2>1. ASSUME NEW r \in Peers, NEW j \in Kids, kid[r][j] # None
        PROVE  /\ kid[r][j].client \in Peers
               /\ Reads(kid[r][j].client, r)
               /\ \A x \in Kids : kid[r][x] # None /\ kid[r][x].client = kid[r][j].client => x = j
               /\ \A i \in 1..Len(backlog[r]) : backlog[r][i] # kid[r][j].client
    BY <2>1, InvTypes DEF Child, Inv, Links, Served
  <2>2. ASSUME NEW r \in Peers, NEW i \in 1..Len(backlog'[r])
        PROVE  \E x \in 1..Len(backlog[r]) : backlog'[r][i] = backlog[r][x]
    <3>1. CASE r = p
      <4>1. i \in 1..(n - 1)
        BY <1>shift, <3>1
      <4>2. i + 1 \in 1..Len(backlog[r]) /\ backlog'[r][i] = backlog[r][i + 1]
        BY <1>3, <1>shift, <3>1, <4>1
      <4>3. QED
        BY <4>2
    <3>2. CASE r # p
      BY <1>8, <3>2
    <3>3. QED
      BY <3>1, <3>2
  <2>3. ASSUME NEW r \in Peers, NEW j \in Kids, kid'[r][j] # None
        PROVE  /\ \A q \in Peers : q = kid'[r][j].client => Reads(q, r)'
               /\ kid'[r][j].client \in Peers
               /\ \A x \in Kids : kid'[r][x] # None /\ kid'[r][x].client = kid'[r][j].client => x = j
               /\ \A i \in 1..Len(backlog'[r]) : backlog'[r][i] # kid'[r][j].client
    <3>1. CASE r # p
      <4>1. kid'[r] = kid[r] /\ backlog'[r] = backlog[r] /\ kid[r][j] # None
        BY <1>7, <1>8, <2>3, <3>1
      <4>2. \A q \in Peers : q = kid[r][j].client => Reads(q, r)'
        BY <1>14, <2>1, <4>1
      <4>3. \A x \in Kids : kid[r][x] # None /\ kid[r][x].client = kid[r][j].client => x = j
        BY <2>1, <4>1
      <4>4. QED
        BY <2>1, <4>1, <4>2, <4>3
    <3>2. CASE r = p /\ j # k
      <4>1. kid'[r][j] = kid[p][j] /\ kid[p][j] # None
        BY <1>7, <2>3, <3>2
      <4>2. kid[p][j].client # q0
        BY <1>3, <1>4, <2>1, <4>1
      <4>3. \A x \in Kids : kid'[p][x] # None /\ kid'[p][x].client = kid[p][j].client => x = j
        BY <1>5, <1>7, <2>1, <4>1, <4>2
      <4>4. \A i \in 1..Len(backlog'[p]) : backlog'[p][i] # kid[p][j].client
        BY <2>1, <2>2, <4>1
      <4>5. QED
        BY <1>14, <2>1, <3>2, <4>1, <4>3, <4>4
    <3>3. CASE r = p /\ j = k
      <4>1. kid'[r][j] = c
        BY <1>7, <3>3
      <4>2. Reads(q0, p)
        BY <1>4, <1>15
      <4>3. \A x \in Kids : x # k /\ kid[p][x] # None => kid[p][x].client # q0
        BY <1>3, <1>4, <2>1
      <4>4. ASSUME NEW i \in 1..Len(backlog'[p]) PROVE backlog'[p][i] # q0
        <5>1. i \in 1..(n - 1) /\ i + 1 \in 1..n /\ 1 \in 1..n /\ backlog'[p][i] = backlog[p][i + 1]
          BY <1>4, <1>shift
        <5>2. i + 1 # 1
          BY <5>1
        <5>3. QED
          BY <1>4, <1>15, <5>1, <5>2
      <4>5. QED
        BY <1>4, <1>5, <1>7, <1>14, <3>3, <4>1, <4>2, <4>3, <4>4
    <3>4. QED
      BY <3>1, <3>2, <3>3
  <2>4. QED
    BY <2>3 DEF Served, Reads
<1>18. Attended'
  <2>1. ASSUME NEW q \in Peers, main[q].at = "download", conn[q].open
        PROVE  \/ \E i \in 1..Len(backlog'[conn[q].to]) : backlog'[conn[q].to][i] = q
               \/ \E j \in Kids : kid'[conn[q].to][j] # None /\ kid'[conn[q].to][j].client = q
    <3>1. conn[q].to \in Peers
      BY <2>1 DEF Inv, Links, Attended, Connection
    <3>2. CASE conn[q].to # p
      <4>1. \/ \E i \in 1..Len(backlog[conn[q].to]) : backlog[conn[q].to][i] = q
            \/ \E j \in Kids : kid[conn[q].to][j] # None /\ kid[conn[q].to][j].client = q
        BY <2>1 DEF Inv, Links, Attended
      <4>2. backlog'[conn[q].to] = backlog[conn[q].to] /\ kid'[conn[q].to] = kid[conn[q].to]
        BY <1>7, <1>8, <3>1, <3>2
      <4>3. QED
        BY <4>1, <4>2
    <3>3. CASE conn[q].to = p /\ \E j \in Kids : kid[p][j] # None /\ kid[p][j].client = q
      BY <1>2, <1>7, <3>3
    <3>4. CASE conn[q].to = p /\ \E i \in 1..n : backlog[p][i] = q
      <4>1. PICK i \in 1..n : backlog[p][i] = q
        BY <3>4
      <4>2. CASE i = 1
        BY <1>4, <1>5, <1>7, <3>4, <4>1, <4>2
      <4>3. CASE i # 1
        <5>1. i - 1 \in 1..(n - 1) /\ (i - 1) + 1 = i
          BY <4>3
        <5>2. i - 1 \in 1..Len(backlog'[p]) /\ backlog'[p][i - 1] = q
          BY <1>shift, <4>1, <5>1
        <5>3. QED
          BY <3>4, <5>2
      <4>4. QED
        BY <4>2, <4>3
    <3>5. QED
      BY <1>3, <2>1, <3>2, <3>3, <3>4 DEF Inv, Links, Attended
  <2>2. QED
    BY <1>6, <1>13, <2>1 DEF Inv, Links, Attended
<1>19. Left'
  <2>1. ASSUME NEW r \in Peers, ~ Listens(r)' PROVE backlog'[r] = <<>>
    BY <1>8, <1>9, <1>10, <2>1 DEF Listens, Inv, Links, Left
  <2>2. QED
    BY <2>1 DEF Left, Listens
<1>20. QED
    BY <1>7, <1>8, <1>10, <1>11, <1>16, <1>17, <1>18, <1>19 DEF Links

(* A child that closes its connection was the only one to have it.         *)
LEMMA CloseLinks ==
    ASSUME Inv, NEW p \in Peers, NEW k \in Kids, kid[p][k] # None,
           NEW d \in Connection, ~ d.open,
           conn' = [conn EXCEPT ![kid[p][k].client] = d],
           kid' = [kid EXCEPT ![p][k] = None], UNCHANGED <<main, backlog>>
    PROVE  /\ conn' \in [Peers -> Connection \cup {None}]
           /\ kid' \in [Peers -> [Kids -> Child \cup {None}]]
           /\ Working'
           /\ Links'
<1>1. /\ conn \in [Peers -> Connection \cup {None}]
      /\ kid \in [Peers -> [Kids -> Child \cup {None}]]
      /\ \A r \in Peers : backlog[r] \in Seq(Peers)
    BY InvTypes DEF TypeOK
<1>2. PICK q0 \in Peers : q0 = kid[p][k].client
    BY <1>1 DEF Child
<1>3. /\ conn' \in [Peers -> Connection \cup {None}]
      /\ conn'[q0] = d
      /\ \A q \in Peers : q # q0 => conn'[q] = conn[q]
    BY <1>1, <1>2
<1>4. /\ kid' \in [Peers -> [Kids -> Child \cup {None}]]
      /\ kid'[p][k] = None
      /\ \A r \in Peers, j \in Kids : r # p \/ j # k => kid'[r][j] = kid[r][j]
  <2>1. kid' = [kid EXCEPT ![p] = [kid[p] EXCEPT ![k] = None]]
    OBVIOUS
  <2>2. QED
    BY <1>1, <2>1
<1>5. Reads(q0, p)
    BY <1>2 DEF Inv, Links, Served
<1>6. \A q \in Peers, r \in Peers : Reads(q, r) /\ q # q0 => Reads(q, r)'
    BY <1>3 DEF Reads
<1>7. Working'
    BY DEF Inv, Working, AtWork
<1>8. Queued'
  <2>1. ASSUME NEW r \in Peers, NEW i \in 1..Len(backlog[r])
        PROVE  Reads(backlog[r][i], r)'
    <3>1. PICK q \in Peers : q = backlog[r][i] /\ Reads(q, r)
      BY <1>1, ElementOfSeq DEF Inv, Links, Queued
    <3>2. CASE r = p
      <4>1. q # q0
        BY <1>2, <3>1, <3>2 DEF Inv, Links, Served
      <4>2. QED
        BY <1>6, <3>1, <4>1 DEF Reads
    <3>3. CASE r # p
      <4>1. q # q0
        BY <1>5, <3>1, <3>3 DEF Reads
      <4>2. QED
        BY <1>6, <3>1, <4>1 DEF Reads
    <3>4. QED
      BY <3>2, <3>3
  <2>2. QED
    BY <2>1 DEF Queued, Reads, Inv, Links
<1>9. Served'
  <2>1. ASSUME NEW r \in Peers, NEW j \in Kids, kid'[r][j] # None
        PROVE  /\ Reads(kid[r][j].client, r)' /\ kid'[r][j] = kid[r][j]
               /\ \A x \in Kids : kid'[r][x] # None /\ kid'[r][x].client = kid'[r][j].client => x = j
               /\ \A i \in 1..Len(backlog[r]) : backlog[r][i] # kid'[r][j].client
    <3>1. /\ kid'[r][j] = kid[r][j] /\ kid[r][j] # None
          /\ r = p => j # k
      BY <1>4, <2>1
    <3>2. PICK q \in Peers : q = kid[r][j].client /\ Reads(q, r)
      BY <1>1, <3>1 DEF Child, Inv, Links, Served
    <3>3. /\ \A x \in Kids : kid[r][x] # None /\ kid[r][x].client = kid[r][j].client => x = j
          /\ \A i \in 1..Len(backlog[r]) : backlog[r][i] # kid[r][j].client
      BY <3>1 DEF Inv, Links, Served
    <3>4. q # q0
      <4>1. CASE r = p
        BY <1>2, <3>1, <3>2, <3>3, <4>1
      <4>2. CASE r # p
        BY <1>5, <3>2, <4>2 DEF Reads
      <4>3. QED
        BY <4>1, <4>2
    <3>5. Reads(q, r)'
      BY <1>6, <3>2, <3>4
    <3>6. \A x \in Kids : kid'[r][x] # None => kid'[r][x] = kid[r][x]
      BY <1>4
    <3>7. QED
      BY <3>1, <3>2, <3>3, <3>5, <3>6 DEF Reads
  <2>2. QED
    BY <2>1 DEF Served, Reads
<1>10. Attended'
  <2>1. ASSUME NEW q \in Peers, main[q].at = "download"
        PROVE  /\ conn'[q] \in Connection
               /\ conn'[q].open =>
                     \/ \E i \in 1..Len(backlog[conn'[q].to]) : backlog[conn'[q].to][i] = q
                     \/ \E j \in Kids : kid'[conn'[q].to][j] # None /\ kid'[conn'[q].to][j].client = q
    <3>1. CASE q = q0
      BY <1>3, <3>1
    <3>2. CASE q # q0
      <4>1. /\ conn'[q] = conn[q] /\ conn[q] \in Connection
            /\ conn[q].open =>
                  \/ \E i \in 1..Len(backlog[conn[q].to]) : backlog[conn[q].to][i] = q
                  \/ \E j \in Kids : kid[conn[q].to][j] # None /\ kid[conn[q].to][j].client = q
        BY <1>3, <2>1, <3>2 DEF Inv, Links, Attended
      <4>2. conn[q].to \in Peers
        BY <4>1 DEF Connection
      <4>3. \A j \in Kids : kid[conn[q].to][j].client = q => kid'[conn[q].to][j] = kid[conn[q].to][j]
        BY <1>2, <1>4, <3>2, <4>2
      <4>4. QED
        BY <4>1, <4>2, <4>3
    <3>3. QED
      BY <3>1, <3>2
  <2>2. QED
    BY <2>1 DEF Attended
<1>11. Left'
    BY DEF Inv, Links, Left, Listens
<1>12. QED
    BY <1>3, <1>4, <1>7, <1>8, <1>9, <1>10, <1>11 DEF Links

(* A child that sends goes on serving the same stream.                     *)
LEMMA SendLinks ==
    ASSUME Inv, NEW p \in Peers, NEW k \in Kids, kid[p][k] # None,
           NEW g \in Stream, NEW c \in Contents,
           conn' = [conn EXCEPT ![kid[p][k].client].got = g],
           kid' = [kid EXCEPT ![p][k].content = c], UNCHANGED <<main, backlog>>
    PROVE  /\ conn' \in [Peers -> Connection \cup {None}]
           /\ kid' \in [Peers -> [Kids -> Child \cup {None}]]
           /\ kid'[p][k] # None /\ kid'[p][k].content = c
           /\ \A r \in Peers, j \in Kids : r # p \/ j # k => kid'[r][j] = kid[r][j]
           /\ Working'
           /\ Links'
<1> DEFINE n == [kid[p][k] EXCEPT !.content = c]
<1>1. /\ conn \in [Peers -> Connection \cup {None}]
      /\ kid \in [Peers -> [Kids -> Child \cup {None}]]
      /\ \A r \in Peers : backlog[r] \in Seq(Peers)
    BY InvTypes DEF TypeOK
<1>2. kid[p][k] \in Child
    BY <1>1
<1>3. PICK q0 \in Peers : q0 = kid[p][k].client
    BY <1>2 DEF Child
<1>4. n \in Child /\ n.client = q0 /\ n.content = c
    BY <1>2, <1>3 DEF Child
<1>5. n # None
    BY <1>4, NoneAssumption
<1>6. kid' = [kid EXCEPT ![p] = [kid[p] EXCEPT ![k] = n]]
    OBVIOUS
<1> HIDE DEF n
<1>7. /\ kid' \in [Peers -> [Kids -> Child \cup {None}]]
      /\ kid'[p][k] = n
      /\ \A r \in Peers, j \in Kids : r # p \/ j # k => kid'[r][j] = kid[r][j]
  <2>1. kid[p] \in [Kids -> Child \cup {None}] /\ n \in Child \cup {None}
    BY <1>1, <1>4
  <2>2. PICK row : row = [kid[p] EXCEPT ![k] = n]
    OBVIOUS
  <2>3. row \in [Kids -> Child \cup {None}] /\ row[k] = n /\ \A j \in Kids : j # k => row[j] = kid[p][j]
    BY <2>1, <2>2
  <2>4. kid' = [kid EXCEPT ![p] = row]
    BY <1>6, <2>2
  <2>5. QED
    BY <1>1, <2>3, <2>4
<1>8. /\ conn[q0] \in Connection /\ Reads(q0, p)
    BY <1>3 DEF Inv, Links, Served, Reads
<1>9. /\ [conn[q0] EXCEPT !.got = g] \in Connection
      /\ [conn[q0] EXCEPT !.got = g].to = conn[q0].to
      /\ [conn[q0] EXCEPT !.got = g].open = conn[q0].open
    BY <1>8 DEF Connection
<1>10. conn' = [conn EXCEPT ![q0] = [conn[q0] EXCEPT !.got = g]]
    BY <1>3
<1>11. /\ conn' \in [Peers -> Connection \cup {None}]
       /\ \A q \in Peers : conn[q] \in Connection =>
             /\ conn'[q] \in Connection
             /\ conn'[q].to = conn[q].to
             /\ conn'[q].open = conn[q].open
    BY <1>1, <1>9, <1>10
<1>12. \A q \in Peers, r \in Peers : Reads(q, r) => Reads(q, r)'
    BY <1>11 DEF Reads
<1>13. /\ \A r \in Peers, j \in Kids : kid'[r][j] # None <=> kid[r][j] # None
       /\ \A r \in Peers, j \in Kids : kid[r][j] # None => kid'[r][j].client = kid[r][j].client
  <2>1. ASSUME NEW r \in Peers, NEW j \in Kids
        PROVE  /\ kid'[r][j] # None <=> kid[r][j] # None
               /\ kid[r][j] # None => kid'[r][j].client = kid[r][j].client
    <3>1. CASE r = p /\ j = k
      BY <1>3, <1>4, <1>5, <1>7, <3>1
    <3>2. CASE r # p \/ j # k
      BY <1>7, <3>2
    <3>3. QED
      BY <3>1, <3>2
  <2>2. QED
    BY <2>1
<1>14. Working'
    BY DEF Inv, Working, AtWork
<1>15. Queued'
  <2>1. ASSUME NEW r \in Peers, NEW i \in 1..Len(backlog[r])
        PROVE  Reads(backlog[r][i], r)'
    <3>1. PICK q \in Peers : q = backlog[r][i] /\ Reads(q, r)
      BY <1>1, ElementOfSeq DEF Inv, Links, Queued
    <3>2. QED
      BY <1>12, <3>1 DEF Reads
  <2>2. QED
    BY <2>1 DEF Queued, Reads, Inv, Links
<1>16. Served'
  <2>1. ASSUME NEW r \in Peers, NEW j \in Kids, kid'[r][j] # None
        PROVE  /\ Reads(kid[r][j].client, r)'
               /\ \A x \in Kids : kid'[r][x] # None /\ kid'[r][x].client = kid'[r][j].client => x = j
               /\ \A i \in 1..Len(backlog'[r]) : backlog'[r][i] # kid'[r][j].client
    <3>1. kid[r][j] # None /\ kid'[r][j].client = kid[r][j].client
      BY <1>13, <2>1
    <3>2. /\ \A x \in Kids : kid[r][x] # None /\ kid[r][x].client = kid[r][j].client => x = j
          /\ \A i \in 1..Len(backlog[r]) : backlog[r][i] # kid[r][j].client
      BY <3>1 DEF Inv, Links, Served
    <3>3. PICK q \in Peers : q = kid[r][j].client /\ Reads(q, r)
      BY <1>1, <3>1 DEF Child, Inv, Links, Served
    <3>4. Reads(q, r)'
      BY <1>12, <3>3
    <3>5. \A x \in Kids : kid'[r][x] # None => kid[r][x] # None /\ kid'[r][x].client = kid[r][x].client
      BY <1>13
    <3>6. QED
      BY <3>1, <3>2, <3>3, <3>4, <3>5 DEF Reads
  <2>2. QED
    BY <2>1, Zenon DEF Served, Reads
<1>17. Attended'
  <2>1. ASSUME NEW q \in Peers, main[q].at = "download"
        PROVE  /\ conn'[q] \in Connection
               /\ conn'[q].open =>
                     \/ \E i \in 1..Len(backlog[conn'[q].to]) : backlog[conn'[q].to][i] = q
                     \/ \E j \in Kids : kid'[conn'[q].to][j] # None /\ kid'[conn'[q].to][j].client = q
    <3>1. /\ conn[q] \in Connection /\ conn[q].to \in Peers
          /\ conn[q].open =>
                \/ \E i \in 1..Len(backlog[conn[q].to]) : backlog[conn[q].to][i] = q
                \/ \E j \in Kids : kid[conn[q].to][j] # None /\ kid[conn[q].to][j].client = q
      BY <2>1 DEF Inv, Links, Attended, Connection
    <3>2. conn'[q] \in Connection /\ conn'[q].to = conn[q].to /\ conn'[q].open = conn[q].open
      BY <1>11, <3>1
    <3>3. \A j \in Kids : kid[conn[q].to][j] # None =>
             kid'[conn[q].to][j] # None /\ kid'[conn[q].to][j].client = kid[conn[q].to][j].client
      BY <1>13, <3>1
    <3>4. QED
      BY <3>1, <3>2, <3>3
  <2>2. QED
    BY <2>1 DEF Attended
<1>18. Left'
    BY DEF Inv, Links, Left, Listens
<1>19. QED
    BY <1>4, <1>5, <1>7, <1>11, <1>14, <1>15, <1>16, <1>17, <1>18 DEF Links
-----------------------------------------------------------------------------
(* What a process of a peer does at its UDP socket is a turn of a client   *)
(* in the server's specification.                                          *)
LEMMA SameClient ==
    ASSUME NEW p \in Peers, ClientTurn(p), UNCHANGED index
    PROVE  Server!Next
<1>1. Server!ClientTurn(p)
    BY Zenon DEF ClientTurn, Send, Receive, Request, AnyName, NoName, Taken, Duplicate,
       Server!ClientTurn, Server!Send, Server!Receive, Server!Request, Server!AnyName,
       Server!NoName, Server!Taken, Server!Duplicate
<1>2. QED
    BY <1>1 DEF Server!Next, Server!Environment

LEMMA SameLoss ==
    ASSUME Lose, UNCHANGED index
    PROVE  Server!Next
<1>1. Server!Lose
    BY Zenon DEF Lose, DropAt, Server!Lose, Server!DropAt
<1>2. QED
    BY <1>1 DEF Server!Next, Server!Environment

(* What is left in a socket has been there before. *)
LEMMA ReceiveKeepsAnswers ==
    ASSUME Inv, NEW p \in Peers, Receive(p)
    PROVE  /\ SearchAnswers'
           /\ Head(outbox[p]) \in Reply
           /\ Head(outbox[p]).type = "S" => Head(outbox[p]).content \in Contents
<1>1. outbox \in [Peers -> Seq(Reply)]
    BY InvTypes DEF ChannelsTypeOK
<1>2. outbox[p] \in Seq(Reply) /\ outbox[p] # <<>>
    BY <1>1 DEF Receive
<1>3. PICK n \in Nat : n = Len(outbox[p])
    BY <1>2, LenProperties
<1>4. /\ Head(outbox[p]) \in Reply /\ Head(outbox[p]) = outbox[p][1] /\ 1 \in 1..n
      /\ Len(Tail(outbox[p])) = n - 1
      /\ \A i \in 1..(n - 1) : i + 1 \in 1..n /\ Tail(outbox[p])[i] = outbox[p][i + 1]
    BY <1>2, <1>3, HeadTailProperties
<1>5. outbox'[p] = Tail(outbox[p]) /\ \A q \in Peers : q # p => outbox'[q] = outbox[q]
    BY <1>1 DEF Receive
<1>6. \A i \in 1..n : outbox[p][i].type = "S" => outbox[p][i].content \in Contents
    BY <1>3 DEF Inv, SearchAnswers
<1>7. ASSUME NEW q \in Peers, NEW i \in 1..Len(outbox'[q]), outbox'[q][i].type = "S"
      PROVE  outbox'[q][i].content \in Contents
  <2>1. CASE q = p
    <3>1. i \in 1..(n - 1) /\ outbox'[q][i] = outbox[p][i + 1]
      BY <1>4, <1>5, <2>1
    <3>2. i + 1 \in 1..n
      BY <1>4, <3>1
    <3>3. QED
      BY <1>6, <1>7, <3>1, <3>2
  <2>2. CASE q # p
    BY <1>5, <1>7, <2>2 DEF Inv, SearchAnswers
  <2>3. QED
    BY <2>1, <2>2
<1>8. SearchAnswers'
    BY <1>7 DEF SearchAnswers
<1>9. QED
    BY <1>4, <1>6, <1>8

(* What a step that sends r, or nothing, does to the channels. *)
Sends(p) ==
    /\ UNCHANGED <<outbox, index>>
    /\ \E r \in Request : r.from = p /\ Send(r)

LEMMA SendsKeeps ==
    ASSUME Inv, NEW p \in Peers, Sends(p)
    PROVE  [Server!Next]_server /\ SearchAnswers'
<1>1. ClientTurn(p) /\ UNCHANGED index
    BY DEF ClientTurn, Sends
<1>2. SearchAnswers'
    BY DEF Inv, SearchAnswers, Sends
<1>3. QED
    BY <1>1, <1>2, SameClient

LEMMA ReceivesKeeps ==
    ASSUME Inv, NEW p \in Peers, Receive(p), UNCHANGED index,
           \/ UNCHANGED inbox
           \/ \E r \in Request : r.from = p /\ Send(r)
    PROVE  [Server!Next]_server /\ SearchAnswers'
<1>1. ClientTurn(p)
    BY DEF ClientTurn
<1>2. QED
    BY <1>1, SameClient, ReceiveKeepsAnswers

LEMMA PduTypes ==
    /\ \A p \in Peers, n \in Names, c \in Contents, t \in {"R", "S", "Y", "T"} :
          Pdu(t, p, n, c) \in Request /\ Pdu(t, p, n, c).from = p /\ Pdu(t, p, n, c).type = t
    /\ \A p \in Peers, n \in AnyName, c \in Contents :
          Pdu("T", p, n, c) \in Request /\ Pdu("T", p, n, c).from = p /\ Pdu("T", p, n, c).type = "T"
    /\ \A p \in Peers : Pdu("O", p, NoName, NoName) \in Request
                       /\ Pdu("O", p, NoName, NoName).from = p
BY DEF Pdu, Request, AnyName

(* The server's turn and the network's losses. *)
LEMMA LoseKeeps ==
    ASSUME Inv, Lose, UNCHANGED index
    PROVE  [Server!Next]_server /\ SearchAnswers'
<1>1. outbox \in [Peers -> Seq(Reply)]
    BY InvTypes DEF ChannelsTypeOK
<1>2. CASE UNCHANGED outbox
    BY <1>2, SameLoss DEF Inv, SearchAnswers
<1>3. CASE \E p \in Peers : \E i \in 1..Len(outbox[p]) :
              outbox' = [outbox EXCEPT ![p] = DropAt(@, i)]
  <2>1. PICK p \in Peers : \E i \in 1..Len(outbox[p]) :
              outbox' = [outbox EXCEPT ![p] = DropAt(outbox[p], i)]
    BY <1>3
  <2>2. PICK i \in 1..Len(outbox[p]) : outbox' = [outbox EXCEPT ![p] = DropAt(outbox[p], i)]
    BY <2>1
  <2>3. outbox[p] \in Seq(Reply)
    BY <1>1
  <2>4. DropAt(outbox[p], i) = Proved!DropAt(outbox[p], i)
    BY Zenon DEF DropAt, Proved!DropAt
  <2>5. /\ Len(DropAt(outbox[p], i)) = Len(outbox[p]) - 1
        /\ \A j \in 1..(Len(outbox[p]) - 1) :
              DropAt(outbox[p], i)[j] = outbox[p][IF j < i THEN j ELSE j + 1]
    <3>1. /\ Len(Proved!DropAt(outbox[p], i)) = Len(outbox[p]) - 1
          /\ \A j \in 1..(Len(outbox[p]) - 1) :
                Proved!DropAt(outbox[p], i)[j] = outbox[p][IF j < i THEN j ELSE j + 1]
      BY <2>3, MaxInboxAssumption, Proved!DropAtProperties
    <3>2. QED
      BY <2>4, <3>1
  <2>6. outbox'[p] = DropAt(outbox[p], i) /\ \A q \in Peers : q # p => outbox'[q] = outbox[q]
    BY <1>1, <2>2
  <2>7. ASSUME NEW q \in Peers, NEW j \in 1..Len(outbox'[q]), outbox'[q][j].type = "S"
        PROVE  outbox'[q][j].content \in Contents
    <3>1. CASE q = p
      <4>1. PICK x \in 1..Len(outbox[p]) : outbox'[p][j] = outbox[p][x]
        <5>1. PICK n \in Nat : n = Len(outbox[p])
          BY <2>3, LenProperties
        <5>2. j \in 1..(n - 1) /\ outbox'[p][j] = outbox[p][IF j < i THEN j ELSE j + 1]
          BY <2>5, <2>6, <3>1, <5>1
        <5>3. (IF j < i THEN j ELSE j + 1) \in 1..n
          BY <5>1, <5>2
        <5>4. QED
          BY <5>1, <5>2, <5>3
      <4>2. QED
        BY <2>7, <3>1, <4>1 DEF Inv, SearchAnswers
    <3>2. CASE q # p
      BY <2>6, <2>7, <3>2 DEF Inv, SearchAnswers
    <3>3. QED
      BY <3>1, <3>2
  <2>8. QED
    BY <2>7, SameLoss DEF SearchAnswers
<1>4. QED
    BY <1>2, <1>3 DEF Lose

(* The answers of the server to a request r, branch by branch. *)
Answers(r) ==
    \/ /\ r.type \in {"R", "S", "T"}
       /\ \E a \in Reply : /\ a.type = "S" => a.content \in Contents
                           /\ Answer(r, <<a>>)
    \/ r.type = "O" /\ Answer(r, Listing(index, r))
    \/ r.type \notin {"R", "S", "T", "O"} /\ Answer(r, <<>>)

LEMMA ReplyTypes ==
    ASSUME NEW r \in Request
    PROVE  /\ \A t \in {"A", "E", "O"} : Echo(t, r) \in Reply /\ Echo(t, r).type = t
           /\ \A n \in {Duplicate, Taken} : /\ Refusal(n, r) \in Reply
                                            /\ Refusal(n, r).type = "E"
           /\ r.type = "S" => \A d \in Peers :
                 /\ [Echo("S", r) EXCEPT !.addr = d] \in Reply
                 /\ [Echo("S", r) EXCEPT !.addr = d].content \in Contents
BY DEF Echo, Refusal, Request, Reply, AnyName

LEMMA SameEcho ==
    ASSUME NEW r, NEW t
    PROVE  Server!Echo(t, r) = Echo(t, r)
BY Zenon DEF Echo, Server!Echo

LEMMA SameRefusal ==
    ASSUME NEW r, NEW n
    PROVE  Server!Refusal(n, r) = Refusal(n, r)
BY Zenon DEF Refusal, Server!Refusal, Echo, Server!Echo, Spill, Server!Spill

LEMMA SameAnswer ==
    ASSUME NEW r, NEW ans, Server!Answer(r, ans)
    PROVE  Answer(r, ans)
BY Zenon DEF Answer, Server!Answer

LEMMA ServeAnswers ==
    ASSUME Inv, Server!Serve
    PROVE  /\ inbox # <<>> /\ Head(inbox) \in Request
           /\ Answers(Head(inbox))
<1>1. inbox \in Seq(Request) /\ index \in Seq(Entry)
    BY InvTypes DEF ChannelsTypeOK
<1>2. PICK r : /\ inbox # <<>> /\ r = Head(inbox)
               /\ Server!Register(r) \/ Server!Search(r) \/ Server!Deregister(r)
                  \/ Server!List(r) \/ Server!Ignore(r)
    BY DEF Server!Serve
<1>3. r \in Request
    BY <1>1, <1>2, HeadTailProperties
<1>4. CASE Server!Register(r)
  <2>1. r.type = "R"
    BY <1>4 DEF Server!Register
  <2>2. CASE Server!Answer(r, <<Server!Echo("A", r)>>)
    <3>1. Answer(r, <<Echo("A", r)>>)
      BY <2>2, SameEcho, SameAnswer
    <3>2. Echo("A", r) \in Reply /\ Echo("A", r).type = "A"
      BY <1>3, ReplyTypes
    <3>3. QED
      BY <1>2, <1>3, <2>1, <3>1, <3>2 DEF Answers
  <2>3. CASE \E i \in 1..Len(index) :
               Server!Answer(r, <<Server!Refusal(IF index[i].addr = r.from THEN Server!Duplicate ELSE Server!Taken, r)>>)
    <3>1. PICK n \in {Duplicate, Taken} : Server!Answer(r, <<Server!Refusal(n, r)>>)
      BY <2>3 DEF Server!Duplicate, Server!Taken, Duplicate, Taken
    <3>2. Answer(r, <<Refusal(n, r)>>)
      BY <3>1, SameRefusal, SameAnswer
    <3>3. Refusal(n, r) \in Reply /\ Refusal(n, r).type = "E"
      BY <1>3, ReplyTypes
    <3>4. PICK a : a = Refusal(n, r)
      OBVIOUS
    <3>5. QED
      BY <1>2, <1>3, <2>1, <3>2, <3>3, <3>4 DEF Answers
  <2>4. QED
    BY <1>4, <2>2, <2>3 DEF Server!Register
<1>5. CASE Server!Search(r)
  <2>1. r.type = "S"
    BY <1>5 DEF Server!Search
  <2>2. CASE Server!Answer(r, <<Server!Echo("E", r)>>)
    <3>1. Answer(r, <<Echo("E", r)>>)
      BY <2>2, SameEcho, SameAnswer
    <3>2. Echo("E", r) \in Reply /\ Echo("E", r).type = "E"
      BY <1>3, ReplyTypes
    <3>3. QED
      BY <1>2, <1>3, <2>1, <3>1, <3>2 DEF Answers
  <2>3. CASE \E i \in 1..Len(index) :
               Server!Answer(r, <<[Server!Echo("S", r) EXCEPT !.addr = index[i].addr]>>)
    <3>1. PICK d \in Peers : Server!Answer(r, <<[Server!Echo("S", r) EXCEPT !.addr = d]>>)
      <4>1. ASSUME NEW i \in 1..Len(index) PROVE index[i].addr \in Peers
        <5>1. index[i] \in Entry
          BY <1>1, ElementOfSeq
        <5>2. QED
          BY <5>1 DEF Entry
      <4>2. QED
        BY <2>3, <4>1
    <3>2. Answer(r, <<[Echo("S", r) EXCEPT !.addr = d]>>)
      BY <3>1, SameEcho, SameAnswer
    <3>3. [Echo("S", r) EXCEPT !.addr = d] \in Reply /\ [Echo("S", r) EXCEPT !.addr = d].content \in Contents
      BY <1>3, <2>1, ReplyTypes
    <3>4. PICK a : a = [Echo("S", r) EXCEPT !.addr = d]
      OBVIOUS
    <3>5. QED
      BY <1>2, <1>3, <2>1, <3>2, <3>3, <3>4 DEF Answers
  <2>4. QED
    BY <1>5, <2>2, <2>3 DEF Server!Search
<1>6. CASE Server!Deregister(r)
  <2>1. r.type = "T"
    BY <1>6 DEF Server!Deregister
  <2>2. PICK t \in {"A", "E"} : Server!Answer(r, <<Server!Echo(t, r)>>)
    BY <1>6 DEF Server!Deregister
  <2>3. Answer(r, <<Echo(t, r)>>)
    BY <2>2, SameEcho, SameAnswer
  <2>4. Echo(t, r) \in Reply /\ Echo(t, r).type = t
    BY <1>3, ReplyTypes
  <2>5. QED
    BY <1>2, <1>3, <2>1, <2>3, <2>4 DEF Answers
<1>7. CASE Server!List(r)
  <2>1. Answer(r, Server!Listing(index, r)) /\ r.type = "O"
    BY <1>7, SameAnswer DEF Server!List
  <2>2. Server!Listing(index, r) = Listing(index, r)
    BY Zenon DEF Server!Listing, Server!Line, Server!Closing, Server!Echo,
       Listing, Line, Closing, Echo
  <2>3. QED
    BY <1>2, <1>3, <2>1, <2>2 DEF Answers
<1>8. CASE Server!Ignore(r)
    BY <1>2, <1>3, <1>8, SameAnswer DEF Answers, Server!Ignore
<1>9. QED
    BY <1>2, <1>4, <1>5, <1>6, <1>7, <1>8

(* Answers added to a socket. *)
LEMMA AddedAnswers ==
    ASSUME Inv, NEW q \in Peers, NEW ans \in Seq(Reply),
           \A i \in 1..Len(ans) : ans[i].type = "S" => ans[i].content \in Contents,
           outbox' = [outbox EXCEPT ![q] = outbox[q] \o ans]
    PROVE  SearchAnswers'
<1>1. outbox \in [Peers -> Seq(Reply)]
    BY InvTypes DEF ChannelsTypeOK
<1>2. PICK n \in Nat, m \in Nat : n = Len(outbox[q]) /\ m = Len(ans)
    BY <1>1, LenProperties
<1>3. /\ Len(outbox[q] \o ans) = n + m
      /\ \A i \in 1..(n + m) : (outbox[q] \o ans)[i] = IF i <= n THEN outbox[q][i] ELSE ans[i - n]
    BY <1>1, <1>2, ConcatProperties
<1>4. outbox'[q] = outbox[q] \o ans /\ \A p \in Peers : p # q => outbox'[p] = outbox[p]
    BY <1>1
<1>5. ASSUME NEW p \in Peers, NEW i \in 1..Len(outbox'[p]), outbox'[p][i].type = "S"
      PROVE  outbox'[p][i].content \in Contents
  <2>1. CASE p # q
    BY <1>4, <1>5, <2>1 DEF Inv, SearchAnswers
  <2>2. CASE p = q
    <3>1. i \in 1..(n + m) /\ outbox'[q][i] = IF i <= n THEN outbox[q][i] ELSE ans[i - n]
      BY <1>3, <1>4, <2>2
    <3>2. CASE i <= n
      <4>1. i \in 1..n /\ outbox'[p][i] = outbox[p][i]
        BY <3>1, <3>2, <2>2
      <4>2. QED
        BY <1>2, <1>5, <2>2, <4>1 DEF Inv, SearchAnswers
    <3>3. CASE ~ (i <= n)
      <4>1. i - n \in 1..m /\ outbox'[p][i] = ans[i - n]
        BY <3>1, <3>3, <2>2
      <4>2. QED
        BY <1>2, <1>5, <4>1
    <3>4. QED
      BY <3>2, <3>3
  <2>3. QED
    BY <2>1, <2>2
<1>6. QED
    BY <1>5 DEF SearchAnswers

LEMMA ListingTypes ==
    ASSUME NEW list \in Seq(Entry), NEW r \in Request, r.type = "O"
    PROVE  /\ Listing(list, r) \in Seq(Reply)
           /\ \A i \in 1..Len(Listing(list, r)) : Listing(list, r)[i].type # "S"
<1> DEFINE ls == [i \in 1..Len(list) |-> Line(list[i])]
<1>1. PICK n \in Nat : n = Len(list)
    BY LenProperties
<1>2. \A e \in Entry : Line(e) \in Reply /\ Line(e).type = "O"
    BY DEF Entry, Line, Reply, AnyName
<1>3. ls \in Seq(Reply) /\ Len(ls) = n /\ \A i \in 1..n : ls[i].type = "O"
  <2>1. \A i \in 1..n : list[i] \in Entry
    BY <1>1, ElementOfSeq
  <2>2. ls \in [1..n -> Reply] /\ \A i \in 1..n : ls[i].type = "O"
    BY <1>1, <1>2, <2>1
  <2>3. ls \in Seq(Reply)
    BY <2>2, IsASeq
  <2>4. Len(ls) = n
    BY <2>2, <2>3, LenProperties
  <2>5. QED
    BY <2>2, <2>3, <2>4
<1>4. Closing(list, r) \in Reply /\ Closing(list, r).type = "A"
  <2>1. CASE list = <<>>
    BY <2>1, ReplyTypes DEF Closing
  <2>2. CASE list # <<>>
    <3>1. list[Len(list)] \in Entry
      BY <1>1, <2>2, ElementOfSeq, EmptySeq
    <3>2. PICK x \in Reply : x = Line(list[Len(list)])
      BY <1>2, <3>1
    <3>3. [x EXCEPT !.type = "A"] \in Reply /\ [x EXCEPT !.type = "A"].type = "A"
      BY DEF Reply
    <3>4. QED
      BY <2>2, <3>2, <3>3 DEF Closing
  <2>3. QED
    BY <2>1, <2>2
<1> HIDE DEF ls
<1>5. /\ Append(ls, Closing(list, r)) \in Seq(Reply)
      /\ Len(Append(ls, Closing(list, r))) = n + 1
      /\ \A i \in 1..(n + 1) : Append(ls, Closing(list, r))[i]
             = IF i <= n THEN ls[i] ELSE Closing(list, r)
    BY <1>3, <1>4, AppendProperties
<1>6. Listing(list, r) = Append(ls, Closing(list, r))
    BY DEF Listing, ls
<1>7. \A i \in 1..(n + 1) : Append(ls, Closing(list, r))[i].type # "S"
    BY <1>3, <1>4, <1>5
<1>8. QED
    BY <1>5, <1>6, <1>7

LEMMA ServeKeeps ==
    ASSUME Inv, Server!Serve
    PROVE  [Server!Next]_server /\ SearchAnswers'
<1>1. SUFFICES SearchAnswers'
  <2>1. Server!Next
    BY DEF Server!Next
  <2>2. QED
    BY <2>1
<1>2. PICK r \in Request : Answers(r)
    BY ServeAnswers
<1>3. r.from \in Peers
    BY DEF Request
<1>4. \A a \in Reply : <<a>> \in Seq(Reply) /\ Len(<<a>>) = 1 /\ <<a>>[1] = a
    OBVIOUS
<1>5. ASSUME NEW ans \in Seq(Reply),
             outbox' = [outbox EXCEPT ![r.from] = outbox[r.from] \o ans],
             \A i \in 1..Len(ans) : ans[i].type = "S" => ans[i].content \in Contents
      PROVE  SearchAnswers'
    BY <1>3, <1>5, AddedAnswers
<1>6. ASSUME NEW a \in Reply, a.type = "S" => a.content \in Contents, Answer(r, <<a>>)
      PROVE  SearchAnswers'
  <2>1. PICK ans \in Seq(Reply) : ans = <<a>> /\ Len(ans) = 1 /\ ans[1] = a
    BY <1>4
  <2>2. outbox' = [outbox EXCEPT ![r.from] = outbox[r.from] \o ans]
    BY <1>6, <2>1 DEF Answer
  <2>3. \A i \in 1..Len(ans) : ans[i].type = "S" => ans[i].content \in Contents
    BY <1>6, <2>1
  <2>4. QED
    BY <1>5, <2>2, <2>3
<1>7. CASE r.type = "O" /\ Answer(r, Listing(index, r))
  <2>1. index \in Seq(Entry)
    BY InvTypes
  <2>2. PICK ans \in Seq(Reply) : /\ ans = Listing(index, r)
                                  /\ \A i \in 1..Len(ans) : ans[i].type # "S"
    BY <1>7, <2>1, ListingTypes
  <2>3. outbox' = [outbox EXCEPT ![r.from] = outbox[r.from] \o ans]
    BY <1>7, <2>2 DEF Answer
  <2>4. QED
    BY <1>5, <2>2, <2>3
<1>8. CASE Answer(r, <<>>)
  <2>1. <<>> \in Seq(Reply) /\ Len(<<>>) = 0
    OBVIOUS
  <2>2. outbox' = [outbox EXCEPT ![r.from] = outbox[r.from] \o <<>>]
    BY <1>8 DEF Answer
  <2>3. PICK ans \in Seq(Reply) : ans = <<>>
    BY <2>1
  <2>4. \A i \in 1..Len(ans) : ans[i].type = "S" => ans[i].content \in Contents
    BY <2>1, <2>3
  <2>5. QED
    BY <1>5, <2>2, <2>3, <2>4
<1>9. QED
  <2>1. CASE \E a \in Reply : /\ a.type = "S" => a.content \in Contents
                              /\ Answer(r, <<a>>)
    BY <1>6, <2>1 DEF Answer
  <2>2. QED
    BY <1>2, <1>7, <1>8, <2>1 DEF Answers
-----------------------------------------------------------------------------
(* One lemma per action.  What is to be shown of each: it is a step of the *)
(* server's specification, and keeps the invariant.                        *)
Kept == [Server!Next]_server /\ Inv'

LEMMA Together ==
    ASSUME Inv, [Server!Next]_server,
           main' \in [Peers -> Memory],
           kid' \in [Peers -> [Kids -> Child \cup {None}]],
           files' \in [Peers -> SUBSET Contents],
           backlog' \in [Peers -> Seq(Peers)],
           conn' \in [Peers -> Connection \cup {None}],
           Working', SearchAnswers', Links'
    PROVE  Kept
<1>1. Server!TypeOK'
    BY ServerTypes DEF Inv
<1>2. TypeOK'
    BY <1>1 DEF TypeOK
<1>3. QED
    BY <1>2 DEF Kept, Inv

LEMMA ParentStep ==
    ASSUME Inv, NEW p \in Peers, NEW m \in Memory, AtWork(m),
           m.at \notin {"gone", "failed", "download"}, main[p].at # "download",
           main' = [main EXCEPT ![p] = m], UNCHANGED local,
           [Server!Next]_server, SearchAnswers'
    PROVE  Kept
<1>1. main' \in [Peers -> Memory] /\ Working' /\ Links'
    BY MemoryMoves
<1>2. /\ kid' \in [Peers -> [Kids -> Child \cup {None}]]
      /\ files' \in [Peers -> SUBSET Contents]
      /\ backlog' \in [Peers -> Seq(Peers)]
      /\ conn' \in [Peers -> Connection \cup {None}]
    BY InvTypes DEF TypeOK, local
<1>3. QED
    BY <1>1, <1>2, Together

LEMMA StartRegisterKeeps ==
    ASSUME Inv, NEW p \in Peers, StartRegister(p)
    PROVE  Kept
<1>1. main[p] \in Memory /\ main[p].at = "menu" /\ main[p].name \in Names
    BY InvTypes DEF StartRegister, Typed, Memory
<1>2. PICK c \in Contents :
          /\ Send(Pdu("R", p, main[p].name, c))
          /\ main' = [main EXCEPT ![p] = WithContent(Picked(p), "register", c)]
    BY Zenon DEF StartRegister, WithContent
<1>3. PICK m \in Memory : /\ m = WithContent(Picked(p), "register", c)
                          /\ m.at = "register" /\ m.content = c
  <2>1. "register" \in Places
    BY DEF Places
  <2>2. QED
    BY <1>1, <2>1, PickedContent
<1>4. [Server!Next]_server /\ SearchAnswers'
    BY <1>1, <1>2, PduTypes, SendsKeeps DEF Sends, StartRegister
<1>5. AtWork(m)
    BY <1>3 DEF AtWork
<1>6. main' = [main EXCEPT ![p] = m] /\ UNCHANGED local
    BY <1>2, <1>3 DEF StartRegister
<1>7. QED
    BY <1>1, <1>3, <1>4, <1>5, <1>6, ParentStep

LEMMA EndRegisterKeeps ==
    ASSUME Inv, NEW p \in Peers, EndRegister(p)
    PROVE  Kept
<1>1. main[p] \in Memory /\ main[p].at = "register" /\ main[p].content \in Contents
    BY InvTypes DEF EndRegister, AtWork
<1>2. [Server!Next]_server /\ SearchAnswers'
    BY ReceivesKeeps DEF EndRegister
<1>3. UNCHANGED local
    BY DEF EndRegister
<1>4. CASE main' = [main EXCEPT ![p].at = "rename"]
  <2>1. [main[p] EXCEPT !.at = "rename"] \in Memory /\ [main[p] EXCEPT !.at = "rename"].at = "rename"
    BY <1>1 DEF Memory, Places
  <2>2. PICK m \in Memory : m = [main[p] EXCEPT !.at = "rename"] /\ m.at = "rename"
    BY <2>1
  <2>3. main' = [main EXCEPT ![p] = m]
    BY <1>4, <2>2
  <2>4. QED
    BY <1>1, <1>2, <1>3, <2>2, <2>3, ParentStep DEF AtWork
<1>5. CASE main' = [main EXCEPT ![p] = Done(Remember(main[p]))]
  <2>1. PICK m \in Memory : /\ m = Done(Remember(main[p])) /\ AtWork(m)
                            /\ m.at \in {"menu", "accept"}
    BY <1>1, RememberMemory, DoneMemory
  <2>2. QED
    BY <1>1, <1>2, <1>3, <1>5, <2>1, ParentStep
<1>6. CASE main' = [main EXCEPT ![p] = Done(main[p])]
  <2>1. PICK m \in Memory : m = Done(main[p]) /\ AtWork(m) /\ m.at \in {"menu", "accept"}
    BY <1>1, DoneMemory
  <2>2. QED
    BY <1>1, <1>2, <1>3, <1>6, <2>1, ParentStep
<1>7. QED
    BY <1>4, <1>5, <1>6 DEF EndRegister

LEMMA RenameKeeps ==
    ASSUME Inv, NEW p \in Peers, Rename(p)
    PROVE  Kept
<1>1. main[p] \in Memory /\ main[p].at = "rename"
    BY InvTypes DEF Rename
<1>2. PICK n \in Names, c \in Contents :
          /\ Send(Pdu("Y", p, n, c))
          /\ main' = [main EXCEPT ![p] = [main[p] EXCEPT !.at = "register", !.name = n,
                                                   !.own = FALSE, !.content = c]]
    BY DEF Rename
<1>3. /\ [main[p] EXCEPT !.at = "register", !.name = n, !.own = FALSE, !.content = c] \in Memory
      /\ [main[p] EXCEPT !.at = "register", !.name = n, !.own = FALSE, !.content = c].at = "register"
      /\ [main[p] EXCEPT !.at = "register", !.name = n, !.own = FALSE, !.content = c].content = c
    BY <1>1 DEF Memory, Places
<1>4. PICK m \in Memory :
          /\ m = [main[p] EXCEPT !.at = "register", !.name = n, !.own = FALSE, !.content = c]
          /\ m.at = "register" /\ m.content = c
    BY <1>3
<1>5. [Server!Next]_server /\ SearchAnswers'
    BY <1>2, PduTypes, SendsKeeps DEF Sends, Rename
<1>6. AtWork(m)
    BY <1>4 DEF AtWork
<1>7. main' = [main EXCEPT ![p] = m] /\ UNCHANGED local
    BY <1>2, <1>4 DEF Rename
<1>8. QED
    BY <1>1, <1>4, <1>5, <1>6, <1>7, ParentStep

LEMMA KeepNameKeeps ==
    ASSUME Inv, NEW p \in Peers, KeepName(p)
    PROVE  Kept
<1>1. main[p] \in Memory /\ main[p].at = "rename"
    BY InvTypes DEF KeepName
<1>2. PICK m \in Memory : m = Done(main[p]) /\ AtWork(m) /\ m.at \in {"menu", "accept"}
    BY <1>1, DoneMemory
<1>3. [Server!Next]_server /\ SearchAnswers'
    BY DEF KeepName, server, Inv, SearchAnswers
<1>4. main' = [main EXCEPT ![p] = m] /\ UNCHANGED local
    BY <1>2 DEF KeepName
<1>5. QED
    BY <1>1, <1>2, <1>3, <1>4, ParentStep

LEMMA StartListKeeps ==
    ASSUME Inv, NEW p \in Peers, StartList(p)
    PROVE  Kept
<1>1. main[p] \in Memory /\ main[p].at = "menu"
    BY InvTypes DEF StartList, Typed
<1>2. "list" \in Places
    BY DEF Places
<1>3. PICK m \in Memory : m = [Picked(p) EXCEPT !.at = "list"] /\ m.at = "list"
    BY <1>1, <1>2, PickedAt
<1>4. [Server!Next]_server /\ SearchAnswers'
    BY PduTypes, SendsKeeps DEF Sends, StartList
<1>5. main' = [main EXCEPT ![p] = m] /\ UNCHANGED local
    BY <1>3 DEF StartList
<1>6. QED
    BY <1>1, <1>3, <1>4, <1>5, ParentStep DEF AtWork

LEMMA ReadListKeeps ==
    ASSUME Inv, NEW p \in Peers, ReadList(p)
    PROVE  Kept
<1>1. main[p] \in Memory /\ main[p].at = "list" /\ AtWork(main[p])
    BY InvTypes DEF ReadList
<1>2. [Server!Next]_server /\ SearchAnswers'
    BY ReceivesKeeps DEF ReadList
<1>3. UNCHANGED local
    BY DEF ReadList
<1>4. PICK m \in Memory : /\ AtWork(m) /\ m.at \in {"menu", "accept", "list"}
                          /\ main' = [main EXCEPT ![p] = m]
  <2>1. CASE main' = [main EXCEPT ![p] = Done(main[p])]
    BY <1>1, <2>1, DoneMemory
  <2>2. CASE main' = main
    <3>1. main' = [main EXCEPT ![p] = main[p]]
      BY <2>2, InvTypes DEF TypeOK
    <3>2. QED
      BY <1>1, <3>1
  <2>3. QED
    BY <2>1, <2>2 DEF ReadList
<1>5. QED
    BY <1>1, <1>2, <1>3, <1>4, ParentStep

LEMMA StartDeregisterKeeps ==
    ASSUME Inv, NEW p \in Peers, StartDeregister(p)
    PROVE  Kept
<1>1. main[p] \in Memory /\ main[p].at = "menu" /\ main[p].name \in Names
    BY InvTypes DEF StartDeregister, Typed, Memory
<1>2. PICK c \in Contents :
          /\ Send(Pdu("T", p, main[p].name, c))
          /\ main' = [main EXCEPT ![p] = WithContent(Picked(p), "deregister", c)]
    BY Zenon DEF StartDeregister, WithContent
<1>3. PICK m \in Memory : /\ m = WithContent(Picked(p), "deregister", c)
                          /\ m.at = "deregister" /\ m.content = c
  <2>1. "deregister" \in Places
    BY DEF Places
  <2>2. QED
    BY <1>1, <2>1, PickedContent
<1>4. [Server!Next]_server /\ SearchAnswers'
    BY <1>1, <1>2, PduTypes, SendsKeeps DEF Sends, StartDeregister
<1>5. main' = [main EXCEPT ![p] = m] /\ UNCHANGED local
    BY <1>2, <1>3 DEF StartDeregister
<1>6. QED
    BY <1>1, <1>3, <1>4, <1>5, ParentStep DEF AtWork

LEMMA EndDeregisterKeeps ==
    ASSUME Inv, NEW p \in Peers, EndDeregister(p)
    PROVE  Kept
<1>1. main[p] \in Memory /\ main[p].at = "deregister"
    BY InvTypes DEF EndDeregister
<1>2. PICK m \in Memory : m = Done(main[p]) /\ AtWork(m) /\ m.at \in {"menu", "accept"}
    BY <1>1, DoneMemory
<1>3. [Server!Next]_server /\ SearchAnswers'
    BY ReceivesKeeps DEF EndDeregister
<1>4. main' = [main EXCEPT ![p] = m] /\ UNCHANGED local
    BY <1>2 DEF EndDeregister
<1>5. QED
    BY <1>1, <1>2, <1>3, <1>4, ParentStep

(* Q, with and without contents to deregister. *)
LEMMA LeaveKeeps ==
    ASSUME Inv, NEW p \in Peers, NEW x \in {"gone", "failed"}, Leave(p, x),
           main[p].at = "download" => ~ conn[p].open, [Server!Next]_server, SearchAnswers'
    PROVE  Kept
<1>1. /\ main' \in [Peers -> Memory] /\ Working' /\ Links'
      /\ conn' \in [Peers -> Connection \cup {None}]
      /\ backlog' \in [Peers -> Seq(Peers)]
    BY LeaveLinks
<1>2. /\ kid' \in [Peers -> [Kids -> Child \cup {None}]]
      /\ files' \in [Peers -> SUBSET Contents]
    BY InvTypes DEF TypeOK, Leave
<1>3. QED
    BY <1>1, <1>2, Together

LEMMA StartQuitKeeps ==
    ASSUME Inv, NEW p \in Peers, StartQuit(p)
    PROVE  Kept
<1>1. main[p] \in Memory /\ main[p].at = "menu" /\ main[p].name \in Names
      /\ main[p].regs \in Seq(Contents)
    BY InvTypes DEF StartQuit, Typed, Memory
<1>2. CASE Leave(p, "gone") /\ UNCHANGED server
  <2>1. [Server!Next]_server /\ SearchAnswers'
    BY <1>2 DEF server, Inv, SearchAnswers
  <2>2. QED
    BY <1>1, <1>2, <2>1, LeaveKeeps
<1>3. CASE /\ main[p].regs # <<>>
           /\ Send(Pdu("T", p, main[p].name, Last(main[p].regs)))
           /\ main' = [main EXCEPT ![p] = [Picked(p) EXCEPT !.at = "quit",
                                                !.left = Len(main[p].regs) - 1]]
           /\ UNCHANGED <<outbox, index, local>>
  <2>1. PICK n \in Nat : n = Len(main[p].regs)
    BY <1>1, LenProperties
  <2>2. n # 0 /\ main[p].regs[n] \in Contents
    BY <1>1, <1>3, <2>1, EmptySeq, ElementOfSeq
  <2>3. PICK c \in Contents : c = Last(main[p].regs)
    BY <2>1, <2>2 DEF Last
  <2>4. PICK k \in Nat : k = Len(main[p].regs) - 1 /\ k < Len(main[p].regs)
    <3>1. n - 1 \in Nat /\ n - 1 < n
      BY <2>2
    <3>2. QED
      BY <2>1, <3>1
  <2>5. PICK m \in Memory : /\ m = WithLeft(Picked(p), "quit", k)
                            /\ m.at = "quit" /\ m.left = k /\ m.regs = main[p].regs
    <3>1. "quit" \in Places
      BY DEF Places
    <3>2. QED
      BY <1>1, <2>4, <3>1, PickedLeft
  <2>6. [Server!Next]_server /\ SearchAnswers'
    BY <1>1, <1>3, <2>3, PduTypes, SendsKeeps DEF Sends
  <2>7. AtWork(m)
    BY <2>4, <2>5 DEF AtWork
  <2>8. main' = [main EXCEPT ![p] = m] /\ UNCHANGED local
    BY <1>3, <2>4, <2>5, Zenon DEF WithLeft
  <2>9. QED
    BY <1>1, <2>5, <2>6, <2>7, <2>8, ParentStep
<1>4. QED
    BY <1>2, <1>3 DEF StartQuit

LEMMA ReadQuitKeeps ==
    ASSUME Inv, NEW p \in Peers, ReadQuit(p)
    PROVE  Kept
<1>1. /\ main[p] \in Memory /\ main[p].at = "quit" /\ main[p].regs \in Seq(Contents)
      /\ main[p].left \in Nat /\ main[p].left < Len(main[p].regs)
    BY InvTypes DEF ReadQuit, Memory, AtWork
<1>2. CASE Receive(p) /\ Leave(p, "gone") /\ UNCHANGED <<inbox, index>>
  <2>1. [Server!Next]_server /\ SearchAnswers'
    BY <1>2, ReceivesKeeps
  <2>2. QED
    BY <1>1, <1>2, <2>1, LeaveKeeps
<1>3. CASE /\ Receive(p)
           /\ main[p].left > 0
           /\ Send(Pdu("T", p, Head(outbox[p]).peer, main[p].regs[main[p].left]))
           /\ main' = [main EXCEPT ![p].left = main[p].left - 1]
           /\ UNCHANGED <<index, local>>
  <2>1. PICK n \in Nat : n = Len(main[p].regs)
    BY <1>1, LenProperties
  <2>2. PICK c \in Contents : c = main[p].regs[main[p].left]
    BY <1>1, <1>3, <2>1, ElementOfSeq
  <2>3. PICK k \in Nat : k = main[p].left - 1 /\ k < Len(main[p].regs)
    <3>1. main[p].left - 1 \in Nat /\ main[p].left - 1 < n
      BY <1>1, <1>3, <2>1
    <3>2. QED
      BY <2>1, <3>1
  <2>4. /\ [main[p] EXCEPT !.left = k] \in Memory /\ [main[p] EXCEPT !.left = k].left = k
        /\ [main[p] EXCEPT !.left = k].at = "quit"
        /\ [main[p] EXCEPT !.left = k].regs = main[p].regs
    BY <1>1 DEF Memory
  <2>5. PICK m \in Memory : /\ m = [main[p] EXCEPT !.left = k] /\ m.left = k
                            /\ m.at = "quit" /\ m.regs = main[p].regs
    BY <2>4
  <2>6. Head(outbox[p]) \in Reply
    BY <1>3, ReceiveKeepsAnswers
  <2>7. PICK a \in AnyName : a = Head(outbox[p]).peer
    BY <2>6 DEF Reply
  <2>8. [Server!Next]_server /\ SearchAnswers'
    BY <1>3, <2>2, <2>7, PduTypes, ReceivesKeeps
  <2>9. AtWork(m)
    BY <2>3, <2>5 DEF AtWork
  <2>10. main' = [main EXCEPT ![p] = m] /\ UNCHANGED local
    BY <1>3, <2>3, <2>5
  <2>11. QED
    BY <1>1, <2>5, <2>8, <2>9, <2>10, ParentStep
<1>4. QED
    BY <1>2, <1>3 DEF ReadQuit

LEMMA StartSearchKeeps ==
    ASSUME Inv, NEW p \in Peers, StartSearch(p)
    PROVE  Kept
<1>1. main[p] \in Memory /\ main[p].at = "menu" /\ main[p].name \in Names
    BY InvTypes DEF StartSearch, Typed, Memory
<1>2. PICK c \in Contents :
          /\ Send(Pdu("S", p, main[p].name, c))
          /\ main' = [main EXCEPT ![p] = WithContent(Picked(p), "search", c)]
    BY Zenon DEF StartSearch, WithContent
<1>3. PICK m \in Memory : /\ m = WithContent(Picked(p), "search", c)
                          /\ m.at = "search" /\ m.content = c
  <2>1. "search" \in Places
    BY DEF Places
  <2>2. QED
    BY <1>1, <2>1, PickedContent
<1>4. [Server!Next]_server /\ SearchAnswers'
    BY <1>1, <1>2, PduTypes, SendsKeeps DEF Sends, StartSearch
<1>5. AtWork(m)
    BY <1>3 DEF AtWork
<1>6. main' = [main EXCEPT ![p] = m] /\ UNCHANGED local
    BY <1>2, <1>3 DEF StartSearch
<1>7. QED
    BY <1>1, <1>3, <1>4, <1>5, <1>6, ParentStep

LEMMA EndSearchKeeps ==
    ASSUME Inv, NEW p \in Peers, EndSearch(p)
    PROVE  Kept
<1> DEFINE a == Head(outbox[p])
<1>1. main[p] \in Memory /\ main[p].at = "search"
    BY InvTypes DEF EndSearch
<1>2. [Server!Next]_server /\ SearchAnswers'
    BY ReceivesKeeps DEF EndSearch
<1>3. a \in Reply /\ (a.type = "S" => a.content \in Contents)
    BY ReceiveKeepsAnswers DEF EndSearch
<1> HIDE DEF a
<1>4. CASE Connect(p, a)
  <2>1. /\ main' \in [Peers -> Memory]
        /\ files' \in [Peers -> SUBSET Contents]
        /\ backlog' \in [Peers -> Seq(Peers)]
        /\ conn' \in [Peers -> Connection \cup {None}]
        /\ Working' /\ Links'
    BY <1>1, <1>3, <1>4, ConnectLinks
  <2>2. kid' \in [Peers -> [Kids -> Child \cup {None}]]
    BY <1>4, InvTypes DEF TypeOK, Connect
  <2>3. QED
    BY <1>2, <2>1, <2>2, Together
<1>5. CASE Refused(p, a)
    BY <1>1, <1>2, <1>5, LeaveKeeps DEF Refused
<1>6. CASE NothingFound(p, a)
  <2>1. PICK m \in Memory : m = Done(main[p]) /\ AtWork(m) /\ m.at \in {"menu", "accept"}
    BY <1>1, DoneMemory
  <2>2. main' = [main EXCEPT ![p] = m] /\ UNCHANGED local
    BY <1>6, <2>1 DEF NothingFound
  <2>3. QED
    BY <1>1, <1>2, <2>1, <2>2, ParentStep
<1>7. QED
    BY <1>4, <1>5, <1>6 DEF EndSearch, a

LEMMA EndDownloadKeeps ==
    ASSUME Inv, NEW p \in Peers, EndDownload(p)
    PROVE  Kept
<1>1. /\ main[p] \in Memory /\ main[p].at = "download"
      /\ main[p].content \in Contents /\ main[p].name \in Names
    BY InvTypes DEF EndDownload, AtWork, Memory
<1>2. conn[p] \in Connection /\ ~ conn[p].open
    BY <1>1 DEF Inv, Links, Attended, EndDownload
<1>3. UNCHANGED <<outbox, index>>
    BY DEF EndDownload
<1>4. ASSUME NEW m \in Memory, AtWork(m), m.at \notin {"gone", "failed", "download"},
             main' = [main EXCEPT ![p] = m], [Server!Next]_server, SearchAnswers',
             conn' = [conn EXCEPT ![p] = None], UNCHANGED <<backlog, kid>>,
             files' \in [Peers -> SUBSET Contents]
      PROVE  Kept
  <2>1. /\ main' \in [Peers -> Memory]
        /\ conn' \in [Peers -> Connection \cup {None}]
        /\ Working' /\ Links'
    BY <1>1, <1>2, <1>4, HangUpLinks
  <2>2. kid' \in [Peers -> [Kids -> Child \cup {None}]] /\ backlog' \in [Peers -> Seq(Peers)]
    BY <1>4, InvTypes DEF TypeOK
  <2>3. QED
    BY <1>4, <2>1, <2>2, Together
(* The file is kept and published. *)
<1>5. CASE /\ Send(Pdu("R", p, main[p].name, main[p].content))
           /\ main' = [main EXCEPT ![p].at = "publish"]
           /\ conn' = [conn EXCEPT ![p] = None]
           /\ UNCHANGED <<files, backlog, kid>>
  <2>1. /\ [main[p] EXCEPT !.at = "publish"] \in Memory
        /\ [main[p] EXCEPT !.at = "publish"].at = "publish"
        /\ [main[p] EXCEPT !.at = "publish"].content = main[p].content
    BY <1>1 DEF Memory, Places
  <2>2. PICK m \in Memory : /\ m = [main[p] EXCEPT !.at = "publish"]
                            /\ m.at = "publish" /\ m.content = main[p].content
    BY <2>1
  <2>3. [Server!Next]_server /\ SearchAnswers'
    BY <1>1, <1>3, <1>5, PduTypes, SendsKeeps DEF Sends
  <2>4. AtWork(m)
    BY <1>1, <2>2 DEF AtWork
  <2>5. main' = [main EXCEPT ![p] = m]
    BY <1>5, <2>2
  <2>6. files' \in [Peers -> SUBSET Contents]
    BY <1>5, InvTypes DEF TypeOK
  <2>7. QED
    BY <1>4, <1>5, <2>2, <2>3, <2>4, <2>5, <2>6
(* It is removed. *)
<1>6. CASE /\ main' = [main EXCEPT ![p] = Done(main[p])]
           /\ conn' = [conn EXCEPT ![p] = None]
           /\ files' = [files EXCEPT ![p] = files[p] \ {conn[p].file}]
           /\ UNCHANGED <<inbox, backlog, kid>>
  <2>1. PICK m \in Memory : m = Done(main[p]) /\ AtWork(m) /\ m.at \in {"menu", "accept"}
    BY <1>1, DoneMemory
  <2>2. [Server!Next]_server /\ SearchAnswers'
    BY <1>3, <1>6 DEF server, Inv, SearchAnswers
  <2>3. files \in [Peers -> SUBSET Contents]
    BY InvTypes DEF TypeOK
  <2>4. files' \in [Peers -> SUBSET Contents]
    <3>1. files[p] \ {conn[p].file} \in SUBSET Contents
      BY <2>3
    <3>2. QED
      BY <1>6, <2>3, <3>1
  <2>5. main' = [main EXCEPT ![p] = m]
    BY <1>6, <2>1
  <2>6. QED
    BY <1>4, <1>6, <2>1, <2>2, <2>4, <2>5
(* The peer dies, and its stream has been closed by then. *)
<1>7. CASE Leave(p, "failed") /\ UNCHANGED inbox
  <2>1. [Server!Next]_server /\ SearchAnswers'
    BY <1>3, <1>7 DEF server, Inv, SearchAnswers
  <2>2. QED
    BY <1>2, <1>7, <2>1, LeaveKeeps
<1>8. QED
    BY <1>5, <1>6, <1>7 DEF EndDownload

LEMMA EndPublishKeeps ==
    ASSUME Inv, NEW p \in Peers, EndPublish(p)
    PROVE  Kept
<1>1. main[p] \in Memory /\ main[p].at = "publish" /\ main[p].content \in Contents
    BY InvTypes DEF EndPublish, AtWork
<1>2. Receive(p) /\ UNCHANGED <<index, local>>
    BY DEF EndPublish
<1>3. CASE \E n \in Names :
              /\ Send(Pdu("R", p, n, main[p].content))
              /\ main' = [main EXCEPT ![p] = [main[p] EXCEPT !.name = n, !.own = FALSE]]
  <2>1. PICK n \in Names :
              /\ Send(Pdu("R", p, n, main[p].content))
              /\ main' = [main EXCEPT ![p] = [main[p] EXCEPT !.name = n, !.own = FALSE]]
    BY <1>3
  <2>2. /\ [main[p] EXCEPT !.name = n, !.own = FALSE] \in Memory
        /\ [main[p] EXCEPT !.name = n, !.own = FALSE].at = "publish"
        /\ [main[p] EXCEPT !.name = n, !.own = FALSE].content = main[p].content
    BY <1>1 DEF Memory
  <2>3. PICK m \in Memory : /\ m = [main[p] EXCEPT !.name = n, !.own = FALSE]
                            /\ m.at = "publish" /\ m.content = main[p].content
    BY <2>2
  <2>4. [Server!Next]_server /\ SearchAnswers'
    BY <1>1, <1>2, <2>1, PduTypes, ReceivesKeeps
  <2>5. AtWork(m)
    BY <1>1, <2>3 DEF AtWork
  <2>6. main' = [main EXCEPT ![p] = m]
    BY <2>1, <2>3
  <2>7. QED
    BY <1>1, <1>2, <2>3, <2>4, <2>5, <2>6, ParentStep
<1>4. CASE UNCHANGED inbox /\ main' = [main EXCEPT ![p] = Done(main[p])]
  <2>1. PICK m \in Memory : m = Done(main[p]) /\ AtWork(m) /\ m.at \in {"menu", "accept"}
    BY <1>1, DoneMemory
  <2>2. [Server!Next]_server /\ SearchAnswers'
    BY <1>2, <1>4, ReceivesKeeps
  <2>3. QED
    BY <1>1, <1>2, <1>4, <2>1, <2>2, ParentStep
<1>5. CASE UNCHANGED inbox /\ main' = [main EXCEPT ![p] = Done(Remember(main[p]))]
  <2>1. PICK m \in Memory : /\ m = Done(Remember(main[p])) /\ AtWork(m)
                            /\ m.at \in {"menu", "accept"}
    BY <1>1, RememberMemory, DoneMemory
  <2>2. [Server!Next]_server /\ SearchAnswers'
    BY <1>2, <1>5, ReceivesKeeps
  <2>3. QED
    BY <1>1, <1>2, <1>5, <2>1, <2>2, ParentStep
<1>6. QED
    BY <1>3, <1>4, <1>5 DEF EndPublish

LEMMA StartAcceptKeeps ==
    ASSUME Inv, NEW p \in Peers, StartAccept(p)
    PROVE  Kept
<1>1. main[p] \in Memory /\ main[p].at = "menu"
    BY InvTypes DEF StartAccept, Typed
<1>2. "await" \in Places
    BY DEF Places
<1>3. PICK m \in Memory : m = [Picked(p) EXCEPT !.at = "await"] /\ m.at = "await"
    BY <1>1, <1>2, PickedAt
<1>4. [Server!Next]_server /\ SearchAnswers'
    BY DEF StartAccept, server, Inv, SearchAnswers
<1>5. main' = [main EXCEPT ![p] = m] /\ UNCHANGED local
    BY <1>3 DEF StartAccept
<1>6. QED
    BY <1>1, <1>3, <1>4, <1>5, ParentStep DEF AtWork

LEMMA AcceptKeeps ==
    ASSUME Inv, NEW p \in Peers, NEW k \in Kids, Accept(p, k)
    PROVE  Kept
<1>1. /\ main' \in [Peers -> Memory]
      /\ kid' \in [Peers -> [Kids -> Child \cup {None}]]
      /\ backlog' \in [Peers -> Seq(Peers)]
      /\ Working' /\ Links'
    BY AcceptLinks
<1>2. /\ files' \in [Peers -> SUBSET Contents]
      /\ conn' \in [Peers -> Connection \cup {None}]
    BY InvTypes DEF TypeOK, Accept
<1>3. [Server!Next]_server /\ SearchAnswers'
    BY DEF Accept, server, Inv, SearchAnswers
<1>4. QED
    BY <1>1, <1>2, <1>3, Together

(* The client a child serves has an open connection to its peer.           *)
LEMMA ServedClient ==
    ASSUME Inv, NEW p \in Peers, NEW k \in Kids, kid[p][k] # None
    PROVE  /\ kid[p][k].client \in Peers
           /\ kid[p][k].name \in Names
           /\ conn[kid[p][k].client] \in Connection
           /\ conn[kid[p][k].client].want \in Contents
<1>1. Reads(kid[p][k].client, p)
    BY DEF Inv, Links, Served
<1>2. kid[p][k] \in Child
    BY InvTypes
<1>3. QED
    BY <1>1, <1>2 DEF Reads, Child, Connection

LEMMA CloseKeeps ==
    ASSUME Inv, NEW p \in Peers, NEW k \in Kids, kid[p][k] # None,
           NEW d \in Connection, ~ d.open,
           conn' = [conn EXCEPT ![kid[p][k].client] = d],
           kid' = [kid EXCEPT ![p][k] = None], UNCHANGED <<main, files, backlog>>,
           [Server!Next]_server, SearchAnswers'
    PROVE  Kept
<1>1. /\ conn' \in [Peers -> Connection \cup {None}]
      /\ kid' \in [Peers -> [Kids -> Child \cup {None}]]
      /\ Working' /\ Links'
    BY CloseLinks
<1>2. /\ main' \in [Peers -> Memory]
      /\ files' \in [Peers -> SUBSET Contents]
      /\ backlog' \in [Peers -> Seq(Peers)]
    BY InvTypes DEF TypeOK
<1>3. QED
    BY <1>1, <1>2, Together

LEMMA RejectKeeps ==
    ASSUME Inv, NEW p \in Peers, NEW k \in Kids, Reject(p, k)
    PROVE  Kept
<1>1. kid[p][k] # None
    BY DEF Reject
<1>2. PICK q \in Peers : q = kid[p][k].client /\ conn[q] \in Connection
    BY <1>1, ServedClient
<1>3. /\ [conn[q] EXCEPT !.got = "error", !.open = FALSE] \in Connection
      /\ ~ [conn[q] EXCEPT !.got = "error", !.open = FALSE].open
    BY <1>2 DEF Connection, Stream
<1>4. PICK d \in Connection : d = [conn[q] EXCEPT !.got = "error", !.open = FALSE] /\ ~ d.open
    BY <1>3
<1>5. conn' = [conn EXCEPT ![q] = d]
    BY <1>2, <1>4 DEF Reject
<1>6. [Server!Next]_server /\ SearchAnswers'
    BY DEF Reject, server, Inv, SearchAnswers
<1>7. kid' = [kid EXCEPT ![p][k] = None] /\ UNCHANGED <<main, files, backlog>>
    BY DEF Reject
<1>8. QED
    BY <1>1, <1>2, <1>4, <1>5, <1>6, <1>7, CloseKeeps

LEMMA SendFileKeeps ==
    ASSUME Inv, NEW p \in Peers, NEW k \in Kids, SendFile(p, k)
    PROVE  Kept
<1>1. kid[p][k] # None
    BY DEF SendFile
<1>2. PICK q \in Peers, c \in Contents :
          q = kid[p][k].client /\ c = conn[q].want /\ kid[p][k].name \in Names
    BY <1>1, ServedClient
<1>3. PICK g \in Stream : conn' = [conn EXCEPT ![q].got = g]
    BY <1>2 DEF SendFile, Stream
<1>4. /\ conn' = [conn EXCEPT ![kid[p][k].client].got = g]
      /\ kid' = [kid EXCEPT ![p][k].content = c]
      /\ UNCHANGED <<main, files, backlog>>
    BY <1>2, <1>3 DEF SendFile
<1>5. /\ conn' \in [Peers -> Connection \cup {None}]
      /\ kid' \in [Peers -> [Kids -> Child \cup {None}]]
      /\ Working' /\ Links'
    BY <1>1, <1>4, SendLinks
<1>6. [Server!Next]_server /\ SearchAnswers'
  <2>1. Send(Pdu("T", p, kid[p][k].name, c)) /\ UNCHANGED <<outbox, index>>
    BY <1>2 DEF SendFile
  <2>2. QED
    BY <1>2, <2>1, PduTypes, SendsKeeps DEF Sends
<1>7. /\ main' \in [Peers -> Memory]
      /\ files' \in [Peers -> SUBSET Contents]
      /\ backlog' \in [Peers -> Seq(Peers)]
    BY <1>4, InvTypes DEF TypeOK
<1>8. QED
    BY <1>5, <1>6, <1>7, Together

LEMMA EndChildKeeps ==
    ASSUME Inv, NEW p \in Peers, NEW k \in Kids, EndChild(p, k)
    PROVE  Kept
<1>1. kid[p][k] # None
    BY DEF EndChild
<1>2. PICK q \in Peers : q = kid[p][k].client /\ conn[q] \in Connection
    BY <1>1, ServedClient
<1>3. [conn[q] EXCEPT !.open = FALSE] \in Connection /\ ~ [conn[q] EXCEPT !.open = FALSE].open
    BY <1>2 DEF Connection
<1>4. PICK d \in Connection : d = [conn[q] EXCEPT !.open = FALSE] /\ ~ d.open
    BY <1>3
<1>5. conn' = [conn EXCEPT ![q] = d]
    BY <1>2, <1>4 DEF EndChild
<1>6. [Server!Next]_server /\ SearchAnswers'
    BY ReceivesKeeps DEF EndChild
<1>7. kid' = [kid EXCEPT ![p][k] = None] /\ UNCHANGED <<main, files, backlog>>
    BY DEF EndChild
<1>8. QED
    BY <1>1, <1>2, <1>4, <1>5, <1>6, <1>7, CloseKeeps

(* Steps of others, with the peers at rest.                                *)
LEMMA RestKeeps ==
    ASSUME Inv, UNCHANGED <<main, local>>, [Server!Next]_server, SearchAnswers'
    PROVE  Kept
<1>1. UNCHANGED <<main, kid, files, backlog, conn>>
    BY DEF local
<1>2. Working'
    BY <1>1 DEF Inv, Working, AtWork
<1>3. Links'
    BY <1>1 DEF Inv, Links, Queued, Served, Attended, Left, Reads, Listens
<1>4. /\ main' \in [Peers -> Memory]
      /\ kid' \in [Peers -> [Kids -> Child \cup {None}]]
      /\ files' \in [Peers -> SUBSET Contents]
      /\ backlog' \in [Peers -> Seq(Peers)]
      /\ conn' \in [Peers -> Connection \cup {None}]
    BY <1>1, InvTypes DEF TypeOK
<1>5. QED
    BY <1>2, <1>3, <1>4, Together

LEMMA NextKeeps ==
    ASSUME Inv, [Next]_vars
    PROVE  Kept
<1>1. CASE ServerTurn
    BY <1>1, ServeKeeps, RestKeeps DEF ServerTurn
<1>2. CASE NetworkLoss
    BY <1>2, LoseKeeps, RestKeeps DEF NetworkLoss
<1>3. ASSUME NEW p \in Peers, User(p) \/ Answered(p) \/ Parent(p)
      PROVE  Kept
    BY <1>3, StartRegisterKeeps, StartListKeeps, StartSearchKeeps, StartDeregisterKeeps,
       StartQuitKeeps, StartAcceptKeeps, RenameKeeps, KeepNameKeeps, EndRegisterKeeps,
       ReadListKeeps, EndDeregisterKeeps, ReadQuitKeeps, EndSearchKeeps, EndDownloadKeeps,
       EndPublishKeeps
    DEF User, Answered, Parent
<1>4. ASSUME NEW p \in Peers, NEW k \in Kids, Accept(p, k) \/ Work(p, k)
      PROVE  Kept
    BY <1>4, AcceptKeeps, RejectKeeps, SendFileKeeps, EndChildKeeps DEF Work
<1>5. CASE UNCHANGED vars
  <2>1. UNCHANGED <<main, local>> /\ UNCHANGED <<index, inbox, outbox>>
    BY <1>5 DEF vars, local
  <2>2. QED
    BY <2>1, RestKeeps DEF server, Inv, SearchAnswers
<1>6. QED
    BY <1>1, <1>2, <1>3, <1>4, <1>5 DEF Next

LEMMA InitHolds ==
    ASSUME Init
    PROVE  Inv /\ Server!Init
<1>1. Server!Init
    BY DEF Init
<1>2. Server!TypeOK
  <2>1. index = <<>> /\ inbox = <<>> /\ outbox = [p \in Peers |-> <<>>]
    BY <1>1 DEF Server!Init, Server!ChannelsInit
  <2>2. /\ <<>> \in Seq(Request) /\ Len(<<>>) <= MaxInbox
        /\ <<>> \in Seq(Reply) /\ <<>> \in Seq(Entry)
    BY MaxInboxAssumption
  <2>3. QED
    BY <2>1, <2>2, SameTypes DEF ChannelsTypeOK
<1>3. PICK names \in FirstNames :
          main = [p \in Peers |->
                     [at |-> "menu", name |-> names[p], content |-> None,
                      regs |-> <<>>, ready |-> FALSE, left |-> 0, typed |-> 0,
                      own |-> \A q \in Peers \ {p} : names[q] # names[p]]]
    BY DEF Init
<1>4. main \in [Peers -> Memory] /\ \A p \in Peers : main[p].at = "menu"
  <2>1. \A p \in Peers : names[p] \in Names
    BY NetworkAssumption
  <2>2. <<>> \in Seq(Contents)
    OBVIOUS
  <2>3. QED
    BY <1>3, <2>1, <2>2 DEF Memory, Places
<1>5. /\ kid = [p \in Peers |-> [k \in Kids |-> None]]
      /\ files = FirstFiles
      /\ backlog = [p \in Peers |-> <<>>]
      /\ conn = [p \in Peers |-> None]
    BY DEF Init
<1>6. /\ kid \in [Peers -> [Kids -> Child \cup {None}]]
      /\ files \in [Peers -> SUBSET Contents]
      /\ backlog \in [Peers -> Seq(Peers)]
      /\ conn \in [Peers -> Connection \cup {None}]
  <2>1. <<>> \in Seq(Peers)
    OBVIOUS
  <2>2. QED
    BY <1>5, <2>1, NetworkAssumption
<1>7. Working
    BY <1>4 DEF Working, AtWork
<1>8. SearchAnswers
    BY <1>1 DEF SearchAnswers, Server!Init, Server!ChannelsInit
<1>9. Links
    BY <1>4, <1>5 DEF Links, Queued, Served, Attended, Left
<1>10. QED
    BY <1>1, <1>2, <1>4, <1>6, <1>7, <1>8, <1>9 DEF Inv, TypeOK

(* Whatever peers, server and network do, the invariant holds.             *)
LEMMA Invariant ==
    Spec => []Inv
<1>1. Init => Inv
    BY InitHolds
<1>2. Inv /\ [Next]_vars => Inv'
    BY NextKeeps DEF Kept
<1>3. QED
    BY <1>1, <1>2, PTL DEF Spec

(* Every variable of the system keeps its type: in particular, the client  *)
(* a child writes to and the stream a parent reads are always there.       *)
THEOREM TypeCorrect ==
    Spec => []TypeOK
<1>1. Inv => TypeOK
    BY DEF Inv
<1>2. QED
    BY <1>1, Invariant, PTL

(* Everything the peers do is allowed to the clients of the index server:  *)
(* the network implements the server's specification.                      *)
THEOREM ImplementsServer ==
    Spec => ServerSpec
<1>1. Init => Server!Init
    BY InitHolds
<1>2. Inv /\ [Next]_vars => [Server!Next]_server
    BY NextKeeps DEF Kept
<1>3. Inv /\ [Next]_vars => [Server!Next]_Server!vars
    BY <1>2 DEF server, Server!vars
<1>4. QED
    BY <1>1, <1>3, Invariant, PTL DEF Spec, ServerSpec, Server!Spec

(* So what is proved of the server alone holds in the whole system: no     *)
(* pair is listed twice, a name belongs to one peer, and the list answers  *)
(* as the directory does.                                                  *)
THEOREM ServerPropertiesHold ==
    Spec => /\ []Server!UniqueEntries /\ []Server!OneAddressPerName
            /\ Server!StableProvider
<1>1. /\ Proved!Spec => []Proved!UniqueEntries
      /\ Proved!Spec => []Proved!OneAddressPerName
      /\ Proved!Spec => Proved!StableProvider
    BY MaxInboxAssumption, Proved!NoPairTwice, Proved!NameBelongsToOne, Proved!ProviderIsStable
<1>2. Server!UniqueEntries <=> Proved!UniqueEntries
    BY Zenon DEF Server!UniqueEntries, Proved!UniqueEntries
<1>3. Server!OneAddressPerName <=> Proved!OneAddressPerName
    BY Zenon DEF Server!OneAddressPerName, Proved!OneAddressPerName
<1>4. Proved!StableProvider => Server!StableProvider
    BY Zenon DEF Proved!StableProvider, Server!StableProvider, Proved!Provider, Server!Provider,
       Proved!vars, Server!vars
<1>5. QED
    BY <1>1, <1>2, <1>3, <1>4, ImplementsServer, SameSpec, PTL DEF ServerSpec
-----------------------------------------------------------------------------
(* The shared socket: what is assumed of the network and the users.        *)
Reliable ==
    /\ ~ Lossy
    /\ ~ Renames
    /\ \A p \in Peers : "O" \notin Menu[p]

(* Where a parent has asked the server and waits for the answer.           *)
Asking == {"register", "list", "search", "publish", "deregister", "quit"}

(* The children that wait for one, and the requests under way.             *)
Busy(p) == {k \in Kids : kid[p][k] # None /\ kid[p][k].content # None}

Asked(s, p) == {i \in 1..Len(s) : s[i].from = p}

Bit(at) == IF at \in Asking THEN 1 ELSE 0

One(b) == IF b THEN 1 ELSE 0

(* Every request under way will get one answer, and no parent reads a list. *)
Answerable ==
    /\ \A i \in 1..Len(inbox) : inbox[i].type \in {"R", "S", "T"}
    /\ \A p \in Peers : main[p].at # "list"

Counted == Inv /\ Answerable /\ AnswersMatchReaders
-----------------------------------------------------------------------------
(* Counting requests: one more when a datagram is sent, one less when the  *)
(* server takes one.                                                       *)
LEMMA AskedFinite ==
    ASSUME NEW s \in Seq(Request), NEW p
    PROVE  IsFiniteSet(Asked(s, p)) /\ Cardinality(Asked(s, p)) \in Nat
<1>1. PICK n \in Nat : n = Len(s)
    BY LenProperties
<1>2. IsFiniteSet(1..n)
    BY FS_Interval
<1>3. Asked(s, p) \in SUBSET (1..n)
    BY <1>1 DEF Asked
<1>4. IsFiniteSet(Asked(s, p))
    BY <1>2, <1>3, FS_Subset
<1>5. QED
    BY <1>4, FS_CardinalityType

LEMMA AskedAppend ==
    ASSUME NEW s \in Seq(Request), NEW r \in Request, NEW p
    PROVE  Cardinality(Asked(Append(s, r), p)) = Cardinality(Asked(s, p)) + One(r.from = p)
<1>1. PICK n \in Nat : n = Len(s)
    BY LenProperties
<1>2. /\ Len(Append(s, r)) = n + 1
      /\ \A i \in 1..n : Append(s, r)[i] = s[i]
      /\ Append(s, r)[n + 1] = r
    BY <1>1, AppendProperties
<1>3. CASE r.from = p
  <2>1. Asked(Append(s, r), p) = Asked(s, p) \cup {n + 1}
    BY <1>1, <1>2, <1>3 DEF Asked
  <2>2. n + 1 \notin Asked(s, p)
    BY <1>1 DEF Asked
  <2>3. QED
    BY <1>3, <2>1, <2>2, AskedFinite, FS_AddElement DEF One
<1>4. CASE r.from # p
  <2>1. Asked(Append(s, r), p) = Asked(s, p)
    BY <1>1, <1>2, <1>4 DEF Asked
  <2>2. QED
    BY <1>4, <2>1, AskedFinite DEF One
<1>5. QED
    BY <1>3, <1>4

LEMMA AskedTail ==
    ASSUME NEW s \in Seq(Request), s # <<>>, NEW p
    PROVE  Cardinality(Asked(s, p)) = Cardinality(Asked(Tail(s), p)) + One(Head(s).from = p)
<1>1. PICK n \in Nat : n = Len(s) /\ n > 0
    BY LenProperties, EmptySeq
<1>2. /\ Tail(s) \in Seq(Request)
      /\ Len(Tail(s)) = n - 1
      /\ \A i \in 1..(n - 1) : Tail(s)[i] = s[i + 1]
      /\ Head(s) = s[1]
    BY <1>1, HeadTailProperties
<1> DEFINE T == Asked(Tail(s), p)
           U == Asked(s, p) \ {1}
           f == [i \in T |-> i + 1]
<1>3. IsFiniteSet(T) /\ IsFiniteSet(Asked(s, p)) /\ IsFiniteSet(U)
    BY <1>2, AskedFinite, FS_RemoveElement
<1>4. f \in Bijection(T, U)
  <2>1. \A i \in T : i \in 1..(n - 1) /\ i + 1 \in U
    BY <1>1, <1>2 DEF Asked
  <2>2. \A j \in U : j - 1 \in T
    BY <1>1, <1>2 DEF Asked
  <2>3. \A i \in T : f[i] = i + 1
    OBVIOUS
  <2>4. f \in [T -> U]
    BY <2>1
  <2>5. \A i, j \in T : f[i] = f[j] => i = j
    BY <2>1, <2>3
  <2>6. ASSUME NEW j \in U PROVE \E i \in T : f[i] = j
    <3>1. j \in Int /\ j - 1 \in T
      BY <1>1, <2>2 DEF Asked
    <3>2. f[j - 1] = (j - 1) + 1
      BY <2>3, <3>1
    <3>3. QED
      BY <3>1, <3>2
  <2>7. QED
    BY <2>4, <2>5, <2>6, Fun_IsBij, Zenon
<1>5. Cardinality(U) = Cardinality(T)
    BY <1>3, <1>4, FS_Bijection DEF ExistsBijection
<1>6. 1 \in Asked(s, p) <=> Head(s).from = p
    BY <1>1, <1>2 DEF Asked
<1>7. Cardinality(U) = IF 1 \in Asked(s, p) THEN Cardinality(Asked(s, p)) - 1
                       ELSE Cardinality(Asked(s, p))
    BY <1>3, FS_RemoveElement
<1>8. Cardinality(Asked(s, p)) \in Nat
    BY AskedFinite
<1>9. QED
    BY <1>5, <1>6, <1>7, <1>8 DEF One
-----------------------------------------------------------------------------
(* What the steps do to the answers a peer may still expect.               *)
LEMMA PendingTypes ==
    ASSUME Inv, NEW p \in Peers
    PROVE  /\ inbox \in Seq(Request) /\ outbox \in [Peers -> Seq(Reply)]
           /\ Pending(p) = Len(outbox[p]) + Cardinality(Asked(inbox, p))
           /\ Len(outbox[p]) \in Nat /\ Cardinality(Asked(inbox, p)) \in Nat
<1>1. inbox \in Seq(Request) /\ outbox \in [Peers -> Seq(Reply)]
    BY InvTypes DEF ChannelsTypeOK
<1>2. Len(outbox[p]) \in Nat
    BY <1>1, LenProperties
<1>3. QED
    BY <1>1, <1>2, AskedFinite DEF Pending, Asked

LEMMA SendPending ==
    ASSUME Inv, NEW p \in Peers, NEW r \in Request, r.from = p, Send(r), NEW q \in Peers
    PROVE  Cardinality(Asked(inbox, q))' = Cardinality(Asked(inbox, q)) + One(q = p)
<1>1. inbox \in Seq(Request) /\ inbox' = Append(inbox, r)
    BY PendingTypes DEF Send
<1>2. Cardinality(Asked(Append(inbox, r), q)) = Cardinality(Asked(inbox, q)) + One(r.from = q)
    BY <1>1, AskedAppend
<1>3. QED
    BY <1>1, <1>2 DEF One, Asked

LEMMA ReceivePending ==
    ASSUME Inv, NEW p \in Peers, Receive(p), NEW q \in Peers
    PROVE  Len(outbox[q])' = Len(outbox[q]) - One(q = p)
<1>1. outbox \in [Peers -> Seq(Reply)] /\ outbox[p] # <<>>
    BY PendingTypes DEF Receive
<1>2. Len(Tail(outbox[p])) = Len(outbox[p]) - 1
    BY <1>1, HeadTailProperties
<1>3. outbox'[q] = IF q = p THEN Tail(outbox[p]) ELSE outbox[q]
    BY <1>1 DEF Receive
<1>4. Len(outbox[q]) \in Nat
    BY PendingTypes
<1>5. QED
    BY <1>2, <1>3, <1>4 DEF One

(* The server takes a request and gives its answer.                        *)
LEMMA ServePending ==
    ASSUME Inv, Answerable, Server!Serve, NEW q \in Peers
    PROVE  Pending(q)' = Pending(q)
<1>1. PICK r \in Request : r = Head(inbox) /\ inbox # <<>> /\ Answers(r)
    BY ServeAnswers
<1>2. inbox \in Seq(Request) /\ outbox \in [Peers -> Seq(Reply)]
    BY PendingTypes
<1>3. r.type \in {"R", "S", "T"} /\ r.from \in Peers
  <2>1. Head(inbox) = inbox[1] /\ 1 \in 1..Len(inbox)
    BY <1>1, <1>2, HeadTailProperties, LenProperties, EmptySeq
  <2>2. QED
    BY <1>1, <2>1 DEF Answerable, Request
<1>4. PICK a \in Reply : Answer(r, <<a>>)
    BY <1>1, <1>3 DEF Answers
<1>5. PICK ans \in Seq(Reply) : ans = <<a>> /\ Len(ans) = 1
  <2>1. <<a>> \in Seq(Reply) /\ Len(<<a>>) = 1
    OBVIOUS
  <2>2. QED
    BY <2>1
<1>6. /\ inbox' = Tail(inbox)
      /\ outbox' = [outbox EXCEPT ![r.from] = outbox[r.from] \o ans]
    BY <1>4, <1>5 DEF Answer
<1>7. Len(outbox'[q]) = IF r.from = q THEN Len(outbox[q]) + 1 ELSE Len(outbox[q])
  <2>1. Len(outbox[r.from] \o ans) = Len(outbox[r.from]) + 1
    BY <1>2, <1>3, <1>5, ConcatProperties
  <2>2. outbox'[q] = IF q = r.from THEN outbox[r.from] \o ans ELSE outbox[q]
    BY <1>2, <1>6
  <2>3. QED
    BY <2>1, <2>2
<1>8. Cardinality(Asked(inbox, q)) = Cardinality(Asked(inbox', q)) + One(r.from = q)
    BY <1>1, <1>2, <1>6, AskedTail
<1>9. Cardinality(Asked(inbox', q)) \in Nat
  <2>1. Tail(inbox) \in Seq(Request)
    BY <1>1, <1>2, HeadTailProperties
  <2>2. QED
    BY <1>6, <2>1, AskedFinite
<1>10. Pending(q)' = Len(outbox'[q]) + Cardinality(Asked(inbox', q))
    BY DEF Pending, Asked
<1>11. /\ Pending(q) = Len(outbox[q]) + Cardinality(Asked(inbox, q))
       /\ Len(outbox[q]) \in Nat
    BY PendingTypes
<1>12. Cardinality(Asked(inbox, q)) = IF r.from = q THEN Cardinality(Asked(inbox', q)) + 1
                                      ELSE Cardinality(Asked(inbox', q))
    BY <1>8, <1>9 DEF One
<1>13. QED
    BY <1>7, <1>9, <1>10, <1>11, <1>12
-----------------------------------------------------------------------------
(* What they do to those who wait.                                         *)
LEMMA WaitingTypes ==
    ASSUME Inv, NEW p \in Peers
    PROVE  /\ IsFiniteSet(Busy(p)) /\ Cardinality(Busy(p)) \in Nat
           /\ Waiting(p) = Cardinality(Busy(p)) + Bit(main[p].at)
<1>1. IsFiniteSet(Busy(p))
    BY NetworkAssumption, FS_Subset DEF Busy
<1>2. QED
    BY <1>1, FS_CardinalityType DEF Waiting, Busy, Bit, Asking

LEMMA WaitingLater ==
    ASSUME NEW p \in Peers
    PROVE  /\ Waiting(p)' = Cardinality(Busy(p)') + Bit(main'[p].at)
           /\ Pending(p)' = Len(outbox'[p]) + Cardinality(Asked(inbox', p))
BY DEF Waiting, Busy, Bit, Asking, Pending, Asked
(* p's parent goes to x, and no other parent moves.                        *)
Moves(p, x) ==
    /\ main'[p].at = x
    /\ \A q \in Peers : q # p => main'[q].at = main[q].at

LEMMA MovesOne ==
    ASSUME Inv, NEW p \in Peers, NEW m, main' = [main EXCEPT ![p] = m]
    PROVE  Moves(p, m.at)
BY InvTypes DEF TypeOK, Moves

(* What is under way stays of the three kinds.                             *)
LEMMA SendKinds ==
    ASSUME Inv, Answerable, NEW r \in Request, r.type \in {"R", "S", "T"}, Send(r)
    PROVE  \A i \in 1..Len(inbox') : inbox'[i].type \in {"R", "S", "T"}
<1>1. inbox \in Seq(Request) /\ inbox' = Append(inbox, r)
    BY InvTypes DEF ChannelsTypeOK, Send
<1>2. PICK n \in Nat : n = Len(inbox)
    BY <1>1, LenProperties
<1>3. /\ Len(inbox') = n + 1
      /\ \A i \in 1..n : inbox'[i] = inbox[i]
      /\ inbox'[n + 1] = r
    BY <1>1, <1>2, AppendProperties
<1>4. \A i \in 1..(n + 1) : i \in 1..n \/ i = n + 1
    OBVIOUS
<1>5. QED
    BY <1>2, <1>3, <1>4 DEF Answerable

LEMMA TakeKinds ==
    ASSUME Inv, Answerable, inbox # <<>>, inbox' = Tail(inbox)
    PROVE  \A i \in 1..Len(inbox') : inbox'[i].type \in {"R", "S", "T"}
<1>1. inbox \in Seq(Request)
    BY InvTypes DEF ChannelsTypeOK
<1>2. PICK n \in Nat : n = Len(inbox)
    BY <1>1, LenProperties
<1>3. /\ Len(inbox') = n - 1
      /\ \A i \in 1..(n - 1) : inbox'[i] = inbox[i + 1] /\ i + 1 \in 1..n
    BY <1>1, <1>2, HeadTailProperties
<1>4. QED
    BY <1>2, <1>3 DEF Answerable

(* A parent asks: one more waits, one more request is under way.           *)
LEMMA AskCounts ==
    ASSUME Counted, NEW p \in Peers, NEW x \in Asking, x # "list", main[p].at \notin Asking,
           Moves(p, x), NEW r \in Request, r.from = p, r.type \in {"R", "S", "T"},
           Send(r), UNCHANGED <<outbox, kid>>
    PROVE  (Answerable /\ AnswersMatchReaders)'
<1>1. Inv /\ Answerable /\ AnswersMatchReaders
    BY DEF Counted
<1>2. Answerable'
  <2>1. \A i \in 1..Len(inbox') : inbox'[i].type \in {"R", "S", "T"}
    BY <1>1, SendKinds
  <2>2. \A q \in Peers : main'[q].at # "list"
    BY <1>1 DEF Moves, Answerable
  <2>3. QED
    BY <2>1, <2>2 DEF Answerable
<1>3. ASSUME NEW q \in Peers PROVE Waiting(q)' = Pending(q)'
  <2>1. Busy(q)' = Busy(q)
    BY DEF Busy
  <2>2. Cardinality(Asked(inbox', q)) = Cardinality(Asked(inbox, q)) + One(q = p)
    BY <1>1, SendPending DEF Asked
  <2>3. Bit(main'[q].at) = Bit(main[q].at) + One(q = p)
    BY DEF Moves, Bit, One
  <2>4. Waiting(q) = Pending(q)
    BY <1>1 DEF AnswersMatchReaders
  <2>5. One(q = p) \in Nat /\ Bit(main[q].at) \in Nat
    BY DEF One, Bit
  <2>6. Waiting(q)' = Cardinality(Busy(q)) + Bit(main'[q].at)
    BY <2>1, WaitingLater
  <2>7. Pending(q)' = Len(outbox[q]) + Cardinality(Asked(inbox', q))
    BY WaitingLater
  <2>8. PICK a \in Nat, b \in Nat, c \in Nat, d \in Nat :
          /\ a = Len(outbox[q]) /\ b = Cardinality(Asked(inbox, q))
          /\ c = Cardinality(Busy(q)) /\ d = Bit(main[q].at)
    BY <1>1, <2>5, PendingTypes, WaitingTypes
  <2>9. Waiting(q) = c + d /\ Pending(q) = a + b
    BY <1>1, <2>8, PendingTypes, WaitingTypes
  <2>10. PICK o \in Nat : o = One(q = p)
    BY <2>5
  <2>11. Pending(q)' = Pending(q) + o
    BY <2>2, <2>7, <2>8, <2>9, <2>10
  <2>12. Waiting(q)' = Waiting(q) + o
    BY <2>3, <2>6, <2>8, <2>9, <2>10
  <2>13. QED
    BY <2>4, <2>11, <2>12, Zenon
<1>4. QED
    BY <1>2, <1>3 DEF AnswersMatchReaders

(* A parent reads an answer, and waits no more.                            *)
LEMMA ReadCounts ==
    ASSUME Counted, NEW p \in Peers, NEW x, x \notin Asking, main[p].at \in Asking,
           Moves(p, x), Receive(p), UNCHANGED <<inbox, kid>>
    PROVE  (Answerable /\ AnswersMatchReaders)'
<1>1. Inv /\ Answerable /\ AnswersMatchReaders
    BY DEF Counted
<1>2. Answerable'
    BY <1>1 DEF Moves, Answerable, Asking
<1>3. ASSUME NEW q \in Peers PROVE Waiting(q)' = Pending(q)'
  <2>1. Busy(q)' = Busy(q)
    BY DEF Busy
  <2>2. Len(outbox'[q]) = Len(outbox[q]) - One(q = p)
    BY <1>1, ReceivePending
  <2>3. Bit(main'[q].at) = Bit(main[q].at) - One(q = p)
    BY DEF Moves, Bit, One
  <2>4. Waiting(q) = Pending(q)
    BY <1>1 DEF AnswersMatchReaders
  <2>5. One(q = p) \in Nat /\ Bit(main[q].at) \in Nat
    BY DEF One, Bit
  <2>6. Waiting(q)' = Cardinality(Busy(q)) + Bit(main'[q].at)
    BY <2>1, WaitingLater
  <2>7. Pending(q)' = Len(outbox'[q]) + Cardinality(Asked(inbox, q))
    BY WaitingLater
  <2>8. PICK a \in Nat, b \in Nat, c \in Nat, d \in Nat :
          /\ a = Len(outbox[q]) /\ b = Cardinality(Asked(inbox, q))
          /\ c = Cardinality(Busy(q)) /\ d = Bit(main[q].at)
    BY <1>1, <2>5, PendingTypes, WaitingTypes
  <2>9. Waiting(q) = c + d /\ Pending(q) = a + b
    BY <1>1, <2>8, PendingTypes, WaitingTypes
  <2>10. PICK o \in Nat : o = One(q = p)
    BY <2>5
  <2>11. Pending(q)' = Pending(q) - o
    BY <2>2, <2>7, <2>8, <2>9, <2>10
  <2>12. Waiting(q)' = Waiting(q) - o
    BY <2>3, <2>6, <2>8, <2>9, <2>10
  <2>13. QED
    BY <2>4, <2>11, <2>12, Zenon
<1>4. QED
    BY <1>2, <1>3 DEF AnswersMatchReaders

(* A parent reads an answer and asks again at once.                        *)
LEMMA AgainCounts ==
    ASSUME Counted, NEW p \in Peers, NEW x \in Asking, x # "list", main[p].at \in Asking,
           Moves(p, x), NEW r \in Request, r.from = p, r.type \in {"R", "S", "T"},
           Send(r), Receive(p), UNCHANGED kid
    PROVE  (Answerable /\ AnswersMatchReaders)'
<1>1. Inv /\ Answerable /\ AnswersMatchReaders
    BY DEF Counted
<1>2. Answerable'
  <2>1. \A i \in 1..Len(inbox') : inbox'[i].type \in {"R", "S", "T"}
    BY <1>1, SendKinds
  <2>2. \A q \in Peers : main'[q].at # "list"
    BY <1>1 DEF Moves, Answerable
  <2>3. QED
    BY <2>1, <2>2 DEF Answerable
<1>3. ASSUME NEW q \in Peers PROVE Waiting(q)' = Pending(q)'
  <2>1. Busy(q)' = Busy(q)
    BY DEF Busy
  <2>2. Cardinality(Asked(inbox', q)) = Cardinality(Asked(inbox, q)) + One(q = p)
    BY <1>1, SendPending DEF Asked
  <2>3. Len(outbox'[q]) = Len(outbox[q]) - One(q = p)
    BY <1>1, ReceivePending
  <2>4. Bit(main'[q].at) = Bit(main[q].at)
    BY DEF Moves, Bit
  <2>5. Waiting(q) = Pending(q)
    BY <1>1 DEF AnswersMatchReaders
  <2>6. One(q = p) \in Nat /\ Bit(main[q].at) \in Nat
    BY DEF One, Bit
  <2>7. QED
    BY <1>1, <2>1, <2>2, <2>3, <2>4, <2>5, <2>6, PendingTypes, WaitingTypes, WaitingLater
<1>4. QED
    BY <1>2, <1>3 DEF AnswersMatchReaders

(* Nobody asks and nobody reads.                                           *)
LEMMA RestCounts ==
    ASSUME Counted, UNCHANGED <<inbox, outbox>>,
           \A q \in Peers : /\ Busy(q)' = Busy(q)
                            /\ Bit(main'[q].at) = Bit(main[q].at)
                            /\ main'[q].at # "list"
    PROVE  (Answerable /\ AnswersMatchReaders)'
<1>1. Answerable'
    BY DEF Counted, Answerable
<1>2. ASSUME NEW q \in Peers PROVE Waiting(q)' = Pending(q)'
    BY PendingTypes, WaitingTypes, WaitingLater DEF Counted, AnswersMatchReaders
<1>3. QED
    BY <1>1, <1>2 DEF AnswersMatchReaders-----------------------------------------------------------------------------
(* The actions, one by one.                                                *)
LEMMA StartRegisterCounts ==
    ASSUME Counted, NEW p \in Peers, StartRegister(p)
    PROVE  (Answerable /\ AnswersMatchReaders)'
<1>1. Inv /\ main[p] \in Memory /\ main[p].at = "menu" /\ main[p].name \in Names
    BY InvTypes DEF Counted, StartRegister, Typed, Memory
<1>2. PICK c \in Contents :
          /\ Send(Pdu("R", p, main[p].name, c))
          /\ main' = [main EXCEPT ![p] = WithContent(Picked(p), "register", c)]
    BY Zenon DEF StartRegister, WithContent
<1>3. WithContent(Picked(p), "register", c).at = "register"
  <2>1. "register" \in Places
    BY DEF Places
  <2>2. QED
    BY <1>1, <2>1, PickedContent
<1>4. Moves(p, "register")
    BY <1>1, <1>2, <1>3, MovesOne
<1>5. PICK r \in Request : r = Pdu("R", p, main[p].name, c) /\ r.from = p /\ r.type = "R"
    BY <1>1, PduTypes
<1>6. Send(r) /\ UNCHANGED <<outbox, kid>>
    BY <1>2, <1>5 DEF StartRegister, local
<1>7. QED
    BY <1>1, <1>4, <1>5, <1>6, AskCounts DEF Asking

LEMMA StartDeregisterCounts ==
    ASSUME Counted, NEW p \in Peers, StartDeregister(p)
    PROVE  (Answerable /\ AnswersMatchReaders)'
<1>1. Inv /\ main[p] \in Memory /\ main[p].at = "menu" /\ main[p].name \in Names
    BY InvTypes DEF Counted, StartDeregister, Typed, Memory
<1>2. PICK c \in Contents :
          /\ Send(Pdu("T", p, main[p].name, c))
          /\ main' = [main EXCEPT ![p] = WithContent(Picked(p), "deregister", c)]
    BY Zenon DEF StartDeregister, WithContent
<1>3. WithContent(Picked(p), "deregister", c).at = "deregister"
  <2>1. "deregister" \in Places
    BY DEF Places
  <2>2. QED
    BY <1>1, <2>1, PickedContent
<1>4. Moves(p, "deregister")
    BY <1>1, <1>2, <1>3, MovesOne
<1>5. PICK r \in Request : r = Pdu("T", p, main[p].name, c) /\ r.from = p /\ r.type = "T"
    BY <1>1, PduTypes
<1>6. Send(r) /\ UNCHANGED <<outbox, kid>>
    BY <1>2, <1>5 DEF StartDeregister, local
<1>7. QED
    BY <1>1, <1>4, <1>5, <1>6, AskCounts DEF Asking

LEMMA StartSearchCounts ==
    ASSUME Counted, NEW p \in Peers, StartSearch(p)
    PROVE  (Answerable /\ AnswersMatchReaders)'
<1>1. Inv /\ main[p] \in Memory /\ main[p].at = "menu" /\ main[p].name \in Names
    BY InvTypes DEF Counted, StartSearch, Typed, Memory
<1>2. PICK c \in Contents :
          /\ Send(Pdu("S", p, main[p].name, c))
          /\ main' = [main EXCEPT ![p] = WithContent(Picked(p), "search", c)]
    BY Zenon DEF StartSearch, WithContent
<1>3. WithContent(Picked(p), "search", c).at = "search"
  <2>1. "search" \in Places
    BY DEF Places
  <2>2. QED
    BY <1>1, <2>1, PickedContent
<1>4. Moves(p, "search")
    BY <1>1, <1>2, <1>3, MovesOne
<1>5. PICK r \in Request : r = Pdu("S", p, main[p].name, c) /\ r.from = p /\ r.type = "S"
    BY <1>1, PduTypes
<1>6. Send(r) /\ UNCHANGED <<outbox, kid>>
    BY <1>2, <1>5 DEF StartSearch, local
<1>7. QED
    BY <1>1, <1>4, <1>5, <1>6, AskCounts DEF Asking

(* A parent at x that is not waiting goes to y, where it does not wait.    *)
LEMMA IdleCounts ==
    ASSUME Counted, NEW p \in Peers, NEW y, y \notin Asking, main[p].at \notin Asking,
           Moves(p, y), UNCHANGED <<inbox, outbox, kid>>
    PROVE  (Answerable /\ AnswersMatchReaders)'
<1>1. \A q \in Peers : Busy(q)' = Busy(q)
    BY DEF Busy
<1>2. \A q \in Peers : Bit(main'[q].at) = Bit(main[q].at) /\ main'[q].at # "list"
    BY DEF Moves, Bit, Asking, Counted, Answerable
<1>3. QED
    BY <1>1, <1>2, RestCounts

LEMMA LeaveMoves ==
    ASSUME Inv, NEW p \in Peers, NEW x \in {"gone", "failed"}, Leave(p, x)
    PROVE  Moves(p, x) /\ UNCHANGED kid
<1>1. [main[p] EXCEPT !.at = x].at = x
    BY InvTypes DEF Memory
<1>2. main' = [main EXCEPT ![p] = [main[p] EXCEPT !.at = x]] /\ UNCHANGED kid
    BY DEF Leave
<1>3. PICK m : m = [main[p] EXCEPT !.at = x] /\ m.at = x
    BY <1>1
<1>4. main' = [main EXCEPT ![p] = m]
    BY <1>2, <1>3
<1>5. Moves(p, m.at)
    BY <1>4, MovesOne
<1>6. QED
    BY <1>2, <1>3, <1>5 DEF Moves

LEMMA DoneMoves ==
    ASSUME Inv, NEW p \in Peers, NEW m \in Memory, main' = [main EXCEPT ![p] = Done(m)]
    PROVE  \E x \in {"menu", "accept"} : Moves(p, x)
BY DoneMemory, MovesOne

LEMMA StartQuitCounts ==
    ASSUME Counted, NEW p \in Peers, StartQuit(p)
    PROVE  (Answerable /\ AnswersMatchReaders)'
<1>1. /\ Inv /\ main[p] \in Memory /\ main[p].at = "menu" /\ main[p].name \in Names
      /\ main[p].regs \in Seq(Contents)
    BY InvTypes DEF Counted, StartQuit, Typed, Memory
<1>2. CASE Leave(p, "gone") /\ UNCHANGED server
    BY <1>1, <1>2, LeaveMoves, IdleCounts DEF server, Asking
<1>3. CASE /\ main[p].regs # <<>>
           /\ Send(Pdu("T", p, main[p].name, Last(main[p].regs)))
           /\ main' = [main EXCEPT ![p] = [Picked(p) EXCEPT !.at = "quit",
                                                !.left = Len(main[p].regs) - 1]]
           /\ UNCHANGED <<outbox, index, local>>
  <2>1. PICK n \in Nat : n = Len(main[p].regs)
    BY <1>1, LenProperties
  <2>2. n # 0 /\ main[p].regs[n] \in Contents
    BY <1>1, <1>3, <2>1, EmptySeq, ElementOfSeq
  <2>3. PICK c \in Contents : c = Last(main[p].regs)
    BY <2>1, <2>2 DEF Last
  <2>4. PICK k \in Nat : k = Len(main[p].regs) - 1
    <3>1. n - 1 \in Nat
      BY <2>2
    <3>2. QED
      BY <2>1, <3>1
  <2>5. WithLeft(Picked(p), "quit", k).at = "quit"
    <3>1. "quit" \in Places
      BY DEF Places
    <3>2. QED
      BY <1>1, <3>1, PickedLeft
  <2>6. main' = [main EXCEPT ![p] = WithLeft(Picked(p), "quit", k)]
    BY <1>3, <2>4, Zenon DEF WithLeft
  <2>7. Moves(p, "quit")
    BY <1>1, <2>5, <2>6, MovesOne
  <2>8. PICK r \in Request : r = Pdu("T", p, main[p].name, c) /\ r.from = p /\ r.type = "T"
    BY <1>1, PduTypes
  <2>9. Send(r) /\ UNCHANGED <<outbox, kid>>
    BY <1>3, <2>3, <2>8 DEF local
  <2>10. QED
    BY <1>1, <2>7, <2>8, <2>9, AskCounts DEF Asking
<1>4. QED
    BY <1>2, <1>3 DEF StartQuit

LEMMA ReadQuitCounts ==
    ASSUME Counted, NEW p \in Peers, ReadQuit(p)
    PROVE  (Answerable /\ AnswersMatchReaders)'
<1>1. /\ Inv /\ main[p] \in Memory /\ main[p].at = "quit" /\ main[p].regs \in Seq(Contents)
      /\ main[p].left \in Nat /\ main[p].left < Len(main[p].regs)
    BY InvTypes DEF Counted, ReadQuit, Memory, AtWork
<1>2. CASE Receive(p) /\ Leave(p, "gone") /\ UNCHANGED <<inbox, index>>
    BY <1>1, <1>2, LeaveMoves, ReadCounts DEF Asking
<1>3. CASE /\ Receive(p)
           /\ main[p].left > 0
           /\ Send(Pdu("T", p, Head(outbox[p]).peer, main[p].regs[main[p].left]))
           /\ main' = [main EXCEPT ![p].left = main[p].left - 1]
           /\ UNCHANGED <<index, local>>
  <2>1. PICK n \in Nat : n = Len(main[p].regs)
    BY <1>1, LenProperties
  <2>2. PICK c \in Contents : c = main[p].regs[main[p].left]
    BY <1>1, <1>3, <2>1, ElementOfSeq
  <2>3. PICK k : k = main[p].left - 1
    OBVIOUS
  <2>4. [main[p] EXCEPT !.left = k].at = "quit"
    BY <1>1 DEF Memory
  <2>5. PICK m : m = [main[p] EXCEPT !.left = k] /\ m.at = "quit"
    BY <2>4
  <2>6. main' = [main EXCEPT ![p] = m]
    BY <1>3, <2>3, <2>5
  <2>7. Moves(p, "quit")
    BY <1>1, <2>5, <2>6, MovesOne
  <2>8. Head(outbox[p]) \in Reply
    BY <1>1, <1>3, ReceiveKeepsAnswers
  <2>9. PICK a \in AnyName : a = Head(outbox[p]).peer
    BY <2>8 DEF Reply
  <2>10. PICK r \in Request : r = Pdu("T", p, a, c) /\ r.from = p /\ r.type = "T"
    BY PduTypes
  <2>11. Send(r) /\ UNCHANGED kid
    BY <1>3, <2>2, <2>9, <2>10 DEF local
  <2>12. QED
    BY <1>1, <1>3, <2>7, <2>10, <2>11, AgainCounts DEF Asking
<1>4. QED
    BY <1>2, <1>3 DEF ReadQuit

LEMMA DoneReading ==
    ASSUME Counted, NEW p \in Peers, NEW m \in Memory, main' = [main EXCEPT ![p] = Done(m)],
           main[p].at \in Asking, Receive(p), UNCHANGED <<inbox, kid>>
    PROVE  (Answerable /\ AnswersMatchReaders)'
<1>1. PICK x \in {"menu", "accept"} : Moves(p, x)
    BY DoneMoves DEF Counted
<1>2. QED
    BY <1>1, ReadCounts DEF Asking

LEMMA EndRegisterCounts ==
    ASSUME Counted, NEW p \in Peers, EndRegister(p)
    PROVE  (Answerable /\ AnswersMatchReaders)'
<1>1. /\ Inv /\ main[p] \in Memory /\ main[p].at = "register" /\ main[p].content \in Contents
      /\ main[p].at \in Asking
    BY InvTypes DEF Counted, EndRegister, AtWork, Asking
<1>2. Receive(p) /\ UNCHANGED <<inbox, kid>>
    BY DEF EndRegister, local
<1>3. CASE main' = [main EXCEPT ![p].at = "rename"]
  <2>1. [main[p] EXCEPT !.at = "rename"].at = "rename"
    BY <1>1 DEF Memory
  <2>2. PICK m : m = [main[p] EXCEPT !.at = "rename"] /\ m.at = "rename"
    BY <2>1
  <2>3. main' = [main EXCEPT ![p] = m]
    BY <1>3, <2>2
  <2>4. Moves(p, "rename")
    BY <1>1, <2>2, <2>3, MovesOne
  <2>5. QED
    BY <1>1, <1>2, <2>4, ReadCounts DEF Asking
<1>4. CASE main' = [main EXCEPT ![p] = Done(Remember(main[p]))]
    BY <1>1, <1>2, <1>4, RememberMemory, DoneReading
<1>5. CASE main' = [main EXCEPT ![p] = Done(main[p])]
    BY <1>1, <1>2, <1>5, DoneReading
<1>6. QED
    BY <1>3, <1>4, <1>5 DEF EndRegister

LEMMA KeepNameCounts ==
    ASSUME Counted, NEW p \in Peers, KeepName(p)
    PROVE  (Answerable /\ AnswersMatchReaders)'
<1>1. /\ Inv /\ main[p] \in Memory /\ main[p].at = "rename"
      /\ main' = [main EXCEPT ![p] = Done(main[p])] /\ UNCHANGED <<inbox, outbox, kid>>
    BY InvTypes DEF Counted, KeepName, server, local
<1>2. PICK x \in {"menu", "accept"} : Moves(p, x)
    BY <1>1, DoneMoves
<1>3. QED
    BY <1>1, <1>2, IdleCounts DEF Asking

LEMMA EndDeregisterCounts ==
    ASSUME Counted, NEW p \in Peers, EndDeregister(p)
    PROVE  (Answerable /\ AnswersMatchReaders)'
BY InvTypes, DoneReading DEF Counted, EndDeregister, Asking, local

LEMMA EndSearchCounts ==
    ASSUME Counted, NEW p \in Peers, EndSearch(p)
    PROVE  (Answerable /\ AnswersMatchReaders)'
<1> DEFINE a == Head(outbox[p])
<1>1. /\ Inv /\ main[p] \in Memory /\ main[p].at = "search" /\ main[p].at \in Asking
      /\ Receive(p) /\ UNCHANGED inbox
    BY InvTypes DEF Counted, EndSearch, Asking
<1> HIDE DEF a
<1>2. CASE Connect(p, a)
  <2>1. [main[p] EXCEPT !.at = "download"].at = "download"
    BY <1>1 DEF Memory
  <2>2. PICK m : m = [main[p] EXCEPT !.at = "download"] /\ m.at = "download"
    BY <2>1
  <2>3. main' = [main EXCEPT ![p] = m] /\ UNCHANGED kid
    BY <1>2, <2>2 DEF Connect
  <2>4. Moves(p, "download")
    BY <1>1, <2>2, <2>3, MovesOne
  <2>5. QED
    BY <1>1, <2>3, <2>4, ReadCounts DEF Asking
<1>3. CASE Refused(p, a)
    BY <1>1, <1>3, LeaveMoves, ReadCounts DEF Refused, Asking
<1>4. CASE NothingFound(p, a)
    BY <1>1, <1>4, DoneReading DEF NothingFound, local
<1>5. QED
    BY <1>2, <1>3, <1>4 DEF EndSearch, a

LEMMA EndDownloadCounts ==
    ASSUME Counted, NEW p \in Peers, EndDownload(p)
    PROVE  (Answerable /\ AnswersMatchReaders)'
<1>1. /\ Inv /\ main[p] \in Memory /\ main[p].at = "download" /\ main[p].at \notin Asking
      /\ main[p].content \in Contents /\ main[p].name \in Names
      /\ UNCHANGED <<outbox, kid>>
    BY InvTypes DEF Counted, EndDownload, Leave, AtWork, Memory, Asking
<1>2. CASE main' = [main EXCEPT ![p] = Done(main[p])] /\ UNCHANGED inbox
  <2>1. PICK x \in {"menu", "accept"} : Moves(p, x)
    BY <1>1, <1>2, DoneMoves
  <2>2. QED
    BY <1>1, <1>2, <2>1, IdleCounts DEF Asking
<1>3. CASE /\ Send(Pdu("R", p, main[p].name, main[p].content))
           /\ main' = [main EXCEPT ![p].at = "publish"]
  <2>1. [main[p] EXCEPT !.at = "publish"].at = "publish"
    BY <1>1 DEF Memory
  <2>2. PICK m : m = [main[p] EXCEPT !.at = "publish"] /\ m.at = "publish"
    BY <2>1
  <2>3. main' = [main EXCEPT ![p] = m]
    BY <1>3, <2>2
  <2>4. Moves(p, "publish")
    BY <1>1, <2>2, <2>3, MovesOne
  <2>5. PICK r \in Request : /\ r = Pdu("R", p, main[p].name, main[p].content)
                             /\ r.from = p /\ r.type = "R"
    BY <1>1, PduTypes
  <2>6. Send(r)
    BY <1>3, <2>5
  <2>7. QED
    BY <1>1, <2>4, <2>5, <2>6, AskCounts DEF Asking
<1>4. CASE Leave(p, "failed") /\ UNCHANGED inbox
    BY <1>1, <1>4, LeaveMoves, IdleCounts DEF Asking
<1>5. QED
    BY <1>2, <1>3, <1>4 DEF EndDownload

LEMMA EndPublishCounts ==
    ASSUME Counted, NEW p \in Peers, EndPublish(p)
    PROVE  (Answerable /\ AnswersMatchReaders)'
<1>1. /\ Inv /\ main[p] \in Memory /\ main[p].at = "publish" /\ main[p].at \in Asking
      /\ main[p].content \in Contents /\ Receive(p) /\ UNCHANGED kid
    BY InvTypes DEF Counted, EndPublish, AtWork, Asking, local
<1>2. CASE \E n \in Names :
              /\ Send(Pdu("R", p, n, main[p].content))
              /\ main' = [main EXCEPT ![p] = [main[p] EXCEPT !.name = n, !.own = FALSE]]
  <2>1. PICK n \in Names :
              /\ Send(Pdu("R", p, n, main[p].content))
              /\ main' = [main EXCEPT ![p] = [main[p] EXCEPT !.name = n, !.own = FALSE]]
    BY <1>2
  <2>2. [main[p] EXCEPT !.name = n, !.own = FALSE].at = "publish"
    BY <1>1 DEF Memory
  <2>3. PICK m : m = [main[p] EXCEPT !.name = n, !.own = FALSE] /\ m.at = "publish"
    BY <2>2
  <2>4. main' = [main EXCEPT ![p] = m]
    BY <2>1, <2>3
  <2>5. Moves(p, "publish")
    BY <1>1, <2>3, <2>4, MovesOne
  <2>6. PICK r \in Request : /\ r = Pdu("R", p, n, main[p].content)
                             /\ r.from = p /\ r.type = "R"
    BY <1>1, PduTypes
  <2>7. Send(r)
    BY <2>1, <2>6
  <2>8. QED
    BY <1>1, <2>5, <2>6, <2>7, AgainCounts DEF Asking
<1>3. CASE UNCHANGED inbox /\ main' = [main EXCEPT ![p] = Done(main[p])]
    BY <1>1, <1>3, DoneReading
<1>4. CASE UNCHANGED inbox /\ main' = [main EXCEPT ![p] = Done(Remember(main[p]))]
    BY <1>1, <1>4, RememberMemory, DoneReading
<1>5. QED
    BY <1>2, <1>3, <1>4 DEF EndPublish

LEMMA StartAcceptCounts ==
    ASSUME Counted, NEW p \in Peers, StartAccept(p)
    PROVE  (Answerable /\ AnswersMatchReaders)'
<1>1. Inv /\ main[p] \in Memory /\ main[p].at = "menu"
    BY InvTypes DEF Counted, StartAccept, Typed
<1>2. "await" \in Places
    BY DEF Places
<1>3. PICK m \in Memory : m = [Picked(p) EXCEPT !.at = "await"] /\ m.at = "await"
    BY <1>1, <1>2, PickedAt
<1>4. main' = [main EXCEPT ![p] = m] /\ UNCHANGED <<inbox, outbox, kid>>
    BY <1>3 DEF StartAccept, server, local
<1>5. Moves(p, "await")
    BY <1>1, <1>3, <1>4, MovesOne
<1>6. QED
    BY <1>1, <1>4, <1>5, IdleCounts DEF Asking
-----------------------------------------------------------------------------
(* The children.                                                           *)
Becomes(p, k, n) == kid' = [kid EXCEPT ![p][k] = n]

LEMMA KidRow ==
    ASSUME Inv, NEW p \in Peers, NEW k \in Kids, NEW n, Becomes(p, k, n)
    PROVE  /\ kid'[p][k] = n
           /\ \A r \in Peers, j \in Kids : r # p \/ j # k => kid'[r][j] = kid[r][j]
<1>1. kid \in [Peers -> [Kids -> Child \cup {None}]]
    BY InvTypes DEF TypeOK
<1>2. PICK row : row = [kid[p] EXCEPT ![k] = n]
    OBVIOUS
<1>3. row[k] = n /\ \A j \in Kids : j # k => row[j] = kid[p][j]
    BY <1>1, <1>2
<1>4. kid' = [kid EXCEPT ![p] = row]
    BY <1>2 DEF Becomes
<1>5. kid'[p] = row /\ \A r \in Peers : r # p => kid'[r] = kid[r]
    BY <1>1, <1>4
<1>6. QED
    BY <1>3, <1>5

LEMMA AcceptCounts ==
    ASSUME Counted, NEW p \in Peers, NEW k \in Kids, Accept(p, k)
    PROVE  (Answerable /\ AnswersMatchReaders)'
<1>1. /\ Inv /\ main[p] \in Memory /\ main[p].at \in {"menu", "await", "accept"}
      /\ kid[p][k] = None /\ UNCHANGED <<inbox, outbox>>
    BY InvTypes DEF Counted, Accept, server
<1>2. PICK n : Becomes(p, k, n) /\ n.content = None
  <2>1. PICK n : n = [client |-> Head(backlog[p]), name |-> main[p].name, content |-> None]
    OBVIOUS
  <2>2. n.content = None
    BY <2>1
  <2>3. Becomes(p, k, n)
    BY <2>1, Zenon DEF Accept, Becomes
  <2>4. QED
    BY <2>2, <2>3, Zenon
<1>3. /\ kid'[p][k] = n
      /\ \A r \in Peers, j \in Kids : r # p \/ j # k => kid'[r][j] = kid[r][j]
    BY <1>1, <1>2, KidRow
<1>4. \A q \in Peers : Busy(q)' = Busy(q)
    BY <1>1, <1>2, <1>3 DEF Busy
<1>5. PICK x \in {"menu", "accept"} : Moves(p, x)
  <2>1. CASE main' = [main EXCEPT ![p] = Done(main[p])]
    BY <1>1, <2>1, DoneMoves
  <2>2. CASE main' = [main EXCEPT ![p] = [main[p] EXCEPT !.at = "menu"]]
    <3>1. [main[p] EXCEPT !.at = "menu"].at = "menu"
      BY <1>1 DEF Memory
    <3>2. PICK m : m = [main[p] EXCEPT !.at = "menu"] /\ m.at = "menu"
      BY <3>1
    <3>3. main' = [main EXCEPT ![p] = m]
      BY <2>2, <3>2
    <3>4. QED
      BY <1>1, <3>2, <3>3, MovesOne
  <2>3. QED
    BY <2>1, <2>2 DEF Accept
<1>6. \A q \in Peers : Bit(main'[q].at) = Bit(main[q].at) /\ main'[q].at # "list"
    BY <1>1, <1>5 DEF Moves, Bit, Asking, Counted, Answerable
<1>7. QED
    BY <1>1, <1>4, <1>6, RestCounts

LEMMA RejectCounts ==
    ASSUME Counted, NEW p \in Peers, NEW k \in Kids, Reject(p, k)
    PROVE  (Answerable /\ AnswersMatchReaders)'
<1>1. /\ Inv /\ kid[p][k] # None /\ kid[p][k].content = None
      /\ kid' = [kid EXCEPT ![p][k] = None] /\ UNCHANGED <<inbox, outbox, main>>
    BY DEF Counted, Reject, server
<1>2. /\ kid'[p][k] = None
      /\ \A r \in Peers, j \in Kids : r # p \/ j # k => kid'[r][j] = kid[r][j]
  <2>1. Becomes(p, k, None)
    BY DEF Reject, Becomes
  <2>2. QED
    BY <1>1, <2>1, KidRow
<1>3. \A q \in Peers : Busy(q)' = Busy(q)
    BY <1>1, <1>2 DEF Busy
<1>4. \A q \in Peers : Bit(main'[q].at) = Bit(main[q].at) /\ main'[q].at # "list"
    BY <1>1 DEF Counted, Answerable
<1>5. QED
    BY <1>1, <1>3, <1>4, RestCounts

(* A child asks to be deregistered: one more waits.                        *)
LEMMA SendFileCounts ==
    ASSUME Counted, NEW p \in Peers, NEW k \in Kids, SendFile(p, k)
    PROVE  (Answerable /\ AnswersMatchReaders)'
<1>1. /\ Inv /\ Answerable /\ AnswersMatchReaders
      /\ kid[p][k] # None /\ kid[p][k].content = None
      /\ UNCHANGED <<outbox, main, backlog>>
    BY DEF Counted, SendFile
<1>2. PICK q \in Peers, c \in Contents :
          q = kid[p][k].client /\ c = conn[q].want /\ kid[p][k].name \in Names
    BY <1>1, ServedClient
<1>3. PICK g \in Stream : conn' = [conn EXCEPT ![q].got = g]
    BY <1>2 DEF SendFile, Stream
<1>4. /\ conn' = [conn EXCEPT ![kid[p][k].client].got = g]
      /\ kid' = [kid EXCEPT ![p][k].content = c]
    BY <1>2, <1>3 DEF SendFile
<1>5. /\ kid'[p][k] # None /\ kid'[p][k].content = c
      /\ \A r \in Peers, j \in Kids : r # p \/ j # k => kid'[r][j] = kid[r][j]
  <2>1. PICK n : n = [kid[p][k] EXCEPT !.content = c]
    OBVIOUS
  <2>2. kid[p][k] \in Child
    BY <1>1, InvTypes
  <2>3. n \in Child /\ n.content = c
    BY <2>1, <2>2 DEF Child
  <2>4. Becomes(p, k, n)
    BY <1>4, <2>1 DEF Becomes
  <2>5. /\ kid'[p][k] = n
        /\ \A r \in Peers, j \in Kids : r # p \/ j # k => kid'[r][j] = kid[r][j]
    BY <1>1, <2>4, KidRow
  <2>6. QED
    BY <2>3, <2>5, NoneAssumption
<1>6. c # None
    BY NoneAssumption
<1>7. /\ Busy(p)' = Busy(p) \cup {k} /\ k \notin Busy(p)
      /\ \A r \in Peers : r # p => Busy(r)' = Busy(r)
    BY <1>1, <1>5, <1>6 DEF Busy
<1>8. PICK r \in Request : r = Pdu("T", p, kid[p][k].name, c) /\ r.from = p /\ r.type = "T"
    BY <1>2, PduTypes
<1>9. Send(r)
    BY <1>2, <1>8 DEF SendFile
<1>10. Answerable'
  <2>1. \A i \in 1..Len(inbox') : inbox'[i].type \in {"R", "S", "T"}
    BY <1>1, <1>8, <1>9, SendKinds
  <2>2. QED
    BY <1>1, <2>1 DEF Answerable
<1>11. ASSUME NEW s \in Peers PROVE Waiting(s)' = Pending(s)'
  <2>1. PICK o \in Nat : o = One(s = p)
    BY DEF One
  <2>2. Cardinality(Asked(inbox', s)) = Cardinality(Asked(inbox, s)) + o
    BY <1>1, <1>8, <1>9, <2>1, SendPending DEF Asked
  <2>3. Cardinality(Busy(s)') = Cardinality(Busy(s)) + o
    BY <1>1, <1>7, <2>1, WaitingTypes, FS_AddElement DEF One
  <2>4. PICK a \in Nat, b \in Nat, e \in Nat, d \in Nat :
          /\ a = Len(outbox[s]) /\ b = Cardinality(Asked(inbox, s))
          /\ e = Cardinality(Busy(s)) /\ d = Bit(main[s].at)
    BY <1>1, PendingTypes, WaitingTypes DEF Bit
  <2>5. Waiting(s) = e + d /\ Pending(s) = a + b
    BY <1>1, <2>4, PendingTypes, WaitingTypes
  <2>6. Pending(s)' = Pending(s) + o
    BY <1>1, <2>2, <2>4, <2>5, WaitingLater
  <2>7. Waiting(s)' = Waiting(s) + o
    BY <1>1, <2>3, <2>4, <2>5, WaitingLater
  <2>8. Waiting(s) = Pending(s)
    BY <1>1 DEF AnswersMatchReaders
  <2>9. QED
    BY <2>6, <2>7, <2>8, Zenon
<1>12. QED
    BY <1>10, <1>11 DEF AnswersMatchReaders

(* A child reads the answer, and is gone.                                  *)
LEMMA EndChildCounts ==
    ASSUME Counted, NEW p \in Peers, NEW k \in Kids, EndChild(p, k)
    PROVE  (Answerable /\ AnswersMatchReaders)'
<1>1. /\ Inv /\ Answerable /\ AnswersMatchReaders
      /\ kid[p][k] # None /\ kid[p][k].content # None /\ Receive(p)
      /\ kid' = [kid EXCEPT ![p][k] = None] /\ UNCHANGED <<inbox, main>>
    BY DEF Counted, EndChild
<1>2. /\ kid'[p][k] = None
      /\ \A r \in Peers, j \in Kids : r # p \/ j # k => kid'[r][j] = kid[r][j]
  <2>1. Becomes(p, k, None)
    BY DEF EndChild, Becomes
  <2>2. QED
    BY <1>1, <2>1, KidRow
<1>3. /\ Busy(p)' = Busy(p) \ {k} /\ k \in Busy(p)
      /\ \A r \in Peers : r # p => Busy(r)' = Busy(r)
    BY <1>1, <1>2 DEF Busy
<1>4. Answerable'
    BY <1>1 DEF Answerable
<1>5. ASSUME NEW s \in Peers PROVE Waiting(s)' = Pending(s)'
  <2>1. PICK o \in Nat : o = One(s = p)
    BY DEF One
  <2>2. Len(outbox'[s]) = Len(outbox[s]) - o
    BY <1>1, <2>1, ReceivePending
  <2>3. Cardinality(Busy(s)') = Cardinality(Busy(s)) - o
    BY <1>1, <1>3, <2>1, WaitingTypes, FS_RemoveElement DEF One
  <2>4. PICK a \in Nat, b \in Nat, e \in Nat, d \in Nat :
          /\ a = Len(outbox[s]) /\ b = Cardinality(Asked(inbox, s))
          /\ e = Cardinality(Busy(s)) /\ d = Bit(main[s].at)
    BY <1>1, PendingTypes, WaitingTypes DEF Bit
  <2>5. Waiting(s) = e + d /\ Pending(s) = a + b
    BY <1>1, <2>4, PendingTypes, WaitingTypes
  <2>6. Pending(s)' = Pending(s) - o
    BY <1>1, <2>2, <2>4, <2>5, WaitingLater
  <2>7. Waiting(s)' = Waiting(s) - o
    BY <1>1, <2>3, <2>4, <2>5, WaitingLater
  <2>8. Waiting(s) = Pending(s)
    BY <1>1 DEF AnswersMatchReaders
  <2>9. QED
    BY <2>6, <2>7, <2>8, Zenon
<1>6. QED
    BY <1>4, <1>5 DEF AnswersMatchReaders

LEMMA ServeCounts ==
    ASSUME Counted, ServerTurn
    PROVE  (Answerable /\ AnswersMatchReaders)'
<1>1. /\ Inv /\ Answerable /\ AnswersMatchReaders
      /\ Server!Serve /\ UNCHANGED <<main, kid>>
    BY DEF Counted, ServerTurn, local
<1>2. Answerable'
  <2>1. inbox # <<>> /\ inbox' = Tail(inbox)
    BY <1>1, ServeAnswers DEF Answers, Answer
  <2>2. QED
    BY <1>1, <2>1, TakeKinds DEF Answerable
<1>3. ASSUME NEW q \in Peers PROVE Waiting(q)' = Pending(q)'
  <2>1. Pending(q)' = Pending(q)
    BY <1>1, ServePending
  <2>2. Waiting(q)' = Waiting(q)
    BY <1>1 DEF Waiting
  <2>3. QED
    BY <1>1, <2>1, <2>2 DEF AnswersMatchReaders
<1>4. QED
    BY <1>2, <1>3 DEF AnswersMatchReaders

LEMMA NextCounts ==
    ASSUME Reliable, Counted, [Next]_vars
    PROVE  Counted'
<1>1. Inv'
    BY NextKeeps DEF Counted, Kept
<1>2. SUFFICES (Answerable /\ AnswersMatchReaders)'
    BY <1>1 DEF Counted
<1>3. CASE ServerTurn
    BY <1>3, ServeCounts
<1>4. CASE NetworkLoss
    BY <1>4 DEF Reliable, NetworkLoss
<1>5. ASSUME NEW p \in Peers, User(p)
      PROVE  (Answerable /\ AnswersMatchReaders)'
  <2>1. ~ StartList(p)
    BY DEF Reliable, StartList, Typed
  <2>2. QED
    BY <1>5, <2>1, StartRegisterCounts, StartDeregisterCounts, StartSearchCounts,
       StartQuitCounts, StartAcceptCounts DEF User
<1>6. ASSUME NEW p \in Peers, Answered(p)
      PROVE  (Answerable /\ AnswersMatchReaders)'
    BY <1>6, KeepNameCounts DEF Answered, Rename, Reliable
<1>7. ASSUME NEW p \in Peers, Parent(p)
      PROVE  (Answerable /\ AnswersMatchReaders)'
  <2>1. ~ ReadList(p)
    BY DEF Counted, Answerable, ReadList
  <2>2. QED
    BY <1>7, <2>1, EndRegisterCounts, EndDeregisterCounts, ReadQuitCounts, EndSearchCounts,
       EndDownloadCounts, EndPublishCounts DEF Parent
<1>8. ASSUME NEW p \in Peers, NEW k \in Kids, Accept(p, k) \/ Work(p, k)
      PROVE  (Answerable /\ AnswersMatchReaders)'
    BY <1>8, AcceptCounts, RejectCounts, SendFileCounts, EndChildCounts DEF Work
<1>9. CASE UNCHANGED vars
  <2>1. UNCHANGED <<inbox, outbox, main, kid>>
    BY <1>9 DEF vars
  <2>2. QED
    BY <2>1, RestCounts DEF Counted, Answerable, Busy
<1>10. QED
    BY <1>3, <1>4, <1>5, <1>6, <1>7, <1>8, <1>9 DEF Next
-----------------------------------------------------------------------------
LEMMA InitCounts ==
    ASSUME Init
    PROVE  Counted
<1>1. Inv /\ inbox = <<>> /\ \A p \in Peers : outbox[p] = <<>>
    BY InitHolds DEF Server!Init, Server!ChannelsInit
<1>2. \A p \in Peers : main[p].at = "menu" /\ \A k \in Kids : kid[p][k] = None
  <2>1. PICK names \in FirstNames :
            main = [p \in Peers |->
                       [at |-> "menu", name |-> names[p], content |-> None,
                        regs |-> <<>>, ready |-> FALSE, left |-> 0, typed |-> 0,
                        own |-> \A q \in Peers \ {p} : names[q] # names[p]]]
    BY DEF Init
  <2>2. kid = [p \in Peers |-> [k \in Kids |-> None]]
    BY DEF Init
  <2>3. QED
    BY <2>1, <2>2
<1>3. Len(inbox) = 0
    BY <1>1, EmptySeq
<1>4. Answerable
    BY <1>2, <1>3 DEF Answerable
<1>5. ASSUME NEW p \in Peers PROVE Waiting(p) = Pending(p)
  <2>1. Busy(p) = {}
    BY <1>2 DEF Busy
  <2>2. Asked(inbox, p) = {}
    BY <1>3 DEF Asked
  <2>3. Bit(main[p].at) = 0
    BY <1>2 DEF Bit, Asking
  <2>4. Len(outbox[p]) = 0
    BY <1>1, EmptySeq
  <2>5. Waiting(p) = 0
    BY <1>1, <2>1, <2>3, WaitingTypes, FS_EmptySet
  <2>6. Pending(p) = 0
    <3>1. Cardinality(Asked(inbox, p)) = 0
      BY <2>2, FS_EmptySet
    <3>2. Pending(p) = Len(outbox[p]) + Cardinality(Asked(inbox, p))
      BY <1>1, PendingTypes
    <3>3. QED
      BY <2>4, <3>1, <3>2
  <2>7. QED
    BY <2>5, <2>6
<1>6. QED
    BY <1>1, <1>4, <1>5 DEF Counted, AnswersMatchReaders

LEMMA AlwaysCounted ==
    ASSUME Reliable
    PROVE  Spec => []Counted
<1>1. Init => Counted
    BY InitCounts
<1>2. Counted /\ [Next]_vars => Counted'
    BY NextCounts
<1>3. QED
    BY <1>1, <1>2, PTL DEF Spec

(* The processes of a peer wait for exactly as many answers as the shared  *)
(* socket will give them: none is left without one, and none that reads    *)
(* can take one too many.                                                  *)
THEOREM EveryAnswerHasItsReader ==
    ASSUME Reliable
    PROVE  Spec => []AnswersMatchReaders
<1>1. Counted => AnswersMatchReaders
    BY DEF Counted
<1>2. QED
    BY <1>1, AlwaysCounted, PTL
-----------------------------------------------------------------------------
(* When nothing moves any more, nobody waits for the server.               *)
LEMMA HaltedAsksNothing ==
    ASSUME Counted, Halted, NEW p \in Peers
    PROVE  main[p].at \notin Asking
<1>1. Inv /\ inbox = <<>> /\ outbox[p] = <<>>
    BY DEF Counted, Halted
<1>2. Len(inbox) = 0 /\ Len(outbox[p]) = 0
    BY <1>1, EmptySeq
<1>3. Asked(inbox, p) = {}
    BY <1>2 DEF Asked
<1>4. Pending(p) = 0
  <2>1. Cardinality(Asked(inbox, p)) = 0
    BY <1>3, FS_EmptySet
  <2>2. Pending(p) = Len(outbox[p]) + Cardinality(Asked(inbox, p))
    BY <1>1, PendingTypes
  <2>3. QED
    BY <1>2, <2>1, <2>2
<1>5. Waiting(p) = 0
    BY <1>4 DEF Counted, AnswersMatchReaders
<1>6. Busy(p) = {}
    BY DEF Halted, Busy
<1>7. Cardinality(Busy(p)) = 0
    BY <1>6, FS_EmptySet
<1>8. Bit(main[p].at) = 0
    BY <1>1, <1>5, <1>7, WaitingTypes DEF Bit
<1>9. QED
    BY <1>8 DEF Bit

(* And who is at a place where a client can be left waiting downloads      *)
(* itself.                                                                 *)
LEMMA HaltedPlaces ==
    ASSUME Counted, Halted, NEW p \in Peers
    PROVE  main[p].at \in {"menu", "await", "accept", "gone", "failed", "download"}
<1>1. main[p].at \in Places
    BY InvTypes DEF Counted, Memory
<1>2. main[p].at \notin Asking /\ main[p].at # "rename"
    BY HaltedAsksNothing DEF Halted
<1>3. QED
    BY <1>1, <1>2 DEF Places, Asking

LEMMA HaltedWaitsForDownloader ==
    ASSUME Counted, Halted, NEW p \in Peers, main[p].at = "download"
    PROVE  /\ conn[p].to \in Peers /\ main[conn[p].to].at = "download"
           /\ Contains(backlog[conn[p].to], p)
<1>1. Inv /\ Attended /\ Left
    BY DEF Counted, Inv, Links
<1>2. conn[p] \in Connection /\ conn[p].open
    BY <1>1 DEF Attended, Halted
<1>3. PICK r \in Peers : r = conn[p].to
    BY <1>2 DEF Connection
<1>4. \A k \in Kids : kid[r][k] = None
    BY DEF Halted
<1>5. PICK i \in 1..Len(backlog[r]) : backlog[r][i] = p
    BY <1>1, <1>2, <1>3, <1>4 DEF Attended
<1>6. backlog[r] \in Seq(Peers)
    BY <1>1, InvTypes
<1>7. backlog[r] # <<>>
    BY <1>5, <1>6, EmptySeq
<1>8. main[r].at \notin {"menu", "await", "accept"}
    BY <1>7 DEF Halted
<1>9. main[r].at \notin {"gone", "failed"}
    BY <1>1, <1>7 DEF Left, Listens
<1>10. main[r].at = "download"
    BY <1>8, <1>9, HaltedPlaces
<1>11. Contains(backlog[r], p)
    BY <1>5 DEF Contains
<1>12. QED
    BY <1>3, <1>10, <1>11

(* Whoever hangs in a command with nothing left to move, and does not sit  *)
(* in accept(), hangs because parents download from each other in a        *)
(* circle: there is no other way for the whole system to lock up.          *)
THEOREM HungOnlyInCircle ==
    ASSUME Reliable
    PROVE  Spec => []StuckOnlyInCircle
<1>1. Counted => StuckOnlyInCircle
  <2>1. SUFFICES ASSUME Counted, Halted, NEW p \in Peers,
                        main[p].at \notin {"menu", "await", "accept", "gone", "failed"}
                 PROVE  \E S \in SUBSET Peers : Circle(S)
    BY DEF StuckOnlyInCircle
  <2> DEFINE S == {q \in Peers : main[q].at = "download"}
  <2>2. p \in S
    BY <2>1, HaltedPlaces
  <2>3. \A q \in S : /\ main[q].at = "download" /\ conn[q].to \in S
                     /\ Contains(backlog[conn[q].to], q)
    BY <2>1, HaltedWaitsForDownloader
  <2>4. Circle(S)
    BY <2>2, <2>3 DEF Circle
  <2>5. QED
    BY <2>4
<1>2. QED
    BY <1>1, AlwaysCounted, PTL
-----------------------------------------------------------------------------
(* Names and the list.  Nobody downloads; and what a peer registers fits   *)
(* its reg_contents.                                                       *)
NoDownloads == \A p \in Peers : "S" \notin Menu[p]

Roomy == \A p \in Peers : MaxCommands[p] <= MaxRegs

(* Then no peer ever has a client, a connection or a child.                *)
Idle ==
    \A p \in Peers :
        /\ conn[p] = None /\ backlog[p] = <<>> /\ \A k \in Kids : kid[p][k] = None
        /\ main[p].at \notin {"search", "download", "publish", "accept", "failed"}
        /\ main[p].ready = FALSE

(* The requests of p under way, of which there is at most one, and the     *)
(* nodes that lead to p.                                                   *)
From(s, p) == {r \in ToSet(s) : r.from = p}

OneEach(s) == \A k, l \in 1..Len(s) : s[k].from = s[l].from => k = l

At(list, p) == {e \in ToSet(list) : e.addr = p}

(* What a parent asks for where it is, and what it can be told.            *)
AsksFor(m, r) ==
    \/ m.at = "register" /\ r.type \in {"R", "Y"} /\ r.peer = m.name /\ r.content = m.content
    \/ m.at = "list" /\ r.type = "O"
    \/ m.at \in {"deregister", "quit"} /\ r.type = "T" /\ r.peer = m.name

Told(m, s) ==
    \/ m.at = "list" /\ \A k \in 1..Len(s) - 1 : s[k].type = "O"
    \/ m.at = "register" /\ Len(s) = 1
    \/ m.at \in {"deregister", "quit"} /\ Len(s) = 1 /\ s[1].peer = m.name

(* It waits for ever: an answer was lost, or it sent a 'Y'.                *)
Stuck(m, a, s) ==
    m.at \in {"register", "quit"} /\ s = <<>> /\ \A r \in a : r.type = "Y"

(* Accepted: the answer to 'R' that waits in s says so.                    *)
Accepted(m, s) == m.at = "register" /\ s # <<>> /\ s[1].type = "A"

(* Why a content of a peer may be in the list.                             *)
Accounted(m, a, s, c) ==
    \/ m.at \notin {"quit", "gone"} /\ \E k \in 1..Len(m.regs) : m.regs[k] = c
    \/ Accepted(m, s) /\ c = m.content
    \/ m.at = "quit" /\ \E k \in 1..m.left : m.regs[k] = c
    \/ m.at = "quit" /\ \E r \in a : r.content = c

(* The bound on commands, by which reg_contents has room for the next one. *)
Room(m, n) ==
    /\ m.typed <= n /\ Len(m.regs) <= m.typed
    /\ m.at \in {"register", "rename"} => Len(m.regs) < m.typed

(* A peer m with requests a, answers s and nodes E: it has one request or  *)
(* the answers to it under way, and its nodes are accounted for.           *)
Asks(m, a, s) ==
    /\ \A r \in a : AsksFor(m, r) /\ s = <<>>
    /\ s # <<>> => Told(m, s)

Known(m, a, s, E) ==
    \A e \in E : Stuck(m, a, s) \/ (e.peer = m.name /\ Accounted(m, a, s, e.content))

Named(m, E) == m.own => \A e \in E : e.peer = m.name

Orderly(m, a, s, E, n) ==
    /\ Asks(m, a, s)
    /\ Named(m, E)
    /\ Roomy => Room(m, n) /\ Known(m, a, s, E)

Fine(p) ==
    Orderly(main[p], From(inbox, p), outbox[p], At(index, p), MaxCommands[p])

Distinct ==
    Distinguished => \A p, q \in Peers : main[p].name = main[q].name => p = q

Noted ==
    Distinguished =>
        \A p \in Peers : Accepted(main[p], outbox[p]) => Listed(main[p].name, main[p].content, p)

NamesInv == Idle /\ OneEach(inbox) /\ (\A p \in Peers : Fine(p)) /\ Distinct /\ Noted
-----------------------------------------------------------------------------
(* The requests of a peer and the nodes that lead to it, as the socket of  *)
(* the server and its list change.                                         *)
LEMMA Members ==
    ASSUME NEW S, NEW s \in Seq(S)
    PROVE  ToSet(s) = {s[i] : i \in 1..Len(s)} /\ ToSet(s) \subseteq S
<1>1. DOMAIN s = 1..Len(s) /\ \A i \in 1..Len(s) : s[i] \in S
    BY LenProperties, ElementOfSeq
<1>2. QED
    BY <1>1 DEF ToSet

LEMMA MembersAppend ==
    ASSUME NEW S, NEW s \in Seq(S), NEW e \in S
    PROVE  Append(s, e) \in Seq(S) /\ ToSet(Append(s, e)) = ToSet(s) \cup {e}
<1>1. PICK n \in Nat : n = Len(s)
    BY LenProperties
<1>2. PICK t \in Seq(S) : t = Append(s, e)
    BY AppendProperties
<1>3. Len(t) = n + 1 /\ t[n + 1] = e /\ \A i \in 1..n : t[i] = s[i]
    BY <1>1, <1>2, AppendProperties
<1>4. ToSet(s) = {s[i] : i \in 1..n} /\ ToSet(t) = {t[i] : i \in 1..(n + 1)}
    BY <1>1, <1>3, Members
<1>5. ASSUME NEW i \in 1..(n + 1) PROVE i \in 1..n \/ i = n + 1
    BY <1>1
<1>6. n + 1 \in 1..(n + 1) /\ \A i \in 1..n : i \in 1..(n + 1)
    BY <1>1
<1>7. ToSet(t) = ToSet(s) \cup {e}
    BY <1>3, <1>4, <1>5, <1>6
<1>8. QED
    BY <1>2, <1>7

LEMMA FromAppend ==
    ASSUME NEW s \in Seq(Request), NEW r \in Request, NEW p \in Peers, r.from = p
    PROVE  /\ From(Append(s, r), p) = From(s, p) \cup {r}
           /\ \A q : q # p => From(Append(s, r), q) = From(s, q)
           /\ OneEach(s) /\ From(s, p) = {} => OneEach(Append(s, r))
<1>1. ToSet(Append(s, r)) = ToSet(s) \cup {r}
    BY MembersAppend
<1>2. ASSUME OneEach(s), From(s, p) = {}
      PROVE  OneEach(Append(s, r))
  <2>1. PICK n \in Nat : n = Len(s)
    BY LenProperties
  <2>2. PICK t \in Seq(Request) : t = Append(s, r)
    BY AppendProperties
  <2>3. Len(t) = n + 1 /\ t[n + 1] = r /\ \A i \in 1..n : t[i] = s[i]
    BY <2>1, <2>2, AppendProperties
  <2>4. \A i \in 1..n : s[i].from # p
    BY <1>2, <2>1, Members DEF From
  <2>5. ASSUME NEW k \in 1..(n + 1), NEW l \in 1..(n + 1), t[k].from = t[l].from
        PROVE  k = l
    <3>1. (k \in 1..n \/ k = n + 1) /\ (l \in 1..n \/ l = n + 1)
      BY <2>1
    <3>2. QED
      BY <1>2, <2>1, <2>3, <2>4, <2>5, <3>1 DEF OneEach
  <2>6. QED
    BY <2>2, <2>3, <2>5 DEF OneEach
<1>3. QED
    BY <1>1, <1>2 DEF From

(* The server takes the oldest request, or the network the i-th.           *)
LEMMA FromTail ==
    ASSUME NEW s \in Seq(Request), s # <<>>, OneEach(s)
    PROVE  /\ Head(s) \in Request /\ From(s, Head(s).from) = {Head(s)}
           /\ From(Tail(s), Head(s).from) = {} /\ OneEach(Tail(s))
           /\ \A q : q # Head(s).from => From(Tail(s), q) = From(s, q)
<1>1. PICK n \in Nat : n = Len(s)
    BY LenProperties
<1>2. PICK t \in Seq(Request), h \in Request : t = Tail(s) /\ h = Head(s)
    BY HeadTailProperties
<1>3. /\ h = s[1] /\ 1 \in 1..n /\ Len(t) = n - 1
      /\ \A i \in 1..(n - 1) : t[i] = s[i + 1]
    BY <1>1, <1>2, HeadTailProperties
<1>4. /\ \A i \in 1..(n - 1) : i + 1 \in 1..n /\ i + 1 # 1
      /\ \A i \in 1..n : i = 1 \/ (i - 1 \in 1..(n - 1) /\ (i - 1) + 1 = i)
      /\ \A i, j \in 1..(n - 1) : i + 1 = j + 1 => i = j
    BY <1>1, <1>3
<1>5. ToSet(s) = {s[i] : i \in 1..n} /\ ToSet(t) = {t[i] : i \in 1..(n - 1)}
    BY <1>1, <1>3, Members
<1>6. \A k, l \in 1..n : s[k].from = s[l].from => k = l
    BY <1>1 DEF OneEach
<1>7. OneEach(t)
  <2>1. ASSUME NEW k \in 1..(n - 1), NEW l \in 1..(n - 1), t[k].from = t[l].from
        PROVE  k = l
    <3>1. s[k + 1].from = s[l + 1].from /\ k + 1 \in 1..n /\ l + 1 \in 1..n
      BY <1>3, <1>4, <2>1
    <3>2. QED
      BY <1>4, <1>6, <3>1
  <2>2. QED
    BY <1>3, <2>1 DEF OneEach
<1>8. \A i \in 1..n : i # 1 => s[i].from # h.from
    BY <1>3, <1>6
<1>9. \A i \in 1..n : i # 1 => s[i] \in ToSet(t)
  <2>1. ASSUME NEW i \in 1..n, i # 1
        PROVE  s[i] \in ToSet(t)
    <3>1. i - 1 \in 1..(n - 1) /\ (i - 1) + 1 = i
      BY <1>4, <2>1
    <3>2. t[i - 1] = s[i]
      BY <1>3, <3>1
    <3>3. QED
      BY <1>5, <3>1, <3>2
  <2>2. QED
    BY <2>1
<1>10. \A r \in ToSet(t) : \E i \in 1..n : i # 1 /\ r = s[i]
    BY <1>3, <1>4, <1>5
<1>11. From(s, h.from) = {h} /\ From(t, h.from) = {}
    BY <1>3, <1>5, <1>8, <1>10 DEF From
<1>12. ASSUME NEW q, q # h.from
       PROVE  From(t, q) = From(s, q)
  <2>1. \A r : r.from = q => (r \in ToSet(t) <=> r \in ToSet(s))
    BY <1>3, <1>5, <1>9, <1>10, <1>12
  <2>2. QED
    BY <2>1 DEF From
<1>13. QED
    BY <1>2, <1>7, <1>11, <1>12

LEMMA SameDrop ==
    ASSUME NEW S, NEW s \in Seq(S), NEW i \in 1..Len(s)
    PROVE  /\ DropAt(s, i) \in Seq(S) /\ Len(DropAt(s, i)) = Len(s) - 1
           /\ \A j \in 1..(Len(s) - 1) : DropAt(s, i)[j] = s[IF j < i THEN j ELSE j + 1]
<1>1. DropAt(s, i) = Proved!DropAt(s, i)
    BY Zenon DEF DropAt, Proved!DropAt
<1>2. /\ Proved!DropAt(s, i) \in Seq(S) /\ Len(Proved!DropAt(s, i)) = Len(s) - 1
      /\ \A j \in 1..(Len(s) - 1) : Proved!DropAt(s, i)[j] = s[IF j < i THEN j ELSE j + 1]
    BY MaxInboxAssumption, Proved!DropAtProperties
<1>3. QED
    BY <1>1, <1>2

LEMMA FromDrop ==
    ASSUME NEW s \in Seq(Request), NEW i \in 1..Len(s), OneEach(s)
    PROVE  /\ s[i].from \in Peers
           /\ From(DropAt(s, i), s[i].from) = {} /\ OneEach(DropAt(s, i))
           /\ \A q : q # s[i].from => From(DropAt(s, i), q) = From(s, q)
<1>1. PICK n \in Nat : n = Len(s)
    BY LenProperties
<1>2. PICK t \in Seq(Request) : t = DropAt(s, i)
    BY SameDrop
<1> DEFINE at(j) == IF j < i THEN j ELSE j + 1
           of(j) == IF j < i THEN j ELSE j - 1
<1>3. Len(t) = n - 1 /\ \A j \in 1..(n - 1) : t[j] = s[at(j)]
    BY <1>1, <1>2, SameDrop
<1>4. /\ \A j \in 1..(n - 1) : at(j) \in 1..n /\ at(j) # i
      /\ \A j \in 1..n : j # i => of(j) \in 1..(n - 1) /\ at(of(j)) = j
      /\ \A j, k \in 1..(n - 1) : at(j) = at(k) => j = k
    BY <1>1
<1>5. ToSet(s) = {s[j] : j \in 1..n} /\ ToSet(t) = {t[j] : j \in 1..(n - 1)}
    BY <1>1, <1>3, Members
<1>6. \A k, l \in 1..n : s[k].from = s[l].from => k = l
    BY <1>1 DEF OneEach
<1> HIDE DEF at, of
<1>7. OneEach(t)
  <2>1. ASSUME NEW k \in 1..(n - 1), NEW l \in 1..(n - 1), t[k].from = t[l].from
        PROVE  k = l
    <3>1. s[at(k)].from = s[at(l)].from /\ at(k) \in 1..n /\ at(l) \in 1..n
      BY <1>3, <1>4, <2>1
    <3>2. QED
      BY <1>4, <1>6, <3>1
  <2>2. QED
    BY <1>3, <2>1 DEF OneEach
<1>8. \A j \in 1..n : j # i => s[j] \in ToSet(t)
  <2>1. ASSUME NEW j \in 1..n, j # i
        PROVE  s[j] \in ToSet(t)
    <3>1. of(j) \in 1..(n - 1) /\ t[of(j)] = s[j]
      BY <1>3, <1>4, <2>1
    <3>2. QED
      BY <1>5, <3>1
  <2>2. QED
    BY <2>1
<1>9. \A r \in ToSet(t) : \E j \in 1..n : j # i /\ r = s[j]
  <2>1. ASSUME NEW j \in 1..(n - 1)
        PROVE  \E l \in 1..n : l # i /\ t[j] = s[l]
    BY <1>3, <1>4
  <2>2. QED
    BY <1>5, <2>1
<1>10. From(t, s[i].from) = {}
    BY <1>1, <1>6, <1>9 DEF From
<1>11. ASSUME NEW q, q # s[i].from
       PROVE  From(t, q) = From(s, q)
  <2>1. \A r : r.from = q => (r \in ToSet(t) <=> r \in ToSet(s))
    BY <1>1, <1>5, <1>8, <1>9, <1>11
  <2>2. QED
    BY <2>1 DEF From
<1>12. s[i] \in Request
    BY ElementOfSeq
<1>13. s[i].from \in Peers
    BY <1>12 DEF Request
<1>14. QED
    BY <1>2, <1>7, <1>10, <1>11, <1>13
-----------------------------------------------------------------------------
(* What the steps of a peer, and of the server for it, do to its affairs.  *)
LEMMA MemoryNumbers ==
    ASSUME NEW m \in Memory
    PROVE  /\ Len(m.regs) \in Nat /\ m.left \in Nat /\ m.typed \in Nat
           /\ m.regs \in Seq(Contents) /\ m.own \in BOOLEAN
BY LenProperties DEF Memory

LEMMA AtRest ==
    ASSUME NEW m, NEW a, NEW s, Asks(m, a, s), m.at \in {"menu", "rename", "await", "gone"}
    PROVE  a = {} /\ s = <<>>
BY DEF Asks, AsksFor, Told

LEMMA WhenTold ==
    ASSUME NEW m, NEW a, NEW s, Asks(m, a, s), s # <<>>
    PROVE  a = {} /\ Told(m, s)
BY DEF Asks

(* A peer at the menu, or with an answer in its socket, has what it has    *)
(* noted in the list, and perhaps what it is about to note.                *)
LEMMA NotStuck ==
    ASSUME NEW m, NEW a, NEW s, NEW E, NEW e \in E, Known(m, a, s, E),
           m.at \notin {"register", "quit"} \/ s # <<>> \/ \E r \in a : r.type # "Y"
    PROVE  e.peer = m.name /\ Accounted(m, a, s, e.content)
BY DEF Known, Stuck

LEMMA Noticed ==
    ASSUME NEW m, NEW a, NEW s, NEW c, Accounted(m, a, s, c), ~ Accepted(m, s),
           m.at # "quit"
    PROVE  m.at # "gone" /\ \E k \in 1..Len(m.regs) : m.regs[k] = c
BY DEF Accounted

(* From the menu to the wait for an answer.                                *)
LEMMA AskOrderly ==
    ASSUME NEW m \in Memory, NEW m2 \in Memory, NEW a, NEW s, NEW E, NEW n \in Nat, NEW r,
           Orderly(m, a, s, E, n), m.at = "menu",
           m2.at \in {"register", "list", "deregister"}, AsksFor(m2, r),
           m2.name = m.name, m2.own = m.own, m2.regs = m.regs,
           m2.typed = m.typed + 1, m.typed < n
    PROVE  Orderly(m2, {r}, <<>>, E, n)
<1>1. a = {} /\ s = <<>>
    BY AtRest DEF Orderly
<1>2. Asks(m2, {r}, <<>>)
    BY DEF Asks
<1>3. Named(m2, E)
    BY DEF Orderly, Named
<1>4. ASSUME Roomy
      PROVE  Room(m2, n) /\ Known(m2, {r}, <<>>, E)
  <2>1. Room(m, n) /\ Known(m, a, s, E)
    BY <1>4 DEF Orderly
  <2>2. Room(m2, n)
    BY <2>1, MemoryNumbers DEF Room
  <2>3. ASSUME NEW e \in E
        PROVE  e.peer = m2.name /\ Accounted(m2, {r}, <<>>, e.content)
    <3>1. e.peer = m.name /\ Accounted(m, a, s, e.content)
      BY <2>1, NotStuck
    <3>2. \E k \in 1..Len(m.regs) : m.regs[k] = e.content
      BY <3>1, Noticed DEF Accepted
    <3>3. QED
      BY <3>1, <3>2 DEF Accounted
  <2>4. QED
    BY <2>2, <2>3 DEF Known
<1>5. QED
    BY <1>2, <1>3, <1>4 DEF Orderly

(* To the menu, to the question, or to an accept that nobody ends.         *)
LEMMA RestOrderly ==
    ASSUME NEW m \in Memory, NEW m2 \in Memory, NEW a, NEW s, NEW E, NEW n \in Nat,
           Orderly(m, a, s, E, n), ~ Accepted(m, s), m.at \notin {"quit", "gone"},
           m.at = "register" => s # <<>>,
           m2.at \in {"menu", "rename", "await"},
           m2.at = "rename" => m.at = "register",
           m2.name = m.name, m2.own = m.own, m2.regs = m.regs,
           m2.typed = m.typed \/ (m2.typed = m.typed + 1 /\ m.typed < n /\ m2.at # "rename")
    PROVE  Orderly(m2, {}, <<>>, E, n)
<1>1. Asks(m2, {}, <<>>)
    BY DEF Asks
<1>2. Named(m2, E)
    BY DEF Orderly, Named
<1>3. ASSUME Roomy
      PROVE  Room(m2, n) /\ Known(m2, {}, <<>>, E)
  <2>1. Room(m, n) /\ Known(m, a, s, E)
    BY <1>3 DEF Orderly
  <2>2. Room(m2, n)
    BY <2>1, MemoryNumbers DEF Room
  <2>3. ASSUME NEW e \in E
        PROVE  e.peer = m2.name /\ Accounted(m2, {}, <<>>, e.content)
    <3>1. e.peer = m.name /\ Accounted(m, a, s, e.content)
      BY <2>1, NotStuck
    <3>2. \E k \in 1..Len(m.regs) : m.regs[k] = e.content
      BY <3>1, Noticed
    <3>3. QED
      BY <3>1, <3>2 DEF Accounted
  <2>4. QED
    BY <2>2, <2>3 DEF Known
<1>4. QED
    BY <1>1, <1>2, <1>3 DEF Orderly

(* The answer 'A' to 'R': the content is noted, for which there is room.   *)
LEMMA NoteOrderly ==
    ASSUME NEW m \in Memory, NEW m2 \in Memory, NEW a, NEW s, NEW E, NEW n \in Nat,
           Orderly(m, a, s, E, n), m.at = "register", s # <<>>, m.content \in Contents,
           m2.at = "menu", m2.name = m.name, m2.own = m.own, m2.typed = m.typed,
           m2.regs = Remember(m).regs, Roomy => n <= MaxRegs
    PROVE  Orderly(m2, {}, <<>>, E, n)
<1>1. Asks(m2, {}, <<>>)
    BY DEF Asks
<1>2. Named(m2, E)
    BY DEF Orderly, Named
<1>3. ASSUME Roomy
      PROVE  Room(m2, n) /\ Known(m2, {}, <<>>, E)
  <2>1. Room(m, n) /\ Known(m, a, s, E)
    BY <1>3 DEF Orderly
  <2>2. PICK l \in Nat : l = Len(m.regs)
    BY MemoryNumbers
  <2>3. l < m.typed /\ m.typed <= n /\ n <= MaxRegs /\ MaxRegs \in Nat
    BY <1>3, <2>1, <2>2, NetworkAssumption DEF Room
  <2>4. l < MaxRegs
    BY <2>2, <2>3, MemoryNumbers
  <2>5. m2.regs = Append(m.regs, m.content)
    <3>1. Len(m.regs) < MaxRegs
      BY <2>2, <2>4
    <3>2. Remember(m) = [m EXCEPT !.regs = Append(m.regs, m.content)]
      BY <3>1 DEF Remember
    <3>3. [m EXCEPT !.regs = Append(m.regs, m.content)].regs = Append(m.regs, m.content)
      BY DEF Memory
    <3>4. QED
      BY <3>2, <3>3
  <2>6. /\ Len(m2.regs) = l + 1 /\ m2.regs[l + 1] = m.content
        /\ \A k \in 1..l : m2.regs[k] = m.regs[k]
    BY <2>2, <2>5, MemoryNumbers, AppendProperties
  <2>7. Room(m2, n)
    BY <2>1, <2>2, <2>3, <2>6, MemoryNumbers DEF Room
  <2>8. ASSUME NEW e \in E
        PROVE  e.peer = m2.name /\ Accounted(m2, {}, <<>>, e.content)
    <3>1. e.peer = m.name /\ Accounted(m, a, s, e.content)
      BY <2>1, NotStuck
    <3>2. (\E k \in 1..l : m.regs[k] = e.content) \/ e.content = m.content
      BY <2>2, <3>1, Noticed DEF Accounted
    <3>3. \E k \in 1..(l + 1) : m2.regs[k] = e.content
      <4>1. l + 1 \in 1..(l + 1) /\ \A k \in 1..l : k \in 1..(l + 1)
        BY <2>2
      <4>2. QED
        BY <2>6, <3>2, <4>1
    <3>4. QED
      BY <2>6, <3>1, <3>3 DEF Accounted
  <2>9. QED
    BY <2>7, <2>8 DEF Known
<1>4. QED
    BY <1>1, <1>2, <1>3 DEF Orderly

(* A rename leaves a peer that waits for ever.                             *)
LEMMA RenameOrderly ==
    ASSUME NEW m \in Memory, NEW m2 \in Memory, NEW a, NEW s, NEW E, NEW n \in Nat, NEW r,
           Orderly(m, a, s, E, n), m.at = "rename", m2.at = "register", m2.own = FALSE,
           m2.regs = m.regs, m2.typed = m.typed, AsksFor(m2, r), r.type = "Y"
    PROVE  Orderly(m2, {r}, <<>>, E, n)
<1>1. Asks(m2, {r}, <<>>) /\ Named(m2, E)
    BY DEF Asks, Named
<1>2. Stuck(m2, {r}, <<>>)
    BY DEF Stuck
<1>3. Roomy => Room(m2, n)
    BY MemoryNumbers DEF Orderly, Room
<1>4. QED
    BY <1>1, <1>2, <1>3 DEF Orderly, Known

(* Lines of the list are read one by one.                                  *)
LEMMA ListOrderly ==
    ASSUME NEW m \in Memory, NEW a, NEW s \in Seq(Reply), NEW E, NEW n \in Nat,
           Orderly(m, a, s, E, n), m.at = "list", s # <<>>
    PROVE  /\ Orderly(m, {}, Tail(s), E, n)
           /\ Head(s).type = "A" => Tail(s) = <<>>
<1>1. PICK l \in Nat : l = Len(s)
    BY LenProperties
<1>2. PICK t \in Seq(Reply) : t = Tail(s)
    BY HeadTailProperties
<1>3. /\ l # 0 /\ Len(t) = l - 1 /\ Head(s) = s[1]
      /\ \A i \in 1..(l - 1) : t[i] = s[i + 1]
    BY <1>1, <1>2, HeadTailProperties, EmptySeq
<1>4. \A k \in 1..(l - 1) : s[k].type = "O"
    BY <1>1, WhenTold DEF Orderly, Told
<1>5. \A k \in 1..(Len(t) - 1) : t[k].type = "O"
  <2>1. ASSUME NEW k \in 1..(Len(t) - 1)
        PROVE  k \in 1..(l - 1) /\ k + 1 \in 1..(l - 1)
    BY <1>1, <1>3
  <2>2. QED
    BY <1>3, <1>4, <2>1
<1>6. Asks(m, {}, t)
    BY <1>5 DEF Asks, Told
<1>7. Roomy => Known(m, {}, t, E)
  <2>1. ASSUME Roomy, NEW e \in E
        PROVE  e.peer = m.name /\ Accounted(m, {}, t, e.content)
    <3>1. e.peer = m.name /\ Accounted(m, a, s, e.content)
      BY <2>1, NotStuck DEF Orderly
    <3>2. \E k \in 1..Len(m.regs) : m.regs[k] = e.content
      BY <3>1, Noticed DEF Accepted
    <3>3. QED
      BY <3>1, <3>2 DEF Accounted
  <2>2. QED
    BY <2>1 DEF Known
<1>8. Head(s).type = "A" => t = <<>>
  <2>1. Head(s).type = "A" => ~ (1 \in 1..(l - 1))
    BY <1>3, <1>4
  <2>2. Head(s).type = "A" => Len(t) = 0
    BY <1>1, <1>3, <2>1
  <2>3. QED
    BY <2>2, EmptySeq
<1>9. QED
    BY <1>2, <1>6, <1>7, <1>8 DEF Orderly

(* Q asks for the last content noted first.                                *)
LEMMA QuitOrderly ==
    ASSUME NEW m \in Memory, NEW m2 \in Memory, NEW a, NEW s, NEW E, NEW n \in Nat, NEW r,
           Orderly(m, a, s, E, n), m.at = "menu", m.regs # <<>>,
           m2.at = "quit", AsksFor(m2, r), r.content = m.regs[Len(m.regs)],
           m2.left = Len(m.regs) - 1, m2.name = m.name, m2.own = m.own, m2.regs = m.regs,
           m2.typed = m.typed + 1, m.typed < n
    PROVE  Orderly(m2, {r}, <<>>, E, n)
<1>1. Asks(m2, {r}, <<>>) /\ Named(m2, E)
    BY DEF Asks, Orderly, Named
<1>2. ASSUME Roomy
      PROVE  Room(m2, n) /\ Known(m2, {r}, <<>>, E)
  <2>1. Room(m, n) /\ Known(m, a, s, E)
    BY <1>2 DEF Orderly
  <2>2. Room(m2, n)
    BY <2>1, MemoryNumbers DEF Room
  <2>3. PICK l \in Nat : l = Len(m.regs)
    BY MemoryNumbers
  <2>4. ASSUME NEW e \in E
        PROVE  e.peer = m2.name /\ Accounted(m2, {r}, <<>>, e.content)
    <3>1. e.peer = m.name /\ Accounted(m, a, s, e.content)
      BY <2>1, NotStuck
    <3>2. PICK k \in 1..l : m.regs[k] = e.content
      BY <2>3, <3>1, Noticed DEF Accepted
    <3>3. k \in 1..(l - 1) \/ k = l
      BY <2>3
    <3>4. (\E j \in 1..(l - 1) : m.regs[j] = e.content) \/ r.content = e.content
      BY <2>3, <3>2, <3>3
    <3>5. QED
      BY <2>3, <3>1, <3>4 DEF Accounted
  <2>5. QED
    BY <2>2, <2>4 DEF Known
<1>3. QED
    BY <1>1, <1>2 DEF Orderly

(* And each answer makes it ask for the one before, until none is left.    *)
LEMMA NextQuitOrderly ==
    ASSUME NEW m \in Memory, NEW m2 \in Memory, NEW a, NEW s, NEW E, NEW n \in Nat, NEW r,
           Orderly(m, a, s, E, n), m.at = "quit", s # <<>>, m.left > 0,
           m2.at = "quit", AsksFor(m2, r), r.content = m.regs[m.left],
           m2.left = m.left - 1, m2.name = m.name, m2.own = m.own, m2.regs = m.regs,
           m2.typed = m.typed
    PROVE  Orderly(m2, {r}, <<>>, E, n)
<1>1. Asks(m2, {r}, <<>>) /\ Named(m2, E)
    BY DEF Asks, Orderly, Named
<1>2. a = {}
    BY WhenTold DEF Orderly
<1>3. ASSUME Roomy
      PROVE  Room(m2, n) /\ Known(m2, {r}, <<>>, E)
  <2>1. Room(m, n) /\ Known(m, a, s, E)
    BY <1>3 DEF Orderly
  <2>2. Room(m2, n)
    BY <2>1, MemoryNumbers DEF Room
  <2>3. PICK l \in Nat : l = m.left
    BY MemoryNumbers
  <2>4. ASSUME NEW e \in E
        PROVE  e.peer = m2.name /\ Accounted(m2, {r}, <<>>, e.content)
    <3>1. e.peer = m.name /\ Accounted(m, a, s, e.content)
      BY <2>1, NotStuck
    <3>2. PICK k \in 1..l : m.regs[k] = e.content
      BY <1>2, <2>3, <3>1 DEF Accounted, Accepted
    <3>3. k \in 1..(l - 1) \/ k = l
      BY <2>3
    <3>4. (\E j \in 1..(l - 1) : m.regs[j] = e.content) \/ r.content = e.content
      BY <2>3, <3>2, <3>3
    <3>5. QED
      BY <2>3, <3>1, <3>4 DEF Accounted
  <2>5. QED
    BY <2>2, <2>4 DEF Known
<1>4. QED
    BY <1>1, <1>3 DEF Orderly

LEMMA GoneOrderly ==
    ASSUME NEW m \in Memory, NEW m2 \in Memory, NEW a, NEW s, NEW E, NEW n \in Nat,
           Orderly(m, a, s, E, n), m2.at = "gone",
           \/ m.at = "quit" /\ m.left = 0 /\ s # <<>>
           \/ m.at = "menu" /\ m.regs = <<>>,
           m2.name = m.name, m2.own = m.own, m2.regs = m.regs, m2.typed = m.typed
    PROVE  Orderly(m2, {}, <<>>, E, n)
<1>1. Asks(m2, {}, <<>>) /\ Named(m2, E)
    BY DEF Asks, Orderly, Named
<1>2. ASSUME Roomy
      PROVE  Room(m2, n) /\ Known(m2, {}, <<>>, E)
  <2>1. Room(m, n) /\ Known(m, a, s, E)
    BY <1>2 DEF Orderly
  <2>2. Room(m2, n)
    BY <2>1, MemoryNumbers DEF Room
  <2>3. ASSUME NEW e \in E
        PROVE  FALSE
    <3>1. Accounted(m, a, s, e.content)
      BY <2>1, NotStuck
    <3>2. CASE m.at = "quit" /\ m.left = 0 /\ s # <<>>
      <4>1. a = {}
        BY <3>2, WhenTold DEF Orderly
      <4>2. ~ \E k \in 1..m.left : m.regs[k] = e.content
        BY <3>2
      <4>3. QED
        BY <3>1, <3>2, <4>1, <4>2 DEF Accounted, Accepted
    <3>3. CASE m.at = "menu" /\ m.regs = <<>>
      <4>1. ~ \E k \in 1..Len(m.regs) : m.regs[k] = e.content
        BY <3>3
      <4>2. QED
        BY <3>1, <3>3, <4>1, Noticed DEF Accepted
    <3>4. QED
      BY <3>2, <3>3
  <2>4. QED
    BY <2>2, <2>3 DEF Known
<1>3. QED
    BY <1>1, <1>2 DEF Orderly
-----------------------------------------------------------------------------
(* The server's turns and the network's losses.                            *)
LEMMA FewerNodes ==
    ASSUME NEW m, NEW a, NEW s, NEW E, NEW E2, NEW n, Orderly(m, a, s, E, n), E2 \subseteq E
    PROVE  Orderly(m, a, s, E2, n)
BY DEF Orderly, Named, Known

LEMMA RegisteredOrderly ==
    ASSUME NEW m \in Memory, NEW E, NEW n \in Nat, NEW r, NEW s, NEW E2,
           Orderly(m, {r}, <<>>, E, n), r.type = "R", s # <<>>, Len(s) = 1,
           \A e \in E2 : e \in E \/ (s[1].type = "A" /\ e.peer = r.peer /\ e.content = r.content)
    PROVE  Orderly(m, {}, s, E2, n)
<1>1. m.at = "register" /\ r.peer = m.name /\ r.content = m.content
    BY DEF Orderly, Asks, AsksFor
<1>2. Asks(m, {}, s)
    BY <1>1 DEF Asks, Told
<1>3. Named(m, E2)
    BY <1>1 DEF Orderly, Named
<1>4. ASSUME Roomy, NEW e \in E2
      PROVE  e.peer = m.name /\ Accounted(m, {}, s, e.content)
  <2>1. CASE e \in E
    <3>1. e.peer = m.name /\ Accounted(m, {r}, <<>>, e.content)
      BY <1>4, <2>1, NotStuck DEF Orderly
    <3>2. \E k \in 1..Len(m.regs) : m.regs[k] = e.content
      BY <1>1, <3>1, Noticed DEF Accepted
    <3>3. QED
      BY <1>1, <3>1, <3>2 DEF Accounted
  <2>2. CASE s[1].type = "A" /\ e.peer = r.peer /\ e.content = r.content
    BY <1>1, <2>2 DEF Accounted, Accepted
  <2>3. QED
    BY <1>4, <2>1, <2>2
<1>5. QED
    BY <1>2, <1>3, <1>4 DEF Orderly, Known

LEMMA WithdrawnOrderly ==
    ASSUME NEW m \in Memory, NEW E, NEW n \in Nat, NEW r, NEW s, NEW E2,
           Orderly(m, {r}, <<>>, E, n), r.type = "T", s # <<>>, Len(s) = 1,
           s[1].peer = r.peer,
           \A e \in E2 : e \in E /\ ~ (e.peer = r.peer /\ e.content = r.content)
    PROVE  Orderly(m, {}, s, E2, n)
<1>1. m.at \in {"deregister", "quit"} /\ r.peer = m.name
    BY DEF Orderly, Asks, AsksFor
<1>2. Asks(m, {}, s)
    BY <1>1 DEF Asks, Told
<1>3. Named(m, E2)
    BY <1>1 DEF Orderly, Named
<1>4. ASSUME Roomy, NEW e \in E2
      PROVE  e.peer = m.name /\ Accounted(m, {}, s, e.content)
  <2>1. e.peer = m.name /\ Accounted(m, {r}, <<>>, e.content)
    BY <1>4, NotStuck DEF Orderly
  <2>2. r.content # e.content
    BY <1>1, <1>4, <2>1
  <2>3. QED
    BY <1>1, <2>1, <2>2 DEF Accounted, Accepted
<1>5. QED
    BY <1>2, <1>3, <1>4 DEF Orderly, Known

LEMMA ListedOrderly ==
    ASSUME NEW m \in Memory, NEW E, NEW n \in Nat, NEW r, NEW s,
           Orderly(m, {r}, <<>>, E, n), r.type = "O",
           \A k \in 1..Len(s) - 1 : s[k].type = "O"
    PROVE  Orderly(m, {}, s, E, n)
<1>1. m.at = "list"
    BY DEF Orderly, Asks, AsksFor
<1>2. Asks(m, {}, s)
    BY <1>1 DEF Asks, Told
<1>3. ASSUME Roomy, NEW e \in E
      PROVE  e.peer = m.name /\ Accounted(m, {}, s, e.content)
  <2>1. e.peer = m.name /\ Accounted(m, {r}, <<>>, e.content)
    BY <1>1, <1>3, NotStuck DEF Orderly
  <2>2. QED
    BY <1>1, <2>1 DEF Accounted, Accepted
<1>4. QED
    BY <1>2, <1>3 DEF Orderly, Known

(* A request that gets no answer: the server does not know its type, or it *)
(* has been lost.                                                          *)
LEMMA UnansweredOrderly ==
    ASSUME NEW m \in Memory, NEW E, NEW n \in Nat, NEW r, Orderly(m, {r}, <<>>, E, n)
    PROVE  Orderly(m, {}, <<>>, E, n)
<1>1. m.at \in {"register", "list", "deregister", "quit"}
    BY DEF Orderly, Asks, AsksFor
<1>2. Asks(m, {}, <<>>)
    BY DEF Asks
<1>3. CASE m.at \in {"register", "quit"}
    BY <1>2, <1>3 DEF Orderly, Known, Stuck
<1>4. CASE m.at \in {"list", "deregister"}
  <2>1. ASSUME Roomy, NEW e \in E
        PROVE  e.peer = m.name /\ Accounted(m, {}, <<>>, e.content)
    <3>1. e.peer = m.name /\ Accounted(m, {r}, <<>>, e.content)
      BY <1>4, <2>1, NotStuck DEF Orderly
    <3>2. QED
      BY <1>4, <3>1 DEF Accounted, Accepted
  <2>2. QED
    BY <1>2, <2>1 DEF Orderly, Known
<1>5. QED
    BY <1>1, <1>3, <1>4

LEMMA LostOrderly ==
    ASSUME NEW m \in Memory, NEW a, NEW s \in Seq(Reply), NEW E, NEW n \in Nat,
           NEW i \in 1..Len(s), Orderly(m, a, s, E, n)
    PROVE  Orderly(m, {}, DropAt(s, i), E, n) /\ a = {}
<1>1. PICK l \in Nat, t \in Seq(Reply) : l = Len(s) /\ t = DropAt(s, i)
    BY LenProperties, SameDrop
<1>2. Len(t) = l - 1 /\ \A j \in 1..(l - 1) : t[j] = s[IF j < i THEN j ELSE j + 1]
    BY <1>1, SameDrop
<1>3. s # <<>>
    BY <1>1, EmptySeq
<1>4. a = {} /\ Told(m, s)
    BY <1>3, WhenTold DEF Orderly
<1>5. CASE m.at \in {"register", "quit"} \/ (m.at = "deregister" /\ Len(s) = 1)
  <2>1. l = 1
    BY <1>1, <1>4, <1>5 DEF Told
  <2>2. t = <<>>
    BY <1>2, <2>1, EmptySeq
  <2>3. CASE m.at # "deregister"
    BY <1>1, <1>4, <1>5, <2>2, <2>3 DEF Orderly, Known, Stuck, Asks
  <2>4. CASE m.at = "deregister"
    <3>1. ASSUME Roomy, NEW e \in E
          PROVE  e.peer = m.name /\ Accounted(m, {}, <<>>, e.content)
      <4>1. e.peer = m.name /\ Accounted(m, a, s, e.content)
        BY <2>4, <3>1, NotStuck DEF Orderly
      <4>2. QED
        BY <2>4, <4>1 DEF Accounted, Accepted
    <3>2. QED
      BY <1>1, <1>4, <2>2, <3>1 DEF Orderly, Known, Asks
  <2>5. QED
    BY <2>3, <2>4
<1>6. CASE m.at = "list"
  <2>1. \A k \in 1..(l - 1) : s[k].type = "O"
    BY <1>1, <1>4, <1>6 DEF Told
  <2>2. \A k \in 1..(Len(t) - 1) : t[k].type = "O"
    <3>1. ASSUME NEW k \in 1..(Len(t) - 1)
          PROVE  k \in 1..(l - 1) /\ (IF k < i THEN k ELSE k + 1) \in 1..(l - 1)
      BY <1>1, <1>2
    <3>2. QED
      BY <1>2, <2>1, <3>1
  <2>3. Asks(m, {}, t)
    BY <1>6, <2>2 DEF Asks, Told
  <2>4. ASSUME Roomy, NEW e \in E
        PROVE  e.peer = m.name /\ Accounted(m, {}, t, e.content)
    <3>1. e.peer = m.name /\ Accounted(m, a, s, e.content)
      BY <1>6, <2>4, NotStuck DEF Orderly
    <3>2. QED
      BY <1>6, <3>1 DEF Accounted, Accepted
  <2>5. QED
    BY <1>1, <1>4, <2>3, <2>4 DEF Orderly, Known
<1>7. QED
    BY <1>4, <1>5, <1>6 DEF Told
-----------------------------------------------------------------------------
(* What each step is to do: keep the invariant, note only what is listed,  *)
(* and remove only what its owner asks to be removed.                      *)
NotesListed ==
    Distinguished => \A p \in Peers :
        Len(main'[p].regs) > Len(main[p].regs) => Listed(main[p].name, main[p].content, p)

RemovesOwn ==
    Distinguished => \A e \in ToSet(index) \ ToSet(index') : Head(inbox).from = e.addr

Sound == NamesInv' /\ NotesListed /\ RemovesOwn

AtEase(m) ==
    /\ m.at \notin {"search", "download", "publish", "accept", "failed"}
    /\ m.ready = FALSE

(* A step of one parent.                                                   *)
LEMMA OneParent ==
    ASSUME Inv, NamesInv, NEW p \in Peers, NEW m \in Memory,
           main' = [main EXCEPT ![p] = m], AtEase(m), UNCHANGED index,
           \A q \in Peers : /\ conn'[q] = None /\ backlog'[q] = <<>>
                            /\ \A k \in Kids : kid'[q][k] = None,
           \A q \in Peers : q # p => /\ From(inbox', q) = From(inbox, q)
                                     /\ outbox'[q] = outbox[q],
           OneEach(inbox'),
           Orderly(m, From(inbox', p), outbox'[p], At(index, p), MaxCommands[p]),
           m.own => main[p].own /\ m.name = main[p].name,
           m.at = "register" => outbox'[p] = <<>>,
           m.regs = main[p].regs
           \/ (Distinguished => Listed(main[p].name, main[p].content, p))
    PROVE  Sound
<1>1. main \in [Peers -> Memory]
    BY InvTypes DEF TypeOK
<1>2. main'[p] = m /\ \A q \in Peers : q # p => main'[q] = main[q]
    BY <1>1
<1>3. Idle'
    BY <1>2 DEF NamesInv, Idle, AtEase
<1>4. \A q \in Peers : Fine(q)'
  <2>1. ASSUME NEW q \in Peers
        PROVE  Orderly(main'[q], From(inbox', q), outbox'[q], At(index', q), MaxCommands[q])
    <3>1. CASE q = p
      BY <1>2, <3>1
    <3>2. CASE q # p
      BY <1>2, <3>2 DEF NamesInv, Fine
    <3>3. QED
      BY <3>1, <3>2
  <2>2. QED
    BY <2>1 DEF Fine
<1>5. \A q \in Peers : main'[q].own => main[q].own /\ main'[q].name = main[q].name
    BY <1>2
<1>6. Distinguished' => Distinguished
    BY <1>5 DEF Distinguished
<1>7. Distinct'
    BY <1>5, <1>6 DEF NamesInv, Distinct, Distinguished
<1>8. Noted'
  <2>1. ASSUME Distinguished', NEW q \in Peers, Accepted(main'[q], outbox'[q])
        PROVE  Listed(main[q].name, main[q].content, q)'
    <3>1. q # p
      BY <1>2, <2>1 DEF Accepted
    <3>2. Listed(main[q].name, main[q].content, q)
      BY <1>2, <1>6, <2>1, <3>1 DEF NamesInv, Noted
    <3>3. QED
      BY <1>2, <3>1, <3>2 DEF Listed
  <2>2. QED
    BY <2>1 DEF Noted
<1>9. NamesInv'
    BY <1>3, <1>4, <1>7, <1>8 DEF NamesInv
<1>10. NotesListed
  <2>1. ASSUME Distinguished, NEW q \in Peers, Len(main'[q].regs) > Len(main[q].regs)
        PROVE  Listed(main[q].name, main[q].content, q)
    <3>1. Len(main[q].regs) \in Nat
      BY <1>1, MemoryNumbers
    <3>2. main'[q].regs # main[q].regs
      BY <2>1, <3>1
    <3>3. q = p
      BY <1>2, <3>2
    <3>4. QED
      BY <1>2, <2>1, <3>2, <3>3
  <2>2. QED
    BY <2>1 DEF NotesListed
<1>11. RemovesOwn
    BY DEF RemovesOwn
<1>12. QED
    BY <1>9, <1>10, <1>11 DEF Sound

LEMMA NobodyServes ==
    ASSUME NamesInv, UNCHANGED local
    PROVE  \A q \in Peers : /\ conn'[q] = None /\ backlog'[q] = <<>>
                            /\ \A k \in Kids : kid'[q][k] = None
BY DEF NamesInv, Idle, local

(* A parent that sends a request when it has none under way and no answer. *)
LEMMA AskStep ==
    ASSUME Inv, NamesInv, NEW p \in Peers, NEW m \in Memory, NEW r \in Request,
           main' = [main EXCEPT ![p] = m], AtEase(m), UNCHANGED <<index, local>>,
           r.from = p, Send(r), From(inbox, p) = {}, outbox'[p] = <<>>,
           \A q \in Peers : q # p => outbox'[q] = outbox[q],
           Orderly(m, {r}, <<>>, At(index, p), MaxCommands[p]),
           m.own => main[p].own /\ m.name = main[p].name,
           m.regs = main[p].regs
    PROVE  Sound
<1>1. inbox \in Seq(Request) /\ inbox' = Append(inbox, r)
    BY InvTypes DEF ChannelsTypeOK, Send
<1>2. /\ From(inbox', p) = {r} /\ OneEach(inbox')
      /\ \A q \in Peers : q # p => From(inbox', q) = From(inbox, q)
  <2>1. OneEach(inbox)
    BY DEF NamesInv
  <2>2. /\ From(Append(inbox, r), p) = From(inbox, p) \cup {r} /\ OneEach(Append(inbox, r))
        /\ \A q : q # p => From(Append(inbox, r), q) = From(inbox, q)
    BY <1>1, <2>1, FromAppend
  <2>3. QED
    BY <1>1, <2>2
<1>3. QED
    BY <1>2, NobodyServes, OneParent

(* A parent that reads an answer.                                          *)
LEMMA ReadStep ==
    ASSUME Inv, NamesInv, NEW p \in Peers, NEW m \in Memory,
           main' = [main EXCEPT ![p] = m], AtEase(m), UNCHANGED <<inbox, index, local>>,
           Receive(p),
           Orderly(m, {}, Tail(outbox[p]), At(index, p), MaxCommands[p]),
           m.own => main[p].own /\ m.name = main[p].name,
           m.at # "register",
           m.regs = main[p].regs
           \/ (Distinguished => Listed(main[p].name, main[p].content, p))
    PROVE  Sound
<1>1. outbox \in [Peers -> Seq(Reply)]
    BY InvTypes DEF ChannelsTypeOK
<1>2. outbox'[p] = Tail(outbox[p]) /\ \A q \in Peers : q # p => outbox'[q] = outbox[q]
    BY <1>1 DEF Receive
<1>3. From(inbox, p) = {}
    BY WhenTold DEF NamesInv, Fine, Orderly, Receive
<1>4. OneEach(inbox')
    BY DEF NamesInv
<1>5. QED
    BY <1>2, <1>3, <1>4, NobodyServes, OneParent

(* A parent that does neither.                                             *)
LEMMA QuietStep ==
    ASSUME Inv, NamesInv, NEW p \in Peers, NEW m \in Memory,
           main' = [main EXCEPT ![p] = m], AtEase(m), UNCHANGED <<inbox, outbox, index>>,
           \A q \in Peers : /\ conn'[q] = None /\ backlog'[q] = <<>>
                            /\ \A k \in Kids : kid'[q][k] = None,
           Orderly(m, {}, <<>>, At(index, p), MaxCommands[p]),
           main[p].at \in {"menu", "rename"},
           m.own => main[p].own /\ m.name = main[p].name,
           m.at # "register", m.regs = main[p].regs
    PROVE  Sound
<1>1. From(inbox, p) = {} /\ outbox[p] = <<>>
    BY AtRest DEF NamesInv, Fine, Orderly
<1>2. OneEach(inbox')
    BY DEF NamesInv
<1>3. QED
    BY <1>1, <1>2, OneParent
-----------------------------------------------------------------------------
(* The memory after a command has been typed, and after it has ended.      *)
LEMMA PickedFields ==
    ASSUME NEW p \in Peers, main[p] \in Memory, backlog[p] = <<>>
    PROVE  \E m \in Memory :
              /\ m = Picked(p) /\ m.typed = main[p].typed + 1 /\ m.ready = FALSE
              /\ m.name = main[p].name /\ m.own = main[p].own /\ m.regs = main[p].regs
<1> DEFINE t == main[p].typed + 1
           b == (backlog[p] # <<>>)
<1>1. t \in Nat /\ b \in BOOLEAN /\ b = FALSE
    BY MemoryNumbers
<1>2. Picked(p) = [main[p] EXCEPT !.typed = t, !.ready = b]
    BY DEF Picked
<1>3. t = main[p].typed + 1
    OBVIOUS
<1> HIDE DEF t, b
<1>4. /\ [main[p] EXCEPT !.typed = t, !.ready = b] \in Memory
      /\ [main[p] EXCEPT !.typed = t, !.ready = b].typed = t
      /\ [main[p] EXCEPT !.typed = t, !.ready = b].ready = b
      /\ [main[p] EXCEPT !.typed = t, !.ready = b].name = main[p].name
      /\ [main[p] EXCEPT !.typed = t, !.ready = b].own = main[p].own
      /\ [main[p] EXCEPT !.typed = t, !.ready = b].regs = main[p].regs
    BY <1>1 DEF Memory
<1>5. QED
    BY <1>1, <1>2, <1>3, <1>4

LEMMA DoneFields ==
    ASSUME NEW m \in Memory, m.ready = FALSE
    PROVE  \E d \in Memory :
              /\ d = Done(m) /\ d.at = "menu" /\ d.ready = FALSE /\ d.typed = m.typed
              /\ d.name = m.name /\ d.own = m.own /\ d.regs = m.regs
<1>1. Done(m) = [m EXCEPT !.at = "menu", !.ready = FALSE]
    BY DEF Done
<1>2. /\ [m EXCEPT !.at = "menu", !.ready = FALSE] \in Memory
      /\ [m EXCEPT !.at = "menu", !.ready = FALSE].at = "menu"
      /\ [m EXCEPT !.at = "menu", !.ready = FALSE].ready = FALSE
      /\ [m EXCEPT !.at = "menu", !.ready = FALSE].typed = m.typed
      /\ [m EXCEPT !.at = "menu", !.ready = FALSE].name = m.name
      /\ [m EXCEPT !.at = "menu", !.ready = FALSE].own = m.own
      /\ [m EXCEPT !.at = "menu", !.ready = FALSE].regs = m.regs
    BY DEF Memory, Places
<1>3. QED
    BY <1>1, <1>2

Moved(m, x) == [m EXCEPT !.at = x]

Renamed(m, n, c) ==
    [m EXCEPT !.at = "register", !.name = n, !.own = FALSE, !.content = c]

LEMMA MovedFields ==
    ASSUME NEW m \in Memory, NEW x \in Places
    PROVE  \E m2 \in Memory :
              /\ m2 = Moved(m, x) /\ m2.at = x /\ m2.typed = m.typed
              /\ m2.ready = m.ready /\ m2.name = m.name /\ m2.own = m.own /\ m2.regs = m.regs
<1>1. /\ Moved(m, x) \in Memory /\ Moved(m, x).at = x
      /\ Moved(m, x).typed = m.typed /\ Moved(m, x).ready = m.ready
      /\ Moved(m, x).name = m.name /\ Moved(m, x).own = m.own
      /\ Moved(m, x).regs = m.regs
    BY DEF Memory, Moved
<1>2. QED
    BY <1>1

LEMMA ContentFields ==
    ASSUME NEW m \in Memory, NEW x \in Places, NEW c \in Contents
    PROVE  \E m2 \in Memory :
              /\ m2 = WithContent(m, x, c) /\ m2.at = x /\ m2.content = c
              /\ m2.typed = m.typed /\ m2.ready = m.ready /\ m2.name = m.name
              /\ m2.own = m.own /\ m2.regs = m.regs
<1>1. /\ WithContent(m, x, c) \in Memory
      /\ WithContent(m, x, c).at = x
      /\ WithContent(m, x, c).content = c
      /\ WithContent(m, x, c).typed = m.typed
      /\ WithContent(m, x, c).ready = m.ready
      /\ WithContent(m, x, c).name = m.name
      /\ WithContent(m, x, c).own = m.own
      /\ WithContent(m, x, c).regs = m.regs
    BY DEF Memory, WithContent
<1>2. QED
    BY <1>1

LEMMA LeftFields ==
    ASSUME NEW m \in Memory, NEW x \in Places, NEW k \in Nat
    PROVE  \E m2 \in Memory :
              /\ m2 = WithLeft(m, x, k) /\ m2.at = x /\ m2.left = k
              /\ m2.typed = m.typed /\ m2.ready = m.ready /\ m2.name = m.name
              /\ m2.own = m.own /\ m2.regs = m.regs
<1>1. /\ WithLeft(m, x, k) \in Memory
      /\ WithLeft(m, x, k).at = x
      /\ WithLeft(m, x, k).left = k
      /\ WithLeft(m, x, k).typed = m.typed
      /\ WithLeft(m, x, k).ready = m.ready
      /\ WithLeft(m, x, k).name = m.name
      /\ WithLeft(m, x, k).own = m.own
      /\ WithLeft(m, x, k).regs = m.regs
    BY DEF Memory, WithLeft
<1>2. QED
    BY <1>1

LEMMA RenamedFields ==
    ASSUME NEW m \in Memory, NEW n \in Names, NEW c \in Contents
    PROVE  /\ Renamed(m, n, c) \in Memory /\ Renamed(m, n, c).at = "register"
           /\ Renamed(m, n, c).name = n /\ Renamed(m, n, c).own = FALSE
           /\ Renamed(m, n, c).content = c /\ Renamed(m, n, c).typed = m.typed
           /\ Renamed(m, n, c).ready = m.ready /\ Renamed(m, n, c).regs = m.regs
BY DEF Memory, Places, Renamed

LEMMA PduFields ==
    ASSUME NEW t, NEW p, NEW n, NEW c
    PROVE  /\ Pdu(t, p, n, c).type = t /\ Pdu(t, p, n, c).from = p
           /\ Pdu(t, p, n, c).peer = n /\ Pdu(t, p, n, c).content = c
BY DEF Pdu

LEMMA TailOfOne ==
    ASSUME NEW S, NEW s \in Seq(S), Len(s) = 1, s # <<>>
    PROVE  Tail(s) = <<>> /\ Head(s) = s[1]
<1>1. Len(Tail(s)) = 0 /\ Tail(s) \in Seq(S) /\ Head(s) = s[1]
    BY HeadTailProperties
<1>2. QED
    BY <1>1, EmptySeq

(* A parent as it stands.                                                  *)
LEMMA Standing ==
    ASSUME Inv, NamesInv, NEW p \in Peers
    PROVE  /\ main[p] \in Memory /\ AtWork(main[p]) /\ AtEase(main[p])
           /\ outbox[p] \in Seq(Reply) /\ main[p].name \in Names
           /\ MaxCommands[p] \in Nat /\ backlog[p] = <<>>
           /\ Orderly(main[p], From(inbox, p), outbox[p], At(index, p), MaxCommands[p])
<1>1. main[p] \in Memory /\ AtWork(main[p]) /\ outbox[p] \in Seq(Reply) /\ main[p].name \in Names
    BY InvTypes DEF Memory
<1>2. MaxCommands[p] \in Nat
    BY NetworkAssumption
<1>3. QED
    BY <1>1, <1>2 DEF NamesInv, Idle, Fine, AtEase
-----------------------------------------------------------------------------
(* One lemma per action.                                                   *)
LEMMA StartRegisterSound ==
    ASSUME Inv, NamesInv, NEW p \in Peers, StartRegister(p)
    PROVE  Sound
<1>1. main[p].at = "menu" /\ main[p].typed < MaxCommands[p]
    BY DEF StartRegister, Typed
<1>2. PICK c \in Contents :
          /\ Send(Pdu("R", p, main[p].name, c))
          /\ main' = [main EXCEPT ![p] = WithContent(Picked(p), "register", c)]
    BY Zenon DEF StartRegister, WithContent
<1>3. PICK m1 \in Memory :
          /\ m1 = Picked(p) /\ m1.typed = main[p].typed + 1 /\ m1.ready = FALSE
          /\ m1.name = main[p].name /\ m1.own = main[p].own /\ m1.regs = main[p].regs
    BY Standing, PickedFields
<1>4. PICK m \in Memory :
          /\ m = WithContent(m1, "register", c) /\ m.typed = m1.typed
          /\ m.ready = m1.ready /\ m.name = m1.name /\ m.own = m1.own /\ m.regs = m1.regs
          /\ m.at = "register" /\ m.content = c
    BY ContentFields DEF Places
<1>5. PICK r \in Request : /\ r = Pdu("R", p, main[p].name, c)
                           /\ r.from = p /\ r.type = "R" /\ r.peer = m.name /\ r.content = c
    BY <1>3, <1>4, Standing, PduTypes, PduFields
<1>6. From(inbox, p) = {} /\ outbox[p] = <<>>
    BY <1>1, Standing, AtRest DEF Orderly
<1>7. Orderly(m, {r}, <<>>, At(index, p), MaxCommands[p])
  <2>1. /\ main[p] \in Memory /\ MaxCommands[p] \in Nat
        /\ Orderly(main[p], From(inbox, p), outbox[p], At(index, p), MaxCommands[p])
    BY Standing
  <2>2. AsksFor(m, r)
    BY <1>4, <1>5 DEF AsksFor
  <2>3. QED
    BY <1>1, <1>3, <1>4, <2>1, <2>2, AskOrderly
<1>8. main' = [main EXCEPT ![p] = m] /\ Send(r) /\ UNCHANGED <<outbox, index, local>>
    BY <1>2, <1>3, <1>4, <1>5 DEF StartRegister
<1>9. QED
    BY <1>3, <1>4, <1>5, <1>6, <1>7, <1>8, AskStep DEF AtEase

LEMMA StartDeregisterSound ==
    ASSUME Inv, NamesInv, NEW p \in Peers, StartDeregister(p)
    PROVE  Sound
<1>1. main[p].at = "menu" /\ main[p].typed < MaxCommands[p]
    BY DEF StartDeregister, Typed
<1>2. PICK c \in Contents :
          /\ Send(Pdu("T", p, main[p].name, c))
          /\ main' = [main EXCEPT ![p] = WithContent(Picked(p), "deregister", c)]
    BY Zenon DEF StartDeregister, WithContent
<1>3. PICK m1 \in Memory :
          /\ m1 = Picked(p) /\ m1.typed = main[p].typed + 1 /\ m1.ready = FALSE
          /\ m1.name = main[p].name /\ m1.own = main[p].own /\ m1.regs = main[p].regs
    BY Standing, PickedFields
<1>4. PICK m \in Memory :
          /\ m = WithContent(m1, "deregister", c) /\ m.typed = m1.typed
          /\ m.ready = m1.ready /\ m.name = m1.name /\ m.own = m1.own /\ m.regs = m1.regs
          /\ m.at = "deregister"
    BY ContentFields DEF Places
<1>5. PICK r \in Request : /\ r = Pdu("T", p, main[p].name, c)
                           /\ r.from = p /\ r.type = "T" /\ r.peer = m.name
    BY <1>3, <1>4, Standing, PduTypes, PduFields
<1>6. From(inbox, p) = {} /\ outbox[p] = <<>>
    BY <1>1, Standing, AtRest DEF Orderly
<1>7. Orderly(m, {r}, <<>>, At(index, p), MaxCommands[p])
  <2>1. /\ main[p] \in Memory /\ MaxCommands[p] \in Nat
        /\ Orderly(main[p], From(inbox, p), outbox[p], At(index, p), MaxCommands[p])
    BY Standing
  <2>2. AsksFor(m, r)
    BY <1>4, <1>5 DEF AsksFor
  <2>3. QED
    BY <1>1, <1>3, <1>4, <2>1, <2>2, AskOrderly
<1>8. main' = [main EXCEPT ![p] = m] /\ Send(r) /\ UNCHANGED <<outbox, index, local>>
    BY <1>2, <1>3, <1>4, <1>5 DEF StartDeregister
<1>9. QED
    BY <1>3, <1>4, <1>5, <1>6, <1>7, <1>8, AskStep DEF AtEase

LEMMA StartListSound ==
    ASSUME Inv, NamesInv, NEW p \in Peers, StartList(p)
    PROVE  Sound
<1>1. main[p].at = "menu" /\ main[p].typed < MaxCommands[p]
    BY DEF StartList, Typed
<1>2. PICK m1 \in Memory :
          /\ m1 = Picked(p) /\ m1.typed = main[p].typed + 1 /\ m1.ready = FALSE
          /\ m1.name = main[p].name /\ m1.own = main[p].own /\ m1.regs = main[p].regs
    BY Standing, PickedFields
<1>3. PICK m \in Memory :
          /\ m = Moved(m1, "list") /\ m.typed = m1.typed
          /\ m.ready = m1.ready /\ m.name = m1.name /\ m.own = m1.own /\ m.regs = m1.regs
          /\ m.at = "list"
    BY MovedFields DEF Places
<1>4. PICK r \in Request : /\ r = Pdu("O", p, NoName, NoName)
                           /\ r.from = p /\ r.type = "O"
    BY PduTypes, PduFields
<1>5. From(inbox, p) = {} /\ outbox[p] = <<>>
    BY <1>1, Standing, AtRest DEF Orderly
<1>6. Orderly(m, {r}, <<>>, At(index, p), MaxCommands[p])
  <2>1. /\ main[p] \in Memory /\ MaxCommands[p] \in Nat
        /\ Orderly(main[p], From(inbox, p), outbox[p], At(index, p), MaxCommands[p])
    BY Standing
  <2>2. AsksFor(m, r)
    BY <1>3, <1>4 DEF AsksFor
  <2>3. QED
    BY <1>1, <1>2, <1>3, <2>1, <2>2, AskOrderly
<1>7. main' = [main EXCEPT ![p] = m] /\ Send(r) /\ UNCHANGED <<outbox, index, local>>
    BY <1>2, <1>3, <1>4, Zenon DEF StartList, Moved
<1>8. QED
    BY <1>2, <1>3, <1>4, <1>5, <1>6, <1>7, AskStep DEF AtEase

LEMMA StartAcceptSound ==
    ASSUME Inv, NamesInv, NEW p \in Peers, StartAccept(p)
    PROVE  Sound
<1>1. main[p].at = "menu" /\ main[p].typed < MaxCommands[p]
    BY DEF StartAccept, Typed
<1>2. PICK m1 \in Memory :
          /\ m1 = Picked(p) /\ m1.typed = main[p].typed + 1 /\ m1.ready = FALSE
          /\ m1.name = main[p].name /\ m1.own = main[p].own /\ m1.regs = main[p].regs
    BY Standing, PickedFields
<1>3. PICK m \in Memory :
          /\ m = Moved(m1, "await") /\ m.typed = m1.typed
          /\ m.ready = m1.ready /\ m.name = m1.name /\ m.own = m1.own /\ m.regs = m1.regs
          /\ m.at = "await"
    BY MovedFields DEF Places
<1>4. ~ Accepted(main[p], outbox[p])
    BY <1>1 DEF Accepted
<1>5. Orderly(m, {}, <<>>, At(index, p), MaxCommands[p])
  <2>1. /\ main[p] \in Memory /\ MaxCommands[p] \in Nat
        /\ Orderly(main[p], From(inbox, p), outbox[p], At(index, p), MaxCommands[p])
    BY Standing
  <2>2. QED
    BY <1>1, <1>2, <1>3, <1>4, <2>1, RestOrderly
<1>6. main' = [main EXCEPT ![p] = m] /\ UNCHANGED <<inbox, outbox, index, local>>
    BY <1>2, <1>3, Zenon DEF StartAccept, server, Moved
<1>7. QED
    BY <1>1, <1>2, <1>3, <1>5, <1>6, NobodyServes, QuietStep DEF AtEase

(* The answer to 'R': what is noted is listed.                             *)
LEMMA EndRegisterSound ==
    ASSUME Inv, NamesInv, NEW p \in Peers, EndRegister(p)
    PROVE  Sound
<1>1. /\ main[p].at = "register" /\ Receive(p) /\ outbox[p] # <<>>
      /\ UNCHANGED <<inbox, index, local>>
    BY DEF EndRegister, Receive
<1>2. Head(outbox[p]) = outbox[p][1] /\ Tail(outbox[p]) = <<>>
  <2>1. Len(outbox[p]) = 1
    BY <1>1, Standing, WhenTold DEF Orderly, Told
  <2>2. PICK s \in Seq(Reply) : s = outbox[p] /\ Len(s) = 1 /\ s # <<>>
    BY <1>1, <2>1, Standing
  <2>3. Len(Tail(s)) = 0 /\ Tail(s) \in Seq(Reply) /\ Head(s) = s[1]
    BY <2>2, HeadTailProperties
  <2>4. Tail(s) = <<>>
    BY <2>3, EmptySeq
  <2>5. QED
    BY <2>2, <2>3, <2>4
<1>3. main[p] \in Memory /\ main[p].ready = FALSE /\ main[p].content \in Contents
    BY <1>1, Standing DEF AtEase, AtWork
<1>4. CASE /\ Head(outbox[p]).type = "E"
           /\ main' = [main EXCEPT ![p] = Moved(main[p], "rename")]
  <2>1. PICK m \in Memory :
            /\ m = Moved(main[p], "rename") /\ m.typed = main[p].typed
            /\ m.ready = main[p].ready /\ m.name = main[p].name /\ m.own = main[p].own
            /\ m.regs = main[p].regs /\ m.at = "rename"
    BY <1>3, MovedFields DEF Places
  <2>2. ~ Accepted(main[p], outbox[p])
    BY <1>2, <1>4 DEF Accepted
  <2>3. Orderly(m, {}, <<>>, At(index, p), MaxCommands[p])
    <3>1. /\ main[p] \in Memory /\ MaxCommands[p] \in Nat
          /\ Orderly(main[p], From(inbox, p), outbox[p], At(index, p), MaxCommands[p])
      BY Standing
    <3>2. QED
      BY <1>1, <2>1, <2>2, <3>1, RestOrderly
  <2>4. main' = [main EXCEPT ![p] = m]
    BY <1>4, <2>1
  <2>5. QED
    BY <1>1, <1>2, <1>3, <2>1, <2>3, <2>4, ReadStep DEF AtEase
<1>5. CASE /\ Head(outbox[p]).type = "A"
           /\ main' = [main EXCEPT ![p] = Done(Remember(main[p]))]
  <2>1. PICK m1 \in Memory :
            /\ m1 = Remember(main[p]) /\ m1.typed = main[p].typed
            /\ m1.ready = main[p].ready /\ m1.name = main[p].name /\ m1.own = main[p].own
    <3>1. Remember(main[p]) \in Memory
      BY <1>3, RememberMemory
    <3>2. PICK rs : Remember(main[p]) = [main[p] EXCEPT !.regs = rs]
      BY DEF Remember
    <3>3. QED
      BY <1>3, <3>1, <3>2 DEF Memory
  <2>2. PICK m \in Memory :
            /\ m = Done(m1) /\ m.at = "menu" /\ m.ready = FALSE /\ m.typed = m1.typed
            /\ m.name = m1.name /\ m.own = m1.own /\ m.regs = m1.regs
    BY <1>3, <2>1, DoneFields
  <2>3. Orderly(m, {}, <<>>, At(index, p), MaxCommands[p])
    BY <1>1, <1>3, <2>1, <2>2, Standing, NoteOrderly DEF Roomy
  <2>4. main' = [main EXCEPT ![p] = m]
    BY <1>5, <2>1, <2>2
  <2>5. Distinguished => Listed(main[p].name, main[p].content, p)
    BY <1>1, <1>2, <1>5 DEF NamesInv, Noted, Accepted
  <2>6. QED
    BY <1>1, <1>2, <2>1, <2>2, <2>3, <2>4, <2>5, ReadStep DEF AtEase
<1>6. CASE /\ Head(outbox[p]).type # "A"
           /\ main' = [main EXCEPT ![p] = Done(main[p])]
  <2>1. PICK m \in Memory :
            /\ m = Done(main[p]) /\ m.at = "menu" /\ m.ready = FALSE /\ m.typed = main[p].typed
            /\ m.name = main[p].name /\ m.own = main[p].own /\ m.regs = main[p].regs
    BY <1>3, DoneFields
  <2>2. ~ Accepted(main[p], outbox[p])
    BY <1>2, <1>6 DEF Accepted
  <2>3. Orderly(m, {}, <<>>, At(index, p), MaxCommands[p])
    <3>1. /\ main[p] \in Memory /\ MaxCommands[p] \in Nat
          /\ Orderly(main[p], From(inbox, p), outbox[p], At(index, p), MaxCommands[p])
      BY Standing
    <3>2. QED
      BY <1>1, <2>1, <2>2, <3>1, RestOrderly
  <2>4. QED
    BY <1>1, <1>2, <1>6, <2>1, <2>3, ReadStep DEF AtEase
<1>7. QED
  <2>1. [main EXCEPT ![p].at = "rename"] = [main EXCEPT ![p] = Moved(main[p], "rename")]
    BY DEF Moved
  <2>2. QED
    BY <1>4, <1>5, <1>6, <2>1 DEF EndRegister

LEMMA RenameSound ==
    ASSUME Inv, NamesInv, NEW p \in Peers, Rename(p)
    PROVE  Sound
<1>1. main[p].at = "rename" /\ main[p] \in Memory
    BY Standing DEF Rename
<1>2. PICK n \in Names, c \in Contents :
          /\ Send(Pdu("Y", p, n, c))
          /\ main' = [main EXCEPT ![p] = Renamed(main[p], n, c)]
    BY Zenon DEF Rename, Renamed
<1>3. PICK m : m = Renamed(main[p], n, c)
    OBVIOUS
<1>3a. /\ m \in Memory /\ m.at = "register" /\ m.name = n /\ m.own = FALSE
       /\ m.content = c /\ m.typed = main[p].typed /\ m.ready = main[p].ready
       /\ m.regs = main[p].regs
  <2>1. main[p] \in Memory
    BY <1>1
  <2>2. m \in Memory
    BY <1>3, <2>1, RenamedFields
  <2>3. m.at = "register"
    BY <1>3, <2>1, RenamedFields
  <2>4. m.name = n
    BY <1>3, <2>1, RenamedFields
  <2>5. m.own = FALSE
    BY <1>3, <2>1, RenamedFields
  <2>6. m.content = c
    BY <1>3, <2>1, RenamedFields
  <2>7. m.typed = main[p].typed /\ m.ready = main[p].ready /\ m.regs = main[p].regs
    <3>1. PICK m0 \in Memory : m0 = main[p]
      BY <2>1
    <3>2. /\ Renamed(m0, n, c).typed = m0.typed /\ Renamed(m0, n, c).ready = m0.ready
          /\ Renamed(m0, n, c).regs = m0.regs
      BY DEF Memory, Renamed
    <3>3. m = Renamed(m0, n, c)
      BY <1>3, <3>1
    <3>4. QED
      BY <3>1, <3>2, <3>3
  <2>8. QED
    BY <2>2, <2>3, <2>4, <2>5, <2>6, <2>7
<1>4. PICK r \in Request : /\ r = Pdu("Y", p, n, c)
                           /\ r.from = p /\ r.type = "Y" /\ r.peer = n /\ r.content = c
    BY PduTypes, PduFields
<1>5. From(inbox, p) = {} /\ outbox[p] = <<>>
    BY <1>1, Standing, AtRest DEF Orderly
<1>6. Orderly(m, {r}, <<>>, At(index, p), MaxCommands[p])
    BY <1>1, <1>3a, <1>4, Standing, RenameOrderly DEF AsksFor
<1>7. main' = [main EXCEPT ![p] = m] /\ Send(r) /\ UNCHANGED <<outbox, index, local>>
    BY <1>2, <1>3, <1>4 DEF Rename
<1>8. QED
    BY <1>3a, <1>4, <1>5, <1>6, <1>7, Standing, AskStep DEF AtEase

LEMMA KeepNameSound ==
    ASSUME Inv, NamesInv, NEW p \in Peers, KeepName(p)
    PROVE  Sound
<1>1. /\ main[p].at = "rename" /\ main[p] \in Memory /\ main[p].ready = FALSE
      /\ main' = [main EXCEPT ![p] = Done(main[p])]
    BY Standing DEF KeepName, AtEase
<1>2. PICK m \in Memory :
          /\ m = Done(main[p]) /\ m.at = "menu" /\ m.ready = FALSE /\ m.typed = main[p].typed
          /\ m.name = main[p].name /\ m.own = main[p].own /\ m.regs = main[p].regs
    BY <1>1, DoneFields
<1>3. ~ Accepted(main[p], outbox[p])
    BY <1>1 DEF Accepted
<1>4. Orderly(m, {}, <<>>, At(index, p), MaxCommands[p])
  <2>1. /\ main[p] \in Memory /\ MaxCommands[p] \in Nat
        /\ Orderly(main[p], From(inbox, p), outbox[p], At(index, p), MaxCommands[p])
    BY Standing
  <2>2. QED
    BY <1>1, <1>2, <1>3, <2>1, RestOrderly
<1>5. UNCHANGED <<inbox, outbox, index, local>>
    BY DEF KeepName, server
<1>6. QED
    BY <1>1, <1>2, <1>4, <1>5, NobodyServes, QuietStep DEF AtEase

LEMMA EndDeregisterSound ==
    ASSUME Inv, NamesInv, NEW p \in Peers, EndDeregister(p)
    PROVE  Sound
<1>1. /\ main[p].at = "deregister" /\ Receive(p) /\ outbox[p] # <<>>
      /\ main' = [main EXCEPT ![p] = Done(main[p])] /\ UNCHANGED <<inbox, index, local>>
    BY DEF EndDeregister, Receive
<1>2. Tail(outbox[p]) = <<>>
  <2>1. Len(outbox[p]) = 1
    BY <1>1, Standing, WhenTold DEF Orderly, Told
  <2>2. QED
    BY <1>1, <2>1, Standing, TailOfOne
<1>3. main[p] \in Memory /\ main[p].ready = FALSE
    BY Standing DEF AtEase
<1>4. PICK m \in Memory :
          /\ m = Done(main[p]) /\ m.at = "menu" /\ m.ready = FALSE /\ m.typed = main[p].typed
          /\ m.name = main[p].name /\ m.own = main[p].own /\ m.regs = main[p].regs
    BY <1>3, DoneFields
<1>5. ~ Accepted(main[p], outbox[p])
    BY <1>1 DEF Accepted
<1>6. Orderly(m, {}, <<>>, At(index, p), MaxCommands[p])
  <2>1. /\ main[p] \in Memory /\ MaxCommands[p] \in Nat
        /\ Orderly(main[p], From(inbox, p), outbox[p], At(index, p), MaxCommands[p])
    BY Standing
  <2>2. QED
    BY <1>1, <1>4, <1>5, <2>1, RestOrderly
<1>7. QED
    BY <1>1, <1>2, <1>4, <1>6, ReadStep DEF AtEase

LEMMA ReadListSound ==
    ASSUME Inv, NamesInv, NEW p \in Peers, ReadList(p)
    PROVE  Sound
<1>1. /\ main[p].at = "list" /\ Receive(p) /\ outbox[p] # <<>>
      /\ UNCHANGED <<inbox, index, local>>
    BY DEF ReadList, Receive
<1>2. /\ main[p] \in Memory /\ main[p].ready = FALSE /\ AtEase(main[p])
      /\ outbox[p] \in Seq(Reply) /\ MaxCommands[p] \in Nat
      /\ Orderly(main[p], From(inbox, p), outbox[p], At(index, p), MaxCommands[p])
    BY Standing DEF AtEase
<1>3. /\ Orderly(main[p], {}, Tail(outbox[p]), At(index, p), MaxCommands[p])
      /\ Head(outbox[p]).type = "A" => Tail(outbox[p]) = <<>>
    BY <1>1, <1>2, ListOrderly
<1>4. CASE Head(outbox[p]).type = "A" /\ main' = [main EXCEPT ![p] = Done(main[p])]
  <2>1. PICK m \in Memory :
            /\ m = Done(main[p]) /\ m.at = "menu" /\ m.ready = FALSE /\ m.typed = main[p].typed
            /\ m.name = main[p].name /\ m.own = main[p].own /\ m.regs = main[p].regs
    BY <1>2, DoneFields
  <2>2. ~ Accepted(main[p], outbox[p])
    BY <1>1 DEF Accepted
  <2>3. Orderly(m, {}, <<>>, At(index, p), MaxCommands[p])
    BY <1>1, <1>2, <2>1, <2>2, RestOrderly
  <2>4. QED
    BY <1>1, <1>3, <1>4, <2>1, <2>3, ReadStep DEF AtEase
<1>5. CASE main' = main
  <2>1. PICK m \in Memory : m = main[p]
    BY <1>2
  <2>2. main' = [main EXCEPT ![p] = m]
    BY <1>5, <2>1, InvTypes DEF TypeOK
  <2>3. QED
    BY <1>1, <1>2, <1>3, <2>1, <2>2, ReadStep
<1>6. QED
    BY <1>4, <1>5 DEF ReadList

(* A peer that leaves has no clients to disconnect.                        *)
LEMMA LeaveAlone ==
    ASSUME Inv, NamesInv, NEW p \in Peers, Leave(p, "gone")
    PROVE  /\ main' = [main EXCEPT ![p] = Moved(main[p], "gone")]
           /\ \A q \in Peers : /\ conn'[q] = None /\ backlog'[q] = <<>>
                               /\ \A k \in Kids : kid'[q][k] = None
<1>1. backlog[p] = <<>> /\ backlog \in [Peers -> Seq(Peers)]
    BY Standing DEF Inv, TypeOK
<1>2. \A q : ~ Contains(backlog[p], q)
    BY <1>1 DEF Contains
<1>3. conn' = [q \in Peers |-> conn[q]]
    BY <1>2 DEF Leave
<1>4. backlog' = [backlog EXCEPT ![p] = <<>>] /\ kid' = kid
    BY DEF Leave
<1>5. main' = [main EXCEPT ![p] = Moved(main[p], "gone")]
    BY DEF Leave, Moved
<1>6. QED
    BY <1>1, <1>3, <1>4, <1>5 DEF NamesInv, Idle

LEMMA StartQuitSound ==
    ASSUME Inv, NamesInv, NEW p \in Peers, StartQuit(p)
    PROVE  Sound
<1>1. main[p].at = "menu" /\ main[p].typed < MaxCommands[p]
    BY DEF StartQuit, Typed
<1>2. /\ main[p] \in Memory /\ main[p].ready = FALSE /\ MaxCommands[p] \in Nat
      /\ Orderly(main[p], From(inbox, p), outbox[p], At(index, p), MaxCommands[p])
    BY Standing DEF AtEase
<1>3. CASE main[p].regs = <<>> /\ Leave(p, "gone") /\ UNCHANGED server
  <2>1. PICK m \in Memory :
            /\ m = Moved(main[p], "gone") /\ m.typed = main[p].typed
            /\ m.ready = main[p].ready /\ m.name = main[p].name /\ m.own = main[p].own
            /\ m.regs = main[p].regs /\ m.at = "gone"
    BY <1>2, MovedFields DEF Places
  <2>2. Orderly(m, {}, <<>>, At(index, p), MaxCommands[p])
    BY <1>1, <1>2, <1>3, <2>1, GoneOrderly
  <2>3. /\ main' = [main EXCEPT ![p] = m] /\ UNCHANGED <<inbox, outbox, index>>
        /\ \A q \in Peers : /\ conn'[q] = None /\ backlog'[q] = <<>>
                            /\ \A k \in Kids : kid'[q][k] = None
    BY <1>3, <2>1, LeaveAlone DEF server
  <2>4. QED
    BY <1>1, <1>2, <2>1, <2>2, <2>3, QuietStep DEF AtEase
<1>4. CASE /\ main[p].regs # <<>>
           /\ Send(Pdu("T", p, main[p].name, Last(main[p].regs)))
           /\ main' = [main EXCEPT ![p] = [Picked(p) EXCEPT !.at = "quit",
                                                !.left = Len(main[p].regs) - 1]]
           /\ UNCHANGED <<outbox, index, local>>
  <2>1. PICK l \in Nat : l = Len(main[p].regs)
    BY <1>2, MemoryNumbers
  <2>2. PICK k \in Nat : k = Len(main[p].regs) - 1
    <3>1. l # 0
      BY <1>2, <1>4, <2>1, MemoryNumbers, EmptySeq
    <3>2. l - 1 \in Nat
      BY <3>1
    <3>3. QED
      BY <2>1, <3>2
  <2>3. PICK c \in Contents : c = Last(main[p].regs) /\ c = main[p].regs[Len(main[p].regs)]
    <3>1. l \in 1..l
      BY <2>1, <2>2
    <3>2. main[p].regs[l] \in Contents
      BY <1>2, <2>1, <3>1, MemoryNumbers, ElementOfSeq
    <3>3. QED
      BY <2>1, <3>2 DEF Last
  <2>4. PICK m1 \in Memory :
            /\ m1 = Picked(p) /\ m1.typed = main[p].typed + 1 /\ m1.ready = FALSE
            /\ m1.name = main[p].name /\ m1.own = main[p].own /\ m1.regs = main[p].regs
    BY Standing, PickedFields
  <2>5. PICK m \in Memory :
            /\ m = WithLeft(m1, "quit", k) /\ m.typed = m1.typed
            /\ m.ready = m1.ready /\ m.name = m1.name /\ m.own = m1.own /\ m.regs = m1.regs
            /\ m.at = "quit" /\ m.left = k
    BY LeftFields DEF Places
  <2>6. PICK r \in Request : /\ r = Pdu("T", p, main[p].name, c) /\ r.content = c
                             /\ r.from = p /\ r.type = "T" /\ r.peer = m.name
    BY <2>4, <2>5, Standing, PduTypes, PduFields
  <2>7. From(inbox, p) = {} /\ outbox[p] = <<>>
    BY <1>1, <1>2, AtRest DEF Orderly
  <2>8. Orderly(m, {r}, <<>>, At(index, p), MaxCommands[p])
    <3>1. AsksFor(m, r)
      BY <2>5, <2>6 DEF AsksFor
    <3>2. QED
      BY <1>1, <1>2, <1>4, <2>2, <2>3, <2>4, <2>5, <2>6, <3>1, QuitOrderly
  <2>9. main' = [main EXCEPT ![p] = m] /\ Send(r)
    BY <1>4, <2>2, <2>3, <2>4, <2>5, <2>6, Zenon DEF WithLeft
  <2>10. outbox' = outbox /\ UNCHANGED <<index, local>>
    BY <1>4
  <2>11. QED
    BY <2>4, <2>5, <2>6, <2>7, <2>8, <2>9, <2>10, AskStep DEF AtEase
<1>5. QED
    BY <1>3, <1>4 DEF StartQuit

LEMMA ReadQuitSound ==
    ASSUME Inv, NamesInv, NEW p \in Peers, ReadQuit(p)
    PROVE  Sound
<1>1. main[p].at = "quit" /\ Receive(p) /\ outbox[p] # <<>>
    BY DEF ReadQuit, Receive
<1>2. /\ main[p] \in Memory /\ main[p].ready = FALSE /\ MaxCommands[p] \in Nat
      /\ outbox[p] \in Seq(Reply) /\ main[p].left < Len(main[p].regs)
      /\ Orderly(main[p], From(inbox, p), outbox[p], At(index, p), MaxCommands[p])
    BY <1>1, Standing DEF AtEase, AtWork
<1>3. /\ From(inbox, p) = {} /\ Tail(outbox[p]) = <<>>
      /\ Head(outbox[p]).peer = main[p].name
  <2>1. From(inbox, p) = {} /\ Len(outbox[p]) = 1 /\ outbox[p][1].peer = main[p].name
    BY <1>1, <1>2, WhenTold DEF Orderly, Told
  <2>2. QED
    BY <1>1, <1>2, <2>1, TailOfOne
<1>4. outbox'[p] = <<>> /\ \A q \in Peers : q # p => outbox'[q] = outbox[q]
    BY <1>1, <1>3, InvTypes DEF Receive, ChannelsTypeOK
<1>5. CASE main[p].left = 0 /\ Leave(p, "gone") /\ UNCHANGED <<inbox, index>>
  <2>1. PICK m \in Memory :
            /\ m = Moved(main[p], "gone") /\ m.typed = main[p].typed
            /\ m.ready = main[p].ready /\ m.name = main[p].name /\ m.own = main[p].own
            /\ m.regs = main[p].regs /\ m.at = "gone"
    BY <1>2, MovedFields DEF Places
  <2>2. Orderly(m, {}, <<>>, At(index, p), MaxCommands[p])
    BY <1>1, <1>2, <1>5, <2>1, GoneOrderly
  <2>3. /\ main' = [main EXCEPT ![p] = m]
        /\ \A q \in Peers : /\ conn'[q] = None /\ backlog'[q] = <<>>
                            /\ \A k \in Kids : kid'[q][k] = None
    BY <1>5, <2>1, LeaveAlone
  <2>4. From(inbox', p) = {} /\ OneEach(inbox')
        /\ \A q \in Peers : From(inbox', q) = From(inbox, q)
    BY <1>3, <1>5 DEF NamesInv
  <2>5. QED
    BY <1>2, <1>4, <1>5, <2>1, <2>2, <2>3, <2>4, OneParent DEF AtEase
<1>6. CASE /\ main[p].left > 0
           /\ Send(Pdu("T", p, Head(outbox[p]).peer, main[p].regs[main[p].left]))
           /\ main' = [main EXCEPT ![p].left = main[p].left - 1]
           /\ UNCHANGED <<index, local>>
  <2>1. PICK l \in Nat : l = Len(main[p].regs)
    BY <1>2, MemoryNumbers
  <2>2. PICK k \in Nat : k = main[p].left - 1
    <3>1. main[p].left \in Nat
      BY <1>2, MemoryNumbers
    <3>2. main[p].left - 1 \in Nat
      BY <1>6, <3>1
    <3>3. QED
      BY <3>2
  <2>3. PICK c \in Contents : c = main[p].regs[main[p].left]
    <3>1. main[p].left \in 1..l
      BY <1>2, <1>6, <2>1, MemoryNumbers
    <3>2. QED
      BY <1>2, <2>1, <3>1, MemoryNumbers, ElementOfSeq
  <2>4. PICK m \in Memory :
            /\ m = WithLeft(main[p], "quit", k) /\ m.at = "quit" /\ m.left = k
            /\ m.typed = main[p].typed /\ m.ready = main[p].ready /\ m.name = main[p].name
            /\ m.own = main[p].own /\ m.regs = main[p].regs
    <3>1. PICK m0 \in Memory, x \in Places : m0 = main[p] /\ x = "quit"
      BY <1>2 DEF Places
    <3>2. PICK m2 \in Memory :
              /\ m2 = WithLeft(m0, x, k) /\ m2.at = x /\ m2.left = k
              /\ m2.typed = m0.typed /\ m2.ready = m0.ready /\ m2.name = m0.name
              /\ m2.own = m0.own /\ m2.regs = m0.regs
      BY LeftFields
    <3>3. /\ m2 = WithLeft(main[p], "quit", k) /\ m2.at = "quit"
          /\ m2.typed = main[p].typed /\ m2.ready = main[p].ready
          /\ m2.name = main[p].name /\ m2.own = main[p].own /\ m2.regs = main[p].regs
      BY <3>1, <3>2
    <3>4. WITNESS m2 \in Memory
    <3>5. QED
      BY <3>2, <3>3
  <2>5. PICK r \in Request : /\ r = Pdu("T", p, main[p].name, c) /\ r.content = c
                             /\ r.from = p /\ r.type = "T" /\ r.peer = m.name
    BY <2>4, Standing, PduTypes, PduFields
  <2>6. Orderly(m, {r}, <<>>, At(index, p), MaxCommands[p])
    <3>1. AsksFor(m, r)
      BY <2>4, <2>5 DEF AsksFor
    <3>2. QED
      BY <1>1, <1>2, <1>6, <2>2, <2>3, <2>4, <2>5, <3>1, NextQuitOrderly
  <2>7. Send(r)
    BY <1>3, <1>6, <2>3, <2>5
  <2>8. main' = [main EXCEPT ![p] = m]
    <3>1. main' = [main EXCEPT ![p] = [main[p] EXCEPT !.left = k]]
      BY <1>6, <2>2
    <3>2. [main[p] EXCEPT !.left = k] = WithLeft(main[p], "quit", k)
      BY <1>1, <1>2 DEF WithLeft, Memory
    <3>3. QED
      BY <2>4, <3>1, <3>2
  <2>9. UNCHANGED <<index, local>>
    BY <1>6
  <2>10. QED
    BY <1>2, <1>3, <1>4, <2>4, <2>5, <2>6, <2>7, <2>8, <2>9, AskStep DEF AtEase
<1>7. QED
    BY <1>5, <1>6 DEF ReadQuit
-----------------------------------------------------------------------------
(* The server takes a request: its sender has no other, and no answer yet. *)
LEMMA Taking ==
    ASSUME Inv, NamesInv, inbox # <<>>, NEW ans \in Seq(Reply), Answer(Head(inbox), ans)
    PROVE  \E r \in Request, p \in Peers :
              /\ r = Head(inbox) /\ p = r.from
              /\ main[p] \in Memory /\ MaxCommands[p] \in Nat
              /\ Orderly(main[p], {r}, <<>>, At(index, p), MaxCommands[p])
              /\ From(inbox', p) = {} /\ outbox'[p] = ans /\ OneEach(inbox')
              /\ \A q \in Peers : q # p => /\ From(inbox', q) = From(inbox, q)
                                           /\ outbox'[q] = outbox[q]
<1>1. inbox \in Seq(Request) /\ outbox \in [Peers -> Seq(Reply)] /\ OneEach(inbox)
    BY InvTypes DEF ChannelsTypeOK, NamesInv
<1>2. PICK r \in Request : r = Head(inbox)
    BY <1>1, HeadTailProperties
<1>3. PICK p \in Peers : p = r.from
    BY DEF Request
<1>4. /\ From(inbox, p) = {r} /\ From(Tail(inbox), p) = {} /\ OneEach(Tail(inbox))
      /\ \A q : q # p => From(Tail(inbox), q) = From(inbox, q)
    BY <1>1, <1>2, <1>3, FromTail
<1>5. /\ main[p] \in Memory /\ MaxCommands[p] \in Nat
      /\ Orderly(main[p], {r}, outbox[p], At(index, p), MaxCommands[p])
    BY <1>4, Standing
<1>6. outbox[p] = <<>>
    BY <1>5 DEF Orderly, Asks
<1>7. inbox' = Tail(inbox) /\ outbox' = [outbox EXCEPT ![p] = outbox[p] \o ans]
    BY <1>2, <1>3 DEF Answer
<1>8. <<>> \o ans = ans
    OBVIOUS
<1>9. outbox'[p] = ans /\ \A q \in Peers : q # p => outbox'[q] = outbox[q]
    BY <1>1, <1>6, <1>7, <1>8
<1>10. Orderly(main[p], {r}, <<>>, At(index, p), MaxCommands[p])
    BY <1>5, <1>6
<1>11. /\ From(inbox', p) = {} /\ OneEach(inbox')
       /\ \A q \in Peers : q # p => From(inbox', q) = From(inbox, q)
    BY <1>4, <1>7
<1>12. QED
    BY <1>2, <1>3, <1>5, <1>9, <1>10, <1>11

(* If it removes only nodes under the sender's name, and the sender and    *)
(* its nodes are in order, so is everybody.                                *)
LEMMA ServedSound ==
    ASSUME Inv, NamesInv, UNCHANGED <<main, local>>, inbox # <<>>,
           NEW r \in Request, NEW p \in Peers, r = Head(inbox), p = r.from,
           From(inbox', p) = {}, OneEach(inbox'),
           \A q \in Peers : q # p => /\ From(inbox', q) = From(inbox, q)
                                     /\ outbox'[q] = outbox[q]
                                     /\ At(index', q) \subseteq At(index, q),
           Orderly(main[p], {}, outbox'[p], At(index', p), MaxCommands[p]),
           \A e \in ToSet(index) \ ToSet(index') : e.peer = main[p].name,
           Accepted(main[p], outbox'[p]) =>
               [peer |-> main[p].name, content |-> main[p].content, addr |-> p] \in ToSet(index')
    PROVE  Sound
<1>1. main' = main /\ kid' = kid /\ backlog' = backlog /\ conn' = conn
    BY DEF local
<1>2. Idle'
    BY <1>1 DEF NamesInv, Idle
<1>3. Distinct'
    BY <1>1 DEF NamesInv, Distinct, Distinguished
<1>4. NotesListed
  <2>1. ASSUME NEW q \in Peers
        PROVE  ~ (Len(main'[q].regs) > Len(main[q].regs))
    BY <1>1, Standing, MemoryNumbers
  <2>2. QED
    BY <2>1 DEF NotesListed
<1>5. \A q \in Peers : Fine(q)'
  <2>1. ASSUME NEW q \in Peers
        PROVE  Orderly(main[q], From(inbox', q), outbox'[q], At(index', q), MaxCommands[q])
    <3>1. CASE q = p
      BY <3>1
    <3>2. CASE q # p
      <4>1. Orderly(main[q], From(inbox, q), outbox[q], At(index, q), MaxCommands[q])
        BY DEF NamesInv, Fine
      <4>2. Orderly(main[q], From(inbox, q), outbox[q], At(index', q), MaxCommands[q])
        BY <3>2, <4>1, FewerNodes
      <4>3. QED
        BY <3>2, <4>2
    <3>3. QED
      BY <3>1, <3>2
  <2>2. QED
    BY <1>1, <2>1 DEF Fine
<1>6. ASSUME Distinguished, NEW e \in ToSet(index) \ ToSet(index')
      PROVE  e.addr = p
  <2>1. e.addr \in Peers
    <3>1. index \in Seq(Entry)
      BY InvTypes
    <3>2. e \in Entry
      BY <3>1, Members
    <3>3. QED
      BY <3>2 DEF Entry
  <2>2. PICK q \in Peers : q = e.addr
    BY <2>1
  <2>3. e \in At(index, q)
    BY <2>2 DEF At
  <2>4. e.peer = main[q].name
    BY <1>6, <2>3 DEF NamesInv, Fine, Orderly, Named, Distinguished
  <2>5. main[q].name = main[p].name
    BY <2>4
  <2>6. q = p
    BY <1>6, <2>5 DEF NamesInv, Distinct
  <2>7. QED
    BY <2>2, <2>6
<1>7. RemovesOwn
    BY <1>6 DEF RemovesOwn
<1>8. Noted'
  <2>1. ASSUME Distinguished, NEW q \in Peers, Accepted(main[q], outbox'[q])
        PROVE  [peer |-> main[q].name, content |-> main[q].content, addr |-> q] \in ToSet(index')
    <3>1. CASE q = p
      BY <2>1, <3>1
    <3>2. CASE q # p
      <4>1. PICK e : e = [peer |-> main[q].name, content |-> main[q].content, addr |-> q]
        OBVIOUS
      <4>2. e \in ToSet(index)
        BY <2>1, <3>2, <4>1 DEF NamesInv, Noted, Listed
      <4>3. e.addr = q
        BY <4>1
      <4>4. e \in ToSet(index')
        BY <1>6, <2>1, <3>2, <4>2, <4>3
      <4>5. QED
        BY <4>1, <4>4
    <3>3. QED
      BY <3>1, <3>2
  <2>2. QED
    BY <1>1, <2>1 DEF Noted, Listed, Distinguished
<1>9. QED
    BY <1>2, <1>3, <1>4, <1>5, <1>7, <1>8 DEF Sound, NamesInv

LEMMA SingleAnswer ==
    ASSUME NEW a \in Reply
    PROVE  \E ans \in Seq(Reply) :
              ans = <<a>> /\ Len(ans) = 1 /\ ans[1] = a /\ ans # <<>>
<1>1. <<a>> \in Seq(Reply) /\ Len(<<a>>) = 1 /\ <<a>>[1] = a /\ <<a>> # <<>>
    OBVIOUS
<1>2. QED
    BY <1>1

(* A list that stays as it is.                                             *)
LEMMA KeptListSound ==
    ASSUME Inv, NamesInv, UNCHANGED <<main, local, index>>, inbox # <<>>,
           NEW ans \in Seq(Reply), Answer(Head(inbox), ans),
           \A E : \A m \in Memory, n \in Nat :
               Orderly(m, {Head(inbox)}, <<>>, E, n)
               => Orderly(m, {}, ans, E, n) /\ ~ Accepted(m, ans)
    PROVE  Sound
<1>1. PICK r \in Request, p \in Peers :
              /\ r = Head(inbox) /\ p = r.from
              /\ main[p] \in Memory /\ MaxCommands[p] \in Nat
              /\ Orderly(main[p], {r}, <<>>, At(index, p), MaxCommands[p])
              /\ From(inbox', p) = {} /\ outbox'[p] = ans /\ OneEach(inbox')
              /\ \A q \in Peers : q # p => /\ From(inbox', q) = From(inbox, q)
                                           /\ outbox'[q] = outbox[q]
    BY Taking
<1>2. PICK E : E = At(index, p)
    OBVIOUS
<1>3. Orderly(main[p], {}, ans, E, MaxCommands[p]) /\ ~ Accepted(main[p], ans)
    BY <1>1, <1>2
<1>4. index' = index /\ UNCHANGED <<main, local>>
    OBVIOUS
<1>5. Orderly(main[p], {}, outbox'[p], At(index', p), MaxCommands[p])
    BY <1>1, <1>2, <1>3, <1>4
<1>6. \A q \in Peers : At(index', q) \subseteq At(index, q)
    BY <1>4
<1>7. ~ Accepted(main[p], outbox'[p])
    BY <1>1, <1>3
<1>8. \A e \in ToSet(index) \ ToSet(index') : e.peer = main[p].name
    BY <1>4
<1>9. QED
    BY <1>1, <1>4, <1>5, <1>6, <1>7, <1>8, ServedSound

LEMMA IgnoreSound ==
    ASSUME Inv, NamesInv, UNCHANGED <<main, local>>, inbox # <<>>,
           Server!Ignore(Head(inbox))
    PROVE  Sound
<1>1. PICK ans \in Seq(Reply) : ans = <<>>
  <2>1. <<>> \in Seq(Reply)
    OBVIOUS
  <2>2. QED
    BY <2>1
<1>2. Answer(Head(inbox), ans) /\ UNCHANGED <<main, local, index>>
    BY <1>1, SameAnswer DEF Server!Ignore
<1>3. ASSUME NEW m \in Memory, NEW E, NEW n \in Nat, Orderly(m, {Head(inbox)}, <<>>, E, n)
      PROVE  Orderly(m, {}, ans, E, n) /\ ~ Accepted(m, ans)
    BY <1>1, <1>3, UnansweredOrderly DEF Accepted
<1>4. QED
    BY <1>2, <1>3, KeptListSound

LEMMA ListingLines ==
    ASSUME NEW list \in Seq(Entry), NEW r \in Request, r.type = "O"
    PROVE  \E ans \in Seq(Reply) :
              /\ ans = Listing(list, r)
              /\ \A k \in 1..Len(ans) - 1 : ans[k].type = "O"
<1> DEFINE ls == [i \in 1..Len(list) |-> Line(list[i])]
<1>1. PICK n \in Nat : n = Len(list)
    BY LenProperties
<1>2. \A e \in Entry : Line(e) \in Reply /\ Line(e).type = "O"
    BY DEF Entry, Line, Reply, AnyName
<1>3. ls \in Seq(Reply) /\ Len(ls) = n /\ \A i \in 1..n : ls[i].type = "O"
  <2>1. \A i \in 1..n : list[i] \in Entry
    BY <1>1, ElementOfSeq
  <2>2. ls \in [1..n -> Reply] /\ \A i \in 1..n : ls[i].type = "O"
    BY <1>1, <1>2, <2>1
  <2>3. ls \in Seq(Reply)
    BY <2>2, IsASeq
  <2>4. Len(ls) = n
    BY <2>2, <2>3, LenProperties
  <2>5. QED
    BY <2>2, <2>3, <2>4
<1>4. Listing(list, r) \in Seq(Reply)
    BY ListingTypes
<1>5. Listing(list, r) = Append(ls, Closing(list, r))
    BY DEF Listing
<1> HIDE DEF ls
<1>6. PICK c : c = Closing(list, r)
    OBVIOUS
<1>7. Len(Append(ls, c)) = n + 1 /\ \A i \in 1..n : Append(ls, c)[i] = ls[i]
    BY <1>3, AppendProperties
<1>8. PICK ans \in Seq(Reply) : ans = Listing(list, r) /\ ans = Append(ls, c)
    BY <1>4, <1>5, <1>6
<1>9. \A k \in 1..Len(ans) - 1 : ans[k].type = "O"
    BY <1>3, <1>7, <1>8
<1>10. QED
    BY <1>8, <1>9

LEMMA ListSound ==
    ASSUME Inv, NamesInv, UNCHANGED <<main, local>>, inbox # <<>>,
           Server!List(Head(inbox))
    PROVE  Sound
<1>1. index \in Seq(Entry) /\ Head(inbox) \in Request
    BY InvTypes, HeadTailProperties DEF ChannelsTypeOK
<1>2. PICK r \in Request : r = Head(inbox)
    BY <1>1
<1>3. Answer(r, Server!Listing(index, r)) /\ r.type = "O"
    BY <1>2, SameAnswer DEF Server!List
<1>4. Server!Listing(index, r) = Listing(index, r)
    BY Zenon DEF Server!Listing, Server!Line, Server!Closing, Server!Echo,
       Listing, Line, Closing, Echo
<1>5. PICK ans \in Seq(Reply) : /\ ans = Listing(index, r)
                                /\ \A k \in 1..Len(ans) - 1 : ans[k].type = "O"
    BY <1>1, <1>3, ListingLines
<1>6. Answer(Head(inbox), ans) /\ UNCHANGED <<main, local, index>>
    BY <1>2, <1>3, <1>4, <1>5 DEF Server!List
<1>7. ASSUME NEW m \in Memory, NEW E, NEW n \in Nat, Orderly(m, {Head(inbox)}, <<>>, E, n)
      PROVE  Orderly(m, {}, ans, E, n) /\ ~ Accepted(m, ans)
  <2>1. Orderly(m, {}, ans, E, n)
    BY <1>2, <1>3, <1>5, <1>7, ListedOrderly
  <2>2. m.at = "list"
    BY <1>2, <1>3, <1>7 DEF Orderly, Asks, AsksFor
  <2>3. QED
    BY <2>1, <2>2 DEF Accepted
<1>8. QED
    BY <1>6, <1>7, KeptListSound

(* 'S' comes from nobody.                                                  *)
LEMMA NobodySearches ==
    ASSUME Inv, NamesInv, inbox # <<>>
    PROVE  Head(inbox).type \in {"R", "Y", "O", "T"}
<1>1. inbox \in Seq(Request) /\ OneEach(inbox)
    BY InvTypes DEF ChannelsTypeOK, NamesInv
<1>2. PICK r \in Request : r = Head(inbox)
    BY <1>1, HeadTailProperties
<1>3. PICK p \in Peers : p = r.from
    BY DEF Request
<1>4. From(inbox, p) = {r}
    BY <1>1, <1>2, <1>3, FromTail
<1>5. AsksFor(main[p], r)
    BY <1>4 DEF NamesInv, Fine, Orderly, Asks
<1>6. QED
    BY <1>2, <1>5 DEF AsksFor

(* 'R': refused.                                                           *)
LEMMA RefuseSound ==
    ASSUME Inv, NamesInv, UNCHANGED <<main, local>>, inbox # <<>>, Head(inbox).type = "R",
           NEW a \in Reply, a.type = "E", Answer(Head(inbox), <<a>>), UNCHANGED index
    PROVE  Sound
<1>1. PICK ans \in Seq(Reply) : ans = <<a>> /\ Len(ans) = 1 /\ ans[1] = a /\ ans # <<>>
    BY SingleAnswer
<1>2. Answer(Head(inbox), ans) /\ UNCHANGED <<main, local, index>>
    BY <1>1
<1>3. ASSUME NEW m \in Memory, NEW E, NEW n \in Nat, Orderly(m, {Head(inbox)}, <<>>, E, n)
      PROVE  Orderly(m, {}, ans, E, n) /\ ~ Accepted(m, ans)
  <2>1. Orderly(m, {}, ans, E, n)
    BY <1>1, <1>3, RegisteredOrderly
  <2>2. QED
    BY <1>1, <2>1 DEF Accepted
<1>4. QED
    BY <1>2, <1>3, KeptListSound

(* 'R': appended.                                                          *)
LEMMA AppendSound ==
    ASSUME Inv, NamesInv, UNCHANGED <<main, local>>, inbox # <<>>, Head(inbox).type = "R",
           index' = Append(index, EntryOf(Head(inbox))),
           Answer(Head(inbox), <<Echo("A", Head(inbox))>>)
    PROVE  Sound
<1>1. index \in Seq(Entry) /\ Head(inbox) \in Request
    BY InvTypes, HeadTailProperties DEF ChannelsTypeOK
<1>2. PICK r0 \in Request : r0 = Head(inbox) /\ r0.type = "R"
    BY <1>1
<1>3. PICK a \in Reply : a = Echo("A", r0) /\ a.type = "A"
    BY ReplyTypes
<1>4. PICK ans \in Seq(Reply) : ans = <<a>> /\ Len(ans) = 1 /\ ans[1] = a /\ ans # <<>>
    BY SingleAnswer
<1>5. Answer(Head(inbox), ans)
    BY <1>2, <1>3, <1>4
<1>6. PICK r \in Request, p \in Peers :
              /\ r = Head(inbox) /\ p = r.from
              /\ main[p] \in Memory /\ MaxCommands[p] \in Nat
              /\ Orderly(main[p], {r}, <<>>, At(index, p), MaxCommands[p])
              /\ From(inbox', p) = {} /\ outbox'[p] = ans /\ OneEach(inbox')
              /\ \A q \in Peers : q # p => /\ From(inbox', q) = From(inbox, q)
                                           /\ outbox'[q] = outbox[q]
    BY <1>5, Taking
<1>7. PICK e \in Entry : /\ e = EntryOf(r) /\ e.addr = p
                         /\ e.peer = r.peer /\ e.content = r.content
    BY <1>2, <1>6 DEF EntryOf, Request, Entry
<1>8. ToSet(index') = ToSet(index) \cup {e}
    BY <1>1, <1>6, <1>7, MembersAppend
<1>9. \A q \in Peers : q # p => At(index', q) \subseteq At(index, q)
    BY <1>7, <1>8 DEF At
<1>10. \A x \in At(index', p) : x \in At(index, p) \/ x = e
    BY <1>8 DEF At
<1>11. Orderly(main[p], {}, outbox'[p], At(index', p), MaxCommands[p])
    BY <1>2, <1>3, <1>4, <1>6, <1>7, <1>10, RegisteredOrderly
<1>12. \A x \in ToSet(index) \ ToSet(index') : x.peer = main[p].name
    BY <1>8
<1>13. [peer |-> main[p].name, content |-> main[p].content, addr |-> p] \in ToSet(index')
  <2>1. r.peer = main[p].name /\ r.content = main[p].content
    BY <1>2, <1>6 DEF Orderly, Asks, AsksFor
  <2>2. e = [peer |-> main[p].name, content |-> main[p].content, addr |-> p]
    BY <1>6, <1>7, <2>1 DEF EntryOf
  <2>3. QED
    BY <1>8, <2>2
<1>14. QED
    BY <1>6, <1>9, <1>11, <1>12, <1>13, ServedSound

(* What 'T' takes off the list.                                            *)
LEMMA WithdrawnNodes ==
    ASSUME Inv, Server!UniqueEntries, inbox # <<>>, Server!Deregister(Head(inbox)),
           NEW r \in Request, r = Head(inbox)
    PROVE  /\ index' \in Seq(Entry)
           /\ ToSet(index') = {e \in ToSet(index) : ~ (e.peer = r.peer /\ e.content = r.content)}
<1>1. index \in Seq(Entry)
    BY InvTypes
<1>2. index' = Proved!Unlink(index, r)
  <2>1. index' = Server!Unlink(index, r)
    BY DEF Server!Deregister
  <2>2. Server!Unlink(index, r) = Proved!Unlink(index, r)
    BY Zenon DEF Server!Unlink, Server!UnlinkInTail, Server!Matches, Server!DropAt,
       Proved!Unlink, Proved!UnlinkInTail, Proved!Matches, Proved!DropAt
  <2>3. QED
    BY <2>1, <2>2
<1>3. \A i, j \in 1..Len(index) :
          index[i].peer = index[j].peer /\ index[i].content = index[j].content => i = j
    BY DEF Server!UniqueEntries
<1>4. index \in Seq(Proved!Entry)
    BY <1>1 DEF Entry, Proved!Entry
<1>5. Proved!Nodes(Proved!Unlink(index, r)) = Proved!Without(index, r)
    BY <1>3, <1>4, MaxInboxAssumption, Proved!NodesUnlink
<1>6. index' \in Seq(Entry)
  <2>1. Server!Serve
    BY DEF Server!Serve
  <2>2. TypeOK /\ [Server!Next]_server
    BY <2>1, InvTypes, ServeKeeps
  <2>3. QED
    BY <2>2, ServerTypes
<1>7. ToSet(index') = Proved!Nodes(index') /\ ToSet(index) = Proved!Nodes(index)
    BY <1>1, <1>6, Members DEF Proved!Nodes
<1>8. QED
    BY <1>2, <1>5, <1>6, <1>7 DEF Proved!Without, Proved!Matches

(* 'T': all nodes with the name and the content go.                        *)
LEMMA WithdrawSound ==
    ASSUME Inv, NamesInv, Server!UniqueEntries, UNCHANGED <<main, local>>, inbox # <<>>,
           Server!Deregister(Head(inbox))
    PROVE  Sound
<1>1. index \in Seq(Entry) /\ Head(inbox) \in Request
    BY InvTypes, HeadTailProperties DEF ChannelsTypeOK
<1>2. PICK r0 \in Request : r0 = Head(inbox) /\ r0.type = "T"
    BY <1>1 DEF Server!Deregister
<1>3. PICK t \in {"A", "E"} : Answer(r0, <<Echo(t, r0)>>)
    BY <1>2, SameEcho, SameAnswer DEF Server!Deregister
<1>4. PICK a \in Reply : a = Echo(t, r0) /\ a.peer = r0.peer
  <2>1. Echo(t, r0) \in Reply /\ Echo(t, r0).peer = r0.peer
    BY ReplyTypes DEF Echo
  <2>2. QED
    BY <2>1
<1>5. PICK ans \in Seq(Reply) : ans = <<a>> /\ Len(ans) = 1 /\ ans[1] = a /\ ans # <<>>
    BY SingleAnswer
<1>6. Answer(Head(inbox), ans)
    BY <1>2, <1>3, <1>4, <1>5
<1>7. PICK r \in Request, p \in Peers :
              /\ r = Head(inbox) /\ p = r.from
              /\ main[p] \in Memory /\ MaxCommands[p] \in Nat
              /\ Orderly(main[p], {r}, <<>>, At(index, p), MaxCommands[p])
              /\ From(inbox', p) = {} /\ outbox'[p] = ans /\ OneEach(inbox')
              /\ \A q \in Peers : q # p => /\ From(inbox', q) = From(inbox, q)
                                           /\ outbox'[q] = outbox[q]
    BY <1>6, Taking
<1>8. /\ index' \in Seq(Entry)
      /\ ToSet(index') = {e \in ToSet(index) : ~ (e.peer = r.peer /\ e.content = r.content)}
    BY <1>7, WithdrawnNodes
<1>9. \A q \in Peers : At(index', q) \subseteq At(index, q)
    BY <1>8 DEF At
<1>10. \A e \in At(index', p) : e \in At(index, p) /\ ~ (e.peer = r.peer /\ e.content = r.content)
    BY <1>8 DEF At
<1>11. Orderly(main[p], {}, outbox'[p], At(index', p), MaxCommands[p])
    BY <1>2, <1>4, <1>5, <1>7, <1>10, WithdrawnOrderly
<1>12. r.peer = main[p].name /\ main[p].at \in {"deregister", "quit"}
    BY <1>2, <1>7 DEF Orderly, Asks, AsksFor
<1>13. \A e \in ToSet(index) \ ToSet(index') : e.peer = main[p].name
    BY <1>8, <1>12
<1>14. ~ Accepted(main[p], outbox'[p])
    BY <1>12 DEF Accepted
<1>15. QED
    BY <1>7, <1>9, <1>11, <1>13, <1>14, ServedSound

LEMMA ServeSound ==
    ASSUME Inv, NamesInv, Server!UniqueEntries, ServerTurn
    PROVE  Sound
<1>1. UNCHANGED <<main, local>> /\ inbox # <<>>
    BY DEF ServerTurn, Server!Serve
<1>2. PICK r : r = Head(inbox)
    OBVIOUS
<1>3. Server!Register(r) \/ Server!Search(r) \/ Server!Deregister(r)
      \/ Server!List(r) \/ Server!Ignore(r)
    BY <1>2 DEF ServerTurn, Server!Serve
<1>4. CASE Server!Register(r)
  <2>1. Head(inbox).type = "R" /\ Head(inbox) \in Request
    BY <1>1, <1>2, <1>4, InvTypes, HeadTailProperties DEF Server!Register, ChannelsTypeOK
  <2>2. CASE index' = Append(index, Server!EntryOf(r)) /\ Server!Answer(r, <<Server!Echo("A", r)>>)
    <3>1. Server!EntryOf(r) = EntryOf(r)
      BY Zenon DEF Server!EntryOf, EntryOf
    <3>2. Answer(r, <<Echo("A", r)>>)
      BY <2>2, SameEcho, SameAnswer
    <3>3. index' = Append(index, EntryOf(Head(inbox))) /\ Answer(Head(inbox), <<Echo("A", Head(inbox))>>)
      BY <1>2, <2>2, <3>1, <3>2
    <3>4. QED
      BY <1>1, <2>1, <3>3, AppendSound
  <2>3. CASE /\ \E i \in 1..Len(index) :
                   Server!Answer(r, <<Server!Refusal(IF index[i].addr = r.from THEN Server!Duplicate ELSE Server!Taken, r)>>)
             /\ UNCHANGED index
    <3>1. PICK n \in {Duplicate, Taken} : Server!Answer(r, <<Server!Refusal(n, r)>>)
      BY <2>3 DEF Server!Duplicate, Server!Taken, Duplicate, Taken
    <3>2. Answer(r, <<Refusal(n, r)>>)
      BY <3>1, SameRefusal, SameAnswer
    <3>3. Refusal(n, r) \in Reply /\ Refusal(n, r).type = "E"
      BY <1>2, <2>1, ReplyTypes
    <3>4. PICK a \in Reply : a = Refusal(n, r) /\ a.type = "E"
      BY <3>3
    <3>5. Answer(Head(inbox), <<a>>) /\ UNCHANGED index
      BY <1>2, <2>3, <3>2, <3>4
    <3>6. QED
      BY <1>1, <2>1, <3>4, <3>5, RefuseSound
  <2>4. QED
    BY <1>4, <2>2, <2>3 DEF Server!Register
<1>5. CASE Server!Search(r)
    BY <1>1, <1>2, <1>5, NobodySearches DEF Server!Search
<1>6. CASE Server!Deregister(r)
    BY <1>1, <1>2, <1>6, WithdrawSound
<1>7. CASE Server!List(r)
    BY <1>1, <1>2, <1>7, ListSound
<1>8. CASE Server!Ignore(r)
    BY <1>1, <1>2, <1>8, IgnoreSound
<1>9. QED
    BY <1>3, <1>4, <1>5, <1>6, <1>7, <1>8
-----------------------------------------------------------------------------
(* The network loses a datagram of p.                                      *)
LEMMA LostStep ==
    ASSUME Inv, NamesInv, UNCHANGED <<main, local, index>>, NEW p \in Peers,
           OneEach(inbox'),
           \A q \in Peers : q # p => /\ From(inbox', q) = From(inbox, q)
                                     /\ outbox'[q] = outbox[q],
           Orderly(main[p], From(inbox', p), outbox'[p], At(index, p), MaxCommands[p]),
           Accepted(main[p], outbox'[p]) => Accepted(main[p], outbox[p])
    PROVE  Sound
<1>1. main' = main /\ index' = index /\ kid' = kid /\ backlog' = backlog /\ conn' = conn
    BY DEF local
<1>2. Idle'
    BY <1>1 DEF NamesInv, Idle
<1>3. Distinct'
    BY <1>1 DEF NamesInv, Distinct, Distinguished
<1>4. NotesListed
  <2>1. ASSUME NEW q \in Peers
        PROVE  ~ (Len(main'[q].regs) > Len(main[q].regs))
    BY <1>1, Standing, MemoryNumbers
  <2>2. QED
    BY <2>1 DEF NotesListed
<1>5. \A q \in Peers : Fine(q)'
  <2>1. ASSUME NEW q \in Peers
        PROVE  Orderly(main[q], From(inbox', q), outbox'[q], At(index, q), MaxCommands[q])
    <3>1. CASE q = p
      BY <3>1
    <3>2. CASE q # p
      BY <3>2 DEF NamesInv, Fine
    <3>3. QED
      BY <3>1, <3>2
  <2>2. QED
    BY <1>1, <2>1 DEF Fine
<1>6. RemovesOwn
    BY <1>1 DEF RemovesOwn
<1>7. Noted'
  <2>1. ASSUME Distinguished, NEW q \in Peers, Accepted(main[q], outbox'[q])
        PROVE  [peer |-> main[q].name, content |-> main[q].content, addr |-> q] \in ToSet(index)
    <3>1. Accepted(main[q], outbox[q])
      <4>1. CASE q = p
        BY <2>1, <4>1
      <4>2. CASE q # p
        BY <2>1, <4>2
      <4>3. QED
        BY <4>1, <4>2
    <3>2. QED
      BY <2>1, <3>1 DEF NamesInv, Noted, Listed
  <2>2. QED
    BY <1>1, <2>1 DEF Noted, Listed, Distinguished
<1>8. QED
    BY <1>2, <1>3, <1>4, <1>5, <1>6, <1>7 DEF Sound, NamesInv

LEMMA LossSound ==
    ASSUME Inv, NamesInv, NetworkLoss
    PROVE  Sound
<1>1. UNCHANGED <<main, local, index>>
    BY DEF NetworkLoss
<1>2. inbox \in Seq(Request) /\ outbox \in [Peers -> Seq(Reply)] /\ OneEach(inbox)
    BY InvTypes DEF ChannelsTypeOK, NamesInv
<1>3. ASSUME NEW i \in 1..Len(inbox), inbox' = DropAt(inbox, i), outbox' = outbox
      PROVE  Sound
  <2>1. inbox[i] \in Request /\ inbox[i] \in ToSet(inbox)
    BY <1>2, Members
  <2>2. PICK r \in Request, p \in Peers : r = inbox[i] /\ p = r.from /\ r \in From(inbox, p)
    BY <2>1 DEF From, Request
  <2>3. /\ From(inbox', p) = {} /\ OneEach(inbox')
        /\ \A q \in Peers : q # p => From(inbox', q) = From(inbox, q)
    BY <1>2, <1>3, <2>2, FromDrop
  <2>4. /\ main[p] \in Memory /\ MaxCommands[p] \in Nat
        /\ Orderly(main[p], From(inbox, p), outbox[p], At(index, p), MaxCommands[p])
    BY Standing
  <2>5. From(inbox, p) = {r}
    <3>1. PICK n \in Nat : n = Len(inbox)
      BY <1>2, LenProperties
    <3>2. ToSet(inbox) = {inbox[k] : k \in 1..n}
      BY <1>2, <3>1, Members
    <3>3. \A k \in 1..n : inbox[k].from = p => k = i
      BY <1>2, <1>3, <2>2, <3>1 DEF OneEach
    <3>4. \A x \in From(inbox, p) : x = r
      BY <2>2, <3>2, <3>3 DEF From
    <3>5. QED
      BY <2>2, <3>4
  <2>6. outbox[p] = <<>>
    BY <2>2, <2>4 DEF Orderly, Asks
  <2>7. Orderly(main[p], {}, <<>>, At(index, p), MaxCommands[p])
    BY <2>4, <2>5, <2>6, UnansweredOrderly
  <2>8. QED
    BY <1>1, <1>3, <2>3, <2>6, <2>7, LostStep
<1>4. ASSUME NEW p \in Peers, NEW i \in 1..Len(outbox[p]), inbox' = inbox,
             outbox' = [outbox EXCEPT ![p] = DropAt(outbox[p], i)]
      PROVE  Sound
  <2>1. outbox'[p] = DropAt(outbox[p], i) /\ \A q \in Peers : q # p => outbox'[q] = outbox[q]
    BY <1>2, <1>4
  <2>2. /\ main[p] \in Memory /\ MaxCommands[p] \in Nat /\ outbox[p] \in Seq(Reply)
        /\ Orderly(main[p], From(inbox, p), outbox[p], At(index, p), MaxCommands[p])
    BY Standing
  <2>3. /\ Orderly(main[p], {}, DropAt(outbox[p], i), At(index, p), MaxCommands[p])
        /\ From(inbox, p) = {}
    BY <1>4, <2>2, LostOrderly
  <2>4. ~ Accepted(main[p], DropAt(outbox[p], i))
    <3>1. PICK s \in Seq(Reply), n \in Nat : s = DropAt(outbox[p], i) /\ n = Len(outbox[p])
      BY <2>2, LenProperties, SameDrop
    <3>2. ASSUME main[p].at = "register"
          PROVE  s = <<>>
      <4>1. n # 0
        BY <1>4, <3>1
      <4>2. outbox[p] # <<>>
        BY <2>2, <3>1, <4>1, EmptySeq
      <4>3. n = 1
        BY <2>2, <3>1, <3>2, <4>2, WhenTold DEF Orderly, Told
      <4>4. PICK o \in Seq(Reply) : o = outbox[p] /\ i \in 1..Len(o)
        BY <1>4, <2>2
      <4>5. Len(s) = 0
        <5>1. Len(o) = 1 /\ s = DropAt(o, i)
          BY <3>1, <4>3, <4>4
        <5>2. Len(DropAt(o, i)) = Len(o) - 1
          BY <4>4, SameDrop
        <5>3. QED
          BY <5>1, <5>2
      <4>6. QED
        BY <4>5, EmptySeq
    <3>3. QED
      BY <3>1, <3>2 DEF Accepted
  <2>5. QED
    BY <1>1, <1>2, <1>4, <2>1, <2>3, <2>4, LostStep
<1>5. QED
    BY <1>3, <1>4 DEF NetworkLoss, Lose
-----------------------------------------------------------------------------
(* All steps together: without downloads, the other actions never happen.  *)
LEMMA ParentsSound ==
    ASSUME Inv, NamesInv, NoDownloads, NEW p \in Peers,
           User(p) \/ Answered(p) \/ Parent(p)
    PROVE  Sound
<1>1. AtEase(main[p])
    BY Standing
<1>2. ~ StartSearch(p)
    BY DEF StartSearch, Typed, NoDownloads
<1>3. ~ EndSearch(p) /\ ~ EndDownload(p) /\ ~ EndPublish(p)
    BY <1>1 DEF AtEase, EndSearch, EndDownload, EndPublish
<1>4. CASE User(p)
    BY <1>2, <1>4, StartRegisterSound, StartListSound, StartDeregisterSound, StartQuitSound,
       StartAcceptSound DEF User
<1>5. CASE Answered(p)
    BY <1>5, RenameSound, KeepNameSound DEF Answered
<1>6. CASE Parent(p)
    BY <1>3, <1>6, EndRegisterSound, ReadListSound, EndDeregisterSound, ReadQuitSound DEF Parent
<1>7. QED
    BY <1>4, <1>5, <1>6

LEMMA NobodyWorks ==
    ASSUME NamesInv, NEW p \in Peers, NEW k \in Kids
    PROVE  ~ Accept(p, k) /\ ~ Work(p, k)
<1>1. backlog[p] = <<>> /\ kid[p][k] = None
    BY DEF NamesInv, Idle
<1>2. QED
    BY <1>1 DEF Accept, Work, Reject, SendFile, EndChild

LEMMA StutterSound ==
    ASSUME Inv, NamesInv, UNCHANGED vars
    PROVE  Sound
<1>1. /\ main' = main /\ index' = index /\ kid' = kid /\ backlog' = backlog /\ conn' = conn
      /\ inbox' = inbox /\ outbox' = outbox
    BY DEF vars
<1>2. NamesInv'
    BY <1>1 DEF NamesInv, Idle, Fine, Distinct, Noted, Listed, Distinguished
<1>3. NotesListed
  <2>1. ASSUME NEW q \in Peers
        PROVE  ~ (Len(main'[q].regs) > Len(main[q].regs))
    BY <1>1, Standing, MemoryNumbers
  <2>2. QED
    BY <2>1 DEF NotesListed
<1>4. RemovesOwn
    BY <1>1 DEF RemovesOwn
<1>5. QED
    BY <1>2, <1>3, <1>4 DEF Sound

LEMMA NextSound ==
    ASSUME Inv, NamesInv, Server!UniqueEntries, NoDownloads, [Next]_vars
    PROVE  Sound
<1>1. CASE ServerTurn
    BY <1>1, ServeSound
<1>2. CASE NetworkLoss
    BY <1>2, LossSound
<1>3. CASE \E p \in Peers : User(p) \/ Answered(p) \/ Parent(p)
    BY <1>3, ParentsSound
<1>4. CASE \E p \in Peers, k \in Kids : Accept(p, k) \/ Work(p, k)
    BY <1>4, NobodyWorks
<1>5. CASE UNCHANGED vars
    BY <1>5, StutterSound
<1>6. QED
    BY <1>1, <1>2, <1>3, <1>4, <1>5 DEF Next

LEMMA NamesInit ==
    ASSUME Init
    PROVE  NamesInv
<1>1. /\ index = <<>> /\ inbox = <<>> /\ outbox = [p \in Peers |-> <<>>]
      /\ backlog = [p \in Peers |-> <<>>] /\ conn = [p \in Peers |-> None]
      /\ kid = [p \in Peers |-> [k \in Kids |-> None]]
    BY DEF Init, Server!Init, Server!ChannelsInit
<1>2. PICK names \in FirstNames :
          main = [p \in Peers |->
                     [at |-> "menu", name |-> names[p], content |-> None,
                      regs |-> <<>>, ready |-> FALSE, left |-> 0, typed |-> 0,
                      own |-> \A q \in Peers \ {p} : names[q] # names[p]]]
    BY DEF Init
<1>3. \A p \in Peers : /\ main[p].at = "menu" /\ main[p].ready = FALSE
                       /\ main[p].regs = <<>> /\ main[p].typed = 0
                       /\ main[p].name = names[p]
    BY <1>2
<1>4. \A p, q \in Peers : main[p].own /\ names[q] = names[p] => q = p
    BY <1>2
<1>5. Idle
    BY <1>1, <1>3 DEF Idle
<1>6. ToSet(<<>>) = {} /\ Len(<<>>) = 0
    BY DEF ToSet
<1>7. OneEach(inbox)
    BY <1>1, <1>6 DEF OneEach
<1>8. ASSUME NEW p \in Peers
      PROVE  Fine(p)
  <2>1. From(inbox, p) = {} /\ At(index, p) = {} /\ outbox[p] = <<>> /\ MaxCommands[p] \in Nat
    BY <1>1, <1>6, NetworkAssumption DEF From, At
  <2>2. Asks(main[p], {}, <<>>) /\ Named(main[p], {}) /\ Known(main[p], {}, <<>>, {})
    BY DEF Asks, Named, Known
  <2>3. Room(main[p], MaxCommands[p])
    <3>1. main[p].typed <= MaxCommands[p]
      BY <1>3, <2>1
    <3>2. Len(main[p].regs) <= main[p].typed
      BY <1>3, <1>6
    <3>3. QED
      BY <1>3, <3>1, <3>2 DEF Room
  <2>4. QED
    BY <2>1, <2>2, <2>3 DEF Fine, Orderly
<1>9. Distinct
    BY <1>3, <1>4 DEF Distinct, Distinguished
<1>10. Noted
    BY <1>3 DEF Noted, Accepted
<1>11. QED
    BY <1>5, <1>7, <1>8, <1>9, <1>10 DEF NamesInv

LEMMA NamesAlways ==
    ASSUME NoDownloads
    PROVE  Spec => [](Inv /\ NamesInv /\ Server!UniqueEntries)
<1>1. Init => NamesInv
    BY NamesInit
<1>2. Inv /\ NamesInv /\ Server!UniqueEntries /\ [Next]_vars => NamesInv'
    BY NextSound DEF Sound
<1>3. QED
    BY <1>1, <1>2, Invariant, ServerPropertiesHold, PTL DEF Spec

(* While every peer has a name of its own and nobody downloads: what a     *)
(* peer notes in reg_contents is in the list of the server, so the answer  *)
(* it read is the answer to that registration.                             *)
THEOREM NotedContentsAreListed ==
    ASSUME NoDownloads
    PROVE  Spec => NotedMeansListed
<1>1. Inv /\ NamesInv /\ Server!UniqueEntries /\ [Next]_vars => NotesListed
    BY NextSound DEF Sound
<1>2. NotesListed <=>
         (Distinguished => \A p \in Peers :
             Len(main'[p].regs) > Len(main[p].regs)
             => Listed(main[p].name, main[p].content, p))
    BY DEF NotesListed
<1>3. QED
    BY <1>1, <1>2, NamesAlways, PTL DEF Spec, NotedMeansListed

(* And its nodes leave the list only on its own requests, though the       *)
(* server looks at names and not at addresses.                             *)
THEOREM OnlyOwnersRemove ==
    ASSUME NoDownloads
    PROVE  Spec => OnlyOwnerRemoves
<1>1. Inv /\ NamesInv /\ Server!UniqueEntries /\ [Next]_vars => RemovesOwn
    BY NextSound DEF Sound
<1>2. RemovesOwn <=>
         (Distinguished => \A e \in ToSet(index) \ ToSet(index') : Head(inbox).from = e.addr)
    BY DEF RemovesOwn
<1>3. QED
    BY <1>1, <1>2, NamesAlways, PTL DEF Spec, OnlyOwnerRemoves

(* "deregister all remaining content and quit": as long as reg_contents    *)
(* has room for what is registered and nobody downloads, no node of the    *)
(* list leads to a peer whose Q is through - whatever it registered,       *)
(* deregistered, renamed or was refused, and whatever the network lost.    *)
THEOREM QuittingLeavesNothing ==
    ASSUME NoDownloads, Roomy
    PROVE  Spec => []QuitLeavesNothing
<1>1. ASSUME NamesInv, NEW p \in Peers, main[p].at = "gone", NEW e \in ToSet(index), e.addr = p
      PROVE  FALSE
  <2>1. e \in At(index, p)
    BY <1>1 DEF At
  <2>2. Known(main[p], From(inbox, p), outbox[p], At(index, p))
    BY <1>1 DEF NamesInv, Fine, Orderly
  <2>3. Accounted(main[p], From(inbox, p), outbox[p], e.content)
    BY <1>1, <2>1, <2>2, NotStuck
  <2>4. QED
    BY <1>1, <2>3 DEF Accounted, Accepted
<1>2. NamesInv => QuitLeavesNothing
    BY <1>1 DEF QuitLeavesNothing
<1>3. QED
    BY <1>2, NamesAlways, PTL
-----------------------------------------------------------------------------
(* How a file changes hands: what the server does with one request.          *)
LEMMA TailMembers ==
    ASSUME NEW S, NEW s \in Seq(S), s # <<>>
    PROVE  ToSet(Tail(s)) \subseteq ToSet(s) /\ Head(s) \in ToSet(s)
<1>1. PICK n \in Nat : n = Len(s)
    BY LenProperties
<1>2. PICK t \in Seq(S), h \in S : t = Tail(s) /\ h = Head(s)
    BY HeadTailProperties
<1>3. /\ h = s[1] /\ 1 \in 1..n /\ Len(t) = n - 1
      /\ \A i \in 1..(n - 1) : t[i] = s[i + 1] /\ i + 1 \in 1..n
    BY <1>1, <1>2, HeadTailProperties
<1>4. ToSet(s) = {s[i] : i \in 1..n} /\ ToSet(t) = {t[i] : i \in 1..(n - 1)}
    BY <1>1, <1>3, Members
<1>5. QED
    BY <1>2, <1>3, <1>4

LEMMA MembersConcat ==
    ASSUME NEW S, NEW s \in Seq(S), NEW t \in Seq(S)
    PROVE  ToSet(s \o t) \subseteq ToSet(s) \cup ToSet(t)
<1>1. PICK n \in Nat, m \in Nat : n = Len(s) /\ m = Len(t)
    BY LenProperties
<1>2. PICK u \in Seq(S) : u = s \o t
    BY ConcatProperties
<1>3. Len(u) = n + m /\ \A i \in 1..(n + m) : u[i] = IF i <= n THEN s[i] ELSE t[i - n]
    BY <1>1, <1>2, ConcatProperties
<1>4. /\ ToSet(s) = {s[i] : i \in 1..n} /\ ToSet(t) = {t[i] : i \in 1..m}
      /\ ToSet(u) = {u[i] : i \in 1..(n + m)}
    BY <1>1, <1>3, Members
<1>5. \A i \in 1..(n + m) : u[i] \in ToSet(s) \cup ToSet(t)
  <2>1. ASSUME NEW i \in 1..(n + m)
        PROVE  u[i] \in ToSet(s) \cup ToSet(t)
    <3>1. CASE i <= n
      BY <1>3, <1>4, <3>1
    <3>2. CASE ~ (i <= n)
      <4>1. i - n \in 1..m /\ u[i] = t[i - n]
        BY <1>3, <3>2
      <4>2. QED
        BY <1>4, <4>1
    <3>3. QED
      BY <3>1, <3>2
  <2>2. QED
    BY <2>1
<1>6. ToSet(u) \subseteq ToSet(s) \cup ToSet(t)
  <2>1. ASSUME NEW x \in ToSet(u)
        PROVE  x \in ToSet(s) \cup ToSet(t)
    <3>1. PICK i \in 1..(n + m) : x = u[i]
      BY <1>4
    <3>2. QED
      BY <1>5, <3>1
  <2>2. QED
    BY <2>1
<1>7. QED
    BY <1>2, <1>6

LEMMA AnswerSets ==
    ASSUME Inv, inbox # <<>>, NEW ans \in Seq(Reply), Answer(Head(inbox), ans)
    PROVE  \E r \in Request :
              /\ r = Head(inbox) /\ r \in ToSet(inbox) /\ r.from \in Peers
              /\ \A q \in Peers : From(inbox', q) \subseteq From(inbox, q)
              /\ \A q \in Peers : q # r.from => outbox'[q] = outbox[q]
              /\ \A a \in ToSet(outbox'[r.from]) : a \in ToSet(outbox[r.from]) \/ a \in ToSet(ans)
<1>1. inbox \in Seq(Request) /\ outbox \in [Peers -> Seq(Reply)]
    BY InvTypes DEF ChannelsTypeOK
<1>2. PICK r \in Request : r = Head(inbox) /\ r \in ToSet(inbox)
    BY <1>1, TailMembers, HeadTailProperties
<1>3. PICK p \in Peers : p = r.from
    BY DEF Request
<1>4. inbox' = Tail(inbox) /\ outbox' = [outbox EXCEPT ![p] = outbox[p] \o ans]
    BY <1>2, <1>3 DEF Answer
<1>5. outbox'[p] = outbox[p] \o ans /\ \A q \in Peers : q # p => outbox'[q] = outbox[q]
    BY <1>1, <1>4
<1>6. ToSet(Tail(inbox)) \subseteq ToSet(inbox)
    BY <1>1, TailMembers
<1>7. \A q \in Peers : From(inbox', q) \subseteq From(inbox, q)
    BY <1>4, <1>6 DEF From
<1>8. ToSet(outbox'[p]) \subseteq ToSet(outbox[p]) \cup ToSet(ans)
    BY <1>1, <1>5, MembersConcat
<1>9. QED
    BY <1>2, <1>3, <1>5, <1>7, <1>8

(* What the server does for the request r: only 'R' adds a node, the       *)
(* sender's, and 'T' leaves none like its own.                             *)
Lists(r) ==
    /\ \A e \in ToSet(index') : \/ e \in ToSet(index)
                                \/ /\ r.type = "R" /\ e.addr = r.from
                                   /\ e.peer = r.peer /\ e.content = r.content
    /\ r.type = "T" =>
          \A e \in ToSet(index') : ~ (e.peer = r.peer /\ e.content = r.content)

(* An answer to it: 'S' tells the address of a node, and an 'E' to an 'R'  *)
(* comes with the list as it was.                                          *)
Tells(r, a) ==
    /\ a.type = "S" => /\ r.type = "S" /\ a.content = r.content
                       /\ \E e \in ToSet(index) : e.addr = a.addr /\ e.content = a.content
    /\ r.type = "R" /\ a.type = "E" => UNCHANGED index

Serving(r, ans) ==
    /\ Answer(r, ans) /\ Lists(r)
    /\ \A a \in ToSet(ans) : Tells(r, a)
    /\ r.type = "R" => ans # <<>>

LEMMA ServingOne ==
    ASSUME NEW r \in Request, NEW a \in Reply, Answer(r, <<a>>), Lists(r), Tells(r, a)
    PROVE  \E ans \in Seq(Reply) : Serving(r, ans)
<1>1. PICK ans \in Seq(Reply) : ans = <<a>> /\ Len(ans) = 1 /\ ans[1] = a /\ ans # <<>>
    BY SingleAnswer
<1>2. \A x \in ToSet(ans) : x = a
  <2>1. ToSet(ans) = {ans[i] : i \in 1..Len(ans)}
    BY Members
  <2>2. ASSUME NEW x \in ToSet(ans)
        PROVE  x = a
    <3>1. PICK i \in 1..Len(ans) : x = ans[i]
      BY <2>1
    <3>2. i = 1
      BY <1>1, <3>1
    <3>3. QED
      BY <1>1, <3>1, <3>2
  <2>3. QED
    BY <2>2
<1>3. Serving(r, ans)
    BY <1>1, <1>2 DEF Serving
<1>4. QED
    BY <1>3

LEMMA ServingRegister ==
    ASSUME Inv, NEW r \in Request, Server!Register(r)
    PROVE  \E ans \in Seq(Reply) : Serving(r, ans)
<1>1. r.type = "R" /\ index \in Seq(Entry)
    BY InvTypes DEF Server!Register
<1>2. CASE index' = Append(index, Server!EntryOf(r)) /\ Server!Answer(r, <<Server!Echo("A", r)>>)
  <2>1. Server!EntryOf(r) = EntryOf(r)
    BY Zenon DEF Server!EntryOf, EntryOf
  <2>2. PICK e \in Entry : /\ e = EntryOf(r) /\ e.addr = r.from
                           /\ e.peer = r.peer /\ e.content = r.content
    <3>1. r.peer \in Names /\ r.content \in Contents /\ r.from \in Peers
      BY <1>1 DEF Request
    <3>2. /\ EntryOf(r) \in Entry /\ EntryOf(r).addr = r.from
          /\ EntryOf(r).peer = r.peer /\ EntryOf(r).content = r.content
      BY <3>1 DEF EntryOf, Entry
    <3>3. QED
      BY <3>2
  <2>3. ToSet(Append(index, e)) = ToSet(index) \cup {e}
    BY <1>1, MembersAppend
  <2>4. index' = Append(index, e)
    BY <1>2, <2>1, <2>2
  <2>5. Lists(r)
    BY <1>1, <2>2, <2>3, <2>4 DEF Lists
  <2>6. PICK a \in Reply : a = Echo("A", r) /\ a.type = "A"
    BY ReplyTypes
  <2>7. Answer(r, <<a>>)
    BY <1>2, <2>6, SameEcho, SameAnswer
  <2>8. Tells(r, a)
    BY <2>6 DEF Tells
  <2>9. QED
    BY <2>5, <2>7, <2>8, ServingOne
<1>3. CASE /\ \E i \in 1..Len(index) :
                 Server!Answer(r, <<Server!Refusal(IF index[i].addr = r.from THEN Server!Duplicate ELSE Server!Taken, r)>>)
           /\ UNCHANGED index
  <2>1. PICK n \in {Duplicate, Taken} : Server!Answer(r, <<Server!Refusal(n, r)>>)
    BY <1>3 DEF Server!Duplicate, Server!Taken, Duplicate, Taken
  <2>2. Answer(r, <<Refusal(n, r)>>)
    BY <2>1, SameRefusal, SameAnswer
  <2>3. PICK a : a = Refusal(n, r)
    OBVIOUS
  <2>4. a \in Reply /\ a.type = "E"
    BY <2>3, ReplyTypes
  <2>5. Answer(r, <<a>>)
    BY <2>2, <2>3
  <2>6. Lists(r) /\ Tells(r, a)
    BY <1>1, <1>3, <2>4 DEF Lists, Tells
  <2>7. QED
    BY <2>4, <2>5, <2>6, ServingOne
<1>4. QED
    BY <1>2, <1>3 DEF Server!Register

LEMMA ServingSearch ==
    ASSUME Inv, NEW r \in Request, Server!Search(r)
    PROVE  \E ans \in Seq(Reply) : Serving(r, ans)
<1>1. r.type = "S" /\ UNCHANGED index /\ index \in Seq(Entry)
    BY InvTypes DEF Server!Search
<1>2. Lists(r)
    BY <1>1 DEF Lists
<1>3. CASE Server!Answer(r, <<Server!Echo("E", r)>>)
  <2>1. PICK a \in Reply : a = Echo("E", r) /\ a.type = "E"
    BY ReplyTypes
  <2>2. Answer(r, <<a>>)
    BY <1>3, <2>1, SameEcho, SameAnswer
  <2>3. Tells(r, a)
    BY <1>1, <2>1 DEF Tells
  <2>4. QED
    BY <1>2, <2>2, <2>3, ServingOne
<1>4. CASE \E i \in 1..Len(index) :
             /\ Server!Provider(index, r.content, i)
             /\ Server!Answer(r, <<[Server!Echo("S", r) EXCEPT !.addr = index[i].addr]>>)
  <2>1. PICK i \in 1..Len(index) :
             /\ Server!Provider(index, r.content, i)
             /\ Server!Answer(r, <<[Server!Echo("S", r) EXCEPT !.addr = index[i].addr]>>)
    BY <1>4
  <2>2. PICK e \in Entry : e = index[i] /\ e \in ToSet(index)
    BY <1>1, Members
  <2>3. PICK d \in Peers : d = e.addr
    BY DEF Entry
  <2>4. Server!Answer(r, <<[Server!Echo("S", r) EXCEPT !.addr = d]>>)
    BY <2>1, <2>2, <2>3
  <2>5. Answer(r, <<[Echo("S", r) EXCEPT !.addr = d]>>)
    BY <2>4, SameEcho, SameAnswer
  <2>6. PICK a : a = [Echo("S", r) EXCEPT !.addr = d]
    OBVIOUS
  <2>7. a \in Reply
    BY <1>1, <2>6, ReplyTypes
  <2>8. a.addr = d /\ a.content = r.content
    BY <2>6 DEF Echo
  <2>9. Answer(r, <<a>>)
    BY <2>5, <2>6
  <2>10. e.content = r.content
    BY <2>1, <2>2 DEF Server!Provider
  <2>11. Tells(r, a)
    BY <1>1, <2>2, <2>3, <2>8, <2>10 DEF Tells
  <2>12. QED
    BY <1>2, <2>7, <2>9, <2>11, ServingOne
<1>5. QED
    BY <1>3, <1>4 DEF Server!Search

LEMMA ServingDeregister ==
    ASSUME Inv, Server!UniqueEntries, inbox # <<>>,
           NEW r \in Request, r = Head(inbox), Server!Deregister(r)
    PROVE  \E ans \in Seq(Reply) : Serving(r, ans)
<1>1. PICK t \in {"A", "E"} : Server!Answer(r, <<Server!Echo(t, r)>>)
    BY DEF Server!Deregister
<1>2. PICK a \in Reply : a = Echo(t, r) /\ a.type = t
    BY ReplyTypes
<1>3. Answer(r, <<a>>)
    BY <1>1, <1>2, SameEcho, SameAnswer
<1>4. Lists(r)
    BY WithdrawnNodes DEF Lists
<1>5. r.type = "T"
    BY DEF Server!Deregister
<1>6. Tells(r, a)
    BY <1>2, <1>5 DEF Tells
<1>7. QED
    BY <1>3, <1>4, <1>6, ServingOne

LEMMA ServingList ==
    ASSUME Inv, NEW r \in Request, Server!List(r)
    PROVE  \E ans \in Seq(Reply) : Serving(r, ans)
<1>1. index \in Seq(Entry) /\ UNCHANGED index
    BY InvTypes DEF Server!List
<1>2. Answer(r, Server!Listing(index, r)) /\ r.type = "O"
    BY SameAnswer DEF Server!List
<1>3. Server!Listing(index, r) = Listing(index, r)
    BY Zenon DEF Server!Listing, Server!Line, Server!Closing, Server!Echo,
       Listing, Line, Closing, Echo
<1>4. PICK ans \in Seq(Reply) : /\ ans = Listing(index, r)
                                /\ \A i \in 1..Len(ans) : ans[i].type # "S"
    BY <1>1, <1>2, ListingTypes
<1>5. \A a \in ToSet(ans) : Tells(r, a)
    BY <1>2, <1>4, Members DEF Tells
<1>6. Lists(r) /\ Answer(r, ans)
    BY <1>1, <1>2, <1>3, <1>4 DEF Lists
<1>7. Serving(r, ans)
    BY <1>2, <1>5, <1>6 DEF Serving
<1>8. QED
    BY <1>7

LEMMA ServingIgnored ==
    ASSUME Inv, NEW r \in Request, Server!Ignore(r)
    PROVE  \E ans \in Seq(Reply) : Serving(r, ans)
<1>1. PICK ans \in Seq(Reply) : ans = <<>> /\ Len(ans) = 0
  <2>1. <<>> \in Seq(Reply) /\ Len(<<>>) = 0
    OBVIOUS
  <2>2. QED
    BY <2>1
<1>2. Answer(r, ans) /\ UNCHANGED index /\ r.type \notin {"R", "T"}
    BY <1>1, SameAnswer DEF Server!Ignore
<1>3. ToSet(ans) = {}
  <2>1. ToSet(<<>>) = {}
    BY DEF ToSet
  <2>2. QED
    BY <1>1, <2>1
<1>4. Lists(r)
    BY <1>2 DEF Lists
<1>5. Serving(r, ans)
    BY <1>2, <1>3, <1>4 DEF Serving
<1>6. QED
    BY <1>5

LEMMA TurnServes ==
    ASSUME Inv, Server!UniqueEntries, ServerTurn
    PROVE  /\ inbox # <<>> /\ UNCHANGED <<main, local>>
           /\ \E r \in Request : r = Head(inbox) /\ \E ans \in Seq(Reply) : Serving(r, ans)
<1>1. inbox # <<>> /\ UNCHANGED <<main, local>>
    BY DEF ServerTurn, Server!Serve
<1>2. PICK r \in Request : r = Head(inbox)
    BY <1>1, InvTypes, HeadTailProperties DEF ChannelsTypeOK
<1>3. Server!Register(r) \/ Server!Search(r) \/ Server!Deregister(r)
      \/ Server!List(r) \/ Server!Ignore(r)
    BY <1>2 DEF ServerTurn, Server!Serve
<1>4. \E ans \in Seq(Reply) : Serving(r, ans)
    BY <1>1, <1>2, <1>3, ServingRegister, ServingSearch, ServingDeregister, ServingList,
       ServingIgnored
<1>5. QED
    BY <1>1, <1>2, <1>4

-----------------------------------------------------------------------------
(* Parents, the server and the network end no child.                       *)
LEMMA KidsStay ==
    ASSUME NEW p \in Peers, User(p) \/ Answered(p) \/ Parent(p)
    PROVE  kid' = kid
<1>1. CASE User(p)
    BY <1>1 DEF User, StartRegister, StartList, StartSearch, StartDeregister, StartQuit,
       StartAccept, Leave, local
<1>2. CASE Answered(p)
    BY <1>2 DEF Answered, Rename, KeepName, local
<1>3. CASE EndSearch(p)
    BY <1>3 DEF EndSearch, Connect, Refused, NothingFound, Leave, local
<1>4. CASE Parent(p) /\ ~ EndSearch(p)
    BY <1>4 DEF Parent, EndRegister, ReadList, EndDeregister, ReadQuit, EndDownload,
       EndPublish, Leave, local
<1>5. QED
    BY <1>1, <1>2, <1>3, <1>4

(* A child that has sent its file ends with the answer to its 'T'.         *)
LEMMA EndsReading ==
    ASSUME Inv, [Next]_vars, NEW p \in Peers, NEW k \in Kids,
           kid[p][k] # None, kid'[p][k] = None, kid[p][k].content # None
    PROVE  EndChild(p, k)
<1>1. kid' # kid
    OBVIOUS
<1>2. ~ ServerTurn /\ ~ NetworkLoss /\ ~ UNCHANGED vars
    BY <1>1 DEF ServerTurn, NetworkLoss, vars, local
<1>3. \A q \in Peers : ~ (User(q) \/ Answered(q) \/ Parent(q))
    BY <1>1, KidsStay
<1>4. PICK q \in Peers, j \in Kids : Accept(q, j) \/ Work(q, j)
    BY <1>2, <1>3 DEF Next
<1>5. \E n : Becomes(q, j, n)
    BY <1>4 DEF Accept, Work, Reject, SendFile, EndChild, Becomes
<1>6. PICK n : Becomes(q, j, n)
    BY <1>5
<1>7. q = p /\ j = k
    BY <1>6, KidRow
<1>8. QED
    BY <1>4, <1>7 DEF Accept, Work, Reject, SendFile

(* Only the server changes its list, and only it puts answers in a socket. *)
OnlyReads(p) == UNCHANGED index /\ (Receive(p) \/ UNCHANGED outbox)

LEMMA ParentReads ==
    ASSUME NEW p \in Peers, User(p) \/ Answered(p) \/ Parent(p)
    PROVE  OnlyReads(p)
<1>1. CASE User(p)
    BY <1>1 DEF User, StartRegister, StartList, StartSearch, StartDeregister, StartQuit,
       StartAccept, server, OnlyReads
<1>2. CASE Answered(p)
    BY <1>2 DEF Answered, Rename, KeepName, server, OnlyReads
<1>3. CASE Parent(p)
    BY <1>3 DEF Parent, EndRegister, ReadList, EndDeregister, ReadQuit, EndSearch,
       EndDownload, EndPublish, OnlyReads
<1>4. QED
    BY <1>1, <1>2, <1>3

LEMMA ChildReads ==
    ASSUME NEW p \in Peers, NEW k \in Kids, Accept(p, k) \/ Work(p, k)
    PROVE  OnlyReads(p)
BY DEF Accept, Work, Reject, SendFile, EndChild, server, OnlyReads

LEMMA OnlyServerAnswers ==
    ASSUME Inv, Next, ~ ServerTurn, NEW p \in Peers
    PROVE  UNCHANGED index /\ (outbox[p] = <<>> => outbox'[p] = <<>>)
<1>1. outbox \in [Peers -> Seq(Reply)]
    BY InvTypes DEF ChannelsTypeOK
<1>2. ASSUME NEW q \in Peers, OnlyReads(q)
      PROVE  UNCHANGED index /\ (outbox[p] = <<>> => outbox'[p] = <<>>)
  <2>1. CASE UNCHANGED outbox
    BY <1>2, <2>1 DEF OnlyReads
  <2>2. CASE Receive(q)
    <3>1. outbox[q] # <<>> /\ \A x \in Peers : x # q => outbox'[x] = outbox[x]
      BY <1>1, <2>2 DEF Receive
    <3>2. QED
      BY <1>2, <3>1 DEF OnlyReads
  <2>3. QED
    BY <1>2, <2>1, <2>2 DEF OnlyReads
<1>3. CASE NetworkLoss
  <2>1. CASE UNCHANGED outbox
    BY <1>3, <2>1 DEF NetworkLoss
  <2>2. CASE \E q \in Peers : \E i \in 1..Len(outbox[q]) :
                outbox' = [outbox EXCEPT ![q] = DropAt(@, i)]
    <3>1. PICK q \in Peers : \E i \in 1..Len(outbox[q]) :
                outbox' = [outbox EXCEPT ![q] = DropAt(@, i)]
      BY <2>2
    <3>2. PICK i \in 1..Len(outbox[q]) : outbox' = [outbox EXCEPT ![q] = DropAt(@, i)]
      BY <3>1
    <3>3. outbox[q] # <<>>
      BY <3>2, LenProperties
    <3>4. \A x \in Peers : x # q => outbox'[x] = outbox[x]
      BY <1>1, <3>2
    <3>5. QED
      BY <1>3, <3>3, <3>4 DEF NetworkLoss
  <2>3. QED
    BY <1>3, <2>1, <2>2 DEF NetworkLoss, Lose
<1>4. QED
    BY <1>2, <1>3, ParentReads, ChildReads DEF Next

(* A child that waits for its answer goes on waiting for it, or ends.      *)
LEMMA WithdrawsStill ==
    ASSUME Inv, Next, NEW p \in Peers, NEW k \in Kids, Withdraws(p, k), Withdraws(p, k)'
    PROVE  kid'[p][k] = kid[p][k]
<1>1. CASE UNCHANGED kid
    BY <1>1
<1>2. CASE \E q \in Peers, j \in Kids : Accept(q, j) \/ Work(q, j)
  <2>1. PICK q \in Peers, j \in Kids : Accept(q, j) \/ Work(q, j)
    BY <1>2
  <2>2. \E n : Becomes(q, j, n)
    BY <2>1 DEF Accept, Work, Reject, SendFile, EndChild, Becomes
  <2>3. PICK n : Becomes(q, j, n)
    BY <2>2
  <2>4. CASE q = p /\ j = k
    <3>1. EndChild(p, k)
      BY <2>1, <2>4 DEF Withdraws, Accept, Work, Reject, SendFile
    <3>2. Becomes(p, k, None)
      BY <3>1 DEF EndChild, Becomes
    <3>3. kid'[p][k] = None
      BY <3>2, KidRow
    <3>4. QED
      BY <3>3 DEF Withdraws
  <2>5. CASE ~ (q = p /\ j = k)
    BY <2>3, <2>5, KidRow
  <2>6. QED
    BY <2>4, <2>5
<1>3. QED
    BY <1>1, <1>2, KidsStay DEF Next, ServerTurn, NetworkLoss, local
-----------------------------------------------------------------------------
(* A child that asks alone waits, nothing else of its peer is under way,   *)
(* and an answer in the socket means that its node is off the list.        *)
Unlisted(p, k) == ~ Listed(kid[p][k].name, kid[p][k].content, p)

Tended(p, k) ==
    /\ Withdraws(p, k)
    /\ Requests(p) \subseteq {Withdrawal(p, k)}
    /\ outbox[p] # <<>> => Unlisted(p, k)

SoleInv == \A p \in Peers, k \in Kids : sole[p][k] => Tended(p, k)

LEMMA WithdrawalFields ==
    ASSUME NEW p, NEW k
    PROVE  /\ Withdrawal(p, k).type = "T" /\ Withdrawal(p, k).peer = kid[p][k].name
           /\ Withdrawal(p, k).content = kid[p][k].content
           /\ Withdrawal(p, k)'.peer = kid'[p][k].name
           /\ Withdrawal(p, k)'.content = kid'[p][k].content
BY DEF Withdrawal, Pdu

(* What the history says of a child that asks alone after a step.          *)
LEMMA AloneAfter ==
    ASSUME History, NEW p \in Peers, NEW k \in Kids, sole'[p][k]
    PROVE  /\ Withdraws(p, k)'
           /\ Requests(p)' \subseteq {Withdrawal(p, k)'}
           /\ Withdraws(p, k) => sole[p][k]
           /\ ~ Withdraws(p, k) =>
                 \/ Quiet(p)
                 \/ \E j \in Kids : sole[p][j] /\ Withdrawal(p, j) = Withdrawal(p, k)'
<1>1. sole'[p][k] = Alone(p, k)
    BY DEF History
<1>2. Alone(p, k)
    BY <1>1
<1>3. QED
    BY <1>2 DEF Alone

(* The server takes a request: it is another peer's, or the 'T' itself.    *)
LEMMA ServedTended ==
    ASSUME Inv, Server!UniqueEntries, SoleInv, ServerTurn, History,
           NEW p \in Peers, NEW k \in Kids, sole'[p][k], outbox'[p] # <<>>
    PROVE  Unlisted(p, k)'
<1>1. UNCHANGED <<main, local>> /\ inbox # <<>>
    BY TurnServes
<1>2. PICK r \in Request, ans \in Seq(Reply) : r = Head(inbox) /\ Serving(r, ans)
    BY TurnServes
<1>3. /\ r \in ToSet(inbox) /\ r.from \in Peers
      /\ \A q \in Peers : q # r.from => outbox'[q] = outbox[q]
    BY <1>1, <1>2, AnswerSets DEF Serving
<1>4. kid' = kid
    BY <1>1 DEF local
<1>5. Withdraws(p, k)
    BY <1>4, AloneAfter DEF Withdraws
<1>6. Tended(p, k)
    BY <1>5, AloneAfter DEF SoleInv
<1>7. PICK n, c, e : /\ n = kid[p][k].name /\ c = kid[p][k].content
                     /\ e = [peer |-> n, content |-> c, addr |-> p]
    OBVIOUS
<1>8. e.peer = n /\ e.content = c /\ e.addr = p
    BY <1>7
<1>9. e \notin ToSet(index')
  <2>1. CASE r.from = p
    <3>1. r \in Requests(p)
      BY <1>3, <2>1 DEF Requests
    <3>2. r = Withdrawal(p, k)
      BY <1>6, <3>1 DEF Tended
    <3>3. r.type = "T" /\ r.peer = n /\ r.content = c
      BY <1>7, <3>2, WithdrawalFields
    <3>4. QED
      BY <1>2, <1>8, <3>3 DEF Serving, Lists
  <2>2. CASE r.from # p
    <3>1. outbox[p] # <<>>
      BY <1>3, <2>2
    <3>2. e \notin ToSet(index)
      BY <1>6, <1>7, <3>1 DEF Tended, Unlisted, Listed
    <3>3. QED
      BY <1>2, <1>8, <2>2, <3>2 DEF Serving, Lists
  <2>3. QED
    BY <2>1, <2>2
<1>10. QED
    BY <1>4, <1>7, <1>9 DEF Unlisted, Listed

(* Others leave the list as it is, and add no answer.                      *)
LEMMA OtherwiseTended ==
    ASSUME Inv, SoleInv, Next, ~ ServerTurn, History,
           NEW p \in Peers, NEW k \in Kids, sole'[p][k], outbox'[p] # <<>>
    PROVE  Unlisted(p, k)'
<1>1. index' = index /\ outbox[p] # <<>>
    BY OnlyServerAnswers
<1>2. \E j \in Kids : /\ sole[p][j]
                      /\ kid[p][j].name = kid'[p][k].name
                      /\ kid[p][j].content = kid'[p][k].content
  <2>1. CASE Withdraws(p, k)
    <3>1. sole[p][k] /\ Withdraws(p, k)'
      BY <2>1, AloneAfter
    <3>2. kid'[p][k] = kid[p][k]
      BY <2>1, <3>1, WithdrawsStill
    <3>3. QED
      BY <3>1, <3>2
  <2>2. CASE ~ Withdraws(p, k)
    <3>1. ~ Quiet(p)
      BY <1>1 DEF Quiet
    <3>2. PICK j \in Kids : sole[p][j] /\ Withdrawal(p, j) = Withdrawal(p, k)'
      BY <2>2, <3>1, AloneAfter
    <3>3. QED
      BY <3>2, WithdrawalFields
  <2>3. QED
    BY <2>1, <2>2
<1>3. PICK j \in Kids : /\ sole[p][j]
                        /\ kid[p][j].name = kid'[p][k].name
                        /\ kid[p][j].content = kid'[p][k].content
    BY <1>2
<1>4. ~ Listed(kid[p][j].name, kid[p][j].content, p)
    BY <1>1, <1>3 DEF SoleInv, Tended, Unlisted
<1>5. QED
    BY <1>1, <1>3, <1>4 DEF Unlisted, Listed

LEMMA NextTended ==
    ASSUME Inv, Server!UniqueEntries, SoleInv, [Next /\ History]_hvars
    PROVE  SoleInv'
<1>1. CASE UNCHANGED hvars
    BY <1>1 DEF hvars, vars, SoleInv, Tended, Unlisted, Withdraws, Requests, Withdrawal, Pdu, Listed
<1>2. CASE Next /\ History
  <2>1. ASSUME NEW p \in Peers, NEW k \in Kids, sole'[p][k]
        PROVE  Tended(p, k)'
    <3>1. Withdraws(p, k)' /\ Requests(p)' \subseteq {Withdrawal(p, k)'}
      BY <1>2, <2>1, AloneAfter
    <3>2. outbox'[p] # <<>> => Unlisted(p, k)'
      BY <1>2, <2>1, ServedTended, OtherwiseTended
    <3>3. QED
      BY <3>1, <3>2 DEF Tended
  <2>2. QED
    BY <2>1 DEF SoleInv
<1>3. QED
    BY <1>1, <1>2

(* A child that asks alone has its node off the list when it ends, for any *)
(* commands of any users and any losses: nothing but another PDU from its  *)
(* own peer can make it close the connection too early.                    *)
THEOREM WithdrawnBeforeClosed ==
    HSpec => ClosesWithdrawn
<1> DEFINE Over == \A p \in Peers, k \in Kids :
                      sole[p][k] /\ kid'[p][k] = None
                      => ~ Listed(kid[p][k].name, kid[p][k].content, p)
<1>1. HInit => Init /\ SoleInv
    BY DEF HInit, SoleInv
<1>2. [Next /\ History]_hvars => [Next]_vars
    BY DEF hvars
<1>3. Inv /\ Server!UniqueEntries /\ SoleInv /\ [Next /\ History]_hvars => SoleInv'
    BY NextTended
<1>4. Inv /\ SoleInv /\ [Next /\ History]_hvars => Over
  <2>1. ASSUME Inv, SoleInv, [Next /\ History]_hvars,
               NEW p \in Peers, NEW k \in Kids, sole[p][k], kid'[p][k] = None
        PROVE  ~ Listed(kid[p][k].name, kid[p][k].content, p)
    <3>1. Tended(p, k)
      BY <2>1 DEF SoleInv
    <3>2. EndChild(p, k)
      BY <1>2, <2>1, <3>1, EndsReading DEF Tended, Withdraws
    <3>3. outbox[p] # <<>>
      BY <3>2 DEF EndChild, Receive
    <3>4. QED
      BY <3>1, <3>3 DEF Tended, Unlisted
  <2>2. QED
    BY <2>1
<1>5. HSpec => Spec
    BY <1>1, <1>2, PTL DEF HSpec, Spec
<1>6. HSpec => []SoleInv
    BY <1>1, <1>3, <1>5, Invariant, ServerPropertiesHold, PTL DEF HSpec
<1>7. QED
    BY <1>4, <1>5, <1>6, Invariant, PTL DEF HSpec, ClosesWithdrawn
=============================================================================
