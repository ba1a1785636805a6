--------------------------- MODULE IndexProtocol ---------------------------
(***************************************************************************)
(* The PDUs that peers and the index server exchange over UDP (pdu.h), the *)
(* datagram queues between them, and the steps of everything that is not   *)
(* the server: clients sending and reading, the network losing datagrams.  *)
(*                                                                         *)
(* A peer is identified with the address (ip, port) of its listening       *)
(* socket, the address it puts in bytes 20..25 of its 'R' PDUs.  A request *)
(* carries the peer whose socket it came from: the server answers there.   *)
(* Names and contents are compared for equality only (strcmp), so they are *)
(* plain values.  No name starts with the letter 'D'.                      *)
(***************************************************************************)
EXTENDS Integers, Sequences

CONSTANTS Peers,      (* peers, and the addresses they listen on           *)
          Names,      (* peer names a user may type                        *)
          Contents,   (* content names a user may type                     *)
          MaxInbox    (* bound: datagrams queued at the server             *)

ASSUME MaxInboxAssumption == MaxInbox \in Nat \ {0}

VARIABLES inbox,      (* datagrams in flight to, or queued at, the server  *)
          outbox      (* outbox[p]: datagrams in flight to p's UDP socket  *)

channels == <<inbox, outbox>>
-----------------------------------------------------------------------------
(* The error texts that overwrite the name field of an 'E' answer to 'R'.  *)
(* They are five letters longer than it: Spill stands for what the content *)
(* field holds then, the end of the text over what was there.              *)
Taken     == "PEER NAME TAKEN"
Duplicate == "DUPLICATE ENTRY"
Spill     == "SPILL"

(* The name and content fields of an 'O' request, which is sent zeroed. *)
NoName == ""

(* What the name field of an answer may hold. *)
AnyName == Names \cup {NoName, Taken, Duplicate}

(* 'Y' is what a peer sends when it repeats a registration after a rename; *)
(* a peer that quits sends 'T' in the buffer of the last answer it read.   *)
Request ==
    [type : {"R", "S", "Y"}, peer : Names, content : Contents, from : Peers]
      \cup [type : {"T"}, peer : AnyName, content : Contents, from : Peers]
      \cup [type : {"O"}, peer : {NoName}, content : {NoName}, from : Peers]

Reply == [type : {"A", "E", "S", "O"}, peer : AnyName,
          content : Contents \cup {NoName, Spill}, addr : Peers]

(* The server answers in the buffer the request came in: what it does not  *)
(* overwrite is echoed.                                                    *)
Echo(type, r) ==
    [type |-> type, peer |-> r.peer, content |-> r.content, addr |-> r.from]

(* The 'E' answers to 'R'. *)
Refusal(text, r) == [Echo("E", r) EXCEPT !.peer = text, !.content = Spill]

(* One registration: who offers what, and where to fetch it. *)
Entry == [peer : Names, content : Contents, addr : Peers]

EntryOf(r) == [peer |-> r.peer, content |-> r.content, addr |-> r.from]

(* The answers to 'O': a datagram per entry of list, then an 'A' sent from *)
(* the same buffer, which still holds the last entry.                      *)
Line(e) == [type |-> "O", peer |-> e.peer, content |-> e.content, addr |-> e.addr]

Closing(list, r) ==
    IF list = <<>> THEN Echo("A", r)
    ELSE [Line(list[Len(list)]) EXCEPT !.type = "A"]

Listing(list, r) ==
    Append([i \in 1..Len(list) |-> Line(list[i])], Closing(list, r))

ChannelsTypeOK ==
    /\ inbox \in Seq(Request)
    /\ Len(inbox) <= MaxInbox
    /\ outbox \in [Peers -> Seq(Reply)]

ChannelsInit ==
    /\ inbox = <<>>
    /\ outbox = [p \in Peers |-> <<>>]
-----------------------------------------------------------------------------
(* write() on the connected UDP socket of peer r.from. *)
Send(r) ==
    /\ Len(inbox) < MaxInbox
    /\ inbox' = Append(inbox, r)

(* read() on the UDP socket of peer p returns the oldest datagram. *)
Receive(p) ==
    /\ outbox[p] # <<>>
    /\ outbox' = [outbox EXCEPT ![p] = Tail(@)]

(* One turn of a process of peer p: it sends, it reads, or both. *)
ClientTurn(p) ==
    \/ \E r \in Request : r.from = p /\ Send(r) /\ UNCHANGED outbox
    \/ Receive(p) /\ UNCHANGED inbox
    \/ Receive(p) /\ \E r \in Request : r.from = p /\ Send(r)

(* Any datagram may vanish.  The network of this model does no more: UDP   *)
(* may also deliver one twice, or out of order.                            *)
DropAt(s, i) == SubSeq(s, 1, i - 1) \o SubSeq(s, i + 1, Len(s))

Lose ==
    \/ /\ \E i \in 1..Len(inbox) : inbox' = DropAt(inbox, i)
       /\ UNCHANGED outbox
    \/ /\ \E p \in Peers : \E i \in 1..Len(outbox[p]) :
              outbox' = [outbox EXCEPT ![p] = DropAt(@, i)]
       /\ UNCHANGED inbox

(* The server has taken the datagram r and sends the answers ans. *)
Answer(r, ans) ==
    /\ inbox' = Tail(inbox)
    /\ outbox' = [outbox EXCEPT ![r.from] = @ \o ans]
=============================================================================
