---------------------------- MODULE PeerNetwork ----------------------------
(***************************************************************************)
(* The peer-to-peer file sharing system: peers (p2p_peer.c) around the     *)
(* index server.  A peer is a process that runs one menu command at a time *)
(* and forks a child for every download it serves.  Parent and children    *)
(* share one UDP socket to the server, so a process that waits for an      *)
(* answer reads the oldest one, whoever asked for it.  Downloads run over  *)
(* TCP: connect() succeeds as soon as the other peer listens, accepted or  *)
(* not, and a client reads until the child that serves it closes.          *)
(*                                                                         *)
(* One step is what a process does between two reads that can block it.    *)
(***************************************************************************)
EXTENDS IndexProtocol, FiniteSets, SequencesExt

CONSTANTS Kids,          (* bound: children a peer can have at a time      *)
          MaxRegs,       (* size of reg_contents, 20 in the code           *)
          MaxCommands,   (* bound: commands typed at each peer             *)
          Menu,          (* the commands the user of each peer types       *)
          FirstNames,    (* the names users may give their peers at start  *)
          FirstFiles,    (* the files of each peer at the start            *)
          Renames,       (* does a user accept to rename a peer, line 173? *)
          Lossy,         (* can the network lose datagrams?                *)
          None           (* no connection, no child                        *)

ASSUME NetworkAssumption ==
    /\ MaxRegs \in Nat \ {0}
    /\ MaxCommands \in [Peers -> Nat]
    /\ Menu \in [Peers -> SUBSET {"R", "O", "S", "T", "D", "Q"}]
    /\ FirstNames \subseteq [Peers -> Names]
    /\ FirstFiles \in [Peers -> SUBSET Contents]
    /\ Renames \in BOOLEAN /\ Lossy \in BOOLEAN
    /\ IsFiniteSet(Kids)

VARIABLES index,     (* the list of the index server                       *)
          main,      (* main[p]: the memory of p's parent process          *)
          kid,       (* kid[p][k]: a child of p, or None                   *)
          files,     (* files[p]: the contents p's working directory has   *)
          backlog,   (* backlog[p]: clients queued at p's listening socket *)
          conn       (* conn[p]: p's connection as a client, or None       *)

server == <<index, inbox, outbox>>
local  == <<kid, files, backlog, conn>>
vars   == <<index, inbox, outbox, main, kid, files, backlog, conn>>

Server == INSTANCE IndexServer

-----------------------------------------------------------------------------
(* Where a parent blocks: in select, in a read of the UDP socket for the   *)
(* command it runs, at a prompt, in the read loop of a download, in an     *)
(* accept - or it has left by Q or by exit(-1).                            *)
Places == {"menu", "register", "rename", "list", "search", "download",
           "publish", "deregister", "quit", "await", "accept",
           "gone", "failed"}

(* name is peer_name, content is content_name, regs is reg_contents up to  *)
(* reg_content_ptr, ready the bit of the listening socket in rfds, left    *)
(* the entries of regs that Q has yet to send.  typed counts for a bound,  *)
(* and own is a history: has the peer kept a first name nobody else had?   *)
Memory == [at : Places, name : Names, content : Contents \cup {None},
           regs : Seq(Contents), ready : BOOLEAN, left : Nat, typed : Nat,
           own : BOOLEAN]

Child == [client : Peers, name : Names, content : Contents \cup {None}]

(* got: what the client finds in the stream before its end, no byte,       *)
(* packets of a file, or one 'E'.  What the bytes of a file are is left    *)
(* out, and where they go.                                                 *)
Stream == {"nothing", "data", "error"}

Connection == [to : Peers, want : Contents, file : Contents,
               got : Stream, open : BOOLEAN]

ASSUME NoneAssumption == None \notin Child \cup Connection \cup Contents

TypeOK ==
    /\ Server!TypeOK
    /\ main \in [Peers -> Memory]
    /\ kid \in [Peers -> [Kids -> Child \cup {None}]]
    /\ files \in [Peers -> SUBSET Contents]
    /\ backlog \in [Peers -> Seq(Peers)]
    /\ conn \in [Peers -> Connection \cup {None}]

Init ==
    /\ Server!Init
    /\ \E names \in FirstNames :
          main = [p \in Peers |->
                     [at |-> "menu", name |-> names[p], content |-> None,
                      regs |-> <<>>, ready |-> FALSE, left |-> 0, typed |-> 0,
                      own |-> \A q \in Peers \ {p} : names[q] # names[p]]]
    /\ kid = [p \in Peers |-> [k \in Kids |-> None]]
    /\ files = FirstFiles
    /\ backlog = [p \in Peers |-> <<>>]
    /\ conn = [p \in Peers |-> None]
-----------------------------------------------------------------------------
Pdu(type, p, n, c) == [type |-> type, peer |-> n, content |-> c, from |-> p]

(* select returns and the user of p has typed command c.  rfds keeps the   *)
(* bit of the listening socket it had at that moment.                      *)
Typed(p, c) ==
    /\ main[p].at = "menu"
    /\ c \in Menu[p]
    /\ main[p].typed < MaxCommands[p]

Picked(p) == [main[p] EXCEPT !.typed = @ + 1, !.ready = backlog[p] # <<>>]

(* The end of a command: the rest of the main loop accepts a connection if *)
(* the (now old) bit says so, and goes back to select.                     *)
Done(m) == [m EXCEPT !.at = IF m.ready THEN "accept" ELSE "menu", !.ready = FALSE]

(* reg_contents takes the content while there is room for it. *)
Remember(m) ==
    [m EXCEPT !.regs = IF Len(@) < MaxRegs THEN Append(@, m.content) ELSE @]

(* p's parent leaves: the kernel resets the connections nobody accepted. *)
Leave(p, place) ==
    /\ main' = [main EXCEPT ![p].at = place]
    /\ conn' = [q \in Peers |->
                  IF Contains(backlog[p], q) THEN [conn[q] EXCEPT !.open = FALSE]
                  ELSE conn[q]]
    /\ backlog' = [backlog EXCEPT ![p] = <<>>]
    /\ UNCHANGED <<kid, files>>

Listens(p) == main[p].at \notin {"gone", "failed"}
-----------------------------------------------------------------------------
(* 'R', up to the read of the answer. *)
StartRegister(p) ==
    /\ Typed(p, "R")
    /\ \E c \in Contents :
          /\ Send(Pdu("R", p, main[p].name, c))
          /\ main' = [main EXCEPT ![p] =
                        [Picked(p) EXCEPT !.at = "register", !.content = c]]
    /\ UNCHANGED <<outbox, index, local>>

(* The answer to 'R', or what the peer takes for it. *)
EndRegister(p) ==
    LET a == Head(outbox[p]) IN
    /\ main[p].at = "register"
    /\ Receive(p)
    /\ \/ /\ a.type = "E" /\ a.peer # Duplicate
          /\ main' = [main EXCEPT ![p].at = "rename"]
       \/ /\ a.type = "A"
          /\ main' = [main EXCEPT ![p] = Done(Remember(@))]
       \/ /\ a.type # "A" /\ (a.type = "E" => a.peer = Duplicate)
          /\ main' = [main EXCEPT ![p] = Done(@)]
    /\ UNCHANGED <<inbox, index, local>>

(* The user gives the peer another name and types a content again.  The    *)
(* answer to the question is left in command, the type of the next PDU.    *)
Rename(p) ==
    /\ main[p].at = "rename"
    /\ Renames
    /\ \E n \in Names, c \in Contents :
          /\ Send(Pdu("Y", p, n, c))
          /\ main' = [main EXCEPT ![p] = [@ EXCEPT !.at = "register", !.name = n,
                                                   !.own = FALSE, !.content = c]]
    /\ UNCHANGED <<outbox, index, local>>

KeepName(p) ==
    /\ main[p].at = "rename"
    /\ main' = [main EXCEPT ![p] = Done(@)]
    /\ UNCHANGED <<server, local>>
-----------------------------------------------------------------------------
(* 'O': every datagram is taken for a line of the list until an 'A'. *)
StartList(p) ==
    /\ Typed(p, "O")
    /\ Send(Pdu("O", p, NoName, NoName))
    /\ main' = [main EXCEPT ![p] = [Picked(p) EXCEPT !.at = "list"]]
    /\ UNCHANGED <<outbox, index, local>>

ReadList(p) ==
    /\ main[p].at = "list"
    /\ Receive(p)
    /\ main' = IF Head(outbox[p]).type = "A"
               THEN [main EXCEPT ![p] = Done(@)] ELSE main
    /\ UNCHANGED <<inbox, index, local>>

-----------------------------------------------------------------------------
(* 'T' leaves reg_contents as it is, whatever the answer. *)
StartDeregister(p) ==
    /\ Typed(p, "T")
    /\ \E c \in Contents :
          /\ Send(Pdu("T", p, main[p].name, c))
          /\ main' = [main EXCEPT ![p] =
                        [Picked(p) EXCEPT !.at = "deregister", !.content = c]]
    /\ UNCHANGED <<outbox, index, local>>

EndDeregister(p) ==
    /\ main[p].at = "deregister"
    /\ Receive(p)
    /\ main' = [main EXCEPT ![p] = Done(@)]
    /\ UNCHANGED <<inbox, index, local>>

-----------------------------------------------------------------------------
(* A faulty 'Q' whose counter starts one too low. *)
StartQuitBelowZero(p) ==
    /\ Typed(p, "Q")
    /\ LET regs == main[p].regs IN
       /\ regs # <<>>
       /\ Send(Pdu("T", p, main[p].name, Last(regs)))
       /\ main' = [main EXCEPT ![p] = [Picked(p) EXCEPT !.at = "quit",
                                                        !.left = Len(regs) - 2]]
       /\ UNCHANGED <<outbox, index, local>>

(* 'Q': a 'T' for every entry of reg_contents, last one first, then exit.  *)
(* The name is put in the buffer once: from the second 'T' on it is the    *)
(* name in the answer that was read there.                                 *)
StartQuit(p) ==
    /\ Typed(p, "Q")
    /\ LET regs == main[p].regs IN
       \/ /\ regs = <<>>
          /\ Leave(p, "gone")
          /\ UNCHANGED server
       \/ /\ regs # <<>>
          /\ Send(Pdu("T", p, main[p].name, Last(regs)))
          /\ main' = [main EXCEPT ![p] = [Picked(p) EXCEPT !.at = "quit",
                                                           !.left = Len(regs) - 1]]
          /\ UNCHANGED <<outbox, index, local>>

(* A faulty loop that stops at i > 0. *)
ReadQuitSkippingFirst(p) ==
    /\ main[p].at = "quit"
    /\ main[p].left <= 1
    /\ Receive(p)
    /\ Leave(p, "gone")
    /\ UNCHANGED <<inbox, index>>

ReadQuit(p) ==
    LET m == main[p] IN
    /\ m.at = "quit"
    /\ Receive(p)
    /\ \/ /\ m.left = 0
          /\ Leave(p, "gone")
          /\ UNCHANGED <<inbox, index>>
       \/ /\ m.left > 0
          /\ Send(Pdu("T", p, Head(outbox[p]).peer, m.regs[m.left]))
          /\ main' = [main EXCEPT ![p].left = @ - 1]
          /\ UNCHANGED <<index, local>>
-----------------------------------------------------------------------------
(* 'S', up to the read of the answer. *)
StartSearch(p) ==
    /\ Typed(p, "S")
    /\ \E c \in Contents :
          /\ Send(Pdu("S", p, main[p].name, c))
          /\ main' = [main EXCEPT ![p] =
                        [Picked(p) EXCEPT !.at = "search", !.content = c]]
    /\ UNCHANGED <<outbox, index, local>>

(* The address is there: connect, truncate the file named in the answer,   *)
(* and ask for the content the user named.                                 *)
Connect(p, a) ==
    /\ a.type = "S"
    /\ a.addr # p
    /\ Listens(a.addr)
    /\ conn' = [conn EXCEPT ![p] = [to |-> a.addr, want |-> main[p].content,
                                    file |-> a.content, got |-> "nothing",
                                    open |-> TRUE]]
    /\ backlog' = [backlog EXCEPT ![a.addr] = Append(@, p)]
    /\ files' = [files EXCEPT ![p] = @ \cup {a.content}]
    /\ main' = [main EXCEPT ![p].at = "download"]
    /\ UNCHANGED kid

(* Nobody listens there any more: connect fails and the peer exits. *)
Refused(p, a) ==
    /\ a.type = "S"
    /\ a.addr # p
    /\ ~ Listens(a.addr)
    /\ Leave(p, "failed")

(* No such content, this peer's own address, or a PDU of another type. *)
NothingFound(p, a) ==
    /\ a.type # "S" \/ a.addr = p
    /\ main' = [main EXCEPT ![p] = Done(@)]
    /\ UNCHANGED local

(* A faulty peer that empties the socket and keeps the last answer. *)
EndSearchDraining(p) ==
    LET a == Last(outbox[p]) IN
    /\ main[p].at = "search"
    /\ outbox[p] # <<>>
    /\ outbox' = [outbox EXCEPT ![p] = <<>>]
    /\ Connect(p, a) \/ Refused(p, a) \/ NothingFound(p, a)
    /\ UNCHANGED <<inbox, index>>

EndSearch(p) ==
    LET a == Head(outbox[p]) IN
    /\ main[p].at = "search"
    /\ Receive(p)
    /\ Connect(p, a) \/ Refused(p, a) \/ NothingFound(p, a)
    /\ UNCHANGED <<inbox, index>>

(* The read loop of a download, at the end of its stream.  Each read is    *)
(* taken for a packet whose first byte is the type, though it may stop     *)
(* anywhere in the stream.  As long as no piece begins with an 'E', the    *)
(* file is kept, whatever arrived, and the peer registers as a provider.   *)
(* A piece with an 'E' closes the file, which is removed at the end; one   *)
(* that would be written, or close it, after that works on a FILE that is  *)
(* gone, which the process may survive or not.                             *)
EndDownload(p) ==
    LET d == conn[p] IN
    /\ main[p].at = "download"
    /\ ~ d.open
    /\ \/ /\ d.got # "error"
          /\ Send(Pdu("R", p, main[p].name, main[p].content))
          /\ main' = [main EXCEPT ![p].at = "publish"]
          /\ conn' = [conn EXCEPT ![p] = None]
          /\ UNCHANGED <<files, backlog, kid>>
       \/ /\ d.got # "nothing"
          /\ main' = [main EXCEPT ![p] = Done(@)]
          /\ conn' = [conn EXCEPT ![p] = None]
          /\ files' = [files EXCEPT ![p] = @ \ {d.file}]
          /\ UNCHANGED <<inbox, backlog, kid>>
       \/ /\ d.got # "nothing"
          /\ Leave(p, "failed")
          /\ UNCHANGED inbox
    /\ UNCHANGED <<outbox, index>>

(* Any 'E', "DUPLICATE ENTRY" too, makes the user choose another name. *)
EndPublish(p) ==
    LET a == Head(outbox[p]) IN
    /\ main[p].at = "publish"
    /\ Receive(p)
    /\ \/ /\ a.type = "E"
          /\ \E n \in Names :
                /\ Send(Pdu("R", p, n, main[p].content))
                /\ main' = [main EXCEPT ![p] = [@ EXCEPT !.name = n, !.own = FALSE]]
       \/ /\ a.type # "E"
          /\ main' = [main EXCEPT ![p] = Done(IF a.type = "A" THEN Remember(@) ELSE @)]
          /\ UNCHANGED inbox
    /\ UNCHANGED <<index, local>>
-----------------------------------------------------------------------------
(* 'D' waits for a connection without looking at rfds. *)
StartAccept(p) ==
    /\ Typed(p, "D")
    /\ main' = [main EXCEPT ![p] = [Picked(p) EXCEPT !.at = "await"]]
    /\ UNCHANGED <<server, local>>

(* accept and fork: at select, in 'D', or because of the bit kept from     *)
(* the last select.  The child inherits a copy of the peer name.           *)
Accept(p, k) ==
    LET m == main[p] IN
    /\ m.at \in {"menu", "await", "accept"}
    /\ backlog[p] # <<>>
    /\ kid[p][k] = None
    /\ kid' = [kid EXCEPT ![p][k] = [client |-> Head(backlog[p]), name |-> m.name,
                                     content |-> None]]
    /\ backlog' = [backlog EXCEPT ![p] = Tail(@)]
    /\ main' = [main EXCEPT ![p] = IF m.at = "await" THEN Done(@)
                                   ELSE [@ EXCEPT !.at = "menu"]]
    /\ UNCHANGED <<server, files, conn>>

(* A faulty child that exits while its parent still has the connection. *)
RejectWithoutClosing(p, k) ==
    LET q == kid[p][k].client IN
    /\ kid[p][k] # None /\ kid[p][k].content = None
    /\ conn[q].want \notin files[p]
    /\ conn' = [conn EXCEPT ![q].got = "error"]
    /\ kid' = [kid EXCEPT ![p][k] = None]
    /\ UNCHANGED <<server, main, files, backlog>>

(* A child reads the request.  No such file: it answers 'E' and exits.     *)
Reject(p, k) ==
    LET q == kid[p][k].client IN
    /\ kid[p][k] # None /\ kid[p][k].content = None
    /\ conn[q].want \notin files[p]
    /\ conn' = [conn EXCEPT ![q] = [@ EXCEPT !.got = "error", !.open = FALSE]]
    /\ kid' = [kid EXCEPT ![p][k] = None]
    /\ UNCHANGED <<server, main, files, backlog>>

(* It sends the file, packet by packet, unless it is empty, and then asks  *)
(* the server to deregister it.                                            *)
SendFile(p, k) ==
    LET q == kid[p][k].client
        c == conn[q].want
    IN
    /\ kid[p][k] # None /\ kid[p][k].content = None
    /\ c \in files[p]
    /\ \E g \in {"nothing", "data"} : conn' = [conn EXCEPT ![q].got = g]
    /\ Send(Pdu("T", p, kid[p][k].name, c))
    /\ kid' = [kid EXCEPT ![p][k].content = c]
    /\ UNCHANGED <<outbox, index, main, files, backlog>>

(* Faulty children: one does not read the answer to its 'T', the other's   *)
(* parent keeps a copy of the connection.                                  *)
EndChildBeforeAnswer(p, k) ==
    /\ kid[p][k] # None /\ kid[p][k].content # None
    /\ conn' = [conn EXCEPT ![kid[p][k].client].open = FALSE]
    /\ kid' = [kid EXCEPT ![p][k] = None]
    /\ UNCHANGED <<server, main, files, backlog>>

EndChildKeepingOpen(p, k) ==
    /\ kid[p][k] # None /\ kid[p][k].content # None
    /\ Receive(p)
    /\ kid' = [kid EXCEPT ![p][k] = None]
    /\ UNCHANGED <<inbox, index, main, files, backlog, conn>>

(* Only when it has read an answer does it close the connection. *)
EndChild(p, k) ==
    /\ kid[p][k] # None /\ kid[p][k].content # None
    /\ Receive(p)
    /\ conn' = [conn EXCEPT ![kid[p][k].client].open = FALSE]
    /\ kid' = [kid EXCEPT ![p][k] = None]
    /\ UNCHANGED <<inbox, index, main, files, backlog>>
-----------------------------------------------------------------------------
User(p) ==
    \/ StartRegister(p) \/ StartList(p) \/ StartSearch(p)
    \/ StartDeregister(p) \/ StartQuit(p) \/ StartAccept(p)

Answered(p) == Rename(p) \/ KeepName(p)

Parent(p) ==
    \/ EndRegister(p) \/ ReadList(p) \/ EndDeregister(p) \/ ReadQuit(p)
    \/ EndSearch(p) \/ EndDownload(p) \/ EndPublish(p)

Work(p, k) == Reject(p, k) \/ SendFile(p, k) \/ EndChild(p, k)

ServerTurn  == Server!Serve /\ UNCHANGED <<main, local>>
NetworkLoss == Lossy /\ Lose /\ UNCHANGED <<index, main, local>>

Next ==
    \/ ServerTurn \/ NetworkLoss
    \/ \E p \in Peers : User(p) \/ Answered(p) \/ Parent(p)
    \/ \E p \in Peers, k \in Kids : Accept(p, k) \/ Work(p, k)

Spec == Init /\ [][Next]_vars

(* The processes are scheduled: the server's loop never ends, a process    *)
(* whose read can return returns from it, and a user answers a question    *)
(* that is asked.  Nothing obliges a user to type another command.         *)
Fairness ==
    /\ WF_vars(ServerTurn)
    /\ \A p \in Peers : WF_vars(Answered(p)) /\ WF_vars(Parent(p))
    /\ \A p \in Peers, k \in Kids : WF_vars(Accept(p, k)) /\ WF_vars(Work(p, k))

FairSpec == Spec /\ Fairness
-----------------------------------------------------------------------------
(* Everything the peers do is something the server's specification allows  *)
(* its clients: what is proved of IndexServer holds in the whole system.   *)
ServerSpec == Server!Spec

Listed(n, c, p) == [peer |-> n, content |-> c, addr |-> p] \in ToSet(index)

(* "deregister all remaining content and quit": once Q is through, no node *)
(* of the list leads to the peer, whatever was registered, deregistered or *)
(* refused on the way.                                                     *)
QuitLeavesNothing ==
    \A p \in Peers : main[p].at = "gone" => \A e \in ToSet(index) : e.addr # p

Distinguished == \A p \in Peers : main[p].own

(* While every peer has a name of its own: when one notes a content as     *)
(* registered, the server lists it, which means that the answer it read    *)
(* was the answer to that registration.                                    *)
NotedMeansListed ==
    [][Distinguished => \A p \in Peers :
          Len(main'[p].regs) > Len(main[p].regs)
          => Listed(main[p].name, main[p].content, p)]_vars

(* And the node of a peer leaves the list only on a request of that peer,  *)
(* though the server compares names and no addresses.                      *)
OnlyOwnerRemoves ==
    [][Distinguished =>
       \A e \in ToSet(index) \ ToSet(index') : Head(inbox).from = e.addr]_vars

(* Parent and children of a peer wait for exactly as many answers as are   *)
(* under way or waiting for them: none of them can read two for one, and   *)
(* none is left without.                                                   *)
Waiting(p) ==
    Cardinality({k \in Kids : kid[p][k] # None /\ kid[p][k].content # None})
    + IF main[p].at \in {"register", "list", "search", "publish", "deregister", "quit"}
      THEN 1 ELSE 0

Pending(p) ==
    Len(outbox[p]) + Cardinality({i \in 1..Len(inbox) : inbox[i].from = p})

AnswersMatchReaders == \A p \in Peers : Waiting(p) = Pending(p)

(* The stream of a download ends after the provider's node has left the    *)
(* list: the downloader registers second, and the content never appears    *)
(* under both at the end of one download.                                  *)
HandOver ==
    [][\A p \in Peers, k \in Kids :
          kid[p][k] # None /\ kid'[p][k] = None /\ kid[p][k].content # None
          => ~ Listed(kid[p][k].name, kid[p][k].content, p)]_vars

(* Parents that download from each other in a circle: each sits in the     *)
(* read loop, and the connection it waits for is still in a backlog.       *)
Circle(S) ==
    /\ S # {}
    /\ \A p \in S : /\ main[p].at = "download"
                    /\ conn[p].to \in S
                    /\ Contains(backlog[conn[p].to], p)

(* Nothing moves any more unless a user types a command: no datagram is   *)
(* under way, no child runs, no stream has ended unread, nobody is asked a *)
(* question, and no parent that could accept has a client.                 *)
Halted ==
    /\ inbox = <<>>
    /\ \A p \in Peers :
          /\ outbox[p] = <<>>
          /\ \A k \in Kids : kid[p][k] = None
          /\ main[p].at # "rename"
          /\ main[p].at = "download" => conn[p].open
          /\ main[p].at \in {"menu", "await", "accept"} => backlog[p] = <<>>

(* Whoever hangs in a command then, and does not sit in accept(), hangs    *)
(* because parents download from each other in a circle.                   *)
StuckOnlyInCircle ==
    Halted /\ (\E p \in Peers : main[p].at \notin
                                  {"menu", "await", "accept", "gone", "failed"})
    => \E S \in SUBSET Peers : Circle(S)

(* With one provider that only serves, every download ends. *)
DownloadsEnd ==
    \A p \in Peers : main[p].at = "download" ~> main[p].at # "download"

(* "send r type pdus until successful": the loop of 'R' comes to an end. *)
RegistrationEnds ==
    \A p \in Peers :
        main[p].at \in {"register", "rename"} ~> main[p].at \notin {"register", "rename"}
=============================================================================
