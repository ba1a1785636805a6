----------------------------- MODULE UdpTransfer -----------------------------
(***************************************************************************)
(* File transfer over UDP (COE 768/lab5).  lab5_server.c is one loop that  *)
(* receives a file name and sends that file, piece by piece, to whoever    *)
(* asked; lab5_client.c is a program its user runs once per file.  The     *)
(* last piece travels in a PDU of type 'F', which is how a client knows    *)
(* the end.  There are no acknowledgements, timeouts or sequence numbers.  *)
(***************************************************************************)
EXTENDS Integers, FiniteSetsExt, SequencesExt

CONSTANTS Clients,       (* the users that run lab5_client                 *)
          Names,         (* file names                                     *)
          Folder,        (* Folder[c]: the working directory c is run in   *)
          Sizes,         (* bytes of each server file at first, or None    *)
          DataLen,       (* bytes of data in a PDU, 100 in the code        *)
          MaxRuns,       (* bound: how often each user runs the client     *)
          MaxAccidents,  (* bound: how many things go wrong                *)
          MaxUnread,     (* what fits the receive buffer of a socket       *)
          None

ASSUME TransferAssumption ==
    /\ Sizes \in [Names -> Nat \cup {None}]
    /\ DataLen \in Nat \ {0} /\ MaxUnread \in Nat \ {0}
    /\ MaxRuns \in Nat /\ MaxAccidents \in Nat
    /\ None \notin Names \cup Nat \cup Seq(Names \X Nat)

VARIABLES up,        (* does the server run?                               *)
          size,      (* size[n]: the length of the server's file, or None  *)
          task,      (* what the server is sending, or None                *)
          requests,  (* datagrams on the way to the server                 *)
          client,    (* client[c]: the last process c ran                  *)
          unread,    (* unread[c]: datagrams on the way to that process    *)
          disk,      (* disk[d][n]: client_files/n in directory d, or None *)
          accidents  (* a history of what went wrong                       *)

vars == <<up, size, task, requests, client, unread, disk, accidents>>

Folders == {Folder[c] : c \in Clients}

(* Byte i of file n is <<n, i>>, so that a copy shows what it is made of.  *)
Piece(n, from, len) == [i \in 1..len |-> <<n, from + i>>]

(* The network loses, duplicates and reorders datagrams; somebody changes  *)
(* a file of the server; the server or a client is stopped.                *)
Kinds == {"lose", "duplicate", "reorder", "edit", "stop", "interrupt"}

Accident(kind) ==
    /\ Len(accidents) < MaxAccidents
    /\ accidents' = Append(accidents, kind)

(* run stands for the port of a process: no two processes have the same.   *)
(* size is a history of st_size, left is bytesToRead, pos the file offset. *)
(* missed is a history: has a datagram found the receive buffer full?      *)
Process == [at : {"off", "reading", "received", "rejected", "failed", "exists"},
            name : Names \cup {None}, run : Nat, size : Nat, missed : BOOLEAN]
Pdu  == [type : {"D", "F", "E"}, data : Seq(Names \X Nat)]
Task == [to : Clients, run : Nat, name : Names, left : Nat, pos : Nat]

TypeOK ==
    /\ up \in BOOLEAN
    /\ size \in [Names -> Nat \cup {None}]
    /\ task \in Task \cup {None}
    /\ requests \in Seq([from : Clients, run : Nat, name : Names])
    /\ client \in [Clients -> Process]
    /\ unread \in [Clients -> Seq(Pdu)]
    /\ disk \in [Folders -> [Names -> Seq(Names \X Nat) \cup {None}]]
    /\ accidents \in Seq(Kinds) /\ Len(accidents) <= MaxAccidents

Init ==
    /\ up = TRUE /\ size = Sizes /\ task = None /\ requests = <<>>
    /\ client = [c \in Clients |-> [at |-> "off", name |-> None, run |-> 0,
                                    size |-> 0, missed |-> FALSE]]
    /\ unread = [c \in Clients |-> <<>>]
    /\ disk = [d \in Folders |-> [n \in Names |-> None]]
    /\ accidents = <<>>
-----------------------------------------------------------------------------
(* recvfrom and read take datagram i of s, which may overtake others. *)
Arrives(s, i) ==
    /\ i \in DOMAIN s
    /\ IF i = 1 THEN UNCHANGED accidents ELSE Accident("reorder")

Reads(c, run) == client[c].at = "reading" /\ client[c].run = run

Put(c, pdu) == unread' = [unread EXCEPT ![c] = Append(@, pdu)]

(* A faulty sendto to whatever c runs now. *)
SendToUser(c, run, pdu) ==
    \/ client[c].at = "reading" /\ Put(c, pdu) /\ UNCHANGED client
    \/ client[c].at # "reading" /\ UNCHANGED <<client, unread>>

(* sendto: nothing reaches a closed port or a full receive buffer, and the *)
(* sender is not told: the server never waits for a slow client.           *)
SendTo(c, run, pdu) ==
    \/ /\ Reads(c, run) /\ Len(unread[c]) < MaxUnread
       /\ Put(c, pdu)
       /\ UNCHANGED client
    \/ /\ Reads(c, run) /\ Len(unread[c]) >= MaxUnread
       /\ client' = [client EXCEPT ![c].missed = TRUE]
       /\ UNCHANGED unread
    \/ ~ Reads(c, run) /\ UNCHANGED <<client, unread>>

(* The server opens the file a request names.  It answers 'E' when it      *)
(* cannot, and nothing at all when the file is empty.                      *)
Receive ==
    /\ up /\ task = None
    /\ \E i \in DOMAIN requests :
          LET r == requests[i] IN
          /\ Arrives(requests, i)
          /\ requests' = RemoveAt(requests, i)
          /\ \/ /\ size[r.name] = None
                /\ SendTo(r.from, r.run, [type |-> "E", data |-> <<>>])
                /\ UNCHANGED task
             \/ /\ size[r.name] # None
                /\ task' = IF size[r.name] = 0 THEN None
                           ELSE [to |-> r.from, run |-> r.run, name |-> r.name,
                                 left |-> size[r.name], pos |-> 0]
                /\ client' = IF Reads(r.from, r.run)
                             THEN [client EXCEPT ![r.from].size = size[r.name]]
                             ELSE client
                /\ UNCHANGED unread
    /\ UNCHANGED <<up, size, disk>>

(* What read(fd, pkt.data, sizeof(pkt.data)) returns at the offset. *)
ReadLength(t) == Max({0, Min({DataLen, size[t.name] - t.pos})})

(* A faulty server that takes the first short piece for the last one. *)
IsFinalWhenShort(t) == t.left - ReadLength(t) < DataLen

(* A faulty server that waits for bytesToRead to become negative. *)
IsFinalBelowZero(t) == t.left - ReadLength(t) < 0

(* The piece that brings bytesToRead to zero is the last one. *)
IsFinal(t) == t.left - ReadLength(t) = 0

(* A faulty loop that ends only at zero. *)
GoesOnUnlessZero(t) == t.left - ReadLength(t) # 0

GoesOn(t) == t.left - ReadLength(t) > 0

(* One turn of the loop over the file.  read returns nothing at the end of *)
(* a file that has shrunk, and more than is left of one that has grown.    *)
SendPiece ==
    /\ up /\ task # None
    /\ LET n == ReadLength(task) IN
       /\ SendTo(task.to, task.run, [type |-> IF IsFinal(task) THEN "F" ELSE "D",
                                     data |-> Piece(task.name, task.pos, n)])
       /\ task' = IF GoesOn(task)
                  THEN [to |-> task.to, run |-> task.run, name |-> task.name,
                        left |-> task.left - n, pos |-> task.pos + n]
                  ELSE None
    /\ UNCHANGED <<up, size, requests, disk, accidents>>
-----------------------------------------------------------------------------
(* A faulty open that empties a file somebody is writing. *)
CreatesAnyway(c, n) == TRUE

(* S_IRWXU stands among the flags of open(); its bits are those of O_CREAT,*)
(* O_EXCL and O_NOCTTY, so that open() fails when the file is there.       *)
Creates(c, n) == disk[Folder[c]][n] = None

(* The user runs the client and names a file. *)
Start(c) ==
    /\ client[c].at # "reading"
    /\ client[c].run < MaxRuns
    /\ \E n \in Names :
          LET run == client[c].run + 1
              goes(at) == [at |-> at, name |-> n, run |-> run, size |-> 0, missed |-> FALSE]
          IN
          \/ /\ Creates(c, n)
             /\ disk' = [disk EXCEPT ![Folder[c]][n] = <<>>]
             /\ requests' = Append(requests, [from |-> c, run |-> run, name |-> n])
             /\ client' = [client EXCEPT ![c] = goes("reading")]
          \/ /\ ~ Creates(c, n)
             /\ client' = [client EXCEPT ![c] = goes("exists")]
             /\ UNCHANGED <<disk, requests>>
    /\ UNCHANGED <<up, size, task, unread, accidents>>

(* The process exits with a result; its socket and what is in it go away. *)
Exit(c, at) ==
    /\ client' = [client EXCEPT ![c].at = at]
    /\ unread' = [unread EXCEPT ![c] = <<>>]

(* One turn of the client's read loop. *)
Read(c) ==
    LET d == Folder[c]
        n == client[c].name
    IN
    /\ client[c].at = "reading"
    /\ \E i \in DOMAIN unread[c] :
          LET m == unread[c][i] IN
          /\ Arrives(unread[c], i)
          /\ disk' = [disk EXCEPT ![d][n] = IF m.type = "E" THEN None ELSE @ \o m.data]
          /\ \/ m.type = "F" /\ Exit(c, "received")
             \/ m.type = "E" /\ Exit(c, "rejected")
             \/ /\ m.type = "D"
                /\ unread' = [unread EXCEPT ![c] = RemoveAt(@, i)]
                /\ UNCHANGED client
    /\ UNCHANGED <<up, size, task, requests>>
-----------------------------------------------------------------------------
(* UDP *)
Lose ==
    /\ Accident("lose")
    /\ \/ /\ \E i \in DOMAIN requests : requests' = RemoveAt(requests, i)
          /\ UNCHANGED unread
       \/ /\ \E c \in Clients : \E i \in DOMAIN unread[c] :
                unread' = [unread EXCEPT ![c] = RemoveAt(@, i)]
          /\ UNCHANGED requests
    /\ UNCHANGED <<up, size, task, client, disk>>

Duplicate ==
    /\ Accident("duplicate")
    /\ \/ /\ \E i \in DOMAIN requests : requests' = Append(requests, requests[i])
          /\ UNCHANGED unread
       \/ /\ \E c \in Clients : \E i \in DOMAIN unread[c] :
                /\ Len(unread[c]) < MaxUnread
                /\ unread' = [unread EXCEPT ![c] = Append(@, @[i])]
          /\ UNCHANGED requests
    /\ UNCHANGED <<up, size, task, client, disk>>

(* Somebody makes a file of the server longer or shorter, in place. *)
Edit ==
    /\ Accident("edit")
    /\ \E n \in Names : /\ size[n] # None
                        /\ \E s \in {size[n] - 1, size[n] + 1} \cap Nat :
                              size' = [size EXCEPT ![n] = s]
    /\ UNCHANGED <<up, task, requests, client, unread, disk>>

(* The server is killed, with what is in its socket, and started again. *)
Stop ==
    /\ \/ /\ up
          /\ Accident("stop")
          /\ requests' = <<>>
       \/ ~ up /\ UNCHANGED <<requests, accidents>>
    /\ up' = ~ up
    /\ task' = None
    /\ UNCHANGED <<size, client, unread, disk>>

(* A request to a closed port comes back as an error of the next read: the *)
(* client leaves its loop and exits with an empty file on the disk.        *)
Bounce ==
    /\ ~ up
    /\ requests # <<>>
    /\ requests' = Tail(requests)
    /\ LET r == Head(requests) IN
       IF Reads(r.from, r.run) THEN Exit(r.from, "failed")
       ELSE UNCHANGED <<client, unread>>
    /\ UNCHANGED <<up, size, task, disk, accidents>>

(* A user who has waited long enough kills the client. *)
Interrupt(c) ==
    /\ Accident("interrupt")
    /\ client[c].at = "reading"
    /\ Exit(c, "failed")
    /\ UNCHANGED <<up, size, task, requests, disk>>
-----------------------------------------------------------------------------
Next ==
    \/ Receive \/ SendPiece \/ Lose \/ Duplicate \/ Edit \/ Stop \/ Bounce
    \/ \E c \in Clients : Start(c) \/ Read(c) \/ Interrupt(c)

Spec == Init /\ [][Next]_vars

(* The server's loop runs for ever and a client reads what arrives. *)
FairSpec ==
    /\ Spec
    /\ WF_vars(Receive) /\ WF_vars(SendPiece) /\ WF_vars(Bounce)
    /\ \A c \in Clients : WF_vars(Read(c))
-----------------------------------------------------------------------------
Copy(c) == disk[Folder[c]][client[c].name]
Happened(kinds) == \E i \in 1..Len(accidents) : accidents[i] \in kinds

(* However many clients the one loop serves, and whatever happens to the   *)
(* file or to the server meanwhile: a client that has read its 'F' has     *)
(* written the bytes the server counted when it opened the file, all of    *)
(* them and in order, as long as the network does what it is told and no   *)
(* datagram found the client's receive buffer full.                        *)
CopyIsWhole ==
    [][\A c \in Clients :
          client[c].at = "reading" /\ client'[c].at = "received"
          /\ ~ Happened({"lose", "duplicate", "reorder"})' /\ ~ client[c].missed
          => Copy(c)' = Piece(client[c].name, 0, client[c].size)]_vars

(* A client that only loses datagrams keeps the bytes it has in order, and *)
(* has the last one of the file when it believes that the file is complete.*)
Increasing(s) == \A i \in 1..Len(s) - 1 : s[i][2] < s[i + 1][2]
LastArrived ==
    [][\A c \in Clients :
          client[c].at = "reading" /\ client'[c].at = "received"
          /\ ~ Happened({"duplicate", "reorder"})'
          => Increasing(Copy(c)') /\ Last(Copy(c)')[2] = client[c].size]_vars

(* Lost, doubled, reordered, sent by a server that was restarted or to a   *)
(* client that was: a file only ever gets bytes of its own name.           *)
OnlyItsBytes ==
    \A d \in Folders, n \in Names :
        disk[d][n] # None => \A i \in 1..Len(disk[d][n]) : disk[d][n][i][1] = n

(* Two processes never write the same file: open() refuses the second one. *)
OneWriter ==
    \A c, e \in Clients :
        /\ c # e /\ client[c].at = "reading" /\ client[e].at = "reading"
        /\ Folder[c] = Folder[e]
        => client[c].name # client[e].name

(* "delete file if error packet, otherwise close file normally": as long   *)
(* as nothing goes wrong, every client gets that far, whoever else the one *)
(* loop has to serve first - unless the file it asks for is empty, or more *)
(* was sent than its receive buffer holds.                                 *)
TransferEnds ==
    \A c \in Clients :
        client[c].at = "reading" /\ accidents = <<>> /\ size[client[c].name] # 0
        ~> client[c].at # "reading" \/ client[c].missed \/ accidents # <<>>
=============================================================================
