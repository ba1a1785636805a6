----------------------------- MODULE TcpTransfer -----------------------------
(***************************************************************************)
(* File transfer over TCP (COE 768/lab4).  lab4_server.c forks a child for *)
(* each connection; the child reads a file name and writes the file in     *)
(* packets, a type byte and up to 99 bytes of data.  lab4_client.c takes   *)
(* what one read returns for one packet, but TCP carries bytes: where a    *)
(* read stops is up to the connection.                                     *)
(***************************************************************************)
EXTENDS Naturals, FiniteSetsExt, SequencesExt

CONSTANTS Clients,     (* processes that run lab4_client                   *)
          Names,       (* file names                                       *)
          Folder,      (* Folder[c]: the working directory c is run in     *)
          Files,       (* the bytes of each server file, or None           *)
          DataLen,     (* bytes of data in a packet, 99 in the code        *)
          None

(* Of a byte it matters only whether it looks like a packet type. *)
Byte == {"D", "E", "x"}

ASSUME TcpAssumption ==
    /\ Files \in [Names -> Seq(Byte) \cup {None}]
    /\ None \notin Names \cup Seq(Byte)
    /\ DataLen \in Nat \ {0}

VARIABLES client,      (* client[c]: where the client is, and what it has  *)
          backlog,     (* connections nobody accepted yet                  *)
          child,       (* child[c]: the server's process for c             *)
          stream,      (* stream[c]: bytes on the way to c                 *)
          disk         (* disk[d][n]: client_files/n in directory d        *)

vars == <<client, backlog, child, stream, disk>>

Folders == {Folder[c] : c \in Clients}

(* name is what the client has asked for; fd is FALSE once it is -1.       *)
(* whole is a history: has every read returned a whole packet?             *)
Process == [at : {"off", "prompt", "reading", "done", "exists"},
            name : Names \cup {None}, fd : BOOLEAN, whole : BOOLEAN]
Child == [at : {"none", "request", "sending", "closed"}, pos : Nat]

TypeOK ==
    /\ client \in [Clients -> Process]
    /\ backlog \in Seq(Clients)
    /\ child \in [Clients -> Child]
    /\ \A c \in Clients : child[c].at = "sending" => child[c].pos <= Len(Files[client[c].name])
    /\ stream \in [Clients -> Seq(Byte)]
    /\ disk \in [Folders -> [Names -> Seq(Byte) \cup {None}]]

Init ==
    /\ client = [c \in Clients |-> [at |-> "off", name |-> None,
                                 fd |-> TRUE, whole |-> TRUE]]
    /\ backlog = <<>>
    /\ child = [c \in Clients |-> [at |-> "none", pos |-> 0]]
    /\ stream = [c \in Clients |-> <<>>]
    /\ disk = [d \in Folders |-> [n \in Names |-> None]]
-----------------------------------------------------------------------------
Connect(c) ==
    /\ client[c].at = "off"
    /\ client' = [client EXCEPT ![c].at = "prompt"]
    /\ backlog' = Append(backlog, c)
    /\ UNCHANGED <<child, stream, disk>>

(* A faulty open that empties a file somebody is writing. *)
CreatesAnyway(c, n) == TRUE

(* The bits of S_IRWXU among the flags of open() are those of O_CREAT,     *)
(* O_EXCL and O_NOCTTY: open() fails when the file is there.               *)
Creates(c, n) == disk[Folder[c]][n] = None

Named(c, place, n) ==
    client' = [client EXCEPT ![c] = [at |-> place, name |-> n, fd |-> @.fd, whole |-> @.whole]]

(* The user names a file.  The request leaves before the file is created.  *)
Ask(c) ==
    /\ client[c].at = "prompt"
    /\ \E n \in Names :
          \/ /\ Creates(c, n)
             /\ disk' = [disk EXCEPT ![Folder[c]][n] = <<>>]
             /\ Named(c, "reading", n)
          \/ /\ ~ Creates(c, n)
             /\ Named(c, "exists", n)
             /\ UNCHANGED disk
    /\ UNCHANGED <<backlog, child, stream>>

(* n-1 bytes are data. *)
Payload(buffer) == Tail(buffer)

(* One read of up to sizeof(pkt) bytes, which stops where it likes.  Its   *)
(* first byte is taken for the type.  After an 'E' there is no file to     *)
(* write to any more.                                                      *)
Read(c) ==
    LET most == Min({1 + DataLen, Len(stream[c])})
        d == Folder[c]
        n == client[c].name
    IN
    /\ client[c].at = "reading"
    /\ stream[c] # <<>>
    /\ \E k \in 1..most :
          LET buffer == SubSeq(stream[c], 1, k) IN
          /\ stream' = [stream EXCEPT ![c] = SubSeq(@, k + 1, Len(@))]
          /\ client' = [client EXCEPT ![c] =
                          [at |-> "reading", name |-> n, fd |-> @.fd /\ buffer[1] # "E",
                           whole |-> @.whole /\ k = most]]
          /\ disk' = IF buffer[1] = "D" /\ client[c].fd
                     THEN [disk EXCEPT ![d][n] = @ \o Payload(buffer)] ELSE disk
    /\ UNCHANGED <<backlog, child>>

(* The end of the stream: the file is removed if an 'E' was seen. *)
End(c) ==
    /\ client[c].at = "reading"
    /\ stream[c] = <<>>
    /\ child[c].at = "closed"
    /\ client' = [client EXCEPT ![c].at = "done"]
    /\ disk' = IF client[c].fd THEN disk
               ELSE [disk EXCEPT ![Folder[c]][client[c].name] = None]
    /\ UNCHANGED <<backlog, child, stream>>
-----------------------------------------------------------------------------
(* accept and fork. *)
Accept ==
    /\ backlog # <<>>
    /\ backlog' = Tail(backlog)
    /\ child' = [child EXCEPT ![Head(backlog)] = [at |-> "request", pos |-> 0]]
    /\ UNCHANGED <<client, stream, disk>>

(* What is written for a client that has exited is lost. *)
Write(c, packet) ==
    stream' = IF client[c].at = "reading" THEN [stream EXCEPT ![c] = @ \o packet]
              ELSE stream

(* A child reads the name, and opens the file or answers with a full-size  *)
(* packet of type 'E'.                                                     *)
OpenFile(c) ==
    /\ child[c].at = "request"
    /\ client[c].name # None
    /\ \/ /\ Files[client[c].name] = None
          /\ Write(c, <<"E">> \o [i \in 1..DataLen |-> "x"])
          /\ child' = [child EXCEPT ![c].at = "closed"]
       \/ /\ Files[client[c].name] # None
          /\ child' = [child EXCEPT ![c].at = "sending"]
          /\ UNCHANGED stream
    /\ UNCHANGED <<client, backlog, disk>>

(* A faulty loop that stops at a piece that does not fill a packet. *)
AtEndIfShort(c) == Len(Files[client[c].name]) - child[c].pos < DataLen

AtEnd(c) == child[c].pos >= Len(Files[client[c].name])

(* A faulty server that returns without closing the connection. *)
CloseFileKeepingConnection(c) ==
    /\ child[c].at = "sending"
    /\ AtEnd(c)
    /\ child' = [child EXCEPT ![c].at = "none"]
    /\ UNCHANGED <<client, backlog, stream, disk>>

(* A faulty loop that advances by a full packet. *)
SendPacketAdvancingFully(c) ==
    LET file == Files[client[c].name]
        pos  == child[c].pos
    IN
    /\ child[c].at = "sending"
    /\ ~ AtEnd(c)
    /\ Write(c, <<"D">> \o SubSeq(file, pos + 1, Min({pos + DataLen, Len(file)})))
    /\ child' = [child EXCEPT ![c].pos = pos + DataLen]
    /\ UNCHANGED <<client, backlog, disk>>

SendPacket(c) ==
    LET file == Files[client[c].name]
        pos  == child[c].pos
        n    == Min({DataLen, Len(file) - pos})
    IN
    /\ child[c].at = "sending"
    /\ ~ AtEnd(c)
    /\ Write(c, <<"D">> \o SubSeq(file, pos + 1, pos + n))
    /\ child' = [child EXCEPT ![c].pos = pos + n]
    /\ UNCHANGED <<client, backlog, disk>>

CloseFile(c) ==
    /\ child[c].at = "sending"
    /\ AtEnd(c)
    /\ child' = [child EXCEPT ![c].at = "closed"]
    /\ UNCHANGED <<client, backlog, stream, disk>>
-----------------------------------------------------------------------------
ClientStep(c) == Read(c) \/ End(c)
ChildStep(c)  == OpenFile(c) \/ SendPacket(c) \/ CloseFile(c)

Next == Accept \/ \E c \in Clients : Connect(c) \/ Ask(c) \/ ClientStep(c) \/ ChildStep(c)

Spec == Init /\ [][Next]_vars

(* The server accepts for ever and processes are scheduled; nothing        *)
(* obliges a user to run a client or to name a file.                       *)
FairSpec == Spec /\ WF_vars(Accept)
                 /\ \A c \in Clients : WF_vars(ClientStep(c)) /\ WF_vars(ChildStep(c))
-----------------------------------------------------------------------------
(* A client that ends has the file of the server, or no file if the server *)
(* has none, whoever else is served meanwhile - if no read stopped early.  *)
EndsWithFile(c) ==
    client[c].at = "reading" /\ client'[c].at = "done"
    => disk'[Folder[c]][client[c].name] = Files[client[c].name]

CopyIsFile == [][\A c \in Clients : client[c].whole => EndsWithFile(c)]_vars

(* Two processes never write the same file: open() refuses the second one. *)
OneWriter ==
    \A c, e \in Clients :
        /\ c # e /\ client[c].at = "reading" /\ client[e].at = "reading"
        /\ Folder[c] = Folder[e]
        => client[c].name # client[e].name

(* Wherever the reads stop, every client gets to the end of its stream.    *)
TransferEnds ==
    \A c \in Clients : client[c].at = "reading" ~> client[c].at # "reading"
=============================================================================
