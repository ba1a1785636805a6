--------------------------- MODULE UdpTransferProofs ---------------------------
(***************************************************************************)
(* Proofs about UdpTransfer, for any users, files and bounds, and any      *)
(* number of accidents of every kind.                                      *)
(***************************************************************************)
EXTENDS UdpTransfer, SequenceTheorems, TLAPS

(* Bytes of one file, and PDUs that carry nothing else. *)
BytesOf(n) == Seq({n} \X Nat)
PduOf(n)   == [type : {"D", "F", "E"}, data : BytesOf(n)]

(* run is a process of c that asked for n: an old one, or the present one. *)
Origin(c, run, n) ==
    /\ run <= client[c].run
    /\ run = client[c].run => client[c].name = n
Asked == {r \in [from : Clients, run : Nat, name : Names] : Origin(r.from, r.run, r.name)}

RequestsAsked == requests \in Seq(Asked)

TaskAsked ==
    task # None => Origin(task.to, task.run, task.name) /\ size[task.name] # None

(* What is in a client's socket belongs to the file it asked for.          *)
UnreadFits ==
    \A c \in Clients :
        /\ unread[c] \in Seq(PduOf(client[c].name))
        /\ client[c].at # "reading" => unread[c] = <<>>

(* A file somebody writes is there, so open() refuses it to the others.    *)
WritersHaveFiles ==
    \A c \in Clients : client[c].at = "reading" =>
        client[c].name \in Names /\ disk[Folder[c]][client[c].name] # None

FilesFit ==
    \A d \in Folders, n \in Names : disk[d][n] # None => disk[d][n] \in BytesOf(n)

Inv ==
    /\ TypeOK
    /\ RequestsAsked
    /\ TaskAsked
    /\ UnreadFits
    /\ WritersHaveFiles
    /\ FilesFit
    /\ OneWriter

-----------------------------------------------------------------------------
(* Sequences and numbers. *)
LEMMA Removed ==
    ASSUME NEW S, NEW s \in Seq(S), NEW k \in DOMAIN s
    PROVE  RemoveAt(s, k) \in Seq(S) /\ s[k] \in S
<1>1. Len(s) \in Nat /\ k \in 1..Len(s) /\ \A x \in 1..Len(s) : s[x] \in S
    BY LenProperties, ElementOfSeq
<1>2. SubSeq(s, 1, k - 1) \in Seq(S)
    BY <1>1, SubSeqProperties
<1>3. SubSeq(s, k + 1, Len(s)) \in Seq(S)
    BY <1>1, SubSeqProperties
<1>4. RemoveAt(s, k) \in Seq(S)
    BY <1>2, <1>3, ConcatProperties DEF RemoveAt
<1>5. QED
    BY <1>1, <1>4

LEMMA MinOfTwo ==
    ASSUME NEW a \in Int, NEW b \in Int
    PROVE  Min({a, b}) = IF a <= b THEN a ELSE b
<1>1. CASE a <= b
  <2>1. \A x \in {a, b} : (\A y \in {a, b} : x =< y) => x = a
    BY <1>1
  <2>2. a \in {a, b} /\ \A y \in {a, b} : a =< y
    BY <1>1
  <2>3. QED
    BY <1>1, <2>1, <2>2 DEF Min
<1>2. CASE b < a
  <2>1. \A x \in {a, b} : (\A y \in {a, b} : x =< y) => x = b
    BY <1>2
  <2>2. b \in {a, b} /\ \A y \in {a, b} : b =< y
    BY <1>2
  <2>3. QED
    BY <1>2, <2>1, <2>2 DEF Min
<1>3. QED
    BY <1>1, <1>2

LEMMA MaxOfTwo ==
    ASSUME NEW a \in Int, NEW b \in Int
    PROVE  Max({a, b}) = IF a >= b THEN a ELSE b
<1>1. CASE a >= b
  <2>1. \A x \in {a, b} : (\A y \in {a, b} : x >= y) => x = a
    BY <1>1
  <2>2. a \in {a, b} /\ \A y \in {a, b} : a >= y
    BY <1>1
  <2>3. QED
    BY <1>1, <2>1, <2>2 DEF Max
<1>2. CASE b > a
  <2>1. \A x \in {a, b} : (\A y \in {a, b} : x >= y) => x = b
    BY <1>2
  <2>2. b \in {a, b} /\ \A y \in {a, b} : b >= y
    BY <1>2
  <2>3. QED
    BY <1>2, <2>1, <2>2 DEF Max
<1>3. QED
    BY <1>1, <1>2

LEMMA PieceFits ==
    ASSUME NEW n \in Names, NEW from \in Nat, NEW len \in Nat
    PROVE  Piece(n, from, len) \in BytesOf(n)
BY DEF Piece, BytesOf

LEMMA BytesAreTyped ==
    /\ \A n \in Names : BytesOf(n) \subseteq Seq(Names \X Nat)
    /\ \A n : <<>> \in BytesOf(n)
<1>1. ASSUME NEW n \in Names PROVE BytesOf(n) \subseteq Seq(Names \X Nat)
  <2>1. {n} \X Nat \subseteq Names \X Nat
    OBVIOUS
  <2>2. QED
    BY <2>1, SeqMonotonic DEF BytesOf
<1>2. \A n : <<>> \in BytesOf(n)
    BY EmptySeq DEF BytesOf
<1>3. QED
    BY <1>1, <1>2
-----------------------------------------------------------------------------
(* What a step of one part leaves to show. *)
LEMMA AccidentTypes ==
    ASSUME Inv, NEW kind \in Kinds, Accident(kind)
    PROVE  accidents' \in Seq(Kinds) /\ Len(accidents') <= MaxAccidents
<1>1. accidents \in Seq(Kinds) /\ Len(accidents) < MaxAccidents /\ MaxAccidents \in Nat
    BY TransferAssumption DEF TransferAssumption, Inv, TypeOK, Accident
<1>2. Len(accidents) \in Nat
    BY <1>1, LenProperties
<1>3. Append(accidents, kind) \in Seq(Kinds) /\ Len(Append(accidents, kind)) = Len(accidents) + 1
    BY <1>1, AppendProperties
<1>4. QED
    BY <1>1, <1>2, <1>3 DEF Accident

LEMMA ArrivalTypes ==
    ASSUME Inv, NEW s, NEW k, Arrives(s, k)
    PROVE  /\ k \in DOMAIN s
           /\ accidents' \in Seq(Kinds) /\ Len(accidents') <= MaxAccidents
<1>1. "reorder" \in Kinds
    BY DEF Kinds
<1>2. QED
    BY <1>1, AccidentTypes DEF Arrives, Inv, TypeOK

(* Processes of a client that are known stay known: a new process has a    *)
(* new port, the others keep theirs and the file they asked for.           *)
Onward ==
    \A c \in Clients :
        \/ client'[c].run = client[c].run /\ client'[c].name = client[c].name
        \/ client'[c].run = client[c].run + 1

LEMMA OriginStays ==
    ASSUME Inv, Onward, NEW c \in Clients, NEW run \in Nat, NEW n \in Names, Origin(c, run, n)
    PROVE  Origin(c, run, n)'
<1>1. client[c].run \in Nat
    BY DEF Inv, TypeOK, Process
<1>2. QED
    BY <1>1 DEF Onward, Origin

LEMMA AskedGrows ==
    ASSUME Inv, Onward
    PROVE  Asked \subseteq Asked'
<1> SUFFICES ASSUME NEW r \in Asked PROVE r \in Asked'
    OBVIOUS
<1>1. /\ r \in [from : Clients, run : Nat, name : Names]
      /\ Origin(r.from, r.run, r.name)
    BY DEF Asked
<1>2. r.from \in Clients /\ r.run \in Nat /\ r.name \in Names
    BY <1>1
<1>3. /\ r.run <= client'[r.from].run
      /\ r.run = client'[r.from].run => client'[r.from].name = r.name
    BY <1>1, <1>2, OriginStays DEF Origin
<1>4. QED
    BY <1>1, <1>3 DEF Asked, Origin

LEMMA RequestsStay ==
    ASSUME Inv, Onward, requests' \in Seq(Asked)
    PROVE  RequestsAsked'
<1>1. requests' \in Seq(Asked')
    BY AskedGrows, SeqMonotonic
<1>2. QED
    BY <1>1 DEF RequestsAsked

LEMMA TaskStays ==
    ASSUME Inv, Onward, task' = task, \A n \in Names : size[n] # None => size'[n] # None
    PROVE  TaskAsked'
<1> SUFFICES ASSUME task # None
             PROVE  /\ task.run <= client'[task.to].run
                    /\ task.run = client'[task.to].run => client'[task.to].name = task.name
                    /\ size'[task.name] # None
    BY DEF TaskAsked, Origin
<1>1. task.to \in Clients /\ task.run \in Nat /\ task.name \in Names
    BY DEF Inv, TypeOK, Task
<1>2. Origin(task.to, task.run, task.name) /\ size[task.name] # None
    BY DEF Inv, TaskAsked
<1>3. QED
    BY <1>1, <1>2, OriginStays DEF Origin

(* Steps that change neither a disk nor what a client is. *)
LEMMA FilesStay ==
    ASSUME Inv, UNCHANGED disk,
           \A c \in Clients : client'[c].at = client[c].at /\ client'[c].name = client[c].name
    PROVE  WritersHaveFiles' /\ FilesFit' /\ OneWriter'
BY DEF Inv, WritersHaveFiles, FilesFit, OneWriter

LEMMA UnreadTyped ==
    ASSUME Inv, NEW c \in Clients, client[c].at = "reading"
    PROVE  PduOf(client[c].name) \subseteq Pdu
<1>1. client[c].name \in Names
    BY DEF Inv, WritersHaveFiles
<1>2. QED
    BY <1>1, BytesAreTyped DEF PduOf, Pdu

(* New datagrams for the reading clients. *)
LEMMA UnreadChanges ==
    ASSUME Inv, NEW c \in Clients, NEW s \in Seq(PduOf(client[c].name)), client[c].at = "reading",
           unread' = [unread EXCEPT ![c] = s],
           \A e \in Clients : client'[e].at = client[e].at /\ client'[e].name = client[e].name
    PROVE  UnreadFits' /\ unread' \in [Clients -> Seq(Pdu)]
<1>1. s \in Seq(Pdu)
    BY UnreadTyped, SeqMonotonic
<1>2. unread \in [Clients -> Seq(Pdu)]
    BY DEF Inv, TypeOK
<1>3. unread' \in [Clients -> Seq(Pdu)]
    BY <1>1, <1>2
<1>4. unread'[c] = s /\ \A e \in Clients : e # c => unread'[e] = unread[e]
    BY <1>2
<1>5. ASSUME NEW e \in Clients
      PROVE  /\ unread'[e] \in Seq(PduOf(client'[e].name))
             /\ client'[e].at # "reading" => unread'[e] = <<>>
  <2>1. client'[e].at = client[e].at /\ client'[e].name = client[e].name
    OBVIOUS
  <2>2. unread[e] \in Seq(PduOf(client[e].name)) /\ (client[e].at # "reading" => unread[e] = <<>>)
    BY DEF Inv, UnreadFits
  <2>3. CASE e = c
    BY <1>4, <2>1, <2>3
  <2>4. CASE e # c
    BY <1>4, <2>1, <2>2, <2>4
  <2>5. QED
    BY <2>3, <2>4
<1>6. UnreadFits'
    BY <1>5 DEF UnreadFits, PduOf, BytesOf
<1>7. QED
    BY <1>3, <1>6

LEMMA UnreadStays ==
    ASSUME Inv, UNCHANGED unread,
           \A e \in Clients : client'[e].at = client[e].at /\ client'[e].name = client[e].name
    PROVE  UnreadFits'
BY DEF Inv, UnreadFits, PduOf, BytesOf

(* sendto: the datagram arrives, or the client has missed it, or nothing *)
(* happens.                                                              *)
LEMMA SendToFits ==
    ASSUME Inv, NEW c \in Clients, NEW run \in Nat, NEW n \in Names, NEW pdu \in PduOf(n),
           Origin(c, run, n), SendTo(c, run, pdu)
    PROVE  /\ UnreadFits' /\ unread' \in [Clients -> Seq(Pdu)]
           /\ client' \in [Clients -> Process]
           /\ \A e \in Clients : /\ client'[e].at = client[e].at /\ client'[e].name = client[e].name
                                 /\ client'[e].run = client[e].run
<1>1. CASE Reads(c, run) /\ Len(unread[c]) < MaxUnread /\ Put(c, pdu) /\ UNCHANGED client
  <2>1. client[c].at = "reading" /\ client[c].name = n
    BY <1>1 DEF Reads, Origin
  <2>2. unread[c] \in Seq(PduOf(n))
    BY <2>1 DEF Inv, UnreadFits
  <2>3. Append(unread[c], pdu) \in Seq(PduOf(n))
    BY <2>2, AppendProperties
  <2>4. unread' = [unread EXCEPT ![c] = Append(unread[c], pdu)]
    BY <1>1 DEF Put
  <2>5. QED
    BY <1>1, <2>1, <2>3, <2>4, UnreadChanges DEF Inv, TypeOK
<1>2. CASE client' = [client EXCEPT ![c].missed = TRUE] /\ UNCHANGED unread
  <2>1. /\ client' \in [Clients -> Process]
        /\ \A e \in Clients : /\ client'[e].at = client[e].at /\ client'[e].name = client[e].name
                              /\ client'[e].run = client[e].run
    BY <1>2 DEF Inv, TypeOK, Process
  <2>2. QED
    BY <1>2, <2>1, UnreadStays DEF Inv, TypeOK
<1>3. CASE UNCHANGED <<client, unread>>
    BY <1>3, UnreadStays DEF Inv, TypeOK
<1>4. QED
    BY <1>1, <1>2, <1>3 DEF SendTo
-----------------------------------------------------------------------------
LEMMA InitInv == Init => Inv
<1> SUFFICES ASSUME Init PROVE Inv
    OBVIOUS
<1>1. TypeOK
  <2>1. accidents \in Seq(Kinds) /\ Len(accidents) <= MaxAccidents
    BY EmptySeq, TransferAssumption DEF Init, TransferAssumption
  <2>2. /\ requests \in Seq([from : Clients, run : Nat, name : Names])
        /\ unread \in [Clients -> Seq(Pdu)]
    BY EmptySeq DEF Init
  <2>3. client \in [Clients -> Process]
    BY DEF Init, Process
  <2>4. disk \in [Folders -> [Names -> Seq(Names \X Nat) \cup {None}]]
    BY DEF Init
  <2>5. QED
    BY <2>1, <2>2, <2>3, <2>4, TransferAssumption DEF Init, TypeOK, TransferAssumption
<1>2. RequestsAsked /\ TaskAsked
    BY EmptySeq DEF Init, RequestsAsked, TaskAsked
<1>3. UnreadFits
    BY EmptySeq DEF Init, UnreadFits
<1>4. WritersHaveFiles /\ FilesFit /\ OneWriter
    BY DEF Init, WritersHaveFiles, FilesFit, OneWriter
<1>5. QED
    BY <1>1, <1>2, <1>3, <1>4 DEF Inv

LEMMA AskedTypes == Asked \subseteq [from : Clients, run : Nat, name : Names]
BY DEF Asked

LEMMA RequestTypes ==
    ASSUME requests' \in Seq(Asked)
    PROVE  requests' \in Seq([from : Clients, run : Nat, name : Names])
BY AskedTypes, SeqMonotonic

(* The server. *)
LEMMA ReceiveInv == ASSUME Inv, Receive PROVE Inv'
<1>1. PICK k \in DOMAIN requests :
        LET r == requests[k] IN
          /\ Arrives(requests, k)
          /\ requests' = RemoveAt(requests, k)
          /\ \/ /\ size[r.name] = None
                /\ SendTo(r.from, r.run, [type |-> "E", data |-> <<>>])
                /\ UNCHANGED task
             \/ /\ size[r.name] # None
                /\ task' = IF size[r.name] = 0 THEN None
                           ELSE [to |-> r.from, run |-> r.run, name |-> r.name,
                                 left |-> size[r.name], pos |-> 0]
                /\ client' = IF Reads(r.from, r.run)
                             THEN [client EXCEPT ![r.from].size = size[r.name]]
                             ELSE client
                /\ UNCHANGED unread
    BY DEF Receive
<1>2. UNCHANGED <<up, size, disk>> /\ task = None
    BY DEF Receive
<1> DEFINE r == requests[k]
<1>3. r \in Asked /\ requests' \in Seq(Asked)
    BY <1>1, Removed DEF Inv, RequestsAsked
<1>4. r.from \in Clients /\ r.run \in Nat /\ r.name \in Names /\ Origin(r.from, r.run, r.name)
    BY <1>3 DEF Asked
<1>5. accidents' \in Seq(Kinds) /\ Len(accidents') <= MaxAccidents
    BY <1>1, ArrivalTypes
<1>6. requests' \in Seq([from : Clients, run : Nat, name : Names])
    BY <1>3, RequestTypes
<1> HIDE DEF r
<1>7. CASE /\ size[r.name] = None
           /\ SendTo(r.from, r.run, [type |-> "E", data |-> <<>>])
           /\ UNCHANGED task
  <2>1. [type |-> "E", data |-> <<>>] \in PduOf(r.name)
    BY BytesAreTyped DEF PduOf
  <2>2. /\ UnreadFits' /\ unread' \in [Clients -> Seq(Pdu)]
        /\ client' \in [Clients -> Process]
        /\ \A e \in Clients : /\ client'[e].at = client[e].at /\ client'[e].name = client[e].name
                              /\ client'[e].run = client[e].run
    BY <1>4, <1>7, <2>1, SendToFits
  <2>3. Onward
    BY <2>2 DEF Onward
  <2>4. RequestsAsked' /\ TaskAsked'
    BY <1>2, <1>3, <1>7, <2>3, RequestsStay DEF TaskAsked
  <2>5. WritersHaveFiles' /\ FilesFit' /\ OneWriter'
    BY <1>2, <2>2, FilesStay
  <2>6. TypeOK'
    BY <1>2, <1>5, <1>6, <1>7, <2>2 DEF Inv, TypeOK
  <2>7. QED
    BY <2>2, <2>4, <2>5, <2>6 DEF Inv
<1>8. CASE /\ size[r.name] # None
           /\ task' = IF size[r.name] = 0 THEN None
                      ELSE [to |-> r.from, run |-> r.run, name |-> r.name,
                            left |-> size[r.name], pos |-> 0]
           /\ client' = IF Reads(r.from, r.run)
                        THEN [client EXCEPT ![r.from].size = size[r.name]]
                        ELSE client
           /\ UNCHANGED unread
  <2>1. size[r.name] \in Nat
    BY <1>4, <1>8 DEF Inv, TypeOK
  <2>2. client' \in [Clients -> Process]
    <3>1. client \in [Clients -> Process] /\ r.from \in Clients
      BY <1>4 DEF Inv, TypeOK
    <3>2. [client[r.from] EXCEPT !.size = size[r.name]] \in Process
      BY <2>1, <3>1 DEF Process
    <3>3. QED
      BY <1>8, <3>1, <3>2
  <2>3. \A c \in Clients : /\ client'[c].at = client[c].at /\ client'[c].name = client[c].name
                           /\ client'[c].run = client[c].run
    BY <1>4, <1>8 DEF Inv, TypeOK
  <2>4. Onward
    BY <2>3 DEF Onward
  <2>5. RequestsAsked'
    BY <1>3, <2>4, RequestsStay
  <2>6. task' \in Task \cup {None}
    BY <1>4, <1>8, <2>1 DEF Task
  <2>7. TaskAsked'
    <3>1. task' # None => task'.to = r.from /\ task'.run = r.run /\ task'.name = r.name
      BY <1>8
    <3>2. r.run <= client'[r.from].run /\ (r.run = client'[r.from].run => client'[r.from].name = r.name)
      BY <1>4, <2>3 DEF Origin
    <3>3. QED
      BY <1>2, <1>8, <3>1, <3>2 DEF TaskAsked, Origin
  <2>8. UnreadFits'
    BY <1>8, <2>3, UnreadStays
  <2>9. WritersHaveFiles' /\ FilesFit' /\ OneWriter'
    BY <1>2, <2>3, FilesStay
  <2>10. TypeOK'
    BY <1>2, <1>5, <1>6, <1>8, <2>2, <2>6 DEF Inv, TypeOK
  <2>11. QED
    BY <2>5, <2>7, <2>8, <2>9, <2>10 DEF Inv
<1>9. QED
    BY <1>1, <1>7, <1>8 DEF r

LEMMA PieceLength ==
    ASSUME Inv, task # None
    PROVE  ReadLength(task) \in Nat
<1>1. task.name \in Names /\ task.pos \in Nat /\ size[task.name] \in Nat /\ DataLen \in Nat
    BY TransferAssumption DEF TransferAssumption, Inv, TypeOK, Task, TaskAsked
<1> DEFINE rest == size[task.name] - task.pos
           most == Min({DataLen, rest})
<1>2. rest \in Int /\ DataLen \in Int
    BY <1>1
<1> HIDE DEF rest
<1>3. most \in Int
    BY <1>2, MinOfTwo
<1> HIDE DEF most
<1>4. 0 \in Int /\ Max({0, most}) = IF 0 >= most THEN 0 ELSE most
    BY <1>3, MaxOfTwo
<1>5. Max({0, most}) \in Nat
    BY <1>3, <1>4
<1>6. QED
    BY <1>5 DEF ReadLength, most, rest

LEMMA SendPieceInv == ASSUME Inv, SendPiece PROVE Inv'
<1> DEFINE n == ReadLength(task)
           pdu == [type |-> IF IsFinal(task) THEN "F" ELSE "D", data |-> Piece(task.name, task.pos, n)]
<1>1. /\ task # None /\ UNCHANGED <<up, size, requests, disk, accidents>>
      /\ SendTo(task.to, task.run, pdu)
      /\ task' = IF GoesOn(task)
                 THEN [to |-> task.to, run |-> task.run, name |-> task.name,
                       left |-> task.left - n, pos |-> task.pos + n]
                 ELSE None
    BY DEF SendPiece
<1>2. /\ task.to \in Clients /\ task.run \in Nat /\ task.name \in Names
      /\ task.left \in Nat /\ task.pos \in Nat
      /\ Origin(task.to, task.run, task.name) /\ size[task.name] # None
    BY <1>1 DEF Inv, TypeOK, Task, TaskAsked
<1>3. n \in Nat
    BY <1>1, PieceLength
<1>4. GoesOn(task) => task.left - n > 0
    BY DEF GoesOn
<1> HIDE DEF n
<1>5. pdu \in PduOf(task.name)
  <2>1. Piece(task.name, task.pos, n) \in BytesOf(task.name)
    BY <1>2, <1>3, PieceFits
  <2>2. QED
    BY <2>1 DEF PduOf
<1> HIDE DEF pdu
<1>6. /\ UnreadFits' /\ unread' \in [Clients -> Seq(Pdu)]
      /\ client' \in [Clients -> Process]
      /\ \A e \in Clients : /\ client'[e].at = client[e].at /\ client'[e].name = client[e].name
                            /\ client'[e].run = client[e].run
    BY <1>1, <1>2, <1>5, SendToFits
<1>7. task' \in Task \cup {None}
  <2>1. CASE GoesOn(task)
    <3>1. task.left - n \in Nat /\ task.pos + n \in Nat
      BY <1>2, <1>3, <1>4, <2>1
    <3>2. QED
      BY <1>1, <1>2, <2>1, <3>1 DEF Task
  <2>2. CASE ~ GoesOn(task)
    BY <1>1, <2>2
  <2>3. QED
    BY <2>1, <2>2
<1>8. Onward
    BY <1>6 DEF Onward
<1>9. RequestsAsked'
    BY <1>1, <1>8, RequestsStay DEF Inv, RequestsAsked
<1>10. TaskAsked'
  <2>1. task' # None => task'.to = task.to /\ task'.run = task.run /\ task'.name = task.name
    BY <1>1
  <2>2. QED
    BY <1>1, <1>2, <1>6, <2>1 DEF TaskAsked, Origin
<1>11. WritersHaveFiles' /\ FilesFit' /\ OneWriter'
    BY <1>1, <1>6, FilesStay
<1>12. TypeOK'
    BY <1>1, <1>6, <1>7 DEF Inv, TypeOK
<1>13. QED
    BY <1>6, <1>9, <1>10, <1>11, <1>12 DEF Inv
-----------------------------------------------------------------------------
(* Accidents. *)

(* Steps that touch no client and no disk. *)
LEMMA Elsewhere ==
    ASSUME Inv, UNCHANGED <<client, disk>>,
           up' \in BOOLEAN, size' \in [Names -> Nat \cup {None}],
           task' = task \/ task' = None,
           \A n \in Names : size[n] # None => size'[n] # None,
           requests' \in Seq(Asked), UnreadFits', unread' \in [Clients -> Seq(Pdu)],
           accidents' \in Seq(Kinds), Len(accidents') <= MaxAccidents
    PROVE  Inv'
<1>1. Onward
    BY DEF Onward
<1>2. RequestsAsked' /\ requests' \in Seq([from : Clients, run : Nat, name : Names])
    BY <1>1, RequestsStay, RequestTypes
<1>3. TaskAsked'
  <2>1. CASE task' = task
    BY <1>1, <2>1, TaskStays
  <2>2. CASE task' = None
    BY <2>2 DEF TaskAsked
  <2>3. QED
    BY <2>1, <2>2
<1>4. WritersHaveFiles' /\ FilesFit' /\ OneWriter'
    BY FilesStay
<1>5. TypeOK'
    BY <1>2 DEF Inv, TypeOK
<1>6. QED
    BY <1>2, <1>3, <1>4, <1>5 DEF Inv

LEMMA LoseInv == ASSUME Inv, Lose PROVE Inv'
<1>1. UNCHANGED <<up, size, task, client, disk>> /\ Accident("lose")
    BY DEF Lose
<1>2. accidents' \in Seq(Kinds) /\ Len(accidents') <= MaxAccidents
    BY <1>1, AccidentTypes DEF Kinds
<1>3. requests \in Seq(Asked) /\ UnreadFits /\ unread \in [Clients -> Seq(Pdu)]
    BY DEF Inv, RequestsAsked, TypeOK
<1>4. CASE /\ \E k \in DOMAIN requests : requests' = RemoveAt(requests, k)
           /\ UNCHANGED unread
  <2>1. requests' \in Seq(Asked)
    BY <1>3, <1>4, Removed
  <2>2. UnreadFits'
    BY <1>1, <1>4, UnreadStays
  <2>3. QED
    BY <1>1, <1>2, <1>3, <1>4, <2>1, <2>2, Elsewhere DEF Inv, TypeOK
<1>5. CASE /\ \E c \in Clients : \E k \in DOMAIN unread[c] :
                unread' = [unread EXCEPT ![c] = RemoveAt(@, k)]
           /\ UNCHANGED requests
  <2>0. PICK c \in Clients : \E k \in DOMAIN unread[c] :
          unread' = [unread EXCEPT ![c] = RemoveAt(unread[c], k)]
    BY <1>5
  <2>1. PICK k \in DOMAIN unread[c] : unread' = [unread EXCEPT ![c] = RemoveAt(unread[c], k)]
    BY <2>0
  <2>2. unread[c] \in Seq(PduOf(client[c].name)) /\ client[c].at = "reading"
    BY <1>3, <2>1, EmptySeq DEF UnreadFits
  <2>3. RemoveAt(unread[c], k) \in Seq(PduOf(client[c].name))
    BY <2>1, <2>2, Removed
  <2>4. UnreadFits' /\ unread' \in [Clients -> Seq(Pdu)]
    BY <1>1, <2>1, <2>2, <2>3, UnreadChanges
  <2>5. QED
    BY <1>1, <1>2, <1>3, <1>5, <2>4, Elsewhere DEF Inv, TypeOK
<1>6. QED
    BY <1>4, <1>5 DEF Lose

LEMMA DuplicateInv == ASSUME Inv, Duplicate PROVE Inv'
<1>1. UNCHANGED <<up, size, task, client, disk>> /\ Accident("duplicate")
    BY DEF Duplicate
<1>2. accidents' \in Seq(Kinds) /\ Len(accidents') <= MaxAccidents
    BY <1>1, AccidentTypes DEF Kinds
<1>3. requests \in Seq(Asked) /\ UnreadFits /\ unread \in [Clients -> Seq(Pdu)]
    BY DEF Inv, RequestsAsked, TypeOK
<1>4. CASE /\ \E k \in DOMAIN requests : requests' = Append(requests, requests[k])
           /\ UNCHANGED unread
  <2>1. PICK k \in DOMAIN requests : requests' = Append(requests, requests[k])
    BY <1>4
  <2>2. requests' \in Seq(Asked)
    BY <1>3, <2>1, Removed, AppendProperties
  <2>3. UnreadFits'
    BY <1>1, <1>4, UnreadStays
  <2>4. QED
    BY <1>1, <1>2, <1>3, <1>4, <2>2, <2>3, Elsewhere DEF Inv, TypeOK
<1>5. CASE /\ \E c \in Clients : \E k \in DOMAIN unread[c] :
                /\ Len(unread[c]) < MaxUnread
                /\ unread' = [unread EXCEPT ![c] = Append(@, @[k])]
           /\ UNCHANGED requests
  <2>0. PICK c \in Clients : \E k \in DOMAIN unread[c] :
          unread' = [unread EXCEPT ![c] = Append(unread[c], unread[c][k])]
    BY <1>5
  <2>1. PICK k \in DOMAIN unread[c] :
          unread' = [unread EXCEPT ![c] = Append(unread[c], unread[c][k])]
    BY <2>0
  <2>2. unread[c] \in Seq(PduOf(client[c].name)) /\ client[c].at = "reading"
    BY <1>3, <2>1, EmptySeq DEF UnreadFits
  <2>3. unread[c][k] \in PduOf(client[c].name)
    BY <2>1, <2>2, Removed
  <2>4. Append(unread[c], unread[c][k]) \in Seq(PduOf(client[c].name))
    BY <2>2, <2>3, AppendProperties
  <2>5. UnreadFits' /\ unread' \in [Clients -> Seq(Pdu)]
    BY <1>1, <2>1, <2>2, <2>4, UnreadChanges
  <2>6. QED
    BY <1>1, <1>2, <1>3, <1>5, <2>5, Elsewhere DEF Inv, TypeOK
<1>6. QED
    BY <1>4, <1>5 DEF Duplicate

LEMMA EditInv == ASSUME Inv, Edit PROVE Inv'
<1>1. UNCHANGED <<up, task, requests, client, unread, disk>> /\ Accident("edit")
    BY DEF Edit
<1>2. accidents' \in Seq(Kinds) /\ Len(accidents') <= MaxAccidents
    BY <1>1, AccidentTypes DEF Kinds
<1>3. PICK n \in Names, s \in Nat : size' = [size EXCEPT ![n] = s]
    BY DEF Edit
<1>4. /\ size' \in [Names -> Nat \cup {None}]
      /\ \A m \in Names : size[m] # None => size'[m] # None
    BY <1>3, TransferAssumption DEF TransferAssumption, Inv, TypeOK
<1>5. UnreadFits'
    BY <1>1, UnreadStays
<1>6. QED
    BY <1>1, <1>2, <1>4, <1>5, Elsewhere DEF Inv, TypeOK, RequestsAsked

LEMMA StopInv == ASSUME Inv, Stop PROVE Inv'
<1>1. UNCHANGED <<size, client, unread, disk>> /\ task' = None /\ up' \in BOOLEAN
    BY DEF Stop
<1>2. UnreadFits'
    BY <1>1, UnreadStays
<1>3. requests' \in Seq(Asked)
    BY EmptySeq DEF Stop, Inv, RequestsAsked
<1>4. accidents' \in Seq(Kinds) /\ Len(accidents') <= MaxAccidents
  <2>1. CASE Accident("stop")
    BY <2>1, AccidentTypes DEF Kinds
  <2>2. CASE UNCHANGED accidents
    BY <2>2 DEF Inv, TypeOK
  <2>3. QED
    BY <2>1, <2>2 DEF Stop
<1>5. QED
    BY <1>1, <1>2, <1>3, <1>4, Elsewhere DEF Inv, TypeOK
-----------------------------------------------------------------------------
(* The clients. *)
LEMMA ExitFits ==
    ASSUME Inv, NEW c \in Clients, NEW at \in {"received", "rejected", "failed"}, Exit(c, at)
    PROVE  /\ client' \in [Clients -> Process] /\ Onward
           /\ UnreadFits' /\ unread' \in [Clients -> Seq(Pdu)]
           /\ client'[c].at # "reading"
           /\ \A e \in Clients : /\ client'[e].name = client[e].name
                                 /\ e # c => client'[e].at = client[e].at
<1>1. /\ client' = [client EXCEPT ![c].at = at]
      /\ unread' = [unread EXCEPT ![c] = <<>>]
    BY DEF Exit
<1>2. client' \in [Clients -> Process]
    BY <1>1 DEF Inv, TypeOK, Process
<1>3. /\ client'[c].at = at /\ client'[c].name = client[c].name /\ client'[c].run = client[c].run
      /\ \A e \in Clients : e # c => client'[e] = client[e]
    BY <1>1 DEF Inv, TypeOK
<1>4. unread'[c] = <<>> /\ \A e \in Clients : e # c => unread'[e] = unread[e]
    BY <1>1 DEF Inv, TypeOK
<1>5. unread' \in [Clients -> Seq(Pdu)]
    BY <1>1, EmptySeq DEF Inv, TypeOK
<1>6. ASSUME NEW e \in Clients
      PROVE  /\ unread'[e] \in Seq(PduOf(client'[e].name))
             /\ client'[e].at # "reading" => unread'[e] = <<>>
  <2>1. CASE e = c
    BY <1>4, <2>1, EmptySeq
  <2>2. CASE e # c
    BY <1>3, <1>4, <2>2 DEF Inv, UnreadFits
  <2>3. QED
    BY <2>1, <2>2
<1>7. UnreadFits'
    BY <1>6 DEF UnreadFits, PduOf, BytesOf
<1>8. Onward
    BY <1>3 DEF Onward
<1>9. QED
    BY <1>2, <1>3, <1>5, <1>7, <1>8

(* A client that leaves its file as it is. *)
LEMMA LeaveInv ==
    ASSUME Inv, NEW c \in Clients, NEW at \in {"received", "rejected", "failed"}, Exit(c, at),
           UNCHANGED <<up, size, task, disk>>, requests' \in Seq(Asked),
           accidents' \in Seq(Kinds), Len(accidents') <= MaxAccidents
    PROVE  Inv'
<1>1. /\ client' \in [Clients -> Process] /\ Onward
      /\ UnreadFits' /\ unread' \in [Clients -> Seq(Pdu)]
      /\ client'[c].at # "reading"
      /\ \A e \in Clients : /\ client'[e].name = client[e].name
                            /\ e # c => client'[e].at = client[e].at
    BY ExitFits
<1>2. RequestsAsked' /\ requests' \in Seq([from : Clients, run : Nat, name : Names])
    BY <1>1, RequestsStay, RequestTypes
<1>3. TaskAsked'
    BY <1>1, TaskStays
<1>4. WritersHaveFiles' /\ FilesFit' /\ OneWriter'
  <2>1. \A e \in Clients : client'[e].at = "reading" =>
            client[e].at = "reading" /\ client'[e].name = client[e].name
    BY <1>1
  <2>2. FilesFit'
    BY DEF Inv, FilesFit
  <2>3. WritersHaveFiles'
    BY <2>1 DEF Inv, WritersHaveFiles
  <2>4. OneWriter'
    BY <2>1 DEF Inv, OneWriter
  <2>5. QED
    BY <2>2, <2>3, <2>4
<1>5. TypeOK'
    BY <1>1, <1>2 DEF Inv, TypeOK
<1>6. QED
    BY <1>1, <1>2, <1>3, <1>4, <1>5 DEF Inv

LEMMA InterruptInv == ASSUME Inv, NEW c \in Clients, Interrupt(c) PROVE Inv'
<1>1. accidents' \in Seq(Kinds) /\ Len(accidents') <= MaxAccidents
    BY AccidentTypes DEF Kinds, Interrupt
<1>2. QED
    BY <1>1, LeaveInv DEF Interrupt, Inv, RequestsAsked

LEMMA BounceInv == ASSUME Inv, Bounce PROVE Inv'
<1>1. /\ requests # <<>> /\ requests' = Tail(requests)
      /\ UNCHANGED <<up, size, task, disk, accidents>>
    BY DEF Bounce
<1>2. Head(requests) \in Asked /\ requests' \in Seq(Asked)
    BY <1>1, HeadTailProperties DEF Inv, RequestsAsked
<1>3. Head(requests).from \in Clients
    BY <1>2 DEF Asked
<1>4. CASE Exit(Head(requests).from, "failed")
    BY <1>1, <1>2, <1>3, <1>4, LeaveInv DEF Inv, TypeOK
<1>5. CASE UNCHANGED <<client, unread>>
  <2>1. UnreadFits'
    BY <1>5, UnreadStays
  <2>2. QED
    BY <1>1, <1>2, <1>5, <2>1, Elsewhere DEF Inv, TypeOK
<1>6. QED
    BY <1>4, <1>5 DEF Bounce

LEMMA StartInv == ASSUME Inv, NEW c \in Clients, Start(c) PROVE Inv'
<1>1. /\ client[c].at # "reading" /\ UNCHANGED <<up, size, task, unread, accidents>>
      /\ Folder[c] \in Folders
    BY DEF Start, Folders
<1> DEFINE run == client[c].run + 1
<1>2. PICK n \in Names :
         \/ /\ Creates(c, n)
            /\ disk' = [disk EXCEPT ![Folder[c]][n] = <<>>]
            /\ requests' = Append(requests, [from |-> c, run |-> run, name |-> n])
            /\ client' = [client EXCEPT ![c] = [at |-> "reading", name |-> n, run |-> run, size |-> 0, missed |-> FALSE]]
         \/ /\ ~ Creates(c, n)
            /\ client' = [client EXCEPT ![c] = [at |-> "exists", name |-> n, run |-> run, size |-> 0, missed |-> FALSE]]
            /\ UNCHANGED <<disk, requests>>
    BY DEF Start
<1>3. client[c].run \in Nat /\ run \in Nat
    BY DEF Inv, TypeOK, Process
<1> HIDE DEF run
<1>4. PICK place \in {"reading", "exists"} :
         /\ client' = [client EXCEPT ![c] = [at |-> place, name |-> n, run |-> run, size |-> 0, missed |-> FALSE]]
         /\ place = "reading" => /\ Creates(c, n)
                                 /\ disk' = [disk EXCEPT ![Folder[c]][n] = <<>>]
                                 /\ requests' = Append(requests, [from |-> c, run |-> run, name |-> n])
         /\ place = "exists" => UNCHANGED <<disk, requests>>
    BY <1>2
<1>5. /\ client' \in [Clients -> Process]
      /\ client'[c].at = place /\ client'[c].name = n /\ client'[c].run = run
      /\ \A e \in Clients : e # c => client'[e] = client[e]
    BY <1>3, <1>4 DEF Inv, TypeOK, Process
<1>6. Onward
    BY <1>5 DEF Onward, run
<1>7. RequestsAsked' /\ requests' \in Seq([from : Clients, run : Nat, name : Names])
  <2>1. requests \in Seq(Asked') /\ requests \in Seq([from : Clients, run : Nat, name : Names])
    BY <1>6, AskedGrows, SeqMonotonic DEF Inv, TypeOK, RequestsAsked
  <2>2. [from |-> c, run |-> run, name |-> n] \in [from : Clients, run : Nat, name : Names]
    BY <1>3
  <2>3. [from |-> c, run |-> run, name |-> n] \in Asked'
    BY <1>3, <1>5, <2>2 DEF Asked, Origin
  <2>4. CASE place = "reading"
    <3>1. requests' = Append(requests, [from |-> c, run |-> run, name |-> n])
      BY <1>4, <2>4
    <3>2. requests' \in Seq([from : Clients, run : Nat, name : Names])
      BY <2>1, <2>2, <3>1, AppendProperties
    <3>3. requests' \in Seq(Asked')
      BY <2>1, <2>3, <3>1, AppendProperties
    <3>4. QED
      BY <3>2, <3>3 DEF RequestsAsked
  <2>5. CASE place = "exists"
    BY <1>4, <2>1, <2>5 DEF RequestsAsked
  <2>6. QED
    BY <2>4, <2>5
<1>8. TaskAsked'
    BY <1>1, <1>6, TaskStays
<1>9. UnreadFits'
  <2>1. unread[c] = <<>>
    BY <1>1 DEF Inv, UnreadFits
  <2>2. ASSUME NEW e \in Clients
        PROVE  /\ unread'[e] \in Seq(PduOf(client'[e].name))
               /\ client'[e].at # "reading" => unread'[e] = <<>>
    <3>1. CASE e = c
      BY <1>1, <2>1, <3>1, EmptySeq
    <3>2. CASE e # c
      BY <1>1, <1>5, <3>2 DEF Inv, UnreadFits
    <3>3. QED
      BY <3>1, <3>2
  <2>3. QED
    BY <2>2 DEF UnreadFits, PduOf, BytesOf
<1>10. <<>> # None /\ <<>> \in Seq(Names \X Nat) /\ <<>> \in BytesOf(n)
    BY EmptySeq, BytesAreTyped, TransferAssumption DEF TransferAssumption
<1>11. /\ disk' \in [Folders -> [Names -> Seq(Names \X Nat) \cup {None}]]
       /\ \A d \in Folders, m \in Names : disk'[d][m] = disk[d][m] \/ (m = n /\ disk'[d][m] = <<>>)
       /\ place = "reading" => disk'[Folder[c]][n] = <<>> /\ disk[Folder[c]][n] = None
  <2>1. CASE place = "reading"
    <3>1. disk' = [disk EXCEPT ![Folder[c]][n] = <<>>] /\ disk[Folder[c]][n] = None
      BY <1>4, <2>1 DEF Creates
    <3>2. disk \in [Folders -> [Names -> Seq(Names \X Nat) \cup {None}]]
      BY DEF Inv, TypeOK
    <3>3. disk' \in [Folders -> [Names -> Seq(Names \X Nat) \cup {None}]]
      BY <1>1, <1>10, <3>1, <3>2
    <3>4. /\ disk'[Folder[c]][n] = <<>>
          /\ \A d \in Folders, m \in Names : disk'[d][m] = disk[d][m] \/ (m = n /\ disk'[d][m] = <<>>)
      BY <1>1, <3>1, <3>2
    <3>5. QED
      BY <3>1, <3>3, <3>4
  <2>2. CASE place = "exists"
    BY <1>4, <2>2 DEF Inv, TypeOK
  <2>3. QED
    BY <2>1, <2>2
<1>12. WritersHaveFiles'
  <2>1. \A e \in Clients : Folder[e] \in Folders
    BY DEF Folders
  <2>2. \A d \in Folders, m \in Names : disk[d][m] # None => disk'[d][m] # None
    BY <1>10, <1>11
  <2>3. ASSUME NEW e \in Clients, client'[e].at = "reading"
        PROVE  client'[e].name \in Names /\ disk'[Folder[e]][client'[e].name] # None
    <3>1. CASE e = c
      BY <1>5, <1>10, <1>11, <2>3, <3>1
    <3>2. CASE e # c
      <4>1. client'[e] = client[e]
        BY <1>5, <3>2
      <4>2. client[e].name \in Names /\ disk[Folder[e]][client[e].name] # None
        BY <2>3, <4>1 DEF Inv, WritersHaveFiles
      <4>3. QED
        BY <2>1, <2>2, <4>1, <4>2
    <3>3. QED
      BY <3>1, <3>2
  <2>4. QED
    BY <2>3 DEF WritersHaveFiles
<1>13. FilesFit'
  <2>1. ASSUME NEW d \in Folders, NEW m \in Names, disk'[d][m] # None
        PROVE  disk'[d][m] \in BytesOf(m)
    BY <1>10, <1>11, <2>1 DEF Inv, FilesFit
  <2>2. QED
    BY <2>1 DEF FilesFit, BytesOf
<1>14. OneWriter'
  <2>1. ASSUME NEW e \in Clients, e # c, client[e].at = "reading", Folder[e] = Folder[c],
               place = "reading"
        PROVE  client[e].name # n
    BY <1>11, <2>1 DEF Inv, WritersHaveFiles
  <2>2. QED
    BY <1>5, <2>1 DEF Inv, OneWriter
<1>15. TypeOK'
    BY <1>1, <1>5, <1>7, <1>11 DEF Inv, TypeOK
<1>16. QED
    BY <1>7, <1>8, <1>9, <1>12, <1>13, <1>14, <1>15 DEF Inv

LEMMA ReadInv == ASSUME Inv, NEW c \in Clients, Read(c) PROVE Inv'
<1> DEFINE d == Folder[c]
           n == client[c].name
<1>1. PICK k \in DOMAIN unread[c] :
        LET m == unread[c][k] IN
          /\ Arrives(unread[c], k)
          /\ disk' = [disk EXCEPT ![d][n] = IF m.type = "E" THEN None ELSE @ \o m.data]
          /\ \/ m.type = "F" /\ Exit(c, "received")
             \/ m.type = "E" /\ Exit(c, "rejected")
             \/ /\ m.type = "D"
                /\ unread' = [unread EXCEPT ![c] = RemoveAt(@, k)]
                /\ UNCHANGED client
    BY DEF Read
<1> DEFINE m == unread[c][k]
           file == IF m.type = "E" THEN None ELSE disk[d][n] \o m.data
<1>2. /\ client[c].at = "reading" /\ UNCHANGED <<up, size, task, requests>>
      /\ d \in Folders /\ n \in Names /\ disk[d][n] # None
    BY DEF Read, Folders, Inv, WritersHaveFiles
<1>3. /\ unread[c] \in Seq(PduOf(n))
      /\ m \in PduOf(n) /\ RemoveAt(unread[c], k) \in Seq(PduOf(n))
    BY <1>1, Removed DEF Inv, UnreadFits
<1>4. accidents' \in Seq(Kinds) /\ Len(accidents') <= MaxAccidents
    BY <1>1, ArrivalTypes
<1>5. disk[d][n] \in BytesOf(n) /\ m.data \in BytesOf(n)
    BY <1>2, <1>3 DEF Inv, FilesFit, PduOf
<1>6. disk[d][n] \o m.data \in BytesOf(n)
    BY <1>5, ConcatProperties DEF BytesOf
<1>7. disk' = [disk EXCEPT ![d][n] = file]
    BY <1>1
<1>8. file \in BytesOf(n) \cup {None} /\ (m.type # "E" => file # None)
  <2>1. disk[d][n] \o m.data # None
    BY <1>2, <1>6, BytesAreTyped, TransferAssumption DEF TransferAssumption
  <2>2. QED
    BY <1>6, <2>1
<1> HIDE DEF file
<1>9. /\ disk' \in [Folders -> [Names -> Seq(Names \X Nat) \cup {None}]]
      /\ disk'[d][n] = file
      /\ \A f \in Folders, x \in Names : disk'[f][x] = disk[f][x] \/ (f = d /\ x = n)
  <2>1. file \in Seq(Names \X Nat) \cup {None}
    BY <1>2, <1>8, BytesAreTyped
  <2>2. disk \in [Folders -> [Names -> Seq(Names \X Nat) \cup {None}]]
    BY DEF Inv, TypeOK
  <2>3. QED
    BY <1>2, <1>7, <2>1, <2>2
<1>10. FilesFit'
  <2>1. ASSUME NEW f \in Folders, NEW x \in Names, disk'[f][x] # None
        PROVE  disk'[f][x] \in BytesOf(x)
    BY <1>8, <1>9, <2>1 DEF Inv, FilesFit
  <2>2. QED
    BY <2>1 DEF FilesFit, BytesOf
<1>11. /\ client' \in [Clients -> Process] /\ Onward
       /\ UnreadFits' /\ unread' \in [Clients -> Seq(Pdu)]
       /\ m.type = "E" => client'[c].at # "reading"
       /\ \A e \in Clients : client'[e].name = client[e].name
       /\ \A e \in Clients : client'[e].at = "reading" => client[e].at = "reading"
  <2>1. CASE Exit(c, "received") \/ Exit(c, "rejected")
    <3>1. PICK at \in {"received", "rejected", "failed"} : Exit(c, at)
      BY <2>1
    <3>2. /\ client' \in [Clients -> Process] /\ Onward
          /\ UnreadFits' /\ unread' \in [Clients -> Seq(Pdu)]
          /\ client'[c].at # "reading"
          /\ \A e \in Clients : /\ client'[e].name = client[e].name
                                /\ e # c => client'[e].at = client[e].at
      BY <3>1, ExitFits
    <3>3. QED
      BY <3>2
  <2>2. CASE /\ m.type = "D"
             /\ unread' = [unread EXCEPT ![c] = RemoveAt(@, k)]
             /\ UNCHANGED client
    <3>1. UnreadFits' /\ unread' \in [Clients -> Seq(Pdu)]
      BY <1>2, <1>3, <2>2, UnreadChanges
    <3>2. QED
      BY <2>2, <3>1 DEF Onward, Inv, TypeOK
  <2>3. QED
    BY <1>1, <2>1, <2>2
<1>12. RequestsAsked'
    BY <1>2, <1>11, RequestsStay DEF Inv, RequestsAsked
<1>13. TaskAsked'
    BY <1>2, <1>11, TaskStays
<1>14. WritersHaveFiles'
  <2>1. ASSUME NEW e \in Clients, client'[e].at = "reading"
        PROVE  client'[e].name \in Names /\ disk'[Folder[e]][client'[e].name] # None
    <3>1. /\ client[e].at = "reading" /\ client'[e].name = client[e].name
          /\ client[e].name \in Names /\ Folder[e] \in Folders
          /\ disk[Folder[e]][client[e].name] # None
      BY <1>11, <2>1 DEF Inv, WritersHaveFiles, Folders
    <3>2. CASE Folder[e] = d /\ client[e].name = n
      <4>1. e = c
        BY <1>2, <3>1, <3>2 DEF Inv, OneWriter
      <4>2. m.type # "E"
        BY <1>11, <2>1, <4>1
      <4>3. QED
        BY <1>8, <1>9, <3>1, <3>2, <4>2
    <3>3. CASE ~ (Folder[e] = d /\ client[e].name = n)
      BY <1>9, <3>1, <3>3
    <3>4. QED
      BY <3>2, <3>3
  <2>2. QED
    BY <2>1 DEF WritersHaveFiles
<1>15. OneWriter'
    BY <1>11 DEF Inv, OneWriter
<1>16. TypeOK'
    BY <1>2, <1>4, <1>9, <1>11 DEF Inv, TypeOK
<1>17. QED
    BY <1>10, <1>11, <1>12, <1>13, <1>14, <1>15, <1>16 DEF Inv

-----------------------------------------------------------------------------
LEMMA StepInv == Inv /\ [Next]_vars => Inv'
<1>1. ASSUME Inv, Next PROVE Inv'
    BY <1>1, ReceiveInv, SendPieceInv, LoseInv, DuplicateInv, EditInv, StopInv, BounceInv,
       StartInv, ReadInv, InterruptInv DEF Next
<1>2. ASSUME Inv, UNCHANGED vars PROVE Inv'
  <2>1. UNCHANGED <<up, size, task, requests, client, unread, disk, accidents>>
    BY <1>2 DEF vars
  <2>2. UnreadFits'
    BY <1>2, <2>1, UnreadStays
  <2>3. QED
    BY <1>2, <2>1, <2>2, Elsewhere DEF Inv, TypeOK, RequestsAsked
<1>3. QED
    BY <1>1, <1>2

LEMMA Always == Spec => []Inv
BY InitInv, StepInv, PTL DEF Spec

(* The server's position in a file, the datagrams, the processes and the   *)
(* files keep their types, whatever goes wrong: bytesToRead and the offset *)
(* never become negative while the loop runs, even if the file changes.    *)
THEOREM TypeCorrect == Spec => []TypeOK
<1>1. Inv => TypeOK
    BY DEF Inv
<1>2. QED
    BY <1>1, Always, PTL

(* O_EXCL among the flags of open() keeps two clients of one directory     *)
(* from writing the same file, over any number of runs and accidents.      *)
THEOREM WritersAreAlone == Spec => []OneWriter
<1>1. Inv => OneWriter
    BY DEF Inv
<1>2. QED
    BY <1>1, Always, PTL

(* A copy only ever gets bytes of the file of its name: a datagram for an  *)
(* earlier process of the same user, or from a server that was restarted,  *)
(* does not get into the file of a later one.                              *)
THEOREM CopiesAreNotMixed == Spec => []OnlyItsBytes
<1>1. ASSUME Inv, NEW f \in Folders, NEW n \in Names, disk[f][n] # None,
             NEW k \in 1..Len(disk[f][n])
      PROVE  disk[f][n][k][1] = n
  <2>1. disk[f][n] \in Seq({n} \X Nat)
    BY <1>1 DEF Inv, FilesFit, BytesOf
  <2>2. disk[f][n][k] \in {n} \X Nat
    BY <2>1, ElementOfSeq
  <2>3. QED
    BY <2>2
<1>2. Inv => OnlyItsBytes
    BY <1>1 DEF OnlyItsBytes
<1>3. QED
    BY <1>2, Always, PTL
-----------------------------------------------------------------------------
(* Pieces and what they make up. *)
LEMMA Joined ==
    ASSUME NEW S, NEW s \in Seq(S), NEW t \in Seq(S)
    PROVE  /\ s \o t \in Seq(S) /\ Len(s \o t) = Len(s) + Len(t)
           /\ \A x \in 1..Len(s) : (s \o t)[x] = s[x]
           /\ \A x \in 1..Len(t) : (s \o t)[Len(s) + x] = t[x]
<1>1. PICK l \in Nat, m \in Nat : l = Len(s) /\ m = Len(t)
    BY LenProperties
<1>2. /\ s \o t \in Seq(S) /\ Len(s \o t) = l + m
      /\ \A x \in 1..l + m : (s \o t)[x] = IF x <= l THEN s[x] ELSE t[x - l]
    BY <1>1, ConcatProperties
<1>3. \A x \in 1..l : x \in 1..l + m /\ x <= l
    OBVIOUS
<1>4. \A x \in 1..m : l + x \in 1..l + m /\ ~ l + x <= l /\ (l + x) - l = x
    OBVIOUS
<1>5. QED
    BY <1>1, <1>2, <1>3, <1>4

LEMMA RemovedAt ==
    ASSUME NEW S, NEW s \in Seq(S), NEW k \in 1..Len(s)
    PROVE  /\ RemoveAt(s, k) \in Seq(S) /\ Len(RemoveAt(s, k)) = Len(s) - 1
           /\ \A x \in 1..Len(s) - 1 : RemoveAt(s, k)[x] = IF x < k THEN s[x] ELSE s[x + 1]
<1>1. PICK l \in Nat : l = Len(s) /\ \A x \in 1..l : s[x] \in S
    BY LenProperties, ElementOfSeq
<1>2. k \in Nat /\ 1 <= k /\ k <= l
    BY <1>1
<1> DEFINE before == SubSeq(s, 1, k - 1)
           after  == SubSeq(s, k + 1, l)
<1>3. /\ before \in Seq(S) /\ Len(before) = k - 1
      /\ \A x \in 1..k - 1 : before[x] = s[x]
  <2>1. k - 1 \in Int /\ \A x \in 1..k - 1 : s[x] \in S
    BY <1>1, <1>2
  <2>2. /\ before \in Seq(S) /\ Len(before) = IF 1 <= k - 1 THEN (k - 1) - 1 + 1 ELSE 0
        /\ \A x \in 1..(k - 1) - 1 + 1 : before[x] = s[1 + x - 1]
    BY <2>1, SubSeqProperties
  <2>3. (IF 1 <= k - 1 THEN (k - 1) - 1 + 1 ELSE 0) = k - 1 /\ (k - 1) - 1 + 1 = k - 1
    BY <1>2
  <2>4. \A x \in 1..k - 1 : 1 + x - 1 = x
    OBVIOUS
  <2>5. QED
    BY <2>2, <2>3, <2>4
<1>4. /\ after \in Seq(S) /\ Len(after) = l - k
      /\ \A x \in 1..l - k : after[x] = s[k + x]
  <2>1. k + 1 \in Int /\ \A x \in k + 1..l : s[x] \in S
    BY <1>1, <1>2
  <2>2. /\ after \in Seq(S) /\ Len(after) = IF k + 1 <= l THEN l - (k + 1) + 1 ELSE 0
        /\ \A x \in 1..l - (k + 1) + 1 : after[x] = s[(k + 1) + x - 1]
    BY <2>1, SubSeqProperties
  <2>3. (IF k + 1 <= l THEN l - (k + 1) + 1 ELSE 0) = l - k /\ l - (k + 1) + 1 = l - k
    BY <1>2
  <2>4. \A x \in 1..l - k : (k + 1) + x - 1 = k + x
    BY <1>2
  <2>5. QED
    BY <2>2, <2>3, <2>4
<1>5. RemoveAt(s, k) = before \o after
    BY <1>1 DEF RemoveAt
<1> HIDE DEF before, after
<1>6. PICK t \in Seq(S) :
        /\ t = RemoveAt(s, k) /\ Len(t) = (k - 1) + (l - k)
        /\ \A x \in 1..k - 1 : t[x] = before[x]
        /\ \A x \in 1..l - k : t[(k - 1) + x] = after[x]
  <2>1. PICK b \in Seq(S), f \in Seq(S) : b = before /\ f = after
    BY <1>3, <1>4
  <2>2. /\ b \o f \in Seq(S) /\ Len(b \o f) = Len(b) + Len(f)
        /\ \A x \in 1..Len(b) : (b \o f)[x] = b[x]
        /\ \A x \in 1..Len(f) : (b \o f)[Len(b) + x] = f[x]
    BY Joined
  <2>3. Len(b) = k - 1 /\ Len(f) = l - k
    BY <1>3, <1>4, <2>1
  <2>4. /\ Len(b \o f) = (k - 1) + (l - k)
        /\ \A x \in 1..k - 1 : (b \o f)[x] = before[x]
        /\ \A x \in 1..l - k : (b \o f)[(k - 1) + x] = after[x]
    BY <2>1, <2>2, <2>3
  <2>5. QED
    BY <1>5, <2>1, <2>2, <2>4
<1>7. (k - 1) + (l - k) = l - 1
    BY <1>1, <1>2
<1>8. ASSUME NEW x \in 1..l - 1 PROVE t[x] = IF x < k THEN s[x] ELSE s[x + 1]
  <2>1. CASE x < k
    <3>1. x \in 1..k - 1
      BY <1>2, <2>1
    <3>2. QED
      BY <1>3, <1>6, <2>1, <3>1
  <2>2. CASE ~ x < k
    <3>1. PICK y \in 1..l - k : x = (k - 1) + y /\ k + y = x + 1
      <4>1. x - (k - 1) \in 1..l - k /\ x = (k - 1) + (x - (k - 1)) /\ k + (x - (k - 1)) = x + 1
        BY <1>1, <1>2, <2>2
      <4>2. QED
        BY <4>1
    <3>2. t[(k - 1) + y] = after[y] /\ after[y] = s[k + y]
      BY <1>4, <1>6
    <3>3. QED
      BY <2>2, <3>1, <3>2
  <2>3. QED
    BY <2>1, <2>2
<1>9. QED
    BY <1>1, <1>6, <1>7, <1>8

LEMMA PieceIs ==
    ASSUME NEW n \in Names, NEW from \in Nat, NEW len \in Nat
    PROVE  /\ Piece(n, from, len) \in Seq(Names \X Nat) /\ Len(Piece(n, from, len)) = len
           /\ \A x \in 1..len : /\ Piece(n, from, len)[x] = <<n, from + x>>
                                /\ Piece(n, from, len)[x][2] = from + x
<1>1. Piece(n, from, len) = [x \in 1..len |-> <<n, from + x>>]
    BY DEF Piece
<1>2. \A x \in 1..len : <<n, from + x>> \in Names \X Nat /\ <<n, from + x>>[2] = from + x
    OBVIOUS
<1>3. QED
    BY <1>1, <1>2

(* The next piece of a file, written after all that is before it.          *)
LEMMA PieceJoins ==
    ASSUME NEW n \in Names, NEW a \in Nat, NEW len \in Nat, NEW copy \in Seq(Names \X Nat),
           Increasing(copy), \A k \in 1..Len(copy) : copy[k][2] <= a
    PROVE  LET new == copy \o Piece(n, a, len) IN
           /\ new \in Seq(Names \X Nat) /\ Increasing(new)
           /\ \A k \in 1..Len(new) : new[k][2] <= a + len
           /\ copy = Piece(n, 0, a) => new = Piece(n, 0, a + len)
<1>1. PICK p \in Seq(Names \X Nat) :
        p = Piece(n, a, len) /\ Len(p) = len
        /\ \A x \in 1..len : p[x] = <<n, a + x>> /\ p[x][2] = a + x
    BY PieceIs
<1>2. PICK l \in Nat : l = Len(copy) /\ \A k \in 1..l : copy[k] \in Names \X Nat
    BY LenProperties, ElementOfSeq
<1>3. PICK new \in Seq(Names \X Nat) :
        /\ new = copy \o p /\ Len(new) = l + len
        /\ \A x \in 1..l : new[x] = copy[x]
        /\ \A x \in 1..len : new[l + x] = p[x]
  <2>1. /\ copy \o p \in Seq(Names \X Nat) /\ Len(copy \o p) = Len(copy) + Len(p)
        /\ \A x \in 1..Len(copy) : (copy \o p)[x] = copy[x]
        /\ \A x \in 1..Len(p) : (copy \o p)[Len(copy) + x] = p[x]
    BY Joined
  <2>2. QED
    BY <1>1, <1>2, <2>1
<1>4. \A k \in 1..l + len : k \in 1..l \/ \E x \in 1..len : k = l + x
  <2>1. ASSUME NEW k \in 1..l + len, k \notin 1..l PROVE \E x \in 1..len : k = l + x
    <3>1. k - l \in 1..len /\ k = l + (k - l)
      BY <2>1
    <3>2. QED
      BY <3>1
  <2>2. QED
    BY <2>1
<1>5. \A k \in 1..l : new[k][2] \in Nat /\ new[k][2] <= a
    BY <1>2, <1>3
<1>6. \A x \in 1..len : new[l + x][2] = a + x
    BY <1>1, <1>3
<1>7. \A k \in 1..l + len : new[k][2] <= a + len
  <2>1. ASSUME NEW k \in 1..l PROVE new[k][2] <= a + len
    BY <1>5
  <2>2. ASSUME NEW x \in 1..len PROVE new[l + x][2] <= a + len
    <3>1. a + x <= a + len
      OBVIOUS
    <3>2. QED
      BY <1>6, <3>1
  <2>3. QED
    BY <1>4, <2>1, <2>2
<1>8. ASSUME NEW k \in 1..(l + len) - 1 PROVE new[k][2] < new[k + 1][2]
  <2>1. CASE k < l
    <3>1. k \in 1..l - 1 /\ k \in 1..l /\ k + 1 \in 1..l
      BY <2>1
    <3>2. copy[k][2] < copy[k + 1][2]
      BY <1>2, <3>1 DEF Increasing
    <3>3. QED
      BY <1>3, <3>1, <3>2
  <2>2. CASE k = l
    <3>1. k \in 1..l /\ 1 \in 1..len /\ k + 1 = l + 1
      BY <2>2
    <3>2. new[k][2] <= a /\ new[k][2] \in Nat /\ new[k + 1][2] = a + 1
      BY <1>5, <1>6, <3>1
    <3>3. QED
      BY <3>2
  <2>3. CASE k > l
    <3>1. PICK x \in 1..len : k = l + x /\ x + 1 \in 1..len /\ k + 1 = l + (x + 1)
      <4>1. k - l \in 1..len /\ k = l + (k - l) /\ (k - l) + 1 \in 1..len /\ k + 1 = l + ((k - l) + 1)
        BY <2>3
      <4>2. QED
        BY <4>1
    <3>2. new[k][2] = a + x /\ new[k + 1][2] = a + (x + 1)
      BY <1>6, <3>1
    <3>3. QED
      BY <3>2
  <2>4. QED
    BY <2>1, <2>2, <2>3
<1>9. ASSUME copy = Piece(n, 0, a) PROVE new = Piece(n, 0, a + len)
  <2>0. 0 \in Nat /\ a + len \in Nat
    OBVIOUS
  <2>1. /\ Len(copy) = a /\ \A x \in 1..a : copy[x] = <<n, 0 + x>>
        /\ Piece(n, 0, a + len) \in Seq(Names \X Nat) /\ Len(Piece(n, 0, a + len)) = a + len
        /\ \A x \in 1..a + len : Piece(n, 0, a + len)[x] = <<n, 0 + x>>
    <3>1. Len(copy) = a /\ \A x \in 1..a : copy[x] = <<n, 0 + x>>
      BY <1>9, <2>0, PieceIs
    <3>2. /\ Piece(n, 0, a + len) \in Seq(Names \X Nat) /\ Len(Piece(n, 0, a + len)) = a + len
          /\ \A x \in 1..a + len : Piece(n, 0, a + len)[x] = <<n, 0 + x>>
      BY <2>0, PieceIs
    <3>3. QED
      BY <3>1, <3>2
  <2>2. l = a
    BY <1>2, <2>1
  <2>3. ASSUME NEW k \in 1..a PROVE new[k] = <<n, k>>
    <3>1. 0 + k = k
      OBVIOUS
    <3>2. QED
      BY <1>3, <2>1, <2>2, <3>1
  <2>4. ASSUME NEW x \in 1..len PROVE new[a + x] = <<n, a + x>>
    BY <1>1, <1>3, <2>2
  <2>5. ASSUME NEW k \in 1..a + len PROVE new[k] = <<n, k>>
    BY <1>4, <2>2, <2>3, <2>4
  <2>6. ASSUME NEW k \in 1..a + len PROVE new[k] = Piece(n, 0, a + len)[k]
    <3>1. 0 + k = k
      OBVIOUS
    <3>2. QED
      BY <2>1, <2>5, <3>1
  <2>7. QED
    BY <1>3, <2>1, <2>2, <2>6, SeqEqual
<1>10. QED
    BY <1>1, <1>3, <1>7, <1>8, <1>9 DEF Increasing

-----------------------------------------------------------------------------
(* A copy and what is on the way to it: piece k of s begins after byte     *)
(* off[k] of file n, and pieces may be missing.                            *)
Fits(copy, s, n, off) ==
    /\ off \in [1..Len(s) + 1 -> Nat]
    /\ \A k \in 1..Len(s) :
          /\ s[k].data = Piece(n, off[k], Len(s[k].data))
          /\ off[k] + Len(s[k].data) <= off[k + 1]
    /\ Increasing(copy)
    /\ \A k \in 1..Len(copy) : copy[k][2] <= off[1]

Starts(off, k, pos) == off[k] = pos

(* None is missing.                                                        *)
Exact(copy, s, n, off) ==
    /\ copy = Piece(n, 0, off[1])
    /\ \A k \in 1..Len(s) : off[k] + Len(s[k].data) = off[k + 1]

(* The server has not opened the file; sends it; has sent what it will     *)
(* send, and only the last piece of the file is an 'F'.                    *)
Waits(s, off) == s = <<>> /\ off[1] = 0
Served(s, off, t, bytes) ==
    /\ \A k \in 1..Len(s) : s[k].type # "F"
    /\ off[Len(s) + 1] <= t.pos /\ t.left + t.pos = bytes
Sent(s, off, bytes) ==
    \A k \in 1..Len(s) : s[k].type = "F" =>
        k = Len(s) /\ s[k].data # <<>> /\ off[k] + Len(s[k].data) = bytes

LEMMA FitsAtFirst ==
    ASSUME NEW n \in Names
    PROVE  \E off \in [1..Len(<<>>) + 1 -> Nat] :
              Fits(<<>>, <<>>, n, off) /\ Exact(<<>>, <<>>, n, off) /\ Waits(<<>>, off)
<1> DEFINE off == [k \in 1..1 |-> 0]
<1>1. Len(<<>>) = 0 /\ off \in [1..Len(<<>>) + 1 -> Nat] /\ off[1] = 0
    OBVIOUS
<1>2. Piece(n, 0, 0) = <<>>
  <2>1. Piece(n, 0, 0) \in Seq(Names \X Nat) /\ Len(Piece(n, 0, 0)) = 0
    BY PieceIs
  <2>2. QED
    BY <2>1, EmptySeq
<1> HIDE DEF off
<1>3. Fits(<<>>, <<>>, n, off) /\ Exact(<<>>, <<>>, n, off) /\ Waits(<<>>, off)
    BY <1>1, <1>2 DEF Fits, Exact, Waits, Increasing
<1>4. QED
    BY <1>1, <1>3

LEMMA FitsAppend ==
    ASSUME NEW n \in Names, NEW copy \in Seq(Names \X Nat), NEW s \in Seq(Pdu), NEW off,
           Fits(copy, s, n, off),
           NEW pos \in Nat, NEW len \in Nat, NEW pdu \in Pdu, pdu.data = Piece(n, pos, len),
           off[Len(s) + 1] <= pos
    PROVE  \E off2 \in [1..Len(Append(s, pdu)) + 1 -> Nat] :
              /\ Fits(copy, Append(s, pdu), n, off2)
              /\ Exact(copy, s, n, off) /\ off[Len(s) + 1] = pos =>
                    Exact(copy, Append(s, pdu), n, off2)
              /\ Starts(off2, Len(s) + 1, pos) /\ Starts(off2, Len(s) + 2, pos + len)
<1>1. PICK l \in Nat : l = Len(s)
    BY LenProperties
<1>2. PICK t \in Seq(Pdu) :
        t = Append(s, pdu) /\ Len(t) = l + 1 /\ t[l + 1] = pdu /\ \A k \in 1..l : t[k] = s[k]
  <2>1. /\ Append(s, pdu) \in Seq(Pdu) /\ Len(Append(s, pdu)) = Len(s) + 1
        /\ Append(s, pdu)[Len(s) + 1] = pdu
        /\ \A k \in 1..Len(s) : Append(s, pdu)[k] = s[k]
    BY AppendProperties
  <2>2. QED
    BY <1>1, <2>1
<1>3. /\ off \in [1..l + 1 -> Nat]
      /\ \A k \in 1..l : /\ s[k].data = Piece(n, off[k], Len(s[k].data))
                         /\ off[k] + Len(s[k].data) <= off[k + 1]
      /\ Increasing(copy) /\ \A k \in 1..Len(copy) : copy[k][2] <= off[1]
    BY <1>1 DEF Fits
<1> DEFINE off2 == [k \in 1..l + 2 |-> IF k <= l THEN off[k] ELSE IF k = l + 1 THEN pos ELSE pos + len]
<1>4. /\ off2 \in [1..(l + 1) + 1 -> Nat]
      /\ \A k \in 1..l : off2[k] = off[k]
      /\ off2[l + 1] = pos /\ off2[l + 2] = pos + len
  <2>1. \A k \in 1..l + 2 : (IF k <= l THEN off[k] ELSE IF k = l + 1 THEN pos ELSE pos + len) \in Nat
    BY <1>3
  <2>2. (l + 1) + 1 = l + 2 /\ ~ l + 1 <= l /\ ~ l + 2 <= l /\ l + 2 # l + 1
    OBVIOUS
  <2>3. l + 1 \in 1..l + 2 /\ l + 2 \in 1..l + 2 /\ \A k \in 1..l : k \in 1..l + 2 /\ k <= l
    OBVIOUS
  <2>4. QED
    BY <2>1, <2>2, <2>3
<1> HIDE DEF off2
<1>5. off[l + 1] <= pos /\ Len(pdu.data) = len
  <2>1. Len(Piece(n, pos, len)) = len
    BY PieceIs
  <2>2. QED
    BY <1>1, <2>1
<1>6. ASSUME NEW k \in 1..l + 1
      PROVE  /\ t[k].data = Piece(n, off2[k], Len(t[k].data))
             /\ off2[k] + Len(t[k].data) <= off2[k + 1]
  <2>1. CASE k = l + 1
    <3>1. t[k] = pdu /\ off2[k] = pos /\ off2[k + 1] = pos + len
      <4>1. (l + 1) + 1 = l + 2
        OBVIOUS
      <4>2. QED
        BY <1>2, <1>4, <2>1, <4>1
    <3>2. QED
      BY <1>5, <3>1
  <2>2. CASE k # l + 1
    <3>1. k \in 1..l /\ (k + 1 \in 1..l \/ k + 1 = l + 1)
      BY <2>2
    <3>2. k + 1 \in 1..l + 1 /\ off[k + 1] \in Nat /\ off[k] \in Nat
      BY <1>3, <3>1
    <3>3. off[k + 1] <= off2[k + 1] /\ off2[k + 1] \in Nat
      BY <1>3, <1>4, <1>5, <3>1, <3>2
    <3>4. t[k] = s[k] /\ off2[k] = off[k] /\ s[k].data = Piece(n, off[k], Len(s[k].data))
          /\ off[k] + Len(s[k].data) <= off[k + 1]
      BY <1>2, <1>3, <1>4, <3>1
    <3>5. Len(s[k].data) \in Nat
      <4>1. s[k] \in Pdu
        BY <1>1, <3>1, ElementOfSeq
      <4>2. QED
        BY <4>1, LenProperties DEF Pdu
    <3>6. off[k] + Len(s[k].data) <= off2[k + 1]
      BY <3>2, <3>3, <3>4, <3>5
    <3>7. QED
      BY <3>4, <3>6
  <2>3. QED
    BY <2>1, <2>2
<1>7. off[1] <= off2[1] /\ off[1] \in Nat /\ off2[1] \in Nat /\ (off[l + 1] = pos => off2[1] = off[1])
  <2>1. CASE l = 0
    BY <1>3, <1>4, <1>5, <2>1
  <2>2. CASE l # 0
    BY <1>3, <1>4, <2>2
  <2>3. QED
    BY <2>1, <2>2
<1>8. \A k \in 1..Len(copy) : copy[k][2] <= off2[1]
  <2>1. ASSUME NEW k \in 1..Len(copy) PROVE copy[k][2] <= off2[1]
    <3>1. copy[k] \in Names \X Nat
      BY ElementOfSeq
    <3>2. copy[k][2] \in Nat /\ copy[k][2] <= off[1]
      BY <1>3, <3>1
    <3>3. QED
      BY <1>7, <3>2
  <2>2. QED
    BY <2>1
<1>9. Fits(copy, t, n, off2)
    BY <1>2, <1>3, <1>4, <1>6, <1>8 DEF Fits
<1>10. ASSUME Exact(copy, s, n, off), off[l + 1] = pos PROVE Exact(copy, t, n, off2)
  <2>1. copy = Piece(n, 0, off2[1])
    BY <1>7, <1>10 DEF Exact
  <2>2. ASSUME NEW k \in 1..l + 1 PROVE off2[k] + Len(t[k].data) = off2[k + 1]
    <3>1. CASE k = l + 1
      <4>1. (l + 1) + 1 = l + 2
        OBVIOUS
      <4>2. QED
        BY <1>2, <1>4, <1>5, <3>1, <4>1
    <3>2. CASE k # l + 1
      <4>1. k \in 1..l /\ (k + 1 \in 1..l \/ k + 1 = l + 1)
        BY <3>2
      <4>2. off2[k + 1] = off[k + 1] /\ off2[k] = off[k] /\ t[k] = s[k]
        BY <1>2, <1>4, <1>10, <4>1
      <4>3. off[k] + Len(s[k].data) = off[k + 1]
        BY <1>1, <1>10, <4>1 DEF Exact
      <4>4. QED
        BY <4>2, <4>3
    <3>3. QED
      BY <3>1, <3>2
  <2>3. QED
    BY <1>2, <2>1, <2>2 DEF Exact
<1>11. Starts(off2, l + 1, pos) /\ Starts(off2, l + 2, pos + len)
    BY <1>4 DEF Starts
<1>12. QED
    BY <1>1, <1>2, <1>4, <1>9, <1>10, <1>11

(* What is left when piece k is lost, or when the first one is written.    *)
LEMMA FitsRest ==
    ASSUME NEW n \in Names, NEW copy \in Seq(Names \X Nat), NEW s \in Seq(Pdu), NEW off,
           Fits(copy, s, n, off), NEW k \in 1..Len(s)
    PROVE  \E off2 \in [1..Len(RemoveAt(s, k)) + 1 -> Nat] :
              /\ Fits(copy, RemoveAt(s, k), n, off2)
              /\ off2[Len(RemoveAt(s, k)) + 1] = off[Len(s) + 1]
              /\ \A t, bytes : Served(s, off, t, bytes) => Served(RemoveAt(s, k), off2, t, bytes)
              /\ \A bytes : Sent(s, off, bytes) => Sent(RemoveAt(s, k), off2, bytes)
              /\ k = 1 => /\ Fits(copy \o s[1].data, RemoveAt(s, k), n, off2)
                          /\ Exact(copy, s, n, off) =>
                                Exact(copy \o s[1].data, RemoveAt(s, k), n, off2)
<1>1. PICK l \in Nat \ {0} : l = Len(s) /\ k \in 1..l /\ k <= l /\ 1 <= k /\ k \in Nat
  <2>1. Len(s) \in Nat
    BY LenProperties
  <2>2. Len(s) # 0
    BY <2>1
  <2>3. QED
    BY <2>1, <2>2
<1>2. PICK u \in Seq(Pdu) :
        /\ u = RemoveAt(s, k) /\ Len(u) = l - 1
        /\ \A x \in 1..l - 1 : u[x] = IF x < k THEN s[x] ELSE s[x + 1]
  <2>1. /\ RemoveAt(s, k) \in Seq(Pdu) /\ Len(RemoveAt(s, k)) = Len(s) - 1
        /\ \A x \in 1..Len(s) - 1 : RemoveAt(s, k)[x] = IF x < k THEN s[x] ELSE s[x + 1]
    BY RemovedAt
  <2>2. QED
    BY <1>1, <2>1
<1>3. /\ off \in [1..l + 1 -> Nat]
      /\ \A x \in 1..l : /\ s[x].data = Piece(n, off[x], Len(s[x].data))
                         /\ off[x] + Len(s[x].data) <= off[x + 1]
      /\ Increasing(copy) /\ \A x \in 1..Len(copy) : copy[x][2] <= off[1]
    BY <1>1 DEF Fits
<1>4. \A x \in 1..l : Len(s[x].data) \in Nat /\ s[x].data \in Seq(Names \X Nat)
  <2>1. ASSUME NEW x \in 1..l PROVE Len(s[x].data) \in Nat /\ s[x].data \in Seq(Names \X Nat)
    <3>1. s[x] \in Pdu
      BY <1>1, ElementOfSeq
    <3>2. s[x].data \in Seq(Names \X Nat)
      BY <3>1 DEF Pdu
    <3>3. QED
      BY <3>2, LenProperties
  <2>2. QED
    BY <2>1
<1>5. \A x \in 1..l : off[x] \in Nat /\ off[x + 1] \in Nat /\ off[x] <= off[x + 1]
  <2>1. ASSUME NEW x \in 1..l PROVE off[x] \in Nat /\ off[x + 1] \in Nat /\ off[x] <= off[x + 1]
    <3>1. x \in 1..l + 1 /\ x + 1 \in 1..l + 1
      OBVIOUS
    <3>2. off[x] \in Nat /\ off[x + 1] \in Nat /\ Len(s[x].data) \in Nat
      BY <1>3, <1>4, <3>1
    <3>3. off[x] + Len(s[x].data) <= off[x + 1]
      BY <1>3
    <3>4. QED
      BY <3>2, <3>3
  <2>2. QED
    BY <2>1
<1> DEFINE off2 == [x \in 1..l |-> IF x < k THEN off[x] ELSE off[x + 1]]
<1>6. /\ off2 \in [1..(l - 1) + 1 -> Nat]
      /\ \A x \in 1..l : off2[x] = IF x < k THEN off[x] ELSE off[x + 1]
  <2>1. (l - 1) + 1 = l
    OBVIOUS
  <2>2. QED
    BY <1>5, <2>1
<1>7. off2[l] = off[l + 1]
    BY <1>1, <1>6
<1> HIDE DEF off2
<1>8. \A x \in 1..l - 1 : \/ x < k /\ x \in 1..l /\ u[x] = s[x] /\ off2[x] = off[x]
                          \/ /\ ~ x < k /\ x + 1 \in 1..l /\ u[x] = s[x + 1]
                             /\ off2[x] = off[x + 1] /\ off2[x + 1] = off[(x + 1) + 1]
  <2>1. ASSUME NEW x \in 1..l - 1
        PROVE  x \in 1..l /\ x + 1 \in 1..l /\ (~ x < k => ~ x + 1 < k)
    BY <1>1
  <2>2. QED
    BY <1>2, <1>6, <2>1
<1>9. ASSUME NEW x \in 1..l - 1
      PROVE  /\ u[x].data = Piece(n, off2[x], Len(u[x].data))
             /\ off2[x] + Len(u[x].data) <= off2[x + 1]
             /\ ~ x < k => s[x + 1].data = u[x].data /\ off2[x] = off[x + 1]
                            /\ off2[x + 1] = off[(x + 1) + 1]
  <2>1. CASE x < k /\ x \in 1..l /\ u[x] = s[x] /\ off2[x] = off[x]
    <3>1. s[x].data = Piece(n, off[x], Len(s[x].data)) /\ off[x] + Len(s[x].data) <= off[x + 1]
      BY <1>3, <2>1
    <3>2. x + 1 \in 1..l
      OBVIOUS
    <3>3. off[x + 1] <= off2[x + 1] /\ off2[x + 1] \in Nat
      <4>1. off[x + 1] \in Nat /\ off[(x + 1) + 1] \in Nat /\ off[x + 1] <= off[(x + 1) + 1]
        BY <1>5, <3>2
      <4>2. off2[x + 1] = off[x + 1] \/ off2[x + 1] = off[(x + 1) + 1]
        BY <1>6, <3>2
      <4>3. QED
        BY <4>1, <4>2
    <3>4. off[x] \in Nat /\ off[x + 1] \in Nat /\ Len(s[x].data) \in Nat
      BY <1>4, <1>5, <2>1
    <3>5. off[x] + Len(s[x].data) <= off2[x + 1]
      BY <3>1, <3>3, <3>4
    <3>6. QED
      BY <2>1, <3>1, <3>5
  <2>2. CASE ~ x < k /\ x + 1 \in 1..l /\ u[x] = s[x + 1]
             /\ off2[x] = off[x + 1] /\ off2[x + 1] = off[(x + 1) + 1]
    BY <1>3, <2>2
  <2>3. QED
    BY <1>8, <2>1, <2>2
<1>10. off2[1] \in Nat /\ off[1] \in Nat /\ off[1] <= off2[1] /\ (k = 1 => off2[1] = off[2])
    BY <1>5, <1>6
<1>11. Fits(copy, u, n, off2)
  <2>1. ASSUME NEW x \in 1..Len(copy) PROVE copy[x][2] <= off2[1]
    <3>1. copy[x] \in Names \X Nat
      BY ElementOfSeq
    <3>2. copy[x][2] \in Nat /\ copy[x][2] <= off[1]
      BY <1>3, <3>1
    <3>3. QED
      BY <1>10, <3>2
  <2>2. QED
    BY <1>2, <1>3, <1>6, <1>9, <2>1 DEF Fits
<1>12. ASSUME NEW t, NEW bytes, Served(s, off, t, bytes) PROVE Served(u, off2, t, bytes)
  <2>1. \A x \in 1..l : s[x].type # "F"
    BY <1>1, <1>12 DEF Served
  <2>2. \A x \in 1..l - 1 : u[x].type # "F"
    BY <1>8, <2>1
  <2>3. off[l + 1] <= t.pos /\ t.left + t.pos = bytes
    BY <1>1, <1>12 DEF Served
  <2>4. (l - 1) + 1 = l
    OBVIOUS
  <2>5. off2[Len(u) + 1] = off[l + 1]
    BY <1>2, <1>7, <2>4
  <2>6. QED
    BY <1>2, <2>2, <2>3, <2>5 DEF Served
<1>13. ASSUME NEW bytes, Sent(s, off, bytes) PROVE Sent(u, off2, bytes)
  <2>1. ASSUME NEW x \in 1..l - 1, u[x].type = "F"
        PROVE  x = l - 1 /\ u[x].data # <<>> /\ off2[x] + Len(u[x].data) = bytes
    <3>1. CASE x < k /\ x \in 1..l /\ u[x] = s[x] /\ off2[x] = off[x]
      <4>1. x = l
        BY <1>1, <1>13, <2>1, <3>1 DEF Sent
      <4>2. QED
        BY <4>1
    <3>2. CASE ~ x < k /\ x + 1 \in 1..l /\ u[x] = s[x + 1] /\ off2[x] = off[x + 1]
      <4>1. x + 1 = l /\ s[x + 1].data # <<>> /\ off[x + 1] + Len(s[x + 1].data) = bytes
        BY <1>1, <1>13, <2>1, <3>2 DEF Sent
      <4>2. x = l - 1
        BY <4>1
      <4>3. QED
        BY <3>2, <4>1, <4>2
    <3>3. QED
      BY <1>8, <3>1, <3>2
  <2>2. QED
    BY <1>2, <2>1 DEF Sent
<1>14. ASSUME k = 1
       PROVE  /\ Fits(copy \o s[1].data, u, n, off2)
              /\ Exact(copy, s, n, off) => Exact(copy \o s[1].data, u, n, off2)
  <2>1. PICK a \in Nat, len \in Nat :
          /\ a = off[1] /\ len = Len(s[1].data) /\ s[1].data = Piece(n, a, len)
          /\ a + len <= off[2] /\ off2[1] = off[2] /\ off[2] \in Nat
    <3>1. 1 \in 1..l /\ 1 + 1 = 2
      OBVIOUS
    <3>2. off[1] \in Nat /\ off[1 + 1] \in Nat
      BY <1>5, <3>1
    <3>3. Len(s[1].data) \in Nat
      BY <1>4, <3>1
    <3>4. s[1].data = Piece(n, off[1], Len(s[1].data)) /\ off[1] + Len(s[1].data) <= off[1 + 1]
      BY <1>3, <3>1
    <3>5. QED
      BY <1>10, <1>14, <3>1, <3>2, <3>3, <3>4
  <2>2. PICK new \in Seq(Names \X Nat) :
          /\ new = copy \o Piece(n, a, len) /\ Increasing(new)
          /\ \A x \in 1..Len(new) : new[x][2] <= a + len
          /\ copy = Piece(n, 0, a) => new = Piece(n, 0, a + len)
    <3>1. \A x \in 1..Len(copy) : copy[x][2] <= a
      BY <1>3, <2>1
    <3>2. LET new == copy \o Piece(n, a, len) IN
          /\ new \in Seq(Names \X Nat) /\ Increasing(new)
          /\ \A x \in 1..Len(new) : new[x][2] <= a + len
          /\ copy = Piece(n, 0, a) => new = Piece(n, 0, a + len)
      <4>1. Increasing(copy)
        BY <1>3
      <4>2. QED
        BY <3>1, <4>1, PieceJoins
    <3>3. QED
      BY <3>2
  <2>3. ASSUME NEW x \in 1..Len(new) PROVE new[x][2] <= off2[1]
    <3>1. new[x] \in Names \X Nat
      BY ElementOfSeq
    <3>2. new[x][2] \in Nat /\ new[x][2] <= a + len
      BY <2>2, <3>1
    <3>3. QED
      BY <2>1, <3>2
  <2>4. Fits(new, u, n, off2)
    BY <1>2, <1>6, <1>9, <2>2, <2>3 DEF Fits
  <2>5. ASSUME Exact(copy, s, n, off) PROVE Exact(new, u, n, off2)
    <3>1. /\ copy = Piece(n, 0, a)
          /\ \A x \in 1..l : off[x] + Len(s[x].data) = off[x + 1]
      BY <1>1, <2>1, <2>5 DEF Exact
    <3>2. a + len = off2[1]
      <4>1. 1 \in 1..l /\ 1 + 1 = 2
        OBVIOUS
      <4>2. QED
        BY <2>1, <3>1, <4>1
    <3>3. ASSUME NEW x \in 1..l - 1 PROVE off2[x] + Len(u[x].data) = off2[x + 1]
      <4>1. ~ x < k /\ x + 1 \in 1..l
        BY <1>14
      <4>2. off[x + 1] + Len(s[x + 1].data) = off[(x + 1) + 1]
        BY <3>1, <4>1
      <4>3. QED
        BY <1>9, <4>1, <4>2
    <3>4. new = Piece(n, 0, off2[1])
      BY <2>2, <3>1, <3>2
    <3>5. QED
      BY <1>2, <3>3, <3>4 DEF Exact
  <2>6. QED
    BY <2>1, <2>2, <2>4, <2>5
<1>15. off2[Len(u) + 1] = off[Len(s) + 1] /\ off2 \in [1..Len(u) + 1 -> Nat]
  <2>1. (l - 1) + 1 = l
    OBVIOUS
  <2>2. QED
    BY <1>1, <1>2, <1>6, <1>7, <2>1
<1>16. QED
    BY <1>2, <1>11, <1>12, <1>13, <1>14, <1>15

-----------------------------------------------------------------------------
(* What holds as long as no datagram is doubled or overtaken.              *)
Tidy     == ~ Happened({"duplicate", "reorder"})
Asks(c)  == \E k \in 1..Len(requests) : requests[k].from = c /\ requests[k].run = client[c].run
Serves(c) == task # None /\ task.to = c /\ task.run = client[c].run
Whole(c) == ~ Happened({"lose"}) /\ ~ client[c].missed

(* A client waits for the server to take its request, is served, or has    *)
(* been sent all that it will get.                                         *)
CopyGrows(c) ==
    Tidy /\ client[c].at = "reading" =>
        \E off \in [1..Len(unread[c]) + 1 -> Nat] :
            /\ Fits(Copy(c), unread[c], client[c].name, off)
            /\ Whole(c) => Exact(Copy(c), unread[c], client[c].name, off)
            /\ \/ Asks(c) /\ ~ Serves(c) /\ Waits(unread[c], off)
               \/ /\ ~ Asks(c) /\ Serves(c) /\ Served(unread[c], off, task, client[c].size)
                  /\ Whole(c) => off[Len(unread[c]) + 1] = task.pos
               \/ ~ Asks(c) /\ ~ Serves(c) /\ Sent(unread[c], off, client[c].size)

(* No two requests of one process, and a task is never at its end.         *)
RequestsAlone ==
    Tidy => \A k, l \in 1..Len(requests) :
                requests[k].from = requests[l].from /\ requests[k].run = requests[l].run => k = l
TaskGoesOn == task # None => task.left > 0

CopyInv == RequestsAlone /\ TaskGoesOn /\ \A c \in Clients : CopyGrows(c)

LEMMA HistoryGrows ==
    ASSUME accidents \in Seq(Kinds), NEW kinds, Happened(kinds),
           UNCHANGED accidents \/ \E kind \in Kinds : Accident(kind)
    PROVE  Happened(kinds)'
<1>1. PICK k \in 1..Len(accidents) : accidents[k] \in kinds
    BY DEF Happened
<1>2. CASE UNCHANGED accidents
    BY <1>1, <1>2 DEF Happened
<1>3. CASE \E kind \in Kinds : Accident(kind)
  <2>1. PICK kind \in Kinds : accidents' = Append(accidents, kind)
    BY <1>3 DEF Accident
  <2>2. PICK l \in Nat : l = Len(accidents)
    BY LenProperties
  <2>3. Len(accidents') = l + 1 /\ \A x \in 1..l : accidents'[x] = accidents[x]
    BY <2>1, <2>2, AppendProperties
  <2>4. k \in 1..l + 1 /\ accidents'[k] = accidents[k]
    BY <1>1, <2>2, <2>3
  <2>5. QED
    BY <1>1, <2>3, <2>4 DEF Happened
<1>4. QED
    BY <1>2, <1>3

LEMMA AccidentHappened ==
    ASSUME accidents \in Seq(Kinds), NEW kind \in Kinds, Accident(kind), NEW kinds, kind \in kinds
    PROVE  Happened(kinds)'
<1>1. PICK l \in Nat : l = Len(accidents)
    BY LenProperties
<1>2. Len(accidents') = l + 1 /\ accidents'[l + 1] = kind
    BY <1>1, AppendProperties DEF Accident
<1>3. l + 1 \in 1..l + 1
    OBVIOUS
<1>4. QED
    BY <1>2, <1>3 DEF Happened

(* Every accident leaves a trace; the network does nothing else unnoticed. *)
LEMMA NothingForgotten ==
    ASSUME Inv, UNCHANGED accidents \/ \E kind \in Kinds : Accident(kind)
    PROVE  /\ Tidy' => Tidy
           /\ \A c \in Clients : client'[c].missed = client[c].missed => (Whole(c)' => Whole(c))
<1>1. accidents \in Seq(Kinds)
    BY DEF Inv, TypeOK
<1>2. Happened({"duplicate", "reorder"}) => Happened({"duplicate", "reorder"})'
    BY <1>1, HistoryGrows
<1>3. Happened({"lose"}) => Happened({"lose"})'
    BY <1>1, HistoryGrows
<1>4. QED
    BY <1>2, <1>3 DEF Tidy, Whole

LEMMA ArrivesInOrder ==
    ASSUME Inv, NEW s, NEW k, Arrives(s, k)
    PROVE  /\ UNCHANGED accidents \/ \E kind \in Kinds : Accident(kind)
           /\ Tidy' => k = 1
<1>1. CASE k = 1
    BY <1>1 DEF Arrives
<1>2. CASE k # 1
  <2>1. Accident("reorder") /\ "reorder" \in Kinds
    BY <1>2 DEF Arrives, Kinds
  <2>2. accidents \in Seq(Kinds)
    BY DEF Inv, TypeOK
  <2>3. Happened({"duplicate", "reorder"})'
    BY <2>1, <2>2, AccidentHappened
  <2>4. QED
    BY <2>1, <2>3 DEF Tidy
<1>3. QED
    BY <1>1, <1>2

LEMMA CopyElsewhere ==
    ASSUME NEW c \in Clients, ~ Tidy' \/ client'[c].at # "reading" PROVE CopyGrows(c)'
BY DEF CopyGrows, Copy

(* How to show that a copy is in order after a step.                       *)
LEMMA CopyMoves ==
    ASSUME NEW c \in Clients, NEW copy, NEW s, NEW n, NEW bytes, NEW off \in [1..Len(s) + 1 -> Nat],
           copy = Copy(c)', s = unread'[c], n = client'[c].name, bytes = client'[c].size,
           Fits(copy, s, n, off),
           Whole(c)' => Exact(copy, s, n, off),
           \/ Asks(c)' /\ ~ Serves(c)' /\ Waits(s, off)
           \/ /\ ~ Asks(c)' /\ Serves(c)' /\ Served(s, off, task', bytes)
              /\ Whole(c)' => off[Len(s) + 1] = task'.pos
           \/ ~ Asks(c)' /\ ~ Serves(c)' /\ Sent(s, off, bytes)
    PROVE  CopyGrows(c)'
BY DEF CopyGrows

LEMMA ServedSent ==
    ASSUME NEW s, NEW off, NEW t, NEW bytes, NEW bytes2, Served(s, off, t, bytes)
    PROVE  Sent(s, off, bytes2)
BY DEF Served, Sent

LEMMA WaitsSent ==
    ASSUME NEW s, NEW off, NEW bytes, Waits(s, off) PROVE Sent(s, off, bytes)
BY DEF Waits, Sent

(* A request or a task that goes away leaves the copy as it is.            *)
LEMMA CopyStays ==
    ASSUME NEW c \in Clients, CopyGrows(c), Tidy' => Tidy, Whole(c)' => Whole(c),
           client'[c].at = "reading" =>
              /\ client[c].at = "reading" /\ client'[c].name = client[c].name
              /\ client'[c].size = client[c].size /\ UNCHANGED <<unread[c], Copy(c)>>,
           Asks(c)' => Asks(c), Serves(c)' => Serves(c) /\ task' = task
    PROVE  CopyGrows(c)'
<1>1. CASE ~ Tidy' \/ client'[c].at # "reading"
    BY <1>1, CopyElsewhere
<1>2. CASE Tidy' /\ client'[c].at = "reading"
  <2>1. PICK off \in [1..Len(unread[c]) + 1 -> Nat] :
            /\ Fits(Copy(c), unread[c], client[c].name, off)
            /\ Whole(c) => Exact(Copy(c), unread[c], client[c].name, off)
            /\ \/ Asks(c) /\ ~ Serves(c) /\ Waits(unread[c], off)
               \/ /\ ~ Asks(c) /\ Serves(c) /\ Served(unread[c], off, task, client[c].size)
                  /\ Whole(c) => off[Len(unread[c]) + 1] = task.pos
               \/ ~ Asks(c) /\ ~ Serves(c) /\ Sent(unread[c], off, client[c].size)
    BY <1>2 DEF CopyGrows
  <2>2. PICK copy, s, n, bytes :
            /\ copy = Copy(c) /\ copy = Copy(c)' /\ s = unread[c] /\ s = unread'[c]
            /\ n = client[c].name /\ n = client'[c].name
            /\ bytes = client[c].size /\ bytes = client'[c].size
    BY <1>2
  <2>3. /\ off \in [1..Len(s) + 1 -> Nat] /\ Fits(copy, s, n, off)
        /\ Whole(c)' => Exact(copy, s, n, off)
    BY <2>1, <2>2
  <2>4. Sent(s, off, bytes) \/ (Waits(s, off) /\ Asks(c)' /\ ~ Serves(c)')
        \/ /\ ~ Asks(c)' /\ Serves(c)' /\ Served(s, off, task', bytes)
           /\ Whole(c)' => off[Len(s) + 1] = task'.pos
    BY <2>1, <2>2, ServedSent, WaitsSent
  <2>5. CASE Waits(s, off) /\ Asks(c)' /\ ~ Serves(c)'
    BY <2>2, <2>3, <2>5, CopyMoves
  <2>6. CASE /\ ~ Asks(c)' /\ Serves(c)' /\ Served(s, off, task', bytes)
             /\ Whole(c)' => off[Len(s) + 1] = task'.pos
    BY <2>2, <2>3, <2>6, CopyMoves
  <2>7. CASE ~ Asks(c)' /\ ~ Serves(c)'
    <3>1. Sent(s, off, bytes)
      BY <2>1, <2>2, ServedSent, WaitsSent
    <3>2. QED
      BY <2>2, <2>3, <2>7, <3>1, CopyMoves
  <2>8. QED
    BY <2>1, <2>2, <2>5, <2>6, <2>7
<1>3. QED
    BY <1>1, <1>2

(* A step that touches at most the copy of one client.                     *)
LEMMA CopiesStay ==
    ASSUME Inv, CopyInv, UNCHANGED accidents \/ \E kind \in Kinds : Accident(kind),
           NEW c \in Clients, CopyGrows(c)',
           \A e \in Clients : e # c =>
              /\ UNCHANGED <<client[e], unread[e]>>
              /\ client[e].at = "reading" => UNCHANGED Copy(e)
              /\ Asks(e)' => Asks(e)
              /\ Serves(e)' => Serves(e) /\ task' = task
    PROVE  \A e \in Clients : CopyGrows(e)'
<1>1. ASSUME NEW e \in Clients, e # c PROVE CopyGrows(e)'
  <2>1. CopyGrows(e) /\ client'[e] = client[e]
    BY <1>1 DEF CopyInv
  <2>2. (Tidy' => Tidy) /\ (Whole(e)' => Whole(e))
    BY <2>1, NothingForgotten
  <2>3. client'[e].at = "reading" => UNCHANGED <<unread[e], Copy(e)>>
    BY <1>1, <2>1
  <2>4. (Asks(e)' => Asks(e)) /\ (Serves(e)' => Serves(e) /\ task' = task)
    BY <1>1
  <2>5. QED
    BY <2>1, <2>2, <2>3, <2>4, CopyStays
<1>2. QED
    BY <1>1

(* Datagram k is taken from those on the way to the server.                *)
LEMMA RequestGone ==
    ASSUME Inv, NEW k \in 1..Len(requests), Len(requests') = Len(requests) - 1,
           \A x \in 1..Len(requests) - 1 :
              requests'[x] = IF x < k THEN requests[x] ELSE requests[x + 1],
           \A e \in Clients : client'[e].run = client[e].run
    PROVE  /\ \A e \in Clients : Asks(e)' => Asks(e)
           /\ RequestsAlone /\ (Tidy' => Tidy) => RequestsAlone'
           /\ RequestsAlone /\ Tidy => \A e \in Clients :
                 requests[k].from = e /\ requests[k].run = client[e].run => ~ Asks(e)'
<1>1. PICK l \in Nat : l = Len(requests) /\ k \in 1..l
    BY LenProperties DEF Inv, TypeOK
<1> DEFINE was(x) == IF x < k THEN x ELSE x + 1
<1>2. \A x \in 1..l - 1 : was(x) \in 1..l /\ was(x) # k /\ requests'[x] = requests[was(x)]
    BY <1>1
<1>3. \A x, y \in 1..l - 1 : was(x) = was(y) => x = y
    BY <1>1
<1> HIDE DEF was
<1>4. \A e \in Clients : Asks(e)' => Asks(e)
    BY <1>1, <1>2 DEF Asks
<1>5. ASSUME RequestsAlone, Tidy' => Tidy PROVE RequestsAlone'
  <2> SUFFICES ASSUME Tidy', NEW x \in 1..l - 1, NEW y \in 1..l - 1,
                      requests'[x].from = requests'[y].from, requests'[x].run = requests'[y].run
               PROVE  x = y
    BY <1>1 DEF RequestsAlone
  <2>1. was(x) = was(y)
    BY <1>1, <1>2, <1>5 DEF RequestsAlone
  <2>2. QED
    BY <1>3, <2>1
<1>6. ASSUME RequestsAlone, Tidy, NEW e \in Clients,
             requests[k].from = e, requests[k].run = client[e].run
      PROVE  ~ Asks(e)'
  <2> SUFFICES ASSUME NEW x \in 1..l - 1, requests'[x].from = e, requests'[x].run = client'[e].run
               PROVE  FALSE
    BY <1>1 DEF Asks
  <2>1. was(x) = k
    BY <1>1, <1>2, <1>6 DEF RequestsAlone
  <2>2. QED
    BY <1>2, <2>1
<1>7. QED
    BY <1>4, <1>5, <1>6

LEMMA RequestRemoved ==
    ASSUME Inv, NEW k \in DOMAIN requests, requests' = RemoveAt(requests, k),
           \A e \in Clients : client'[e].run = client[e].run
    PROVE  /\ \A e \in Clients : Asks(e)' => Asks(e)
           /\ RequestsAlone /\ (Tidy' => Tidy) => RequestsAlone'
           /\ RequestsAlone /\ Tidy => \A e \in Clients :
                 requests[k].from = e /\ requests[k].run = client[e].run => ~ Asks(e)'
<1>1. PICK s \in Seq([from : Clients, run : Nat, name : Names]) : s = requests
    BY DEF Inv, TypeOK
<1>2. k \in 1..Len(s)
    BY <1>1, LenProperties
<1>3. Len(RemoveAt(s, k)) = Len(s) - 1
      /\ \A x \in 1..Len(s) - 1 : RemoveAt(s, k)[x] = IF x < k THEN s[x] ELSE s[x + 1]
    BY <1>2, RemovedAt
<1>4. QED
    BY <1>1, <1>2, <1>3, RequestGone

LEMMA RequestFirst ==
    ASSUME Inv, requests # <<>>, requests' = Tail(requests),
           \A e \in Clients : client'[e].run = client[e].run
    PROVE  /\ \A e \in Clients : Asks(e)' => Asks(e)
           /\ RequestsAlone /\ (Tidy' => Tidy) => RequestsAlone'
<1>1. PICK s \in Seq([from : Clients, run : Nat, name : Names]) : s = requests /\ s # <<>>
    BY DEF Inv, TypeOK
<1>2. PICK l \in Nat : l = Len(s) /\ l # 0
    BY <1>1, LenProperties, EmptySeq
<1>3. Len(Tail(s)) = l - 1 /\ \A x \in 1..l - 1 : Tail(s)[x] = s[x + 1]
    BY <1>1, <1>2, HeadTailProperties
<1>4. 1 \in 1..l /\ \A x \in 1..l - 1 : ~ x < 1
    BY <1>2
<1>5. QED
    BY <1>1, <1>2, <1>3, <1>4, RequestGone

(* A step that adds nothing to a copy or to what is on the way to it.      *)
LEMMA QuietCopy ==
    ASSUME Inv, CopyInv, UNCHANGED accidents \/ \E kind \in Kinds : Accident(kind),
           RequestsAlone', TaskGoesOn', UNCHANGED disk,
           \A e \in Clients :
              /\ client'[e].at = "reading" => UNCHANGED <<client[e], unread[e]>>
              /\ Asks(e)' => Asks(e)
              /\ Serves(e)' => Serves(e) /\ task' = task
    PROVE  CopyInv'
<1>1. ASSUME NEW e \in Clients PROVE CopyGrows(e)'
  <2>1. CASE client'[e].at # "reading"
    BY <2>1, CopyElsewhere
  <2>2. CASE client'[e].at = "reading"
    <3>1. client'[e] = client[e] /\ UNCHANGED <<unread[e], Copy(e)>>
      BY <2>2 DEF Copy
    <3>2. (Tidy' => Tidy) /\ (Whole(e)' => Whole(e)) /\ CopyGrows(e)
      BY <3>1, NothingForgotten DEF CopyInv
    <3>3. QED
      BY <3>1, <3>2, CopyStays
  <2>3. QED
    BY <2>1, <2>2
<1>2. QED
    BY <1>1 DEF CopyInv

LEMMA EditCopy == ASSUME Inv, CopyInv, Edit PROVE CopyInv'
<1>1. UNCHANGED <<up, task, requests, client, unread, disk>> /\ Accident("edit") /\ "edit" \in Kinds
    BY DEF Edit, Kinds
<1>2. Tidy' => Tidy
    BY <1>1, NothingForgotten
<1>3. RequestsAlone' /\ TaskGoesOn'
    BY <1>1, <1>2 DEF CopyInv, RequestsAlone, TaskGoesOn
<1>4. \A e \in Clients : Asks(e)' = Asks(e) /\ Serves(e)' = Serves(e)
    BY <1>1 DEF Asks, Serves
<1>5. QED
    BY <1>1, <1>3, <1>4, QuietCopy

LEMMA StopCopy == ASSUME Inv, CopyInv, Stop PROVE CopyInv'
<1>1. /\ UNCHANGED <<size, client, unread, disk>> /\ task' = None
      /\ UNCHANGED accidents \/ \E kind \in Kinds : Accident(kind)
      /\ requests' = <<>> \/ requests' = requests
    BY DEF Stop, Kinds
<1>2. Tidy' => Tidy
    BY <1>1, NothingForgotten
<1>3. RequestsAlone'
    BY <1>1, <1>2 DEF CopyInv, RequestsAlone
<1>4. \A e \in Clients : (Asks(e)' => Asks(e)) /\ ~ Serves(e)'
    BY <1>1 DEF Asks, Serves
<1>5. TaskGoesOn'
    BY <1>1 DEF TaskGoesOn
<1>6. QED
    BY <1>1, <1>3, <1>4, <1>5, QuietCopy

LEMMA InterruptCopy == ASSUME Inv, CopyInv, NEW c \in Clients, Interrupt(c) PROVE CopyInv'
<1>1. /\ UNCHANGED <<up, size, task, requests, disk>>
      /\ Accident("interrupt") /\ "interrupt" \in Kinds
      /\ client' = [client EXCEPT ![c].at = "failed"]
      /\ unread' = [unread EXCEPT ![c] = <<>>]
    BY DEF Interrupt, Exit, Kinds
<1>2. /\ client'[c].at = "failed"
      /\ \A e \in Clients : /\ client'[e].run = client[e].run
                            /\ e # c => client'[e] = client[e] /\ unread'[e] = unread[e]
    BY <1>1 DEF Inv, TypeOK, Process
<1>3. Tidy' => Tidy
    BY <1>1, NothingForgotten
<1>4. RequestsAlone' /\ TaskGoesOn'
    BY <1>1, <1>3 DEF CopyInv, RequestsAlone, TaskGoesOn
<1>5. \A e \in Clients : Asks(e)' = Asks(e) /\ Serves(e)' = Serves(e)
    BY <1>1, <1>2 DEF Asks, Serves
<1>6. QED
    BY <1>1, <1>2, <1>4, <1>5, QuietCopy

LEMMA BounceCopy == ASSUME Inv, CopyInv, Bounce PROVE CopyInv'
<1> DEFINE r == Head(requests)
<1>1. /\ requests # <<>> /\ requests' = Tail(requests) /\ UNCHANGED <<up, size, task, disk, accidents>>
      /\ IF Reads(r.from, r.run) THEN Exit(r.from, "failed") ELSE UNCHANGED <<client, unread>>
    BY DEF Bounce
<1>2. r.from \in Clients
  <2>1. PICK s \in Seq([from : Clients, run : Nat, name : Names]) : s = requests /\ s # <<>>
    BY <1>1 DEF Inv, TypeOK
  <2>2. Head(s) \in [from : Clients, run : Nat, name : Names]
    BY <2>1, HeadTailProperties
  <2>3. QED
    BY <2>1, <2>2
<1> HIDE DEF r
<1>3. \A e \in Clients : /\ client'[e].run = client[e].run
                         /\ client'[e].at = "reading" =>
                               client'[e] = client[e] /\ unread'[e] = unread[e]
  <2>1. CASE UNCHANGED <<client, unread>>
    BY <2>1
  <2>2. CASE Exit(r.from, "failed")
    BY <1>2, <2>2 DEF Exit, Inv, TypeOK, Process
  <2>3. QED
    BY <1>1, <2>1, <2>2
<1>4. Tidy' => Tidy
    BY <1>1, NothingForgotten
<1>5. (\A e \in Clients : Asks(e)' => Asks(e)) /\ RequestsAlone'
    BY <1>1, <1>3, <1>4, RequestFirst DEF CopyInv
<1>6. TaskGoesOn' /\ \A e \in Clients : Serves(e)' = Serves(e)
    BY <1>1, <1>3 DEF CopyInv, TaskGoesOn, Serves
<1>7. QED
    BY <1>1, <1>3, <1>5, <1>6, QuietCopy

LEMMA DuplicateCopy == ASSUME Inv, CopyInv, Duplicate PROVE CopyInv'
<1>1. UNCHANGED <<task, client, disk>> /\ Accident("duplicate") /\ "duplicate" \in Kinds
    BY DEF Duplicate, Kinds
<1>2. accidents \in Seq(Kinds)
    BY DEF Inv, TypeOK
<1>3. Happened({"duplicate", "reorder"})'
    BY <1>1, <1>2, AccidentHappened
<1>4. ~ Tidy'
    BY <1>3 DEF Tidy
<1>5. RequestsAlone' /\ TaskGoesOn'
    BY <1>1, <1>4 DEF CopyInv, RequestsAlone, TaskGoesOn
<1>6. \A c \in Clients : CopyGrows(c)'
    BY <1>4, CopyElsewhere
<1>7. QED
    BY <1>5, <1>6 DEF CopyInv

LEMMA CopyTyped ==
    ASSUME Inv, NEW c \in Clients, client[c].at = "reading"
    PROVE  /\ Copy(c) \in Seq(Names \X Nat) /\ client[c].name \in Names /\ Folder[c] \in Folders
           /\ Copy(c) = disk[Folder[c]][client[c].name]
<1>1. /\ client[c].name \in Names /\ Folder[c] \in Folders
      /\ disk[Folder[c]][client[c].name] # None
    BY DEF Inv, WritersHaveFiles, Folders
<1>2. disk[Folder[c]][client[c].name] \in Seq(Names \X Nat)
    BY <1>1 DEF Inv, TypeOK
<1>3. QED
    BY <1>1, <1>2 DEF Copy

LEMMA LoseCopy == ASSUME Inv, CopyInv, Lose PROVE CopyInv'
<1>1. UNCHANGED <<up, size, task, client, disk>> /\ Accident("lose") /\ "lose" \in Kinds
    BY DEF Lose, Kinds
<1>2. accidents \in Seq(Kinds)
    BY DEF Inv, TypeOK
<1>3. Happened({"lose"})'
    BY <1>1, <1>2, AccidentHappened
<1>4. Tidy' => Tidy
    BY <1>1, NothingForgotten
<1>5. TaskGoesOn' /\ \A e \in Clients : Serves(e)' = Serves(e)
    BY <1>1 DEF CopyInv, TaskGoesOn, Serves
<1>6. CASE /\ \E k \in DOMAIN requests : requests' = RemoveAt(requests, k)
           /\ UNCHANGED unread
  <2>1. PICK k \in DOMAIN requests : requests' = RemoveAt(requests, k)
    BY <1>6
  <2>2. (\A e \in Clients : Asks(e)' => Asks(e)) /\ RequestsAlone'
    BY <1>1, <1>4, <2>1, RequestRemoved DEF CopyInv
  <2>3. QED
    BY <1>1, <1>5, <1>6, <2>2, QuietCopy
<1>7. CASE /\ \E c \in Clients : \E k \in DOMAIN unread[c] :
                unread' = [unread EXCEPT ![c] = RemoveAt(@, k)]
           /\ UNCHANGED requests
  <2>1. PICK c \in Clients : \E k \in DOMAIN unread[c] :
                unread' = [unread EXCEPT ![c] = RemoveAt(@, k)]
    BY <1>7
  <2>2. PICK k \in DOMAIN unread[c] : unread' = [unread EXCEPT ![c] = RemoveAt(@, k)]
    BY <2>1
  <2>3. PICK s \in Seq(Pdu) : s = unread[c] /\ k \in 1..Len(s) /\ unread'[c] = RemoveAt(s, k)
    BY <2>2, LenProperties DEF Inv, TypeOK
  <2>4. \A e \in Clients : e # c => unread'[e] = unread[e]
    BY <2>2 DEF Inv, TypeOK
  <2>5. RequestsAlone'
    BY <1>4, <1>7 DEF CopyInv, RequestsAlone
  <2>6. \A e \in Clients : Asks(e)' = Asks(e) /\ UNCHANGED Copy(e)
    BY <1>1, <1>7 DEF Asks, Copy
  <2>7. CopyGrows(c)'
    <3>1. CASE ~ Tidy' \/ client'[c].at # "reading"
      BY <3>1, CopyElsewhere
    <3>2. CASE Tidy' /\ client'[c].at = "reading"
      <4>1. PICK copy \in Seq(Names \X Nat), n \in Names, bytes \in {client[c].size} :
              copy = Copy(c) /\ n = client[c].name /\ bytes = client[c].size
        BY <1>1, <3>2, CopyTyped
      <4>2. PICK off \in [1..Len(s) + 1 -> Nat] :
              /\ Fits(copy, s, n, off)
              /\ \/ Asks(c) /\ ~ Serves(c) /\ Waits(s, off)
                 \/ ~ Asks(c) /\ Serves(c) /\ Served(s, off, task, bytes)
                 \/ ~ Asks(c) /\ ~ Serves(c) /\ Sent(s, off, bytes)
        BY <1>1, <1>4, <2>3, <3>2, <4>1 DEF CopyInv, CopyGrows
      <4>3. PICK off2 \in [1..Len(RemoveAt(s, k)) + 1 -> Nat] :
              /\ Fits(copy, RemoveAt(s, k), n, off2)
              /\ \A t : Served(s, off, t, bytes) => Served(RemoveAt(s, k), off2, t, bytes)
              /\ Sent(s, off, bytes) => Sent(RemoveAt(s, k), off2, bytes)
        BY <2>3, <4>1, <4>2, FitsRest
      <4>4. ~ Waits(s, off)
        BY <2>3 DEF Waits
      <4>5. ~ Whole(c)'
        BY <1>3 DEF Whole
      <4>6. PICK u : u = RemoveAt(s, k)
        OBVIOUS
      <4>7. \/ ~ Asks(c)' /\ Serves(c)' /\ Served(u, off2, task', bytes)
            \/ ~ Asks(c)' /\ ~ Serves(c)' /\ Sent(u, off2, bytes)
        BY <1>1, <1>5, <2>6, <4>2, <4>3, <4>4, <4>6
      <4>8. copy = Copy(c)' /\ u = unread'[c] /\ n = client'[c].name /\ bytes = client'[c].size
        BY <1>1, <2>3, <2>6, <4>1, <4>6
      <4>9. QED
        BY <4>3, <4>5, <4>6, <4>7, <4>8, CopyMoves
    <3>3. QED
      BY <3>1, <3>2
  <2>8. \A e \in Clients : CopyGrows(e)'
    BY <1>1, <1>5, <2>4, <2>6, <2>7, CopiesStay
  <2>9. QED
    BY <1>5, <2>5, <2>8 DEF CopyInv
<1>8. QED
    BY <1>6, <1>7 DEF Lose

(* Only its own client touches a file that is being written.               *)
LEMMA OthersKeepTheirs ==
    ASSUME Inv, NEW c \in Clients, client[c].at = "reading", NEW file,
           disk' = [disk EXCEPT ![Folder[c]][client[c].name] = file],
           NEW e \in Clients, e # c, client[e].at = "reading", client'[e] = client[e]
    PROVE  UNCHANGED Copy(e)
<1>1. /\ Folder[e] \in Folders /\ client[e].name \in Names
      /\ Folder[c] \in Folders /\ client[c].name \in Names
    BY CopyTyped
<1>2. ~ (Folder[e] = Folder[c] /\ client[e].name = client[c].name)
    BY DEF Inv, OneWriter
<1>3. QED
    BY <1>1, <1>2 DEF Copy, Inv, TypeOK

LEMMA StartCopy == ASSUME Inv, CopyInv, NEW c \in Clients, Start(c) PROVE CopyInv'
<1> DEFINE run == client[c].run + 1
           goes(at, n) == [at |-> at, name |-> n, run |-> run, size |-> 0, missed |-> FALSE]
<1>1. PICK n \in Names :
         \/ /\ Creates(c, n)
            /\ disk' = [disk EXCEPT ![Folder[c]][n] = <<>>]
            /\ requests' = Append(requests, [from |-> c, run |-> run, name |-> n])
            /\ client' = [client EXCEPT ![c] = goes("reading", n)]
         \/ /\ ~ Creates(c, n)
            /\ client' = [client EXCEPT ![c] = goes("exists", n)]
            /\ UNCHANGED <<disk, requests>>
    BY DEF Start
<1>2. /\ UNCHANGED <<up, size, task, unread, accidents>> /\ client[c].at # "reading"
      /\ unread[c] = <<>> /\ Folder[c] \in Folders /\ client[c].run \in Nat
    BY DEF Start, Inv, UnreadFits, Folders, TypeOK, Process
<1>3. /\ client'[c].name = n /\ client'[c].run = run /\ client'[c].size = 0
      /\ \A e \in Clients : e # c => client'[e] = client[e]
    BY <1>1 DEF Inv, TypeOK
<1>4. Tidy' = Tidy
    BY <1>2 DEF Tidy, Happened
<1>5. TaskGoesOn'
    BY <1>2 DEF CopyInv, TaskGoesOn
<1>6. PICK reqs \in Seq([from : Clients, run : Nat, name : Names]), l \in Nat :
         /\ reqs = requests /\ l = Len(reqs)
         /\ \A x \in 1..l : requests[x].from = c => requests[x].run <= client[c].run
                                                  /\ requests[x].run \in Nat
  <2>1. requests \in Seq([from : Clients, run : Nat, name : Names]) /\ requests \in Seq(Asked)
    BY DEF Inv, TypeOK, RequestsAsked
  <2>2. \A x \in 1..Len(requests) : requests[x] \in Asked
    BY <2>1, ElementOfSeq
  <2>3. \A x \in 1..Len(requests) : requests[x].from = c => requests[x].run <= client[c].run
                                                  /\ requests[x].run \in Nat
    BY <2>2 DEF Asked, Origin
  <2>4. QED
    BY <2>1, <2>3, LenProperties
<1>7. task # None /\ task.to = c => task.run <= client[c].run /\ task.run \in Nat
    BY DEF Inv, TypeOK, Task, TaskAsked, Origin
<1>8. \A e \in Clients : e # c => Serves(e)' = Serves(e)
    BY <1>2, <1>3 DEF Serves
<1>9. CASE /\ Creates(c, n)
           /\ disk' = [disk EXCEPT ![Folder[c]][n] = <<>>]
           /\ requests' = Append(requests, [from |-> c, run |-> run, name |-> n])
           /\ client' = [client EXCEPT ![c] = goes("reading", n)]
  <2>1. client'[c].at = "reading" /\ client'[c].missed = FALSE /\ Copy(c)' = <<>>
    <3>1. client'[c] = goes("reading", n)
      BY <1>9 DEF Inv, TypeOK
    <3>2. disk'[Folder[c]][n] = <<>>
      BY <1>2, <1>9 DEF Inv, TypeOK
    <3>3. QED
      BY <1>3, <3>1, <3>2 DEF Copy
  <2>2. /\ Len(requests') = l + 1 /\ \A x \in 1..l : requests'[x] = requests[x]
        /\ requests'[l + 1].from = c /\ requests'[l + 1].run = run
    <3>1. PICK req \in [from : Clients, run : Nat, name : Names] :
              req = [from |-> c, run |-> run, name |-> n]
      <4>1. run \in Nat
        BY <1>2
      <4>2. [from |-> c, run |-> run, name |-> n] \in [from : Clients, run : Nat, name : Names]
        BY <4>1
      <4>3. QED
        BY <4>2
    <3>2. /\ Len(Append(reqs, req)) = l + 1 /\ \A x \in 1..l : Append(reqs, req)[x] = reqs[x]
          /\ Append(reqs, req)[l + 1] = req
      BY <1>6, AppendProperties
    <3>3. QED
      BY <1>6, <1>9, <3>1, <3>2
  <2>3. \A x \in 1..l + 1 : x \in 1..l \/ x = l + 1
    OBVIOUS
  <2>4. \A x \in 1..l : ~ (requests[x].from = c /\ requests[x].run = run)
    BY <1>2, <1>6
  <2>5. RequestsAlone'
    <3> SUFFICES ASSUME Tidy', NEW x \in 1..l + 1, NEW y \in 1..l + 1,
                        requests'[x].from = requests'[y].from, requests'[x].run = requests'[y].run
                 PROVE  x = y
      BY <2>2 DEF RequestsAlone
    <3>1. CASE x \in 1..l /\ y \in 1..l
      BY <1>4, <1>6, <2>2, <3>1 DEF CopyInv, RequestsAlone
    <3>2. CASE x = l + 1 /\ y \in 1..l
      BY <2>2, <2>4, <3>2
    <3>3. CASE x \in 1..l /\ y = l + 1
      BY <2>2, <2>4, <3>3
    <3>4. QED
      BY <2>3, <3>1, <3>2, <3>3
  <2>6. Asks(c)' /\ ~ Serves(c)'
    <3>1. l + 1 \in 1..l + 1
      OBVIOUS
    <3>2. Asks(c)'
      BY <1>3, <2>2, <3>1 DEF Asks
    <3>3. ~ Serves(c)'
      BY <1>2, <1>3, <1>7 DEF Serves
    <3>4. QED
      BY <3>2, <3>3
  <2>7. ASSUME NEW e \in Clients, e # c PROVE Asks(e)' => Asks(e)
    BY <1>3, <1>6, <2>2, <2>3, <2>7 DEF Asks
  <2>8. CopyGrows(c)'
    <3>1. PICK off \in [1..Len(<<>>) + 1 -> Nat] :
              Fits(<<>>, <<>>, n, off) /\ Exact(<<>>, <<>>, n, off) /\ Waits(<<>>, off)
      BY FitsAtFirst
    <3>2. PICK s : s = <<>>
      OBVIOUS
    <3>3. /\ off \in [1..Len(s) + 1 -> Nat] /\ s = Copy(c)' /\ s = unread'[c]
          /\ Fits(s, s, n, off) /\ Exact(s, s, n, off) /\ Waits(s, off)
      BY <1>2, <2>1, <3>1, <3>2
    <3>4. QED
      BY <1>3, <2>6, <3>3, CopyMoves
  <2>9. ASSUME NEW e \in Clients, e # c, client[e].at = "reading" PROVE UNCHANGED Copy(e)
    <3>1. /\ Folder[e] \in Folders /\ client[e].name \in Names
          /\ disk[Folder[e]][client[e].name] # None
      BY <2>9 DEF Inv, WritersHaveFiles, Folders
    <3>2. ~ (Folder[e] = Folder[c] /\ client[e].name = n)
      BY <1>9, <3>1 DEF Creates
    <3>3. disk'[Folder[e]][client[e].name] = disk[Folder[e]][client[e].name]
      BY <1>2, <1>9, <3>1, <3>2 DEF Inv, TypeOK
    <3>4. QED
      BY <1>3, <2>9, <3>3 DEF Copy
  <2>10. ASSUME NEW e \in Clients, e # c
         PROVE  /\ UNCHANGED <<client[e], unread[e]>>
                /\ client[e].at = "reading" => UNCHANGED Copy(e)
                /\ Asks(e)' => Asks(e)
                /\ Serves(e)' => Serves(e) /\ task' = task
    BY <1>2, <1>3, <1>8, <2>7, <2>9, <2>10
  <2>11. \A e \in Clients : CopyGrows(e)'
    BY <1>2, <2>8, <2>10, CopiesStay
  <2>12. QED
    BY <1>5, <2>5, <2>11 DEF CopyInv
<1>10. CASE /\ client' = [client EXCEPT ![c] = goes("exists", n)]
            /\ UNCHANGED <<disk, requests>>
  <2>1. client'[c].at = "exists"
    BY <1>10 DEF Inv, TypeOK
  <2>2. RequestsAlone' /\ CopyGrows(c)'
    BY <1>4, <1>10, <2>1, CopyElsewhere DEF CopyInv, RequestsAlone
  <2>3. \A e \in Clients : e # c => Asks(e)' = Asks(e) /\ UNCHANGED Copy(e)
    BY <1>3, <1>10 DEF Asks, Copy
  <2>4. \A e \in Clients : CopyGrows(e)'
    BY <1>2, <1>3, <1>8, <2>2, <2>3, CopiesStay
  <2>5. QED
    BY <1>5, <2>2, <2>4 DEF CopyInv
<1>11. QED
    BY <1>1, <1>9, <1>10

(* The client writes the first datagram, and keeps the rest.               *)
LEMMA ReadCopy == ASSUME Inv, CopyInv, NEW c \in Clients, Read(c) PROVE CopyInv'
<1>1. PICK k \in DOMAIN unread[c] :
        LET m == unread[c][k] IN
          /\ Arrives(unread[c], k)
          /\ disk' = [disk EXCEPT ![Folder[c]][client[c].name] =
                         IF m.type = "E" THEN None ELSE @ \o m.data]
          /\ \/ m.type = "F" /\ Exit(c, "received")
             \/ m.type = "E" /\ Exit(c, "rejected")
             \/ /\ m.type = "D"
                /\ unread' = [unread EXCEPT ![c] = RemoveAt(@, k)]
                /\ UNCHANGED client
    BY DEF Read
<1>2. /\ client[c].at = "reading" /\ UNCHANGED <<up, size, task, requests>>
      /\ unread[c] \in Seq(Pdu)
    BY DEF Read, Inv, TypeOK
<1> DEFINE m == unread[c][k]
<1>3. /\ UNCHANGED accidents \/ \E kind \in Kinds : Accident(kind)
      /\ Tidy' => k = 1
    BY <1>1, ArrivesInOrder
<1>4. Tidy' => Tidy
    BY <1>3, NothingForgotten
<1>5. \A e \in Clients : /\ client'[e].run = client[e].run
                         /\ e # c => client'[e] = client[e] /\ unread'[e] = unread[e]
  <2>1. CASE m.type = "D"
    BY <1>1, <2>1 DEF Inv, TypeOK
  <2>2. CASE m.type # "D"
    <3>1. PICK at \in {"received", "rejected"} : Exit(c, at)
      BY <1>1, <2>2
    <3>2. QED
      BY <3>1 DEF Exit, Inv, TypeOK, Process
  <2>3. QED
    BY <2>1, <2>2
<1>6. RequestsAlone' /\ TaskGoesOn'
    BY <1>2, <1>4 DEF CopyInv, RequestsAlone, TaskGoesOn
<1>7. \A e \in Clients : Asks(e)' = Asks(e) /\ Serves(e)' = Serves(e)
    BY <1>2, <1>5 DEF Asks, Serves
<1>8. CopyGrows(c)'
  <2>1. CASE ~ Tidy' \/ client'[c].at # "reading"
    BY <2>1, CopyElsewhere
  <2>2. CASE Tidy' /\ client'[c].at = "reading"
    <3>1. k = 1 /\ Tidy
      BY <1>3, <1>4, <2>2
    <3>2. m.type = "D" /\ unread' = [unread EXCEPT ![c] = RemoveAt(@, 1)] /\ UNCHANGED client
      <4>1. ~ Exit(c, "received") /\ ~ Exit(c, "rejected")
        BY <2>2 DEF Exit, Inv, TypeOK, Process
      <4>2. QED
        BY <1>1, <3>1, <4>1
    <3>3. PICK s \in Seq(Pdu), copy \in Seq(Names \X Nat), n \in Names, bytes \in {client[c].size} :
            /\ s = unread[c] /\ copy = Copy(c) /\ n = client[c].name /\ bytes = client[c].size
            /\ copy = disk[Folder[c]][n]
      BY <1>2, CopyTyped
    <3>4. 1 \in 1..Len(s) /\ 1 \in DOMAIN s
      BY <3>1, <3>3, LenProperties
    <3>5. PICK off \in [1..Len(s) + 1 -> Nat] :
              /\ Fits(copy, s, n, off) /\ (Whole(c) => Exact(copy, s, n, off))
              /\ ~ Asks(c)
              /\ \/ /\ Serves(c) /\ Served(s, off, task, bytes)
                    /\ Whole(c) => off[Len(s) + 1] = task.pos
                 \/ ~ Serves(c) /\ Sent(s, off, bytes)
      <4>1. CopyGrows(c)
        BY DEF CopyInv
      <4>2. ~ \E off \in [1..Len(s) + 1 -> Nat] : Waits(s, off)
        BY <3>4 DEF Waits
      <4>3. QED
        BY <1>2, <3>1, <3>3, <4>1, <4>2 DEF CopyGrows
    <3>6. PICK off2 \in [1..Len(RemoveAt(s, 1)) + 1 -> Nat] :
              /\ off2[Len(RemoveAt(s, 1)) + 1] = off[Len(s) + 1]
              /\ \A t : Served(s, off, t, bytes) => Served(RemoveAt(s, 1), off2, t, bytes)
              /\ Sent(s, off, bytes) => Sent(RemoveAt(s, 1), off2, bytes)
              /\ Fits(copy \o s[1].data, RemoveAt(s, 1), n, off2)
              /\ Exact(copy, s, n, off) => Exact(copy \o s[1].data, RemoveAt(s, 1), n, off2)
      BY <3>4, <3>5, FitsRest
    <3>7. PICK new, u : new = copy \o s[1].data /\ u = RemoveAt(s, 1)
      OBVIOUS
    <3>8. /\ u = unread'[c] /\ n = client'[c].name /\ bytes = client'[c].size
          /\ Whole(c)' => Whole(c)
      <4>1. u = unread'[c]
        BY <3>2, <3>3, <3>7 DEF Inv, TypeOK
      <4>2. client'[c] = client[c]
        BY <3>2
      <4>3. Whole(c)' => Whole(c)
        BY <1>3, <4>2, NothingForgotten
      <4>4. QED
        BY <3>3, <4>1, <4>2, <4>3
    <3>9. new = Copy(c)'
      <4>1. Folder[c] \in Folders
        BY <1>2, CopyTyped
      <4>2. disk' = [disk EXCEPT ![Folder[c]][n] = copy \o s[1].data]
        <5>1. s[1].type # "E"
          BY <3>1, <3>2, <3>3
        <5>2. disk' = [disk EXCEPT ![Folder[c]][n] = IF s[1].type = "E" THEN None ELSE @ \o s[1].data]
          BY <1>1, <3>1, <3>3
        <5>3. QED
          BY <3>3, <5>1, <5>2
      <4>3. disk'[Folder[c]][n] = new
        BY <3>7, <4>1, <4>2 DEF Inv, TypeOK
      <4>4. QED
        BY <3>8, <4>3 DEF Copy
    <3>10. \/ /\ ~ Asks(c)' /\ Serves(c)' /\ Served(u, off2, task', bytes)
              /\ Whole(c)' => off2[Len(u) + 1] = task'.pos
           \/ ~ Asks(c)' /\ ~ Serves(c)' /\ Sent(u, off2, bytes)
      BY <1>2, <1>7, <3>5, <3>6, <3>7, <3>8
    <3>11. /\ off2 \in [1..Len(u) + 1 -> Nat] /\ Fits(new, u, n, off2)
           /\ Whole(c)' => Exact(new, u, n, off2)
      BY <3>5, <3>6, <3>7, <3>8
    <3>12. QED
      BY <3>8, <3>9, <3>10, <3>11, CopyMoves
  <2>3. QED
    BY <2>1, <2>2
<1>9. ASSUME NEW e \in Clients, e # c, client[e].at = "reading" PROVE UNCHANGED Copy(e)
  <2>1. PICK file : disk' = [disk EXCEPT ![Folder[c]][client[c].name] = file]
    <3>1. disk' = [disk EXCEPT ![Folder[c]][client[c].name] =
                     IF m.type = "E" THEN None ELSE disk[Folder[c]][client[c].name] \o m.data]
      BY <1>1
    <3>2. QED
      BY <3>1
  <2>2. QED
    BY <1>2, <1>5, <1>9, <2>1, OthersKeepTheirs
<1>10. ASSUME NEW e \in Clients, e # c
       PROVE  /\ UNCHANGED <<client[e], unread[e]>>
              /\ client[e].at = "reading" => UNCHANGED Copy(e)
              /\ Asks(e)' => Asks(e)
              /\ Serves(e)' => Serves(e) /\ task' = task
    BY <1>2, <1>5, <1>7, <1>9, <1>10
<1>11. \A e \in Clients : CopyGrows(e)'
    BY <1>3, <1>8, <1>10, CopiesStay
<1>12. QED
    BY <1>6, <1>11 DEF CopyInv

(* What sendto does to the client it is for, and to nobody else.           *)
LEMMA SendToCopy ==
    ASSUME Inv, NEW c \in Clients, NEW run, NEW pdu, SendTo(c, run, pdu)
    PROVE  /\ \A e \in Clients :
                 /\ client'[e].at = client[e].at /\ client'[e].name = client[e].name
                 /\ client'[e].run = client[e].run /\ client'[e].size = client[e].size
                 /\ e # c => client'[e] = client[e] /\ unread'[e] = unread[e]
           /\ \/ /\ Reads(c, run) /\ unread'[c] = Append(unread[c], pdu)
                 /\ client'[c] = client[c]
              \/ /\ Reads(c, run) /\ unread'[c] = unread[c]
                 /\ client'[c].missed = TRUE
              \/ ~ Reads(c, run) /\ unread'[c] = unread[c] /\ client'[c] = client[c]
<1>1. CASE Reads(c, run) /\ Put(c, pdu) /\ UNCHANGED client
    BY <1>1 DEF Put, Inv, TypeOK
<1>2. CASE /\ Reads(c, run) /\ client' = [client EXCEPT ![c].missed = TRUE]
           /\ UNCHANGED unread
    BY <1>2 DEF Inv, TypeOK, Process
<1>3. CASE ~ Reads(c, run) /\ UNCHANGED <<client, unread>>
    BY <1>3
<1>4. QED
    BY <1>1, <1>2, <1>3 DEF SendTo

(* A client whose request arrives has got nothing so far.                  *)
LEMMA AnswerCopy ==
    ASSUME Inv, CopyInv, NEW c \in Clients, Tidy, Tidy', client[c].at = "reading", Asks(c), ~ Asks(c)',
           UNCHANGED disk, client'[c].name = client[c].name, client'[c].at = "reading",
           Whole(c)' => Whole(c),
           NEW pdu \in Pdu, pdu.type = "E", pdu.data = <<>>,
           \/ unread'[c] = Append(unread[c], pdu) /\ ~ Serves(c)'
           \/ /\ unread'[c] = unread[c]
              /\ Serves(c)' => task'.pos = 0 /\ task'.left + 0 = client'[c].size
    PROVE  CopyGrows(c)'
<1>1. PICK copy \in Seq(Names \X Nat), n \in Names, bytes \in {client'[c].size} :
        copy = Copy(c) /\ copy = Copy(c)' /\ n = client[c].name /\ bytes = client'[c].size
  <2>1. Copy(c) \in Seq(Names \X Nat) /\ client[c].name \in Names /\ Copy(c)' = Copy(c)
    BY CopyTyped DEF Copy
  <2>2. QED
    BY <2>1
<1>2. PICK off \in [1..Len(<<>>) + 1 -> Nat] :
        /\ unread[c] = <<>> /\ off[1] = 0
        /\ Fits(copy, <<>>, n, off) /\ (Whole(c) => Exact(copy, <<>>, n, off))
  <2>1. CopyGrows(c)
    BY DEF CopyInv
  <2>2. PICK off \in [1..Len(unread[c]) + 1 -> Nat] :
           /\ Fits(copy, unread[c], n, off) /\ (Whole(c) => Exact(copy, unread[c], n, off))
           /\ Waits(unread[c], off)
    BY <1>1, <2>1 DEF CopyGrows
  <2>3. unread[c] = <<>> /\ off[1] = 0
    BY <2>2 DEF Waits
  <2>4. QED
    BY <2>2, <2>3
<1>3. Len(<<>>) = 0 /\ <<>> \in Seq(Pdu) /\ 0 + 1 = 1 /\ 0 \in Nat
    OBVIOUS
<1>4. CASE unread'[c] = Append(unread[c], pdu) /\ ~ Serves(c)'
  <2>1. pdu.data = Piece(n, 0, 0)
    <3>1. Piece(n, 0, 0) \in Seq(Names \X Nat) /\ Len(Piece(n, 0, 0)) = 0
      BY PieceIs
    <3>2. QED
      BY <3>1, EmptySeq
  <2>2. PICK s \in Seq(Pdu) : s = <<>> /\ Len(s) = 0
    BY <1>3
  <2>3. off[Len(s) + 1] <= 0 /\ off[Len(s) + 1] = 0
    BY <1>2, <2>2
  <2>4. Fits(copy, s, n, off) /\ (Whole(c) => Exact(copy, s, n, off))
    BY <1>2, <2>2
  <2>5. PICK off2 \in [1..Len(Append(s, pdu)) + 1 -> Nat] :
              /\ Fits(copy, Append(s, pdu), n, off2)
              /\ Exact(copy, s, n, off) /\ off[Len(s) + 1] = 0 =>
                    Exact(copy, Append(s, pdu), n, off2)
    <3>1. PICK pos \in Nat, len \in Nat :
             pos = 0 /\ pdu.data = Piece(n, pos, len) /\ off[Len(s) + 1] <= pos
      BY <1>3, <2>1, <2>3
    <3>2. \E off2 \in [1..Len(Append(s, pdu)) + 1 -> Nat] :
              /\ Fits(copy, Append(s, pdu), n, off2)
              /\ Exact(copy, s, n, off) /\ off[Len(s) + 1] = pos =>
                    Exact(copy, Append(s, pdu), n, off2)
              /\ Starts(off2, Len(s) + 1, pos) /\ Starts(off2, Len(s) + 2, pos + len)
      BY <2>4, <3>1, FitsAppend
    <3>3. QED
      BY <3>1, <3>2
  <2>6. PICK u : u = Append(s, pdu) /\ Len(u) = 1 /\ u[1] = pdu
    <3>1. Len(Append(s, pdu)) = Len(s) + 1 /\ Append(s, pdu)[Len(s) + 1] = pdu
      BY AppendProperties
    <3>2. QED
      BY <2>2, <3>1
  <2>7. Sent(u, off2, bytes)
    BY <2>6 DEF Sent
  <2>8. /\ off2 \in [1..Len(u) + 1 -> Nat] /\ Fits(copy, u, n, off2)
        /\ Whole(c)' => Exact(copy, u, n, off2)
    BY <2>3, <2>4, <2>5, <2>6
  <2>9. u = unread'[c]
    BY <1>2, <1>4, <2>2, <2>6
  <2>10. QED
    BY <1>1, <1>4, <2>7, <2>8, <2>9, CopyMoves
<1>5. CASE /\ unread'[c] = unread[c]
           /\ Serves(c)' => task'.pos = 0 /\ task'.left + 0 = client'[c].size
  <2>1. PICK s : s = <<>> /\ Len(s) = 0
    BY <1>3
  <2>2. /\ off \in [1..Len(s) + 1 -> Nat] /\ Fits(copy, s, n, off) /\ off[Len(s) + 1] = 0
        /\ Whole(c)' => Exact(copy, s, n, off)
    BY <1>2, <1>3, <2>1
  <2>3. Sent(s, off, bytes) /\ s = unread'[c]
    BY <1>2, <1>5, <2>1 DEF Sent
  <2>4. Serves(c)' => Served(s, off, task', bytes) /\ off[Len(s) + 1] = task'.pos
    BY <1>1, <1>5, <2>1, <2>2 DEF Served
  <2>5. CASE Serves(c)'
    BY <1>1, <2>2, <2>3, <2>4, <2>5, CopyMoves
  <2>6. CASE ~ Serves(c)'
    BY <1>1, <2>2, <2>3, <2>6, CopyMoves
  <2>7. QED
    BY <2>5, <2>6
<1>6. QED
    BY <1>4, <1>5

LEMMA ReceiveCopy == ASSUME Inv, CopyInv, Receive PROVE CopyInv'
<1>1. PICK k \in DOMAIN requests :
        LET r == requests[k] IN
          /\ Arrives(requests, k)
          /\ requests' = RemoveAt(requests, k)
          /\ \/ /\ size[r.name] = None
                /\ SendTo(r.from, r.run, [type |-> "E", data |-> <<>>])
                /\ UNCHANGED task
             \/ /\ size[r.name] # None
                /\ task' = IF size[r.name] = 0 THEN None
                           ELSE [to |-> r.from, run |-> r.run, name |-> r.name,
                                 left |-> size[r.name], pos |-> 0]
                /\ client' = IF Reads(r.from, r.run)
                             THEN [client EXCEPT ![r.from].size = size[r.name]]
                             ELSE client
                /\ UNCHANGED unread
    BY DEF Receive
<1>2. UNCHANGED <<up, size, disk>> /\ task = None
    BY DEF Receive
<1>3. PICK r \in [from : Clients, run : Nat, name : Names], c \in Clients, pdu \in Pdu :
        /\ r = requests[k] /\ c = r.from /\ r.name \in Names /\ k \in 1..Len(requests)
        /\ pdu = [type |-> "E", data |-> <<>>] /\ pdu.type = "E" /\ pdu.data = <<>>
  <2>1. requests \in Seq([from : Clients, run : Nat, name : Names])
    BY DEF Inv, TypeOK
  <2>2. requests[k] \in [from : Clients, run : Nat, name : Names] /\ k \in 1..Len(requests)
    BY <2>1, ElementOfSeq, LenProperties
  <2>3. [type |-> "E", data |-> <<>>] \in Pdu
    BY DEF Pdu
  <2>4. QED
    BY <2>2, <2>3
<1>4. /\ UNCHANGED accidents \/ \E kind \in Kinds : Accident(kind)
      /\ Tidy' => Tidy
  <2>1. UNCHANGED accidents \/ \E kind \in Kinds : Accident(kind)
    BY <1>1, ArrivesInOrder
  <2>2. QED
    BY <2>1, NothingForgotten
<1>5. \/ /\ size[r.name] = None /\ UNCHANGED task /\ SendTo(c, r.run, pdu)
      \/ /\ size[r.name] # None /\ UNCHANGED unread
         /\ task' = IF size[r.name] = 0 THEN None
                    ELSE [to |-> c, run |-> r.run, name |-> r.name,
                          left |-> size[r.name], pos |-> 0]
         /\ client' = IF Reads(c, r.run) THEN [client EXCEPT ![c].size = size[r.name]]
                      ELSE client
    BY <1>1, <1>3
<1>6. \A e \in Clients : /\ client'[e].run = client[e].run /\ client'[e].at = client[e].at
                         /\ client'[e].name = client[e].name
                         /\ e # c => client'[e] = client[e] /\ unread'[e] = unread[e]
  <2>1. CASE SendTo(c, r.run, pdu)
    BY <2>1, SendToCopy
  <2>2. CASE /\ UNCHANGED unread
             /\ client' = IF Reads(c, r.run) THEN [client EXCEPT ![c].size = size[r.name]] ELSE client
    BY <2>2 DEF Inv, TypeOK, Process
  <2>3. QED
    BY <1>5, <2>1, <2>2
<1>7. /\ \A e \in Clients : Asks(e)' => Asks(e)
      /\ RequestsAlone'
      /\ Tidy => (r.run = client[c].run => ~ Asks(c)')
  <2>1. /\ \A e \in Clients : Asks(e)' => Asks(e)
        /\ RequestsAlone /\ (Tidy' => Tidy) => RequestsAlone'
        /\ RequestsAlone /\ Tidy => \A e \in Clients :
              requests[k].from = e /\ requests[k].run = client[e].run => ~ Asks(e)'
    BY <1>1, <1>6, RequestRemoved
  <2>2. QED
    BY <1>3, <1>4, <2>1 DEF CopyInv
<1>8. /\ task' # None => /\ task'.to = c /\ task'.run = r.run /\ task'.pos = 0
                         /\ task'.left = size[r.name] /\ size[r.name] # 0 /\ size[r.name] # None
      /\ size[r.name] # None => size[r.name] \in Nat
    BY <1>2, <1>3, <1>5 DEF Inv, TypeOK
<1>9. TaskGoesOn'
  <2>1. ASSUME task' # None PROVE task'.left > 0
    <3>1. task'.left = size[r.name] /\ size[r.name] \in Nat /\ size[r.name] # 0
      BY <1>8, <2>1
    <3>2. QED
      BY <3>1
  <2>2. QED
    BY <2>1 DEF TaskGoesOn
<1>10. Serves(c)' => r.run = client[c].run /\ task'.pos = 0 /\ task'.left = size[r.name]
    BY <1>6, <1>8 DEF Serves
<1>11. CopyGrows(c)'
  <2>1. CASE ~ Tidy' \/ client'[c].at # "reading"
    BY <2>1, CopyElsewhere
  <2>2. CASE Tidy' /\ client[c].at = "reading" /\ r.run # client[c].run
    <3>1. ~ Reads(c, r.run)
      BY <2>2 DEF Reads
    <3>2. client'[c] = client[c] /\ unread'[c] = unread[c]
      <4>1. CASE SendTo(c, r.run, pdu)
        BY <3>1, <4>1, SendToCopy
      <4>2. CASE UNCHANGED <<unread, client>>
        BY <4>2
      <4>3. QED
        BY <1>5, <3>1, <4>1, <4>2
    <3>3. Whole(c)' => Whole(c)
      BY <1>4, <3>2, NothingForgotten
    <3>4. UNCHANGED Copy(c)
      BY <1>2, <3>2 DEF Copy
    <3>5. CopyGrows(c) /\ ~ Serves(c)'
      BY <1>10, <2>2 DEF CopyInv
    <3>6. QED
      BY <1>4, <1>7, <3>2, <3>3, <3>4, <3>5, CopyStays
  <2>3. CASE Tidy' /\ client[c].at = "reading" /\ r.run = client[c].run
    <3>1. Asks(c) /\ ~ Asks(c)' /\ Tidy /\ client'[c].at = "reading"
          /\ client'[c].name = client[c].name /\ UNCHANGED disk
      BY <1>2, <1>3, <1>4, <1>6, <1>7, <2>3 DEF Asks
    <3>2. /\ Whole(c)' => Whole(c)
          /\ \/ unread'[c] = Append(unread[c], pdu) /\ ~ Serves(c)'
             \/ /\ unread'[c] = unread[c]
                /\ Serves(c)' => task'.pos = 0 /\ task'.left + 0 = client'[c].size
      <4>1. CASE SendTo(c, r.run, pdu) /\ UNCHANGED task
        <5>1. ~ Serves(c)'
          BY <1>2, <4>1 DEF Serves
        <5>2. \/ unread'[c] = Append(unread[c], pdu) /\ client'[c] = client[c]
              \/ unread'[c] = unread[c] /\ client'[c].missed = TRUE
              \/ unread'[c] = unread[c] /\ client'[c] = client[c]
          BY <4>1, SendToCopy
        <5>3. Whole(c)' => Whole(c)
          <6>1. CASE client'[c] = client[c]
            BY <1>4, <6>1, NothingForgotten
          <6>2. CASE client'[c].missed = TRUE
            BY <6>2 DEF Whole
          <6>3. QED
            BY <5>2, <6>1, <6>2
        <5>4. QED
          BY <5>1, <5>2, <5>3
      <4>2. CASE /\ size[r.name] # None /\ UNCHANGED unread
                 /\ client' = IF Reads(c, r.run) THEN [client EXCEPT ![c].size = size[r.name]]
                              ELSE client
        <5>1. client'[c].size = size[r.name] /\ client'[c].missed = client[c].missed
          BY <2>3, <4>2 DEF Reads, Inv, TypeOK, Process
        <5>2. size[r.name] + 0 = size[r.name]
          BY <1>8, <4>2
        <5>3. Whole(c)' => Whole(c)
          BY <1>4, <5>1, NothingForgotten
        <5>4. QED
          BY <1>10, <4>2, <5>1, <5>2, <5>3
      <4>3. QED
        BY <1>5, <4>1, <4>2
    <3>3. QED
      BY <1>3, <2>3, <3>1, <3>2, AnswerCopy
  <2>4. QED
    BY <1>6, <2>1, <2>2, <2>3
<1>12. ASSUME NEW e \in Clients, e # c
       PROVE  /\ UNCHANGED <<client[e], unread[e]>>
              /\ client[e].at = "reading" => UNCHANGED Copy(e)
              /\ Asks(e)' => Asks(e)
              /\ Serves(e)' => Serves(e) /\ task' = task
  <2>1. ~ Serves(e)'
    BY <1>8, <1>12 DEF Serves
  <2>2. client'[e] = client[e] /\ unread'[e] = unread[e]
    BY <1>6, <1>12
  <2>3. UNCHANGED Copy(e)
    BY <1>2, <2>2 DEF Copy
  <2>4. QED
    BY <1>7, <2>1, <2>2, <2>3
<1>13. \A e \in Clients : CopyGrows(e)'
    BY <1>4, <1>11, <1>12, CopiesStay
<1>14. QED
    BY <1>7, <1>9, <1>13 DEF CopyInv

LEMMA SendPieceCopy == ASSUME Inv, CopyInv, SendPiece PROVE CopyInv'
<1> DEFINE len == ReadLength(task)
           pdu == [type |-> IF IsFinal(task) THEN "F" ELSE "D",
                   data |-> Piece(task.name, task.pos, len)]
<1>1. /\ task # None /\ UNCHANGED <<up, size, requests, disk, accidents>>
      /\ SendTo(task.to, task.run, pdu)
      /\ task' = IF GoesOn(task)
                 THEN [to |-> task.to, run |-> task.run, name |-> task.name,
                       left |-> task.left - len, pos |-> task.pos + len]
                 ELSE None
    BY DEF SendPiece
<1>2. PICK c \in Clients, n \in Names, left \in Nat, pos \in Nat :
        /\ c = task.to /\ n = task.name /\ left = task.left /\ pos = task.pos /\ left > 0
        /\ task.run = client[c].run => client[c].name = n
  <2>1. /\ task.to \in Clients /\ task.name \in Names /\ task.left \in Nat /\ task.pos \in Nat
        /\ task.run = client[task.to].run => client[task.to].name = task.name
    BY <1>1 DEF Inv, TypeOK, Task, TaskAsked, Origin
  <2>2. task.left > 0
    BY <1>1 DEF CopyInv, TaskGoesOn
  <2>3. QED
    BY <2>1, <2>2
<1>3. len \in Nat
    BY <1>1, PieceLength
<1>4. (IsFinal(task) <=> left - len = 0) /\ (GoesOn(task) <=> left - len > 0)
    BY <1>2 DEF IsFinal, GoesOn
<1> HIDE DEF len
<1>5. /\ pdu \in Pdu /\ pdu.data = Piece(n, pos, len)
      /\ pdu.type = "F" <=> left - len = 0
  <2>1. Piece(n, pos, len) \in Seq(Names \X Nat)
    BY <1>2, <1>3, PieceIs
  <2>2. QED
    BY <1>2, <1>4, <2>1 DEF Pdu
<1> HIDE DEF pdu
<1>6. /\ \A e \in Clients :
              /\ client'[e].at = client[e].at /\ client'[e].name = client[e].name
              /\ client'[e].run = client[e].run /\ client'[e].size = client[e].size
              /\ e # c => client'[e] = client[e] /\ unread'[e] = unread[e]
      /\ \/ /\ Reads(c, task.run) /\ unread'[c] = Append(unread[c], pdu)
            /\ client'[c] = client[c]
         \/ /\ Reads(c, task.run) /\ unread'[c] = unread[c]
            /\ client'[c].missed = TRUE
         \/ ~ Reads(c, task.run) /\ unread'[c] = unread[c] /\ client'[c] = client[c]
    BY <1>1, <1>2, SendToCopy
<1>7. Tidy' = Tidy /\ RequestsAlone' /\ \A e \in Clients : Asks(e)' = Asks(e)
    BY <1>1, <1>6 DEF CopyInv, Tidy, Happened, RequestsAlone, Asks
<1>8. task' # None => /\ task'.to = c /\ task'.run = task.run
                      /\ task'.left = left - len /\ task'.pos = pos + len
                      /\ left - len > 0
  <2>1. CASE GoesOn(task)
    <3>1. task' = [to |-> task.to, run |-> task.run, name |-> task.name,
                   left |-> task.left - len, pos |-> task.pos + len]
      BY <1>1, <2>1
    <3>2. /\ task'.to = c /\ task'.run = task.run
          /\ task'.left = left - len /\ task'.pos = pos + len
      BY <1>2, <3>1
    <3>3. QED
      BY <1>4, <2>1, <3>2
  <2>2. CASE ~ GoesOn(task)
    BY <1>1, <1>4, <2>2
  <2>3. QED
    BY <2>1, <2>2
<1>9. TaskGoesOn'
    BY <1>8 DEF TaskGoesOn
<1>10. CopyGrows(c)'
  <2>1. CASE ~ Tidy' \/ client'[c].at # "reading"
    BY <2>1, CopyElsewhere
  <2>2. CASE Tidy' /\ client[c].at = "reading" /\ task.run # client[c].run
    <3>1. client'[c] = client[c] /\ unread'[c] = unread[c]
      BY <1>6, <2>2 DEF Reads
    <3>2. UNCHANGED Copy(c) /\ (Whole(c)' => Whole(c)) /\ CopyGrows(c)
      BY <1>1, <3>1, NothingForgotten DEF Copy, CopyInv
    <3>3. ~ Serves(c)'
      BY <1>6, <1>8, <2>2 DEF Serves
    <3>4. QED
      BY <1>7, <3>1, <3>2, <3>3, CopyStays
  <2>3. CASE Tidy' /\ client[c].at = "reading" /\ task.run = client[c].run
    <3>1. Serves(c) /\ Reads(c, task.run) /\ client[c].name = n /\ Tidy
      BY <1>1, <1>2, <1>7, <2>3 DEF Serves, Reads
    <3>2. PICK copy \in Seq(Names \X Nat), s \in Seq(Pdu), bytes \in {client[c].size} :
            /\ copy = Copy(c) /\ copy = Copy(c)' /\ s = unread[c]
            /\ bytes = client[c].size /\ bytes = client'[c].size
      <4>1. Copy(c) \in Seq(Names \X Nat) /\ Copy(c)' = Copy(c)
        BY <1>1, <1>6, <2>3, CopyTyped DEF Copy
      <4>2. unread[c] \in Seq(Pdu)
        BY DEF Inv, TypeOK
      <4>3. QED
        BY <1>6, <4>1, <4>2
    <3>3. PICK off \in [1..Len(s) + 1 -> Nat] :
            /\ Fits(copy, s, n, off) /\ (Whole(c) => Exact(copy, s, n, off))
            /\ ~ Asks(c) /\ Served(s, off, task, bytes)
            /\ Whole(c) => off[Len(s) + 1] = pos
      <4>1. CopyGrows(c)
        BY DEF CopyInv
      <4>2. QED
        BY <1>2, <2>3, <3>1, <3>2, <4>1 DEF CopyGrows
    <3>4. off[Len(s) + 1] <= pos /\ left + pos = bytes /\ \A x \in 1..Len(s) : s[x].type # "F"
      BY <1>2, <3>3 DEF Served
    <3>5. Serves(c)' <=> task' # None
      BY <1>6, <1>8, <2>3 DEF Serves
    <3>6. ~ Asks(c)' /\ n = client'[c].name
      BY <1>6, <1>7, <3>1, <3>3
    <3>7. CASE unread'[c] = Append(unread[c], pdu) /\ client'[c] = client[c]
      <4>1. PICK off2 \in [1..Len(Append(s, pdu)) + 1 -> Nat] :
              /\ Fits(copy, Append(s, pdu), n, off2)
              /\ Exact(copy, s, n, off) /\ off[Len(s) + 1] = pos =>
                    Exact(copy, Append(s, pdu), n, off2)
              /\ Starts(off2, Len(s) + 1, pos) /\ Starts(off2, Len(s) + 2, pos + len)
        BY <1>3, <1>5, <3>3, <3>4, FitsAppend
      <4>2. PICK l \in Nat, u \in Seq(Pdu) :
              /\ l = Len(s) /\ u = Append(s, pdu) /\ Len(u) = l + 1 /\ u[l + 1] = pdu
              /\ \A x \in 1..l : u[x] = s[x]
        <5>1. PICK l \in Nat, p \in Pdu : l = Len(s) /\ p = pdu
          BY <1>5, LenProperties
        <5>2. /\ Append(s, p) \in Seq(Pdu) /\ Len(Append(s, p)) = Len(s) + 1
              /\ Append(s, p)[Len(s) + 1] = p
              /\ \A x \in 1..Len(s) : Append(s, p)[x] = s[x]
          BY AppendProperties
        <5>3. QED
          BY <5>1, <5>2
      <4>3. off2[l + 1] = pos /\ off2[l + 2] = pos + len /\ (l + 1) + 1 = l + 2
            /\ \A x \in 1..l + 1 : x \in 1..l \/ x = l + 1
        BY <4>1, <4>2 DEF Starts
      <4>4. Whole(c)' => Whole(c)
        BY <1>1, <3>7, NothingForgotten
      <4>5. /\ off2 \in [1..Len(u) + 1 -> Nat] /\ Fits(copy, u, n, off2) /\ u = unread'[c]
            /\ Whole(c)' => Exact(copy, u, n, off2)
        BY <3>2, <3>3, <3>7, <4>1, <4>2, <4>4
      <4>6. CASE task' # None
        <5>1. pdu.type # "F"
          BY <1>5, <1>8, <4>6
        <5>2. \A x \in 1..l + 1 : u[x].type # "F"
          BY <3>4, <4>2, <4>3, <5>1
        <5>3. off2[Len(u) + 1] <= task'.pos /\ off2[Len(u) + 1] = task'.pos
          BY <1>3, <1>8, <4>2, <4>3, <4>6
        <5>4. task'.left + task'.pos = bytes
          <6>1. (left - len) + (pos + len) = left + pos
            BY <1>3
          <6>2. QED
            BY <1>8, <3>4, <4>6, <6>1
        <5>5. Served(u, off2, task', bytes)
          BY <4>2, <5>2, <5>3, <5>4 DEF Served
        <5>6. QED
          BY <3>2, <3>5, <3>6, <4>5, <4>6, <5>3, <5>5, CopyMoves
      <4>7. CASE task' = None
        <5>1. ASSUME NEW x \in 1..l + 1, u[x].type = "F"
              PROVE  x = l + 1 /\ u[x].data # <<>> /\ off2[x] + Len(u[x].data) = bytes
          <6>1. x = l + 1 /\ pdu.type = "F"
            BY <3>4, <4>2, <4>3, <5>1
          <6>2. left = len
            BY <1>3, <1>5, <6>1
          <6>3. Len(pdu.data) = len
            <7>1. Len(Piece(n, pos, len)) = len
              BY <1>3, PieceIs
            <7>2. QED
              BY <1>5, <7>1
          <6>4. pos + len = bytes /\ len # 0 /\ Len(<<>>) = 0
            BY <1>2, <1>3, <3>4, <6>2
          <6>5. QED
            BY <4>2, <4>3, <6>1, <6>3, <6>4
        <5>2. Sent(u, off2, bytes)
          BY <4>2, <5>1 DEF Sent
        <5>3. QED
          BY <3>2, <3>5, <3>6, <4>5, <4>7, <5>2, CopyMoves
      <4>8. QED
        BY <4>6, <4>7
    <3>8. CASE unread'[c] = unread[c] /\ client'[c].missed = TRUE
      <4>1. ~ Whole(c)'
        BY <3>8 DEF Whole
      <4>2. CASE task' # None
        <5>1. off[Len(s) + 1] <= task'.pos
          <6>1. off[Len(s) + 1] \in Nat
            BY LenProperties
          <6>2. task'.pos = pos + len
            BY <1>8, <4>2
          <6>3. QED
            BY <1>3, <3>4, <6>1, <6>2
        <5>2. task'.left + task'.pos = bytes
          <6>1. (left - len) + (pos + len) = left + pos
            BY <1>3
          <6>2. QED
            BY <1>8, <3>4, <4>2, <6>1
        <5>3. Served(s, off, task', bytes)
          BY <3>4, <5>1, <5>2 DEF Served
        <5>4. QED
          BY <3>2, <3>3, <3>5, <3>6, <3>8, <4>1, <4>2, <5>3, CopyMoves
      <4>3. CASE task' = None
        <5>1. Sent(s, off, bytes)
          BY <3>4 DEF Sent
        <5>2. QED
          BY <3>2, <3>3, <3>5, <3>6, <3>8, <4>1, <4>3, <5>1, CopyMoves
      <4>4. QED
        BY <4>2, <4>3
    <3>9. QED
      BY <1>6, <3>1, <3>7, <3>8
  <2>4. QED
    BY <1>6, <2>1, <2>2, <2>3
<1>11. ASSUME NEW e \in Clients, e # c
       PROVE  /\ UNCHANGED <<client[e], unread[e]>>
              /\ client[e].at = "reading" => UNCHANGED Copy(e)
              /\ Asks(e)' => Asks(e)
              /\ Serves(e)' => Serves(e) /\ task' = task
  <2>1. ~ Serves(e)'
    BY <1>8, <1>11 DEF Serves
  <2>2. client'[e] = client[e] /\ unread'[e] = unread[e]
    BY <1>6, <1>11
  <2>3. UNCHANGED Copy(e)
    BY <1>1, <2>2 DEF Copy
  <2>4. QED
    BY <1>7, <2>1, <2>2, <2>3
<1>12. \A e \in Clients : CopyGrows(e)'
    BY <1>1, <1>10, <1>11, CopiesStay
<1>13. QED
    BY <1>7, <1>9, <1>12 DEF CopyInv

LEMMA InitCopy == Init => CopyInv
BY DEF Init, CopyInv, RequestsAlone, TaskGoesOn, CopyGrows

LEMMA StepCopy == Inv /\ CopyInv /\ [Next]_vars => CopyInv'
<1>1. ASSUME Inv, CopyInv, UNCHANGED vars PROVE CopyInv'
  <2>1. UNCHANGED <<size, task, requests, client, unread, disk, accidents>>
    BY <1>1 DEF vars
  <2>2. RequestsAlone' /\ TaskGoesOn'
    BY <1>1, <2>1 DEF CopyInv, RequestsAlone, TaskGoesOn, Tidy, Happened
  <2>3. \A e \in Clients : Asks(e)' = Asks(e) /\ Serves(e)' = Serves(e)
    BY <2>1 DEF Asks, Serves
  <2>4. QED
    BY <1>1, <2>1, <2>2, <2>3, QuietCopy
<1>2. ASSUME Inv, CopyInv, Next PROVE CopyInv'
    BY <1>2, ReceiveCopy, SendPieceCopy, LoseCopy, DuplicateCopy, EditCopy, StopCopy, BounceCopy,
       StartCopy, ReadCopy, InterruptCopy DEF Next
<1>3. QED
    BY <1>1, <1>2

LEMMA AlwaysCopy == Spec => []CopyInv
<1>1. Spec => Init /\ [][Next]_vars /\ []Inv
    BY Always DEF Spec
<1>2. QED
    BY <1>1, InitCopy, StepCopy, PTL

(* Only a read of its own ends a client's reading well. *)
LEMMA OnlyReadReceives ==
    ASSUME Inv, Next, NEW c \in Clients, client[c].at = "reading", client'[c].at = "received"
    PROVE  Read(c)
<1>1. ASSUME Receive \/ SendPiece PROVE FALSE
  <2>1. CASE SendPiece
    <3>1. task.to \in Clients
      BY <2>1 DEF SendPiece, Inv, TypeOK, Task
    <3>2. client'[c].at = client[c].at
      BY <2>1, <3>1, SendToCopy DEF SendPiece
    <3>3. QED
      BY <3>2
  <2>2. CASE Receive
    <3>1. PICK r \in [from : Clients, run : Nat, name : Names] :
             \/ SendTo(r.from, r.run, [type |-> "E", data |-> <<>>])
             \/ client' = IF Reads(r.from, r.run)
                          THEN [client EXCEPT ![r.from].size = size[r.name]] ELSE client
      <4>1. \A k \in DOMAIN requests : requests[k] \in [from : Clients, run : Nat, name : Names]
        <5>1. PICK s \in Seq([from : Clients, run : Nat, name : Names]) : s = requests
          BY DEF Inv, TypeOK
        <5>2. DOMAIN s = 1..Len(s) /\ \A k \in 1..Len(s) : s[k] \in [from : Clients, run : Nat, name : Names]
          BY ElementOfSeq, LenProperties
        <5>3. QED
          BY <5>1, <5>2
      <4>2. QED
        BY <2>2, <4>1 DEF Receive
    <3>2. CASE SendTo(r.from, r.run, [type |-> "E", data |-> <<>>])
      <4>1. client'[c].at = client[c].at
        BY <3>2, SendToCopy
      <4>2. QED
        BY <4>1
    <3>3. CASE client' = IF Reads(r.from, r.run)
                         THEN [client EXCEPT ![r.from].size = size[r.name]] ELSE client
      BY <3>3 DEF Inv, TypeOK, Process
    <3>4. QED
      BY <3>1, <3>2, <3>3
  <2>3. QED
    BY <1>1, <2>1, <2>2
<1>2. ~ Lose /\ ~ Duplicate /\ ~ Edit /\ ~ Stop
    BY DEF Lose, Duplicate, Edit, Stop
<1>3. ~ Bounce
  <2>1. ASSUME Bounce PROVE FALSE
    <3>1. PICK e : client' = [client EXCEPT ![e].at = "failed"] \/ client' = client
      BY <2>1 DEF Bounce, Exit
    <3>2. QED
      BY <3>1 DEF Inv, TypeOK, Process
  <2>2. QED
    BY <2>1
<1>4. ASSUME NEW e \in Clients, Start(e) \/ Interrupt(e) PROVE FALSE
  <2>1. CASE Start(e)
    BY <2>1 DEF Start, Inv, TypeOK, Process
  <2>2. CASE Interrupt(e)
    BY <2>2 DEF Interrupt, Exit, Inv, TypeOK, Process
  <2>3. QED
    BY <1>4, <2>1, <2>2
<1>5. ASSUME NEW e \in Clients, Read(e) PROVE e = c
    BY <1>5 DEF Read, Exit, Inv, TypeOK, Process
<1>6. QED
    BY <1>1, <1>2, <1>3, <1>4, <1>5 DEF Next

(* The 'F' that a client reads ends with the last byte that was counted.   *)
LEMMA EndsWell ==
    ASSUME Inv, CopyInv, NEW c \in Clients, Read(c), client'[c].at = "received", Tidy'
    PROVE  /\ Whole(c) => Copy(c)' = Piece(client[c].name, 0, client[c].size)
           /\ Increasing(Copy(c)') /\ Last(Copy(c)')[2] = client[c].size
<1>1. PICK k \in DOMAIN unread[c] :
        LET m == unread[c][k] IN
          /\ Arrives(unread[c], k)
          /\ disk' = [disk EXCEPT ![Folder[c]][client[c].name] =
                         IF m.type = "E" THEN None ELSE @ \o m.data]
          /\ \/ m.type = "F" /\ Exit(c, "received")
             \/ m.type = "E" /\ Exit(c, "rejected")
             \/ /\ m.type = "D"
                /\ unread' = [unread EXCEPT ![c] = RemoveAt(@, k)]
                /\ UNCHANGED client
    BY DEF Read
<1>2. client[c].at = "reading" /\ unread[c] \in Seq(Pdu)
    BY DEF Read, Inv, TypeOK
<1>3. k = 1 /\ Tidy
  <2>1. /\ UNCHANGED accidents \/ \E kind \in Kinds : Accident(kind)
        /\ Tidy' => k = 1
    BY <1>1, ArrivesInOrder
  <2>2. QED
    BY <2>1, NothingForgotten
<1>4. unread[c][1].type = "F" /\ Exit(c, "received")
  <2>1. ~ Exit(c, "rejected") /\ client' # client
    BY <1>2 DEF Exit, Inv, TypeOK, Process
  <2>2. QED
    BY <1>1, <1>3, <2>1
<1>5. PICK s \in Seq(Pdu), copy \in Seq(Names \X Nat), n \in Names, bytes \in Nat :
        /\ s = unread[c] /\ copy = Copy(c) /\ n = client[c].name /\ bytes = client[c].size
        /\ copy = disk[Folder[c]][n] /\ s[1].type = "F"
  <2>1. client[c].size \in Nat
    BY DEF Inv, TypeOK, Process
  <2>2. QED
    BY <1>2, <1>4, <2>1, CopyTyped
<1>6. 1 \in 1..Len(s)
    BY <1>1, <1>3, <1>5, LenProperties
<1>7. PICK off \in [1..Len(s) + 1 -> Nat] :
        /\ Fits(copy, s, n, off) /\ (Whole(c) => Exact(copy, s, n, off))
        /\ Sent(s, off, bytes)
  <2>1. CopyGrows(c)
    BY DEF CopyInv
  <2>2. ASSUME NEW off, NEW t PROVE ~ Waits(s, off) /\ ~ Served(s, off, t, bytes)
    BY <1>5, <1>6 DEF Waits, Served
  <2>3. QED
    BY <1>2, <1>3, <1>5, <2>1, <2>2 DEF CopyGrows
<1>8. Len(s) = 1 /\ s[1].data # <<>> /\ off[1] + Len(s[1].data) = bytes
    BY <1>5, <1>6, <1>7 DEF Sent
<1>9. PICK len \in Nat, a \in Nat :
        /\ len = Len(s[1].data) /\ a = off[1] /\ a + len = bytes /\ len # 0
        /\ s[1].data = Piece(n, a, len)
  <2>1. s[1] \in Pdu
    BY <1>6, ElementOfSeq
  <2>2. s[1].data \in Seq(Names \X Nat)
    BY <2>1 DEF Pdu
  <2>3. Len(s[1].data) \in Nat /\ Len(s[1].data) # 0
    BY <1>8, <2>2, LenProperties, EmptySeq
  <2>4. off[1] \in Nat
    BY <1>8
  <2>5. s[1].data = Piece(n, off[1], Len(s[1].data))
    BY <1>6, <1>7 DEF Fits
  <2>6. QED
    BY <1>8, <2>3, <2>4, <2>5
<1>10. Copy(c)' = copy \o Piece(n, a, len)
  <2>1. Folder[c] \in Folders /\ client'[c].name = n
    BY <1>2, <1>4, <1>5, CopyTyped DEF Exit, Inv, TypeOK, Process
  <2>2. disk' = [disk EXCEPT ![Folder[c]][n] = copy \o s[1].data]
    <3>1. disk' = [disk EXCEPT ![Folder[c]][n] = IF s[1].type = "E" THEN None ELSE @ \o s[1].data]
      BY <1>1, <1>3, <1>5
    <3>2. QED
      BY <1>5, <3>1
  <2>3. disk'[Folder[c]][n] = copy \o s[1].data
    BY <2>1, <2>2 DEF Inv, TypeOK
  <2>4. QED
    BY <1>9, <2>1, <2>3 DEF Copy
<1>11. Increasing(copy) /\ \A x \in 1..Len(copy) : copy[x][2] <= a
    BY <1>7, <1>9 DEF Fits
<1>12. PICK new \in Seq(Names \X Nat) :
         /\ new = Copy(c)' /\ Increasing(new)
         /\ copy = Piece(n, 0, a) => new = Piece(n, 0, a + len)
  <2>1. LET new == copy \o Piece(n, a, len) IN
           /\ new \in Seq(Names \X Nat) /\ Increasing(new)
           /\ \A x \in 1..Len(new) : new[x][2] <= a + len
           /\ copy = Piece(n, 0, a) => new = Piece(n, 0, a + len)
    BY <1>11, PieceJoins
  <2>2. QED
    BY <1>10, <2>1
<1>13. Whole(c) => copy = Piece(n, 0, a)
    BY <1>7, <1>9 DEF Exact
<1>14. Last(new)[2] = bytes
  <2>1. PICK p \in Seq(Names \X Nat), q \in Nat :
          p = Piece(n, a, len) /\ Len(p) = len /\ p[len][2] = a + len /\ q = Len(copy)
    <3>1. len \in 1..len
      BY <1>9
    <3>2. QED
      BY <3>1, PieceIs, LenProperties
  <2>2. Len(copy \o p) = Len(copy) + Len(p) /\ (copy \o p)[Len(copy) + len] = p[len]
    <3>1. /\ Len(copy \o p) = Len(copy) + Len(p)
          /\ \A x \in 1..Len(p) : (copy \o p)[Len(copy) + x] = p[x]
      BY Joined
    <3>2. len \in 1..Len(p)
      BY <1>9, <2>1
    <3>3. QED
      BY <3>1, <3>2
  <2>3. new[Len(new)] = p[len]
    BY <1>10, <1>12, <2>1, <2>2
  <2>4. QED
    BY <1>9, <2>1, <2>3 DEF Last
<1>15. QED
    BY <1>5, <1>9, <1>12, <1>13, <1>14

(* A client that has read its 'F' has the file that the server opened, all *)
(* of it and in order, whoever else was served, whatever became of the     *)
(* file or of the server meanwhile - unless a datagram was lost, doubled,  *)
(* overtaken, or found the receive buffer full.                            *)
THEOREM CopiesAreWhole == Spec => CopyIsWhole
<1>1. ASSUME Inv, CopyInv, Next, NEW c \in Clients,
             client[c].at = "reading", client'[c].at = "received",
             ~ Happened({"lose", "duplicate", "reorder"})', ~ client[c].missed
      PROVE  Copy(c)' = Piece(client[c].name, 0, client[c].size)
  <2>1. Read(c)
    BY <1>1, OnlyReadReceives
  <2>2. Tidy' /\ ~ Happened({"lose"})'
    BY <1>1 DEF Tidy, Happened
  <2>3. UNCHANGED accidents \/ \E kind \in Kinds : Accident(kind)
    <3>1. PICK k : Arrives(unread[c], k)
      BY <2>1 DEF Read
    <3>2. QED
      BY <1>1, <3>1, ArrivesInOrder
  <2>4. ~ Happened({"lose"})
    BY <1>1, <2>2, <2>3, HistoryGrows DEF Inv, TypeOK
  <2>5. Whole(c)
    BY <1>1, <2>4 DEF Whole
  <2>6. QED
    BY <1>1, <2>1, <2>2, <2>5, EndsWell
<1>2. Inv /\ CopyInv /\ [Next]_vars =>
      [\A c \in Clients :
          client[c].at = "reading" /\ client'[c].at = "received"
          /\ ~ Happened({"lose", "duplicate", "reorder"})' /\ ~ client[c].missed
          => Copy(c)' = Piece(client[c].name, 0, client[c].size)]_vars
    BY <1>1
<1>3. QED
    BY <1>2, Always, AlwaysCopy, PTL DEF Spec, CopyIsWhole

(* Even if datagrams are lost, what a client has when it reads its 'F' is  *)
(* in the order of the file and ends with the last byte of it.             *)
THEOREM LastByteArrived == Spec => LastArrived
<1>1. ASSUME Inv, CopyInv, Next, NEW c \in Clients,
             client[c].at = "reading", client'[c].at = "received",
             ~ Happened({"duplicate", "reorder"})'
      PROVE  Increasing(Copy(c)') /\ Last(Copy(c)')[2] = client[c].size
    BY <1>1, OnlyReadReceives, EndsWell DEF Tidy
<1>2. Inv /\ CopyInv /\ [Next]_vars =>
      [\A c \in Clients :
          client[c].at = "reading" /\ client'[c].at = "received"
          /\ ~ Happened({"duplicate", "reorder"})'
          => Increasing(Copy(c)') /\ Last(Copy(c)')[2] = client[c].size]_vars
    BY <1>1
<1>3. QED
    BY <1>2, Always, AlwaysCopy, PTL DEF Spec, LastArrived

=============================================================================
