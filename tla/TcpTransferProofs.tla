--------------------------- MODULE TcpTransferProofs ---------------------------
(***************************************************************************)
(* Proofs about TcpTransfer, for any clients, files and packet length.     *)
(***************************************************************************)
EXTENDS TcpTransfer, SequenceTheorems, TLAPS

LEMMA MinOfTwo ==
    ASSUME NEW a \in Nat, NEW b \in Nat
    PROVE  Min({a, b}) = IF a <= b THEN a ELSE b
<1>1. CASE a <= b
  <2>1. \A x \in {a, b} : (\A y \in {a, b} : x =< y) => x = a
    BY <1>1
  <2>2. a \in {a, b} /\ \A y \in {a, b} : a =< y
    BY <1>1
  <2>3. QED
    BY <1>1, <2>1, <2>2 DEF Min
<1>2. CASE b < a
  <2>1. \A x \in {a, b} : (\A y \in {a, b} : x =< y) => x = b
    BY <1>2
  <2>2. b \in {a, b} /\ \A y \in {a, b} : b =< y
    BY <1>2
  <2>3. QED
    BY <1>2, <2>1, <2>2 DEF Min
<1>3. QED
    BY <1>1, <1>2

LEMMA Pieces ==
    ASSUME NEW S, NEW s \in Seq(S), NEW m \in Int, NEW n \in Int, 1 <= m, n <= Len(s)
    PROVE  SubSeq(s, m, n) \in Seq(S)
<1>1. \A i \in m..n : s[i] \in S
    BY ElementOfSeq, LenProperties
<1>2. QED
    BY <1>1, SubSeqProperties

LEMMA Rest ==
    ASSUME NEW S, NEW s \in Seq(S), NEW n \in Nat, n <= Len(s)
    PROVE  /\ SubSeq(s, n + 1, Len(s)) \in Seq(S)
           /\ Len(SubSeq(s, n + 1, Len(s))) = Len(s) - n
           /\ \A b \in 1..Len(s) - n : SubSeq(s, n + 1, Len(s))[b] = s[n + b]
<1>1. PICK l \in Nat : l = Len(s) /\ \A x \in 1..l : s[x] \in S
    BY LenProperties, ElementOfSeq
<1>2. n + 1 \in Int /\ \A x \in n + 1..l : s[x] \in S
    BY <1>1
<1>3. /\ SubSeq(s, n + 1, l) \in Seq(S)
      /\ Len(SubSeq(s, n + 1, l)) = IF n + 1 <= l THEN l - (n + 1) + 1 ELSE 0
      /\ \A b \in 1..l - (n + 1) + 1 : SubSeq(s, n + 1, l)[b] = s[(n + 1) + b - 1]
    BY <1>2, SubSeqProperties
<1>4. l - (n + 1) + 1 = l - n /\ (~ n + 1 <= l => l - n = 0)
    BY <1>1
<1>5. \A b \in 1..l - n : (n + 1) + b - 1 = n + b
    OBVIOUS
<1>6. QED
    BY <1>1, <1>3, <1>4, <1>5

LEMMA Joined ==
    ASSUME NEW S, NEW s \in Seq(S), NEW t \in Seq(S)
    PROVE  /\ s \o t \in Seq(S) /\ Len(s \o t) = Len(s) + Len(t)
           /\ \A x \in 1..Len(s) : (s \o t)[x] = s[x]
           /\ \A x \in 1..Len(t) : (s \o t)[Len(s) + x] = t[x]
<1>1. PICK l \in Nat, m \in Nat : l = Len(s) /\ m = Len(t)
    BY LenProperties
<1>2. /\ s \o t \in Seq(S) /\ Len(s \o t) = l + m
      /\ \A x \in 1..l + m : (s \o t)[x] = IF x <= l THEN s[x] ELSE t[x - l]
    BY <1>1, ConcatProperties
<1>3. \A x \in 1..l : x \in 1..l + m /\ x <= l
    OBVIOUS
<1>4. \A x \in 1..m : l + x \in 1..l + m /\ ~ l + x <= l /\ (l + x) - l = x
    OBVIOUS
<1>5. QED
    BY <1>1, <1>2, <1>3, <1>4

-----------------------------------------------------------------------------
(* What a process needs to be at its place.                                *)
Placed ==
    \A c \in Clients :
        /\ client[c].at \in {"off", "prompt"} => client[c].name = None
        /\ client[c].at \in {"reading", "done", "exists"} => client[c].name \in Names
        /\ child[c].at = "sending" => client[c].name \in Names /\ Files[client[c].name] # None
        /\ child[c].at \in {"none", "request"} => child[c].pos = 0

(* A file somebody writes is there, so open() refuses it to the others.    *)
Open ==
    \A c \in Clients :
        client[c].at = "reading" => disk[Folder[c]][client[c].name] # None

Inv == TypeOK /\ Placed /\ Open /\ OneWriter

LEMMA InitInv == Init => Inv
<1> SUFFICES ASSUME Init PROVE Inv
    OBVIOUS
<1>1. TypeOK
    BY DEF Init, TypeOK, Process, Child
<1>2. Placed
    BY DEF Init, Placed
<1>3. Open /\ OneWriter
    BY DEF Init, Open, OneWriter
<1>4. QED
    BY <1>1, <1>2, <1>3 DEF Inv

LEMMA ConnectInv == ASSUME Inv, NEW c \in Clients, Connect(c) PROVE Inv'
<1>1. TypeOK'
  <2>1. client' \in [Clients -> Process]
    BY DEF Inv, TypeOK, Connect, Process
  <2>2. backlog' \in Seq(Clients)
    BY AppendProperties DEF Inv, TypeOK, Connect
  <2>3. \A e \in Clients : client'[e].name = client[e].name
    BY DEF Inv, TypeOK, Connect
  <2>4. QED
    BY <2>1, <2>2, <2>3 DEF Inv, TypeOK, Connect
<1>2. Placed' /\ Open' /\ OneWriter'
    BY DEF Inv, TypeOK, Placed, Open, OneWriter, Connect, Process, Folders
<1>3. QED
    BY <1>1, <1>2 DEF Inv

LEMMA NamedFields ==
    ASSUME Inv, NEW c \in Clients, NEW n \in Names, NEW place \in {"reading", "exists"},
           Named(c, place, n)
    PROVE  /\ client' \in [Clients -> Process]
           /\ client'[c].at = place /\ client'[c].name = n
           /\ \A e \in Clients : e # c => client'[e] = client[e]
BY DEF Inv, TypeOK, Named, Process

LEMMA AskInv == ASSUME Inv, NEW c \in Clients, Ask(c) PROVE Inv'
<1>1. PICK n \in Names :
        \/ /\ Creates(c, n)
           /\ disk' = [disk EXCEPT ![Folder[c]][n] = <<>>]
           /\ Named(c, "reading", n)
        \/ /\ ~ Creates(c, n)
           /\ Named(c, "exists", n)
           /\ UNCHANGED disk
    BY DEF Ask
<1>2. Folder[c] \in Folders
    BY DEF Folders
<1>3. UNCHANGED <<backlog, child, stream>> /\ client[c].at = "prompt" /\ client[c].name = None
    BY DEF Ask, Inv, Placed
<1>4. child[c].at # "sending"
    BY <1>3, TcpAssumption DEF Inv, Placed, TcpAssumption
<1>5. TypeOK'
  <2>1. client' \in [Clients -> Process]
    BY <1>1, NamedFields
  <2>2. disk' \in [Folders -> [Names -> Seq(Byte) \cup {None}]]
    <3>1. <<>> \in Seq(Byte)
      BY EmptySeq
    <3>2. CASE disk' = [disk EXCEPT ![Folder[c]][n] = <<>>]
      BY <1>2, <3>1, <3>2 DEF Inv, TypeOK
    <3>3. CASE UNCHANGED disk
      BY <3>3 DEF Inv, TypeOK
    <3>4. QED
      BY <1>1, <3>2, <3>3
  <2>3. \A e \in Clients : child'[e].at = "sending" => client'[e] = client[e]
    BY <1>1, <1>3, <1>4 DEF Inv, TypeOK, Named
  <2>4. QED
    BY <1>3, <2>1, <2>2, <2>3 DEF Inv, TypeOK
<1>6. Placed'
  <2>1. client'[c].at \in {"reading", "exists"} /\ client'[c].name = n
    BY <1>1, NamedFields
  <2>2. \A e \in Clients : e # c => client'[e] = client[e]
    BY <1>1, NamedFields
  <2>3. QED
    BY <1>3, <1>4, <2>1, <2>2 DEF Inv, Placed
<1>7. Open' /\ OneWriter'
  <2>1. CASE /\ Creates(c, n)
             /\ disk' = [disk EXCEPT ![Folder[c]][n] = <<>>]
             /\ Named(c, "reading", n)
    <3>1. <<>> # None
      BY EmptySeq, TcpAssumption DEF TcpAssumption
    <3>2. \A e \in Clients : e # c => client'[e] = client[e]
      BY <2>1 DEF Inv, TypeOK, Named
    <3>3. client'[c].at = "reading" /\ client'[c].name = n
      BY <2>1 DEF Inv, TypeOK, Named
    <3>4. \A d \in Folders, m \in Names : disk[d][m] # None => disk'[d][m] # None
      BY <2>1, <3>1 DEF Inv, TypeOK
    <3>5. disk'[Folder[c]][n] # None
      BY <1>2, <2>1, <3>1 DEF Inv, TypeOK
    <3>6. \A e \in Clients : Folder[e] \in Folders
      BY DEF Folders
    <3>7. Open'
      BY <3>2, <3>3, <3>4, <3>5, <3>6 DEF Inv, Open, Placed
    <3>8. OneWriter'
      BY <2>1, <3>2, <3>3 DEF Inv, Open, OneWriter, Creates
    <3>9. QED
      BY <3>7, <3>8
  <2>2. CASE ~ Creates(c, n) /\ Named(c, "exists", n) /\ UNCHANGED disk
    BY <2>2 DEF Inv, TypeOK, Named, Open, OneWriter
  <2>3. QED
    BY <1>1, <2>1, <2>2
<1>8. QED
    BY <1>5, <1>6, <1>7 DEF Inv

LEMMA ReadInv == ASSUME Inv, NEW c \in Clients, Read(c) PROVE Inv'
<1> DEFINE most == Min({1 + DataLen, Len(stream[c])})
           n == client[c].name
<1>1. PICK k \in 1..most :
        /\ stream' = [stream EXCEPT ![c] = SubSeq(@, k + 1, Len(@))]
        /\ client' = [client EXCEPT ![c] =
                        [at |-> "reading", name |-> n,
                         fd |-> @.fd /\ SubSeq(stream[c], 1, k)[1] # "E",
                         whole |-> @.whole /\ k = most]]
        /\ disk' = IF SubSeq(stream[c], 1, k)[1] = "D" /\ client[c].fd
                   THEN [disk EXCEPT ![Folder[c]][n] = @ \o Payload(SubSeq(stream[c], 1, k))]
                   ELSE disk
    BY DEF Read
<1>2. /\ client[c].at = "reading" /\ n \in Names /\ Folder[c] \in Folders
      /\ UNCHANGED <<backlog, child>> /\ stream[c] \in Seq(Byte)
    BY DEF Read, Inv, TypeOK, Placed, Folders
<1>3. k \in Nat /\ k >= 1 /\ k <= Len(stream[c])
  <2>1. Len(stream[c]) \in Nat /\ 1 + DataLen \in Nat
    BY <1>2, LenProperties, TcpAssumption DEF TcpAssumption
  <2>2. most <= Len(stream[c]) /\ most \in Nat
    BY <2>1, MinOfTwo
  <2>3. QED
    BY <2>1, <2>2
<1>4. /\ SubSeq(stream[c], 1, k) \in Seq(Byte) /\ SubSeq(stream[c], 1, k) # <<>>
      /\ SubSeq(stream[c], k + 1, Len(stream[c])) \in Seq(Byte)
  <2>1. \A x \in 1..Len(stream[c]) : stream[c][x] \in Byte
    BY <1>2, ElementOfSeq
  <2>2. Len(stream[c]) \in Nat
    BY <1>2, LenProperties
  <2>3. SubSeq(stream[c], 1, k) \in Seq(Byte) /\ Len(SubSeq(stream[c], 1, k)) = k
    BY <1>3, <2>1, <2>2, SubSeqProperties
  <2>4. SubSeq(stream[c], k + 1, Len(stream[c])) \in Seq(Byte)
    BY <1>3, <2>1, <2>2, SubSeqProperties
  <2>5. QED
    BY <1>3, <2>3, <2>4, EmptySeq
<1>5. Payload(SubSeq(stream[c], 1, k)) \in Seq(Byte)
    BY <1>4, HeadTailProperties DEF Payload
<1>6. disk[Folder[c]][n] \in Seq(Byte)
    BY <1>2 DEF Inv, TypeOK, Open
<1>7. disk[Folder[c]][n] \o Payload(SubSeq(stream[c], 1, k)) \in Seq(Byte)
    BY <1>5, <1>6, ConcatProperties
<1>8. /\ \A e \in Clients : client'[e].at = client[e].at /\ client'[e].name = client[e].name
      /\ client' \in [Clients -> Process]
  <2>1. \A e \in Clients : client'[e].at = client[e].at /\ client'[e].name = client[e].name
    BY <1>1, <1>2 DEF Inv, TypeOK
  <2>2. client' \in [Clients -> Process]
    BY <1>1, <1>2 DEF Inv, TypeOK, Process
  <2>3. QED
    BY <2>1, <2>2
<1>9. TypeOK'
  <2>1. disk' \in [Folders -> [Names -> Seq(Byte) \cup {None}]]
    BY <1>1, <1>2, <1>7 DEF Inv, TypeOK
  <2>2. stream' \in [Clients -> Seq(Byte)]
    BY <1>1, <1>4 DEF Inv, TypeOK
  <2>3. QED
    BY <1>2, <1>8, <2>1, <2>2 DEF Inv, TypeOK
<1>10. Placed' /\ OneWriter'
    BY <1>2, <1>8 DEF Inv, Placed, OneWriter
<1>11. Open'
  <2>1. \A d \in Folders, m \in Names : disk[d][m] # None => disk'[d][m] # None
    BY <1>1, <1>2, <1>7, TcpAssumption DEF Inv, TypeOK, TcpAssumption
  <2>2. \A e \in Clients : Folder[e] \in Folders
    BY DEF Folders
  <2>3. QED
    BY <1>8, <2>1, <2>2 DEF Inv, Open, Placed
<1>12. QED
    BY <1>9, <1>10, <1>11 DEF Inv

LEMMA EndInv == ASSUME Inv, NEW c \in Clients, End(c) PROVE Inv'
<1>1. /\ client[c].at = "reading" /\ client[c].name \in Names
      /\ UNCHANGED <<backlog, child, stream>>
      /\ client' = [client EXCEPT ![c].at = "done"]
    BY DEF End, Inv, Placed
<1>2. /\ client'[c].at = "done" /\ client'[c].name = client[c].name
      /\ \A e \in Clients : e # c => client'[e] = client[e]
    BY <1>1 DEF Inv, TypeOK
<1>3. TypeOK'
    BY <1>1, <1>2 DEF Inv, TypeOK, Process, End
<1>4. Placed' /\ OneWriter'
    BY <1>1, <1>2 DEF Inv, Placed, OneWriter
<1>5. Open'
  <2>1. ASSUME NEW e \in Clients, e # c, client[e].at = "reading"
        PROVE  disk'[Folder[e]][client[e].name] = disk[Folder[e]][client[e].name]
    BY <1>1, <2>1 DEF End, Inv, TypeOK, OneWriter, Placed
  <2>2. QED
    BY <1>2, <2>1 DEF Inv, Open
<1>6. QED
    BY <1>3, <1>4, <1>5 DEF Inv

(* The steps of the server touch neither a client nor a disk. *)
LEMMA ServerInv ==
    ASSUME Inv, UNCHANGED <<client, disk>>,
           backlog' \in Seq(Clients), child' \in [Clients -> Child], stream' \in [Clients -> Seq(Byte)],
           \A c \in Clients : child'[c].at = "sending" =>
               /\ client[c].name \in Names /\ Files[client[c].name] # None
               /\ child'[c].pos <= Len(Files[client[c].name]),
           \A c \in Clients : child'[c].at \in {"none", "request"} => child'[c].pos = 0
    PROVE  Inv'
<1>1. TypeOK'
    BY DEF Inv, TypeOK
<1>2. Placed'
    BY DEF Inv, Placed
<1>3. Open' /\ OneWriter'
    BY DEF Inv, Open, OneWriter
<1>4. QED
    BY <1>1, <1>2, <1>3 DEF Inv

LEMMA AcceptInv == ASSUME Inv, Accept PROVE Inv'
<1>1. Head(backlog) \in Clients /\ Tail(backlog) \in Seq(Clients)
    BY HeadTailProperties DEF Accept, Inv, TypeOK
<1>2. child' \in [Clients -> Child]
    BY <1>1 DEF Accept, Inv, TypeOK, Child
<1>3. \A c \in Clients : child'[c].at = "sending" => child'[c] = child[c]
    BY <1>1 DEF Accept, Inv, TypeOK
<1>4. \A c \in Clients : child'[c].pos = 0 \/ child'[c] = child[c]
  <2>1. child' = [child EXCEPT ![Head(backlog)] = [at |-> "request", pos |-> 0]]
    BY DEF Accept
  <2>2. QED
    BY <1>1, <2>1 DEF Inv, TypeOK
<1>5. QED
    BY <1>1, <1>2, <1>3, <1>4, ServerInv DEF Accept, Inv, TypeOK, Placed

LEMMA Written ==
    ASSUME Inv, NEW c \in Clients, NEW packet \in Seq(Byte), Write(c, packet)
    PROVE  stream' \in [Clients -> Seq(Byte)]
<1>1. stream[c] \o packet \in Seq(Byte)
    BY ConcatProperties DEF Inv, TypeOK
<1>2. QED
    BY <1>1 DEF Write, Inv, TypeOK

LEMMA OpenFileInv == ASSUME Inv, NEW c \in Clients, OpenFile(c) PROVE Inv'
<1>1. client[c].name \in Names
    BY DEF OpenFile, Inv, TypeOK, Process
<1>2. CASE /\ Files[client[c].name] = None
           /\ Write(c, <<"E">> \o [k \in 1..DataLen |-> "x"])
           /\ child' = [child EXCEPT ![c].at = "closed"]
  <2>1. [k \in 1..DataLen |-> "x"] \in Seq(Byte) /\ <<"E">> \in Seq(Byte)
    BY TcpAssumption DEF TcpAssumption, Byte
  <2>2. <<"E">> \o [k \in 1..DataLen |-> "x"] \in Seq(Byte)
    BY <2>1, ConcatProperties
  <2>3. stream' \in [Clients -> Seq(Byte)]
    BY <1>2, <2>2, Written
  <2>4. child' \in [Clients -> Child]
    BY <1>2 DEF Inv, TypeOK, Child
  <2>5. \A e \in Clients : child'[e].at = "sending" => child'[e] = child[e]
    BY <1>2 DEF Inv, TypeOK
  <2>6. \A e \in Clients : child'[e].at \in {"none", "request"} => child'[e] = child[e]
    BY <1>2 DEF Inv, TypeOK
  <2>7. QED
    BY <2>3, <2>4, <2>5, <2>6, ServerInv DEF OpenFile, Inv, TypeOK, Placed
<1>3. CASE /\ Files[client[c].name] # None
           /\ child' = [child EXCEPT ![c].at = "sending"]
           /\ UNCHANGED stream
  <2>1. Len(Files[client[c].name]) \in Nat
    BY <1>1, <1>3, LenProperties, TcpAssumption DEF TcpAssumption
  <2>2. child' \in [Clients -> Child]
    BY <1>3 DEF Inv, TypeOK, Child
  <2>3. child'[c].at = "sending" /\ child'[c].pos = child[c].pos
    BY <1>3 DEF Inv, TypeOK, Child
  <2>4. \A e \in Clients : e # c => child'[e] = child[e]
    BY <1>3 DEF Inv, TypeOK
  <2>5. child[c].pos = 0
    BY DEF OpenFile, Inv, Placed
  <2>6. QED
    BY <1>1, <1>3, <2>1, <2>2, <2>3, <2>4, <2>5, ServerInv DEF OpenFile, Inv, TypeOK, Placed
<1>4. QED
    BY <1>2, <1>3 DEF OpenFile

LEMMA SendPacketInv == ASSUME Inv, NEW c \in Clients, SendPacket(c) PROVE Inv'
<1> DEFINE file == Files[client[c].name]
           pos  == child[c].pos
           n    == Min({DataLen, Len(file) - pos})
<1>1. /\ child[c].at = "sending" /\ UNCHANGED <<client, backlog, disk>>
      /\ Write(c, <<"D">> \o SubSeq(file, pos + 1, pos + n))
      /\ child' = [child EXCEPT ![c].pos = pos + n]
    BY DEF SendPacket
<1>2. file \in Seq(Byte) /\ client[c].name \in Names
    BY <1>1, TcpAssumption DEF TcpAssumption, Inv, Placed
<1>3. Len(file) \in Nat
    BY <1>2, LenProperties
<1>4. pos \in Nat /\ pos < Len(file)
  <2>1. pos \in Nat
    BY DEF Inv, TypeOK, Child
  <2>2. QED
    BY <1>3, <2>1 DEF SendPacket, AtEnd
<1>5. n \in Nat /\ pos + n <= Len(file)
  <2>1. DataLen \in Nat /\ Len(file) - pos \in Nat
    BY <1>3, <1>4, TcpAssumption DEF TcpAssumption
  <2>2. n = IF DataLen <= Len(file) - pos THEN DataLen ELSE Len(file) - pos
    BY <2>1, MinOfTwo
  <2> HIDE DEF file, pos, n
  <2>3. PICK a \in Nat, b \in Nat : a = Len(file) /\ b = pos /\ b < a
    BY <1>3, <1>4
  <2>4. n = IF DataLen <= a - b THEN DataLen ELSE a - b
    BY <2>2, <2>3
  <2>5. n \in Nat /\ b + n <= a
    BY <2>1, <2>3, <2>4
  <2>6. QED
    BY <2>3, <2>5
<1>6. stream' \in [Clients -> Seq(Byte)]
  <2>1. SubSeq(file, pos + 1, pos + n) \in Seq(Byte)
    <3>1. pos + 1 \in Int /\ pos + n \in Int /\ 1 <= pos + 1
      BY <1>4, <1>5
    <3>2. QED
      BY <1>2, <1>5, <3>1, Pieces
  <2>2. <<"D">> \in Seq(Byte)
    BY DEF Byte
  <2>3. <<"D">> \o SubSeq(file, pos + 1, pos + n) \in Seq(Byte)
    BY <2>1, <2>2, ConcatProperties
  <2>4. QED
    BY <1>1, <2>3, Written
<1>7. child' \in [Clients -> Child]
  <2>1. pos + n \in Nat
    BY <1>4, <1>5
  <2>2. QED
    BY <1>1, <2>1 DEF Inv, TypeOK, Child
<1>8. child'[c].pos = pos + n /\ \A e \in Clients : e # c => child'[e] = child[e]
    BY <1>1 DEF Inv, TypeOK, Child
<1>9. \A e \in Clients : child'[e].at = "sending" =>
         /\ client[e].name \in Names /\ Files[client[e].name] # None
         /\ child'[e].pos <= Len(Files[client[e].name])
  <2>1. client[c].name \in Names /\ Files[client[c].name] # None
    BY <1>1 DEF Inv, Placed
  <2>2. QED
    BY <1>5, <1>8, <2>1 DEF Inv, TypeOK, Placed
<1>10. \A e \in Clients : child'[e].at \in {"none", "request"} => child'[e] = child[e]
    BY <1>1 DEF Inv, TypeOK
<1>11. QED
    BY <1>1, <1>6, <1>7, <1>9, <1>10, ServerInv DEF Inv, TypeOK, Placed

LEMMA CloseFileInv == ASSUME Inv, NEW c \in Clients, CloseFile(c) PROVE Inv'
<1>1. child' \in [Clients -> Child]
    BY DEF CloseFile, Inv, TypeOK, Child
<1>2. \A e \in Clients : child'[e].at = "sending" => child'[e] = child[e]
    BY DEF CloseFile, Inv, TypeOK
<1>3. \A e \in Clients : child'[e].at \in {"none", "request"} => child'[e] = child[e]
    BY DEF CloseFile, Inv, TypeOK
<1>4. QED
    BY <1>1, <1>2, <1>3, ServerInv DEF CloseFile, Inv, TypeOK, Placed

LEMMA StepInv == Inv /\ [Next]_vars => Inv'
<1>1. ASSUME Inv, UNCHANGED vars PROVE Inv'
    BY <1>1 DEF vars, Inv, TypeOK, Placed, Open, OneWriter
<1>2. ASSUME Inv, Next PROVE Inv'
    BY <1>2, AcceptInv, ConnectInv, AskInv, ReadInv, EndInv, OpenFileInv, SendPacketInv,
       CloseFileInv DEF Next, ClientStep, ChildStep
<1>3. QED
    BY <1>1, <1>2

LEMMA Always == Spec => []Inv
BY InitInv, StepInv, PTL DEF Spec

(* The clients, the server's children, the streams and the files keep      *)
(* their types, and no child reads past the end of its file, for any files *)
(* and packet length and wherever the reads stop.                          *)
THEOREM TypeCorrect == Spec => []TypeOK
<1>1. Inv => TypeOK
    BY DEF Inv
<1>2. QED
    BY <1>1, Always, PTL

(* O_EXCL among the flags of open() keeps two clients of one directory     *)
(* from writing the same file, whatever the network does to their reads.   *)
THEOREM WritersAreAlone == Spec => []OneWriter
<1>1. Inv => OneWriter
    BY DEF Inv
<1>2. QED
    BY <1>1, Always, PTL
-----------------------------------------------------------------------------
(* Packets. *)

(* What is on the way to a client that read copy: bytes Len(copy) + 1 to   *)
(* pos of the file in k packets, all of them full but the last of the file.*)
(* Packet j, counted from 0, begins after j types and j full pieces.       *)
Carries(copy, s, file, pos) ==
    LET q == Len(copy)
        k == Len(s) + q - pos
    IN
    /\ q <= pos /\ pos <= Len(file)
    /\ \A b \in 1..q : copy[b] = file[b]
    /\ 0 <= k /\ pos - q <= k * DataLen
    /\ k > 0 => (k - 1) * DataLen < pos - q
    /\ pos < Len(file) => pos - q = k * DataLen
    /\ \A j \in 0..k - 1 :
          /\ s[j * DataLen + j + 1] = "D"
          /\ \A d \in 1..DataLen : q + j * DataLen + d <= pos =>
                 s[j * DataLen + j + 1 + d] = file[q + j * DataLen + d]

LEMMA Times ==
    ASSUME NEW k \in Int, NEW l \in Nat
    PROVE  /\ k * l \in Int /\ (k - 1) * l = k * l - l /\ (k + 1) * l = k * l + l
           /\ 0 * l = 0 /\ 1 * l = l
OBVIOUS

LEMMA TimesOrder ==
    ASSUME NEW j \in Int, NEW k \in Int, NEW l \in Nat, j <= k
    PROVE  j * l <= k * l
<1>1. PICK e \in Nat : k = j + e
  <2>1. k - j \in Nat /\ k = j + (k - j)
    OBVIOUS
  <2>2. QED
    BY <2>1
<1>2. e * l \in Nat
    OBVIOUS
<1>3. k * l = j * l + e * l
    BY <1>1
<1>4. j * l \in Int
    OBVIOUS
<1>5. QED
    BY <1>2, <1>3, <1>4

LEMMA NothingYet ==
    ASSUME NEW file \in Seq(Byte)
    PROVE  Carries(<<>>, <<>>, file, 0)
<1>1. Len(file) \in Nat /\ DataLen \in Nat
    BY LenProperties, TcpAssumption DEF TcpAssumption
<1>2. Len(<<>>) = 0 /\ 0 * DataLen = 0
    BY <1>1, Times
<1>3. QED
    BY <1>1, <1>2 DEF Carries

(* What one read asks for: a whole packet, or what there is of one.        *)
Most(s) == Min({1 + DataLen, Len(s)})

(* The numbers of a stream of k packets.                                   *)
LEMMA FirstSize ==
    ASSUME NEW l \in Nat, NEW D \in Nat, NEW q \in Nat, NEW pos \in Nat, NEW k \in Int,
           NEW a \in Int, NEW b \in Int, l # 0, D # 0, l = k + pos - q, q <= pos, 0 <= k,
           a = k * D, b = (k - 1) * D, pos - q <= a, k > 0 => b < pos - q,
           NEW n \in Nat, n = IF 1 + D <= l THEN 1 + D ELSE l
    PROVE  /\ k > 0 /\ 1 <= n /\ n <= l /\ n - 1 <= D /\ q + (n - 1) <= pos
           /\ k = 1 => n = l /\ q + (n - 1) = pos
           /\ k > 1 => n = 1 + D
<1>1. 0 * D = 0 /\ 1 * D = D
    BY Times
<1>2. k # 0
    BY <1>1
<1>3. k = 1 => n = l /\ q + (n - 1) = pos
  <2>1. k = 1 => a = D
    BY <1>1
  <2>2. QED
    BY <2>1
<1>4. k > 1 => D <= b
  <2>1. k > 1 => 1 * D <= (k - 1) * D
    BY TimesOrder
  <2>2. QED
    BY <1>1, <2>1
<1>5. QED
    BY <1>2, <1>3, <1>4

(* The first packet of a stream is what a read takes that takes most.      *)
LEMMA PacketsBegin ==
    ASSUME NEW copy \in Seq(Byte), NEW s \in Seq(Byte), NEW file \in Seq(Byte), NEW pos \in Nat,
           Carries(copy, s, file, pos), s # <<>>
    PROVE  /\ Len(s) + Len(copy) - pos \in Nat \ {0} /\ s[1] = "D"
           /\ Most(s) \in Nat /\ 1 <= Most(s) /\ Most(s) <= Len(s)
           /\ Len(copy) + (Most(s) - 1) <= pos
           /\ Len(s) + Len(copy) - pos = 1 => Most(s) = Len(s) /\ Len(copy) + (Most(s) - 1) = pos
           /\ Len(s) + Len(copy) - pos > 1 => Most(s) = 1 + DataLen
           /\ \A d \in 1..Most(s) - 1 : s[1 + d] = file[Len(copy) + d]
<1>0. PICK l \in Nat, D \in Nat, q \in Nat : l = Len(s) /\ D = DataLen /\ q = Len(copy)
    BY LenProperties, TcpAssumption DEF TcpAssumption
<1>1. PICK k \in Int : l = Len(s) /\ D = DataLen /\ q = Len(copy) /\ k = l + q - pos
  <2>1. PICK k \in Int : k = l + q - pos
    OBVIOUS
  <2>2. QED
    BY <1>0, <2>1
<1>2. /\ q <= pos /\ 0 <= k /\ pos - q <= k * D
      /\ k > 0 => (k - 1) * D < pos - q
      /\ \A j \in 0..k - 1 :
          /\ s[j * D + j + 1] = "D"
          /\ \A d \in 1..D : q + j * D + d <= pos =>
                 s[j * D + j + 1 + d] = file[q + j * D + d]
    BY <1>1 DEF Carries
<1>3. D # 0 /\ l # 0
    BY <1>1, LenProperties, EmptySeq, TcpAssumption DEF TcpAssumption
<1>4. PICK n \in Nat : n = Most(s) /\ n = IF 1 + D <= l THEN 1 + D ELSE l
  <2>1. 1 + D \in Nat
    OBVIOUS
  <2>2. Min({1 + D, l}) = IF 1 + D <= l THEN 1 + D ELSE l
    BY <2>1, MinOfTwo
  <2>3. QED
    BY <1>1, <2>1, <2>2 DEF Most
<1>5. /\ k > 0 /\ 1 <= n /\ n <= l /\ n - 1 <= D /\ q + (n - 1) <= pos
      /\ k = 1 => n = l /\ q + (n - 1) = pos
      /\ k > 1 => n = 1 + D
  <2>1. PICK a \in Int, b \in Int : a = k * D /\ b = (k - 1) * D
    OBVIOUS
  <2>2. l = k + pos - q
    BY <1>1
  <2>3. pos - q <= a /\ (k > 0 => b < pos - q)
    BY <1>2, <2>1
  <2>4. QED
    BY <1>2, <1>3, <1>4, <2>1, <2>2, <2>3, FirstSize
<1>6. s[1] = "D" /\ \A d \in 1..D : q + d <= pos => s[1 + d] = file[q + d]
  <2>1. 0 * D = 0 /\ 0 \in 0..k - 1
    BY <1>5, Times
  <2>2. /\ s[0 * D + 0 + 1] = "D"
        /\ \A d \in 1..D : q + 0 * D + d <= pos =>
                 s[0 * D + 0 + 1 + d] = file[q + 0 * D + d]
    BY <1>2, <2>1
  <2>3. s[0 + 0 + 1] = "D" /\ \A d \in 1..D : q + 0 + d <= pos => s[0 + 0 + 1 + d] = file[q + 0 + d]
    BY <2>1, <2>2
  <2>4. q + 0 = q /\ 0 + 0 + 1 = 1
    OBVIOUS
  <2>5. QED
    BY <2>3, <2>4
<1>7. \A d \in 1..n - 1 : s[1 + d] = file[q + d]
  <2>1. \A d \in 1..n - 1 : d \in 1..D /\ q + d <= pos
    BY <1>5
  <2>2. QED
    BY <1>6, <2>1
<1>8. k \in Nat \ {0}
    BY <1>5
<1>9. QED
    BY <1>1, <1>4, <1>5, <1>6, <1>7, <1>8

LEMMA PacketRead ==
    ASSUME NEW copy \in Seq(Byte), NEW s \in Seq(Byte), NEW file \in Seq(Byte), NEW pos \in Nat,
           Carries(copy, s, file, pos), s # <<>>
    PROVE  /\ SubSeq(s, 1, Most(s))[1] = "D"
           /\ Carries(copy \o Payload(SubSeq(s, 1, Most(s))),
                      SubSeq(s, Most(s) + 1, Len(s)), file, pos)
<1>1. PICK l \in Nat, D \in Nat, q \in Nat, n \in Nat :
         l = Len(s) /\ D = DataLen /\ q = Len(copy) /\ n = Most(s)
    BY LenProperties, PacketsBegin, TcpAssumption DEF TcpAssumption
<1>2. PICK k \in Nat \ {0} : k = l + q - pos
    BY <1>1, PacketsBegin
<1>3. /\ s[1] = "D" /\ 1 <= n /\ n <= l /\ q + (n - 1) <= pos
      /\ k = 1 => n = l /\ q + (n - 1) = pos
      /\ k > 1 => n = 1 + D
      /\ \A d \in 1..n - 1 : s[1 + d] = file[q + d]
  <2>1. /\ s[1] = "D" /\ 1 <= Most(s) /\ Most(s) <= Len(s) /\ Len(copy) + (Most(s) - 1) <= pos
        /\ Len(s) + Len(copy) - pos = 1 => Most(s) = Len(s) /\ Len(copy) + (Most(s) - 1) = pos
        /\ Len(s) + Len(copy) - pos > 1 => Most(s) = 1 + DataLen
        /\ \A d \in 1..Most(s) - 1 : s[1 + d] = file[Len(copy) + d]
    BY PacketsBegin
  <2>2. QED
    BY <1>1, <1>2, <2>1
<1> DEFINE first == SubSeq(s, 1, n)
           p  == Payload(first)
           c2 == copy \o p
           s2 == SubSeq(s, n + 1, l)
<1>4. first \in Seq(Byte) /\ Len(first) = n /\ \A b \in 1..n : first[b] = s[b]
  <2>1. first \in Seq(Byte)
    BY <1>1, <1>3, Pieces
  <2>2. \A x \in 1..n : s[x] \in Byte
    BY <1>1, <1>3, ElementOfSeq
  <2>3. /\ Len(SubSeq(s, 1, n)) = IF 1 <= n THEN n - 1 + 1 ELSE 0
        /\ \A b \in 1..n - 1 + 1 : SubSeq(s, 1, n)[b] = s[1 + b - 1]
    <3>1. 1 \in Int /\ n \in Int
      OBVIOUS
    <3>2. QED
      BY <2>2, <3>1, SubSeqProperties
  <2>4. Len(first) = n
    BY <1>3, <2>3 DEF first
  <2>5. ASSUME NEW b \in 1..n PROVE first[b] = s[b]
    <3>1. b \in 1..n - 1 + 1 /\ 1 + b - 1 = b
      OBVIOUS
    <3>2. SubSeq(s, 1, n)[b] = s[1 + b - 1]
      BY <2>3, <3>1
    <3>3. QED
      BY <3>1, <3>2 DEF first
  <2>6. QED
    BY <2>1, <2>4, <2>5
<1>5. s2 \in Seq(Byte) /\ Len(s2) = l - n /\ \A b \in 1..l - n : s2[b] = s[n + b]
  <2>1. n \in 0..Len(s)
    BY <1>1, <1>3
  <2>2. QED
    BY <1>1, <2>1, Rest
<1> HIDE DEF first, s2
<1>6. p \in Seq(Byte) /\ Len(p) = n - 1 /\ \A b \in 1..n - 1 : p[b] = s[b + 1]
  <2>1. first # <<>>
    BY <1>3, <1>4
  <2>2. p \in Seq(Byte) /\ Len(p) = n - 1 /\ \A b \in 1..n - 1 : p[b] = first[b + 1]
    BY <1>4, <2>1, HeadTailProperties DEF Payload
  <2>3. \A b \in 1..n - 1 : b + 1 \in 1..n
    OBVIOUS
  <2>4. QED
    BY <1>4, <2>2, <2>3
<1> HIDE DEF p
<1>7. /\ c2 \in Seq(Byte) /\ Len(c2) = q + (n - 1)
      /\ \A b \in 1..q : c2[b] = copy[b]
      /\ \A b \in 1..n - 1 : c2[q + b] = p[b]
  <2>1. n - 1 \in Nat
    BY <1>3
  <2>2. QED
    BY <1>1, <1>6, <2>1, Joined
<1> HIDE DEF c2
<1>8. /\ q <= pos /\ pos <= Len(file) /\ pos - q <= k * D
      /\ \A b \in 1..q : copy[b] = file[b]
      /\ (k - 1) * D < pos - q
      /\ pos < Len(file) => pos - q = k * D
      /\ \A j \in 0..k - 1 :
          /\ s[j * D + j + 1] = "D"
          /\ \A d \in 1..D : q + j * D + d <= pos =>
                 s[j * D + j + 1 + d] = file[q + j * D + d]
    BY <1>1, <1>2 DEF Carries
<1>9. l = k + pos - q
    BY <1>2
<1>10. PICK r \in Nat : r = q + (n - 1) /\ r <= pos
    BY <1>3
<1>11. \A b \in 1..r : c2[b] = file[b]
  <2>1. ASSUME NEW b \in 1..r, b > q PROVE c2[b] = file[b]
    <3>1. PICK d \in 1..n - 1 : b = q + d
      <4>1. b - q \in 1..n - 1 /\ b = q + (b - q)
        BY <1>10, <2>1
      <4>2. QED
        BY <4>1
    <3>2. d + 1 = 1 + d
      OBVIOUS
    <3>3. c2[q + d] = p[d] /\ p[d] = s[d + 1] /\ s[1 + d] = file[q + d]
      BY <1>3, <1>6, <1>7
    <3>4. QED
      BY <3>1, <3>2, <3>3
  <2>2. ASSUME NEW b \in 1..r, b <= q PROVE c2[b] = file[b]
    BY <1>7, <1>8, <2>2
  <2>3. QED
    BY <2>1, <2>2
<1>12. /\ 0 <= k - 1 /\ pos - r <= (k - 1) * D
       /\ k - 1 > 0 => ((k - 1) - 1) * D < pos - r
       /\ pos < Len(file) => pos - r = (k - 1) * D
  <2>1. PICK a \in Int, b \in Int, c \in Int :
          /\ a = k * D /\ b = (k - 1) * D /\ c = ((k - 1) - 1) * D
          /\ b = a - D /\ c = b - D /\ (k = 1 => b = 0)
    BY Times
  <2>2. pos - q <= a /\ b < pos - q /\ (pos < Len(file) => pos - q = a)
    BY <1>8, <2>1
  <2>3. CASE k = 1
    BY <1>3, <1>10, <2>1, <2>3
  <2>4. CASE k > 1
    BY <1>3, <1>10, <2>1, <2>2, <2>4
  <2>5. QED
    BY <2>3, <2>4
<1>13. ASSUME NEW j \in 0..(k - 1) - 1
       PROVE  /\ s2[j * D + j + 1] = "D"
              /\ \A d \in 1..D : r + j * D + d <= pos =>
                     s2[j * D + j + 1 + d] = file[r + j * D + d]
  <2>1. k > 1 /\ j + 1 \in 0..k - 1 /\ j \in Nat /\ j + 1 <= k - 1
    OBVIOUS
  <2>2. n = 1 + D
    BY <1>3, <2>1
  <2>3. PICK a \in Nat, b \in Int :
          /\ a = j * D /\ b = (k - 1) * D /\ (j + 1) * D = a + D /\ a + D <= b
    <3>1. j * D \in Int /\ (j + 1) * D = j * D + D /\ 0 * D = 0
      BY <2>1, Times
    <3>2. 0 * D <= j * D /\ (j + 1) * D <= (k - 1) * D
      BY <2>1, TimesOrder
    <3>3. QED
      BY <3>1, <3>2
  <2>5. /\ s[(a + D) + (j + 1) + 1] = "D"
        /\ \A d \in 1..D : q + (a + D) + d <= pos =>
               s[(a + D) + (j + 1) + 1 + d] = file[q + (a + D) + d]
    BY <1>8, <2>1, <2>3
  <2>6. a + D < pos - q
    BY <1>8, <2>3
  <2>7. a + j + 1 \in 1..l - n /\ n + (a + j + 1) = (a + D) + (j + 1) + 1
    BY <1>9, <2>1, <2>2, <2>6
  <2>8. s2[a + j + 1] = "D"
    BY <1>5, <2>5, <2>7
  <2>9. ASSUME NEW d \in 1..D, r + a + d <= pos
        PROVE  s2[a + j + 1 + d] = file[r + a + d]
    <3>1. q + (a + D) + d <= pos /\ q + (a + D) + d = r + a + d
      BY <1>10, <2>2, <2>9
    <3>2. a + j + 1 + d \in 1..l - n /\ n + (a + j + 1 + d) = (a + D) + (j + 1) + 1 + d
      BY <1>9, <2>1, <2>2, <3>1
    <3>3. s[(a + D) + (j + 1) + 1 + d] = file[q + (a + D) + d]
      BY <2>5, <3>1
    <3>4. QED
      BY <1>5, <3>1, <3>2, <3>3
  <2>10. QED
    BY <2>3, <2>8, <2>9
<1>14. Carries(c2, s2, file, pos)
  <2>0. (l - n) + r - pos = k - 1
    BY <1>9, <1>10
  <2>1. Len(c2) = r /\ Len(s2) + Len(c2) - pos = k - 1
    BY <1>5, <1>7, <1>10, <2>0
  <2>2. pos <= Len(file)
    BY <1>8
  <2>3. QED
    BY <1>1, <1>10, <1>11, <1>12, <1>13, <2>1, <2>2 DEF Carries
<1>15. first[1] = "D"
    BY <1>3, <1>4
<1>16. QED
    BY <1>1, <1>14, <1>15 DEF c2, s2, first, p

(* One turn of a child's loop adds a packet, full unless it is the last.   *)
LEMMA NextPiece ==
    ASSUME NEW file \in Seq(Byte), NEW pos \in Nat, pos < Len(file)
    PROVE  LET n == Min({DataLen, Len(file) - pos})
               packet == <<"D">> \o SubSeq(file, pos + 1, pos + n)
           IN
           /\ n \in Nat \ {0} /\ n <= DataLen /\ pos + n <= Len(file)
           /\ pos + n < Len(file) => n = DataLen
           /\ packet \in Seq(Byte) /\ Len(packet) = 1 + n /\ packet[1] = "D"
           /\ \A d \in 1..n : packet[1 + d] = file[pos + d]
<1>1. PICK l \in Nat, D \in Nat \ {0} : l = Len(file) /\ D = DataLen
    BY LenProperties, TcpAssumption DEF TcpAssumption
<1>2. l - pos \in Nat /\ l - pos > 0
    BY <1>1
<1>3. Min({D, l - pos}) = IF D <= l - pos THEN D ELSE l - pos
    BY <1>2, MinOfTwo
<1>4. PICK n \in Nat : n = Min({D, l - pos})
    BY <1>2, <1>3
<1>5. n # 0 /\ n <= D /\ pos + n <= l /\ (pos + n < l => n = D)
    BY <1>2, <1>3, <1>4
<1> DEFINE piece == SubSeq(file, pos + 1, pos + n)
<1>6. /\ piece \in Seq(Byte) /\ Len(piece) = n
      /\ \A d \in 1..n : piece[d] = file[pos + d]
  <2>1. \A x \in pos + 1..pos + n : file[x] \in Byte
    BY <1>1, <1>5, ElementOfSeq
  <2>2. /\ piece \in Seq(Byte)
        /\ Len(piece) = IF pos + 1 <= pos + n THEN (pos + n) - (pos + 1) + 1 ELSE 0
        /\ \A d \in 1..(pos + n) - (pos + 1) + 1 : piece[d] = file[(pos + 1) + d - 1]
    BY <2>1, SubSeqProperties
  <2>3. pos + 1 <= pos + n /\ (pos + n) - (pos + 1) + 1 = n
    BY <1>5
  <2>4. \A d \in 1..n : (pos + 1) + d - 1 = pos + d
    OBVIOUS
  <2>5. QED
    BY <2>2, <2>3, <2>4
<1> HIDE DEF piece
<1>7. <<"D">> \in Seq(Byte) /\ Len(<<"D">>) = 1 /\ <<"D">>[1] = "D"
    BY DEF Byte
<1>8. /\ <<"D">> \o piece \in Seq(Byte) /\ Len(<<"D">> \o piece) = 1 + n
      /\ \A x \in 1..1 : (<<"D">> \o piece)[x] = <<"D">>[x]
      /\ \A d \in 1..n : (<<"D">> \o piece)[1 + d] = piece[d]
    BY <1>6, <1>7, Joined
<1>9. (<<"D">> \o piece)[1] = "D"
    BY <1>7, <1>8
<1>10. \A d \in 1..n : (<<"D">> \o piece)[1 + d] = file[pos + d]
    BY <1>6, <1>8
<1>11. QED
    BY <1>1, <1>4, <1>5, <1>8, <1>9, <1>10 DEF piece

LEMMA PacketWritten ==
    ASSUME NEW copy \in Seq(Byte), NEW s \in Seq(Byte), NEW file \in Seq(Byte), NEW pos \in Nat,
           Carries(copy, s, file, pos), pos < Len(file),
           NEW n \in Nat, n # 0, n <= DataLen, pos + n <= Len(file),
           pos + n < Len(file) => n = DataLen,
           NEW t \in Seq(Byte), Len(t) = Len(s) + (1 + n),
           \A x \in 1..Len(s) : t[x] = s[x], t[Len(s) + 1] = "D",
           \A d \in 1..n : t[Len(s) + (1 + d)] = file[pos + d]
    PROVE  Carries(copy, t, file, pos + n)
<1>1. PICK l \in Nat, m \in Nat, D \in Nat \ {0}, q \in Nat :
         l = Len(s) /\ m = Len(file) /\ D = DataLen /\ q = Len(copy)
    BY LenProperties, TcpAssumption DEF TcpAssumption
<1>2. PICK k \in Int : k = l + q - pos
    OBVIOUS
<1>3. /\ q <= pos /\ \A b \in 1..q : copy[b] = file[b]
      /\ 0 <= k /\ pos - q = k * D
      /\ \A j \in 0..k - 1 :
          /\ s[j * D + j + 1] = "D"
          /\ \A d \in 1..D : q + j * D + d <= pos =>
                 s[j * D + j + 1 + d] = file[q + j * D + d]
    BY <1>1, <1>2 DEF Carries
<1>4. /\ Len(t) = l + (1 + n) /\ t[l + 1] = "D"
      /\ \A x \in 1..l : t[x] = s[x]
      /\ \A d \in 1..n : t[l + (1 + d)] = file[pos + d]
    BY <1>1
<1>5. PICK a \in Nat : a = k * D /\ pos = q + a /\ l = a + k
  <2>1. k * D \in Int
    OBVIOUS
  <2>2. QED
    BY <1>2, <1>3, <2>1
<1>6. pos = q + a /\ l = a + k
    BY <1>5
<1>7. /\ (pos + n) - q <= (k + 1) * D /\ ((k + 1) - 1) * D < (pos + n) - q
      /\ pos + n < m => (pos + n) - q = (k + 1) * D
  <2>1. (k + 1) * D = a + D /\ ((k + 1) - 1) * D = a
    <3>1. (k + 1) * D = k * D + D /\ (k + 1) - 1 = k
      BY Times
    <3>2. QED
      BY <1>5, <3>1
  <2>2. (pos + n) - q <= a + D /\ a < (pos + n) - q /\ (pos + n < m => (pos + n) - q = a + D)
    <3>1. n <= D /\ (pos + n < m => n = D) /\ n > 0
      BY <1>1
    <3>2. QED
      BY <1>6, <3>1
  <2>3. QED
    BY <2>1, <2>2
<1>8. ASSUME NEW j \in 0..(k + 1) - 1
      PROVE  /\ t[j * D + j + 1] = "D"
             /\ \A d \in 1..D : q + j * D + d <= pos + n =>
                    t[j * D + j + 1 + d] = file[q + j * D + d]
  <2>1. CASE j = k
    <3>1. t[l + 1] = "D" /\ a + k + 1 = l + 1
      BY <1>4, <1>5
    <3>2. ASSUME NEW d \in 1..D, q + a + d <= pos + n
          PROVE  t[a + k + 1 + d] = file[q + a + d]
      <4>1. d \in 1..n /\ l + (1 + d) = a + k + 1 + d /\ pos + d = q + a + d
        BY <1>6, <3>2
      <4>2. QED
        BY <1>4, <4>1
    <3>3. QED
      BY <1>5, <2>1, <3>1, <3>2
  <2>2. CASE j # k
    <3>1. j \in 0..k - 1 /\ j \in Nat /\ j + 1 <= k
      BY <2>2
    <3>2. PICK b \in Nat : b = j * D /\ b + D <= a
      <4>1. j * D \in Int /\ (j + 1) * D = j * D + D /\ 0 * D = 0
        BY <3>1, Times
      <4>2. 0 * D <= j * D /\ (j + 1) * D <= k * D
        BY <3>1, TimesOrder
      <4>3. QED
        BY <1>5, <4>1, <4>2
    <3>3. /\ s[b + j + 1] = "D"
          /\ \A d \in 1..D : q + b + d <= pos => s[b + j + 1 + d] = file[q + b + d]
      BY <1>3, <3>1, <3>2
    <3>4. b + j + 1 \in 1..l
      BY <1>6, <3>1, <3>2
    <3>5. ASSUME NEW d \in 1..D PROVE t[b + j + 1 + d] = file[q + b + d]
      <4>0. d \in Nat /\ b + d <= a
        BY <3>2
      <4>1. q + b + d <= pos /\ b + j + 1 + d \in 1..l
        BY <1>6, <3>1, <4>0
      <4>2. QED
        BY <1>4, <3>3, <4>1
    <3>6. QED
      BY <1>4, <3>2, <3>3, <3>4, <3>5
  <2>3. QED
    BY <2>1, <2>2
<1>9. QED
  <2>0. (l + (1 + n)) + q - (pos + n) = k + 1
    BY <1>2
  <2>1. Len(t) + Len(copy) - (pos + n) = k + 1
    BY <1>1, <1>4, <2>0
  <2>2. q <= pos + n /\ pos + n <= m /\ 0 <= k + 1
    BY <1>1, <1>3
  <2>3. QED
    BY <1>1, <1>3, <1>7, <1>8, <2>1, <2>2 DEF Carries
-----------------------------------------------------------------------------
(* Copies. *)

(* A client waits for accept once, after connecting, and has no child yet. *)
Queued ==
    /\ \A x, y \in 1..Len(backlog) : backlog[x] = backlog[y] => x = y
    /\ \A x \in 1..Len(backlog) :
          client[backlog[x]].at # "off" /\ child[backlog[x]].at = "none"

(* Nothing is sent to a client that has not asked for a file.              *)
Silent ==
    \A c \in Clients :
        /\ client[c].at = "off" => child[c].at = "none"
        /\ client[c].at \in {"off", "prompt"} =>
              child[c].at \in {"none", "request"} /\ stream[c] = <<>> /\ client[c].fd

(* The one packet a client gets when the server has no such file.          *)
Refusal(fd, s, at) ==
    \/ fd /\ at \in {"none", "request"} /\ s = <<>>
    \/ fd /\ at = "closed" /\ Len(s) = 1 + DataLen /\ s[1] = "E"
    \/ ~ fd /\ at = "closed" /\ s = <<>>

(* What a client has and what is on the way make up what the child has     *)
(* read of the file, as long as the client reads packet by packet.         *)
CopyGrows(c) ==
    LET file == Files[client[c].name] IN
    client[c].at = "reading" /\ client[c].whole =>
        IF file = None THEN Refusal(client[c].fd, stream[c], child[c].at)
        ELSE /\ client[c].fd
             /\ Carries(disk[Folder[c]][client[c].name], stream[c], file, child[c].pos)
             /\ child[c].at = "closed" => child[c].pos = Len(file)

CopyInv == Queued /\ Silent /\ \A c \in Clients : CopyGrows(c)

(* The parts of a step that decide about one client's copy.                *)
CopyNow(c) == disk[Folder[c]][client[c].name]

LEMMA CopyElsewhere ==
    ASSUME NEW c \in Clients, client'[c].at # "reading" PROVE CopyGrows(c)'
BY DEF CopyGrows, CopyNow

LEMMA CopyStays ==
    ASSUME NEW c \in Clients, CopyGrows(c), UNCHANGED <<client[c], stream[c], child[c]>>,
           client[c].at = "reading" => UNCHANGED CopyNow(c)
    PROVE  CopyGrows(c)'
<1>1. CASE client[c].at = "reading"
  <2>1. UNCHANGED <<client[c], stream[c], child[c], CopyNow(c)>>
    BY <1>1
  <2>2. QED
    BY <2>1 DEF CopyGrows, CopyNow
<1>2. CASE client[c].at # "reading"
    BY <1>2, CopyElsewhere
<1>3. QED
    BY <1>1, <1>2

LEMMA CopyMoves ==
    ASSUME NEW c \in Clients, NEW file \in Seq(Byte), file = Files[client'[c].name], file # None,
           client'[c].at = "reading" /\ client'[c].whole =>
             /\ client'[c].fd
             /\ Carries(CopyNow(c)', stream'[c], file, child'[c].pos)
             /\ child'[c].at = "closed" => child'[c].pos = Len(file)
    PROVE  CopyGrows(c)'
BY DEF CopyGrows, CopyNow

LEMMA RefusalMoves ==
    ASSUME NEW c \in Clients, Files[client'[c].name] = None,
           client'[c].at = "reading" /\ client'[c].whole =>
               Refusal(client'[c].fd, stream'[c], child'[c].at)
    PROVE  CopyGrows(c)'
BY DEF CopyGrows, CopyNow

(* A step changes at most one client or its child.                         *)
LEMMA CopiesStay ==
    ASSUME CopyInv, NEW c \in Clients, CopyGrows(c)',
           \A e \in Clients : e # c =>
               /\ UNCHANGED <<client[e], stream[e], child[e]>>
               /\ client[e].at = "reading" => UNCHANGED CopyNow(e)
    PROVE  \A e \in Clients : CopyGrows(e)'
<1>1. ASSUME NEW e \in Clients, e # c PROVE CopyGrows(e)'
    BY <1>1, CopyStays DEF CopyInv
<1>2. QED
    BY <1>1

LEMMA InitCopy == Init => CopyInv
<1> SUFFICES ASSUME Init PROVE CopyInv
    OBVIOUS
<1>1. Queued
    BY DEF Init, Queued
<1>2. Silent
    BY DEF Init, Silent
<1>3. \A c \in Clients : CopyGrows(c)
    BY DEF Init, CopyGrows
<1>4. QED
    BY <1>1, <1>2, <1>3 DEF CopyInv

LEMMA ConnectCopy == ASSUME Inv, CopyInv, NEW c \in Clients, Connect(c) PROVE CopyInv'
<1>1. /\ client[c].at = "off" /\ client' = [client EXCEPT ![c].at = "prompt"]
      /\ backlog' = Append(backlog, c) /\ UNCHANGED <<child, stream, disk>>
    BY DEF Connect
<1>2. /\ client'[c].at = "prompt" /\ client'[c].fd = client[c].fd
      /\ \A e \in Clients : e # c => client'[e] = client[e]
    BY <1>1 DEF Inv, TypeOK, Process
<1>3. PICK l \in Nat : l = Len(backlog) /\ \A x \in 1..l : backlog[x] \in Clients
    BY LenProperties, ElementOfSeq DEF Inv, TypeOK
<1>4. /\ Len(backlog') = l + 1 /\ backlog'[l + 1] = c
      /\ \A x \in 1..l : backlog'[x] = backlog[x]
    BY <1>1, <1>3, AppendProperties DEF Inv, TypeOK
<1>5. \A x \in 1..l : backlog[x] # c /\ client[backlog[x]].at # "off" /\ child[backlog[x]].at = "none"
    BY <1>1, <1>3 DEF CopyInv, Queued
<1>6. child[c].at = "none" /\ stream[c] = <<>> /\ client[c].fd
    BY <1>1 DEF CopyInv, Silent
<1>7. Queued'
  <2>1. \A x \in 1..l + 1 : x \in 1..l \/ x = l + 1
    BY <1>3
  <2>2. \A x, y \in 1..l + 1 : backlog'[x] = backlog'[y] => x = y
    BY <1>3, <1>4, <1>5, <2>1 DEF CopyInv, Queued
  <2>3. \A x \in 1..l + 1 : client'[backlog'[x]].at # "off" /\ child'[backlog'[x]].at = "none"
    BY <1>1, <1>2, <1>3, <1>4, <1>5, <1>6, <2>1
  <2>4. QED
    BY <1>4, <2>2, <2>3 DEF Queued
<1>8. Silent'
    BY <1>1, <1>2, <1>6 DEF CopyInv, Silent
<1>9. \A e \in Clients : CopyGrows(e)'
    BY <1>1, <1>2, CopyElsewhere, CopiesStay DEF CopyNow
<1>10. QED
    BY <1>7, <1>8, <1>9 DEF CopyInv

LEMMA AskCopy == ASSUME Inv, CopyInv, NEW c \in Clients, Ask(c) PROVE CopyInv'
<1>1. PICK n \in Names :
        \/ /\ Creates(c, n)
           /\ disk' = [disk EXCEPT ![Folder[c]][n] = <<>>]
           /\ Named(c, "reading", n)
        \/ /\ ~ Creates(c, n)
           /\ Named(c, "exists", n)
           /\ UNCHANGED disk
    BY DEF Ask
<1>2. UNCHANGED <<backlog, child, stream>> /\ client[c].at = "prompt" /\ Folder[c] \in Folders
    BY DEF Ask, Folders
<1>3. /\ client'[c].name = n /\ client'[c].fd = client[c].fd
      /\ client'[c].at \in {"reading", "exists"}
      /\ \A e \in Clients : e # c => client'[e] = client[e]
    BY <1>1 DEF Named, Inv, TypeOK, Process
<1>4. child[c].at \in {"none", "request"} /\ stream[c] = <<>> /\ client[c].fd /\ child[c].pos = 0
    BY <1>2 DEF CopyInv, Silent, Inv, Placed
<1>5. Queued'
    BY <1>2, <1>3, ElementOfSeq DEF CopyInv, Queued, Inv, TypeOK
<1>6. Silent'
    BY <1>2, <1>3 DEF CopyInv, Silent
<1>7. CopyGrows(c)'
  <2>1. CASE /\ Creates(c, n)
             /\ disk' = [disk EXCEPT ![Folder[c]][n] = <<>>]
             /\ Named(c, "reading", n)
    <3>1. disk'[Folder[c]][n] = <<>>
      BY <1>2, <2>1 DEF Inv, TypeOK
    <3>2. CopyNow(c)' = <<>> /\ stream'[c] = <<>> /\ child'[c].pos = 0
          /\ child'[c].at \in {"none", "request"} /\ client'[c].fd
      BY <1>2, <1>3, <1>4, <3>1 DEF CopyNow
    <3>3. CASE Files[n] = None
      <4>1. Refusal(client'[c].fd, stream'[c], child'[c].at)
        BY <3>2 DEF Refusal
      <4>2. QED
        BY <1>3, <3>3, <4>1, RefusalMoves
    <3>4. CASE Files[n] # None
      <4>1. Files[n] \in Seq(Byte)
        BY <3>4, TcpAssumption DEF TcpAssumption
      <4>2. Carries(CopyNow(c)', stream'[c], Files[n], child'[c].pos)
        BY <3>2, <4>1, NothingYet
      <4>3. QED
        BY <1>3, <3>2, <3>4, <4>1, <4>2, CopyMoves
    <3>5. QED
      BY <3>3, <3>4
  <2>2. CASE Named(c, "exists", n)
    <3>1. client'[c].at # "reading"
      BY <2>2, NamedFields
    <3>2. QED
      BY <3>1, CopyElsewhere
  <2>3. QED
    BY <1>1, <2>1, <2>2
<1>8. ASSUME NEW e \in Clients, e # c, client[e].at = "reading" PROVE UNCHANGED CopyNow(e)
  <2>1. disk[Folder[e]][client[e].name] # None /\ Folder[e] \in Folders /\ client[e].name \in Names
    BY <1>8 DEF Inv, Open, Placed, Folders
  <2>2. Creates(c, n) => ~ (Folder[e] = Folder[c] /\ client[e].name = n)
    BY <2>1 DEF Creates
  <2>3. disk \in [Folders -> [Names -> Seq(Byte) \cup {None}]]
    BY DEF Inv, TypeOK
  <2>4. disk'[Folder[e]][client[e].name] = disk[Folder[e]][client[e].name]
    BY <1>1, <1>2, <2>1, <2>2, <2>3
  <2>5. client'[e] = client[e]
    BY <1>3, <1>8
  <2>6. QED
    BY <2>4, <2>5 DEF CopyNow
<1>9. \A e \in Clients : CopyGrows(e)'
    BY <1>2, <1>3, <1>7, <1>8, CopiesStay
<1>10. QED
    BY <1>5, <1>6, <1>9 DEF CopyInv

(* Only its own client touches a file that is being written.               *)
LEMMA OthersKeepTheirs ==
    ASSUME Inv, NEW c \in Clients, client[c].at = "reading", NEW file,
           disk' = disk \/ disk' = [disk EXCEPT ![Folder[c]][client[c].name] = file],
           NEW e \in Clients, e # c, client[e].at = "reading", client'[e] = client[e]
    PROVE  UNCHANGED CopyNow(e)
<1>1. /\ Folder[e] \in Folders /\ client[e].name \in Names
      /\ Folder[c] \in Folders /\ client[c].name \in Names
    BY DEF Inv, Placed, Folders
<1>2. ~ (Folder[e] = Folder[c] /\ client[e].name = client[c].name)
    BY DEF Inv, OneWriter
<1>3. QED
    BY <1>1, <1>2 DEF CopyNow, Inv, TypeOK

LEMMA ReadCopy == ASSUME Inv, CopyInv, NEW c \in Clients, Read(c) PROVE CopyInv'
<1> DEFINE most == Most(stream[c])
           n    == client[c].name
           file == Files[n]
<1>1. PICK k \in 1..most :
        /\ stream' = [stream EXCEPT ![c] = SubSeq(@, k + 1, Len(@))]
        /\ client' = [client EXCEPT ![c] =
                        [at |-> "reading", name |-> n,
                         fd |-> @.fd /\ SubSeq(stream[c], 1, k)[1] # "E",
                         whole |-> @.whole /\ k = most]]
        /\ disk' = IF SubSeq(stream[c], 1, k)[1] = "D" /\ client[c].fd
                   THEN [disk EXCEPT ![Folder[c]][n] = @ \o Payload(SubSeq(stream[c], 1, k))]
                   ELSE disk
    BY DEF Read, Most
<1>2. /\ client[c].at = "reading" /\ stream[c] # <<>> /\ UNCHANGED <<backlog, child>>
      /\ n \in Names /\ Folder[c] \in Folders /\ stream[c] \in Seq(Byte)
      /\ disk[Folder[c]][n] \in Seq(Byte)
    BY DEF Read, Inv, TypeOK, Placed, Open, Folders
<1>3. /\ client'[c].at = "reading" /\ client'[c].name = n
      /\ client'[c].fd = (client[c].fd /\ SubSeq(stream[c], 1, k)[1] # "E")
      /\ client'[c].whole = (client[c].whole /\ k = most)
      /\ \A e \in Clients : e # c => client'[e] = client[e]
    BY <1>1 DEF Inv, TypeOK
<1>4. /\ stream'[c] = SubSeq(stream[c], k + 1, Len(stream[c]))
      /\ \A e \in Clients : e # c => stream'[e] = stream[e]
    BY <1>1 DEF Inv, TypeOK
<1> HIDE DEF most
<1>5. Queued'
    BY <1>2, <1>3, ElementOfSeq DEF CopyInv, Queued, Inv, TypeOK
<1>6. Silent'
    BY <1>2, <1>3, <1>4 DEF CopyInv, Silent
<1>7. CopyGrows(c)'
  <2>1. CASE ~ client'[c].whole
    BY <2>1 DEF CopyGrows
  <2>2. CASE client'[c].whole /\ file = None
    <3>1. k = Most(stream[c]) /\ Refusal(client[c].fd, stream[c], child[c].at)
      BY <1>2, <1>3, <2>2 DEF CopyInv, CopyGrows, most
    <3>2. client[c].fd /\ child[c].at = "closed" /\ Len(stream[c]) = 1 + DataLen /\ stream[c][1] = "E"
      BY <1>2, <3>1 DEF Refusal
    <3>3. PICK l \in Nat : l = 1 + DataLen /\ l >= 1
      BY TcpAssumption DEF TcpAssumption
    <3>4. k = Len(stream[c]) /\ k \in Nat /\ 1 <= k
      BY <3>1, <3>2, <3>3, MinOfTwo DEF Most
    <3>5. stream'[c] = <<>>
      BY <1>2, <1>4, <3>4, Rest, EmptySeq
    <3>6. SubSeq(stream[c], 1, k)[1] = "E"
      <4>1. \A x \in 1..k : stream[c][x] \in Byte
        BY <1>2, <3>4, ElementOfSeq
      <4>2. SubSeq(stream[c], 1, k)[1] = stream[c][1 + 1 - 1]
        BY <3>4, <4>1, SubSeqProperties
      <4>3. QED
        BY <3>2, <4>2
    <3>7. Refusal(client'[c].fd, stream'[c], child'[c].at)
      BY <1>2, <1>3, <3>2, <3>5, <3>6 DEF Refusal
    <3>8. QED
      BY <1>3, <2>2, <3>7, RefusalMoves
  <2>3. CASE client'[c].whole /\ file # None
    <3>1. file \in Seq(Byte) /\ child[c].pos \in Nat
      BY <1>2, <2>3, TcpAssumption DEF TcpAssumption, Inv, TypeOK, Child
    <3>2. /\ client[c].fd
          /\ Carries(disk[Folder[c]][n], stream[c], file, child[c].pos)
          /\ child[c].at = "closed" => child[c].pos = Len(file)
      BY <1>2, <1>3, <2>3 DEF CopyInv, CopyGrows
    <3>3. k = Most(stream[c])
      BY <1>3, <2>3 DEF most
    <3>4. /\ SubSeq(stream[c], 1, k)[1] = "D"
          /\ Carries(disk[Folder[c]][n] \o Payload(SubSeq(stream[c], 1, k)),
                     SubSeq(stream[c], k + 1, Len(stream[c])), file, child[c].pos)
      BY <1>2, <3>1, <3>2, <3>3, PacketRead
    <3>5. disk'[Folder[c]][n] = disk[Folder[c]][n] \o Payload(SubSeq(stream[c], 1, k))
      BY <1>1, <1>2, <3>2, <3>4 DEF Inv, TypeOK
    <3>6. CopyNow(c)' = disk[Folder[c]][n] \o Payload(SubSeq(stream[c], 1, k))
      BY <1>3, <3>5 DEF CopyNow
    <3>7. Carries(CopyNow(c)', stream'[c], file, child'[c].pos) /\ client'[c].fd
      BY <1>2, <1>3, <1>4, <3>2, <3>4, <3>6
    <3>8. QED
      BY <1>2, <1>3, <2>3, <3>1, <3>2, <3>7, CopyMoves
  <2>4. QED
    BY <2>1, <2>2, <2>3
<1>8. ASSUME NEW e \in Clients, e # c, client[e].at = "reading" PROVE UNCHANGED CopyNow(e)
  <2>1. client'[e] = client[e]
    BY <1>3, <1>8
  <2>2. disk' = disk \/ disk' = [disk EXCEPT ![Folder[c]][client[c].name] =
                                    disk[Folder[c]][n] \o Payload(SubSeq(stream[c], 1, k))]
    BY <1>1
  <2>3. QED
    BY <1>2, <1>8, <2>1, <2>2, OthersKeepTheirs
<1>9. \A e \in Clients : CopyGrows(e)'
    BY <1>2, <1>3, <1>4, <1>7, <1>8, CopiesStay
<1>10. QED
    BY <1>5, <1>6, <1>9 DEF CopyInv

LEMMA EndCopy == ASSUME Inv, CopyInv, NEW c \in Clients, End(c) PROVE CopyInv'
<1>1. /\ client[c].at = "reading" /\ UNCHANGED <<backlog, child, stream>>
      /\ client' = [client EXCEPT ![c].at = "done"]
    BY DEF End
<1>2. client'[c].at = "done" /\ \A e \in Clients : e # c => client'[e] = client[e]
    BY <1>1 DEF Inv, TypeOK
<1>3. Queued'
    BY <1>1, <1>2, ElementOfSeq DEF CopyInv, Queued, Inv, TypeOK
<1>4. Silent'
    BY <1>1, <1>2 DEF CopyInv, Silent
<1>5. CopyGrows(c)'
    BY <1>2, CopyElsewhere
<1>6. ASSUME NEW e \in Clients, e # c, client[e].at = "reading" PROVE UNCHANGED CopyNow(e)
  <2>1. disk' = disk \/ disk' = [disk EXCEPT ![Folder[c]][client[c].name] = None]
    BY DEF End
  <2>2. QED
    BY <1>1, <1>2, <1>6, <2>1, OthersKeepTheirs
<1>7. \A e \in Clients : CopyGrows(e)'
    BY <1>1, <1>2, <1>5, <1>6, CopiesStay
<1>8. QED
    BY <1>3, <1>4, <1>7 DEF CopyInv

LEMMA AcceptCopy == ASSUME Inv, CopyInv, Accept PROVE CopyInv'
<1>0. PICK c \in Clients : c = Head(backlog)
    BY HeadTailProperties DEF Accept, Inv, TypeOK
<1>1. /\ backlog # <<>> /\ backlog' = Tail(backlog) /\ UNCHANGED <<client, stream, disk>>
      /\ child' = [child EXCEPT ![c] = [at |-> "request", pos |-> 0]]
    BY <1>0 DEF Accept
<1>2. PICK l \in Nat : l = Len(backlog) /\ \A x \in 1..l : backlog[x] \in Clients
    BY LenProperties, ElementOfSeq DEF Inv, TypeOK
<1>3. /\ c = backlog[1] /\ l >= 1 /\ Len(backlog') = l - 1
      /\ \A x \in 1..l - 1 : backlog'[x] = backlog[x + 1]
    BY <1>0, <1>1, <1>2, HeadTailProperties, EmptySeq DEF Inv, TypeOK
<1>4. client[c].at # "off" /\ child[c].at = "none" /\ child[c].pos = 0
    BY <1>2, <1>3 DEF CopyInv, Queued, Inv, Placed
<1>5. child'[c] = [at |-> "request", pos |-> 0] /\ \A e \in Clients : e # c => child'[e] = child[e]
    BY <1>1, <1>4 DEF Inv, TypeOK
<1>6. Queued'
  <2>1. \A x \in 1..l - 1 : x + 1 \in 1..l /\ 1 \in 1..l /\ x + 1 # 1
    BY <1>2, <1>3
  <2>2. \A x \in 1..l - 1 : backlog'[x] \in Clients /\ backlog'[x] # c
    BY <1>2, <1>3, <2>1 DEF CopyInv, Queued
  <2>3. \A x \in 1..l - 1 : client'[backlog'[x]].at # "off" /\ child'[backlog'[x]].at = "none"
    BY <1>1, <1>2, <1>3, <1>5, <2>1, <2>2 DEF CopyInv, Queued
  <2>4. \A x, y \in 1..l - 1 : backlog'[x] = backlog'[y] => x = y
    <3>1. ASSUME NEW x \in 1..l - 1, NEW y \in 1..l - 1, backlog'[x] = backlog'[y] PROVE x = y
      <4>1. x + 1 \in 1..l /\ y + 1 \in 1..l /\ backlog[x + 1] = backlog[y + 1]
        BY <1>3, <2>1, <3>1
      <4>2. x + 1 = y + 1
        BY <1>2, <4>1 DEF CopyInv, Queued
      <4>3. QED
        BY <4>2
    <3>2. QED
      BY <3>1
  <2>5. QED
    BY <1>3, <2>3, <2>4 DEF Queued
<1>7. Silent'
    BY <1>1, <1>4, <1>5 DEF CopyInv, Silent
<1>8. CopyGrows(c)'
  <2>1. CopyGrows(c) /\ client'[c] = client[c] /\ stream'[c] = stream[c] /\ UNCHANGED CopyNow(c)
    BY <1>1, <1>4 DEF CopyInv, CopyNow
  <2>2. CASE client[c].at # "reading"
    BY <2>1, <2>2, CopyElsewhere
  <2>3. CASE client[c].at = "reading" /\ Files[client[c].name] = None
    <3>1. client'[c].whole => Refusal(client'[c].fd, stream'[c], child'[c].at)
      BY <1>4, <1>5, <2>1, <2>3 DEF CopyGrows, Refusal
    <3>2. QED
      BY <2>1, <2>3, <3>1, RefusalMoves
  <2>4. CASE client[c].at = "reading" /\ Files[client[c].name] # None
    <3>1. Files[client[c].name] \in Seq(Byte)
      BY <1>4, <2>4, TcpAssumption DEF TcpAssumption, Inv, Placed
    <3>2. child'[c].pos = child[c].pos /\ child'[c].at # "closed"
      BY <1>4, <1>5
    <3>3. client[c].whole => client[c].fd /\ Carries(CopyNow(c), stream[c], Files[client[c].name], child[c].pos)
      BY <2>1, <2>4 DEF CopyGrows, CopyNow
    <3>4. client[c].whole => Carries(CopyNow(c)', stream'[c], Files[client'[c].name], child'[c].pos)
      BY <2>1, <3>2, <3>3
    <3>5. QED
      BY <2>1, <2>4, <3>1, <3>2, <3>3, <3>4, CopyMoves
  <2>5. QED
    BY <2>2, <2>3, <2>4
<1>9. \A e \in Clients : CopyGrows(e)'
    BY <1>1, <1>4, <1>5, <1>8, CopiesStay DEF CopyNow
<1>10. QED
    BY <1>6, <1>7, <1>9 DEF CopyInv

(* A step of the child of c, which has been accepted and knows the name.   *)
LEMMA ChildCopy ==
    ASSUME Inv, CopyInv, NEW c \in Clients, child[c].at \in {"request", "sending"},
           client[c].name # None, UNCHANGED <<client, backlog, disk>>,
           \A e \in Clients : e # c => UNCHANGED <<child[e], stream[e]>>,
           CopyGrows(c)'
    PROVE  CopyInv'
<1>1. client[c].at \notin {"off", "prompt"}
    BY DEF Inv, Placed
<1>2. Queued'
  <2>1. \A x \in 1..Len(backlog) : backlog[x] \in Clients /\ backlog[x] # c
    BY ElementOfSeq DEF CopyInv, Queued, Inv, TypeOK
  <2>2. QED
    BY <2>1 DEF CopyInv, Queued
<1>3. Silent'
    BY <1>1 DEF CopyInv, Silent
<1>4. \A e \in Clients : CopyGrows(e)'
    BY CopiesStay DEF CopyNow
<1>5. QED
    BY <1>2, <1>3, <1>4 DEF CopyInv

LEMMA OpenFileCopy == ASSUME Inv, CopyInv, NEW c \in Clients, OpenFile(c) PROVE CopyInv'
<1> DEFINE file == Files[client[c].name]
           refusal == <<"E">> \o [x \in 1..DataLen |-> "x"]
<1>1. /\ child[c].at = "request" /\ client[c].name # None /\ client[c].name \in Names
      /\ UNCHANGED <<client, backlog, disk>> /\ stream \in [Clients -> Seq(Byte)]
    BY DEF OpenFile, Inv, TypeOK, Process
<1>2. /\ \A e \in Clients : e # c => UNCHANGED <<child[e], stream[e]>>
      /\ child'[c].pos = child[c].pos
  <2>1. PICK at \in {"closed", "sending"} : child' = [child EXCEPT ![c].at = at]
    BY DEF OpenFile
  <2>2. /\ \A e \in Clients : e # c => child'[e] = child[e]
        /\ child'[c].pos = child[c].pos
    BY <2>1 DEF Inv, TypeOK, Child
  <2>3. \A e \in Clients : e # c => stream'[e] = stream[e]
    BY <1>1 DEF OpenFile, Write
  <2>4. QED
    BY <2>2, <2>3
<1>3. CASE client[c].at # "reading"
  <2>1. CopyGrows(c)'
    BY <1>1, <1>3, CopyElsewhere
  <2>2. QED
    BY <1>1, <1>2, <2>1, ChildCopy
<1>4. CASE client[c].at = "reading" /\ file = None
  <2>1. child'[c].at = "closed" /\ Write(c, refusal)
    <3>1. child' = [child EXCEPT ![c].at = "closed"] /\ Write(c, refusal)
      BY <1>4 DEF OpenFile
    <3> HIDE DEF refusal
    <3>2. QED
      BY <3>1 DEF Inv, TypeOK, Child
  <2>2. client[c].whole => client[c].fd /\ stream[c] = <<>>
    BY <1>1, <1>4 DEF CopyInv, CopyGrows, Refusal
  <2>3. stream'[c] = stream[c] \o refusal
    BY <1>1, <1>4, <2>1 DEF Write
  <2>4. refusal \in Seq(Byte) /\ Len(refusal) = 1 + DataLen /\ refusal[1] = "E"
    <3>1. PICK D \in Nat : D = DataLen
      BY TcpAssumption DEF TcpAssumption
    <3>2. /\ [x \in 1..D |-> "x"] \in Seq(Byte) /\ Len([x \in 1..D |-> "x"]) = D
          /\ <<"E">> \in Seq(Byte) /\ Len(<<"E">>) = 1 /\ <<"E">>[1] = "E"
      BY DEF Byte
    <3>3. QED
      BY <3>1, <3>2, ConcatProperties
  <2> HIDE DEF refusal
  <2>5. client[c].whole => stream'[c] = refusal
    BY <2>2, <2>3, <2>4, ConcatEmptySeq
  <2>6. client'[c].whole => Refusal(client'[c].fd, stream'[c], child'[c].at)
    BY <1>1, <2>1, <2>2, <2>4, <2>5 DEF Refusal
  <2>7. CopyGrows(c)'
    BY <1>1, <1>4, <2>6, RefusalMoves
  <2>8. QED
    BY <1>1, <1>2, <2>7, ChildCopy
<1>5. CASE client[c].at = "reading" /\ file # None
  <2>1. child'[c].at = "sending" /\ UNCHANGED stream
    <3>1. child' = [child EXCEPT ![c].at = "sending"] /\ UNCHANGED stream
      BY <1>5 DEF OpenFile
    <3>2. QED
      BY <3>1 DEF Inv, TypeOK, Child
  <2>2. file \in Seq(Byte)
    BY <1>1, <1>5, TcpAssumption DEF TcpAssumption
  <2>3. client[c].whole => client[c].fd /\ Carries(CopyNow(c), stream[c], file, child[c].pos)
    BY <1>5 DEF CopyInv, CopyGrows, CopyNow
  <2>4. UNCHANGED CopyNow(c)
    BY <1>1 DEF CopyNow
  <2>5. client'[c].whole => client'[c].fd /\ Carries(CopyNow(c)', stream'[c], file, child'[c].pos)
    BY <1>1, <1>2, <2>1, <2>3, <2>4
  <2>6. CopyGrows(c)'
    BY <1>1, <1>5, <2>1, <2>2, <2>5, CopyMoves
  <2>7. QED
    BY <1>1, <1>2, <2>6, ChildCopy
<1>6. QED
    BY <1>3, <1>4, <1>5

LEMMA SendPacketCopy == ASSUME Inv, CopyInv, NEW c \in Clients, SendPacket(c) PROVE CopyInv'
<1> DEFINE file == Files[client[c].name]
           pos  == child[c].pos
           n    == Min({DataLen, Len(file) - pos})
           packet == <<"D">> \o SubSeq(file, pos + 1, pos + n)
<1>1. /\ child[c].at = "sending" /\ UNCHANGED <<client, backlog, disk>>
      /\ Write(c, packet)
      /\ child' = [child EXCEPT ![c].pos = pos + n]
    BY DEF SendPacket
<1>2. /\ client[c].name \in Names /\ client[c].name # None /\ file # None /\ file \in Seq(Byte)
      /\ pos \in Nat /\ pos < Len(file)
  <2>1. client[c].name \in Names /\ file # None
    BY <1>1 DEF Inv, Placed
  <2>2. client[c].name # None /\ file \in Seq(Byte)
    BY <2>1, TcpAssumption DEF TcpAssumption
  <2>3. Len(file) \in Nat /\ pos \in Nat
    BY <2>2, LenProperties DEF Inv, TypeOK, Child
  <2>4. QED
    BY <2>1, <2>2, <2>3 DEF SendPacket, AtEnd
<1>3. /\ n \in Nat \ {0} /\ n <= DataLen /\ pos + n <= Len(file)
      /\ pos + n < Len(file) => n = DataLen
      /\ packet \in Seq(Byte) /\ Len(packet) = 1 + n /\ packet[1] = "D"
      /\ \A d \in 1..n : packet[1 + d] = file[pos + d]
    BY <1>2, NextPiece
<1> HIDE DEF n, packet
<1>4. /\ \A e \in Clients : e # c => UNCHANGED <<child[e], stream[e]>>
      /\ child'[c].pos = pos + n /\ child'[c].at = "sending"
    BY <1>1 DEF Write, Inv, TypeOK, Child
<1>5. CopyGrows(c)'
  <2>1. CASE client[c].at # "reading"
    BY <1>1, <2>1, CopyElsewhere
  <2>2. CASE client[c].at = "reading"
    <3>1. /\ stream'[c] = stream[c] \o packet /\ stream[c] \in Seq(Byte)
          /\ UNCHANGED CopyNow(c) /\ CopyNow(c) \in Seq(Byte)
      BY <1>1, <1>2, <2>2 DEF Write, CopyNow, Inv, TypeOK, Open, Folders
    <3>2. client[c].whole => client[c].fd /\ Carries(CopyNow(c), stream[c], file, pos)
      BY <1>2, <2>2 DEF CopyInv, CopyGrows, CopyNow
    <3>3. client[c].whole => Carries(CopyNow(c), stream[c] \o packet, file, pos + n)
      <4>1. n \in Nat /\ n # 0
        BY <1>3
      <4>0. packet \in Seq(Byte) /\ stream[c] \in Seq(Byte)
        BY <1>3, <3>1
      <4>2. PICK t \in Seq(Byte) :
               /\ t = stream[c] \o packet /\ Len(t) = Len(stream[c]) + Len(packet)
               /\ \A x \in 1..Len(stream[c]) : t[x] = stream[c][x]
               /\ \A x \in 1..Len(packet) : t[Len(stream[c]) + x] = packet[x]
        <5>1. PICK str \in Seq(Byte), more \in Seq(Byte) : str = stream[c] /\ more = packet
          BY <4>0
        <5>2. /\ str \o more \in Seq(Byte) /\ Len(str \o more) = Len(str) + Len(more)
              /\ \A x \in 1..Len(str) : (str \o more)[x] = str[x]
              /\ \A x \in 1..Len(more) : (str \o more)[Len(str) + x] = more[x]
          BY Joined
        <5>3. QED
          BY <5>1, <5>2
      <4>3. 1 \in 1..1 + n /\ \A d \in 1..n : 1 + d \in 1..1 + n
        BY <4>1
      <4>4. /\ Len(t) = Len(stream[c]) + (1 + n) /\ t[Len(stream[c]) + 1] = "D"
            /\ \A d \in 1..n : t[Len(stream[c]) + (1 + d)] = file[pos + d]
        BY <1>3, <4>2, <4>3
      <4>5. client[c].whole => Carries(CopyNow(c), t, file, pos + n)
        <5> SUFFICES ASSUME client[c].whole PROVE Carries(CopyNow(c), t, file, pos + n)
          OBVIOUS
        <5>1. PICK copy \in Seq(Byte), str \in Seq(Byte) : copy = CopyNow(c) /\ str = stream[c]
          BY <3>1
        <5>2. Carries(copy, str, file, pos)
          BY <3>2, <5>1
        <5>3. /\ Len(t) = Len(str) + (1 + n) /\ t[Len(str) + 1] = "D"
              /\ \A x \in 1..Len(str) : t[x] = str[x]
              /\ \A d \in 1..n : t[Len(str) + (1 + d)] = file[pos + d]
          BY <4>2, <4>4, <5>1
        <5> HIDE DEF file, pos
        <5>4. Carries(copy, t, file, pos + n)
          BY <1>2, <1>3, <4>1, <5>2, <5>3, PacketWritten
        <5>5. QED
          BY <5>1, <5>4
      <4>6. QED
        BY <4>2, <4>5
    <3>4. client'[c].whole => client'[c].fd /\ Carries(CopyNow(c)', stream'[c], file, child'[c].pos)
      BY <1>1, <1>4, <3>1, <3>2, <3>3
    <3>5. QED
      BY <1>1, <1>2, <1>4, <3>4, CopyMoves
  <2>3. QED
    BY <2>1, <2>2
<1>6. QED
    BY <1>1, <1>2, <1>4, <1>5, ChildCopy

LEMMA CloseFileCopy == ASSUME Inv, CopyInv, NEW c \in Clients, CloseFile(c) PROVE CopyInv'
<1> DEFINE file == Files[client[c].name]
<1>1. /\ child[c].at = "sending" /\ UNCHANGED <<client, backlog, stream, disk>>
      /\ child' = [child EXCEPT ![c].at = "closed"]
    BY DEF CloseFile
<1>2. /\ client[c].name \in Names /\ client[c].name # None /\ file # None /\ file \in Seq(Byte)
      /\ child[c].pos = Len(file)
  <2>1. client[c].name \in Names /\ file # None
    BY <1>1 DEF Inv, Placed
  <2>2. client[c].name # None /\ file \in Seq(Byte)
    BY <2>1, TcpAssumption DEF TcpAssumption
  <2>3. PICK l \in Nat, m \in Nat : l = Len(file) /\ m = child[c].pos
    BY <2>2, LenProperties DEF Inv, TypeOK, Child
  <2>4. m >= l /\ m <= l
    BY <1>1, <2>3 DEF CloseFile, AtEnd, Inv, TypeOK
  <2>5. QED
    BY <2>1, <2>2, <2>3, <2>4
<1>3. /\ \A e \in Clients : e # c => UNCHANGED <<child[e], stream[e]>>
      /\ child'[c].pos = child[c].pos
    BY <1>1 DEF Inv, TypeOK
<1>4. CopyGrows(c)'
  <2>1. client[c].at = "reading" /\ client[c].whole =>
            client[c].fd /\ Carries(CopyNow(c), stream[c], file, child[c].pos)
    BY <1>2 DEF CopyInv, CopyGrows, CopyNow
  <2>2. UNCHANGED CopyNow(c)
    BY <1>1 DEF CopyNow
  <2>3. client'[c].at = "reading" /\ client'[c].whole =>
            client'[c].fd /\ Carries(CopyNow(c)', stream'[c], file, child'[c].pos)
    BY <1>1, <1>3, <2>1, <2>2
  <2>4. QED
    BY <1>1, <1>2, <1>3, <2>3, CopyMoves
<1>5. QED
    BY <1>1, <1>2, <1>3, <1>4, ChildCopy

LEMMA StepCopy == Inv /\ CopyInv /\ [Next]_vars => CopyInv'
<1>1. ASSUME Inv, CopyInv, UNCHANGED vars PROVE CopyInv'
  <2>1. UNCHANGED <<client, backlog, child, stream, disk>>
    BY <1>1 DEF vars
  <2>2. Queued' /\ Silent'
    BY <1>1, <2>1 DEF CopyInv, Queued, Silent
  <2>3. \A c \in Clients : CopyGrows(c)'
    BY <1>1, <2>1, CopyStays DEF CopyInv, CopyNow
  <2>4. QED
    BY <2>2, <2>3 DEF CopyInv
<1>2. ASSUME Inv, CopyInv, Next PROVE CopyInv'
    BY <1>2, AcceptCopy, ConnectCopy, AskCopy, ReadCopy, EndCopy, OpenFileCopy, SendPacketCopy,
       CloseFileCopy DEF Next, ClientStep, ChildStep
<1>3. QED
    BY <1>1, <1>2

(* At the end of a stream everything that was sent has been read.          *)
LEMMA EndsComplete ==
    ASSUME Inv, CopyInv, NEW c \in Clients, End(c), client[c].whole
    PROVE  disk'[Folder[c]][client[c].name] = Files[client[c].name]
<1> DEFINE n == client[c].name
<1>1. /\ client[c].at = "reading" /\ stream[c] = <<>> /\ child[c].at = "closed"
      /\ disk' = IF client[c].fd THEN disk ELSE [disk EXCEPT ![Folder[c]][n] = None]
      /\ n \in Names /\ Folder[c] \in Folders /\ disk[Folder[c]][n] \in Seq(Byte)
  <2>1. client[c].at = "reading" /\ n \in Names /\ Folder[c] \in Folders /\ disk[Folder[c]][n] # None
    BY DEF End, Inv, Placed, Open, Folders
  <2>2. disk[Folder[c]][n] \in Seq(Byte)
    BY <2>1 DEF Inv, TypeOK
  <2>3. QED
    BY <2>1, <2>2 DEF End
<1>2. CASE Files[n] = None
  <2>1. Len(<<>>) # 1 + DataLen
    BY TcpAssumption DEF TcpAssumption
  <2>2. ~ client[c].fd
    BY <1>1, <1>2, <2>1 DEF CopyInv, CopyGrows, Refusal
  <2>3. QED
    BY <1>1, <1>2, <2>2 DEF Inv, TypeOK
<1>3. CASE Files[n] # None
  <2>1. /\ client[c].fd /\ child[c].pos = Len(Files[n])
        /\ Carries(disk[Folder[c]][n], <<>>, Files[n], child[c].pos)
    BY <1>1, <1>3 DEF CopyInv, CopyGrows
  <2>2. Files[n] \in Seq(Byte)
    BY <1>1, <1>3, TcpAssumption DEF TcpAssumption
  <2>3. PICK l \in Nat, q \in Nat : l = Len(Files[n]) /\ q = Len(disk[Folder[c]][n])
    BY <1>1, <2>2, LenProperties
  <2>4. q <= l /\ 0 <= 0 + q - l /\ \A b \in 1..q : disk[Folder[c]][n][b] = Files[n][b]
    BY <2>1, <2>3 DEF Carries
  <2>5. q = l
    BY <2>4
  <2>6. disk[Folder[c]][n] = Files[n]
    BY <1>1, <2>2, <2>3, <2>4, <2>5, SeqEqual
  <2>7. QED
    BY <1>1, <2>1, <2>6
<1>4. QED
    BY <1>2, <1>3

(* Nobody but the client itself ends its reading. *)
LEMMA OnlyEndEnds ==
    ASSUME Inv, Next, NEW c \in Clients, client[c].at = "reading", client'[c].at = "done"
    PROVE  End(c)
<1>1. ASSUME NEW e \in Clients, Connect(e) \/ Ask(e) \/ Read(e) PROVE FALSE
  <2>1. CASE Connect(e)
    BY <2>1 DEF Connect, Inv, TypeOK, Process
  <2>2. CASE Ask(e)
    BY <2>2 DEF Ask, Named, Inv, TypeOK, Process
  <2>3. CASE Read(e)
    BY <2>3 DEF Read, Inv, TypeOK, Process
  <2>4. QED
    BY <1>1, <2>1, <2>2, <2>3
<1>2. ASSUME NEW e \in Clients, ChildStep(e) PROVE FALSE
    BY <1>2 DEF ChildStep, OpenFile, SendPacket, CloseFile
<1>3. ~ Accept
    BY DEF Accept
<1>4. ASSUME NEW e \in Clients, End(e) PROVE e = c
    BY <1>4 DEF End, Inv, TypeOK
<1>5. QED
    BY <1>1, <1>2, <1>3, <1>4 DEF Next, ClientStep

(* A client that ends has the file of the server, byte for byte, or no     *)
(* file if the server has none, for any clients, files and packet length,  *)
(* whoever else is served meanwhile - as long as no read of its stream     *)
(* stops before the end of a packet.                                       *)
THEOREM CopiesAreFiles == Spec => CopyIsFile
<1>1. ASSUME Inv, CopyInv, [Next]_vars
      PROVE  [\A c \in Clients : client[c].whole => EndsWithFile(c)]_vars
  <2>1. ASSUME Next, NEW c \in Clients, client[c].whole PROVE EndsWithFile(c)
    BY <1>1, <2>1, OnlyEndEnds, EndsComplete DEF EndsWithFile
  <2>2. QED
    BY <1>1, <2>1
<1>2. Init => CopyInv
    BY InitCopy
<1>3. Spec => []CopyInv
  <2>1. Spec => Init /\ [][Next]_vars /\ []Inv
    BY Always DEF Spec
  <2>2. QED
    BY <1>2, <2>1, StepCopy, PTL
<1>4. QED
    BY <1>1, <1>3, Always, PTL DEF Spec, CopyIsFile
=============================================================================
