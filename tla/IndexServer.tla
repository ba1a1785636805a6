---------------------------- MODULE IndexServer ----------------------------
(***************************************************************************)
(* The index server of the peer-to-peer project (index_serverv2.c): a      *)
(* single-threaded loop that reads one datagram, updates a singly linked   *)
(* list of registrations and answers.  The list is a sequence, head first. *)
(***************************************************************************)
EXTENDS IndexProtocol

VARIABLE index       (* the linked list: <<head, head->next, ...>> *)

vars == <<index, inbox, outbox>>

Init == ChannelsInit /\ index = <<>>

-----------------------------------------------------------------------------
(* Faulty scans: one that lets a registration in twice, and one that lets  *)
(* a name in at two addresses.                                             *)
StopsOnTakenOnly(e, r) == e.peer = r.peer /\ e.addr # r.from

StopsOnSameOnly(e, r)  == e = EntryOf(r)

(* A node the scan of 'R' stops at: the same registration again, or the    *)
(* peer name in use at another address.                                    *)
Stops(e, r) ==
    /\ e.peer = r.peer
    /\ e.addr = r.from => e.content = r.content

FirstStop(list, r, i) ==
    /\ i \in 1..Len(list)
    /\ Stops(list[i], r)
    /\ \A j \in 1..(i - 1) : ~ Stops(list[j], r)

(* A faulty 'R' that puts the new node at the head. *)
RegisterAtHead(r) ==
    /\ r.type = "R"
    /\ \A i \in 1..Len(index) : ~ Stops(index[i], r)
    /\ index' = <<EntryOf(r)>> \o index
    /\ Answer(r, <<Echo("A", r)>>)

(* 'R': append at the tail, or refuse with the reason the scan met first. *)
Register(r) ==
    /\ r.type = "R"
    /\ \/ /\ \A i \in 1..Len(index) : ~ Stops(index[i], r)
          /\ index' = Append(index, EntryOf(r))
          /\ Answer(r, <<Echo("A", r)>>)
       \/ \E i \in 1..Len(index) :
             /\ FirstStop(index, r, i)
             /\ Answer(r, <<Refusal(IF index[i].addr = r.from THEN Duplicate ELSE Taken, r)>>)
             /\ UNCHANGED index

-----------------------------------------------------------------------------
(* 'S': the address of the first node that has the content, whoever's. *)
Provider(list, c, i) ==
    /\ i \in 1..Len(list)
    /\ list[i].content = c
    /\ \A j \in 1..(i - 1) : list[j].content # c

Search(r) ==
    /\ r.type = "S"
    /\ \/ \E i \in 1..Len(index) :
             /\ Provider(index, r.content, i)
             /\ Answer(r, <<[Echo("S", r) EXCEPT !.addr = index[i].addr]>>)
       \/ /\ \A i \in 1..Len(index) : index[i].content # r.content
          /\ Answer(r, <<Echo("E", r)>>)
    /\ UNCHANGED index

-----------------------------------------------------------------------------
(* A faulty 'T' that forgets to compare the names. *)
MatchesContentOnly(e, r) == e.content = r.content

(* 'T' compares names only; the address of the sender plays no part. *)
Matches(e, r) == e.peer = r.peer /\ e.content = r.content

(* A faulty unlinking that frees the node before the match. *)
UnlinkPredecessor(list, r) ==
    LET hits == {i \in 2..Len(list) : Matches(list[i], r)}
    IN  IF hits = {} THEN list
        ELSE DropAt(list, (CHOOSE i \in hits : \A j \in hits : i <= j) - 1)

(* The loop unlinks the first match after the head, and then the head is   *)
(* looked at too.                                                          *)
UnlinkInTail(list, r) ==
    LET hits == {i \in 2..Len(list) : Matches(list[i], r)}
    IN  IF hits = {} THEN list
        ELSE DropAt(list, CHOOSE i \in hits : \A j \in hits : i <= j)

(* A faulty unlinking that never looks at the head. *)
UnlinkForgettingHead(list, r) == UnlinkInTail(list, r)

Unlink(list, r) ==
    IF list # <<>> /\ Matches(list[1], r)
    THEN Tail(UnlinkInTail(list, r))
    ELSE UnlinkInTail(list, r)

Hit(list, r) == \E i \in 1..Len(list) : Matches(list[i], r)

Deregister(r) ==
    /\ r.type = "T"
    /\ index' = Unlink(index, r)
    /\ Answer(r, <<Echo(IF Hit(index, r) THEN "A" ELSE "E", r)>>)

-----------------------------------------------------------------------------
(* 'O': one datagram per node, from the head, and an 'A' that ends them. *)
List(r) ==
    /\ r.type = "O"
    /\ Answer(r, Listing(index, r))
    /\ UNCHANGED index

(* A faulty server that sends a PDU it does not know back. *)
IgnoreBouncing(r) ==
    /\ r.type \notin {"R", "S", "T", "O"}
    /\ Answer(r, <<Echo(r.type, r)>>)
    /\ UNCHANGED index

(* A type no branch tests for is read and dropped without an answer. *)
Ignore(r) ==
    /\ r.type \notin {"R", "S", "T", "O"}
    /\ Answer(r, <<>>)
    /\ UNCHANGED index

(* One iteration of the loop of main. *)
Serve ==
    /\ inbox # <<>>
    /\ \E r \in {Head(inbox)} :
          Register(r) \/ Search(r) \/ Deregister(r) \/ List(r) \/ Ignore(r)

Environment == (Lose \/ \E p \in Peers : ClientTurn(p)) /\ UNCHANGED index

Next == Serve \/ Environment

Spec == Init /\ [][Next]_vars

-----------------------------------------------------------------------------
(* Every variable keeps its type. *)
TypeOK == index \in Seq(Entry) /\ ChannelsTypeOK

(* The list holds a (peer name, content) pair at most once: 'T' unlinks at *)
(* most two nodes, so a pair listed more often would outlive it.           *)
UniqueEntries ==
    \A i, j \in 1..Len(index) :
        /\ index[i].peer = index[j].peer
        /\ index[i].content = index[j].content
        => i = j

(* All nodes of a peer name have one address: a name in the list belongs   *)
(* to one peer ("PEER NAME TAKEN" for every other one), however requests   *)
(* of several peers under the same name interleave.                        *)
OneAddressPerName ==
    \A i, j \in 1..Len(index) :
        index[i].peer = index[j].peer => index[i].addr = index[j].addr

(* The node that answers searches for a content keeps answering them as    *)
(* long as it is listed: neither a later registration nor the removal of   *)
(* another node diverts downloads to another peer.                         *)
StableProvider ==
    [][\A i \in 1..Len(index) :
          Provider(index, index[i].content, i)
          /\ (\E j \in 1..Len(index') : index'[j] = index[i])
          => \E j \in 1..Len(index') :
                index'[j] = index[i] /\ Provider(index', index[i].content, j)]_vars

(* What a client can rely on: the list behaves like the set of its nodes. *)
Directory == INSTANCE IndexDirectory
                 WITH shared <- {index[i] : i \in 1..Len(index)}

ImplementsDirectory == Directory!Spec
=============================================================================
