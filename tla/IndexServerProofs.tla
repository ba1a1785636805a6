------------------------- MODULE IndexServerProofs -------------------------
(***************************************************************************)
(* Theorems about the index server, for any peers, names, contents and     *)
(* queue length.                                                           *)
(***************************************************************************)
EXTENDS IndexServer, SequenceTheorems, FiniteSetTheorems, WellFoundedInduction,
        TLAPS

(* Dropping one element of a sequence closes the gap. *)
LEMMA DropAtProperties ==
    ASSUME NEW S, NEW s \in Seq(S), NEW i \in 1..Len(s)
    PROVE  /\ DropAt(s, i) \in Seq(S)
           /\ Len(DropAt(s, i)) = Len(s) - 1
           /\ \A j \in 1..(Len(s) - 1) :
                 DropAt(s, i)[j] = s[IF j < i THEN j ELSE j + 1]
<1> DEFINE a == SubSeq(s, 1, i - 1)
           b == SubSeq(s, i + 1, Len(s))
<1>1. Len(s) \in Nat /\ \A j \in 1..Len(s) : s[j] \in S
  BY LenProperties, ElementOfSeq
<1>2. /\ a \in Seq(S) /\ Len(a) = i - 1
      /\ \A j \in 1..(i - 1) : a[j] = s[j]
  BY <1>1, SubSeqProperties, SMTT(30)
<1>3. /\ b \in Seq(S) /\ Len(b) = Len(s) - i
      /\ \A j \in 1..(Len(s) - i) : b[j] = s[i + j]
  BY <1>1, SubSeqProperties, SMTT(30)
<1> HIDE DEF a, b
<1>4. /\ a \o b \in Seq(S) /\ Len(a \o b) = Len(a) + Len(b)
      /\ \A j \in 1..(Len(a) + Len(b)) :
            (a \o b)[j] = IF j <= Len(a) THEN a[j] ELSE b[j - Len(a)]
  BY <1>2, <1>3, ConcatProperties
<1>5. DropAt(s, i) = a \o b
  BY DEF DropAt, a, b
<1>6. Len(a \o b) = Len(s) - 1
  BY <1>1, <1>2, <1>3, <1>4
<1>7. ASSUME NEW j \in 1..(Len(s) - 1)
      PROVE  (a \o b)[j] = s[IF j < i THEN j ELSE j + 1]
  <2>1. j \in 1..(Len(a) + Len(b))
    BY <1>1, <1>2, <1>3
  <2>2. CASE j < i
    <3>1. j <= Len(a) /\ j \in 1..(i - 1)
      BY <2>2, <1>1, <1>2
    <3>2. QED
      BY <2>1, <2>2, <3>1, <1>2, <1>4
  <2>3. CASE j >= i
    <3>1. j - Len(a) \in 1..(Len(s) - i) /\ i + (j - Len(a)) = j + 1
      BY <2>3, <1>1, <1>2
    <3>2. (a \o b)[j] = b[j - Len(a)]
      BY <2>1, <2>3, <1>1, <1>2, <1>4
    <3>3. b[j - Len(a)] = s[i + (j - Len(a))]
      BY <3>1, <1>3
    <3>4. (IF j < i THEN j ELSE j + 1) = j + 1
      BY <2>3, <1>1
    <3>5. QED
      BY <3>1, <3>2, <3>3, <3>4
  <2>4. j < i \/ j >= i
    BY <1>1
  <2>5. QED
    BY <2>2, <2>3, <2>4
<1>8. QED
  BY <1>4, <1>5, <1>6, <1>7

(* A non-empty set of naturals has a least element. *)
LEMMA LeastElement ==
    ASSUME NEW T \in SUBSET Nat, T # {}
    PROVE  \E i \in T : \A j \in T : i <= j
<1> DEFINE R == {ss \in Nat \X Nat : ss[1] < ss[2]}
<1>1. OpToRel(<, Nat) = R
  BY Zenon DEF OpToRel
<1>2. IsWellFoundedOn(R, Nat)
  BY <1>1, NatLessThanWellFounded, Zenon
<1> HIDE DEF R
<1>3. \E i \in T : \A j \in T : ~ (<<j, i>> \in R)
  BY <1>2, WFMin
<1>4. ASSUME NEW i \in T, NEW j \in T, <<j, i>> \notin R
      PROVE  i <= j
  <2>1. i \in Nat /\ j \in Nat
    OBVIOUS
  <2>2. ~ (j < i)
    BY <2>1, <1>4 DEF R
  <2>3. QED
    BY <2>1, <2>2
<1>5. QED
  BY <1>3, <1>4
-----------------------------------------------------------------------------
(* t keeps some elements of s, in their order: g says which. *)
Keeps(s, t, g) ==
    /\ g \in [1..Len(t) -> 1..Len(s)]
    /\ \A i, j \in 1..Len(t) : i < j => g[i] < g[j]
    /\ \A j \in 1..Len(t) : t[j] = s[g[j]]

Sublist(s, t) == \E g : Keeps(s, t, g)

LEMMA SublistRefl ==
    ASSUME NEW s \in Seq(Entry)
    PROVE  Sublist(s, s)
<1> DEFINE g == [j \in 1..Len(s) |-> j]
<1>1. Keeps(s, s, g)
  BY LenProperties DEF Keeps
<1>2. QED
  BY <1>1 DEF Sublist

LEMMA SublistDropAt ==
    ASSUME NEW s \in Seq(Entry), NEW i \in 1..Len(s)
    PROVE  Sublist(s, DropAt(s, i))
<1> DEFINE t == DropAt(s, i)
           g == [j \in 1..Len(t) |-> IF j < i THEN j ELSE j + 1]
<1>1. /\ Len(s) \in Nat /\ Len(t) = Len(s) - 1
      /\ \A j \in 1..Len(t) : t[j] = s[IF j < i THEN j ELSE j + 1]
  BY DropAtProperties, LenProperties
<1> HIDE DEF t
<1>2. Keeps(s, t, g)
  BY <1>1 DEF Keeps
<1>3. QED
  BY <1>2 DEF Sublist, t

LEMMA SublistTail ==
    ASSUME NEW s \in Seq(Entry), s # <<>>
    PROVE  Tail(s) \in Seq(Entry) /\ Sublist(s, Tail(s))
<1> DEFINE t == Tail(s)
           g == [j \in 1..Len(t) |-> j + 1]
<1>1. /\ t \in Seq(Entry) /\ Len(s) \in Nat /\ Len(t) = Len(s) - 1
      /\ \A j \in 1..Len(t) : t[j] = s[j + 1]
  BY HeadTailProperties, LenProperties
<1> HIDE DEF t
<1>2. Keeps(s, t, g)
  BY <1>1 DEF Keeps
<1>3. QED
  BY <1>1, <1>2 DEF Sublist, t

LEMMA SublistTrans ==
    ASSUME NEW s \in Seq(Entry), NEW t \in Seq(Entry), NEW u \in Seq(Entry),
           Sublist(s, t), Sublist(t, u)
    PROVE  Sublist(s, u)
<1>1. PICK g : Keeps(s, t, g)
  BY DEF Sublist
<1>2. PICK h : Keeps(t, u, h)
  BY DEF Sublist
<1> DEFINE f == [j \in 1..Len(u) |-> g[h[j]]]
<1>3. Keeps(s, u, f)
  BY <1>1, <1>2 DEF Keeps
<1>4. QED
  BY <1>3 DEF Sublist
-----------------------------------------------------------------------------
(* What 'T' leaves of a list is a sublist of it. *)
LEMMA UnlinkInTailSublist ==
    ASSUME NEW list \in Seq(Entry), NEW r
    PROVE  UnlinkInTail(list, r) \in Seq(Entry) /\ Sublist(list, UnlinkInTail(list, r))
<1> DEFINE hits == {i \in 2..Len(list) : Matches(list[i], r)}
           least == CHOOSE i \in hits : \A j \in hits : i <= j
<1>1. CASE hits = {}
  BY <1>1, SublistRefl DEF UnlinkInTail
<1>2. CASE hits # {}
  <2>1. hits \in SUBSET Nat
    BY LenProperties
  <2>2. least \in hits
    BY <1>2, <2>1, LeastElement
  <2>3. least \in 1..Len(list)
    BY <2>2, LenProperties
  <2>4. UnlinkInTail(list, r) = DropAt(list, least)
    BY <1>2 DEF UnlinkInTail
  <2>5. QED
    BY <2>3, <2>4, DropAtProperties, SublistDropAt
<1>3. QED
  BY <1>1, <1>2

LEMMA UnlinkSublist ==
    ASSUME NEW list \in Seq(Entry), NEW r
    PROVE  Unlink(list, r) \in Seq(Entry) /\ Sublist(list, Unlink(list, r))
<1> DEFINE rest == UnlinkInTail(list, r)
<1>1. rest \in Seq(Entry) /\ Sublist(list, rest)
  BY UnlinkInTailSublist
<1>2. CASE list # <<>> /\ Matches(list[1], r)
  <2>1. rest # <<>>
    <3> DEFINE hits == {i \in 2..Len(list) : Matches(list[i], r)}
               least == CHOOSE i \in hits : \A j \in hits : i <= j
    <3>1. CASE hits = {}
      BY <3>1, <1>2 DEF UnlinkInTail
    <3>2. CASE hits # {}
      <4>1. hits \in SUBSET Nat
        BY LenProperties
      <4>2. least \in hits
        BY <3>2, <4>1, LeastElement
      <4>3. least \in 2..Len(list) /\ Len(list) \in Nat /\ least \in 1..Len(list)
        BY <4>2, LenProperties
      <4>4. rest = DropAt(list, least)
        BY <3>2 DEF UnlinkInTail
      <4>5. Len(rest) >= 1
        BY <4>3, <4>4, DropAtProperties
      <4>6. QED
        BY <4>5, <1>1, EmptySeq
    <3>3. QED
      BY <3>1, <3>2
  <2>2. Tail(rest) \in Seq(Entry) /\ Sublist(rest, Tail(rest))
    BY <1>1, <2>1, SublistTail
  <2>3. Unlink(list, r) = Tail(rest)
    BY <1>2 DEF Unlink
  <2>4. QED
    BY <1>1, <2>2, <2>3, SublistTrans
<1>3. CASE ~ (list # <<>> /\ Matches(list[1], r))
  BY <1>1, <1>3 DEF Unlink
<1>4. QED
  BY <1>2, <1>3

-----------------------------------------------------------------------------
(* The datagram queues keep their type in every step of anybody. *)
LEMMA AnswerTypeOK ==
    ASSUME ChannelsTypeOK, inbox # <<>>, NEW r \in Request,
           NEW ans \in Seq(Reply), Answer(r, ans)
    PROVE  ChannelsTypeOK'
<1>1. inbox' \in Seq(Request) /\ Len(inbox') <= MaxInbox
  BY HeadTailProperties, LenProperties, MaxInboxAssumption DEF ChannelsTypeOK, Answer
<1>2. r.from \in Peers
  BY DEF Request
<1>3. outbox[r.from] \o ans \in Seq(Reply)
  BY <1>2, ConcatProperties DEF ChannelsTypeOK
<1>4. outbox' \in [Peers -> Seq(Reply)]
  BY <1>2, <1>3 DEF ChannelsTypeOK, Answer
<1>5. QED
  BY <1>1, <1>4 DEF ChannelsTypeOK

LEMMA SendTypeOK ==
    ASSUME ChannelsTypeOK, NEW r \in Request, Send(r)
    PROVE  inbox' \in Seq(Request) /\ Len(inbox') <= MaxInbox
BY AppendProperties, LenProperties, MaxInboxAssumption DEF ChannelsTypeOK, Send

LEMMA ReceiveTypeOK ==
    ASSUME ChannelsTypeOK, NEW p \in Peers, Receive(p)
    PROVE  outbox' \in [Peers -> Seq(Reply)]
<1>1. Tail(outbox[p]) \in Seq(Reply)
  BY HeadTailProperties DEF ChannelsTypeOK, Receive
<1>2. QED
  BY <1>1 DEF ChannelsTypeOK, Receive

LEMMA LoseTypeOK ==
    ASSUME ChannelsTypeOK, Lose
    PROVE  ChannelsTypeOK'
<1>1. CASE \E i \in 1..Len(inbox) : inbox' = DropAt(inbox, i) /\ UNCHANGED outbox
  <2>1. PICK i \in 1..Len(inbox) : inbox' = DropAt(inbox, i) /\ UNCHANGED outbox
    BY <1>1
  <2>2. inbox' \in Seq(Request) /\ Len(inbox') = Len(inbox) - 1 /\ Len(inbox) \in Nat
    BY <2>1, DropAtProperties, LenProperties DEF ChannelsTypeOK
  <2>3. QED
    BY <2>1, <2>2, MaxInboxAssumption DEF ChannelsTypeOK
<1>2. CASE \E p \in Peers : \E i \in 1..Len(outbox[p]) :
              outbox' = [outbox EXCEPT ![p] = DropAt(@, i)] /\ UNCHANGED inbox
  <2>0. PICK p \in Peers : \E i \in 1..Len(outbox[p]) :
              outbox' = [outbox EXCEPT ![p] = DropAt(@, i)] /\ UNCHANGED inbox
    BY <1>2
  <2>1. PICK i \in 1..Len(outbox[p]) :
              outbox' = [outbox EXCEPT ![p] = DropAt(@, i)] /\ UNCHANGED inbox
    BY <2>0
  <2>2. DropAt(outbox[p], i) \in Seq(Reply)
    BY DropAtProperties DEF ChannelsTypeOK
  <2>3. QED
    BY <2>1, <2>2 DEF ChannelsTypeOK
<1>3. QED
  BY <1>1, <1>2 DEF Lose

LEMMA ClientTurnTypeOK ==
    ASSUME ChannelsTypeOK, NEW p \in Peers, ClientTurn(p)
    PROVE  ChannelsTypeOK'
<1>1. CASE \E r \in Request : r.from = p /\ Send(r) /\ UNCHANGED outbox
  BY <1>1, SendTypeOK DEF ChannelsTypeOK
<1>2. CASE Receive(p) /\ UNCHANGED inbox
  BY <1>2, ReceiveTypeOK DEF ChannelsTypeOK
<1>3. CASE Receive(p) /\ \E r \in Request : r.from = p /\ Send(r)
  BY <1>3, SendTypeOK, ReceiveTypeOK DEF ChannelsTypeOK
<1>4. QED
  BY <1>1, <1>2, <1>3 DEF ClientTurn
-----------------------------------------------------------------------------
(* Every answer the server writes is a PDU of the protocol. *)
LEMMA EchoType ==
    ASSUME NEW r \in Request, NEW t \in {"A", "E", "S", "O"}
    PROVE  Echo(t, r) \in Reply
BY DEF Echo, Request, Reply, AnyName

LEMMA EntryOfType ==
    ASSUME NEW r \in Request, r.type \in {"R", "S"}
    PROVE  EntryOf(r) \in Entry
BY DEF EntryOf, Request, Entry

LEMMA ListingType ==
    ASSUME NEW list \in Seq(Entry), NEW r \in Request
    PROVE  Listing(list, r) \in Seq(Reply)
<1>1. Len(list) \in Nat /\ \A i \in 1..Len(list) : list[i] \in Entry
  BY LenProperties, ElementOfSeq
<1>2. ASSUME NEW e \in Entry, NEW t \in {"A", "O"}
      PROVE  [Line(e) EXCEPT !.type = t] \in Reply /\ Line(e) \in Reply
  BY DEF Line, Entry, Reply, AnyName
<1>3. [i \in 1..Len(list) |-> Line(list[i])] \in Seq(Reply)
  <2>1. [i \in 1..Len(list) |-> Line(list[i])] \in [1..Len(list) -> Reply]
    BY <1>1, <1>2
  <2>2. QED
    BY <1>1, <2>1
<1>4. Closing(list, r) \in Reply
  <2>1. CASE list = <<>>
    BY <2>1, EchoType DEF Closing
  <2>2. CASE list # <<>>
    <3>1. Len(list) \in 1..Len(list)
      BY <2>2, <1>1, EmptySeq
    <3>2. QED
      BY <2>2, <3>1, <1>1, <1>2 DEF Closing
  <2>3. QED
    BY <2>1, <2>2
<1>5. QED
  BY <1>3, <1>4, AppendProperties DEF Listing
-----------------------------------------------------------------------------
(* Type correctness, one step per branch of the server's loop. *)
LEMMA RegisterTypeOK ==
    ASSUME TypeOK, inbox # <<>>, NEW r \in Request, Register(r)
    PROVE  TypeOK'
<1>1. CASE index' = Append(index, EntryOf(r)) /\ Answer(r, <<Echo("A", r)>>)
  <2>1. EntryOf(r) \in Entry /\ <<Echo("A", r)>> \in Seq(Reply)
    BY EntryOfType, EchoType DEF Register
  <2>2. QED
    BY <1>1, <2>1, AppendProperties, AnswerTypeOK DEF TypeOK
<1>2. CASE \E i \in 1..Len(index) :
             /\ Answer(r, <<Refusal(IF index[i].addr = r.from THEN Duplicate ELSE Taken, r)>>)
             /\ UNCHANGED index
  <2>1. PICK i \in 1..Len(index) :
             /\ Answer(r, <<Refusal(IF index[i].addr = r.from THEN Duplicate ELSE Taken, r)>>)
             /\ UNCHANGED index
    BY <1>2
  <2> DEFINE n == IF index[i].addr = r.from THEN Duplicate ELSE Taken
  <2>2. n \in AnyName
    BY DEF AnyName
  <2>3. Refusal(n, r) \in Reply
    BY <2>2, EchoType DEF Refusal, Reply
  <2>4. <<Refusal(n, r)>> \in Seq(Reply)
    BY <2>3
  <2>5. QED
    BY <2>1, <2>4, AnswerTypeOK DEF TypeOK
<1>3. QED
  BY <1>1, <1>2 DEF Register

LEMMA SearchTypeOK ==
    ASSUME TypeOK, inbox # <<>>, NEW r \in Request, Search(r)
    PROVE  TypeOK'
<1>1. CASE \E i \in 1..Len(index) :
              Answer(r, <<[Echo("S", r) EXCEPT !.addr = index[i].addr]>>)
  <2>1. PICK i \in 1..Len(index) :
              Answer(r, <<[Echo("S", r) EXCEPT !.addr = index[i].addr]>>)
    BY <1>1
  <2>2. index[i].addr \in Peers
    <3>1. index[i] \in Entry
      BY ElementOfSeq DEF TypeOK
    <3>2. QED
      BY <3>1 DEF Entry
  <2>3. [Echo("S", r) EXCEPT !.addr = index[i].addr] \in Reply
    BY <2>2, EchoType DEF Reply
  <2>4. <<[Echo("S", r) EXCEPT !.addr = index[i].addr]>> \in Seq(Reply)
    BY <2>3
  <2>5. QED
    BY <2>1, <2>4, AnswerTypeOK DEF TypeOK, Search
<1>2. CASE Answer(r, <<Echo("E", r)>>)
  <2>1. <<Echo("E", r)>> \in Seq(Reply)
    BY EchoType
  <2>2. QED
    BY <1>2, <2>1, AnswerTypeOK DEF TypeOK, Search
<1>3. QED
  BY <1>1, <1>2 DEF Search

LEMMA DeregisterTypeOK ==
    ASSUME TypeOK, inbox # <<>>, NEW r \in Request, Deregister(r)
    PROVE  TypeOK'
<1>1. index' \in Seq(Entry)
  BY UnlinkSublist DEF Deregister, TypeOK
<1>2. <<Echo(IF Hit(index, r) THEN "A" ELSE "E", r)>> \in Seq(Reply)
  BY EchoType
<1>3. QED
  BY <1>1, <1>2, AnswerTypeOK DEF TypeOK, Deregister

LEMMA ServeTypeOK ==
    ASSUME TypeOK, Serve
    PROVE  TypeOK'
<1>0. Head(inbox) \in Request /\ inbox # <<>>
  BY HeadTailProperties DEF TypeOK, ChannelsTypeOK, Serve
<1>1. PICK r \in Request :
          Register(r) \/ Search(r) \/ Deregister(r) \/ List(r) \/ Ignore(r)
  BY <1>0 DEF Serve
<1>2. CASE Register(r)
  BY <1>0, <1>2, RegisterTypeOK
<1>3. CASE Search(r)
  BY <1>0, <1>3, SearchTypeOK
<1>4. CASE Deregister(r)
  BY <1>0, <1>4, DeregisterTypeOK
<1>5. CASE List(r)
  BY <1>0, <1>5, ListingType, AnswerTypeOK DEF TypeOK, List
<1>6. CASE Ignore(r)
  <2>1. <<>> \in Seq(Reply)
    OBVIOUS
  <2>2. QED
    BY <1>0, <1>6, <2>1, AnswerTypeOK DEF TypeOK, Ignore
<1>7. QED
  BY <1>1, <1>2, <1>3, <1>4, <1>5, <1>6

LEMMA NextTypeOK == TypeOK /\ [Next]_vars => TypeOK'
<1> SUFFICES ASSUME TypeOK, [Next]_vars PROVE TypeOK'
  OBVIOUS
<1>1. CASE Serve
  BY <1>1, ServeTypeOK
<1>2. CASE Environment
  BY <1>2, LoseTypeOK, ClientTurnTypeOK DEF Environment, TypeOK
<1>3. CASE UNCHANGED vars
  BY <1>3 DEF vars, TypeOK, ChannelsTypeOK
<1>4. QED
  BY <1>1, <1>2, <1>3 DEF Next

(* The list, the requests and the answers keep their types for any number  *)
(* of peers, names and contents: no branch of the loop builds a malformed  *)
(* node or answer.                                                         *)
THEOREM TypeCorrect == Spec => []TypeOK
<1>1. Init => TypeOK
  BY MaxInboxAssumption DEF Init, ChannelsInit, TypeOK, ChannelsTypeOK
<1>2. QED
  BY <1>1, NextTypeOK, PTL DEF Spec
-----------------------------------------------------------------------------
(* What relates any two nodes of a list also relates those of a sublist.   *)
LEMMA SublistUnique ==
    ASSUME NEW s \in Seq(Entry), NEW t \in Seq(Entry), Sublist(s, t),
           \A i, j \in 1..Len(s) :
               s[i].peer = s[j].peer /\ s[i].content = s[j].content => i = j
    PROVE  \A i, j \in 1..Len(t) :
               t[i].peer = t[j].peer /\ t[i].content = t[j].content => i = j
<1>1. PICK g : Keeps(s, t, g)
  BY DEF Sublist
<1>2. TAKE i, j \in 1..Len(t)
<1>3. HAVE t[i].peer = t[j].peer /\ t[i].content = t[j].content
<1>4. g[i] \in 1..Len(s) /\ g[j] \in 1..Len(s) /\ t[i] = s[g[i]] /\ t[j] = s[g[j]]
  BY <1>1, <1>2 DEF Keeps
<1>5. g[i] = g[j]
  BY <1>3, <1>4
<1>6. ~ (g[i] < g[j]) /\ ~ (g[j] < g[i])
  BY <1>4, <1>5, LenProperties
<1>7. i \in Nat /\ j \in Nat /\ ~ (i < j) /\ ~ (j < i)
  BY <1>1, <1>2, <1>6, LenProperties DEF Keeps
<1>8. QED
  BY <1>7

LEMMA SublistOneAddress ==
    ASSUME NEW s \in Seq(Entry), NEW t \in Seq(Entry), Sublist(s, t),
           \A i, j \in 1..Len(s) : s[i].peer = s[j].peer => s[i].addr = s[j].addr
    PROVE  \A i, j \in 1..Len(t) : t[i].peer = t[j].peer => t[i].addr = t[j].addr
<1>1. PICK g : Keeps(s, t, g)
  BY DEF Sublist
<1>2. TAKE i, j \in 1..Len(t)
<1>3. g[i] \in 1..Len(s) /\ g[j] \in 1..Len(s) /\ t[i] = s[g[i]] /\ t[j] = s[g[j]]
  BY <1>1, <1>2 DEF Keeps
<1>4. QED
  BY <1>3

(* One step of the server, from a list with both properties.  A node is    *)
(* appended only if the scan stops nowhere: then no node has its name at   *)
(* another address, and none has its name and its content.                 *)
LEMMA RegisterUnique ==
    ASSUME TypeOK, UniqueEntries, OneAddressPerName,
           NEW r \in Request, Register(r)
    PROVE  (UniqueEntries /\ OneAddressPerName)'
<1>1. CASE UNCHANGED index
  BY <1>1 DEF UniqueEntries, OneAddressPerName
<1>2. CASE /\ \A i \in 1..Len(index) : ~ Stops(index[i], r)
           /\ index' = Append(index, EntryOf(r))
  <2> DEFINE n == Len(index)
  <2>1. /\ EntryOf(r) \in Entry /\ n \in Nat /\ Len(index') = n + 1
        /\ index'[n + 1] = EntryOf(r)
        /\ \A i \in 1..n : index'[i] = index[i]
    BY <1>2, EntryOfType, AppendProperties, LenProperties DEF TypeOK, Register
  <2>2. \A i \in 1..n : index[i].peer = r.peer =>
                           index[i].addr = r.from /\ index[i].content # r.content
    BY <1>2 DEF Stops
  <2>3. EntryOf(r).peer = r.peer /\ EntryOf(r).content = r.content
        /\ EntryOf(r).addr = r.from
    BY DEF EntryOf
  <2> HIDE DEF n
  <2>4. \A i \in 1..(n + 1) : i \in 1..n \/ i = n + 1
    BY <2>1
  <2>5. UniqueEntries'
    BY <2>1, <2>2, <2>3, <2>4 DEF UniqueEntries, n
  <2>6. OneAddressPerName'
    BY <2>1, <2>2, <2>3, <2>4 DEF OneAddressPerName, n
  <2>7. QED
    BY <2>5, <2>6
<1>3. QED
  BY <1>1, <1>2 DEF Register

IInv == TypeOK /\ UniqueEntries /\ OneAddressPerName

LEMMA NextIInv == IInv /\ [Next]_vars => IInv'
<1> SUFFICES ASSUME IInv, [Next]_vars PROVE IInv'
  OBVIOUS
<1>1. TypeOK'
  BY NextTypeOK DEF IInv
<1>2. CASE UNCHANGED index
  BY <1>1, <1>2 DEF IInv, UniqueEntries, OneAddressPerName
<1>3. CASE Serve
  <2>0. Head(inbox) \in Request
    BY <1>3, HeadTailProperties DEF IInv, TypeOK, ChannelsTypeOK, Serve
  <2>1. PICK r \in Request :
            Register(r) \/ Search(r) \/ Deregister(r) \/ List(r) \/ Ignore(r)
    BY <1>3, <2>0 DEF Serve
  <2>2. CASE Register(r)
    BY <1>1, <2>1, <2>2, RegisterUnique DEF IInv
  <2>3. CASE Deregister(r)
    <3>1. index \in Seq(Entry) /\ index' \in Seq(Entry) /\ Sublist(index, index')
      BY <2>3, UnlinkSublist DEF Deregister, IInv, TypeOK
    <3>2. UniqueEntries'
      BY <3>1, SublistUnique DEF IInv, UniqueEntries
    <3>3. OneAddressPerName'
      BY <3>1, SublistOneAddress DEF IInv, OneAddressPerName
    <3>4. QED
      BY <1>1, <3>2, <3>3 DEF IInv
  <2>4. CASE Search(r) \/ List(r) \/ Ignore(r)
    BY <1>2, <2>4 DEF Search, List, Ignore
  <2>5. QED
    BY <2>1, <2>2, <2>3, <2>4
<1>4. QED
  BY <1>2, <1>3 DEF Next, Environment, vars

LEMMA Invariance == Spec => []IInv
<1>1. Init => IInv
  <2>1. Init => TypeOK
    BY MaxInboxAssumption DEF Init, ChannelsInit, TypeOK, ChannelsTypeOK
  <2>2. QED
    BY <2>1 DEF IInv, Init, UniqueEntries, OneAddressPerName
<1>2. QED
  BY <1>1, NextIInv, PTL DEF Spec

(* A registration is in the list at most once, however requests interleave *)
(* and whatever the network drops: the two unlinkings of 'T' (first match  *)
(* after the head, then the head) remove all there is to remove.           *)
THEOREM NoPairTwice == Spec => []UniqueEntries
<1>1. IInv => UniqueEntries
  BY DEF IInv
<1>2. QED
  BY <1>1, Invariance, PTL

(* A peer name is listed with one address: the checks of 'R' keep every    *)
(* other peer from using it.                                               *)
THEOREM NameBelongsToOne == Spec => []OneAddressPerName
<1>1. IInv => OneAddressPerName
  BY DEF IInv
<1>2. QED
  BY <1>1, Invariance, PTL
-----------------------------------------------------------------------------
(* A removal keeps the order of the nodes it leaves. *)
LEMMA SublistProvider ==
    ASSUME NEW s \in Seq(Entry), NEW t \in Seq(Entry), Sublist(s, t),
           \A i, j \in 1..Len(s) :
               s[i].peer = s[j].peer /\ s[i].content = s[j].content => i = j,
           NEW i \in 1..Len(s), Provider(s, s[i].content, i),
           NEW j \in 1..Len(t), t[j] = s[i]
    PROVE  Provider(t, s[i].content, j)
<1>1. PICK g : Keeps(s, t, g)
  BY DEF Sublist
<1>2. g[j] \in 1..Len(s) /\ s[g[j]] = s[i]
  BY <1>1 DEF Keeps
<1>3. g[j] = i
  BY <1>2
<1>4. ASSUME NEW k \in 1..(j - 1)
      PROVE  t[k].content # s[i].content
  <2>1. k \in 1..Len(t) /\ k < j
    BY LenProperties
  <2>2. g[k] \in 1..Len(s) /\ g[k] < i /\ t[k] = s[g[k]]
    BY <1>1, <1>3, <2>1 DEF Keeps
  <2>3. g[k] \in 1..(i - 1)
    BY <2>2, LenProperties
  <2>4. QED
    BY <2>2, <2>3 DEF Provider
<1>5. QED
  BY <1>4 DEF Provider

Stable == \A i \in 1..Len(index) :
            Provider(index, index[i].content, i)
            /\ (\E j \in 1..Len(index') : index'[j] = index[i])
            => \E j \in 1..Len(index') :
                  index'[j] = index[i] /\ Provider(index', index[i].content, j)

LEMMA NextStable == IInv /\ [Next]_vars => Stable
<1> SUFFICES ASSUME IInv, [Next]_vars PROVE Stable
  OBVIOUS
<1>1. CASE UNCHANGED index
  BY <1>1 DEF Stable
<1>2. CASE Serve
  <2>0. Head(inbox) \in Request
    BY <1>2, HeadTailProperties DEF IInv, TypeOK, ChannelsTypeOK, Serve
  <2>1. PICK r \in Request :
            Register(r) \/ Search(r) \/ Deregister(r) \/ List(r) \/ Ignore(r)
    BY <1>2, <2>0 DEF Serve
  <2>2. CASE r.type = "R" /\ index' = Append(index, EntryOf(r))
    <3>1. /\ Len(index) \in Nat /\ Len(index') = Len(index) + 1
          /\ \A i \in 1..Len(index) : index'[i] = index[i]
      BY <2>1, <2>2, EntryOfType, AppendProperties, LenProperties DEF IInv, TypeOK
    <3>2. ASSUME NEW i \in 1..Len(index), Provider(index, index[i].content, i)
          PROVE  i \in 1..Len(index') /\ Provider(index', index[i].content, i)
      BY <3>1, <3>2 DEF Provider
    <3>3. QED
      BY <3>1, <3>2 DEF Stable
  <2>3. CASE Deregister(r)
    <3>1. index \in Seq(Entry) /\ index' \in Seq(Entry) /\ Sublist(index, index')
      BY <2>3, UnlinkSublist DEF Deregister, IInv, TypeOK
    <3>2. QED
      BY <3>1, SublistProvider DEF Stable, IInv, UniqueEntries
  <2>4. CASE UNCHANGED index
    BY <1>1, <2>4
  <2>5. QED
    BY <2>1, <2>2, <2>3, <2>4 DEF Register, Search, List, Ignore
<1>3. QED
  BY <1>1, <1>2 DEF Next, Environment, vars

(* Who answers the searches for a content stays the same while it is       *)
(* listed: nodes are appended at the tail and removals keep the order.     *)
THEOREM ProviderIsStable == Spec => StableProvider
<1>1. IInv /\ [Next]_vars => [Stable]_vars
  BY NextStable
<1>2. Spec => [][Stable]_vars
  BY <1>1, Invariance, PTL DEF Spec
<1>3. QED
  BY <1>2 DEF StableProvider, Stable
-----------------------------------------------------------------------------
(* The set of nodes of a list: the refinement mapping to IndexDirectory. *)
Nodes(list) == {list[i] : i \in 1..Len(list)}

LEMMA NodesAppend ==
    ASSUME NEW s \in Seq(Entry), NEW e \in Entry
    PROVE  Nodes(Append(s, e)) = Nodes(s) \cup {e}
<1> DEFINE t == Append(s, e)
           n == Len(s)
<1>1. /\ n \in Nat /\ Len(t) = n + 1 /\ t[n + 1] = e
      /\ \A i \in 1..n : t[i] = s[i]
  BY AppendProperties, LenProperties
<1> HIDE DEF t
<1>2. ASSUME NEW i \in 1..(n + 1) PROVE i \in 1..n \/ i = n + 1
  BY <1>1
<1>3. n + 1 \in 1..(n + 1) /\ \A i \in 1..n : i \in 1..(n + 1)
  BY <1>1
<1> HIDE DEF n
<1>4. {t[i] : i \in 1..(n + 1)} = {s[i] : i \in 1..n} \cup {e}
  BY <1>1, <1>2, <1>3
<1>5. QED
  BY <1>1, <1>4 DEF Nodes, n, t

Without(list, r) == {e \in Nodes(list) : ~ Matches(e, r)}

LEMMA NodesDropAt ==
    ASSUME NEW s \in Seq(Entry), NEW i \in 1..Len(s)
    PROVE  Nodes(DropAt(s, i)) = {s[j] : j \in 1..Len(s) \ {i}}
<1> DEFINE t == DropAt(s, i)
<1>1. /\ Len(s) \in Nat /\ Len(t) = Len(s) - 1
      /\ \A j \in 1..(Len(s) - 1) : t[j] = s[IF j < i THEN j ELSE j + 1]
  BY DropAtProperties, LenProperties
<1> HIDE DEF t
<1>2. ASSUME NEW j \in 1..Len(t)
      PROVE  \E k \in 1..Len(s) \ {i} : t[j] = s[k]
  <2>1. (IF j < i THEN j ELSE j + 1) \in 1..Len(s) \ {i}
    BY <1>1
  <2>2. QED
    BY <1>1, <2>1
<1>3. ASSUME NEW k \in 1..Len(s) \ {i}
      PROVE  \E j \in 1..Len(t) : t[j] = s[k]
  <2> DEFINE j == IF k < i THEN k ELSE k - 1
  <2>1. j \in 1..Len(t) /\ j \in 1..(Len(s) - 1) /\ (IF j < i THEN j ELSE j + 1) = k
    BY <1>1
  <2>2. t[j] = s[k]
    BY <1>1, <2>1
  <2>3. QED
    BY <2>1, <2>2
<1>4. Nodes(t) \subseteq {s[j] : j \in 1..Len(s) \ {i}}
  BY <1>2 DEF Nodes
<1>5. {s[j] : j \in 1..Len(s) \ {i}} \subseteq Nodes(t)
  BY <1>3 DEF Nodes
<1>6. QED
  BY <1>4, <1>5 DEF t

(* With no pair listed twice, the two unlinkings leave no match. *)
LEMMA NodesUnlink ==
    ASSUME NEW s \in Seq(Entry), NEW r,
           \A i, j \in 1..Len(s) :
               s[i].peer = s[j].peer /\ s[i].content = s[j].content => i = j
    PROVE  Nodes(Unlink(s, r)) = Without(s, r)
<1> DEFINE hits == {i \in 2..Len(s) : Matches(s[i], r)}
           least == CHOOSE i \in hits : \A j \in hits : i <= j
<1>1. Len(s) \in Nat
  BY LenProperties
<1>2. ASSUME NEW i \in 1..Len(s), Matches(s[i], r)
      PROVE  \A j \in 1..Len(s) : j # i => ~ Matches(s[j], r)
  BY <1>2 DEF Matches
<1>3. CASE \A i \in 1..Len(s) : ~ Matches(s[i], r)
  <2>1. hits = {}
    BY <1>1, <1>3
  <2>2. Unlink(s, r) = s
    <3>1. UnlinkInTail(s, r) = s
      BY <2>1 DEF UnlinkInTail
    <3>2. s # <<>> => 1 \in 1..Len(s)
      BY <1>1, EmptySeq
    <3>3. QED
      BY <3>1, <3>2, <1>3 DEF Unlink
  <2>3. QED
    BY <1>3, <2>2 DEF Without, Nodes
<1>4. CASE 1 \in 1..Len(s) /\ Matches(s[1], r)
  <2>1. \A j \in 1..Len(s) : j # 1 => ~ Matches(s[j], r)
    BY <1>2, <1>4
  <2>2. hits = {} /\ s # <<>>
    BY <1>1, <1>4, <2>1, EmptySeq
  <2>3. UnlinkInTail(s, r) = s
    BY <2>2 DEF UnlinkInTail
  <2>4. Unlink(s, r) = Tail(s)
    BY <1>4, <2>2, <2>3 DEF Unlink
  <2>5. Len(Tail(s)) = Len(s) - 1 /\ \A j \in 1..(Len(s) - 1) : Tail(s)[j] = s[j + 1]
    BY <1>1, <2>2, HeadTailProperties
  <2>6. ASSUME NEW k \in 1..Len(s), ~ Matches(s[k], r)
        PROVE  \E j \in 1..Len(Tail(s)) : Tail(s)[j] = s[k]
    <3>1. k - 1 \in 1..Len(Tail(s)) /\ (k - 1) + 1 = k
      BY <1>1, <1>4, <2>5, <2>6
    <3>2. Tail(s)[k - 1] = s[k]
      BY <2>5, <3>1
    <3>3. QED
      BY <3>1, <3>2
  <2>7. ASSUME NEW j \in 1..Len(Tail(s))
        PROVE  \E k \in 1..Len(s) : Tail(s)[j] = s[k] /\ ~ Matches(s[k], r)
    <3>1. j + 1 \in 1..Len(s) /\ j + 1 # 1
      BY <1>1, <2>5
    <3>2. QED
      BY <2>1, <2>5, <3>1
  <2>8. Nodes(Tail(s)) \subseteq Without(s, r)
    BY <2>7 DEF Without, Nodes
  <2>9. Without(s, r) \subseteq Nodes(Tail(s))
    BY <2>6 DEF Without, Nodes
  <2>10. QED
    BY <2>4, <2>8, <2>9
<1>5. CASE \E i \in 2..Len(s) : Matches(s[i], r)
  <2>1. PICK i \in 2..Len(s) : Matches(s[i], r)
    BY <1>5
  <2>2. i \in 1..Len(s) /\ 1 \in 1..Len(s) /\ i # 1
    BY <1>1, <2>1
  <2>3. \A j \in 1..Len(s) : j # i => ~ Matches(s[j], r)
    BY <1>2, <2>1, <2>2
  <2>4. hits = {i}
    BY <1>1, <2>1, <2>3
  <2>5. least = i
    BY <1>1, <2>4
  <2>6. UnlinkInTail(s, r) = DropAt(s, i)
    BY <2>4, <2>5 DEF UnlinkInTail
  <2>7. Unlink(s, r) = DropAt(s, i)
    BY <2>2, <2>3, <2>6 DEF Unlink
  <2>8. Nodes(DropAt(s, i)) = {s[j] : j \in 1..Len(s) \ {i}}
    BY <2>2, NodesDropAt
  <2>9. {s[j] : j \in 1..Len(s) \ {i}} = Without(s, r)
    BY <2>1, <2>2, <2>3 DEF Without, Nodes
  <2>10. QED
    BY <2>7, <2>8, <2>9
<1>6. QED
  BY <1>1, <1>3, <1>4, <1>5

(* The directory has as many registrations as the list has nodes. *)
LEMMA NodesCardinality ==
    ASSUME NEW s \in Seq(Entry),
           \A i, j \in 1..Len(s) :
               s[i].peer = s[j].peer /\ s[i].content = s[j].content => i = j
    PROVE  Cardinality(Nodes(s)) = Len(s)
<1>1. Len(s) \in Nat
  BY LenProperties
<1> DEFINE g == [i \in 1..Len(s) |-> s[i]]
<1>2. g \in [1..Len(s) -> Nodes(s)]
  BY DEF Nodes
<1>3. \A i, j \in 1..Len(s) : g[i] = g[j] => i = j
  OBVIOUS
<1>4. \A e \in Nodes(s) : \E i \in 1..Len(s) : g[i] = e
  BY DEF Nodes
<1> HIDE DEF g
<1>5. g \in Bijection(1..Len(s), Nodes(s))
  BY <1>2, <1>3, <1>4 DEF Bijection, Injection, Surjection, IsInjective
<1>6. ExistsBijection(1..Len(s), Nodes(s))
  BY <1>5 DEF ExistsBijection
<1>7. QED
  BY <1>1, <1>6, FS_CountingElements
-----------------------------------------------------------------------------
(* The protocol is the same on both sides of the mapping. *)
LEMMA SameProtocol ==
    /\ \A t, r : Directory!Echo(t, r) = Echo(t, r)
    /\ \A r, ans : Directory!Answer(r, ans) <=> Answer(r, ans)
    /\ \A list, r : Directory!Listing(list, r) = Listing(list, r)
    /\ \A S : Directory!Cardinality(S) = Cardinality(S)
<1>1. \A t, r : Directory!Echo(t, r) = Echo(t, r)
  BY DEF Echo, Directory!Echo
<1>2. \A r, ans : Directory!Answer(r, ans) <=> Answer(r, ans)
  BY DEF Answer, Directory!Answer
<1>3. \A e : Directory!Line(e) = Line(e)
  BY DEF Line, Directory!Line
<1>4. \A list, r : Directory!Closing(list, r) = Closing(list, r)
  BY <1>1, <1>3, Zenon DEF Closing, Directory!Closing
<1>5. \A list, r : Directory!Listing(list, r) = Listing(list, r)
  BY <1>3, <1>4, Zenon DEF Listing, Directory!Listing
<1>6. \A S : Directory!Cardinality(S) = Cardinality(S)
  BY Zenon DEF Cardinality, Directory!Cardinality
<1>7. QED
  BY <1>1, <1>2, <1>5, <1>6

(* Each branch of the loop is the operation of the directory. *)
LEMMA RegisterPublishes ==
    ASSUME IInv, NEW r \in Request, Register(r)
    PROVE  Directory!Publish(r)
<1>1. index \in Seq(Entry) /\ Nodes(index) = {index[i] : i \in 1..Len(index)}
  BY DEF IInv, TypeOK, Nodes
<1>2. CASE /\ \A i \in 1..Len(index) : ~ Stops(index[i], r)
           /\ index' = Append(index, EntryOf(r))
           /\ Answer(r, <<Echo("A", r)>>)
  <2>1. \A e \in Nodes(index) : e.peer = r.peer => e.addr = r.from /\ e.content # r.content
    BY <1>2 DEF Stops, Nodes
  <2>2. Nodes(index') = Nodes(index) \cup {EntryOf(r)}
    BY <1>1, <1>2, EntryOfType, NodesAppend DEF Register
  <2>3. QED
    BY <1>1, <1>2, <2>1, <2>2
    DEF Directory!Publish, Directory!EntryOf, EntryOf, Directory!Answer, Answer,
        Directory!Echo, Echo, Register, Nodes
<1>3. CASE \E i \in 1..Len(index) :
             /\ FirstStop(index, r, i)
             /\ Answer(r, <<Refusal(IF index[i].addr = r.from THEN Duplicate ELSE Taken, r)>>)
             /\ UNCHANGED index
  <2>1. PICK i \in 1..Len(index) :
             /\ FirstStop(index, r, i)
             /\ Answer(r, <<Refusal(IF index[i].addr = r.from THEN Duplicate ELSE Taken, r)>>)
             /\ UNCHANGED index
    BY <1>3
  <2>2. Stops(index[i], r) /\ index[i] \in Entry /\ index[i] \in Nodes(index)
    BY <1>1, <2>1, ElementOfSeq DEF FirstStop, Nodes
  <2>3. Nodes(index') = Nodes(index)
    BY <2>1
  <2>4. CASE index[i].addr = r.from
    <3>1. index[i] = EntryOf(r)
      BY <2>2, <2>4 DEF Stops, Entry, EntryOf
    <3>2. EntryOf(r) \in Nodes(index)
      BY <2>2, <3>1
    <3>3. Answer(r, <<Refusal(Duplicate, r)>>)
      BY <2>1, <2>4
    <3>4. QED
      BY <2>3, <3>2, <3>3
      DEF Directory!Publish, Directory!EntryOf, EntryOf, Directory!Answer, Answer,
          Directory!Echo, Echo, Directory!Refusal, Refusal, Directory!Spill, Spill,
          Directory!Duplicate, Duplicate, Register, Nodes
  <2>5. CASE index[i].addr # r.from
    <3>1. \E e \in Nodes(index) : e.peer = r.peer /\ e.addr # r.from
      BY <2>2, <2>5 DEF Stops
    <3>2. Answer(r, <<Refusal(Taken, r)>>)
      BY <2>1, <2>5
    <3>3. QED
      BY <2>3, <3>1, <3>2
      DEF Directory!Publish, Directory!Answer, Answer, Directory!Echo, Echo,
          Directory!Refusal, Refusal, Directory!Spill, Spill, Directory!Taken, Taken,
          Register, Nodes
  <2>6. QED
    BY <2>4, <2>5
<1>4. QED
  BY <1>2, <1>3 DEF Register

LEMMA SearchFinds ==
    ASSUME IInv, NEW r \in Request, Search(r)
    PROVE  Directory!Find(r)
<1>1. CASE \E i \in 1..Len(index) :
             /\ Provider(index, r.content, i)
             /\ Answer(r, <<[Echo("S", r) EXCEPT !.addr = index[i].addr]>>)
  <2>1. PICK i \in 1..Len(index) :
             /\ Provider(index, r.content, i)
             /\ Answer(r, <<[Echo("S", r) EXCEPT !.addr = index[i].addr]>>)
    BY <1>1
  <2>2. index[i] \in Nodes(index) /\ index[i].content = r.content
    BY <2>1 DEF Nodes, Provider
  <2>3. \E e \in Nodes(index) :
             /\ e.content = r.content
             /\ Answer(r, <<[Echo("S", r) EXCEPT !.addr = e.addr]>>)
    BY <2>1, <2>2
  <2>4. QED
    BY <2>3, SameProtocol, Zenon DEF Directory!Find, Search, Nodes
<1>2. CASE /\ \A i \in 1..Len(index) : index[i].content # r.content
           /\ Answer(r, <<Echo("E", r)>>)
  BY <1>2, SameProtocol DEF Directory!Find, Search
<1>3. QED
  BY <1>1, <1>2 DEF Search

LEMMA DeregisterWithdraws ==
    ASSUME IInv, NEW r \in Request, Deregister(r)
    PROVE  Directory!Withdraw(r)
<1> DEFINE gone == {e \in Nodes(index) : e.peer = r.peer /\ e.content = r.content}
<1>1. Nodes(index') = Without(index, r)
  BY NodesUnlink DEF IInv, TypeOK, UniqueEntries, Deregister
<1>2. Nodes(index') = Nodes(index) \ gone
  BY <1>1 DEF Without, Matches
<1>3. Hit(index, r) <=> gone # {}
  BY DEF Hit, Nodes, Matches
<1>4. Answer(r, <<Echo(IF gone = {} THEN "E" ELSE "A", r)>>)
  BY <1>3 DEF Deregister
<1>5. QED
  BY <1>2, <1>4
  DEF Directory!Withdraw, Directory!Answer, Answer, Directory!Echo, Echo,
      Deregister, Nodes

LEMMA ListShows ==
    ASSUME IInv, NEW r \in Request, List(r)
    PROVE  Directory!Show(r)
<1>1. index \in Seq(Entry) /\ Len(index) = Cardinality(Nodes(index))
  BY NodesCardinality DEF IInv, TypeOK, UniqueEntries
<1>2. index \in [1..Cardinality(Nodes(index)) -> Nodes(index)]
  <2>1. \A i \in 1..Len(index) : index[i] \in Nodes(index)
    BY DEF Nodes
  <2>2. index \in [1..Len(index) -> Nodes(index)]
    BY <1>1, <2>1, LenProperties
  <2>3. QED
    BY <1>1, <2>2
<1>3. {index[i] : i \in 1..Cardinality(Nodes(index))} = Nodes(index)
  BY <1>1 DEF Nodes
<1>4. \E list \in [1..Cardinality(Nodes(index)) -> Nodes(index)] :
          /\ {list[i] : i \in 1..Cardinality(Nodes(index))} = Nodes(index)
          /\ Answer(r, Listing(list, r))
  BY <1>2, <1>3 DEF List
<1>5. QED
  BY <1>4, SameProtocol, Zenon DEF Directory!Show, List, Nodes

LEMMA ServeImplements ==
    ASSUME IInv, Serve
    PROVE  Directory!Serve
<1>1. Head(inbox) \in Request /\ inbox # <<>>
  BY HeadTailProperties DEF IInv, TypeOK, ChannelsTypeOK, Serve
<1>2. PICK r \in {Head(inbox)} :
          Register(r) \/ Search(r) \/ Deregister(r) \/ List(r) \/ Ignore(r)
  BY DEF Serve
<1>3. r \in Request
  BY <1>1, <1>2
<1>4. Register(r) => Directory!Publish(r)
  BY <1>3, RegisterPublishes
<1>5. Search(r) => Directory!Find(r)
  BY <1>3, SearchFinds
<1>6. Deregister(r) => Directory!Withdraw(r)
  BY <1>3, DeregisterWithdraws
<1>7. List(r) => Directory!Show(r)
  BY <1>3, ListShows
<1>8. Ignore(r) => Directory!Ignore(r)
  BY SameProtocol, Zenon DEF Ignore, Directory!Ignore
<1>9. QED
  BY <1>1, <1>2, <1>4, <1>5, <1>6, <1>7, <1>8 DEF Directory!Serve

LEMMA EnvironmentImplements == Environment => Directory!Environment
<1>1. Directory!Request = Request
  BY DEF Request, Directory!Request, AnyName, Directory!AnyName, Taken,
         Directory!Taken, Duplicate, Directory!Duplicate, NoName, Directory!NoName
<1>2. \A r : Send(r) <=> Directory!Send(r)
  BY DEF Send, Directory!Send
<1>3. \A p : Receive(p) <=> Directory!Receive(p)
  BY DEF Receive, Directory!Receive
<1>4. \A p : ClientTurn(p) => Directory!ClientTurn(p)
  BY <1>1, <1>2, <1>3 DEF ClientTurn, Directory!ClientTurn
<1>5. \A s, i : DropAt(s, i) = Directory!DropAt(s, i)
  BY DEF DropAt, Directory!DropAt
<1>6. Lose => Directory!Lose
  BY <1>5 DEF Lose, Directory!Lose
<1>7. QED
  BY <1>4, <1>6 DEF Environment, Directory!Environment

(* The linked list is a directory: whatever a client can observe of the    *)
(* server is allowed by the set of registrations, its refusals and its     *)
(* answers.  That 'T' leaves no match needs NoPairTwice, that 'O' sends    *)
(* each registration once does too.                                        *)
THEOREM ListIsADirectory == Spec => ImplementsDirectory
<1>1. Init => Directory!Init
  BY DEF Init, Directory!Init, ChannelsInit, Directory!ChannelsInit
<1>2. IInv /\ [Next]_vars => [Directory!Next]_(Directory!vars)
  BY ServeImplements, EnvironmentImplements
  DEF Next, Directory!Next, vars, Directory!vars
<1>3. QED
  BY <1>1, <1>2, Invariance, PTL DEF Spec, ImplementsDirectory, Directory!Spec
=============================================================================
