--------------------------- MODULE IndexDirectory --------------------------
(***************************************************************************)
(* What the index server promises, whatever structure it keeps its         *)
(* registrations in: a set of them in which a name belongs to one address, *)
(* and an answer to each request that tells the truth about that set.      *)
(* IndexServer implements this specification with a linked list.           *)
(***************************************************************************)
EXTENDS IndexProtocol, FiniteSets

VARIABLE shared      (* the registrations in force *)

vars == <<shared, inbox, outbox>>

Init == ChannelsInit /\ shared = {}

(* A name is published at one address only, and a content once per name. *)
Publish(r) ==
    /\ r.type = "R"
    /\ \/ /\ \A e \in shared : e.peer = r.peer =>
                                  e.addr = r.from /\ e.content # r.content
          /\ shared' = shared \cup {EntryOf(r)}
          /\ Answer(r, <<Echo("A", r)>>)
       \/ /\ EntryOf(r) \in shared
          /\ Answer(r, <<Refusal(Duplicate, r)>>)
          /\ UNCHANGED shared
       \/ /\ \E e \in shared : e.peer = r.peer /\ e.addr # r.from
          /\ Answer(r, <<Refusal(Taken, r)>>)
          /\ UNCHANGED shared

(* Some peer that offers the content, or the news that none does. *)
Find(r) ==
    /\ r.type = "S"
    /\ \/ \E e \in shared :
             /\ e.content = r.content
             /\ Answer(r, <<[Echo("S", r) EXCEPT !.addr = e.addr]>>)
       \/ /\ \A e \in shared : e.content # r.content
          /\ Answer(r, <<Echo("E", r)>>)
    /\ UNCHANGED shared

(* After 'T' nothing is left of that name and content. *)
Withdraw(r) ==
    LET gone == {e \in shared : e.peer = r.peer /\ e.content = r.content}
    IN  /\ r.type = "T"
        /\ shared' = shared \ gone
        /\ Answer(r, <<Echo(IF gone = {} THEN "E" ELSE "A", r)>>)

(* Every registration once, in any order. *)
Show(r) ==
    /\ r.type = "O"
    /\ \E list \in [1..Cardinality(shared) -> shared] :
          /\ {list[i] : i \in 1..Cardinality(shared)} = shared
          /\ Answer(r, Listing(list, r))
    /\ UNCHANGED shared

Ignore(r) ==
    /\ r.type \notin {"R", "S", "T", "O"}
    /\ Answer(r, <<>>)
    /\ UNCHANGED shared

Serve ==
    /\ inbox # <<>>
    /\ \E r \in {Head(inbox)} :
          Publish(r) \/ Find(r) \/ Withdraw(r) \/ Show(r) \/ Ignore(r)

Environment == (Lose \/ \E p \in Peers : ClientTurn(p)) /\ UNCHANGED shared

Next == Serve \/ Environment

Spec == Init /\ [][Next]_vars
=============================================================================
