--------------------------- MODULE MCIndexServer ---------------------------
(* The index server with two peers, two names and two contents: names can  *)
(* clash, both peers can register a content, and the list grows to four    *)
(* nodes.                                                                  *)
EXTENDS IndexServer, TLC

(* Bound: a datagram is sent only when at most MaxUnread answers wait in   *)
(* all.  The server never reads its own answers, so this cuts no           *)
(* behaviour of the list.                                                  *)
CONSTANT MaxUnread

Quiet == \A p \in Peers : Len(outbox[p]) <= MaxUnread

MCNext == Next /\ (Len(inbox') > Len(inbox) => Quiet)

MCSpec == Init /\ [][MCNext]_vars

Symmetry == Permutations(Peers) \cup Permutations(Names) \cup Permutations(Contents)
=============================================================================
