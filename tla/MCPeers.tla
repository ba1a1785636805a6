------------------------------ MODULE MCPeers ------------------------------
(* Small systems of two or three peers for TLC: what the users of each of  *)
(* them type, how often, and which files and names they start with.        *)
EXTENDS PeerNetwork, TLC

CONSTANTS p1, p2, p3, n1, n2, n3, c1, c2

(* The peers start under names of their own, or all under one. *)
Apart    == [p \in Peers |-> CASE p = p1 -> n1 [] p = p2 -> n2 [] OTHER -> n3]
OwnNames == {Apart}
AnyNames == {Apart, [p \in Peers |-> n1]}

(* Commands per peer. *)
Once   == [p \in Peers |-> 1]
Twice  == [p \in Peers |-> 2]
Thrice == [p \in Peers |-> 3]

(* Menus. *)
Everything  == [p \in Peers |-> {"R", "O", "S", "T", "D", "Q"}]
NoTransfers == [p \in Peers |-> {"R", "O", "T", "Q"}]
NoLists     == [p \in Peers |-> {"R", "S", "T", "Q"} \cup IF p = p1 THEN {"D"} ELSE {}]
OneServes   == [p \in Peers |-> IF p = p1 THEN {"R", "D"} ELSE {"S"}]

(* Files at the start: all contents, or one of those p1 may register. *)
AllAtP1     == [p \in Peers |-> IF p = p1 THEN Contents ELSE {}]
OneAtP1     == [p \in Peers |-> IF p = p1 THEN {c1} ELSE {}]
=============================================================================
