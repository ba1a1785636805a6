------------------------------- MODULE MCTcp -------------------------------
(* An instance of TcpTransfer: two users in one directory, a file of a full *)
(* packet and a short one, whose bytes look like packet types, an empty     *)
(* file and one that is not there.                                          *)
EXTENDS TcpTransfer, TLC

CONSTANTS alice, bob, report, notes, draft

OneFolder  == [c \in Clients |-> "home"]
ThreeKinds == report :> <<"E", "D", "x">> @@ notes :> None @@ draft :> <<>>
=============================================================================
