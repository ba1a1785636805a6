------------------------------- MODULE MCUdp -------------------------------
(* An instance of UdpTransfer: two users in one directory; a file of three  *)
(* pieces, the last one short, an empty file and one that is not there.     *)
EXTENDS UdpTransfer, TLC

CONSTANTS alice, bob, report, notes, draft

OneFolder  == [c \in Clients |-> "home"]
ThreeKinds == report :> 5 @@ notes :> None @@ draft :> 0
=============================================================================
