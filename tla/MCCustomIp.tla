----------------------------- MODULE MCCustomIp -----------------------------
(* Three operands: the ones of this iteration, of an earlier one, and the  *)
(* zeros the slaves start with can all be told apart.                      *)
EXTENDS CustomIp
=============================================================================
