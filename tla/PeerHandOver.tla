---------------------------- MODULE PeerHandOver ----------------------------
(***************************************************************************)
(* When a file changes hands, its provider's child deregisters it before   *)
(* it closes the connection - if the answer it reads is its own.  Parent   *)
(* and children share the socket, so this depends on what else the peer    *)
(* asks meanwhile.  A history variable on top of PeerNetwork remembers for *)
(* each child whether it asks alone.  No step of a peer depends on it.     *)
(***************************************************************************)
EXTENDS PeerNetwork

VARIABLE sole     (* sole[p][k]: only the 'T' of child k has been asked for *)
                  (* on p's socket, from a quiet moment on                  *)

hvars == <<vars, sole>>

-----------------------------------------------------------------------------
(* A child that has sent its file and waits, and the 'T' it has sent.      *)
Withdraws(p, k) == kid[p][k] # None /\ kid[p][k].content # None

Withdrawal(p, k) == Pdu("T", p, kid[p][k].name, kid[p][k].content)

Requests(p) == {r \in ToSet(inbox) : r.from = p}

(* A socket on which nothing is on its way, in neither direction. *)
Quiet(p) == Requests(p) = {} /\ outbox[p] = <<>>

(* A child asks alone from the moment it asks on a quiet socket, or asks   *)
(* what a sibling that asks alone has asked, until another PDU is sent.    *)
Alone(p, k) ==
    /\ Withdraws(p, k)'
    /\ Requests(p)' \subseteq {Withdrawal(p, k)'}
    /\ IF Withdraws(p, k) THEN sole[p][k]
       ELSE \/ Quiet(p)
            \/ \E j \in Kids : sole[p][j] /\ Withdrawal(p, j) = Withdrawal(p, k)'

History == sole' = [p \in Peers |-> [k \in Kids |-> Alone(p, k)]]

HInit == Init /\ sole = [p \in Peers |-> [k \in Kids |-> FALSE]]

HSpec == HInit /\ [][Next /\ History]_hvars

-----------------------------------------------------------------------------
(* A child that asked alone has been answered when it closes: the node of  *)
(* what it sent has left the list before the client sees the end of the    *)
(* stream - whatever all users do before, elsewhere and afterwards, and    *)
(* whatever the network loses.                                             *)
ClosesWithdrawn ==
    [][\A p \in Peers, k \in Kids :
          sole[p][k] /\ kid'[p][k] = None
          => ~ Listed(kid[p][k].name, kid[p][k].content, p)]_hvars
=============================================================================
