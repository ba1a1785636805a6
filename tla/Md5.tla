---------------------------------- MODULE Md5 ----------------------------------
(***************************************************************************)
(* What a chunk cruncher of the MD5 hardware promises its host: after a    *)
(* start it is busy, and when it is done the digest covers one chunk more, *)
(* the one in the memory when it was started.                              *)
(***************************************************************************)
EXTENDS Md5Algorithm

VARIABLES chunk,    (* the words the host has written                       *)
          digest,
          phase     (* "done", "busy", or "adding": the new digest is being *)
                    (* written, and done is not up yet                      *)

Init == chunk = [w \in 0..(A - 1) |-> Zero] /\ digest \in Chain /\ phase = "done"

(* The host may write before and together with a start. *)
Load   == phase = "done" /\ chunk' \in Chunk /\ UNCHANGED <<digest, phase>>
Start  == phase = "done" /\ chunk' \in Chunk /\ phase' = "busy" /\ UNCHANGED digest
Finish == /\ phase = "busy" /\ phase' = "adding"
          /\ digest' = Compress(digest, chunk)
          /\ UNCHANGED chunk
Done   == phase = "adding" /\ phase' = "done" /\ UNCHANGED <<chunk, digest>>

(* A reset is possible at any time, and gives up the chunk. *)
Reset  == /\ phase' = "done" /\ digest' = IV
          /\ IF phase = "done" THEN chunk' \in Chunk ELSE UNCHANGED chunk

Next == Load \/ Start \/ Finish \/ Done \/ Reset
Spec == Init /\ [][Next]_<<chunk, digest, phase>>
=============================================================================
