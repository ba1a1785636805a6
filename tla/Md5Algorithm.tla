----------------------------- MODULE Md5Algorithm -----------------------------
(***************************************************************************)
(* MD5 over one chunk, as the hardware of COE 838/project/md5-rtl computes *)
(* it: N rounds over four words, then the sum with what they started from. *)
(* The operations on words and the tables are parameters.                  *)
(***************************************************************************)
EXTENDS Integers

CONSTANTS Word, Zero,
          Plus(_, _),        (* the adder, modulo 2^32                      *)
          F(_, _, _, _),     (* fcalc, of a round and three words           *)
          Rotate(_, _),      (* leftrotate                                  *)
          N, A,              (* the rounds, 64; the words of a chunk, 16    *)
          K, S,              (* the contents of krom and srom               *)
          G,                 (* gcalc: the word of the chunk a round takes  *)
          IV,                (* INITA to INITD                              *)
          Run(_, _)          (* the words after 0, 1, ..., N rounds         *)

Chain    == [a : Word, b : Word, c : Word, d : Word]
Chunk    == [0..(A - 1) -> Word]
Round    == 0..(N - 1)

ASSUME Md5Assumption ==
    /\ N \in Nat /\ N > 1 /\ A \in Nat /\ A > 0
    /\ Zero \in Word /\ IV \in Chain
    /\ K \in [Round -> Word] /\ S \in [Round -> Nat] /\ G \in [Round -> 0..(A - 1)]
    /\ \A x, y \in Word : Plus(x, y) \in Word
    /\ \A i \in Round : \A x, y, z \in Word : F(i, x, y, z) \in Word
    /\ \A i \in Round : \A x \in Word : Rotate(x, S[i]) \in Word

(* One round on the words w, with the chunk m. *)
RoundOf(i, w, m) ==
    [a |-> w.d,
     b |-> Plus(w.b, Rotate(Plus(Plus(w.a, K[i]), Plus(F(i, w.b, w.c, w.d), m[G[i]])), S[i])),
     c |-> w.b,
     d |-> w.c]

(* Run is the function with this recurrence. *)
ASSUME RunAssumption ==
    \A h \in Chain : \A m \in Chunk :
        /\ Run(h, m) \in [0..N -> Chain]
        /\ Run(h, m)[0] = h
        /\ \A i \in Round : Run(h, m)[i + 1] = RoundOf(i, Run(h, m)[i], m)

Added(h, w) ==
    [a |-> Plus(h.a, w.a), b |-> Plus(h.b, w.b), c |-> Plus(h.c, w.c), d |-> Plus(h.d, w.d)]

(* The digest after one more chunk. *)
Compress(h, m) == Added(h, Run(h, m)[N])
=============================================================================
