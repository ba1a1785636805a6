------------------------------- MODULE Md5Group -------------------------------
(***************************************************************************)
(* The MD5 hardware of COE 838/project/md5-rtl: a group of chunk crunchers *)
(* on one bus, each with a memory for its chunk and with a port of the two *)
(* ROMs.  A step is one rising edge of the clock, for all of them at once. *)
(* A memory shows after an edge the word whose address it saw before it,   *)
(* so a cruncher has to be ahead with its addresses.                       *)
(***************************************************************************)
EXTENDS Md5Algorithm, FiniteSets

CONSTANTS Crunchers,   (* how many; 32 in the code                           *)
          Writes,      (* what the host may write, an address and a word     *)
          Chunks,      (* a bound: how many chunks it hashes between resets  *)
          None

ASSUME GroupAssumption ==
    /\ Crunchers \in Nat \ {0} /\ Chunks \in Nat
    /\ Writes \subseteq [addr : 0..(Crunchers * A - 1), data : Word]
    /\ None \notin Writes

VARIABLES cc,     (* cc[c]: the registers of a cruncher; reg has areg to     *)
                  (* dreg, and hash a0 to d0, which are the digest           *)
          ram,    (* ram[c]: the words of its chunk                          *)
          q,      (* q[c]: what its ROM ports and its memory show: kdata,    *)
                  (* sdata, mdata                                            *)
          hashed  (* hashed[c]: the chunks since its last reset              *)
vars == <<cc, ram, q, hashed>>

Cruncher == 0..(Crunchers - 1)
Stages   == {"CRUNCH", "FINALIZE", "FINISHED"}
Steps    == 0..3

Registers ==
    [stage : Stages, step : Steps, ireg : Round,
     freg : Word, t0 : Word, t1 : Word, reg : Chain, hash : Chain]

TypeOK ==
    /\ cc \in [Cruncher -> Registers]
    /\ ram \in [Cruncher -> Chunk]
    /\ q \in [Cruncher -> [k : Word, s : Nat, m : Word]]
    /\ hashed \in [Cruncher -> 0..Chunks]

Zeros == [a |-> Zero, b |-> Zero, c |-> Zero, d |-> Zero]

(* Power-up: done, with an empty digest. *)
Init ==
    /\ cc = [c \in Cruncher |->
               [stage |-> "FINISHED", step |-> 2, ireg |-> 0, freg |-> Zero,
                t0 |-> Zero, t1 |-> Zero, reg |-> Zeros, hash |-> Zeros]]
    /\ ram = [c \in Cruncher |-> [w \in 0..(A - 1) |-> Zero]]
    /\ q = [c \in Cruncher |-> [k |-> Zero, s |-> 0, m |-> Zero]]
    /\ hashed = [c \in Cruncher |-> 0]
-----------------------------------------------------------------------------
(* A faulty counter with a bit too many. *)
InextUnbounded(r) == r.ireg + 1

(* The next round, in the bits of the counter. *)
Inext(r) == (r.ireg + 1) % N

(* The last edge of a round, and where it leads. *)
Turned(r, o) == [a |-> r.reg.d, b |-> Plus(r.reg.b, Rotate(r.t0, o.s)),
                 c |-> r.reg.b, d |-> r.reg.c]
Onward(r) == IF r.ireg # 0 THEN "CRUNCH" ELSE "FINALIZE"

(* The registers, all of them given. *)
Regs(stage, step, ireg, freg, t0, t1, reg, hash) ==
    [stage |-> stage, step |-> step, ireg |-> ireg, freg |-> freg,
     t0 |-> t0, t1 |-> t1, reg |-> reg, hash |-> hash]

(* A faulty schedule that counts one edge too early. *)
CrunchCountingEarly(r, o) ==
    LET f == F(r.ireg, r.reg.b, r.reg.c, r.reg.d) IN
    IF r.step = 0
    THEN Regs("CRUNCH", 1, r.ireg, f, Plus(r.reg.a, o.k), r.t1, r.reg, r.hash)
    ELSE IF r.step = 1
    THEN Regs("CRUNCH", 2, Inext(r), r.freg, r.t0, Plus(r.freg, o.m), r.reg, r.hash)
    ELSE IF r.step = 2
    THEN Regs("CRUNCH", 3, r.ireg, r.freg, Plus(r.t0, r.t1), r.t1, r.reg, r.hash)
    ELSE Regs(Onward(r), 0, r.ireg, r.freg, r.t0, r.t1, Turned(r, o), r.hash)

(* The four edges of a round share one adder. *)
Crunch(r, o) ==
    LET f == F(r.ireg, r.reg.b, r.reg.c, r.reg.d) IN
    IF r.step = 0
    THEN Regs("CRUNCH", 1, r.ireg, f, Plus(r.reg.a, o.k), r.t1, r.reg, r.hash)
    ELSE IF r.step = 1
    THEN Regs("CRUNCH", 2, r.ireg, r.freg, r.t0, Plus(r.freg, o.m), r.reg, r.hash)
    ELSE IF r.step = 2
    THEN Regs("CRUNCH", 3, Inext(r), r.freg, Plus(r.t0, r.t1), r.t1, r.reg, r.hash)
    ELSE Regs(Onward(r), 0, r.ireg, r.freg, r.t0, r.t1, Turned(r, o), r.hash)

(* So do the four edges at the end, each with one word of the digest. *)
Finalize(r) ==
    LET Sum(stage, step, hash) ==
            Regs(stage, step, r.ireg, r.freg, r.t0, r.t1, r.reg, hash)
    IN  IF r.step = 0
        THEN Sum("FINALIZE", 1, [r.hash EXCEPT !.a = Plus(r.hash.a, r.reg.a)])
        ELSE IF r.step = 1
        THEN Sum("FINALIZE", 2, [r.hash EXCEPT !.b = Plus(r.hash.b, r.reg.b)])
        ELSE IF r.step = 2
        THEN Sum("FINALIZE", 3, [r.hash EXCEPT !.c = Plus(r.hash.c, r.reg.c)])
        ELSE Sum("FINISHED", 3, [r.hash EXCEPT !.d = Plus(r.hash.d, r.reg.d)])

Cleared(r) == Regs("FINISHED", 0, 0, Zero, Zero, Zero, Zeros, IV)

Started(r) == Regs("CRUNCH", 0, r.ireg, r.freg, r.t0, r.t1, r.hash, r.hash)

(* A reset goes before a start, and a start before everything else. *)
Clocked(r, o, reset, start) ==
    IF reset THEN Cleared(r)
    ELSE IF start THEN Started(r)
    ELSE IF r.stage = "CRUNCH" THEN Crunch(r, o)
    ELSE IF r.stage = "FINALIZE" THEN Finalize(r)
    ELSE r
-----------------------------------------------------------------------------
(* A write to an address goes to a cruncher and to a word of its memory. *)
Lane(addr) == addr \div A
Slot(addr) == addr % A

Written(write) ==
    IF write = None THEN ram
    ELSE [ram EXCEPT ![Lane(write.addr)][Slot(write.addr)] = write.data]

(* A memory that is written and read at one address shows anything.        *)
Collides(c, write) ==
    write # None /\ Lane(write.addr) = c /\ Slot(write.addr) = G[cc[c].ireg]
Garbage(write) == IF \E c \in Cruncher : Collides(c, write) THEN Word ELSE {Zero}

Latched(c, m) == [k |-> K[cc[c].ireg], s |-> S[cc[c].ireg], m |-> m]

(* What the host keeps to: it writes to crunchers that are done, and       *)
(* starts one that is done, for one edge or more.                          *)
Free(c)     == cc[c].stage = "FINISHED"
MayStart(c) == \/ Free(c) /\ hashed[c] < Chunks
               \/ cc[c].stage = "CRUNCH" /\ cc[c].step = 0 /\ cc[c].ireg = 0

Edge(reset, start, write) ==
    /\ cc' = [c \in Cruncher |-> Clocked(cc[c], q[c], c \in reset, c \in start)]
    /\ ram' = Written(write)
    /\ \E x \in Garbage(write) :
          q' = [c \in Cruncher |->
                  Latched(c, IF Collides(c, write) THEN x ELSE ram[c][G[cc[c].ireg]])]
    /\ hashed' = [c \in Cruncher |->
                    IF c \in reset THEN 0
                    ELSE IF c \in start /\ Free(c) THEN hashed[c] + 1 ELSE hashed[c]]

Next ==
    \E reset \in SUBSET Cruncher, start \in SUBSET Cruncher, write \in Writes \cup {None} :
        /\ \A c \in start : MayStart(c)
        /\ write # None => Free(Lane(write.addr))
        /\ Edge(reset, start, write)

Spec == Init /\ [][Next]_vars
-----------------------------------------------------------------------------
(* What a cruncher's registers stand for: from the first edge that writes  *)
(* a sum into the digest on, the digest with all four of them.             *)
Phase(r) == IF r.stage = "FINISHED" THEN "done"
            ELSE IF r.stage = "FINALIZE" /\ r.step # 0 THEN "adding"
            ELSE "busy"

Pending(r, step) == r.stage = "FINALIZE" /\ r.step \in 1..step
Digest(r) ==
    [a |-> r.hash.a,
     b |-> IF Pending(r, 1) THEN Plus(r.hash.b, r.reg.b) ELSE r.hash.b,
     c |-> IF Pending(r, 2) THEN Plus(r.hash.c, r.reg.c) ELSE r.hash.c,
     d |-> IF Pending(r, 3) THEN Plus(r.hash.d, r.reg.d) ELSE r.hash.d]

Promise(c) == INSTANCE Md5 WITH
                  chunk <- ram[c], digest <- Digest(cc[c]), phase <- Phase(cc[c])

(* Whatever the group does for the others, each cruncher computes the MD5  *)
(* of the chunks it was started with: the counter is ahead of the adder by *)
(* exactly the edges the ROMs and the memory need, at the first round of a *)
(* chunk, at the last one, and after a reset in the middle.                *)
ImplementsMd5 ==
    /\ \A c \in Cruncher : Promise(c)!Init
    /\ [][\A c \in Cruncher :
              \/ Promise(c)!Next
              \/ UNCHANGED <<ram[c], Digest(cc[c]), Phase(cc[c])>>]_vars
=============================================================================
