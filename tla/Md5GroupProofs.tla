---------------------------- MODULE Md5GroupProofs ----------------------------
(***************************************************************************)
(* Proofs about Md5Group, for any number of crunchers and rounds, any      *)
(* words and tables: the schedule is right whatever is computed.           *)
(***************************************************************************)
EXTENDS Md5Group, TLAPS

LEMMA Closed ==
    /\ N \in Nat /\ N > 1 /\ A \in Nat /\ A > 0 /\ 0 \in Round
    /\ Zero \in Word /\ IV \in Chain /\ Zeros \in Chain
    /\ \A i \in Round : K[i] \in Word /\ S[i] \in Nat /\ G[i] \in 0..(A - 1)
    /\ \A x, y \in Word : Plus(x, y) \in Word
    /\ \A i \in Round : \A x, y, z \in Word : F(i, x, y, z) \in Word
    /\ \A i \in Round : \A x \in Word : Rotate(x, S[i]) \in Word
<1>1. \A i \in Round : K[i] \in Word /\ S[i] \in Nat /\ G[i] \in 0..(A - 1)
    BY Md5Assumption DEF Md5Assumption
<1>2. Zeros \in Chain
    BY Md5Assumption DEF Md5Assumption, Zeros, Chain
<1>3. QED
    BY <1>1, <1>2, Md5Assumption DEF Md5Assumption, Round

LEMMA BelowModulus ==
    ASSUME NEW n \in Nat, NEW k \in Nat, k > 0
    PROVE  /\ n % k \in 0..(k - 1)
           /\ n < k => n % k = n
           /\ n = k => n % k = 0
OBVIOUS

LEMMA Fields ==
    ASSUME NEW r \in Registers
    PROVE  /\ r.stage \in Stages
           /\ r.step \in Steps /\ r.ireg \in Round
           /\ r.freg \in Word /\ r.t0 \in Word /\ r.t1 \in Word
           /\ r.reg \in Chain /\ r.hash \in Chain
           /\ r.reg.a \in Word /\ r.reg.b \in Word /\ r.reg.c \in Word /\ r.reg.d \in Word
           /\ r.hash.a \in Word /\ r.hash.b \in Word /\ r.hash.c \in Word /\ r.hash.d \in Word
BY DEF Registers, Chain

LEMMA NextRound ==
    ASSUME NEW r \in Registers
    PROVE  /\ Inext(r) \in Round
           /\ r.ireg = N - 1 => Inext(r) = 0
           /\ r.ireg # N - 1 => Inext(r) = r.ireg + 1 /\ Inext(r) # 0
<1>1. r.ireg \in Nat /\ r.ireg < N /\ N \in Nat /\ N > 0 /\ r.ireg + 1 \in Nat
  <2>1. r.ireg \in 0..(N - 1) /\ N \in Nat /\ N > 0
    BY Closed, Fields DEF Round
  <2>2. QED
    BY <2>1
<1>2. /\ (r.ireg + 1) % N \in 0..(N - 1)
      /\ r.ireg + 1 < N => (r.ireg + 1) % N = r.ireg + 1
      /\ r.ireg + 1 = N => (r.ireg + 1) % N = 0
    BY <1>1, BelowModulus
<1>3. QED
    BY <1>1, <1>2 DEF Inext, Round

LEMMA RegsType ==
    ASSUME NEW stage \in Stages, NEW step \in Steps,
           NEW ireg \in Round, NEW freg \in Word, NEW t0 \in Word, NEW t1 \in Word,
           NEW reg \in Chain, NEW hash \in Chain
    PROVE  Regs(stage, step, ireg, freg, t0, t1, reg, hash) \in Registers
BY DEF Regs, Registers

LEMMA ChainUpdate ==
    ASSUME NEW h \in Chain, NEW x \in Word
    PROVE  /\ [h EXCEPT !.a = x] \in Chain /\ [h EXCEPT !.b = x] \in Chain
           /\ [h EXCEPT !.c = x] \in Chain /\ [h EXCEPT !.d = x] \in Chain
BY DEF Chain

(* The word a rotation yields is one whenever its amount is a table's.     *)
AtRotation(r, o) == r.stage = "CRUNCH" /\ r.step = 3 => \E i \in Round : o.s = S[i]

LEMMA CrunchType ==
    ASSUME NEW r \in Registers, NEW o \in [k : Word, s : Nat, m : Word],
           AtRotation(r, o), r.stage = "CRUNCH"
    PROVE  Crunch(r, o) \in Registers
<1>1. /\ o.k \in Word /\ o.m \in Word /\ "CRUNCH" \in Stages
      /\ 0 \in Steps /\ 1 \in Steps /\ 2 \in Steps /\ 3 \in Steps
    BY DEF Steps, Stages
<1>2. F(r.ireg, r.reg.b, r.reg.c, r.reg.d) \in Word
    BY Closed, Fields
<1>3. /\ Plus(r.reg.a, o.k) \in Word /\ Plus(r.freg, o.m) \in Word
      /\ Plus(r.t0, r.t1) \in Word /\ Inext(r) \in Round
    BY <1>1, Closed, Fields, NextRound
<1>4. /\ r.freg \in Word /\ r.t0 \in Word /\ r.t1 \in Word /\ r.ireg \in Round
      /\ r.reg \in Chain /\ r.hash \in Chain
    BY Fields
<1>5. CASE r.step = 0
  <2>1. Crunch(r, o) = Regs("CRUNCH", 1, r.ireg, F(r.ireg, r.reg.b, r.reg.c, r.reg.d),
                            Plus(r.reg.a, o.k), r.t1, r.reg, r.hash)
    BY <1>5 DEF Crunch
  <2>2. PICK f \in Word, x \in Word :
            f = F(r.ireg, r.reg.b, r.reg.c, r.reg.d) /\ x = Plus(r.reg.a, o.k)
    BY <1>2, <1>3
  <2>3. Regs("CRUNCH", 1, r.ireg, f, x, r.t1, r.reg, r.hash) \in Registers
    BY <1>1, <1>4, RegsType
  <2>4. QED
    BY <2>1, <2>2, <2>3
<1>6. CASE r.step = 1
  <2>1. Crunch(r, o) = Regs("CRUNCH", 2, r.ireg, r.freg, r.t0, Plus(r.freg, o.m), r.reg, r.hash)
    BY <1>6 DEF Crunch
  <2>2. Plus(r.freg, o.m) \in Word
    BY <1>3
  <2>3. QED
    BY <1>1, <1>4, <2>1, <2>2, RegsType
<1>7. CASE r.step = 2
  <2>1. Crunch(r, o) = Regs("CRUNCH", 3, Inext(r), r.freg, Plus(r.t0, r.t1), r.t1, r.reg, r.hash)
    BY <1>7 DEF Crunch
  <2>2. QED
    BY <1>1, <1>3, <1>4, <2>1, RegsType
<1>8. CASE r.step = 3
  <2>1. Plus(r.reg.b, Rotate(r.t0, o.s)) \in Word
    BY <1>8, Closed, Fields DEF AtRotation
  <2>2. Turned(r, o) \in Chain /\ Onward(r) \in Stages
    BY <2>1, Fields DEF Turned, Chain, Onward, Stages
  <2>3. Crunch(r, o) = Regs(Onward(r), 0, r.ireg, r.freg, r.t0, r.t1, Turned(r, o), r.hash)
    BY <1>8 DEF Crunch
  <2>4. QED
    BY <1>1, <1>4, <2>2, <2>3, RegsType
<1>9. QED
    BY <1>5, <1>6, <1>7, <1>8, Fields DEF Steps

LEMMA FinalizeType ==
    ASSUME NEW r \in Registers
    PROVE  Finalize(r) \in Registers
<1>1. /\ "FINALIZE" \in Stages /\ "FINISHED" \in Stages
      /\ 0 \in Steps /\ 1 \in Steps /\ 2 \in Steps /\ 3 \in Steps
    BY DEF Steps, Stages
<1>2. /\ [r.hash EXCEPT !.a = Plus(r.hash.a, r.reg.a)] \in Chain
      /\ [r.hash EXCEPT !.b = Plus(r.hash.b, r.reg.b)] \in Chain
      /\ [r.hash EXCEPT !.c = Plus(r.hash.c, r.reg.c)] \in Chain
      /\ [r.hash EXCEPT !.d = Plus(r.hash.d, r.reg.d)] \in Chain
    BY Closed, Fields, ChainUpdate
<1>3. QED
  <2>1. CASE r.step = 0
    BY <1>1, <1>2, <2>1, Fields, RegsType DEF Finalize
  <2>2. CASE r.step = 1
    BY <1>1, <1>2, <2>2, Fields, RegsType DEF Finalize
  <2>3. CASE r.step = 2
    BY <1>1, <1>2, <2>3, Fields, RegsType DEF Finalize
  <2>4. CASE r.step = 3
    BY <1>1, <1>2, <2>4, Fields, RegsType DEF Finalize
  <2>5. QED
    BY <2>1, <2>2, <2>3, <2>4, Fields DEF Steps

LEMMA ClockedType ==
    ASSUME NEW r \in Registers, NEW o \in [k : Word, s : Nat, m : Word],
           NEW reset \in BOOLEAN, NEW start \in BOOLEAN, AtRotation(r, o)
    PROVE  Clocked(r, o, reset, start) \in Registers
<1>1. Cleared(r) \in Registers
    BY Closed, RegsType DEF Cleared, Steps, Stages
<1>2. Started(r) \in Registers
  <2>1. /\ r.freg \in Word /\ r.t0 \in Word /\ r.t1 \in Word /\ r.ireg \in Round
        /\ r.hash \in Chain /\ 0 \in Steps /\ "CRUNCH" \in Stages
    BY Fields DEF Steps, Stages
  <2>2. QED
    BY <2>1, RegsType DEF Started
<1>3. QED
    BY <1>1, <1>2, CrunchType, FinalizeType DEF Clocked

-----------------------------------------------------------------------------
(* Where a cruncher is in its schedule.  In the last step of a round the   *)
(* counter has gone on already, and the round is the one behind it.        *)
Behind(n) == IF n = 0 THEN N - 1 ELSE n - 1

Mixed(i, w)     == F(i, w.b, w.c, w.d)
Summed(i, w, m) == Plus(Plus(w.a, K[i]), Plus(Mixed(i, w), m[G[i]]))

AtSteps012(r, o, m) ==
    /\ r.reg = Run(r.hash, m)[r.ireg]
    /\ r.step = 0 => o.k = K[r.ireg]
    /\ r.step = 1 => o.m = m[G[r.ireg]] /\ r.freg = Mixed(r.ireg, r.reg)
    /\ r.step = 2 => r.t1 = Plus(Mixed(r.ireg, r.reg), m[G[r.ireg]])
    /\ r.step \in {1, 2} => r.t0 = Plus(r.reg.a, K[r.ireg])

AtStep3(r, o, m) ==
    /\ r.reg = Run(r.hash, m)[Behind(r.ireg)]
    /\ r.t0 = Summed(Behind(r.ireg), r.reg, m)
    /\ o.s = S[Behind(r.ireg)]

Scheduled(r, o, m) ==
    /\ r.stage # "CRUNCH" => r.ireg = 0
    /\ r.stage = "FINALIZE" /\ r.step = 0 => r.reg = Run(r.hash, m)[N]
    /\ r.stage = "CRUNCH" /\ r.step # 3 => AtSteps012(r, o, m)
    /\ r.stage = "CRUNCH" /\ r.step = 3 => AtStep3(r, o, m)

LEMMA Rounds ==
    ASSUME NEW h \in Chain, NEW m \in Chunk
    PROVE  /\ Run(h, m)[0] = h
           /\ \A i \in Round : Run(h, m)[i + 1] = RoundOf(i, Run(h, m)[i], m)
BY RunAssumption

LEMMA BehindTheCounter ==
    ASSUME NEW r \in Registers
    PROVE  /\ Behind(r.ireg) \in Round /\ Behind(Inext(r)) = r.ireg
           /\ r.ireg = 0 => Behind(r.ireg) + 1 = N
           /\ r.ireg # 0 => Behind(r.ireg) + 1 = r.ireg
<1>1. /\ r.ireg \in Nat /\ r.ireg <= N - 1 /\ N \in Nat /\ N > 1
  <2>1. r.ireg \in 0..(N - 1) /\ N \in Nat /\ N > 1
    BY Closed, Fields DEF Round
  <2>2. QED
    BY <2>1
<1>2. Behind(Inext(r)) = r.ireg
  <2>1. CASE r.ireg = N - 1
    BY <2>1, NextRound DEF Behind
  <2>2. CASE r.ireg # N - 1
    <3>1. Inext(r) = r.ireg + 1 /\ Inext(r) # 0
      BY <2>2, NextRound
    <3>2. QED
      BY <1>1, <3>1 DEF Behind
  <2>3. QED
    BY <2>1, <2>2
<1>3. QED
    BY <1>1, <1>2 DEF Behind, Round

LEMMA RegsFields ==
    ASSUME NEW stage, NEW step, NEW ireg, NEW freg, NEW t0, NEW t1, NEW reg, NEW hash,
           NEW x, x = Regs(stage, step, ireg, freg, t0, t1, reg, hash)
    PROVE  /\ x.stage = stage /\ x.step = step /\ x.ireg = ireg /\ x.freg = freg
           /\ x.t0 = t0 /\ x.t1 = t1 /\ x.reg = reg /\ x.hash = hash
BY DEF Regs

LEMMA ScheduleKept ==
    ASSUME NEW r \in Registers, NEW o, NEW m \in Chunk, Scheduled(r, o, m),
           NEW reset \in BOOLEAN, NEW start \in BOOLEAN,
           start => \/ r.stage = "FINISHED"
                    \/ r.stage = "CRUNCH" /\ r.step = 0 /\ r.ireg = 0,
           NEW p, p.k = K[r.ireg], p.s = S[r.ireg],
           NEW n \in Chunk, r.stage # "FINISHED" => n = m /\ p.m = m[G[r.ireg]]
    PROVE  Scheduled(Clocked(r, o, reset, start), p, n)
<1> DEFINE x == Clocked(r, o, reset, start)
<1>1. CASE reset
  <2>1. x.stage = "FINISHED" /\ x.ireg = 0
    BY <1>1, RegsFields DEF Clocked, Cleared
  <2>2. QED
    BY <2>1 DEF Scheduled
<1>2. CASE ~ reset /\ start
  <2>1. x = Regs("CRUNCH", 0, r.ireg, r.freg, r.t0, r.t1, r.hash, r.hash)
    BY <1>2 DEF Clocked, Started
  <2>2. x.stage = "CRUNCH" /\ x.step = 0 /\ x.ireg = r.ireg /\ x.reg = r.hash /\ x.hash = r.hash
    BY <2>1, RegsFields
  <2>3. r.ireg = 0
    BY <1>2 DEF Scheduled
  <2>4. x.reg = Run(x.hash, n)[x.ireg]
    BY <2>2, <2>3, Fields, Rounds
  <2>5. AtSteps012(x, p, n)
    BY <2>2, <2>4 DEF AtSteps012
  <2>6. QED
    BY <2>2, <2>5 DEF Scheduled
<1>3. CASE ~ reset /\ ~ start /\ r.stage = "CRUNCH" /\ r.step = 0
  <2>1. x = Regs("CRUNCH", 1, r.ireg, Mixed(r.ireg, r.reg), Plus(r.reg.a, o.k), r.t1, r.reg, r.hash)
    BY <1>3 DEF Clocked, Crunch, Mixed
  <2>2. /\ x.stage = "CRUNCH" /\ x.step = 1 /\ x.ireg = r.ireg /\ x.reg = r.reg
        /\ x.hash = r.hash /\ x.freg = Mixed(r.ireg, r.reg) /\ x.t0 = Plus(r.reg.a, o.k)
    BY <2>1, RegsFields
  <2>3. r.reg = Run(r.hash, m)[r.ireg] /\ o.k = K[r.ireg] /\ n = m /\ p.m = m[G[r.ireg]]
    BY <1>3 DEF Scheduled, AtSteps012
  <2>4. AtSteps012(x, p, n)
    BY <2>2, <2>3 DEF AtSteps012
  <2>5. QED
    BY <2>2, <2>4 DEF Scheduled
<1>4. CASE ~ reset /\ ~ start /\ r.stage = "CRUNCH" /\ r.step = 1
  <2>1. x = Regs("CRUNCH", 2, r.ireg, r.freg, r.t0, Plus(r.freg, o.m), r.reg, r.hash)
    BY <1>4 DEF Clocked, Crunch
  <2>2. /\ x.stage = "CRUNCH" /\ x.step = 2 /\ x.ireg = r.ireg /\ x.reg = r.reg
        /\ x.hash = r.hash /\ x.t0 = r.t0 /\ x.t1 = Plus(r.freg, o.m)
    BY <2>1, RegsFields
  <2>3. /\ r.reg = Run(r.hash, m)[r.ireg] /\ o.m = m[G[r.ireg]] /\ n = m
        /\ r.freg = Mixed(r.ireg, r.reg) /\ r.t0 = Plus(r.reg.a, K[r.ireg])
    BY <1>4 DEF Scheduled, AtSteps012
  <2>4. AtSteps012(x, p, n)
    BY <2>2, <2>3 DEF AtSteps012
  <2>5. QED
    BY <2>2, <2>4 DEF Scheduled
<1>5. CASE ~ reset /\ ~ start /\ r.stage = "CRUNCH" /\ r.step = 2
  <2>1. x = Regs("CRUNCH", 3, Inext(r), r.freg, Plus(r.t0, r.t1), r.t1, r.reg, r.hash)
    BY <1>5 DEF Clocked, Crunch
  <2>2. /\ x.stage = "CRUNCH" /\ x.step = 3 /\ x.ireg = Inext(r) /\ x.reg = r.reg
        /\ x.hash = r.hash /\ x.t0 = Plus(r.t0, r.t1)
    BY <2>1, RegsFields
  <2>3. /\ r.reg = Run(r.hash, m)[r.ireg] /\ n = m
        /\ r.t1 = Plus(Mixed(r.ireg, r.reg), m[G[r.ireg]]) /\ r.t0 = Plus(r.reg.a, K[r.ireg])
    BY <1>5 DEF Scheduled, AtSteps012
  <2>4. Behind(x.ireg) = r.ireg
    BY <2>2, BehindTheCounter
  <2>5. AtStep3(x, p, n)
    BY <2>2, <2>3, <2>4 DEF AtStep3, Summed
  <2>6. QED
    BY <2>2, <2>5 DEF Scheduled
<1>6. CASE ~ reset /\ ~ start /\ r.stage = "CRUNCH" /\ r.step = 3
  <2> DEFINE j == Behind(r.ireg)
  <2>1. x = Regs(Onward(r), 0, r.ireg, r.freg, r.t0, r.t1, Turned(r, o), r.hash)
    BY <1>6 DEF Clocked, Crunch
  <2>2. /\ x.stage = Onward(r) /\ x.step = 0 /\ x.ireg = r.ireg
        /\ x.reg = Turned(r, o) /\ x.hash = r.hash
    BY <2>1, RegsFields
  <2>3. r.reg = Run(r.hash, m)[j] /\ r.t0 = Summed(j, r.reg, m) /\ o.s = S[j] /\ n = m
    BY <1>6 DEF Scheduled, AtStep3
  <2>4. Turned(r, o) = RoundOf(j, r.reg, m)
    BY <2>3 DEF Turned, RoundOf, Summed, Mixed
  <2>5. j \in Round /\ (r.ireg = 0 => j + 1 = N) /\ (r.ireg # 0 => j + 1 = r.ireg)
    BY BehindTheCounter
  <2>6. Run(r.hash, m)[j + 1] = RoundOf(j, r.reg, m)
    BY <2>3, <2>5, Fields, Rounds
  <2>7. CASE r.ireg = 0
    <3>1. x.stage = "FINALIZE" /\ x.reg = Run(x.hash, n)[N]
      BY <2>2, <2>3, <2>4, <2>5, <2>6, <2>7 DEF Onward
    <3>2. QED
      BY <2>2, <2>7, <3>1 DEF Scheduled
  <2>8. CASE r.ireg # 0
    <3>1. x.stage = "CRUNCH" /\ x.reg = Run(x.hash, n)[x.ireg]
      BY <2>2, <2>3, <2>4, <2>5, <2>6, <2>8 DEF Onward
    <3>2. AtSteps012(x, p, n)
      BY <2>2, <3>1 DEF AtSteps012
    <3>3. QED
      BY <2>2, <3>1, <3>2 DEF Scheduled
  <2>9. QED
    BY <2>7, <2>8
<1>7. CASE ~ reset /\ ~ start /\ r.stage = "FINALIZE"
  <2>1. x = Finalize(r) /\ r.ireg = 0 /\ r.step \in Steps
    BY <1>7, Fields DEF Clocked, Scheduled
  <2>2. /\ x.stage \in {"FINALIZE", "FINISHED"} /\ x.ireg = r.ireg
        /\ x.stage = "FINALIZE" => x.step # 0
    <3>1. CASE r.step = 0
      BY <2>1, <3>1, RegsFields DEF Finalize
    <3>2. CASE r.step = 1
      BY <2>1, <3>2, RegsFields DEF Finalize
    <3>3. CASE r.step = 2
      BY <2>1, <3>3, RegsFields DEF Finalize
    <3>4. CASE r.step = 3
      BY <2>1, <3>4, RegsFields DEF Finalize
    <3>5. QED
      BY <2>1, <3>1, <3>2, <3>3, <3>4 DEF Steps
  <2>3. QED
    BY <2>1, <2>2 DEF Scheduled
<1>8. CASE ~ reset /\ ~ start /\ r.stage = "FINISHED"
  <2>1. x = r
    BY <1>8 DEF Clocked
  <2>2. QED
    BY <1>8, <2>1 DEF Scheduled
<1>9. QED
    BY <1>1, <1>2, <1>3, <1>4, <1>5, <1>6, <1>7, <1>8, Fields DEF Stages, Steps

-----------------------------------------------------------------------------
(* The inductive invariant: every cruncher is on schedule.                 *)
OnSchedule == \A c \in Cruncher : Scheduled(cc[c], q[c], ram[c])

LEMMA InitInv == Init => TypeOK /\ OnSchedule
<1> SUFFICES ASSUME Init PROVE TypeOK /\ OnSchedule
    OBVIOUS
<1> DEFINE r == Regs("FINISHED", 2, 0, Zero, Zero, Zero, Zeros, Zeros)
<1>1. r \in Registers
    BY Closed, RegsType DEF Stages, Steps
<1>2. cc = [c \in Cruncher |-> r]
    BY DEF Init, Regs
<1>3. cc \in [Cruncher -> Registers]
    BY <1>1, <1>2
<1>4. ram \in [Cruncher -> Chunk] /\ hashed \in [Cruncher -> 0..Chunks]
    BY Closed, GroupAssumption DEF Init, Chunk, GroupAssumption
<1>5. q \in [Cruncher -> [k : Word, s : Nat, m : Word]]
    BY Closed DEF Init
<1>6. OnSchedule
  <2>1. r.stage = "FINISHED" /\ r.ireg = 0
    BY DEF Regs
  <2>2. QED
    BY <1>2, <2>1 DEF OnSchedule, Scheduled
<1>7. QED
    BY <1>3, <1>4, <1>5, <1>6 DEF TypeOK

(* What a step does to one cruncher.                                       *)
LEMMA OneCruncher ==
    ASSUME TypeOK, OnSchedule, NEW c \in Cruncher,
           NEW reset \in SUBSET Cruncher, NEW start \in SUBSET Cruncher,
           NEW write \in Writes \cup {None},
           \A e \in start : MayStart(e), write # None => Free(Lane(write.addr)),
           Edge(reset, start, write)
    PROVE  /\ cc'[c] = Clocked(cc[c], q[c], c \in reset, c \in start)
           /\ q'[c] \in [k : Word, s : Nat, m : Word]
           /\ q'[c].k = K[cc[c].ireg] /\ q'[c].s = S[cc[c].ireg]
           /\ ram'[c] \in Chunk
           /\ cc[c].stage # "FINISHED" => ram'[c] = ram[c] /\ q'[c].m = ram[c][G[cc[c].ireg]]
           /\ hashed'[c] \in 0..Chunks
<1>1. cc[c] \in Registers /\ ram[c] \in Chunk /\ hashed[c] \in 0..Chunks
    BY DEF TypeOK
<1>2. cc[c].ireg \in Round
    BY <1>1, Fields
<1>3. cc'[c] = Clocked(cc[c], q[c], c \in reset, c \in start)
    BY DEF Edge
<1>4. ram[c][G[cc[c].ireg]] \in Word
    BY <1>1, <1>2, Closed DEF Chunk
<1>5. PICK x \in Garbage(write) :
          q' = [e \in Cruncher |->
                  Latched(e, IF Collides(e, write) THEN x ELSE ram[e][G[cc[e].ireg]])]
    BY DEF Edge
<1>6. x \in Word
    BY <1>5, Closed DEF Garbage
<1>7. q'[c] = Latched(c, IF Collides(c, write) THEN x ELSE ram[c][G[cc[c].ireg]])
    BY <1>5
<1>8. q'[c] \in [k : Word, s : Nat, m : Word]
  <2>1. K[cc[c].ireg] \in Word /\ S[cc[c].ireg] \in Nat
    BY <1>2, Closed
  <2>2. QED
    BY <1>4, <1>6, <1>7, <2>1 DEF Latched
<1>9. q'[c].k = K[cc[c].ireg] /\ q'[c].s = S[cc[c].ireg]
    BY <1>7 DEF Latched
<1>10. ram'[c] \in Chunk
  <2>1. CASE write = None
    BY <1>1, <2>1 DEF Edge, Written
  <2>2. CASE write # None
    <3>1. write.data \in Word
      BY <2>2, GroupAssumption DEF GroupAssumption
    <3>2. ram' = [ram EXCEPT ![Lane(write.addr)][Slot(write.addr)] = write.data]
      BY <2>2 DEF Edge, Written
    <3>3. ram'[c] = ram[c] \/ ram'[c] = [ram[c] EXCEPT ![Slot(write.addr)] = write.data]
      BY <3>2 DEF TypeOK
    <3>4. QED
      BY <1>1, <3>1, <3>3 DEF Chunk
  <2>3. QED
    BY <2>1, <2>2
<1>11. ASSUME cc[c].stage # "FINISHED"
       PROVE  ram'[c] = ram[c] /\ q'[c].m = ram[c][G[cc[c].ireg]]
  <2>1. write # None => Lane(write.addr) # c
    BY <1>11 DEF Free
  <2>2. ram'[c] = ram[c]
    BY <2>1 DEF Edge, Written, TypeOK
  <2>3. ~ Collides(c, write)
    BY <2>1 DEF Collides
  <2>4. QED
    BY <1>7, <2>2, <2>3 DEF Latched
<1>12. hashed'[c] \in 0..Chunks
  <2>1. hashed'[c] = IF c \in reset THEN 0
                     ELSE IF c \in start /\ Free(c) THEN hashed[c] + 1 ELSE hashed[c]
    BY DEF Edge
  <2>2. c \in start /\ Free(c) => hashed[c] < Chunks
    BY DEF MayStart, Free
  <2>3. QED
    BY <1>1, <2>1, <2>2, GroupAssumption DEF GroupAssumption
<1>13. QED
    BY <1>3, <1>8, <1>9, <1>10, <1>11, <1>12

LEMMA StepInv == TypeOK /\ OnSchedule /\ [Next]_vars => TypeOK' /\ OnSchedule'
<1> SUFFICES ASSUME TypeOK, OnSchedule, [Next]_vars
             PROVE  TypeOK' /\ OnSchedule'
    OBVIOUS
<1>1. CASE UNCHANGED vars
    BY <1>1 DEF vars, TypeOK, OnSchedule
<1>2. ASSUME NEW reset \in SUBSET Cruncher, NEW start \in SUBSET Cruncher,
             NEW write \in Writes \cup {None},
             \A e \in start : MayStart(e), write # None => Free(Lane(write.addr)),
             Edge(reset, start, write)
      PROVE  TypeOK' /\ OnSchedule'
  <2>1. ASSUME NEW c \in Cruncher
        PROVE  /\ cc'[c] \in Registers /\ q'[c] \in [k : Word, s : Nat, m : Word]
               /\ ram'[c] \in Chunk /\ hashed'[c] \in 0..Chunks
               /\ Scheduled(cc'[c], q'[c], ram'[c])
    <3>1. /\ cc[c] \in Registers /\ q[c] \in [k : Word, s : Nat, m : Word] /\ ram[c] \in Chunk
          /\ Scheduled(cc[c], q[c], ram[c])
      BY DEF TypeOK, OnSchedule
    <3>2. /\ cc'[c] = Clocked(cc[c], q[c], c \in reset, c \in start)
          /\ q'[c] \in [k : Word, s : Nat, m : Word]
          /\ q'[c].k = K[cc[c].ireg] /\ q'[c].s = S[cc[c].ireg]
          /\ ram'[c] \in Chunk
          /\ cc[c].stage # "FINISHED" => ram'[c] = ram[c] /\ q'[c].m = ram[c][G[cc[c].ireg]]
          /\ hashed'[c] \in 0..Chunks
      BY <1>2, OneCruncher
    <3>3. AtRotation(cc[c], q[c])
      BY <3>1, BehindTheCounter DEF AtRotation, Scheduled, AtStep3
    <3> DEFINE reset_c == c \in reset
               start_c == c \in start
    <3>0. reset_c \in BOOLEAN /\ start_c \in BOOLEAN
      OBVIOUS
    <3>4. cc'[c] \in Registers
      <4>1. cc'[c] = Clocked(cc[c], q[c], reset_c, start_c)
        BY <3>2
      <4> HIDE DEF reset_c, start_c
      <4>2. QED
        BY <3>0, <3>1, <3>3, <4>1, ClockedType
    <3>5. start_c => \/ cc[c].stage = "FINISHED"
                     \/ cc[c].stage = "CRUNCH" /\ cc[c].step = 0 /\ cc[c].ireg = 0
      <4>1. c \in start => MayStart(c)
        BY <1>2
      <4>2. QED
        BY <4>1 DEF MayStart, Free
    <3>6. Scheduled(cc'[c], q'[c], ram'[c])
      <4>1. cc'[c] = Clocked(cc[c], q[c], reset_c, start_c)
        BY <3>2
      <4> HIDE DEF reset_c, start_c
      <4>2. QED
        BY <3>0, <3>1, <3>2, <3>5, <4>1, ScheduleKept
    <3>7. QED
      BY <3>2, <3>4, <3>6
  <2>2. /\ cc' = [c \in Cruncher |-> cc'[c]] /\ q' = [c \in Cruncher |-> q'[c]]
        /\ hashed' = [c \in Cruncher |-> hashed'[c]]
    BY <1>2 DEF Edge
  <2>3. ram' = [c \in Cruncher |-> ram'[c]]
    BY <1>2 DEF Edge, Written, TypeOK
  <2>4. TypeOK'
    BY <2>1, <2>2, <2>3 DEF TypeOK
  <2>5. OnSchedule'
    BY <2>1 DEF OnSchedule
  <2>6. QED
    BY <2>4, <2>5
<1>3. QED
    BY <1>1, <1>2 DEF Next

(* The registers, the memories and what they show keep their types: the    *)
(* round counter wraps, and no table is read outside its range.            *)
THEOREM TypeCorrect == Spec => []TypeOK
<1>1. Init => TypeOK /\ OnSchedule
    BY InitInv
<1>2. (TypeOK /\ OnSchedule) /\ [Next]_vars => (TypeOK /\ OnSchedule)'
    BY StepInv
<1>3. QED
    BY <1>1, <1>2, PTL DEF Spec

-----------------------------------------------------------------------------
(* The refinement, of one cruncher.                                        *)
LEMMA PlainDigest ==
    ASSUME NEW r, r.hash \in Chain, r.stage = "FINALIZE" => r.step = 0
    PROVE  Digest(r) = r.hash
<1>1. ~ Pending(r, 1) /\ ~ Pending(r, 2) /\ ~ Pending(r, 3)
    BY DEF Pending
<1>2. QED
    BY <1>1 DEF Digest, Chain

LEMMA PendingSums ==
    ASSUME NEW r, r.stage = "FINALIZE", r.step \in 1..3
    PROVE  Digest(r) =
             [a |-> r.hash.a,
              b |-> IF r.step = 1 THEN Plus(r.hash.b, r.reg.b) ELSE r.hash.b,
              c |-> IF r.step \in {1, 2} THEN Plus(r.hash.c, r.reg.c) ELSE r.hash.c,
              d |-> Plus(r.hash.d, r.reg.d)]
<1>1. /\ Pending(r, 1) <=> r.step = 1
      /\ Pending(r, 2) <=> r.step \in {1, 2}
      /\ Pending(r, 3)
    BY DEF Pending
<1>2. QED
    BY <1>1 DEF Digest

LEMMA FinalizeRefines ==
    ASSUME NEW r \in Registers, r.stage = "FINALIZE", NEW m \in Chunk,
           r.step = 0 => r.reg = Run(r.hash, m)[N]
    PROVE  \/ /\ Phase(r) = "busy" /\ Phase(Finalize(r)) = "adding"
              /\ Digest(Finalize(r)) = Compress(Digest(r), m)
           \/ /\ Phase(r) = "adding" /\ Phase(Finalize(r)) \in {"adding", "done"}
              /\ Digest(Finalize(r)) = Digest(r)
<1> DEFINE x == Finalize(r)
<1>0. r.hash \in Chain
    BY Fields
<1>1. CASE r.step = 0
  <2>1. x = Regs("FINALIZE", 1, r.ireg, r.freg, r.t0, r.t1, r.reg,
                 [r.hash EXCEPT !.a = Plus(r.hash.a, r.reg.a)])
    BY <1>1 DEF Finalize
  <2>2. /\ x.stage = "FINALIZE" /\ x.step = 1 /\ x.reg = r.reg
        /\ x.hash = [r.hash EXCEPT !.a = Plus(r.hash.a, r.reg.a)]
    BY <2>1, RegsFields
  <2>3. /\ x.hash.a = Plus(r.hash.a, r.reg.a) /\ x.hash.b = r.hash.b
        /\ x.hash.c = r.hash.c /\ x.hash.d = r.hash.d
    BY <1>0, <2>2 DEF Chain
  <2>4. Digest(x) = Added(r.hash, r.reg)
    <3> HIDE DEF x
    <3>1. /\ Digest(x).a = x.hash.a /\ Digest(x).b = Plus(x.hash.b, x.reg.b)
          /\ Digest(x).c = Plus(x.hash.c, x.reg.c) /\ Digest(x).d = Plus(x.hash.d, x.reg.d)
      <4>1. x.stage = "FINALIZE" /\ x.step \in 1..3 /\ x.step = 1
        BY <2>2
      <4>2. QED
        BY <4>1, PendingSums
    <3>2. QED
      BY <2>2, <2>3, <3>1 DEF Added, Digest
  <2>5. Digest(r) = r.hash
    BY <1>0, <1>1, PlainDigest
  <2>6. Digest(x) = Compress(Digest(r), m)
    BY <1>1, <2>4, <2>5 DEF Compress
  <2>7. QED
    BY <1>1, <2>2, <2>6 DEF Phase
<1>2. CASE r.step = 1
  <2>1. x = Regs("FINALIZE", 2, r.ireg, r.freg, r.t0, r.t1, r.reg,
                 [r.hash EXCEPT !.b = Plus(r.hash.b, r.reg.b)])
    BY <1>2 DEF Finalize
  <2>2. /\ x.stage = "FINALIZE" /\ x.step = 2 /\ x.reg = r.reg
        /\ x.hash = [r.hash EXCEPT !.b = Plus(r.hash.b, r.reg.b)]
    BY <2>1, RegsFields
  <2>3. /\ x.hash.b = Plus(r.hash.b, r.reg.b) /\ x.hash.a = r.hash.a
        /\ x.hash.c = r.hash.c /\ x.hash.d = r.hash.d
    BY <1>0, <2>2 DEF Chain
  <2>4. Digest(x) = Digest(r)
    <3> HIDE DEF x
    <3>1. /\ Digest(x).b = x.hash.b /\ Digest(x).c = Plus(x.hash.c, x.reg.c)
          /\ Digest(x).d = Plus(x.hash.d, x.reg.d)
      <4>1. x.stage = "FINALIZE" /\ x.step \in 1..3 /\ x.step = 2
        BY <2>2
      <4>2. QED
        BY <4>1, PendingSums
    <3>2. /\ Digest(r).b = Plus(r.hash.b, r.reg.b) /\ Digest(r).c = Plus(r.hash.c, r.reg.c)
          /\ Digest(r).d = Plus(r.hash.d, r.reg.d)
      BY <1>2, PendingSums
    <3>3. QED
      BY <2>2, <2>3, <3>1, <3>2 DEF Digest
  <2>5. QED
    BY <1>2, <2>2, <2>4 DEF Phase
<1>3. CASE r.step = 2
  <2>1. x = Regs("FINALIZE", 3, r.ireg, r.freg, r.t0, r.t1, r.reg,
                 [r.hash EXCEPT !.c = Plus(r.hash.c, r.reg.c)])
    BY <1>3 DEF Finalize
  <2>2. /\ x.stage = "FINALIZE" /\ x.step = 3 /\ x.reg = r.reg
        /\ x.hash = [r.hash EXCEPT !.c = Plus(r.hash.c, r.reg.c)]
    BY <2>1, RegsFields
  <2>3. /\ x.hash.c = Plus(r.hash.c, r.reg.c) /\ x.hash.a = r.hash.a
        /\ x.hash.b = r.hash.b /\ x.hash.d = r.hash.d
    BY <1>0, <2>2 DEF Chain
  <2>4. Digest(x) = Digest(r)
    <3> HIDE DEF x
    <3>1. /\ Digest(x).b = x.hash.b /\ Digest(x).c = x.hash.c
          /\ Digest(x).d = Plus(x.hash.d, x.reg.d)
      <4>1. x.stage = "FINALIZE" /\ x.step \in 1..3 /\ x.step = 3
        BY <2>2
      <4>2. QED
        BY <4>1, PendingSums
    <3>2. /\ Digest(r).b = r.hash.b /\ Digest(r).c = Plus(r.hash.c, r.reg.c)
          /\ Digest(r).d = Plus(r.hash.d, r.reg.d)
      BY <1>3, PendingSums
    <3>3. QED
      BY <2>2, <2>3, <3>1, <3>2 DEF Digest
  <2>5. QED
    BY <1>3, <2>2, <2>4 DEF Phase
<1>4. CASE r.step = 3
  <2>1. x = Regs("FINISHED", 3, r.ireg, r.freg, r.t0, r.t1, r.reg,
                 [r.hash EXCEPT !.d = Plus(r.hash.d, r.reg.d)])
    BY <1>4 DEF Finalize
  <2>2. /\ x.stage = "FINISHED"
        /\ x.hash = [r.hash EXCEPT !.d = Plus(r.hash.d, r.reg.d)]
    BY <2>1, RegsFields
  <2>3. /\ x.hash.d = Plus(r.hash.d, r.reg.d) /\ x.hash.a = r.hash.a
        /\ x.hash.b = r.hash.b /\ x.hash.c = r.hash.c
    BY <1>0, <2>2 DEF Chain
  <2>4. Plus(r.hash.d, r.reg.d) \in Word
    BY Closed, Fields
  <2>5. x.hash \in Chain
    BY <1>0, <2>2, <2>4, ChainUpdate
  <2>6. Digest(x) = x.hash /\ x.hash = [a |-> x.hash.a, b |-> x.hash.b, c |-> x.hash.c, d |-> x.hash.d]
    BY <2>2, <2>5, PlainDigest DEF Chain
  <2>7. Digest(x) = Digest(r)
    BY <1>4, <2>3, <2>6, PendingSums
  <2>8. QED
    BY <1>4, <2>2, <2>7 DEF Phase
<1>5. QED
    BY <1>1, <1>2, <1>3, <1>4, Fields DEF Steps

LEMMA CrunchRefines ==
    ASSUME NEW r \in Registers, NEW o, r.stage = "CRUNCH"
    PROVE  Phase(r) = "busy" /\ Phase(Crunch(r, o)) = "busy" /\ Digest(Crunch(r, o)) = Digest(r)
<1> DEFINE x == Crunch(r, o)
<1>1. x.hash = r.hash /\ x.stage \in {"CRUNCH", "FINALIZE"} /\ (x.stage = "FINALIZE" => x.step = 0)
  <2>1. CASE r.step = 0
    BY <2>1, RegsFields DEF Crunch
  <2>2. CASE r.step = 1
    BY <2>2, RegsFields DEF Crunch
  <2>3. CASE r.step = 2
    BY <2>3, RegsFields DEF Crunch
  <2>4. CASE r.step = 3
    <3>1. x = Regs(Onward(r), 0, r.ireg, r.freg, r.t0, r.t1, Turned(r, o), r.hash)
      BY <2>4 DEF Crunch
    <3>2. x.stage = Onward(r) /\ x.step = 0 /\ x.hash = r.hash
      BY <3>1, RegsFields
    <3>3. QED
      BY <3>2 DEF Onward
  <2>5. QED
    BY <2>1, <2>2, <2>3, <2>4, Fields DEF Steps
<1>2. Digest(x) = r.hash /\ Digest(r) = r.hash
    BY <1>1, Fields, PlainDigest
<1>3. QED
    BY <1>1, <1>2 DEF Phase

(* How an edge moves the phase and the digest of a cruncher. *)
LEMMA ClockedRefines ==
    ASSUME NEW r \in Registers, NEW o, NEW m \in Chunk, Scheduled(r, o, m),
           NEW reset \in BOOLEAN, NEW start \in BOOLEAN,
           start => \/ r.stage = "FINISHED"
                    \/ r.stage = "CRUNCH" /\ r.step = 0 /\ r.ireg = 0,
           NEW x, x = Clocked(r, o, reset, start)
    PROVE  \/ Phase(x) = "done" /\ Digest(x) = IV
           \/ Phase(x) = Phase(r) /\ Digest(x) = Digest(r)
           \/ Phase(r) = "done" /\ Phase(x) = "busy" /\ Digest(x) = Digest(r)
           \/ Phase(r) = "busy" /\ Phase(x) = "adding" /\ Digest(x) = Compress(Digest(r), m)
           \/ Phase(r) = "adding" /\ Phase(x) = "done" /\ Digest(x) = Digest(r)
<1>1. CASE reset
  <2>1. x = Regs("FINISHED", 0, 0, Zero, Zero, Zero, Zeros, IV)
    BY <1>1 DEF Clocked, Cleared
  <2>2. x.stage = "FINISHED" /\ x.hash = IV
    BY <2>1, RegsFields
  <2>3. Digest(x) = IV
    BY <2>2, Closed, PlainDigest
  <2>4. QED
    BY <2>2, <2>3 DEF Phase
<1>2. CASE ~ reset /\ start
  <2>1. x = Regs("CRUNCH", 0, r.ireg, r.freg, r.t0, r.t1, r.hash, r.hash)
    BY <1>2 DEF Clocked, Started
  <2>2. x.stage = "CRUNCH" /\ x.hash = r.hash
    BY <2>1, RegsFields
  <2>3. Digest(x) = r.hash
    BY <2>2, Fields, PlainDigest
  <2>4. Digest(r) = r.hash
    BY <1>2, Fields, PlainDigest
  <2>5. Phase(x) = "busy" /\ Phase(r) \in {"done", "busy"}
    BY <1>2, <2>2 DEF Phase
  <2>6. QED
    BY <2>3, <2>4, <2>5
<1>3. CASE ~ reset /\ ~ start /\ r.stage = "CRUNCH"
  <2>1. x = Crunch(r, o)
    BY <1>3 DEF Clocked
  <2>2. QED
    BY <1>3, <2>1, CrunchRefines
<1>4. CASE ~ reset /\ ~ start /\ r.stage = "FINALIZE"
  <2>1. x = Finalize(r)
    BY <1>4 DEF Clocked
  <2>2. r.step = 0 => r.reg = Run(r.hash, m)[N]
    BY <1>4 DEF Scheduled
  <2>3. QED
    BY <1>4, <2>1, <2>2, FinalizeRefines
<1>5. CASE ~ reset /\ ~ start /\ r.stage = "FINISHED"
    BY <1>5 DEF Clocked
<1>6. QED
    BY <1>1, <1>2, <1>3, <1>4, <1>5, Fields DEF Stages

LEMMA Refines ==
    ASSUME TypeOK, OnSchedule, NEW c \in Cruncher,
           NEW reset \in SUBSET Cruncher, NEW start \in SUBSET Cruncher,
           NEW write \in Writes \cup {None},
           \A e \in start : MayStart(e), write # None => Free(Lane(write.addr)),
           Edge(reset, start, write)
    PROVE  Promise(c)!Next \/ UNCHANGED <<ram[c], Digest(cc[c]), Phase(cc[c])>>
<1> DEFINE r == cc[c]
           x == cc'[c]
           reset_c == c \in reset
           start_c == c \in start
<1>1. reset_c \in BOOLEAN /\ start_c \in BOOLEAN
    OBVIOUS
<1>2. r \in Registers /\ ram[c] \in Chunk /\ Scheduled(r, q[c], ram[c])
    BY DEF TypeOK, OnSchedule
<1>3. /\ x = Clocked(r, q[c], reset_c, start_c)
      /\ ram'[c] \in Chunk
      /\ r.stage # "FINISHED" => ram'[c] = ram[c]
    BY OneCruncher
<1>4. start_c => r.stage = "FINISHED" \/ (r.stage = "CRUNCH" /\ r.step = 0 /\ r.ireg = 0)
  <2>1. c \in start => MayStart(c)
    OBVIOUS
  <2>2. QED
    BY <2>1 DEF MayStart, Free
<1>5. /\ Phase(r) = "done" => r.stage = "FINISHED"
      /\ Phase(r) # "done" => r.stage # "FINISHED"
    BY <1>2, Fields DEF Phase
<1>6. \/ Phase(x) = "done" /\ Digest(x) = IV
      \/ Phase(x) = Phase(r) /\ Digest(x) = Digest(r)
      \/ Phase(r) = "done" /\ Phase(x) = "busy" /\ Digest(x) = Digest(r)
      \/ Phase(r) = "busy" /\ Phase(x) = "adding" /\ Digest(x) = Compress(Digest(r), ram[c])
      \/ Phase(r) = "adding" /\ Phase(x) = "done" /\ Digest(x) = Digest(r)
  <2> HIDE DEF reset_c, start_c
  <2>1. QED
    BY <1>1, <1>2, <1>3, <1>4, ClockedRefines
<1>7. Phase(cc[c])' = Phase(x) /\ Digest(cc[c])' = Digest(x)
    OBVIOUS
<1>8. CASE Phase(x) = "done" /\ Digest(x) = IV
    BY <1>3, <1>5, <1>7, <1>8 DEF Promise!Next, Promise!Reset, Promise!Chunk, Chunk
<1>9. CASE Phase(x) = Phase(r) /\ Digest(x) = Digest(r)
  <2>1. CASE Phase(r) = "done"
    BY <1>3, <1>7, <1>9, <2>1 DEF Promise!Next, Promise!Load, Promise!Chunk, Chunk
  <2>2. CASE Phase(r) # "done"
    BY <1>3, <1>5, <1>7, <1>9, <2>2
  <2>3. QED
    BY <2>1, <2>2
<1>10. CASE Phase(r) = "done" /\ Phase(x) = "busy" /\ Digest(x) = Digest(r)
    BY <1>3, <1>7, <1>10 DEF Promise!Next, Promise!Start, Promise!Chunk, Chunk
<1>11. CASE Phase(r) = "busy" /\ Phase(x) = "adding" /\ Digest(x) = Compress(Digest(r), ram[c])
    BY <1>3, <1>5, <1>7, <1>11
    DEF Promise!Next, Promise!Finish, Promise!Compress, Promise!Added, Compress, Added
<1>12. CASE Phase(r) = "adding" /\ Phase(x) = "done" /\ Digest(x) = Digest(r)
    BY <1>3, <1>5, <1>7, <1>12 DEF Promise!Next, Promise!Done
<1>13. QED
    BY <1>6, <1>8, <1>9, <1>10, <1>11, <1>12

(* The hardware implements its promise: with any number of crunchers, any  *)
(* tables and any words, each cruncher's digest covers the chunks it was   *)
(* started with, and done is up only when the digest is whole.             *)
THEOREM ImplementsThePromise == Spec => ImplementsMd5
<1>1. Init => \A c \in Cruncher : Promise(c)!Init
  <2> SUFFICES ASSUME Init, NEW c \in Cruncher PROVE Promise(c)!Init
    OBVIOUS
  <2>1. cc[c].stage = "FINISHED" /\ cc[c].hash = Zeros
    BY DEF Init
  <2>2. Phase(cc[c]) = "done"
    BY <2>1 DEF Phase
  <2>3. Digest(cc[c]) = Zeros /\ Zeros \in Chain
    BY <2>1, Closed, PlainDigest
  <2>4. ram[c] = [w \in 0..(A - 1) |-> Zero]
    BY DEF Init
  <2>5. QED
    BY <2>2, <2>3, <2>4 DEF Promise!Init, Promise!Chain, Chain
<1>2. TypeOK /\ OnSchedule /\ [Next]_vars =>
        [\A c \in Cruncher :
            \/ Promise(c)!Next
            \/ UNCHANGED <<ram[c], Digest(cc[c]), Phase(cc[c])>>]_vars
  <2> SUFFICES ASSUME TypeOK, OnSchedule, Next, NEW c \in Cruncher
               PROVE  Promise(c)!Next \/ UNCHANGED <<ram[c], Digest(cc[c]), Phase(cc[c])>>
    OBVIOUS
  <2>1. QED
    BY Refines DEF Next
<1>3. Init => TypeOK /\ OnSchedule
    BY InitInv
<1>4. (TypeOK /\ OnSchedule) /\ [Next]_vars => (TypeOK /\ OnSchedule)'
    BY StepInv
<1>5. QED
    BY <1>1, <1>2, <1>3, <1>4, PTL DEF Spec, ImplementsMd5
=============================================================================
