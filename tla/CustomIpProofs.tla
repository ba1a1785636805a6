---------------------------- MODULE CustomIpProofs ----------------------------
(***************************************************************************)
(* Proofs about CustomIp, for any operands and any number of idle edges    *)
(* between the transfers.                                                  *)
(***************************************************************************)
EXTENDS CustomIp, TLAPS

(* How far an iteration has come. *)
Resetting == {"assert", "asserted", "deassert"}
Loading   == {"first", "second", "start", "started"}
Fetching  == {"done", "data"}

UnitExists ==
    /\ pc.unit \in 1..Len(program)
    /\ pc.k \in 1..Len(DataRegisters(Unit))
    /\ pc.at \in {"next", "finished"} => pc.unit = 1

(* The reset of unit x has begun, and it has ended, in this iteration. *)
ResetBegun(x) ==
    \/ pc.at \in Loading \cup Fetching
    \/ pc.at \in {"asserted", "deassert"} /\ x <= pc.unit
    \/ pc.at = "assert" /\ x < pc.unit
ResetEnded(x) ==
    \/ pc.at \in Loading \cup Fetching
    \/ pc.at \in Resetting /\ x < pc.unit
    \/ pc.at = "deassert" /\ x = pc.unit /\ bus # None

(* A unit that has never been started is not done once it has been reset:  *)
(* what its done signals were at power-up is gone.                         *)
NotDone(u) == control[u].start = 0 => \A s \in 1..Depth(u) : done[u][s] = 0

(* u computes, its operands are those of this iteration, and so is what    *)
(* the first m stages hold.                                                *)
Fresh(u, m) == \A s \in 1..Depth(u) : s <= m => pipe[u][s] = <<First(u), Second(u)>>
Ready(u, m) ==
    /\ control[u].start = 1
    /\ data[u].in1 = First(u)
    /\ data[u].in2 = Second(u)
    /\ Fresh(u, m)

(* How many stages of the unit are fresh at each place of the program: the *)
(* transfers between the last write of an operand and the first read of a  *)
(* result take more edges than the longest pipeline has stages.            *)
Progress(x) ==
    LET u == program[x] IN
    /\ ResetBegun(x) => NotDone(u)
    /\ ResetEnded(x) => control[u].reset2 = 0
    /\ pc.at \in {"second", "start"} /\ x = pc.unit => data[u].in1 = First(u)
    /\ pc.at = "start" /\ x = pc.unit => data[u].in2 = Second(u)
    /\ pc.at = "started" /\ x = pc.unit => Ready(u, 0) /\ (bus # None => Ready(u, 1))
    /\ pc.at \in Loading /\ x < pc.unit => Ready(u, 2)
    /\ pc.at = "done" => Ready(u, 2) /\ (bus # None => Ready(u, 3))
    /\ pc.at = "data" => Ready(u, 4)

OnItsWay == \A x \in 1..Len(program) : Progress(x)

(* The read in progress is the one the program waits for. *)
BusServes == bus # None => bus.unit = Unit /\ bus.register = Wanted

(* Stage by stage, done only runs along with a filled pipeline. *)
DoneWithFilled ==
    \A u \in Units : control[u].start = 1 =>
        \A s \in 1..Depth(u) : done[u][s] = 1 => pipe[u][s] # Cleared

Inv ==
    /\ TypeOK
    /\ UnitExists
    /\ BusServes
    /\ OnItsWay
    /\ ReadsOwnResult
    /\ DoneWithFilled
-----------------------------------------------------------------------------
(* What the program and its registers are. *)
LEMMA Sizes ==
    /\ \A u \in Units : Depth(u) \in 3..4 /\ DoneDepth(u) = Depth(u)
    /\ \A u \in Units : Len(DataRegisters(u)) \in 3..4
    /\ \A u \in Units : \A k \in 1..Len(DataRegisters(u)) :
          DataRegisters(u)[k] \in Results \cup Inputs
<1>1. \A u \in Units : Depth(u) \in 3..4 /\ DoneDepth(u) = Depth(u)
    BY DEF Depth, DoneDepth
<1>2. Len(DataRegisters("mult")) = 3 /\ Len(DataRegisters("div")) = 4
    BY DEF DataRegisters
<1>3. \A k \in 1..3 : DataRegisters("mult")[k] \in Results \cup Inputs
    BY DEF DataRegisters, Results, Inputs
<1>4. \A k \in 1..4 : DataRegisters("div")[k] \in Results \cup Inputs
    BY DEF DataRegisters, Results, Inputs
<1>5. QED
    BY <1>1, <1>2, <1>3, <1>4 DEF Units

LEMMA UnitsOfProgram ==
    ASSUME program \in Programs
    PROVE  /\ Len(program) \in 1..2
           /\ \A x \in 1..Len(program) : program[x] \in Units
           /\ \A x, y \in 1..Len(program) : program[x] = program[y] => x = y
<1>1. CASE program = <<"mult">>
    BY <1>1 DEF Units
<1>2. CASE program = <<"mult", "div">>
    BY <1>2 DEF Units
<1>3. QED
    BY <1>1, <1>2 DEF Programs

-----------------------------------------------------------------------------
(* One edge of the clock. *)
LEMMA HeldAtEdge ==
    ASSUME Edge, NEW u \in Units, Held(u)
    PROVE  pipe'[u] = [s \in 1..Depth(u) |-> Cleared]
BY DEF Edge

LEMMA PipeAtEdge ==
    ASSUME Edge, NEW u \in Units, ~ Held(u)
    PROVE  pipe'[u] = IF control[u].start = 1 THEN Shift(u) ELSE pipe[u]
BY DEF Edge

LEMMA DoneDomain ==
    ASSUME Edge, NEW u \in Units, NEW S, \A s \in 1..Depth(u) : done'[u][s] \in S
    PROVE  done'[u] \in [1..Depth(u) -> S]
<1>1. DoneDepth(u) = Depth(u)
    BY Sizes
<1>2. done'[u] = [s \in 1..Depth(u) |-> done'[u][s]]
    BY <1>1 DEF Edge
<1>3. QED
    BY <1>2

LEMMA DoneAtEdge ==
    ASSUME Edge, NEW u \in Units, NEW s \in 1..Depth(u)
    PROVE  /\ Held(u) => done'[u][s] = 0
           /\ ~ Held(u) /\ s > 1 => done'[u][s] = done[u][s - 1]
           /\ ~ Held(u) /\ s = 1 /\ control[u].start = 1 => done'[u][s] = 1
           /\ ~ Held(u) /\ s = 1 /\ control[u].start # 1 => done'[u][s] = done[u][1]
<1>1. Depth(u) \in Nat /\ DoneDepth(u) = Depth(u)
    BY Sizes
<1>2. done'[u][s] = IF Held(u) THEN 0
                    ELSE IF s > 1 THEN done[u][s - 1]
                    ELSE IF control[u].start = 1 THEN 1 ELSE done[u][1]
    BY <1>1 DEF Edge
<1>3. CASE Held(u)
    BY <1>2, <1>3
<1>4. CASE ~ Held(u)
    BY <1>1, <1>2, <1>4
<1>5. QED
    BY <1>3, <1>4

LEMMA EdgeTypes ==
    ASSUME TypeOK, Edge, NEW u \in Units
    PROVE  /\ pipe'[u] \in [1..Depth(u) -> Stage]
           /\ done'[u] \in [1..DoneDepth(u) -> {0, 1}]
<1>1. Depth(u) \in 3..4 /\ DoneDepth(u) = Depth(u)
    BY Sizes
<1>2. pipe[u] \in [1..Depth(u) -> Stage] /\ done[u] \in [1..Depth(u) -> {0, 1}]
    BY <1>1 DEF TypeOK
<1>3. <<data[u].in1, data[u].in2>> \in Stage /\ Cleared \in Stage
    BY DEF TypeOK, Stage
<1>4. Shift(u) \in [1..Depth(u) -> Stage]
  <2>1. \A s \in 1..Depth(u) : s # 1 => pipe[u][s - 1] \in Stage
    BY <1>1, <1>2
  <2>2. QED
    BY <1>3, <2>1 DEF Shift
<1>5. pipe'[u] \in [1..Depth(u) -> Stage]
  <2>1. CASE Held(u)
    BY <1>3, <2>1, HeldAtEdge
  <2>2. CASE ~ Held(u)
    BY <1>2, <1>4, <2>2, PipeAtEdge
  <2>3. QED
    BY <2>1, <2>2
<1>6. done'[u] \in [1..Depth(u) -> {0, 1}]
  <2>1. done[u][1] \in {0, 1} /\ \A s \in 1..Depth(u) : s > 1 => done[u][s - 1] \in {0, 1}
    BY <1>1, <1>2
  <2>2. ASSUME NEW s \in 1..Depth(u) PROVE done'[u][s] \in {0, 1}
    <3>1. s = 1 \/ s > 1
      BY <1>1
    <3>2. QED
      BY <2>1, <3>1, DoneAtEdge
  <2>3. QED
    BY <2>2, DoneDomain
<1>7. QED
    BY <1>1, <1>5, <1>6

(* A unit that computes fills one more stage at each edge. *)
LEMMA OneMoreStage ==
    ASSUME TypeOK, Edge, UNCHANGED <<i, j>>, NEW u \in Units, NEW m \in Nat,
           control[u].reset2 = 0, control'[u].reset2 = 0,
           data'[u] = data[u], control'[u].start = 1, Ready(u, m)
    PROVE  Ready(u, m + 1)'
<1>1. First(u)' = First(u) /\ Second(u)' = Second(u)
    BY DEF First, Second
<1>2. ~ Held(u)
    BY DEF Held
<1>3. pipe'[u] = Shift(u)
    BY <1>2, PipeAtEdge DEF Ready
<1>4. Depth(u) \in Nat
    BY Sizes
<1>5. ASSUME NEW s \in 1..Depth(u), s <= m + 1
      PROVE  pipe'[u][s] = <<First(u), Second(u)>>
  <2>1. CASE s = 1
    BY <1>3, <2>1 DEF Shift, Ready
  <2>2. CASE s > 1
    <3>1. s - 1 \in 1..Depth(u) /\ s - 1 <= m
      BY <1>4, <1>5, <2>2
    <3>2. pipe'[u][s] = pipe[u][s - 1]
      BY <1>3, <2>2 DEF Shift
    <3>3. QED
      BY <3>1, <3>2 DEF Ready, Fresh
  <2>3. QED
    BY <1>4, <2>1, <2>2
<1>6. QED
    BY <1>1, <1>5 DEF Ready, Fresh

LEMMA FewerStages ==
    ASSUME NEW u \in Units, NEW m \in Nat, NEW n \in Nat, n <= m, Ready(u, m)
    PROVE  Ready(u, n)
<1>1. Depth(u) \in Nat
    BY Sizes
<1>2. QED
    BY <1>1 DEF Ready, Fresh

LEMMA StillNotDone ==
    ASSUME TypeOK, Edge, NEW u \in Units, NotDone(u),
           control'[u].start = 0 => control[u].start = 0
    PROVE  NotDone(u)'
<1>1. Depth(u) \in 3..4
    BY Sizes
<1>2. ASSUME control[u].start = 0, NEW s \in 1..Depth(u) PROVE done'[u][s] = 0
  <2>1. done[u][1] = 0 /\ (s > 1 => done[u][s - 1] = 0)
    BY <1>1, <1>2 DEF NotDone
  <2>2. s = 1 \/ s > 1
    BY <1>1
  <2>3. QED
    BY <1>2, <2>1, <2>2, DoneAtEdge
<1>3. QED
    BY <1>2 DEF NotDone

LEMMA ResetEndsDone ==
    ASSUME Edge, NEW u \in Units, control'[u].reset2 = 1
    PROVE  NotDone(u)'
<1>1. Held(u)
    BY DEF Held
<1>2. QED
    BY <1>1, DoneAtEdge DEF NotDone

LEMMA StillFilled ==
    ASSUME TypeOK, Edge, DoneWithFilled,
           \A u \in Units : control[u].start = 0 /\ control'[u].start = 1 => NotDone(u)
    PROVE  DoneWithFilled'
<1> SUFFICES ASSUME NEW u \in Units, control'[u].start = 1,
                    NEW s \in 1..Depth(u), done'[u][s] = 1
             PROVE  pipe'[u][s] # Cleared
    BY DEF DoneWithFilled
<1>1. Depth(u) \in 3..4
    BY Sizes
<1>2. ~ Held(u)
    BY DoneAtEdge
<1>3. control[u].start = 1
  <2>1. CASE control[u].start = 0
    <3>1. NotDone(u)
      BY <2>1
    <3>2. done[u][1] = 0 /\ (s > 1 => done[u][s - 1] = 0)
      BY <1>1, <2>1, <3>1 DEF NotDone
    <3>3. s = 1 \/ s > 1
      BY <1>1
    <3>4. QED
      BY <1>2, <2>1, <3>2, <3>3, DoneAtEdge
  <2>2. QED
    BY <2>1 DEF TypeOK
<1>4. pipe'[u] = Shift(u)
    BY <1>2, <1>3, PipeAtEdge
<1>5. CASE s = 1
  <2>1. <<data[u].in1, data[u].in2>> # Cleared
    BY DEF Cleared
  <2>2. QED
    BY <1>4, <1>5, <2>1 DEF Shift
<1>6. CASE s > 1
  <2>1. done[u][s - 1] = 1
    BY <1>2, <1>6, DoneAtEdge
  <2>2. s - 1 \in 1..Depth(u)
    BY <1>1, <1>6
  <2>3. pipe[u][s - 1] # Cleared
    BY <1>3, <2>1, <2>2 DEF DoneWithFilled
  <2>4. QED
    BY <1>4, <1>6, <2>3 DEF Shift
<1>7. QED
    BY <1>1, <1>5, <1>6
-----------------------------------------------------------------------------
(* What a transfer leaves alone in unit u. *)
ControlKept(u) ==
    /\ control'[u].start = control[u].start
    /\ control[u].reset2 = 0 => control'[u].reset2 = 0
Kept(u) == ControlKept(u) /\ data'[u] = data[u]

LEMMA ResetCarried ==
    ASSUME Inv, Edge, UNCHANGED program, NEW x \in 1..Len(program), ControlKept(program[x])
    PROVE  /\ ResetBegun(x) => NotDone(program[x])'
           /\ ResetEnded(x) => control'[program[x]].reset2 = 0
<1>1. program[x] \in Units
    BY UnitsOfProgram DEF Inv, TypeOK
<1>2. Progress(x)
    BY DEF Inv, OnItsWay
<1>3. ASSUME ResetBegun(x) PROVE NotDone(program[x])'
  <2>1. NotDone(program[x])
    BY <1>2, <1>3 DEF Progress
  <2>2. control'[program[x]].start = 0 => control[program[x]].start = 0
    BY DEF ControlKept
  <2>3. TypeOK
    BY DEF Inv
  <2>4. \A u \in Units : u = program[x] => NotDone(u)'
    BY <2>1, <2>2, <2>3, StillNotDone
  <2>5. QED
    BY <1>1, <2>4 DEF NotDone
<1>4. ASSUME ResetEnded(x) PROVE control'[program[x]].reset2 = 0
    BY <1>2, <1>4 DEF Progress, ControlKept
<1>5. QED
    BY <1>3, <1>4

LEMMA ReadyCarried ==
    ASSUME Inv, Edge, UNCHANGED <<program, i, j>>, NEW x \in 1..Len(program),
           Kept(program[x]), ResetEnded(x), NEW m \in Nat, NEW n \in Nat, n <= m + 1,
           Ready(program[x], m)
    PROVE  Ready(program[x], n)'
<1>1. program[x] \in Units /\ program' = program
    BY UnitsOfProgram DEF Inv, TypeOK
<1>2. PICK u \in Units : u = program[x]
    BY <1>1
<1>3. control[u].reset2 = 0 /\ control'[u].reset2 = 0
    BY <1>2 DEF Inv, OnItsWay, Progress, Kept, ControlKept
<1>4. Ready(u, m) /\ control'[u].start = 1 /\ data'[u] = data[u] /\ TypeOK
    BY <1>2 DEF Ready, Kept, ControlKept, Inv
<1>5. Ready(u, m + 1)'
    BY <1>3, <1>4, OneMoreStage
<1>6. Depth(u) \in Nat
    BY Sizes
<1>7. Ready(u, n)'
    BY <1>5, <1>6 DEF Ready, Fresh
<1>8. QED
    BY <1>1, <1>2, <1>7 DEF Ready, Fresh, First, Second
-----------------------------------------------------------------------------
LEMMA InitInv == Init => Inv
<1> SUFFICES ASSUME Init PROVE Inv
    OBVIOUS
<1>1. program \in Programs /\ pc.at = "next" /\ pc.unit = 1 /\ pc.k = 1 /\ bus = None
    BY DEF Init
<1>2. 1 \in 1..Len(program) /\ program[1] \in Units
    BY <1>1, UnitsOfProgram
<1>3. TypeOK
  <2>1. pc \in [at : Places, unit : 1..2, k : 1..4]
    BY DEF Init, Places
  <2>2. control \in [Units -> [start : {0, 1}, reset2 : {0, 1}]]
    BY DEF Init
  <2>3. data \in [Units -> [in1 : Word, in2 : Word]]
    BY DEF Init, Word
  <2>4. \A u \in Units : pipe[u] \in [1..Depth(u) -> Stage]
    BY DEF Init, Stage
  <2>5. \A u \in Units : done[u] \in [1..DoneDepth(u) -> {0, 1}]
    <3>1. PICK m \in [1..DoneDepth("mult") -> {0, 1}], d \in [1..DoneDepth("div") -> {0, 1}] :
             done = [u \in Units |-> IF u = "mult" THEN m ELSE d]
      BY DEF Init
    <3>2. ASSUME NEW u \in Units PROVE done[u] \in [1..DoneDepth(u) -> {0, 1}]
      <4>1. u = "mult" \/ u = "div"
        BY DEF Units
      <4>2. QED
        BY <3>1, <4>1
    <3>3. QED
      BY <3>2
  <2>6. QED
    BY <1>1, <2>1, <2>2, <2>3, <2>4, <2>5 DEF TypeOK, Init
<1>4. UnitExists
  <2>1. PICK n \in 3..4 : n = Len(DataRegisters(program[1]))
    BY <1>2, Sizes
  <2>2. Unit = program[1]
    BY <1>1 DEF Unit
  <2>3. 1 \in 1..n
    OBVIOUS
  <2>4. pc.k \in 1..Len(DataRegisters(Unit))
    BY <1>1, <2>1, <2>2, <2>3
  <2>5. QED
    BY <1>1, <1>2, <2>4 DEF UnitExists
<1>5. OnItsWay
    BY <1>1, UnitsOfProgram DEF OnItsWay, Progress, ResetBegun, ResetEnded, Loading, Fetching, Resetting
<1>6. BusServes /\ ReadsOwnResult
    BY <1>1 DEF BusServes, ReadsOwnResult
<1>7. DoneWithFilled
    BY <1>1 DEF DoneWithFilled, Init
<1>8. QED
    BY <1>3, <1>4, <1>5, <1>6, <1>7 DEF Inv

(* What every edge preserves, whatever the transfer is. *)
LEMMA AnyEdge ==
    ASSUME Inv, Edge, UNCHANGED program,
           pc' \in [at : Places, unit : 1..2, k : 1..4], i' \in Operands, j' \in Operands,
           bus' \in Reading \cup {None},
           control' \in [Units -> [start : {0, 1}, reset2 : {0, 1}]],
           data' \in [Units -> [in1 : Word, in2 : Word]],
           \A u \in Units : control[u].start = 0 /\ control'[u].start = 1 => NotDone(u)
    PROVE  TypeOK' /\ DoneWithFilled'
<1>1. TypeOK /\ DoneWithFilled
    BY DEF Inv
<1>2. \A u \in Units : /\ pipe'[u] \in [1..Depth(u) -> Stage]
                       /\ done'[u] \in [1..DoneDepth(u) -> {0, 1}]
    BY <1>1, EdgeTypes
<1>3. TypeOK'
    BY <1>1, <1>2 DEF TypeOK
<1>4. DoneWithFilled'
    BY <1>1, StillFilled
<1>5. QED
    BY <1>3, <1>4

(* What follows when the transfer keeps every unit and the program does    *)
(* not move.                                                               *)
LEMMA Current ==
    ASSUME Inv
    PROVE  /\ program \in Programs /\ Unit \in Units
           /\ pc.unit \in 1..Len(program) /\ pc.unit \in 1..2 /\ Len(program) \in 1..2
           /\ \A x \in 1..Len(program) : program[x] \in Units
           /\ \A x \in 1..Len(program) : x # pc.unit => program[x] # Unit
BY UnitsOfProgram DEF Inv, TypeOK, UnitExists, Unit

LEMMA IdleInv == ASSUME Inv, Idle PROVE Inv'
<1>1. Edge /\ bus = None /\ UNCHANGED <<program, pc, i, j, bus, control, data>>
    BY DEF Idle, driver
<1>2. TypeOK' /\ DoneWithFilled'
    BY <1>1, AnyEdge DEF Inv, TypeOK
<1>3. UnitExists' /\ BusServes' /\ ReadsOwnResult'
    BY <1>1 DEF Inv, UnitExists, BusServes, ReadsOwnResult, Unit
<1>4. ASSUME NEW x \in 1..Len(program) PROVE Progress(x)'
  <2>1. Kept(program[x]) /\ ControlKept(program[x])
    BY <1>1 DEF Kept, ControlKept
  <2>2. Progress(x)
    BY DEF Inv, OnItsWay
  <2>3. /\ ResetBegun(x) => NotDone(program[x])'
        /\ ResetEnded(x) => control'[program[x]].reset2 = 0
    BY <1>1, <2>1, ResetCarried
  <2>4. ASSUME NEW m \in Nat, ResetEnded(x), Ready(program[x], m)
        PROVE  Ready(program[x], m)'
    BY <1>1, <2>1, <2>4, ReadyCarried
  <2>5. ResetBegun(x)' = ResetBegun(x) /\ ResetEnded(x)' = ResetEnded(x)
    BY <1>1 DEF ResetBegun, ResetEnded
  <2>6. First(program[x])' = First(program[x]) /\ Second(program[x])' = Second(program[x])
    BY <1>1 DEF First, Second
  <2>7. /\ ResetBegun(x)' => NotDone(program[x])'
        /\ ResetEnded(x)' => control'[program[x]].reset2 = 0
    BY <2>3, <2>5
  <2>8. pc.at \in Loading \cup Fetching => ResetEnded(x)
    BY DEF ResetEnded
  <2>9. /\ pc.at = "started" /\ x = pc.unit => Ready(program[x], 0)'
        /\ pc.at \in Loading /\ x < pc.unit => Ready(program[x], 2)'
        /\ pc.at = "done" => Ready(program[x], 2)'
        /\ pc.at = "data" => Ready(program[x], 4)'
    BY <2>2, <2>4, <2>8 DEF Progress, Loading, Fetching
  <2>10. QED
    BY <1>1, <2>2, <2>6, <2>7, <2>9 DEF Progress
<1>5. OnItsWay'
    BY <1>1, <1>4 DEF OnItsWay
<1>6. QED
    BY <1>2, <1>3, <1>5 DEF Inv
-----------------------------------------------------------------------------
(* Writes. *)
LEMMA GotoFields ==
    ASSUME Inv, UNCHANGED program, NEW at \in Places \ {"next", "finished"}, Goto(at)
    PROVE  /\ pc' \in [at : Places, unit : 1..2, k : 1..4]
           /\ pc'.at = at /\ pc'.unit = pc.unit /\ pc'.k = pc.k
           /\ Unit' = Unit /\ UnitExists'
<1>1. pc \in [at : Places, unit : 1..2, k : 1..4] /\ pc' = [pc EXCEPT !.at = at]
    BY DEF Inv, TypeOK, Goto
<1>2. /\ pc' \in [at : Places, unit : 1..2, k : 1..4]
      /\ pc'.at = at /\ pc'.unit = pc.unit /\ pc'.k = pc.k
    BY <1>1
<1>3. Unit' = Unit
    BY <1>2 DEF Unit
<1>4. UnitExists'
    BY <1>2, <1>3 DEF Inv, UnitExists
<1>5. QED
    BY <1>2, <1>3, <1>4

(* A write goes to one unit; the others only see the edge. *)
LEMMA WriteElsewhere ==
    ASSUME Inv, Edge, UNCHANGED <<program, i, j, bus>>, bus = None,
           pc.at \in {"first", "second", "start"}, pc'.at \in {"second", "start", "started"},
           pc'.unit = pc.unit,
           NEW x \in 1..Len(program), x # pc.unit, Kept(program[x])
    PROVE  Progress(x)'
<1>1. Progress(x) /\ ControlKept(program[x]) /\ program' = program
    BY DEF Inv, OnItsWay, Kept
<1>2. ResetEnded(x) /\ ResetBegun(x)
    BY DEF ResetEnded, ResetBegun, Loading
<1>3. NotDone(program[x])' /\ control'[program[x]].reset2 = 0
    BY <1>1, <1>2, ResetCarried
<1>4. x < pc.unit => Ready(program[x], 2)
    BY <1>1 DEF Progress, Loading
<1>5. x < pc.unit => Ready(program[x], 2)'
    BY <1>2, <1>4, ReadyCarried
<1>6. QED
    BY <1>1, <1>3, <1>5 DEF Progress, Loading

LEMMA WriteFirstInv ==
    ASSUME Inv, Edge, UNCHANGED <<program, i, j, bus>>, bus = None, WriteFirst
    PROVE  Inv'
<1>1. /\ pc.at = "first" /\ Goto("second") /\ UNCHANGED control
      /\ data' = [data EXCEPT ![Unit].in1 = First(Unit)]
    BY DEF WriteFirst
<1>2. "second" \in Places \ {"next", "finished"}
    BY DEF Places
<1>3. /\ pc' \in [at : Places, unit : 1..2, k : 1..4]
      /\ pc'.at = "second" /\ pc'.unit = pc.unit
      /\ Unit' = Unit /\ UnitExists'
    BY <1>1, <1>2, GotoFields
<1>4. First(Unit) \in Word
    BY OperandsAssumption DEF Inv, TypeOK, First
<1>5. data' \in [Units -> [in1 : Word, in2 : Word]]
    BY <1>1, <1>4 DEF Inv, TypeOK
<1>6. TypeOK' /\ DoneWithFilled'
    BY <1>1, <1>3, <1>5, AnyEdge DEF Inv, TypeOK
<1>7. data'[Unit].in1 = First(Unit) /\ \A u \in Units : u # Unit => data'[u] = data[u]
    BY <1>1, Current DEF Inv, TypeOK
<1>8. ASSUME NEW x \in 1..Len(program) PROVE Progress(x)'
  <2>1. CASE x # pc.unit
    <3>1. Kept(program[x])
      BY <1>1, <1>7, <2>1, Current DEF Kept, ControlKept
    <3>2. QED
      BY <1>1, <1>3, <2>1, <3>1, WriteElsewhere
  <2>2. CASE x = pc.unit
    <3>1. ControlKept(program[x]) /\ ResetBegun(x) /\ ResetEnded(x)
      BY <1>1 DEF ControlKept, ResetBegun, ResetEnded, Loading
    <3>2. NotDone(program[x])' /\ control'[program[x]].reset2 = 0
      BY <3>1, ResetCarried
    <3>3. data'[program[x]].in1 = First(program[x])'
      BY <1>7, <2>2 DEF Unit, First
    <3>4. x = pc'.unit /\ program' = program
      BY <1>3, <2>2
    <3>5. QED
      BY <1>3, <3>2, <3>3, <3>4 DEF Progress, Loading
  <2>3. QED
    BY <2>1, <2>2
<1>9. OnItsWay' /\ BusServes' /\ ReadsOwnResult'
    BY <1>8 DEF OnItsWay, BusServes, ReadsOwnResult
<1>10. QED
    BY <1>3, <1>6, <1>9 DEF Inv

LEMMA WriteSecondInv ==
    ASSUME Inv, Edge, UNCHANGED <<program, i, j, bus>>, bus = None, WriteSecond
    PROVE  Inv'
<1>1. /\ pc.at = "second" /\ Goto("start") /\ UNCHANGED control
      /\ data' = [data EXCEPT ![Unit].in2 = Second(Unit)]
    BY DEF WriteSecond
<1>2. "start" \in Places \ {"next", "finished"}
    BY DEF Places
<1>3. /\ pc' \in [at : Places, unit : 1..2, k : 1..4]
      /\ pc'.at = "start" /\ pc'.unit = pc.unit
      /\ Unit' = Unit /\ UnitExists'
    BY <1>1, <1>2, GotoFields
<1>4. Second(Unit) \in Word
    BY OperandsAssumption DEF Inv, TypeOK, Second
<1>5. data' \in [Units -> [in1 : Word, in2 : Word]]
    BY <1>1, <1>4 DEF Inv, TypeOK
<1>6. TypeOK' /\ DoneWithFilled'
    BY <1>1, <1>3, <1>5, AnyEdge DEF Inv, TypeOK
<1>7. /\ data'[Unit].in2 = Second(Unit) /\ data'[Unit].in1 = data[Unit].in1
      /\ \A u \in Units : u # Unit => data'[u] = data[u]
    BY <1>1, Current DEF Inv, TypeOK
<1>8. ASSUME NEW x \in 1..Len(program) PROVE Progress(x)'
  <2>1. CASE x # pc.unit
    <3>1. Kept(program[x])
      BY <1>1, <1>7, <2>1, Current DEF Kept, ControlKept
    <3>2. QED
      BY <1>1, <1>3, <2>1, <3>1, WriteElsewhere
  <2>2. CASE x = pc.unit
    <3>1. ControlKept(program[x]) /\ ResetBegun(x) /\ ResetEnded(x)
      BY <1>1 DEF ControlKept, ResetBegun, ResetEnded, Loading
    <3>2. NotDone(program[x])' /\ control'[program[x]].reset2 = 0
      BY <3>1, ResetCarried
    <3>3. data[program[x]].in1 = First(program[x])
      BY <1>1, <2>2 DEF Inv, OnItsWay, Progress
    <3>4. /\ data'[program[x]].in1 = First(program[x])'
          /\ data'[program[x]].in2 = Second(program[x])'
      BY <1>7, <2>2, <3>3 DEF Unit, First, Second
    <3>5. x = pc'.unit /\ program' = program
      BY <1>3, <2>2
    <3>6. QED
      BY <1>3, <3>2, <3>4, <3>5 DEF Progress, Loading
  <2>3. QED
    BY <2>1, <2>2
<1>9. OnItsWay' /\ BusServes' /\ ReadsOwnResult'
    BY <1>8 DEF OnItsWay, BusServes, ReadsOwnResult
<1>10. QED
    BY <1>3, <1>6, <1>9 DEF Inv

LEMMA WriteStartInv ==
    ASSUME Inv, Edge, UNCHANGED <<program, i, j, bus>>, bus = None, WriteStart
    PROVE  Inv'
<1>1. /\ pc.at = "start" /\ Goto("started") /\ UNCHANGED data
      /\ control' = [control EXCEPT ![Unit].start = 1]
    BY DEF WriteStart
<1>2. "started" \in Places \ {"next", "finished"}
    BY DEF Places
<1>3. /\ pc' \in [at : Places, unit : 1..2, k : 1..4]
      /\ pc'.at = "started" /\ pc'.unit = pc.unit
      /\ Unit' = Unit /\ UnitExists'
    BY <1>1, <1>2, GotoFields
<1>4. control' \in [Units -> [start : {0, 1}, reset2 : {0, 1}]]
    BY <1>1 DEF Inv, TypeOK
<1>5. /\ control'[Unit].start = 1 /\ control'[Unit].reset2 = control[Unit].reset2
      /\ \A u \in Units : u # Unit => control'[u] = control[u]
    BY <1>1, Current DEF Inv, TypeOK
<1>6. NotDone(Unit) /\ control[Unit].reset2 = 0
    BY <1>1, Current DEF Inv, OnItsWay, Progress, ResetBegun, ResetEnded, Loading, Unit
<1>7. TypeOK' /\ DoneWithFilled'
  <2>1. \A u \in Units : control[u].start = 0 /\ control'[u].start = 1 => NotDone(u)
    BY <1>5, <1>6
  <2>2. QED
    BY <1>1, <1>3, <1>4, <2>1, AnyEdge DEF Inv, TypeOK
<1>8. ASSUME NEW x \in 1..Len(program) PROVE Progress(x)'
  <2>1. CASE x # pc.unit
    <3>1. Kept(program[x])
      BY <1>1, <1>5, <2>1, Current DEF Kept, ControlKept
    <3>2. QED
      BY <1>1, <1>3, <2>1, <3>1, WriteElsewhere
  <2>2. CASE x = pc.unit
    <3>1. program[x] = Unit /\ program' = program /\ x = pc'.unit
      BY <1>3, <2>2 DEF Unit
    <3>2. NotDone(program[x])' /\ control'[program[x]].reset2 = 0
      BY <1>5, <1>6, <3>1 DEF NotDone
    <3>3. data[Unit].in1 = First(Unit) /\ data[Unit].in2 = Second(Unit)
      BY <1>1, <2>2, <3>1 DEF Inv, OnItsWay, Progress
    <3>4. Ready(program[x], 0)'
      BY <1>1, <1>5, <3>1, <3>3 DEF Ready, Fresh, First, Second
    <3>5. QED
      BY <1>3, <3>1, <3>2, <3>4 DEF Progress, Loading
  <2>3. QED
    BY <2>1, <2>2
<1>9. OnItsWay' /\ BusServes' /\ ReadsOwnResult'
    BY <1>8 DEF OnItsWay, BusServes, ReadsOwnResult
<1>10. QED
    BY <1>3, <1>7, <1>9 DEF Inv

LEMMA WriteResetInv ==
    ASSUME Inv, Edge, UNCHANGED <<program, i, j, bus>>, bus = None, WriteReset
    PROVE  Inv'
<1>1. /\ pc.at = "assert" /\ Goto("asserted") /\ UNCHANGED data
      /\ control' = [control EXCEPT ![Unit].reset2 = 1]
    BY DEF WriteReset
<1>2. "asserted" \in Places \ {"next", "finished"}
    BY DEF Places
<1>3. /\ pc' \in [at : Places, unit : 1..2, k : 1..4]
      /\ pc'.at = "asserted" /\ pc'.unit = pc.unit
      /\ Unit' = Unit /\ UnitExists'
    BY <1>1, <1>2, GotoFields
<1>4. control' \in [Units -> [start : {0, 1}, reset2 : {0, 1}]]
    BY <1>1 DEF Inv, TypeOK
<1>5. /\ control'[Unit].reset2 = 1 /\ control'[Unit].start = control[Unit].start
      /\ \A u \in Units : u # Unit => control'[u] = control[u]
    BY <1>1, Current DEF Inv, TypeOK
<1>6. TypeOK' /\ DoneWithFilled'
    BY <1>1, <1>3, <1>4, <1>5, AnyEdge DEF Inv, TypeOK
<1>7. ASSUME NEW x \in 1..Len(program) PROVE Progress(x)'
  <2>1. x = pc.unit => NotDone(program[x])'
    <3>1. NotDone(Unit)'
      <4>1. \A u \in Units : control'[u].reset2 = 1 => NotDone(u)'
        BY ResetEndsDone
      <4>2. QED
        BY <1>3, <1>5, <4>1, Current DEF NotDone
    <3>2. QED
      BY <1>3, <3>1 DEF Unit, NotDone
  <2>2. x < pc.unit => NotDone(program[x])' /\ control'[program[x]].reset2 = 0
    <3>1. ASSUME x < pc.unit PROVE NotDone(program[x])' /\ control'[program[x]].reset2 = 0
      <4>1. ControlKept(program[x]) /\ ResetBegun(x) /\ ResetEnded(x)
        BY <1>1, <1>5, <3>1, Current DEF ControlKept, ResetBegun, ResetEnded, Resetting
      <4>2. QED
        BY <4>1, ResetCarried
    <3>2. QED
      BY <3>1
  <2>3. x \in Nat /\ pc.unit \in Nat
    BY Current
  <2>4. /\ ResetBegun(x)' => NotDone(program[x])'
        /\ ResetEnded(x)' => control'[program[x]].reset2 = 0
    BY <1>3, <2>1, <2>2, <2>3 DEF ResetBegun, ResetEnded, Loading, Fetching, Resetting
  <2>5. QED
    BY <1>3, <2>4 DEF Progress, Loading
<1>8. OnItsWay' /\ BusServes' /\ ReadsOwnResult'
    BY <1>7 DEF OnItsWay, BusServes, ReadsOwnResult
<1>9. QED
    BY <1>3, <1>6, <1>8 DEF Inv

LEMMA WriteInv == ASSUME Inv, Write PROVE Inv'
BY WriteFirstInv, WriteSecondInv, WriteStartInv, WriteResetInv DEF Write

LEMMA IterateInv == ASSUME Inv, Iterate PROVE Inv'
<1>1. /\ pc.at = "next" /\ Edge /\ UNCHANGED <<program, bus, control, data>>
      /\ i' \in Operands /\ j' \in Operands
      /\ pc' = [pc EXCEPT !.at = "assert"] \/ pc' = [pc EXCEPT !.at = "finished"]
    BY DEF Iterate, Goto, Inv, TypeOK
<1>2. /\ pc' \in [at : Places, unit : 1..2, k : 1..4]
      /\ pc'.at \in {"assert", "finished"} /\ pc'.unit = pc.unit /\ pc'.k = pc.k
      /\ pc.unit = 1 /\ Unit' = Unit
    BY <1>1 DEF Inv, TypeOK, UnitExists, Places, Unit
<1>3. UnitExists'
    BY <1>1, <1>2 DEF Inv, UnitExists
<1>4. TypeOK' /\ DoneWithFilled'
    BY <1>1, <1>2, AnyEdge DEF Inv, TypeOK
<1>5. ASSUME NEW x \in 1..Len(program) PROVE Progress(x)'
  <2>1. ~ ResetBegun(x)' /\ ~ ResetEnded(x)'
    BY <1>2 DEF ResetBegun, ResetEnded, Loading, Fetching, Resetting
  <2>2. QED
    BY <1>2, <2>1 DEF Progress, Loading
<1>6. OnItsWay'
    BY <1>1, <1>5 DEF OnItsWay
<1>7. bus = None
  <2>1. bus # None => bus.register \in Registers
    BY DEF Inv, TypeOK, Reading, Registers
  <2>2. Wanted = None
    BY <1>1 DEF Wanted
  <2>3. QED
    BY <2>1, <2>2, OperandsAssumption DEF Inv, BusServes
<1>8. BusServes' /\ ReadsOwnResult'
    BY <1>1, <1>7 DEF BusServes, ReadsOwnResult
<1>9. QED
    BY <1>3, <1>4, <1>6, <1>8 DEF Inv
-----------------------------------------------------------------------------
(* Reads. *)
LEMMA AfterReadFields ==
    ASSUME Inv, NEW u \in Units, NEW r \in Registers, control' = AfterRead(u, r)
    PROVE  /\ control' \in [Units -> [start : {0, 1}, reset2 : {0, 1}]]
           /\ \A v \in Units : ControlKept(v)
           /\ r \in Bits => control'[u].reset2 = 0
<1>1. CASE r \in Bits
  <2>1. control' = [control EXCEPT ![u].reset2 = 0]
    BY <1>1 DEF AfterRead
  <2>2. QED
    BY <2>1 DEF Inv, TypeOK, ControlKept
<1>2. CASE r \notin Bits
  <2>1. control' = control
    BY <1>2 DEF AfterRead
  <2>2. QED
    BY <1>2, <2>1 DEF Inv, TypeOK, ControlKept
<1>3. QED
    BY <1>1, <1>2

LEMMA WantedRegister ==
    ASSUME Inv, Wanted # None
    PROVE  /\ pc.at \in {"asserted", "deassert", "started", "done", "data"}
           /\ pc.at # "data" => Wanted \in Bits
           /\ pc.at = "data" => Wanted \in Inputs \cup Results
<1>1. pc.at \in {"asserted", "deassert", "started", "done", "data"}
    BY DEF Wanted
<1>2. CASE pc.at = "data"
  <2>1. Wanted = DataRegisters(Unit)[pc.k]
    BY <1>2 DEF Wanted
  <2>2. Wanted \in Inputs \cup Results
    BY <2>1, Sizes, Current DEF Inv, UnitExists
  <2>3. QED
    BY <1>2, <2>2
<1>3. CASE pc.at # "data"
    BY <1>1, <1>3 DEF Wanted, Bits
<1>4. QED
    BY <1>1, <1>2, <1>3

LEMMA RegisterTypes ==
    ASSUME Inv, NEW u \in Units, NEW r \in Registers
    PROVE  [unit |-> u, register |-> r, value |-> Register(u, r)] \in Reading
<1>1. Depth(u) \in 3..4 /\ DoneDepth(u) = Depth(u)
    BY Sizes
<1>2. CASE r \in Bits
  <2>1. done[u] \in [1..DoneDepth(u) -> {0, 1}]
    BY DEF Inv, TypeOK
  <2>2. DoneDepth(u) \in 1..DoneDepth(u)
    BY <1>1
  <2>3. done[u][DoneDepth(u)] \in {0, 1}
    BY <2>1, <2>2
  <2>4. control[u].start \in {0, 1} /\ control[u].reset2 \in {0, 1}
    BY DEF Inv, TypeOK
  <2>5. Register(u, r) \in {0, 1}
    BY <1>2, <2>3, <2>4 DEF Register, Bits
  <2>6. QED
    BY <1>2, <2>5 DEF Reading
<1>3. CASE r \in Inputs
  <2>1. Register(u, r) \in Word
    BY <1>3 DEF Register, Inputs, Inv, TypeOK
  <2>2. QED
    BY <1>3, <2>1 DEF Reading
<1>4. CASE r \in Results
  <2>1. pipe[u][Depth(u)] \in Stage
    <3>1. pipe[u] \in [1..Depth(u) -> Stage]
      BY DEF Inv, TypeOK
    <3>2. Depth(u) \in 1..Depth(u)
      BY <1>1
    <3>3. QED
      BY <3>1, <3>2
  <2>2. Register(u, r) = pipe[u][Depth(u)]
    BY <1>4 DEF Register, Results
  <2>3. QED
    BY <1>4, <2>1, <2>2 DEF Reading
<1>5. QED
    BY <1>2, <1>3, <1>4 DEF Registers

LEMMA ReadFirstInv == ASSUME Inv, ReadFirstEdge PROVE Inv'
<1>1. /\ bus = None /\ Wanted # None /\ Edge /\ UNCHANGED <<program, pc, i, j, data>>
      /\ bus' = [unit |-> Unit, register |-> Wanted, value |-> Register(Unit, Wanted)]
      /\ control' = AfterRead(Unit, Wanted)
    BY DEF ReadFirstEdge
<1>2. Wanted \in Registers /\ Unit \in Units
    BY <1>1, WantedRegister, Current DEF Registers
<1>3. /\ control' \in [Units -> [start : {0, 1}, reset2 : {0, 1}]]
      /\ \A v \in Units : ControlKept(v)
      /\ Wanted \in Bits => control'[Unit].reset2 = 0
    BY <1>1, <1>2, AfterReadFields
<1>4. bus' \in Reading /\ bus' # None
    BY <1>1, <1>2, RegisterTypes, OperandsAssumption
<1>5. TypeOK' /\ DoneWithFilled'
  <2>1. \A u \in Units : control[u].start = 0 /\ control'[u].start = 1 => NotDone(u)
    BY <1>3 DEF ControlKept
  <2>2. QED
    BY <1>1, <1>3, <1>4, <2>1, AnyEdge DEF Inv, TypeOK
<1>6. UnitExists' /\ BusServes'
    BY <1>1 DEF Inv, UnitExists, BusServes, Unit, Wanted
<1>7. ASSUME NEW x \in 1..Len(program) PROVE Progress(x)'
  <2>1. Progress(x) /\ ControlKept(program[x]) /\ Kept(program[x])
    BY <1>1, <1>3, Current DEF Inv, OnItsWay, Kept
  <2>2. /\ ResetBegun(x) => NotDone(program[x])'
        /\ ResetEnded(x) => control'[program[x]].reset2 = 0
    BY <1>1, <2>1, ResetCarried
  <2>3. ASSUME NEW m \in Nat, NEW n \in Nat, n <= m + 1, ResetEnded(x), Ready(program[x], m)
        PROVE  Ready(program[x], n)'
    BY <1>1, <2>1, <2>3, ReadyCarried
  <2>4. pc.at = "deassert" /\ x = pc.unit => control'[program[x]].reset2 = 0
    BY <1>1, <1>3, WantedRegister DEF Unit
  <2>5. /\ ResetBegun(x)' => NotDone(program[x])'
        /\ ResetEnded(x)' => control'[program[x]].reset2 = 0
    BY <1>1, <2>2, <2>4 DEF ResetBegun, ResetEnded
  <2>6. pc.at \in Loading \cup Fetching => ResetEnded(x)
    BY DEF ResetEnded
  <2>7. /\ pc.at = "started" /\ x = pc.unit => Ready(program[x], 0)' /\ Ready(program[x], 1)'
        /\ pc.at \in Loading /\ x < pc.unit => Ready(program[x], 2)'
        /\ pc.at = "done" => Ready(program[x], 2)' /\ Ready(program[x], 3)'
        /\ pc.at = "data" => Ready(program[x], 4)'
    BY <2>1, <2>3, <2>6 DEF Progress, Loading, Fetching
  <2>8. pc.at \notin {"second", "start"}
    BY <1>1, WantedRegister
  <2>9. QED
    BY <1>1, <2>5, <2>7, <2>8 DEF Progress
<1>8. OnItsWay'
    BY <1>1, <1>7 DEF OnItsWay
<1>9. ReadsOwnResult'
  <2>1. ASSUME pc.at = "data"
        PROVE  /\ Wanted = "in1" => Register(Unit, Wanted) = First(Unit)
               /\ Wanted = "in2" => Register(Unit, Wanted) = Second(Unit)
               /\ Wanted \notin Inputs => Register(Unit, Wanted) = <<First(Unit), Second(Unit)>>
    <3>1. Ready(Unit, 4)
      BY <2>1, Current DEF Inv, OnItsWay, Progress, Unit
    <3>2. Depth(Unit) \in 1..Depth(Unit) /\ Depth(Unit) <= 4
      BY <1>2, Sizes
    <3>3. pipe[Unit][Depth(Unit)] = <<First(Unit), Second(Unit)>>
      BY <3>1, <3>2 DEF Ready, Fresh
    <3>4. Wanted \in Inputs \cup Results
      BY <1>1, <2>1, WantedRegister
    <3>5. Wanted \notin Inputs => Register(Unit, Wanted) = pipe[Unit][Depth(Unit)]
      BY <3>4 DEF Register, Results, Inputs
    <3>6. QED
      BY <3>1, <3>3, <3>5 DEF Ready, Register
  <2>2. bus'.unit = Unit /\ bus'.register = Wanted /\ bus'.value = Register(Unit, Wanted)
    BY <1>1
  <2>3. First(Unit)' = First(Unit) /\ Second(Unit)' = Second(Unit) /\ Unit' = Unit
    BY <1>1 DEF First, Second, Unit
  <2>4. QED
    BY <1>1, <2>1, <2>2, <2>3 DEF ReadsOwnResult, First, Second, Inputs
<1>10. QED
    BY <1>5, <1>6, <1>8, <1>9 DEF Inv

(* Where the program goes when a read has been answered. *)
LEMMA TakeMoves ==
    ASSUME Inv, UNCHANGED program, Take(bus.value)
    PROVE  /\ pc' \in [at : Places, unit : 1..2, k : 1..4]
           /\ UnitExists'
           /\ \/ pc.at = "asserted" /\ pc'.at \in {"asserted", "deassert"} /\ pc'.unit = pc.unit
              \/ pc.at = "deassert" /\ pc'.at = "deassert" /\ pc'.unit = pc.unit
              \/ pc.at = "deassert" /\ pc'.at = "assert" /\ pc'.unit = pc.unit + 1
              \/ /\ pc.at = "deassert" /\ pc'.at = "first" /\ pc'.unit = 1
                 /\ pc.unit = Len(program)
              \/ pc.at = "started" /\ pc'.at = "started" /\ pc'.unit = pc.unit
              \/ pc.at = "started" /\ pc'.at = "first" /\ pc'.unit = pc.unit + 1
              \/ /\ pc.at = "started" /\ pc'.at = "done"
                 /\ pc.unit = Len(program)
              \/ pc.at = "done" /\ pc'.at \in {"done", "data"}
              \/ pc.at = "data" /\ pc'.at \in {"data", "done", "next"}
<1>1. /\ pc \in [at : Places, unit : 1..2, k : 1..4]
      /\ pc.unit \in 1..Len(program) /\ pc.k \in 1..Len(DataRegisters(Unit))
      /\ Len(program) \in 1..2
    BY Current DEF Inv, TypeOK, UnitExists
<1>2. PICK length \in 3..4 : length = Len(DataRegisters(Unit))
    BY Sizes, Current
<1>3. pc.at \notin {"next", "finished"}
    BY DEF Take
<1>4. CASE \E at \in {"asserted", "deassert", "started", "done", "data"} :
             /\ pc' = [pc EXCEPT !.at = at]
             /\ \/ pc.at = "asserted" /\ at \in {"asserted", "deassert"}
                \/ pc.at = "deassert" /\ at = "deassert"
                \/ pc.at = "started" /\ at = "started"
                \/ pc.at = "done" /\ at \in {"done", "data"}
  <2>1. PICK at \in {"asserted", "deassert", "started", "done", "data"} :
             /\ pc' = [pc EXCEPT !.at = at]
             /\ \/ pc.at = "asserted" /\ at \in {"asserted", "deassert"}
                \/ pc.at = "deassert" /\ at = "deassert"
                \/ pc.at = "started" /\ at = "started"
                \/ pc.at = "done" /\ at \in {"done", "data"}
    BY <1>4
  <2>2. at \in Places
    BY DEF Places
  <2>3. /\ pc' \in [at : Places, unit : 1..2, k : 1..4]
        /\ pc'.at = at /\ pc'.unit = pc.unit /\ pc'.k = pc.k
    BY <1>1, <2>1, <2>2
  <2>4. UnitExists'
    BY <2>3 DEF Inv, UnitExists, Unit
  <2>5. QED
    BY <2>1, <2>3, <2>4
<1>5. CASE pc.at = "data" /\ pc.k < length /\ pc' = [pc EXCEPT !.k = @ + 1]
  <2>1. pc.k + 1 \in 1..length /\ pc.k + 1 \in 1..4
    BY <1>1, <1>2, <1>5
  <2>2. /\ pc' \in [at : Places, unit : 1..2, k : 1..4]
        /\ pc'.at = "data" /\ pc'.unit = pc.unit /\ pc'.k = pc.k + 1
    BY <1>1, <1>5, <2>1
  <2>3. UnitExists'
    BY <1>1, <1>2, <2>1, <2>2 DEF UnitExists, Unit
  <2>4. QED
    BY <1>5, <2>2, <2>3
<1>6. ASSUME NEW at \in {"assert", "first", "done"}, NEW after \in {"first", "done", "next"},
             ForEachUnit(at, after)
      PROVE  /\ pc' \in [at : Places, unit : 1..2, k : 1..4] /\ UnitExists'
             /\ \/ pc'.at = at /\ pc'.unit = pc.unit + 1
                \/ pc'.at = after /\ pc'.unit = 1 /\ pc.unit = Len(program)
  <2>1. at \in Places /\ after \in Places
    BY DEF Places
  <2>2. CASE pc.unit < Len(program)
    <3>1. pc' = [at |-> at, unit |-> pc.unit + 1, k |-> 1]
      BY <1>6, <2>2 DEF ForEachUnit
    <3>2. pc.unit + 1 \in 1..2 /\ pc.unit + 1 \in 1..Len(program)
      <4>1. PICK units \in 1..2 : units = Len(program)
        BY <1>1
      <4>2. QED
        BY <1>1, <2>2, <4>1
    <3>3. pc' \in [at : Places, unit : 1..2, k : 1..4]
      BY <2>1, <3>1, <3>2
    <3>4. Unit' \in Units
      BY <3>1, <3>2, Current DEF Unit
    <3>5. PICK n \in 3..4 : n = Len(DataRegisters(Unit'))
      BY <3>4, Sizes
    <3>6. UnitExists'
      BY <3>1, <3>2, <3>5 DEF UnitExists, DataRegisters
    <3>7. QED
      BY <3>1, <3>3, <3>6
  <2>3. CASE ~ (pc.unit < Len(program))
    <3>1. pc' = [at |-> after, unit |-> 1, k |-> 1] /\ pc.unit = Len(program)
      BY <1>1, <1>6, <2>3 DEF ForEachUnit
    <3>2. 1 \in 1..Len(program)
      BY <1>1
    <3>3. pc' \in [at : Places, unit : 1..2, k : 1..4]
      BY <2>1, <3>1
    <3>4. Unit' \in Units
      BY <3>1, <3>2, Current DEF Unit
    <3>5. PICK n \in 3..4 : n = Len(DataRegisters(Unit'))
      BY <3>4, Sizes
    <3>6. UnitExists'
      BY <3>1, <3>2, <3>5 DEF UnitExists, DataRegisters
    <3>7. QED
      BY <3>1, <3>3, <3>6
  <2>4. QED
    BY <2>2, <2>3
<1>7. CASE pc.at = "deassert" /\ ForEachUnit("assert", "first")
    BY <1>6, <1>7
<1>8. CASE pc.at = "started" /\ ForEachUnit("first", "done")
    BY <1>6, <1>8
<1>9. CASE pc.at = "data" /\ ForEachUnit("done", "next")
    BY <1>6, <1>9
<1>10. QED
    BY <1>2, <1>4, <1>5, <1>7, <1>8, <1>9 DEF Take, Goto

LEMMA ReadSecondInv == ASSUME Inv, ReadSecondEdge PROVE Inv'
<1>1. /\ bus # None /\ Take(bus.value) /\ bus' = None /\ Edge
      /\ control' = AfterRead(bus.unit, bus.register)
      /\ UNCHANGED <<program, i, j, data>>
    BY DEF ReadSecondEdge
<1>2. bus.unit = Unit /\ bus.register = Wanted /\ Wanted \in Registers /\ Unit \in Units
    BY <1>1, Current DEF Inv, BusServes, TypeOK, Reading, Registers
<1>3. /\ control' \in [Units -> [start : {0, 1}, reset2 : {0, 1}]]
      /\ \A v \in Units : ControlKept(v)
    BY <1>1, <1>2, AfterReadFields
<1>4. pc' \in [at : Places, unit : 1..2, k : 1..4] /\ UnitExists'
    BY <1>1, TakeMoves
<1>5. TypeOK' /\ DoneWithFilled'
  <2>1. \A u \in Units : control[u].start = 0 /\ control'[u].start = 1 => NotDone(u)
    BY <1>3 DEF ControlKept
  <2>2. QED
    BY <1>1, <1>3, <1>4, <2>1, AnyEdge DEF Inv, TypeOK
<1>6. BusServes' /\ ReadsOwnResult'
    BY <1>1 DEF BusServes, ReadsOwnResult
<1>7. ASSUME NEW x \in 1..Len(program) PROVE Progress(x)'
  <2>1. Progress(x) /\ ControlKept(program[x]) /\ Kept(program[x])
    BY <1>1, <1>3, Current DEF Inv, OnItsWay, Kept
  <2>2. /\ ResetBegun(x) => NotDone(program[x])'
        /\ ResetEnded(x) => control'[program[x]].reset2 = 0
    BY <1>1, <2>1, ResetCarried
  <2>3. ASSUME NEW m \in Nat, NEW n \in Nat, n <= m + 1, ResetEnded(x), Ready(program[x], m)
        PROVE  Ready(program[x], n)'
    BY <1>1, <2>1, <2>3, ReadyCarried
  <2>4. pc.at \in Loading \cup Fetching => ResetEnded(x)
    BY DEF ResetEnded
  <2>5. /\ pc.at = "started" /\ x = pc.unit => Ready(program[x], 0)' /\ Ready(program[x], 2)'
        /\ pc.at \in Loading /\ x < pc.unit => Ready(program[x], 2)'
        /\ pc.at = "done" => Ready(program[x], 2)' /\ Ready(program[x], 4)'
        /\ pc.at = "data" => Ready(program[x], 2)' /\ Ready(program[x], 4)'
    BY <1>1, <2>1, <2>3, <2>4 DEF Progress, Loading, Fetching
  <2>6. x \in 1..2 /\ pc.unit \in 1..2 /\ Len(program) \in 1..2 /\ x <= Len(program)
    <3>1. PICK units \in 1..2 : units = Len(program)
      BY Current
    <3>2. QED
      BY <3>1, Current
  <2>7. PICK units \in 1..2 : units = Len(program)
    BY <2>6
  <2>8. CASE pc.at = "asserted" /\ pc'.at \in {"asserted", "deassert"} /\ pc'.unit = pc.unit
    BY <1>1, <2>2, <2>8 DEF Progress, ResetBegun, ResetEnded, Resetting, Loading, Fetching
  <2>9. CASE /\ pc.at = "deassert" /\ pc'.at \in {"deassert", "assert"}
             /\ pc'.unit = IF pc'.at = "deassert" THEN pc.unit ELSE pc.unit + 1
    BY <1>1, <2>2, <2>6, <2>9 DEF Progress, ResetBegun, ResetEnded, Resetting, Loading, Fetching
  <2>10. CASE /\ pc.at = "deassert" /\ pc'.at = "first" /\ pc'.unit = 1
              /\ pc.unit = Len(program)
    <3>1. x < pc.unit \/ x = pc.unit
      BY <2>6, <2>7, <2>10
    <3>2. ResetBegun(x) /\ ResetEnded(x)
      BY <1>1, <2>6, <2>10, <3>1 DEF ResetBegun, ResetEnded, Resetting
    <3>3. QED
      BY <1>1, <2>2, <2>6, <2>10, <3>2 DEF Progress, Loading
  <2>11. CASE pc.at = "started" /\ pc'.at = "started" /\ pc'.unit = pc.unit
    <3>1. ResetBegun(x) /\ ResetEnded(x)
      BY <2>11 DEF ResetBegun, ResetEnded, Loading
    <3>2. QED
      BY <1>1, <2>2, <2>5, <2>11, <3>1 DEF Progress, Loading
  <2>12. CASE pc.at = "started" /\ pc'.at = "first" /\ pc'.unit = pc.unit + 1
    <3>1. ResetBegun(x) /\ ResetEnded(x)
      BY <2>12 DEF ResetBegun, ResetEnded, Loading
    <3>2. x < pc'.unit => x = pc.unit \/ x < pc.unit
      BY <2>6, <2>12
    <3>3. QED
      BY <1>1, <2>2, <2>5, <2>12, <3>1, <3>2 DEF Progress, Loading
  <2>13. CASE pc.at = "started" /\ pc'.at = "done" /\ pc.unit = Len(program)
    <3>1. ResetBegun(x) /\ ResetEnded(x)
      BY <2>13 DEF ResetBegun, ResetEnded, Loading
    <3>2. x = pc.unit \/ x < pc.unit
      BY <2>6, <2>7, <2>13
    <3>3. QED
      BY <1>1, <2>2, <2>5, <2>13, <3>1, <3>2 DEF Progress, Loading
  <2>14. CASE pc.at \in Fetching /\ pc'.at \in {"done", "data", "next"}
    <3>1. ResetBegun(x) /\ ResetEnded(x)
      BY <2>14 DEF ResetBegun, ResetEnded
    <3>2. QED
      BY <1>1, <2>2, <2>5, <2>14, <3>1 DEF Progress, Loading, Fetching
  <2>15. QED
    BY <1>1, <2>8, <2>9, <2>10, <2>11, <2>12, <2>13, <2>14, TakeMoves DEF Fetching
<1>8. OnItsWay'
    BY <1>1, <1>7 DEF OnItsWay
<1>9. QED
    BY <1>4, <1>5, <1>6, <1>8 DEF Inv

LEMMA StepInv == Inv /\ [Next]_vars => Inv'
<1>1. ASSUME Inv, Next PROVE Inv'
    BY <1>1, WriteInv, ReadFirstInv, ReadSecondInv, IterateInv, IdleInv DEF Next, Transfer
<1>2. ASSUME Inv, UNCHANGED vars PROVE Inv'
  <2>1. UNCHANGED <<program, pc, i, j, bus, control, data, pipe, done>>
    BY <1>2 DEF vars
  <2>2. TypeOK' /\ UnitExists' /\ BusServes' /\ ReadsOwnResult' /\ DoneWithFilled'
    BY <1>2, <2>1 DEF Inv, TypeOK, UnitExists, BusServes, ReadsOwnResult, DoneWithFilled,
       Unit, Wanted, First, Second
  <2>3. OnItsWay'
    BY <1>2, <2>1 DEF Inv, OnItsWay, Progress, ResetBegun, ResetEnded, NotDone, Ready, Fresh,
       First, Second
  <2>4. QED
    BY <2>2, <2>3 DEF Inv
<1>3. QED
    BY <1>1, <1>2

LEMMA Always == Spec => []Inv
BY InitInv, StepInv, PTL DEF Spec

-----------------------------------------------------------------------------
(* The drivers, the registers, the pipelines and the done signals keep     *)
(* their types, for any operands: readdata only has what the register      *)
(* under the address holds.                                                *)
THEOREM TypeCorrect == Spec => []TypeOK
<1>1. Inv => TypeOK
    BY DEF Inv
<1>2. QED
    BY <1>1, Always, PTL

(* No iteration of either main() prints a result that is not the one of    *)
(* its own operands, however many edges pass between the transfers: the    *)
(* shortest way from the last operand to the first result is as long as    *)
(* the longest pipeline.                                                   *)
THEOREM ResultsAreOwn == Spec => []ReadsOwnResult
<1>1. Inv => ReadsOwnResult
    BY DEF Inv
<1>2. QED
    BY <1>1, Always, PTL

(* A unit that was started is never done with an empty pipeline: a reset   *)
(* clears the done signals with the stages, and each pair runs along with  *)
(* its own done signal.                                                    *)
THEOREM DoneMeansFilled == Spec => []DoneIsFilled
<1>1. Inv => DoneIsFilled
  <2>1. \A u \in Units : DoneDepth(u) = Depth(u) /\ Depth(u) \in 1..Depth(u)
    BY Sizes
  <2>2. QED
    BY <2>1 DEF Inv, DoneWithFilled, DoneIsFilled
<1>2. QED
    BY <1>1, Always, PTL
=============================================================================
