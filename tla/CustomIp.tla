------------------------------ MODULE CustomIp ------------------------------
(***************************************************************************)
(* The multiplier and the divider in the FPGA (COE 838/lab4) and the       *)
(* programs that test them from the processor: software/main.c uses the    *)
(* multiplier only, software/custom_ip/main.c both.  Each unit has a       *)
(* control slave (start, reset2, done) and a data slave (operands and      *)
(* results) on the bus.                                                    *)
(*                                                                         *)
(* One step is one edge of the clock.  A write takes one edge, a read two  *)
(* (readWaitTime 1), and any number may pass between two transfers, as the *)
(* bridge and the processor are not under control of this code.            *)
(***************************************************************************)
EXTENDS Integers, Sequences

CONSTANTS Operands,   (* the values of i and j                             *)
          None

Word    == 0..65535
Cleared == <<>>
Stage   == (Word \X Word) \cup {Cleared}

(* The registers a program reads, and what they may hold. *)
Bits      == {"start", "reset2", "done"}
Inputs    == {"in1", "in2"}
Results   == {"result", "quot", "rem"}
Registers == Bits \cup Inputs \cup Results
Units     == {"mult", "div"}

Reading == [unit : Units, register : Bits, value : {0, 1}]
           \cup [unit : Units, register : Inputs, value : Word]
           \cup [unit : Units, register : Results, value : Stage]

ASSUME OperandsAssumption == Operands \subseteq Word /\ None \notin Registers \cup Reading

VARIABLES program,    (* the units the program uses, in its order          *)
          pc,         (* what the program does next, and to which unit     *)
          i, j,       (* its loop counters                                 *)
          bus,        (* the read in progress and its readdata, or None    *)
          control,    (* control[u]: start and reset2                      *)
          data,       (* data[u]: in1 and in2                              *)
          pipe,       (* pipe[u]: the stages of the arithmetic unit        *)
          done        (* done[u]: done0, done1 ...                         *)

driver == <<program, pc, i, j>>
vars   == <<program, pc, i, j, bus, control, data, pipe, done>>

Programs == {<<"mult">>, <<"mult", "div">>}

(* A faulty multiplier with the stages of the divider. *)
DepthOfDivider(u) == 4

(* lpm_pipeline, and the number of the done signals. *)
Depth(u)     == IF u = "mult" THEN 3 ELSE 4
DoneDepth(u) == IF u = "mult" THEN 3 ELSE 4

(* The registers copy_output reads from the data slave; what is computed   *)
(* stands for the operands it is computed from.                            *)
DataRegisters(u) ==
    IF u = "mult" THEN <<"result", "in1", "in2">> ELSE <<"quot", "rem", "in1", "in2">>

(* reset_system runs through the places of the first line for each unit,   *)
(* copy_to_input then through those of the second, copy_output of the last.*)
Places == {"assert", "asserted", "deassert",
           "first", "second", "start", "started",
           "done", "data"} \cup {"next", "finished"}

TypeOK ==
    /\ program \in Programs
    /\ pc \in [at : Places, unit : 1..2, k : 1..4]
    /\ i \in Operands /\ j \in Operands
    /\ bus \in Reading \cup {None}
    /\ control \in [Units -> [start : {0, 1}, reset2 : {0, 1}]]
    /\ data \in [Units -> [in1 : Word, in2 : Word]]
    /\ \A u \in Units : /\ pipe[u] \in [1..Depth(u) -> Stage]
                        /\ done[u] \in [1..DoneDepth(u) -> {0, 1}]

(* The reset of the FPGA clears the slaves.  The units have no such reset; *)
(* each of their done signals comes up as it likes.                        *)
Init ==
    /\ program \in Programs
    /\ pc = [at |-> "next", unit |-> 1, k |-> 1]
    /\ i \in Operands /\ j \in Operands
    /\ bus = None
    /\ control = [u \in Units |-> [start |-> 0, reset2 |-> 0]]
    /\ data = [u \in Units |-> [in1 |-> 0, in2 |-> 0]]
    /\ pipe = [u \in Units |-> [s \in 1..Depth(u) |-> Cleared]]
    /\ \E m \in [1..DoneDepth("mult") -> {0, 1}], d \in [1..DoneDepth("div") -> {0, 1}] :
          done = [u \in Units |-> IF u = "mult" THEN m ELSE d]
-----------------------------------------------------------------------------
(* The units at an edge.  reset2 is asynchronous: it clears a unit when it *)
(* rises, and holds it at the edge at which it falls.                      *)
Held(u) == control[u].reset2 = 1 \/ control'[u].reset2 = 1

(* A faulty pipeline that does not drop its last stage. *)
ShiftKeeping(u) == <<<<data[u].in1, data[u].in2>>>> \o pipe[u]

(* A new pair enters while start is set, which it stays after its first    *)
(* time for good.                                                          *)
Shift(u) == [s \in 1..Depth(u) |-> IF s = 1 THEN <<data[u].in1, data[u].in2>>
                                   ELSE pipe[u][s - 1]]

Edge ==
    /\ pipe' = [u \in Units |->
                  IF Held(u) THEN [s \in 1..Depth(u) |-> Cleared]
                  ELSE IF control[u].start = 1 THEN Shift(u) ELSE pipe[u]]
    /\ done' = [u \in Units |->
                  [s \in 1..DoneDepth(u) |->
                     IF Held(u) THEN 0
                     ELSE IF s > 1 THEN done[u][s - 1]
                     ELSE IF control[u].start = 1 THEN 1 ELSE done[u][1]]]

(* What a slave puts into readdata. *)
Register(u, r) ==
    IF r = "start" THEN control[u].start
    ELSE IF r = "reset2" THEN control[u].reset2
    ELSE IF r = "done" THEN done[u][DoneDepth(u)]
    ELSE IF r = "in1" THEN data[u].in1
    ELSE IF r = "in2" THEN data[u].in2
    ELSE pipe[u][Depth(u)]

(* A faulty control slave in which only a write ends the reset. *)
AfterReadKeepingReset(u, r) == control

(* Any read of a control slave ends the reset. *)
AfterRead(u, r) ==
    IF r \in Bits THEN [control EXCEPT ![u].reset2 = 0]
    ELSE control
-----------------------------------------------------------------------------
Unit == program[pc.unit]

(* The program goes on with the next unit, or with what follows the last.  *)
ForEachUnit(at, after) ==
    pc' = IF pc.unit < Len(program) THEN [at |-> at, unit |-> pc.unit + 1, k |-> 1]
          ELSE [at |-> after, unit |-> 1, k |-> 1]

Goto(at) == pc' = [pc EXCEPT !.at = at]

(* The numerator i is the second operand of the divider. *)
First(u)  == IF u = "mult" THEN i ELSE j
Second(u) == IF u = "mult" THEN j ELSE i

(* A faulty driver with the second operand at the address of the first. *)
WriteSecondToFirst ==
    /\ pc.at = "second"
    /\ data' = [data EXCEPT ![Unit].in1 = Second(Unit)]
    /\ Goto("start")
    /\ UNCHANGED control

WriteFirst ==
    /\ pc.at = "first"
    /\ data' = [data EXCEPT ![Unit].in1 = First(Unit)]
    /\ Goto("second")
    /\ UNCHANGED control

WriteSecond ==
    /\ pc.at = "second"
    /\ data' = [data EXCEPT ![Unit].in2 = Second(Unit)]
    /\ Goto("start")
    /\ UNCHANGED control

WriteStart ==
    /\ pc.at = "start"
    /\ control' = [control EXCEPT ![Unit].start = 1]
    /\ Goto("started")
    /\ UNCHANGED data

WriteReset ==
    /\ pc.at = "assert"
    /\ control' = [control EXCEPT ![Unit].reset2 = 1]
    /\ Goto("asserted")
    /\ UNCHANGED data

(* alt_write_word: the slave takes the word at one edge. *)
Write ==
    /\ bus = None
    /\ WriteFirst \/ WriteSecond \/ WriteStart \/ WriteReset
    /\ Edge
    /\ UNCHANGED <<program, i, j, bus>>

(* alt_read_word: readdata gets its value at the first edge, while the bus *)
(* waits, and again at the second, when the processor takes the old one.   *)
Wanted ==
    IF pc.at \in {"asserted", "deassert"} THEN "reset2"
    ELSE IF pc.at = "started" THEN "start"
    ELSE IF pc.at = "done" THEN "done"
    ELSE IF pc.at = "data" THEN DataRegisters(Unit)[pc.k]
    ELSE None

ReadFirstEdge ==
    /\ bus = None
    /\ Wanted # None
    /\ bus' = [unit |-> Unit, register |-> Wanted, value |-> Register(Unit, Wanted)]
    /\ control' = AfterRead(Unit, Wanted)
    /\ Edge
    /\ UNCHANGED <<program, pc, i, j, data>>

(* The loops that wait for a bit read again until it is as they want it. *)
Take(value) ==
    \/ pc.at = "asserted" /\ Goto(IF value = 1 THEN "deassert" ELSE "asserted")
    \/ /\ pc.at = "deassert"
       /\ IF value = 1 THEN Goto("deassert") ELSE ForEachUnit("assert", "first")
    \/ /\ pc.at = "started"
       /\ IF value = 1 THEN ForEachUnit("first", "done") ELSE Goto("started")
    \/ pc.at = "done" /\ Goto(IF value = 1 THEN "data" ELSE "done")
    \/ /\ pc.at = "data"
       /\ IF pc.k < Len(DataRegisters(Unit)) THEN pc' = [pc EXCEPT !.k = @ + 1]
          ELSE ForEachUnit("done", "next")

ReadSecondEdge ==
    /\ bus # None
    /\ Take(bus.value)
    /\ bus' = None
    /\ control' = AfterRead(bus.unit, bus.register)
    /\ Edge
    /\ UNCHANGED <<program, i, j, data>>

(* The next iteration of main's loops, or their end. *)
Iterate ==
    /\ pc.at = "next"
    /\ \/ i' \in Operands /\ j' \in Operands /\ Goto("assert")
       \/ Goto("finished") /\ UNCHANGED <<i, j>>
    /\ UNCHANGED <<program, bus, control, data>>
    /\ Edge

(* An edge without a transfer. *)
Idle ==
    /\ bus = None
    /\ UNCHANGED <<driver, bus, control, data>>
    /\ Edge
-----------------------------------------------------------------------------
Transfer == Write \/ ReadFirstEdge \/ ReadSecondEdge \/ Iterate

Next == Transfer \/ Idle

Spec == Init /\ [][Next]_vars

(* The program runs and the bus completes its transfers. *)
FairSpec == Spec /\ WF_vars(Transfer)
-----------------------------------------------------------------------------
(* No iteration prints FAILED: what copy_output reads, results and operands *)
(* alike, belongs to the operands of this iteration - although start is     *)
(* never cleared, so that a unit computes with the old operands as soon as  *)
(* its reset ends, and says that it is done with them.                      *)
ReadsOwnResult ==
    bus # None /\ pc.at = "data" =>
        LET u == bus.unit IN
        bus.value = IF bus.register = "in1" THEN First(u)
                    ELSE IF bus.register = "in2" THEN Second(u)
                    ELSE <<First(u), Second(u)>>

(* "pipeline the done signal til multiplication is complete": once started *)
(* a unit is never done with a pipeline that has not been filled since the *)
(* last reset.                                                             *)
DoneIsFilled ==
    \A u \in Units :
        control[u].start = 1 /\ done[u][DoneDepth(u)] = 1 => pipe[u][Depth(u)] # Cleared

(* "while(...)": every wait of an iteration comes to its end. *)
IterationEnds == pc.at = "assert" ~> pc.at = "next"
=============================================================================
