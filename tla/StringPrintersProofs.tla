------------------------- MODULE StringPrintersProofs -------------------------
(***************************************************************************)
(* Proofs about StringPrinters, for any number of threads and any string   *)
(* of odd size.                                                            *)
(***************************************************************************)
EXTENDS StringPrinters, TLAPS

(* The symbols are numbers, and an index stays one. *)
LEMMA Numbers ==
    /\ LastChar \in Nat /\ Newline \in Nat /\ LastChar < Newline /\ LastChar < Size
    /\ Indices \subseteq Nat /\ 0 \in Indices
    /\ \A n \in Indices : Up(n) \in Indices
BY PrintersAssumption DEF PrintersAssumption, LastChar, Newline, Indices, Largest, Up

Threading == [Running -> [at : Places, tmp : Indices]]

(* A thread that moves leaves the others alone. *)
LEMMA Moves ==
    ASSUME thread \in Threading, NEW t \in Running, NEW place \in Places,
           Goto(t, place)
    PROVE  /\ thread' \in Threading
           /\ thread'[t].at = place /\ thread'[t].tmp = thread[t].tmp
           /\ \A u \in Running \ {t} : thread'[u] = thread[u]
BY DEF Goto, Threading

LEMMA Leaves ==
    ASSUME thread \in Threading, NEW t \in Running, NEW place \in Places,
           Leave(t, place)
    PROVE  /\ thread' \in Threading
           /\ thread'[t].at = place /\ thread'[t].tmp = 0
           /\ \A u \in Running \ {t} : thread'[u] = thread[u]
BY Numbers DEF Leave, Threading

LEMMA Reads ==
    ASSUME thread \in Threading, NEW t \in Running, index \in Indices,
           thread' = [thread EXCEPT ![t] = [at |-> "print", tmp |-> index]]
    PROVE  /\ thread' \in Threading
           /\ thread'[t].at = "print" /\ thread'[t].tmp = index
           /\ \A u \in Running \ {t} : thread'[u] = thread[u]
BY DEF Places, Threading

LEMMA Wakes ==
    ASSUME thread \in Threading, NEW t \in Running, NEW u \in Running, u # t,
           thread' = [thread EXCEPT ![t].at = "test", ![u].at = "relock"]
    PROVE  /\ thread' \in Threading
           /\ thread'[t].at = "test" /\ thread'[t].tmp = thread[t].tmp
           /\ thread'[u].at = "relock" /\ thread'[u].tmp = thread[u].tmp
           /\ \A v \in Running \ {t, u} : thread'[v] = thread[v]
BY DEF Places, Threading

LEMMA PlacesThere ==
    /\ {"lock", "test", "wait", "waiting", "relock", "dying", "read", "print", "sleep",
        "write", "newline", "reset", "unlock", "signal", "dead"} \subseteq Places
    /\ Bottom \in {"read", "unlock"}
BY DEF Places, Bottom

(* The typing of what a step of a thread may change. *)
Typed == /\ index \in Indices
         /\ thread \in Threading
         /\ mutex \in Running \cup {None, "destroyed"}
         /\ waiting \subseteq Running
         /\ \A t \in Running : t \in waiting <=> thread[t].at = "waiting"
         /\ printed \subseteq 0..Newline /\ last \in 0..Newline
         /\ past \in BOOLEAN /\ missed \in BOOLEAN

LEMMA TypedIsType ==
    TypeOK <=> /\ Typed /\ program \in Programs /\ cancelled \subseteq Running
               /\ main \in {"sleep", "cancel", "left", "returned"}
BY DEF TypeOK, Typed, Threading

LEMMA ThreadStays ==
    ASSUME NEW t \in Running, ThreadStep(t) \/ SpuriousWakeUp(t)
    PROVE  UNCHANGED <<program, main, cancelled>>
BY DEF ThreadStep, SpuriousWakeUp, Lock, Test, Wait, WakeUp, Relock, Read, PrintChar, Sleep,
       Write, NewLine, Reset, Unlock, Signal, Die, DieLocked

Moved(t) == /\ thread' \in Threading
            /\ \A u \in Running \ {t} : thread'[u] = thread[u]

LEMMA Constants ==
    ASSUME program' = program
    PROVE  /\ Running' = Running /\ Threading' = Threading
           /\ Newline' = Newline /\ LastChar' = LastChar
BY DEF Running, Newline, LastChar, Threading

(* It is enough to type what a step of a thread changes. *)
LEMMA TypedFrom ==
    ASSUME Typed, NEW t \in Running, program' = program, Moved(t),
           index' \in Indices, mutex' \in Running \cup {None, "destroyed"},
           printed' \subseteq 0..Newline, last' \in 0..Newline,
           past' \in BOOLEAN, missed' \in BOOLEAN,
           waiting' = IF thread'[t].at = "waiting" THEN waiting \cup {t} ELSE waiting \ {t}
    PROVE  Typed'
<1>1. \A u \in Running : u \in waiting' <=> thread'[u].at = "waiting"
    BY DEF Typed, Moved
<1>2. waiting' \subseteq Running
    BY DEF Typed
<1>3. QED
    BY <1>1, <1>2, Constants DEF Typed, Moved

LEMMA TypedPrint ==
    ASSUME Typed, NEW t \in Running, PrintChar(t)
    PROVE  printed' \subseteq 0..Newline /\ last' \in 0..Newline
<1>1. thread[t].tmp \in Nat
    BY Numbers DEF Typed, Threading
<1>2. CASE thread[t].tmp <= LastChar
  <2>1. thread[t].tmp \in 0..Newline
    BY <1>1, <1>2, Numbers
  <2>2. printed' = printed \cup {thread[t].tmp} /\ last' = thread[t].tmp
    BY <1>1, <1>2, Numbers DEF PrintChar, Put
  <2>3. QED
    BY <2>1, <2>2 DEF Typed
<1>3. CASE ~(thread[t].tmp <= LastChar)
    BY <1>3 DEF PrintChar, screen, Typed
<1>4. QED
    BY <1>2, <1>3

LEMMA TypedSignal ==
    ASSUME Typed, NEW t \in Running, Signal(t), program' = program
    PROVE  Typed'
<1>1. thread \in Threading /\ thread[t].at = "signal"
    BY DEF Signal, Typed
<1>2. /\ UNCHANGED <<index, mutex, printed, last, past>>
      /\ missed' \in BOOLEAN
    BY DEF Signal, Typed, screen
<1>3. CASE waiting = {}
  <2>1. Goto(t, "test") /\ waiting' = {}
    BY <1>3 DEF Signal
  <2>2. Moved(t) /\ thread'[t].at = "test"
    BY <1>1, <2>1, Moves, PlacesThere DEF Moved
  <2>3. QED
    BY <1>2, <1>3, <2>1, <2>2, TypedFrom DEF Typed
<1>4. CASE waiting # {}
  <2>1. PICK u \in waiting :
            /\ thread' = [thread EXCEPT ![t].at = "test", ![u].at = "relock"]
            /\ waiting' = waiting \ {u}
    BY <1>4 DEF Signal
  <2>2. u \in Running /\ u # t /\ t \notin waiting
    BY <1>1 DEF Typed
  <2>3. /\ thread' \in Threading
        /\ thread'[t].at = "test" /\ thread'[u].at = "relock"
        /\ \A v \in Running \ {t, u} : thread'[v] = thread[v]
    <3>1. PICK w \in Running : w = u /\ w # t
      BY <2>2
    <3>2. thread' = [thread EXCEPT ![t].at = "test", ![w].at = "relock"]
      BY <2>1, <3>1
    <3>3. /\ thread' \in Threading
          /\ thread'[t].at = "test" /\ thread'[w].at = "relock"
          /\ \A v \in Running \ {t, w} : thread'[v] = thread[v]
      BY <1>1, <3>1, <3>2, Wakes
    <3>4. QED
      BY <3>1, <3>3
  <2>4. \A v \in Running : v \in waiting' <=> thread'[v].at = "waiting"
    BY <2>1, <2>2, <2>3 DEF Typed
  <2>5. QED
    BY <1>2, <2>1, <2>3, <2>4, Constants DEF Typed
<1>5. QED
    BY <1>3, <1>4

LEMMA TypedStep ==
    ASSUME Typed, NEW t \in Running, ThreadStep(t) \/ SpuriousWakeUp(t)
    PROVE  Typed'
<1>0. UNCHANGED program /\ thread \in Threading
    BY ThreadStays DEF Typed
<1> USE <1>0, Moves, Leaves, PlacesThere DEF screen, Moved
<1>w. \A u \in Running : u \in waiting <=> thread[u].at = "waiting"
    BY DEF Typed
<1>1. ASSUME Lock(t) PROVE Typed'
  <2>1. /\ Moved(t)
        /\ waiting' = IF thread'[t].at = "waiting" THEN waiting \cup {t} ELSE waiting \ {t}
    BY <1>1, <1>w DEF Lock
  <2>2. /\ index' \in Indices /\ mutex' \in Running \cup {None, "destroyed"}
        /\ printed' \subseteq 0..Newline /\ last' \in 0..Newline
        /\ past' \in BOOLEAN /\ missed' \in BOOLEAN
    BY <1>1, Numbers DEF Lock, Typed, Acquire
  <2>3. QED
    BY <2>1, <2>2, TypedFrom
<1>2. ASSUME Relock(t) PROVE Typed'
  <2>1. /\ Moved(t)
        /\ waiting' = IF thread'[t].at = "waiting" THEN waiting \cup {t} ELSE waiting \ {t}
    BY <1>2, <1>w DEF Relock
  <2>2. /\ index' \in Indices /\ mutex' \in Running \cup {None, "destroyed"}
        /\ printed' \subseteq 0..Newline /\ last' \in 0..Newline
        /\ past' \in BOOLEAN /\ missed' \in BOOLEAN
    BY <1>2, Numbers DEF Relock, Typed, Acquire
  <2>3. QED
    BY <2>1, <2>2, TypedFrom
<1>3. ASSUME DieLocked(t) PROVE Typed'
  <2>1. /\ Moved(t)
        /\ waiting' = IF thread'[t].at = "waiting" THEN waiting \cup {t} ELSE waiting \ {t}
    BY <1>3, <1>w DEF DieLocked
  <2>2. /\ index' \in Indices /\ mutex' \in Running \cup {None, "destroyed"}
        /\ printed' \subseteq 0..Newline /\ last' \in 0..Newline
        /\ past' \in BOOLEAN /\ missed' \in BOOLEAN
    BY <1>3, Numbers DEF DieLocked, Typed, Acquire
  <2>3. QED
    BY <2>1, <2>2, TypedFrom
<1>4. ASSUME Test(t) PROVE Typed'
  <2>1. /\ Moved(t)
        /\ waiting' = IF thread'[t].at = "waiting" THEN waiting \cup {t} ELSE waiting \ {t}
    BY <1>4, <1>w DEF Test
  <2>2. /\ index' \in Indices /\ mutex' \in Running \cup {None, "destroyed"}
        /\ printed' \subseteq 0..Newline /\ last' \in 0..Newline
        /\ past' \in BOOLEAN /\ missed' \in BOOLEAN
    BY <1>4, Numbers DEF Test, Typed, Acquire
  <2>3. QED
    BY <2>1, <2>2, TypedFrom
<1>5. ASSUME Wait(t) PROVE Typed'
  <2>1. /\ Moved(t)
        /\ waiting' = IF thread'[t].at = "waiting" THEN waiting \cup {t} ELSE waiting \ {t}
    BY <1>5, <1>w DEF Wait
  <2>2. /\ index' \in Indices /\ mutex' \in Running \cup {None, "destroyed"}
        /\ printed' \subseteq 0..Newline /\ last' \in 0..Newline
        /\ past' \in BOOLEAN /\ missed' \in BOOLEAN
    BY <1>5, Numbers DEF Wait, Typed, Release
  <2>3. QED
    BY <2>1, <2>2, TypedFrom
<1>6. ASSUME WakeUp(t) PROVE Typed'
  <2>1. /\ Moved(t)
        /\ waiting' = IF thread'[t].at = "waiting" THEN waiting \cup {t} ELSE waiting \ {t}
    BY <1>6, <1>w DEF WakeUp
  <2>2. /\ index' \in Indices /\ mutex' \in Running \cup {None, "destroyed"}
        /\ printed' \subseteq 0..Newline /\ last' \in 0..Newline
        /\ past' \in BOOLEAN /\ missed' \in BOOLEAN
    BY <1>6, Numbers DEF WakeUp, Typed, Release
  <2>3. QED
    BY <2>1, <2>2, TypedFrom
<1>7. ASSUME Read(t) PROVE Typed'
  <2>0. index \in Indices
    BY DEF Typed
  <2>1. /\ thread' \in Threading /\ thread'[t].at = "print"
        /\ \A u \in Running \ {t} : thread'[u] = thread[u]
    BY <1>7, <2>0, Reads DEF Read
  <2>2. waiting' = waiting \ {t}
    BY <1>7, <1>w DEF Read
  <2>3. /\ index' \in Indices /\ mutex' \in Running \cup {None, "destroyed"}
        /\ printed' \subseteq 0..Newline /\ last' \in 0..Newline
        /\ missed' \in BOOLEAN
    BY <1>7, Numbers DEF Read, Typed, Threading
  <2>4. past' \in BOOLEAN
    BY <1>7 DEF Read, Typed
  <2>5. QED
    BY <2>1, <2>2, <2>3, <2>4, TypedFrom
<1>8. ASSUME PrintChar(t) PROVE Typed'
  <2>0. thread[t].tmp \in Nat
    BY Numbers DEF Threading
  <2>1. Goto(t, "sleep") \/ Goto(t, "write")
    BY <1>8 DEF PrintChar
  <2>2. /\ thread' \in Threading /\ thread'[t].at # "waiting"
        /\ \A u \in Running \ {t} : thread'[u] = thread[u]
    BY <2>1
  <2>3. waiting' = waiting \ {t}
    BY <1>8, <1>w DEF PrintChar
  <2>4. /\ index' \in Indices /\ mutex' \in Running \cup {None, "destroyed"}
        /\ past' \in BOOLEAN /\ missed' \in BOOLEAN
    BY <1>8 DEF PrintChar, Typed
  <2>5. printed' \subseteq 0..Newline /\ last' \in 0..Newline
    BY <1>8, TypedPrint
  <2>6. QED
    BY <2>2, <2>3, <2>4, <2>5, TypedFrom
<1>9. ASSUME Sleep(t) PROVE Typed'
  <2>1. /\ Moved(t)
        /\ waiting' = IF thread'[t].at = "waiting" THEN waiting \cup {t} ELSE waiting \ {t}
    BY <1>9, <1>w DEF Sleep
  <2>2. /\ index' \in Indices /\ mutex' \in Running \cup {None, "destroyed"}
        /\ printed' \subseteq 0..Newline /\ last' \in 0..Newline
        /\ past' \in BOOLEAN /\ missed' \in BOOLEAN
    BY <1>9, Numbers DEF Sleep, Typed, Threading
  <2>3. QED
    BY <2>1, <2>2, TypedFrom
<1>10. ASSUME Write(t) PROVE Typed'
  <2>1. /\ Moved(t)
        /\ waiting' = IF thread'[t].at = "waiting" THEN waiting \cup {t} ELSE waiting \ {t}
    BY <1>10, <1>w DEF Write
  <2>2. /\ index' \in Indices /\ mutex' \in Running \cup {None, "destroyed"}
        /\ printed' \subseteq 0..Newline /\ last' \in 0..Newline
        /\ past' \in BOOLEAN /\ missed' \in BOOLEAN
    BY <1>10, Numbers DEF Write, Typed, Threading
  <2>3. QED
    BY <2>1, <2>2, TypedFrom
<1>11. ASSUME NewLine(t) PROVE Typed'
  <2>1. /\ Moved(t)
        /\ waiting' = IF thread'[t].at = "waiting" THEN waiting \cup {t} ELSE waiting \ {t}
    BY <1>11, <1>w DEF NewLine
  <2>2. /\ index' \in Indices /\ mutex' \in Running \cup {None, "destroyed"}
        /\ printed' \subseteq 0..Newline /\ last' \in 0..Newline
        /\ past' \in BOOLEAN /\ missed' \in BOOLEAN
    BY <1>11, Numbers DEF NewLine, Typed, Put
  <2>3. QED
    BY <2>1, <2>2, TypedFrom
<1>12. ASSUME Reset(t) PROVE Typed'
  <2>1. /\ Moved(t)
        /\ waiting' = IF thread'[t].at = "waiting" THEN waiting \cup {t} ELSE waiting \ {t}
    BY <1>12, <1>w DEF Reset
  <2>2. /\ index' \in Indices /\ mutex' \in Running \cup {None, "destroyed"}
        /\ printed' \subseteq 0..Newline /\ last' \in 0..Newline
        /\ past' \in BOOLEAN /\ missed' \in BOOLEAN
    BY <1>12, Numbers DEF Reset, Typed, Put
  <2>3. QED
    BY <2>1, <2>2, TypedFrom
<1>13. ASSUME Unlock(t) PROVE Typed'
  <2>1. /\ Moved(t)
        /\ waiting' = IF thread'[t].at = "waiting" THEN waiting \cup {t} ELSE waiting \ {t}
    BY <1>13, <1>w DEF Unlock
  <2>2. /\ index' \in Indices /\ mutex' \in Running \cup {None, "destroyed"}
        /\ printed' \subseteq 0..Newline /\ last' \in 0..Newline
        /\ past' \in BOOLEAN /\ missed' \in BOOLEAN
    BY <1>13, Numbers DEF Unlock, Typed, Release
  <2>3. QED
    BY <2>1, <2>2, TypedFrom
<1>14. ASSUME Die(t) PROVE Typed'
  <2>1. /\ Moved(t)
        /\ waiting' = IF thread'[t].at = "waiting" THEN waiting \cup {t} ELSE waiting \ {t}
    BY <1>14, <1>w DEF Die
  <2>2. /\ index' \in Indices /\ mutex' \in Running \cup {None, "destroyed"}
        /\ printed' \subseteq 0..Newline /\ last' \in 0..Newline
        /\ past' \in BOOLEAN /\ missed' \in BOOLEAN
    BY <1>14, Numbers DEF Die, Typed, Release
  <2>3. QED
    BY <2>1, <2>2, TypedFrom
<1>15. ASSUME Signal(t) PROVE Typed'
    BY <1>0, <1>15, TypedSignal
<1>16. QED
    BY <1>1, <1>2, <1>3, <1>4, <1>5, <1>6, <1>7, <1>8, <1>9, <1>10, <1>11, <1>12, <1>13,
       <1>14, <1>15 DEF ThreadStep, SpuriousWakeUp

LEMMA TypeInit == Init => TypeOK
<1> SUFFICES ASSUME Init PROVE TypeOK
    OBVIOUS
<1>1. program \in Programs
    BY DEF Init
<1>2. Top \in {"read", "lock", "test"}
    BY <1>1 DEF Top, Programs
<1>3. thread \in Threading /\ \A t \in Running : thread[t].at = Top
    BY <1>2, Numbers DEF Init, Threading, Places
<1>4. Typed
  <2>1. \A t \in Running : t \in waiting <=> thread[t].at = "waiting"
    BY <1>2, <1>3 DEF Init
  <2>2. printed \subseteq 0..Newline /\ last \in 0..Newline
    BY Numbers DEF Init
  <2>3. QED
    BY <1>3, <2>1, <2>2, Numbers DEF Init, Typed
<1>5. QED
    BY <1>1, <1>4, TypedIsType DEF Init

LEMMA TypeMain == TypeOK /\ MainStep => TypeOK'
<1> SUFFICES ASSUME TypeOK, MainStep PROVE TypeOK'
    OBVIOUS
<1>0. Typed /\ program \in Programs /\ cancelled \subseteq Running
    BY TypedIsType
<1>1. UNCHANGED <<program, index, thread, waiting, screen, past, missed>>
    BY DEF MainStep, CancelThread, DestroyMutex, LeaveMain
<1>2. Running' = Running /\ Newline' = Newline /\ Threading' = Threading
    BY <1>1, Constants
<1>3. mutex' \in Running \cup {None, "destroyed"}
    BY <1>0 DEF MainStep, CancelThread, DestroyMutex, LeaveMain, Typed
<1>4. Typed'
    BY <1>0, <1>1, <1>2, <1>3 DEF Typed, screen
<1>5. cancelled' \subseteq Running /\ main' \in {"sleep", "cancel", "left", "returned"}
    BY <1>0, TypedIsType DEF MainStep, CancelThread, DestroyMutex, LeaveMain
<1>6. QED
    BY <1>0, <1>1, <1>2, <1>4, <1>5 DEF TypeOK, Typed, Threading

LEMMA TypeNext == TypeOK /\ [Next]_vars => TypeOK'
<1> SUFFICES ASSUME TypeOK, [Next]_vars PROVE TypeOK'
    OBVIOUS
<1>0. Typed /\ program \in Programs /\ cancelled \subseteq Running
      /\ main \in {"sleep", "cancel", "left", "returned"}
    BY TypedIsType
<1>1. CASE MainStep
    BY <1>1, TypeMain
<1>2. ASSUME NEW t \in Running, ThreadStep(t) \/ SpuriousWakeUp(t) PROVE TypeOK'
  <2>1. Typed' /\ UNCHANGED <<program, main, cancelled>>
    BY <1>0, <1>2, TypedStep, ThreadStays
  <2>2. Running' = Running /\ Newline' = Newline /\ Threading' = Threading
    BY <2>1, Constants
  <2>3. QED
    BY <1>0, <2>1, <2>2 DEF TypeOK, Typed, Threading
<1>3. CASE UNCHANGED vars
  <2>1. Running' = Running /\ Newline' = Newline
    BY <1>3, Constants DEF vars
  <2>2. QED
    BY <1>3, <2>1 DEF vars, TypeOK
<1>4. QED
    BY <1>1, <1>2, <1>3 DEF Next

(* Type correctness of all three programs: whatever the interleaving and   *)
(* whenever main cancels, a thread is where its loop can be, the index and *)
(* its copies stay indices, and exactly the threads in pthread_cond_wait   *)
(* are the ones a signal can wake.                                         *)
THEOREM TypeCorrect == Spec => []TypeOK
BY TypeInit, TypeNext, PTL DEF Spec
-----------------------------------------------------------------------------
(* What the steps that neither print nor touch the index have in common:   *)
(* whom they move, they move to a place without a symbol to print.         *)
Silent == {"lock", "test", "wait", "waiting", "relock", "dying", "read", "unlock",
           "signal", "dead"}

QuietStep(t) == \/ Lock(t) \/ Test(t) \/ Wait(t) \/ WakeUp(t) \/ Relock(t)
                \/ Unlock(t) \/ Signal(t) \/ Die(t) \/ DieLocked(t)
LoudStep(t)  == \/ Read(t) \/ PrintChar(t) \/ Sleep(t) \/ Write(t) \/ NewLine(t) \/ Reset(t)

LEMMA QuietOrLoud ==
    ASSUME NEW t \in Running, ThreadStep(t) \/ SpuriousWakeUp(t)
    PROVE  QuietStep(t) \/ LoudStep(t)
BY DEF ThreadStep, SpuriousWakeUp, QuietStep, LoudStep

LEMMA QuietMoves ==
    ASSUME thread \in Threading, NEW t \in Running, waiting \subseteq Running, QuietStep(t)
    PROVE  \A u \in Running : thread'[u] = thread[u] \/ thread'[u].at \in Silent
<1> DEFINE Moves1(place) == \A u \in Running :
                         thread'[u] = thread[u] \/ (u = t /\ thread'[u].at = place)
<1>1. ASSUME NEW place \in Places, Goto(t, place) \/ Leave(t, place)
      PROVE  Moves1(place)
    BY <1>1, Moves, Leaves
<1>2. ASSUME NEW place \in Silent, Goto(t, place) \/ Leave(t, place)
      PROVE  \A u \in Running : thread'[u] = thread[u] \/ thread'[u].at \in Silent
    BY <1>1, <1>2, PlacesThere DEF Silent
<1>3. CASE Lock(t) \/ Test(t) \/ WakeUp(t) \/ Relock(t)
    BY <1>2, <1>3 DEF Lock, Test, WakeUp, Relock, Silent
<1>4. CASE Wait(t) \/ Unlock(t) \/ Die(t) \/ DieLocked(t)
    BY <1>2, <1>4 DEF Wait, Unlock, Die, DieLocked, Silent
<1>5. CASE Signal(t)
  <2>1. CASE Goto(t, "test")
    BY <1>2, <2>1 DEF Silent
  <2>2. CASE ~Goto(t, "test")
    <3>1. PICK u \in waiting :
              thread' = [thread EXCEPT ![t].at = "test", ![u].at = "relock"]
      BY <1>5, <2>2 DEF Signal
    <3>2. u \in Running
      OBVIOUS
    <3>3. \A v \in Running \ {t, u} : thread'[v] = thread[v]
      BY <3>1, <3>2 DEF Threading
    <3>4. thread'[u].at = "relock"
      BY <3>1, <3>2 DEF Threading
    <3>5. u # t => thread'[t].at = "test"
      BY <3>1, <3>2 DEF Threading
    <3>6. QED
      BY <3>3, <3>4, <3>5 DEF Silent
  <2>3. QED
    BY <2>1, <2>2
<1>6. QED
    BY <1>3, <1>4, <1>5 DEF QuietStep

LEMMA QuietScreen ==
    ASSUME NEW t \in Running, QuietStep(t)
    PROVE  UNCHANGED <<program, index, main, cancelled, printed, last, past>>
BY DEF QuietStep, Lock, Test, Wait, WakeUp, Relock, Unlock, Signal, Die, DieLocked, screen
-----------------------------------------------------------------------------
(* NoneSkipped rests on what a thread has seen printed when it reaches the *)
(* write of the next index: everything up to its copy, this one included.  *)
Shown(n) == \A s \in 0..LastChar : s < n => s \in printed
Ahead(t) ==
    /\ thread[t].at = "print" => Shown(thread[t].tmp)
    /\ thread[t].at \in {"sleep", "write"} => Shown(thread[t].tmp + 1)
    /\ thread[t].at = "newline" => Shown(Newline)
ShownInv == Shown(index) /\ NoneSkipped /\ \A t \in Running : Ahead(t)

LEMMA ShownStays ==
    ASSUME program' = program, printed \subseteq printed', NEW n, Shown(n)
    PROVE  Shown(n)'
BY Constants DEF Shown

(* It is enough to look at the thread that moves, unless it moves into     *)
(* silence.                                                                *)
LEMMA ShownFrom ==
    ASSUME ShownInv, program' = program, printed \subseteq printed',
           \A u \in Running : thread'[u] = thread[u] \/ thread'[u].at \in Silent \/ Ahead(u)',
           Shown(index)', NoneSkipped'
    PROVE  ShownInv'
<1>1. Running' = Running /\ Newline' = Newline
    BY Constants
<1>2. ASSUME NEW u \in Running PROVE Ahead(u)'
  <2>1. CASE thread'[u] = thread[u]
    BY <1>1, <2>1, ShownStays DEF ShownInv, Ahead
  <2>2. CASE thread'[u].at \in Silent
    BY <2>2 DEF Ahead, Silent
  <2>3. QED
    BY <2>1, <2>2
<1>3. QED
    BY <1>1, <1>2 DEF ShownInv

LEMMA ShownQuiet ==
    ASSUME TypeOK, ShownInv, NEW t \in Running, QuietStep(t)
    PROVE  ShownInv'
<1>1. UNCHANGED <<program, index, printed>>
    BY QuietScreen
<1>2. \A u \in Running : thread'[u] = thread[u] \/ thread'[u].at \in Silent
    BY TypedIsType, QuietMoves DEF Typed
<1>3. Shown(index)' /\ NoneSkipped'
    BY <1>1, ShownStays DEF ShownInv, NoneSkipped
<1>4. QED
    BY <1>1, <1>2, <1>3, ShownFrom

LEMMA ShownLoud ==
    ASSUME TypeOK, ShownInv, NEW t \in Running, LoudStep(t)
    PROVE  ShownInv'
<1>0. /\ thread \in Threading /\ index \in Nat /\ thread[t].tmp \in Nat
      /\ program' = program /\ Ahead(t) /\ Shown(index) /\ NoneSkipped
    BY Numbers, TypedIsType DEF Typed, Threading, LoudStep, Read, PrintChar, Sleep, Write,
       NewLine, Reset, ShownInv
<1>1. CASE Read(t)
  <2>1. /\ thread'[t].at = "print" /\ thread'[t].tmp = index
        /\ \A u \in Running \ {t} : thread'[u] = thread[u]
    BY <1>0, <1>1, Reads, TypedIsType DEF Read, Typed
  <2>2. index' = index /\ printed' = printed
    BY <1>1 DEF Read, screen
  <2>3. Shown(index)' /\ NoneSkipped'
    BY <1>0, <2>2, ShownStays DEF NoneSkipped
  <2>4. Ahead(t)'
    BY <2>1, <2>2, <2>3 DEF Ahead, Shown
  <2>5. QED
    BY <1>0, <2>1, <2>2, <2>3, <2>4, ShownFrom
<1>2. CASE PrintChar(t) /\ thread[t].tmp <= LastChar
  <2>1. /\ thread'[t].at = "sleep" /\ thread'[t].tmp = thread[t].tmp
        /\ \A u \in Running \ {t} : thread'[u] = thread[u]
    BY <1>0, <1>2, Moves, PlacesThere, Numbers DEF PrintChar
  <2>2. index' = index /\ printed' = printed \cup {thread[t].tmp}
    BY <1>0, <1>2, Numbers DEF PrintChar, Put
  <2>3. Shown(thread[t].tmp)
    BY <1>0, <1>2 DEF PrintChar, Ahead
  <2>4. Shown(index)'
    BY <1>0, <2>2, ShownStays
  <2>5. Ahead(t)'
    BY <1>0, <1>2, <2>1, <2>2, <2>3, Constants, Numbers DEF Ahead, Shown
  <2>6. NoneSkipped'
    BY <1>0, <1>2, <2>2, <2>3, Numbers DEF NoneSkipped, Shown
  <2>7. QED
    BY <1>0, <2>1, <2>2, <2>4, <2>5, <2>6, ShownFrom
<1>3. CASE PrintChar(t) /\ ~(thread[t].tmp <= LastChar)
  <2>1. /\ thread'[t].at = "write" /\ thread'[t].tmp = thread[t].tmp
        /\ \A u \in Running \ {t} : thread'[u] = thread[u]
    BY <1>0, <1>3, Moves, PlacesThere, Numbers DEF PrintChar
  <2>2. index' = index /\ printed' = printed
    BY <1>0, <1>3, Numbers DEF PrintChar, screen
  <2>3. Shown(thread[t].tmp)
    BY <1>0, <1>3 DEF PrintChar, Ahead
  <2>4. Shown(index)' /\ NoneSkipped'
    BY <1>0, <2>2, ShownStays DEF NoneSkipped
  <2>5. Ahead(t)'
    BY <1>0, <1>3, <2>1, <2>2, <2>3, Constants, Numbers DEF Ahead, Shown
  <2>6. QED
    BY <1>0, <2>1, <2>2, <2>4, <2>5, ShownFrom
<1>4. CASE Sleep(t)
  <2>1. /\ thread'[t].at = "write" /\ thread'[t].tmp = thread[t].tmp
        /\ \A u \in Running \ {t} : thread'[u] = thread[u]
    BY <1>0, <1>4, Moves, PlacesThere DEF Sleep
  <2>2. index' = index /\ printed' = printed
    BY <1>4 DEF Sleep, screen
  <2>3. Shown(index)' /\ NoneSkipped'
    BY <1>0, <2>2, ShownStays DEF NoneSkipped
  <2>4. Shown(thread[t].tmp + 1)'
    BY <1>0, <1>4, <2>1, <2>2, ShownStays DEF Sleep, Ahead, Shown
  <2>5. Ahead(t)'
    BY <2>1, <2>4 DEF Ahead, Shown
  <2>6. QED
    BY <1>0, <2>1, <2>2, <2>3, <2>5, ShownFrom
<1>5. CASE Write(t)
  <2>1. index' = Up(thread[t].tmp) /\ printed' = printed
    BY <1>5 DEF Write, screen
  <2>2. Shown(thread[t].tmp + 1)
    BY <1>0, <1>5 DEF Write, Ahead
  <2>3. Shown(index)' /\ NoneSkipped'
    BY <1>0, <2>1, <2>2, Constants, Numbers, PrintersAssumption
       DEF NoneSkipped, Shown, Up, Largest, PrintersAssumption
  <2>4. /\ \/ thread'[t].at \in Silent
           \/ thread'[t].at = "newline" /\ thread[t].tmp + 1 > Size
        /\ \A u \in Running \ {t} : thread'[u] = thread[u]
    BY <1>0, <1>5, Leaves, PlacesThere DEF Write, Silent
  <2>5. thread'[t].at \in Silent \/ Ahead(t)'
    BY <1>0, <2>1, <2>2, <2>4, Constants, Numbers, PrintersAssumption
       DEF Ahead, Shown, PrintersAssumption
  <2>6. QED
    BY <1>0, <2>1, <2>3, <2>4, <2>5, ShownFrom
<1>6. CASE NewLine(t)
  <2>1. /\ thread'[t].at = "reset"
        /\ \A u \in Running \ {t} : thread'[u] = thread[u]
    BY <1>0, <1>6, Moves, PlacesThere DEF NewLine
  <2>2. index' = index /\ printed' = printed \cup {Newline}
    BY <1>6 DEF NewLine, Put
  <2>3. Shown(Newline)
    BY <1>0, <1>6 DEF NewLine, Ahead
  <2>4. Shown(index)' /\ NoneSkipped'
    BY <1>0, <2>2, <2>3, ShownStays, Constants, Numbers DEF NoneSkipped, Shown, Newline
  <2>5. Ahead(t)'
    BY <2>1 DEF Ahead
  <2>6. QED
    BY <1>0, <2>1, <2>2, <2>4, <2>5, ShownFrom
<1>7. CASE Reset(t)
  <2>1. /\ thread'[t].at \in Silent
        /\ \A u \in Running \ {t} : thread'[u] = thread[u]
    BY <1>0, <1>7, Moves, PlacesThere DEF Reset, Silent
  <2>2. index' = 0 /\ printed' = printed
    BY <1>7 DEF Reset, screen
  <2>3. Shown(index)' /\ NoneSkipped'
    BY <1>0, <2>2, Constants, Numbers DEF NoneSkipped, Shown
  <2>4. QED
    BY <1>0, <2>1, <2>2, <2>3, ShownFrom
<1>8. QED
    BY <1>1, <1>2, <1>3, <1>4, <1>5, <1>6, <1>7 DEF LoudStep

LEMMA ShownInit == Init => ShownInv
<1> SUFFICES ASSUME Init PROVE ShownInv
    OBVIOUS
<1>1. \A t \in Running : thread[t].at \in Silent
    BY DEF Init, Top, Programs, Silent
<1>2. QED
    BY <1>1, Numbers DEF Init, ShownInv, Shown, NoneSkipped, Ahead, Silent

LEMMA ShownNext == TypeOK /\ ShownInv /\ [Next]_vars => ShownInv'
<1> SUFFICES ASSUME TypeOK, ShownInv, [Next]_vars PROVE ShownInv'
    OBVIOUS
<1>1. CASE MainStep \/ UNCHANGED vars
  <2>1. UNCHANGED <<program, index, thread, printed>>
    BY <1>1 DEF MainStep, CancelThread, DestroyMutex, LeaveMain, vars, screen
  <2>2. QED
    BY <2>1, ShownFrom, ShownStays DEF ShownInv, NoneSkipped
<1>2. ASSUME NEW t \in Running, ThreadStep(t) \/ SpuriousWakeUp(t) PROVE ShownInv'
    BY <1>2, QuietOrLoud, ShownQuiet, ShownLoud
<1>3. QED
    BY <1>1, <1>2 DEF Next

(* No thread of the three programs, locked or not, shows a character of    *)
(* the string that has one before it nobody has shown yet.                 *)
THEOREM NothingIsSkipped == Spec => []NoneSkipped
<1>1. Spec => [](TypeOK /\ ShownInv)
    BY TypeInit, TypeNext, ShownInit, ShownNext, PTL DEF Spec
<1>2. ShownInv => NoneSkipped
    BY DEF ShownInv
<1>3. QED
    BY <1>1, <1>2, PTL
-----------------------------------------------------------------------------
(* StuckMeansMissed: as long as no signal has been missed, a thread of     *)
(* ex4-2.c that waits for its turn although it has come is owed a signal,  *)
(* by the other thread, or the other one is dead.                          *)
Other(t) == IF t = "A" THEN "B" ELSE "A"
Owing    == {"newline", "reset", "unlock", "signal", "dead"}
Idle     == {"wait", "waiting"}
Owed(t)  == thread[t].at \in Idle /\ Turn(t) => thread[Other(t)].at \in Owing

(* Only the threads of ex4-2.c wait. *)
WaitsIn  == {"test", "wait", "waiting", "relock", "dying", "signal"}
OwedInv ==
    /\ program # "ex4-2" => \A t \in Running : thread[t].at \notin WaitsIn
    /\ program = "ex4-2" /\ ~ missed => Owed("A") /\ Owed("B")

LEMMA TurnsDiffer ==
    ASSUME index \in Nat
    PROVE  Turn("A") <=> ~ Turn("B")
<1>1. index % 2 \in {0, 1}
    OBVIOUS
<1>2. QED
    BY <1>1 DEF Turn

LEMMA OwedInit == Init => OwedInv
<1> SUFFICES ASSUME Init PROVE OwedInv
    OBVIOUS
<1>1. program # "ex4-2" => Top \notin WaitsIn
    BY DEF Init, Top, Programs, WaitsIn
<1>2. Top \notin Idle
    BY DEF Init, Top, Programs, Idle
<1>3. \A t \in Running : thread[t].at = Top
    BY DEF Init
<1>4. program = "ex4-2" => {"A", "B"} \subseteq Running
    BY DEF Running
<1>5. QED
    BY <1>1, <1>2, <1>3, <1>4 DEF OwedInv, Owed

LEMMA NoWaitOutside ==
    ASSUME TypeOK, OwedInv, program # "ex4-2", NEW t \in Running,
           ThreadStep(t) \/ SpuriousWakeUp(t)
    PROVE  \A u \in Running : thread'[u].at \notin WaitsIn
<1>1. /\ thread \in Threading /\ waiting = {}
      /\ \A u \in Running : thread[u].at \notin WaitsIn
    BY TypedIsType DEF OwedInv, Typed, WaitsIn
<1>2. \E place \in Places \ WaitsIn : Goto(t, place) \/ Leave(t, place)
                                     \/ thread' = [thread EXCEPT ![t] = [at |-> "print", tmp |-> index]]
    BY <1>1, PlacesThere DEF ThreadStep, SpuriousWakeUp, Lock, Test, Wait, WakeUp, Relock,
       Read, PrintChar, Sleep, Write, NewLine, Reset, Unlock, Signal, Die, DieLocked, WaitsIn
<1>3. index \in Indices
    BY TypedIsType DEF Typed
<1>4. thread'[t].at \notin WaitsIn /\ \A u \in Running \ {t} : thread'[u] = thread[u]
    BY <1>1, <1>2, <1>3, Moves, Leaves, Reads DEF WaitsIn
<1>5. QED
    BY <1>1, <1>4

(* A step that moves only its own thread.                                  *)
LEMMA OwedAlone ==
    ASSUME TypeOK, OwedInv, program = "ex4-2", ~ missed, NEW t \in Running,
           Moved(t), program' = program,
           Owed(t)',
           \/ index' = index /\ (thread[t].at \in Owing => thread'[t].at \in Owing)
           \/ thread'[t].at \in Owing
    PROVE  Owed("A")' /\ Owed("B")'
<1>1. Running = {"A", "B"}
    BY DEF Running
<1>2. t \in {"A", "B"} /\ Other(t) \in {"A", "B"} /\ Other(t) # t /\ Other(Other(t)) = t
    BY <1>1 DEF Other
<1>3. Owed(Other(t)) /\ thread'[Other(t)] = thread[Other(t)]
    BY <1>1, <1>2 DEF OwedInv, Moved
<1>4. Owed(Other(t))'
  <2>1. CASE thread'[t].at \in Owing
    BY <1>2, <2>1 DEF Owed
  <2>2. CASE index' = index /\ (thread[t].at \in Owing => thread'[t].at \in Owing)
    BY <1>2, <1>3, <2>2 DEF Owed, Turn
  <2>3. QED
    BY <2>1, <2>2
<1>5. (t = "A" /\ Other(t) = "B") \/ (t = "B" /\ Other(t) = "A")
    BY <1>2 DEF Other
<1>6. QED
    BY <1>4, <1>5

LEMMA OwedStep ==
    ASSUME TypeOK, OwedInv, program = "ex4-2", ~ missed', NEW t \in Running,
           ThreadStep(t) \/ SpuriousWakeUp(t)
    PROVE  Owed("A")' /\ Owed("B")'
<1>0. /\ thread \in Threading /\ index \in Indices /\ program' = program
      /\ ~ missed /\ Running = {"A", "B"}
    BY TypedIsType, ThreadStays DEF Typed, ThreadStep, SpuriousWakeUp, Lock, Test, Wait,
       WakeUp, Relock, Read, PrintChar, Sleep, Write, NewLine, Reset, Unlock, Signal, Die,
       DieLocked, Running
<1>1. CASE Lock(t) \/ Relock(t) \/ Sleep(t)
  <2>1. index' = index /\ \E place \in {"read", "test", "write"} : Goto(t, place)
    BY <1>1 DEF Lock, Relock, Sleep
  <2>2. Moved(t) /\ thread'[t].at \in {"read", "test", "write"}
    BY <1>0, <2>1, Moves, PlacesThere DEF Moved
  <2>3. thread[t].at \notin Owing
    BY <1>1 DEF Lock, Relock, Sleep, Owing
  <2>4. QED
    BY <1>0, <2>1, <2>2, <2>3, OwedAlone DEF Owed, Idle
<1>2. CASE Test(t)
  <2>1. index' = index /\ Goto(t, IF Turn(t) THEN "read" ELSE "wait")
    BY <1>2 DEF Test
  <2>2. Moved(t) /\ thread'[t].at = IF Turn(t) THEN "read" ELSE "wait"
    BY <1>0, <2>1, Moves, PlacesThere DEF Moved
  <2>3. thread[t].at \notin Owing
    BY <1>2 DEF Test, Owing
  <2>4. Owed(t)'
    BY <2>1, <2>2 DEF Owed, Idle, Turn
  <2>5. QED
    BY <1>0, <2>1, <2>2, <2>3, <2>4, OwedAlone
<1>3. CASE Wait(t)
  <2>1. index' = index /\ thread[t].at = "wait" /\ (Goto(t, "waiting") \/ Goto(t, "test"))
    BY <1>3 DEF Wait
  <2>2. Moved(t) /\ thread'[t].at \in {"waiting", "test"}
    BY <1>0, <2>1, Moves, PlacesThere DEF Moved
  <2>3. Other(t) \in Running /\ Other(t) # t
    BY <1>0 DEF Other
  <2>4. Owed(t)
    BY <1>0 DEF OwedInv
  <2>5. Owed(t)'
    BY <2>1, <2>2, <2>3, <2>4 DEF Owed, Idle, Turn, Moved
  <2>6. QED
    BY <1>0, <2>1, <2>2, <2>5, OwedAlone DEF Owing
<1>4. CASE WakeUp(t) \/ DieLocked(t)
  <2>1. /\ index' = index /\ thread[t].at \notin Owing
        /\ \E place \in {"relock", "dead"} : Goto(t, place)
    BY <1>4 DEF WakeUp, DieLocked, Owing
  <2>2. Moved(t) /\ thread'[t].at \in {"relock", "dead"}
    BY <1>0, <2>1, Moves, PlacesThere DEF Moved
  <2>3. QED
    BY <1>0, <2>1, <2>2, OwedAlone DEF Owed, Idle
<1>5. CASE Read(t)
  <2>1. index' = index /\ thread[t].at \notin Owing
    BY <1>5 DEF Read, Owing
  <2>2. Moved(t) /\ thread'[t].at = "print"
    BY <1>0, <1>5, Reads DEF Moved, Read
  <2>3. QED
    BY <1>0, <2>1, <2>2, OwedAlone DEF Owed, Idle
<1>6. CASE PrintChar(t)
  <2>1. /\ index' = index /\ thread[t].at \notin Owing
        /\ \E place \in {"sleep", "write"} : Goto(t, place)
    BY <1>6 DEF PrintChar, Owing
  <2>2. Moved(t) /\ thread'[t].at \in {"sleep", "write"}
    BY <1>0, <2>1, Moves, PlacesThere DEF Moved
  <2>3. QED
    BY <1>0, <2>1, <2>2, OwedAlone DEF Owed, Idle
<1>7. CASE Write(t) \/ NewLine(t) \/ Reset(t) \/ Unlock(t)
  <2>1. \E place \in {"newline", "reset", "unlock", "signal"} : Goto(t, place) \/ Leave(t, place)
    BY <1>0, <1>7 DEF Write, NewLine, Reset, Unlock, Bottom
  <2>2. Moved(t) /\ thread'[t].at \in Owing /\ thread'[t].at \notin Idle
    BY <1>0, <2>1, Moves, Leaves, PlacesThere DEF Moved, Owing, Idle
  <2>3. QED
    BY <1>0, <2>2, OwedAlone DEF Owed
<1>8. CASE Die(t)
  <2>1. /\ index' = index
        /\ \/ Leave(t, "dead")
           \/ Goto(t, "dying") /\ thread[t].at \notin Owing
    BY <1>8 DEF Die, Owing
  <2>2. Moved(t) /\ thread'[t].at \in {"dead", "dying"}
    BY <1>0, <2>1, Moves, Leaves, PlacesThere DEF Moved
  <2>3. thread[t].at \in Owing => thread'[t].at \in Owing
    BY <1>0, <2>1, Leaves, PlacesThere DEF Owing
  <2>4. QED
    BY <1>0, <2>1, <2>2, <2>3, OwedAlone DEF Owed, Idle
<1>9. CASE Signal(t)
  <2>0. index' = index
    BY <1>9 DEF Signal
  <2>1. CASE waiting = {}
    <3>1. Goto(t, "test") /\ \A u \in Running : thread[u].at # "wait"
      BY <1>0, <1>9, <2>1 DEF Signal
    <3>2. \A u \in Running : thread[u].at \notin Idle
      BY <2>1, <3>1, TypedIsType DEF Typed, Idle
    <3>3. thread'[t].at = "test" /\ \A u \in Running \ {t} : thread'[u] = thread[u]
      BY <1>0, <3>1, Moves, PlacesThere
    <3>4. \A u \in Running : thread'[u].at \notin Idle
      BY <3>2, <3>3 DEF Idle
    <3>5. QED
      BY <1>0, <3>4 DEF Owed
  <2>2. CASE waiting # {}
    <3>1. PICK u \in waiting :
              thread' = [thread EXCEPT ![t].at = "test", ![u].at = "relock"]
      BY <1>9, <2>2 DEF Signal
    <3>2. u \in Running /\ thread[u].at = "waiting" /\ u # t
      BY <1>9, TypedIsType DEF Typed, Signal
    <3>w. thread'[t].at = "test" /\ thread'[u].at = "relock"
      BY <1>0, <3>1, <3>2, Wakes
    <3>3. Running = {t, u}
      BY <1>0, <3>2
    <3>4. \A v \in Running : thread'[v].at \notin Idle
      BY <3>3, <3>w DEF Idle
    <3>5. QED
      BY <1>0, <3>4 DEF Owed
  <2>3. QED
    BY <2>1, <2>2
<1>10. QED
    BY <1>1, <1>2, <1>3, <1>4, <1>5, <1>6, <1>7, <1>8, <1>9 DEF ThreadStep, SpuriousWakeUp

LEMMA OwedNext == TypeOK /\ OwedInv /\ [Next]_vars => OwedInv'
<1> SUFFICES ASSUME TypeOK, OwedInv, [Next]_vars PROVE OwedInv'
    OBVIOUS
<1>1. CASE MainStep \/ UNCHANGED vars
  <2>1. UNCHANGED <<program, index, thread, missed>>
    BY <1>1 DEF MainStep, CancelThread, DestroyMutex, LeaveMain, vars
  <2>2. QED
    BY <2>1, Constants DEF OwedInv, Owed, Turn
<1>2. ASSUME NEW t \in Running, ThreadStep(t) \/ SpuriousWakeUp(t) PROVE OwedInv'
  <2>1. program' = program /\ Running' = Running
    BY <1>2, ThreadStays, Constants
  <2>2. QED
    BY <1>2, <2>1, NoWaitOutside, OwedStep DEF OwedInv
<1>3. QED
    BY <1>1, <1>2 DEF Next

(* A and B of ex4-2.c never both wait unless a signal fell between the     *)
(* unlocked test of the index and pthread_cond_wait.                       *)
THEOREM StuckOnlyByMissedSignal == Spec => []StuckMeansMissed
<1>1. Spec => [](TypeOK /\ OwedInv)
    BY TypeInit, TypeNext, OwedInit, OwedNext, PTL DEF Spec
<1>2. TypeOK /\ OwedInv => StuckMeansMissed
  <2> SUFFICES ASSUME TypeOK, OwedInv, waiting = {"A", "B"}, ~ missed PROVE FALSE
      BY DEF StuckMeansMissed
  <2>1. /\ "A" \in Running /\ thread["A"].at = "waiting"
        /\ "B" \in Running /\ thread["B"].at = "waiting"
    BY TypedIsType DEF Typed
  <2>2. program = "ex4-2"
    BY <2>1 DEF OwedInv, WaitsIn
  <2>3. Turn("A") \/ Turn("B")
    BY TurnsDiffer, TypedIsType, Numbers DEF Typed
  <2>4. QED
    BY <2>1, <2>2, <2>3 DEF OwedInv, Owed, Other, Idle, Owing
<1>3. QED
    BY <1>1, <1>2, PTL
-----------------------------------------------------------------------------
(* InOrder for ex4-1b.c: only the owner of the mutex is inside the body,   *)
(* and knows what comes next on the screen; a free mutex says that it is   *)
(* the symbol at the index.                                                *)
Inside == {"read", "print", "sleep", "write", "newline", "reset", "unlock"}

Script(t) ==
    /\ thread[t].at = "read"  => Follows(last) = index
    /\ thread[t].at = "print" => thread[t].tmp = index /\ Follows(last) = index
    /\ thread[t].at = "sleep" => thread[t].tmp <= LastChar /\ last = thread[t].tmp
    /\ thread[t].at = "write" => \/ thread[t].tmp <= LastChar /\ last = thread[t].tmp
                                 \/ thread[t].tmp = Size /\ Follows(last) = Newline
    /\ thread[t].at = "newline" => Follows(last) = Newline
    /\ thread[t].at = "reset"  => last = Newline
    /\ thread[t].at = "unlock" => Follows(last) = index

Locking == program = "ex4-1b" /\ mutex # "destroyed"
LockedInv ==
    Locking => /\ mutex = None => Follows(last) = index
               /\ \A t \in Running : thread[t].at \in Inside => mutex = t /\ Script(t)

Ordered == screen' = screen \/ last' = Follows(last)

LEMMA MutexNames == program = "ex4-1b" => None \notin Running /\ "destroyed" \notin Running
BY PrintersAssumption DEF PrintersAssumption, Running

LEMMA Symbols ==
    ASSUME program = "ex4-1b"
    PROVE  /\ LastChar = Size - 1 /\ Newline = Size /\ Size \in Nat /\ Size > 2
           /\ \A s : Follows(s) = IF s = Size THEN 0 ELSE s + 1
           /\ \A n \in 0..Size : Up(n) = n + 1
BY PrintersAssumption DEF PrintersAssumption, LastChar, Newline, Follows, Up, Largest

LEMMA FollowsStays == ASSUME program' = program, NEW s PROVE Follows(s)' = Follows(s')
BY Constants DEF Follows

LEMMA LockedInit == Init => LockedInv
<1> SUFFICES ASSUME Init, Locking PROVE LockedInv
    BY DEF LockedInv
<1>1. \A t \in Running : thread[t].at \notin Inside
    BY DEF Init, Top, Programs, Locking, Inside
<1>2. Follows(last) = index
    BY DEF Init, Follows
<1>3. QED
    BY <1>1, <1>2 DEF LockedInv

(* A step of a thread that is inside, or enters.                           *)
LEMMA LockedFrom ==
    ASSUME TypeOK, LockedInv, Locking, NEW t \in Running, program' = program, Moved(t),
           mutex \in {None, t}, mutex' \in {None, t},
           mutex' = None => Follows(last)' = index' /\ thread'[t].at \notin Inside,
           thread'[t].at \in Inside => Script(t)'
    PROVE  LockedInv'
<1>1. None \notin Running /\ "destroyed" \notin Running /\ Running' = Running
    BY MutexNames, Constants DEF Locking
<1>2. \A u \in Running \ {t} : thread'[u].at \notin Inside
    BY <1>1 DEF LockedInv, Moved
<1>3. QED
    BY <1>1, <1>2 DEF LockedInv

LEMMA LockedStep ==
    ASSUME TypeOK, OwedInv, LockedInv, Locking, NEW t \in Running,
           ThreadStep(t) \/ SpuriousWakeUp(t)
    PROVE  LockedInv' /\ Ordered
<1>0. /\ thread \in Threading /\ index \in Indices /\ program' = program
      /\ program = "ex4-1b" /\ mutex # "destroyed" /\ thread[t].tmp \in Nat
      /\ last \in 0..Newline /\ thread[t].at \notin WaitsIn
    BY TypedIsType, ThreadStays, Numbers DEF Typed, Locking, Threading, OwedInv
<1>a. /\ LastChar = Size - 1 /\ Newline = Size /\ Size \in Nat /\ Size > 2
      /\ \A s : Follows(s) = IF s = Size THEN 0 ELSE s + 1
      /\ \A n \in 0..Size : Up(n) = n + 1
      /\ LastChar' = LastChar /\ Newline' = Newline
      /\ Follows(last)' = Follows(last')
    BY <1>0, Symbols, Constants, FollowsStays
<1>b. thread[t].at \in Inside => mutex = t /\ Script(t)
    BY DEF LockedInv
<1>c. \/ Lock(t) \/ Read(t) \/ PrintChar(t) \/ Sleep(t) \/ Write(t) \/ NewLine(t)
      \/ Reset(t) \/ Unlock(t) \/ Die(t)
    BY <1>0 DEF ThreadStep, SpuriousWakeUp, Test, Wait, WakeUp, Relock, Signal, DieLocked, WaitsIn
<1>1. CASE Lock(t)
  <2>1. /\ mutex = None /\ mutex' = t /\ index' = index /\ screen' = screen
        /\ Moved(t) /\ thread'[t].at = "read" /\ Follows(last) = index
    BY <1>0, <1>1, Moves, PlacesThere DEF Lock, Acquire, Moved, LockedInv, Locking
  <2>2. Script(t)'
    BY <1>a, <2>1 DEF Script, screen
  <2>3. QED
    BY <1>0, <2>1, <2>2, LockedFrom, MutexNames DEF Ordered
<1>2. CASE Read(t)
  <2>1. /\ mutex = t /\ mutex' = t /\ index' = index /\ screen' = screen
        /\ Follows(last) = index
    BY <1>2, <1>b DEF Read, Inside, Script
  <2>2. Moved(t) /\ thread'[t].at = "print" /\ thread'[t].tmp = index
    BY <1>0, <1>2, Reads DEF Read, Moved
  <2>3. Script(t)'
    BY <1>a, <2>1, <2>2 DEF Script, screen
  <2>4. QED
    BY <1>0, <2>1, <2>2, <2>3, LockedFrom, MutexNames DEF Ordered
<1>3. CASE PrintChar(t)
  <2>1. /\ mutex = t /\ mutex' = t /\ thread[t].tmp = index /\ Follows(last) = index
    BY <1>3, <1>b DEF PrintChar, Inside, Script
  <2>2. index \in 0..Size
    BY <1>0, <1>a, <2>1
  <2>3. CASE thread[t].tmp <= LastChar
    <3>1. last' = index /\ Goto(t, "sleep")
      BY <1>0, <1>3, <1>a, <2>1, <2>3 DEF PrintChar, Put
    <3>2. Moved(t) /\ thread'[t].at = "sleep" /\ thread'[t].tmp = index
      BY <1>0, <2>1, <3>1, Moves, PlacesThere DEF Moved
    <3>3. Script(t)'
      BY <1>a, <2>1, <2>3, <3>1, <3>2 DEF Script
    <3>4. QED
      BY <1>0, <2>1, <3>1, <3>2, <3>3, LockedFrom, MutexNames DEF Ordered
  <2>4. CASE ~ (thread[t].tmp <= LastChar)
    <3>1. screen' = screen /\ Goto(t, "write") /\ index = Size
      BY <1>0, <1>3, <1>a, <2>1, <2>2, <2>4 DEF PrintChar
    <3>2. Moved(t) /\ thread'[t].at = "write" /\ thread'[t].tmp = Size
      BY <1>0, <2>1, <3>1, Moves, PlacesThere DEF Moved
    <3>3. Script(t)'
      BY <1>a, <2>1, <3>1, <3>2 DEF Script, screen
    <3>4. QED
      BY <1>0, <2>1, <3>1, <3>2, <3>3, LockedFrom, MutexNames DEF Ordered
  <2>5. QED
    BY <2>3, <2>4
<1>4. CASE Sleep(t)
  <2>1. /\ mutex = t /\ mutex' = t /\ screen' = screen
        /\ thread[t].tmp <= LastChar /\ last = thread[t].tmp
    BY <1>4, <1>b DEF Sleep, Inside, Script
  <2>2. Moved(t) /\ thread'[t].at = "write" /\ thread'[t].tmp = thread[t].tmp
    BY <1>0, <1>4, Moves, PlacesThere DEF Moved, Sleep
  <2>3. Script(t)'
    BY <1>a, <2>1, <2>2 DEF Script, screen
  <2>4. QED
    BY <1>0, <2>1, <2>2, <2>3, LockedFrom, MutexNames DEF Ordered
<1>5. CASE Write(t)
  <2>1. /\ mutex = t /\ mutex' = t /\ screen' = screen
        /\ index' = Up(thread[t].tmp) /\ Script(t)
    BY <1>5, <1>b DEF Write, Inside
  <2>2. CASE thread[t].tmp <= LastChar /\ last = thread[t].tmp
    <3>1. Leave(t, "unlock")
      BY <1>0, <1>5, <1>a, <2>2 DEF Write, Bottom
    <3>2. Moved(t) /\ thread'[t].at = "unlock"
      BY <1>0, <3>1, Leaves, PlacesThere DEF Moved
    <3>3. Follows(last) = index'
      BY <1>0, <1>a, <2>1, <2>2
    <3>4. Script(t)'
      BY <1>a, <2>1, <3>2, <3>3 DEF Script, screen
    <3>5. QED
      BY <1>0, <2>1, <3>2, <3>4, LockedFrom, MutexNames DEF Ordered
  <2>3. CASE thread[t].tmp = Size /\ Follows(last) = Newline
    <3>1. Leave(t, "newline")
      BY <1>0, <1>5, <1>a, <2>3 DEF Write
    <3>2. Moved(t) /\ thread'[t].at = "newline"
      BY <1>0, <3>1, Leaves, PlacesThere DEF Moved
    <3>3. Script(t)'
      BY <1>a, <2>1, <2>3, <3>2 DEF Script, screen
    <3>4. QED
      BY <1>0, <2>1, <3>2, <3>3, LockedFrom, MutexNames DEF Ordered
  <2>4. QED
    BY <1>5, <2>1, <2>2, <2>3 DEF Script, Write
<1>6. CASE NewLine(t)
  <2>1. /\ mutex = t /\ mutex' = t /\ last' = Newline /\ Follows(last) = Newline
    BY <1>6, <1>b DEF NewLine, Put, Inside, Script
  <2>2. Moved(t) /\ thread'[t].at = "reset"
    BY <1>0, <1>6, Moves, PlacesThere DEF Moved, NewLine
  <2>3. Script(t)'
    BY <1>a, <2>1, <2>2 DEF Script
  <2>4. QED
    BY <1>0, <2>1, <2>2, <2>3, LockedFrom, MutexNames DEF Ordered
<1>7. CASE Reset(t)
  <2>1. /\ mutex = t /\ mutex' = t /\ screen' = screen /\ index' = 0 /\ last = Newline
    BY <1>7, <1>b DEF Reset, Inside, Script
  <2>2. Moved(t) /\ thread'[t].at = "unlock"
    BY <1>0, <1>7, Moves, PlacesThere DEF Moved, Reset, Bottom
  <2>3. Script(t)'
    BY <1>a, <2>1, <2>2 DEF Script, screen
  <2>4. QED
    BY <1>0, <2>1, <2>2, <2>3, LockedFrom, MutexNames DEF Ordered
<1>8. CASE Unlock(t)
  <2>1. /\ mutex = t /\ mutex' = None /\ screen' = screen /\ index' = index
        /\ Follows(last) = index
    BY <1>0, <1>8, <1>b DEF Unlock, Release, Inside, Script
  <2>2. Moved(t) /\ thread'[t].at = "lock"
    BY <1>0, <1>8, Moves, PlacesThere DEF Moved, Unlock
  <2>3. thread'[t].at \notin Inside /\ Follows(last)' = index'
    BY <1>a, <2>1, <2>2 DEF Inside, screen
  <2>4. QED
    BY <1>0, <2>1, <2>2, <2>3, LockedFrom DEF Ordered
<1>9. CASE Die(t)
  <2>1. thread[t].at \in {"sleep", "newline", "print"} /\ Leave(t, "dead")
        /\ UNCHANGED <<mutex, index, screen>>
    BY <1>0, <1>9 DEF Die, WaitsIn
  <2>2. mutex = t
    BY <1>b, <2>1 DEF Inside
  <2>3. Moved(t) /\ thread'[t].at = "dead"
    BY <1>0, <2>1, Leaves, PlacesThere DEF Moved
  <2>4. thread'[t].at \notin Inside /\ mutex' = t
    BY <2>1, <2>2, <2>3 DEF Inside
  <2>5. QED
    BY <1>0, <2>1, <2>2, <2>3, <2>4, LockedFrom, MutexNames DEF Ordered
<1>10. QED
    BY <1>c, <1>1, <1>2, <1>3, <1>4, <1>5, <1>6, <1>7, <1>8, <1>9

(* A destroyed mutex stays so. *)
LEMMA LockingLasts ==
    ASSUME TypeOK, [Next]_vars
    PROVE  program' = program /\ (Locking' => Locking)
<1>1. CASE MainStep \/ UNCHANGED vars
    BY <1>1 DEF MainStep, CancelThread, DestroyMutex, LeaveMain, vars, Locking
<1>2. ASSUME NEW t \in Running, ThreadStep(t) \/ SpuriousWakeUp(t)
      PROVE  program' = program /\ (Locking' => Locking)
  <2>2. mutex = "destroyed" => mutex' = mutex
    BY <1>2, PrintersAssumption DEF PrintersAssumption, ThreadStep, SpuriousWakeUp,
       Lock, Test, Wait, WakeUp, Relock, Read, PrintChar, Sleep, Write, NewLine, Reset, Unlock,
       Signal, Die, DieLocked, Acquire, Release
  <2>3. QED
    BY <1>2, <2>2, ThreadStays DEF Locking
<1>3. QED
    BY <1>1, <1>2 DEF Next

LEMMA LockedNext ==
    ASSUME TypeOK, OwedInv, LockedInv, [Next]_vars
    PROVE  LockedInv' /\ (Locking => Ordered)
<1>1. CASE ~ Locking
    BY <1>1, LockingLasts DEF LockedInv
<1>2. CASE Locking /\ (MainStep \/ UNCHANGED vars)
  <2>1. UNCHANGED <<program, index, thread, printed, last>>
    BY <1>2 DEF MainStep, CancelThread, DestroyMutex, LeaveMain, vars, screen
  <2>2. mutex' = mutex \/ mutex' = "destroyed"
    BY <1>2 DEF MainStep, CancelThread, DestroyMutex, LeaveMain, vars
  <2>3. UNCHANGED <<Running, Newline, LastChar>> /\ Follows(last)' = Follows(last)
    BY <2>1, Constants, FollowsStays
  <2>4. Ordered
    BY <2>1 DEF Ordered, screen
  <2>5. CASE mutex' = "destroyed"
    BY <2>4, <2>5 DEF LockedInv, Locking
  <2>6. CASE mutex' = mutex
    BY <2>1, <2>3, <2>4, <2>6 DEF LockedInv, Locking, Script
  <2>7. QED
    BY <2>2, <2>5, <2>6
<1>3. ASSUME Locking, NEW t \in Running, ThreadStep(t) \/ SpuriousWakeUp(t)
      PROVE  LockedInv' /\ Ordered
    BY <1>3, LockedStep
<1>4. QED
    BY <1>1, <1>2, <1>3 DEF Next
-----------------------------------------------------------------------------
(* InOrder for ex4-2.c: while no thread has read an index past the end,    *)
(* the parity of the index alone keeps the other thread out of the body,   *)
(* and the symbol due follows from the index.                              *)
Due(i)   == IF i < Newline THEN i ELSE Newline
Printing == {"read", "print", "sleep", "write"}
Wrapping == {"newline", "reset"}

Play(t) ==
    /\ thread[t].at # "lock"
    /\ thread[t].at \in Printing => Turn(t)
    /\ thread[t].at \in {"print", "sleep", "write"} => thread[t].tmp = index /\ index <= Size
    /\ thread[t].at = "sleep" => index <= LastChar /\ last = index
    /\ thread[t].at = "write" => IF index <= LastChar THEN last = index ELSE Follows(last) = Newline
    /\ thread[t].at \in Wrapping => t = "B" /\ index = Size + 1
    /\ thread[t].at = "newline" => Follows(last) = Newline
    /\ thread[t].at = "reset" => last = Newline
    /\ Turn(t) /\ index <= Size /\ thread[t].at \notin {"sleep", "write", "dead"} \cup Wrapping
          => Follows(last) = Due(index)

Alternating == program = "ex4-2" /\ ~ past
TurnInv ==
    Alternating => /\ index <= Size + 1
                   /\ index = Size + 1 => thread["B"].at \in Wrapping \cup {"dead"}
                   /\ Play("A") /\ Play("B")

LEMMA Pair ==
    ASSUME program = "ex4-2"
    PROVE  /\ Running = {"A", "B"} /\ LastChar = Size - 2 /\ Newline = Size - 1
           /\ Size \in Nat /\ Size > 2 /\ Size % 2 = 1 /\ (Size + 1) % 2 = 0
           /\ \A s : Follows(s) = IF s = Size - 1 THEN 0 ELSE s + 1
           /\ \A i \in Nat : Due(i) = IF i < Size - 1 THEN i ELSE Size - 1
           /\ \A n \in 0..Size : Up(n) = n + 1
BY PrintersAssumption DEF PrintersAssumption, LastChar, Newline, Follows, Due, Up, Largest,
   Running

LEMMA Parity == ASSUME NEW n \in Nat PROVE n % 2 \in {0, 1} /\ (n + 1) % 2 = 1 - (n % 2)
OBVIOUS

LEMMA TurnInit == Init => TurnInv
<1> SUFFICES ASSUME Init, Alternating PROVE TurnInv
    BY DEF TurnInv
<1>1. Running = {"A", "B"} /\ Newline = Size - 1 /\ Size \in Nat /\ Size > 2
    BY Pair DEF Alternating
<1>2. index = 0 /\ Follows(last) = 0 /\ Due(index) = 0
    BY <1>1 DEF Init, Follows, Due
<1>3. \A t \in {"A", "B"} : thread[t].at = "test"
    BY <1>1 DEF Init, Top, Alternating
<1>4. QED
    BY <1>1, <1>2, <1>3 DEF TurnInv, Play, Printing, Wrapping

(* Where the quiet steps of ex4-2.c lead. *)
Resting == {"test", "wait", "waiting", "relock", "dying", "unlock", "signal"}
QuietPlay(u) ==
    \/ thread'[u] = thread[u]
    \/ thread'[u].at = "dead"
    \/ thread'[u].at = "read" /\ Turn(u) /\ thread[u].at = "test"
    \/ thread'[u].at \in Resting /\ thread[u].at \in Resting

LEMMA QuietPlays ==
    ASSUME TypeOK, TurnInv, Alternating, NEW t \in Running, QuietStep(t)
    PROVE  \A u \in Running : QuietPlay(u)
<1>0. thread \in Threading /\ Running = {"A", "B"} /\ thread[t].at # "lock"
    BY TypedIsType, Pair DEF Typed, Alternating, TurnInv, Play
<1>1. ASSUME NEW place \in Places, Goto(t, place) \/ Leave(t, place),
             \/ place = "dead"
             \/ place = "read" /\ Turn(t) /\ thread[t].at = "test"
             \/ place \in Resting /\ thread[t].at \in Resting
      PROVE  \A u \in Running : QuietPlay(u)
    BY <1>0, <1>1, Moves, Leaves DEF QuietPlay
<1>2. CASE Test(t) \/ Wait(t) \/ WakeUp(t) \/ Relock(t)
    BY <1>1, <1>2, PlacesThere DEF Test, Wait, WakeUp, Relock, Resting
<1>3. CASE Unlock(t) \/ Die(t) \/ DieLocked(t)
    BY <1>1, <1>3, PlacesThere DEF Unlock, Die, DieLocked, Resting, Alternating
<1>4. CASE Signal(t)
  <2>1. CASE Goto(t, "test")
    BY <1>1, <1>4, <2>1, PlacesThere DEF Signal, Resting
  <2>2. CASE ~ Goto(t, "test")
    <3>1. PICK u \in waiting :
              thread' = [thread EXCEPT ![t].at = "test", ![u].at = "relock"]
      BY <1>4, <2>2 DEF Signal
    <3>2. u \in Running /\ thread[u].at = "waiting" /\ u # t /\ thread[t].at = "signal"
      BY <1>4, TypedIsType DEF Typed, Signal
    <3>3. thread'[t].at = "test" /\ thread'[u].at = "relock"
      BY <1>0, <3>1, <3>2, Wakes
    <3>4. Running = {t, u}
      BY <1>0, <3>2
    <3>5. QED
      BY <3>2, <3>3, <3>4 DEF QuietPlay, Resting
  <2>3. QED
    BY <2>1, <2>2
<1>5. QED
    BY <1>0, <1>2, <1>3, <1>4 DEF QuietStep, Lock

LEMMA TurnQuiet ==
    ASSUME TypeOK, TurnInv, Alternating, NEW t \in Running, QuietStep(t)
    PROVE  TurnInv' /\ Ordered
<1>1. UNCHANGED <<program, index, printed, last, past, Newline, LastChar>>
    BY QuietScreen, Constants
<1>2. Follows(last)' = Follows(last) /\ Due(index)' = Due(index)
      /\ \A u : Turn(u)' = Turn(u)
    BY <1>1 DEF Follows, Due, Turn
<1>3. \A u \in Running : QuietPlay(u)
    BY QuietPlays
<1>4. ASSUME NEW u \in {"A", "B"} PROVE Play(u)'
  <2>1. QuietPlay(u) /\ Play(u)
    BY <1>3, Pair DEF TurnInv, Alternating
  <2>2. CASE thread'[u] = thread[u]
    BY <1>1, <1>2, <2>1, <2>2 DEF Play
  <2>3. CASE thread'[u].at = "dead"
    BY <2>3 DEF Play, Printing, Wrapping
  <2>4. CASE thread'[u].at = "read" /\ Turn(u) /\ thread[u].at = "test"
    BY <1>1, <1>2, <2>1, <2>4 DEF Play, Printing, Wrapping
  <2>5. CASE thread'[u].at \in Resting /\ thread[u].at \in Resting
    BY <1>1, <1>2, <2>1, <2>5 DEF Play, Printing, Wrapping, Resting
  <2>6. QED
    BY <2>1, <2>2, <2>3, <2>4, <2>5 DEF QuietPlay
<1>5. index = Size + 1 => thread'["B"].at \in Wrapping \cup {"dead"}
  <2>1. QuietPlay("B")
    BY <1>3, Pair DEF Alternating
  <2>2. QED
    BY <2>1 DEF TurnInv, QuietPlay, Resting, Wrapping
<1>6. QED
    BY <1>1, <1>4, <1>5 DEF TurnInv, Alternating, Ordered, screen

(* A thread at a turn of its own keeps the other one away. *)
LEMMA OneTurn ==
    ASSUME index \in Nat, NEW t \in {"A", "B"}, NEW u \in {"A", "B"}, t # u
    PROVE  Turn(t) <=> ~ Turn(u)
BY TurnsDiffer

LEMMA TurnLoud ==
    ASSUME TypeOK, TurnInv, Alternating, ~ past', NEW t \in Running, LoudStep(t)
    PROVE  TurnInv' /\ Ordered
<1>0. /\ thread \in Threading /\ index \in Nat /\ index \in Indices /\ program' = program
      /\ program = "ex4-2" /\ last \in 0..Newline /\ thread[t].tmp \in Nat
      /\ index <= Size + 1 /\ t \in {"A", "B"} /\ Running = {"A", "B"}
      /\ Play("A") /\ Play("B") /\ Play(t)
    BY TypedIsType, Numbers, Pair DEF Typed, Threading, LoudStep, Read, PrintChar, Sleep, Write,
       NewLine, Reset, Alternating, TurnInv
<1>a. /\ LastChar = Size - 2 /\ Newline = Size - 1 /\ Size \in Nat /\ Size > 2
      /\ \A s : Follows(s) = IF s = Size - 1 THEN 0 ELSE s + 1
      /\ \A i \in Nat : Due(i) = IF i < Size - 1 THEN i ELSE Size - 1
      /\ \A n \in 0..Size : Up(n) = n + 1
      /\ LastChar' = LastChar /\ Newline' = Newline
      /\ Follows(last)' = Follows(last') /\ Due(index)' = Due(index')
    BY <1>0, Pair, Constants, FollowsStays DEF Due
<1>b. PICK u \in {"A", "B"} : u # t
    OBVIOUS
<1>c. /\ Play(u) /\ (Turn(t) <=> ~ Turn(u)) /\ {"A", "B"} = {t, u}
    BY <1>0, <1>b, OneTurn
<1>d. ASSUME Play(t)', Play(u)', index' <= Size + 1,
             index' = Size + 1 => thread'["B"].at \in Wrapping \cup {"dead"}
      PROVE  TurnInv'
  <2>1. Play("A")' /\ Play("B")'
    BY <1>c, <1>d
  <2>2. QED
    BY <1>a, <1>d, <2>1 DEF TurnInv
(* While t is in its turn, the symbols are its own. *)
<1>e. ASSUME Turn(t), index <= Size, index' = index, thread'[u] = thread[u],
             ~ (thread'[t].at \in Wrapping), Play(t)'
      PROVE  TurnInv'
  <2>1. Turn(u)' = Turn(u) /\ ~ Turn(u)
    BY <1>c, <1>e DEF Turn
  <2>2. Play(u)'
    BY <1>0, <1>a, <1>c, <1>e, <2>1 DEF Play, Printing, Wrapping
  <2>3. QED
    BY <1>0, <1>a, <1>d, <1>e, <2>2
<1>1. CASE Read(t)
  <2>1. index <= Size /\ index' = index /\ screen' = screen /\ Turn(t)
        /\ Follows(last) = Due(index)
    <3>1. index' = index /\ screen' = screen /\ ~ (index > Size) /\ thread[t].at = "read"
      BY <1>0, <1>1 DEF Read
    <3>2. index <= Size
      BY <1>0, <1>a, <3>1
    <3>3. QED
      BY <1>0, <3>1, <3>2 DEF Play, Printing, Wrapping
  <2>2. /\ thread'[t].at = "print" /\ thread'[t].tmp = index
        /\ thread'[u] = thread[u]
    BY <1>0, <1>1, <1>b, Reads DEF Read
  <2>3. Turn(t)' = Turn(t)
    BY <2>1 DEF Turn
  <2>4. Play(t)'
    BY <1>a, <2>1, <2>2, <2>3 DEF Play, Printing, Wrapping, screen
  <2>5. QED
    BY <1>e, <2>1, <2>2, <2>4 DEF Ordered, Wrapping
<1>2. CASE PrintChar(t)
  <2>1. thread[t].tmp = index /\ index <= Size /\ index' = index /\ Turn(t)
        /\ Follows(last) = Due(index)
    BY <1>2, <1>0 DEF PrintChar, Play, Printing, Wrapping
  <2>2. Turn(t)' = Turn(t)
    BY <2>1 DEF Turn
  <2>3. CASE index <= LastChar
    <3>1. Goto(t, "sleep") /\ last' = index
      BY <1>0, <1>2, <1>a, <2>1, <2>3 DEF PrintChar, Put
    <3>2. /\ thread'[t].at = "sleep" /\ thread'[t].tmp = index
          /\ thread'[u] = thread[u]
      BY <1>0, <1>b, <2>1, <3>1, Moves, PlacesThere
    <3>3. Play(t)'
      BY <1>0, <1>a, <2>1, <2>2, <2>3, <3>1, <3>2 DEF Play, Printing, Wrapping
    <3>4. Follows(last) = index
      BY <1>0, <1>a, <2>1, <2>3
    <3>5. QED
      BY <1>e, <2>1, <3>1, <3>2, <3>3, <3>4 DEF Ordered, Wrapping
  <2>4. CASE ~ (index <= LastChar)
    <3>1. Goto(t, "write") /\ screen' = screen /\ Follows(last) = Newline
      BY <1>0, <1>2, <1>a, <2>1, <2>4 DEF PrintChar
    <3>2. /\ thread'[t].at = "write" /\ thread'[t].tmp = index
          /\ thread'[u] = thread[u]
      BY <1>0, <1>b, <2>1, <3>1, Moves, PlacesThere
    <3>3. Play(t)'
      BY <1>0, <1>a, <2>1, <2>2, <2>4, <3>1, <3>2 DEF Play, Printing, Wrapping, screen
    <3>4. QED
      BY <1>e, <2>1, <3>1, <3>2, <3>3 DEF Ordered, Wrapping
  <2>5. QED
    BY <2>3, <2>4
<1>3. CASE Sleep(t)
  <2>1. thread[t].tmp = index /\ index <= Size /\ index' = index /\ screen' = screen /\ Turn(t)
        /\ index <= LastChar /\ last = index
    BY <1>0, <1>3 DEF Sleep, Play, Printing
  <2>2. /\ thread'[t].at = "write" /\ thread'[t].tmp = index
        /\ thread'[u] = thread[u]
    BY <1>0, <1>3, <1>b, <2>1, Moves, PlacesThere DEF Sleep
  <2>3. Turn(t)' = Turn(t)
    BY <2>1 DEF Turn
  <2>4. Play(t)'
    BY <1>a, <2>1, <2>2, <2>3 DEF Play, Printing, Wrapping, screen
  <2>5. QED
    BY <1>e, <2>1, <2>2, <2>4 DEF Ordered, Wrapping
<1>4. CASE Write(t)
  <2>1. thread[t].tmp = index /\ index <= Size /\ screen' = screen /\ Turn(t)
        /\ IF index <= LastChar THEN last = index ELSE Follows(last) = Newline
    BY <1>0, <1>4 DEF Write, Play, Printing
  <2>2. index' = index + 1
    BY <1>0, <1>4, <1>a, <2>1 DEF Write
  <2>3. Turn(u)' /\ ~ Turn(t)' /\ ~ Turn(u)
    BY <1>0, <1>b, <1>c, <2>1, <2>2, Parity DEF Turn
  <2>4. CASE index = Size
    <3>1. t = "B"
      BY <1>0, <2>1, <2>4, Pair DEF Turn
    <3>2. Leave(t, "newline")
      BY <1>4, <1>a, <2>1, <2>4 DEF Write
    <3>3. thread'[t].at = "newline" /\ thread'[u] = thread[u]
      BY <1>0, <1>b, <3>2, Leaves, PlacesThere
    <3>4. Play(t)'
      BY <1>a, <2>1, <2>2, <2>3, <2>4, <3>1, <3>3 DEF Play, Printing, Wrapping, screen
    <3>5. Play(u)'
      BY <1>0, <1>a, <1>c, <2>1, <2>2, <2>3, <2>4, <3>3 DEF Play, Printing, Wrapping
    <3>6. QED
      BY <1>a, <1>d, <2>1, <2>2, <2>4, <3>1, <3>3, <3>4, <3>5 DEF Ordered, Wrapping
  <2>5. CASE index < Size
    <3>1. Leave(t, "unlock")
      BY <1>0, <1>4, <1>a, <2>1, <2>5 DEF Write, Bottom
    <3>2. thread'[t].at = "unlock" /\ thread'[u] = thread[u]
      BY <1>0, <1>b, <3>1, Leaves, PlacesThere
    <3>3. Follows(last) = Due(index')
      BY <1>0, <1>a, <2>1, <2>2, <2>5
    <3>4. Play(t)'
      BY <1>a, <2>2, <2>3, <3>2 DEF Play, Printing, Wrapping
    <3>5. Play(u)'
      BY <1>0, <1>a, <1>c, <2>1, <2>2, <2>3, <2>5, <3>2, <3>3 DEF Play, Printing, Wrapping, screen
    <3>6. QED
      BY <1>0, <1>a, <1>d, <2>1, <2>2, <2>5, <3>4, <3>5 DEF Ordered
  <2>6. QED
    BY <1>0, <1>a, <2>1, <2>4, <2>5
<1>5. CASE NewLine(t)
  <2>1. t = "B" /\ index = Size + 1 /\ index' = index /\ last' = Newline /\ Follows(last) = Newline
    BY <1>0, <1>5 DEF NewLine, Put, Play, Wrapping
  <2>2. thread'[t].at = "reset" /\ thread'[u] = thread[u]
    BY <1>0, <1>5, <1>b, Moves, PlacesThere DEF NewLine
  <2>3. Turn(u)' = Turn(u)
    BY <2>1 DEF Turn
  <2>4. Play(t)'
    BY <1>a, <2>1, <2>2 DEF Play, Printing, Wrapping
  <2>5. Play(u)'
    BY <1>a, <1>b, <1>c, <2>1, <2>2, <2>3 DEF Play, Printing, Wrapping
  <2>6. QED
    BY <1>d, <1>a, <2>1, <2>2, <2>4, <2>5 DEF Ordered, Wrapping
<1>6. CASE Reset(t)
  <2>1. t = "B" /\ index = Size + 1 /\ index' = 0 /\ screen' = screen /\ last = Newline
    BY <1>0, <1>6 DEF Reset, Play, Wrapping
  <2>2. thread'[t].at = "unlock" /\ thread'[u] = thread[u]
    BY <1>0, <1>6, <1>b, Moves, PlacesThere DEF Reset, Bottom
  <2>3. Turn(u)' /\ ~ Turn(t)' /\ u = "A"
    BY <1>b, <2>1 DEF Turn
  <2>4. Play(t)'
    BY <1>a, <2>1, <2>2, <2>3 DEF Play, Printing, Wrapping
  <2>5. Play(u)'
    BY <1>a, <1>c, <2>1, <2>2, <2>3 DEF Play, Printing, Wrapping, screen
  <2>6. QED
    BY <1>d, <1>a, <2>1, <2>4, <2>5 DEF Ordered
<1>7. QED
    BY <1>1, <1>2, <1>3, <1>4, <1>5, <1>6 DEF LoudStep

LEMMA TurnNext ==
    ASSUME TypeOK, TurnInv, [Next]_vars
    PROVE  TurnInv' /\ (Alternating => past' \/ Ordered)
<1>0. program' = program /\ (Alternating' => Alternating)
  <2>1. past \in BOOLEAN
    BY TypedIsType DEF Typed
  <2>2. CASE MainStep \/ UNCHANGED vars
    BY <2>2 DEF MainStep, CancelThread, DestroyMutex, LeaveMain, vars, Alternating
  <2>3. ASSUME NEW t \in Running, ThreadStep(t) \/ SpuriousWakeUp(t)
        PROVE  program' = program /\ (past => past')
    <3>1. CASE QuietStep(t)
      BY <3>1, QuietScreen
    <3>2. CASE LoudStep(t)
      BY <2>1, <3>2 DEF LoudStep, Read, PrintChar, Sleep, Write, NewLine, Reset
    <3>3. QED
      BY <2>3, <3>1, <3>2, QuietOrLoud
  <2>4. QED
    BY <2>2, <2>3 DEF Next, Alternating
<1>1. CASE ~ Alternating'
    BY <1>0, <1>1 DEF TurnInv, Alternating
<1>2. CASE Alternating'
  <2>1. Alternating /\ ~ past'
    BY <1>0, <1>2 DEF Alternating
  <2>2. CASE MainStep \/ UNCHANGED vars
    <3>1. UNCHANGED <<program, index, thread, printed, last, past>>
      BY <2>2 DEF MainStep, CancelThread, DestroyMutex, LeaveMain, vars, screen
    <3>2. /\ Follows(last)' = Follows(last) /\ Due(index)' = Due(index)
          /\ Newline' = Newline /\ LastChar' = LastChar
          /\ Turn("A")' = Turn("A") /\ Turn("B")' = Turn("B")
      BY <3>1, Constants DEF Follows, Due, Turn
    <3>3. QED
      BY <2>1, <3>1, <3>2 DEF TurnInv, Play, Ordered, screen
  <2>3. ASSUME NEW t \in Running, ThreadStep(t) \/ SpuriousWakeUp(t)
        PROVE  TurnInv' /\ Ordered
    BY <2>1, <2>3, QuietOrLoud, TurnQuiet, TurnLoud
  <2>4. QED
    BY <2>2, <2>3 DEF Next
<1>3. QED
    BY <1>1, <1>2

(* ex4-1b.c prints in the order of the string while its mutex lives,       *)
(* ex4-2.c until a thread reads an index the other one is about to reset.  *)
THEOREM PrintedInOrder == Spec => InOrder
<1> DEFINE AllInv == TypeOK /\ OwedInv /\ LockedInv /\ TurnInv
<1>1. Spec => []AllInv
  <2>1. Init => AllInv
    BY TypeInit, OwedInit, LockedInit, TurnInit
  <2>2. AllInv /\ [Next]_vars => AllInv'
    BY TypeNext, OwedNext, LockedNext, TurnNext
  <2>3. QED
    BY <2>1, <2>2, PTL DEF Spec
<1>2. AllInv /\ [Next]_vars =>
        [((program = "ex4-1b" /\ mutex # "destroyed") \/ (program = "ex4-2" /\ ~ past)
            => screen' = screen \/ last' = Follows(last))]_vars
  <2> SUFFICES ASSUME AllInv, [Next]_vars, Locking \/ Alternating
               PROVE  Ordered
      BY DEF Locking, Alternating, Ordered
  <2>1. CASE Locking
      BY <2>1, LockedNext
  <2>2. CASE Alternating /\ ~ past'
      BY <2>2, TurnNext
  <2>3. CASE Alternating /\ past'
    <3>1. CASE MainStep \/ UNCHANGED vars
      BY <3>1 DEF MainStep, CancelThread, DestroyMutex, LeaveMain, vars, screen, Ordered
    <3>2. ASSUME NEW t \in Running, ThreadStep(t) \/ SpuriousWakeUp(t) PROVE Ordered
      <4>1. CASE QuietStep(t)
        BY <4>1, QuietScreen DEF Ordered, screen
      <4>2. CASE Read(t)
        BY <4>2 DEF Read, Ordered, screen
      <4>3. CASE PrintChar(t) \/ Sleep(t) \/ Write(t) \/ NewLine(t) \/ Reset(t)
        BY <2>3, <4>3 DEF PrintChar, Sleep, Write, NewLine, Reset, Alternating
      <4>4. QED
        BY <3>2, <4>1, <4>2, <4>3, QuietOrLoud DEF LoudStep
    <3>3. QED
      BY <3>1, <3>2 DEF Next
  <2>4. QED
    BY <2>1, <2>2, <2>3
<1>3. QED
    BY <1>1, <1>2, PTL DEF Spec, InOrder
=============================================================================
