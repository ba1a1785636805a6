---------------------------- MODULE StringPrinters ----------------------------
(***************************************************************************)
(* Three programs whose threads print one string together (ELE 709/lab4).  *)
(* In lab4.c three threads share string_index without a lock; in ex4-1b.c  *)
(* a mutex surrounds the body of their loop; in ex4-2.c threads A and B    *)
(* take turns by the parity of the index and wait on a condition variable, *)
(* but nobody locks the mutex that pthread_cond_wait and                   *)
(* pthread_mutex_unlock release.  main cancels the threads after a while.  *)
(*                                                                         *)
(* A step is one access to what the threads share.  stdout is a terminal:  *)
(* characters stay in its buffer up to the newline, whose write() is a     *)
(* cancellation point.                                                     *)
(***************************************************************************)
EXTENDS Integers

CONSTANTS Threads,    (* the threads of lab4.c and ex4-1b.c                *)
          Size,       (* sizeof(string_to_print), 11 in the code           *)
          None

ASSUME PrintersAssumption ==
    /\ Size \in Nat /\ Size > 2 /\ Size % 2 = 1
    /\ None \notin Threads \cup {"A", "B", "destroyed"}
    /\ "destroyed" \notin Threads

VARIABLES program,    (* which of the three runs                           *)
          index,      (* string_index                                      *)
          thread,     (* thread[t]: where it is, and its tmp_index         *)
          mutex,      (* its owner, None, or "destroyed"                   *)
          waiting,    (* the threads in pthread_cond_wait                  *)
          main,       (* where the main thread is                          *)
          cancelled,  (* the threads main has sent a cancellation          *)
          printed, last,   (* histories: the symbols on the screen, and    *)
                           (* the last of them                             *)
          past,       (* a history: has a thread of ex4-2.c read an index  *)
                      (* that is neither a character nor the end?          *)
          missed      (* a history: has a signal found its thread between  *)
                      (* the test of the index and pthread_cond_wait?      *)

vars   == <<program, index, thread, mutex, waiting, main, cancelled,
            printed, last, past, missed>>
screen == <<printed, last>>

Programs == {"lab4", "ex4-1b", "ex4-2"}
Running  == IF program = "ex4-2" THEN {"A", "B"} ELSE Threads

(* An index past the end matters by its parity only: larger ones stand for *)
(* all those the races of lab4.c and ex4-2.c count up to.                  *)
Largest == Size + 2
Indices == 0..Largest
Up(n)   == IF n = Largest THEN n - 1 ELSE n + 1

(* The characters a program prints, and the newline as the symbol after    *)
(* the last of them.  Only ex4-2.c leaves out the byte that ends a string. *)
LastChar == IF program = "ex4-2" THEN Size - 2 ELSE Size - 1
Newline  == LastChar + 1
Follows(s) == IF s = Newline THEN 0 ELSE s + 1

Places == {"lock", "test", "wait", "waiting", "relock", "dying", "read",
           "print", "sleep", "write", "newline", "reset", "unlock", "signal", "dead"}

TypeOK ==
    /\ program \in Programs
    /\ index \in Indices
    /\ thread \in [Running -> [at : Places, tmp : Indices]]
    /\ mutex \in Running \cup {None, "destroyed"}
    /\ waiting = {t \in Running : thread[t].at = "waiting"}
    /\ main \in {"sleep", "cancel", "left", "returned"}
    /\ cancelled \subseteq Running
    /\ printed \subseteq 0..Newline /\ last \in 0..Newline
    /\ past \in BOOLEAN /\ missed \in BOOLEAN

(* The first place of a thread's loop, after a second of sleep. *)
Top == CASE program = "lab4"   -> "read"
         [] program = "ex4-1b" -> "lock"
         [] program = "ex4-2"  -> "test"

Init ==
    /\ program \in Programs
    /\ index = 0
    /\ thread = [t \in Running |-> [at |-> Top, tmp |-> 0]]
    /\ mutex = None
    /\ waiting = {}
    /\ main = "sleep" /\ cancelled = {}
    /\ printed = {} /\ last = Newline
    /\ past = FALSE /\ missed = FALSE
-----------------------------------------------------------------------------
Goto(t, place) == thread' = [thread EXCEPT ![t].at = place]

(* tmp_index is assigned again before its next use. *)
Leave(t, place) == thread' = [thread EXCEPT ![t] = [at |-> place, tmp |-> 0]]

(* A destroyed mutex lets everybody pass with an error nobody looks at.    *)
Acquire(t) ==
    \/ mutex = None /\ mutex' = t
    \/ mutex = "destroyed" /\ UNCHANGED mutex

(* A faulty loop that goes on without the mutex. *)
LockBusy(t) ==
    /\ thread[t].at = "lock"
    /\ Goto(t, "read")
    /\ UNCHANGED <<program, index, mutex, waiting, main, cancelled, screen, past, missed>>

Lock(t) ==
    /\ thread[t].at = "lock"
    /\ Acquire(t)
    /\ Goto(t, "read")
    /\ UNCHANGED <<program, index, waiting, main, cancelled, screen, past, missed>>

(* while (string_index % 2 ...): is it this thread's turn? *)
Turn(t) == IF t = "A" THEN index % 2 = 0 ELSE index % 2 = 1

Test(t) ==
    /\ thread[t].at = "test"
    /\ Goto(t, IF Turn(t) THEN "read" ELSE "wait")
    /\ UNCHANGED <<program, index, mutex, waiting, main, cancelled, screen, past, missed>>

(* Whoever holds it, pthread_mutex_unlock and pthread_cond_wait set the    *)
(* mutex free: that is what the library does where the standard is silent. *)
Release == mutex' = IF mutex = "destroyed" THEN mutex ELSE None

(* pthread_cond_wait gives an error at once if the mutex is destroyed. *)
Wait(t) ==
    /\ thread[t].at = "wait"
    /\ Release
    /\ \/ /\ mutex # "destroyed"
          /\ waiting' = waiting \cup {t}
          /\ Goto(t, "waiting")
       \/ /\ mutex = "destroyed"
          /\ Goto(t, "test")
          /\ UNCHANGED waiting
    /\ UNCHANGED <<program, index, main, cancelled, screen, past, missed>>

(* A thread may also wake up without a signal. *)
WakeUp(t) ==
    /\ thread[t].at = "waiting"
    /\ waiting' = waiting \ {t}
    /\ Goto(t, "relock")
    /\ UNCHANGED <<program, index, mutex, main, cancelled, screen, past, missed>>

Relock(t) ==
    /\ thread[t].at = "relock"
    /\ Acquire(t)
    /\ Goto(t, "test")
    /\ UNCHANGED <<program, index, waiting, main, cancelled, screen, past, missed>>
-----------------------------------------------------------------------------
Read(t) ==
    /\ thread[t].at = "read"
    /\ thread' = [thread EXCEPT ![t] = [at |-> "print", tmp |-> index]]
    /\ past' = (past \/ (program = "ex4-2" /\ index > Size))
    /\ UNCHANGED <<program, index, mutex, waiting, main, cancelled, screen, missed>>

Put(symbol) == printed' = printed \cup {symbol} /\ last' = symbol

(* "index within string bounds": the character, if there is one. *)
PrintChar(t) ==
    /\ thread[t].at = "print"
    /\ \/ /\ thread[t].tmp <= LastChar
          /\ Put(thread[t].tmp)
          /\ Goto(t, "sleep")
       \/ /\ thread[t].tmp > LastChar
          /\ Goto(t, "write")
          /\ UNCHANGED screen
    /\ UNCHANGED <<program, index, mutex, waiting, main, cancelled, past, missed>>

Sleep(t) ==
    /\ thread[t].at = "sleep" /\ t \notin cancelled
    /\ Goto(t, "write")
    /\ UNCHANGED <<program, index, mutex, waiting, main, cancelled, screen, past, missed>>

(* What follows the body of the loop. *)
Bottom == IF program = "lab4" THEN "read" ELSE "unlock"

(* A faulty loop that advances the index instead of the copy it printed. *)
WriteAdvancing(t) ==
    /\ thread[t].at = "write"
    /\ index' = Up(index)
    /\ IF thread[t].tmp + 1 > Size THEN Leave(t, "newline") ELSE Leave(t, Bottom)
    /\ UNCHANGED <<program, mutex, waiting, main, cancelled, screen, past, missed>>

Write(t) ==
    /\ thread[t].at = "write"
    /\ index' = Up(thread[t].tmp)
    /\ IF thread[t].tmp + 1 > Size THEN Leave(t, "newline") ELSE Leave(t, Bottom)
    /\ UNCHANGED <<program, mutex, waiting, main, cancelled, screen, past, missed>>

NewLine(t) ==
    /\ thread[t].at = "newline" /\ t \notin cancelled
    /\ Put(Newline)
    /\ Goto(t, "reset")
    /\ UNCHANGED <<program, index, mutex, waiting, main, cancelled, past, missed>>

(* A faulty wrap that counts on an increment to follow. *)
ResetBelowZero(t) ==
    /\ thread[t].at = "reset"
    /\ index' = -1
    /\ Goto(t, Bottom)
    /\ UNCHANGED <<program, mutex, waiting, main, cancelled, screen, past, missed>>

Reset(t) ==
    /\ thread[t].at = "reset"
    /\ index' = 0
    /\ Goto(t, Bottom)
    /\ UNCHANGED <<program, mutex, waiting, main, cancelled, screen, past, missed>>

Unlock(t) ==
    /\ thread[t].at = "unlock"
    /\ Release
    /\ Goto(t, IF program = "ex4-2" THEN "signal" ELSE "lock")
    /\ UNCHANGED <<program, index, waiting, main, cancelled, screen, past, missed>>

(* A faulty thread that takes the mutex for enough. *)
SignalNobody(t) ==
    /\ thread[t].at = "signal"
    /\ Goto(t, "test")
    /\ UNCHANGED <<program, index, mutex, waiting, main, cancelled, screen, past, missed>>

(* A signal wakes one thread that waits, and is forgotten if none does. *)
Signal(t) ==
    /\ thread[t].at = "signal"
    /\ \/ \E u \in waiting :
             /\ thread' = [thread EXCEPT ![t].at = "test", ![u].at = "relock"]
             /\ waiting' = waiting \ {u}
             /\ UNCHANGED missed
       \/ /\ waiting = {}
          /\ Goto(t, "test")
          /\ missed' = (missed \/ \E u \in Running : thread[u].at = "wait")
          /\ UNCHANGED waiting
    /\ UNCHANGED <<program, index, mutex, main, cancelled, screen, past>>
-----------------------------------------------------------------------------
(* sleep, usleep, a printf that writes out and pthread_cond_wait are       *)
(* cancellation points; the lock of a mutex is none.  A thread that ends   *)
(* keeps the mutex it holds, and one that ends in pthread_cond_wait takes  *)
(* the mutex first.                                                        *)
Die(t) ==
    /\ t \in cancelled
    /\ \/ /\ \/ thread[t].at \in {"sleep", "newline"}
             \/ thread[t].at = "print" /\ thread[t].tmp <= LastChar
          /\ Leave(t, "dead")
          /\ UNCHANGED <<mutex, waiting>>
       \/ /\ thread[t].at = "waiting"
          /\ waiting' = waiting \ {t}
          /\ Goto(t, "dying")
          /\ UNCHANGED mutex
    /\ UNCHANGED <<program, index, main, cancelled, screen, past, missed>>

DieLocked(t) ==
    /\ thread[t].at = "dying"
    /\ Acquire(t)
    /\ Goto(t, "dead")
    /\ UNCHANGED <<program, index, waiting, main, cancelled, screen, past, missed>>

(* main has slept, and cancels its threads in the order of their creation; *)
(* those of lab4.c and ex4-1b.c are all alike.                             *)
CancelThread ==
    /\ main = "sleep"
    /\ \E t \in Running \ cancelled :
          /\ t = "B" => "A" \in cancelled
          /\ cancelled' = cancelled \cup {t}
          /\ main' = IF cancelled' = Running THEN "cancel" ELSE "sleep"
    /\ UNCHANGED <<program, index, thread, mutex, waiting, screen, past, missed>>

(* A faulty main that leaves the process to its threads. *)
LeavesToThreads == TRUE

(* lab4.c ends with pthread_exit: the process lives on in its threads. The *)
(* others return, which ends all threads wherever they are.                *)
PthreadExit == program = "lab4"

(* Before it returns main destroys the mutex, which fails if it is locked. *)
DestroyMutex ==
    /\ main = "cancel" /\ program # "lab4"
    /\ mutex = None
    /\ mutex' = "destroyed"
    /\ UNCHANGED <<program, index, thread, waiting, main, cancelled, screen, past, missed>>

(* The destruction of the condition of ex4-2.c waits for those who wait.   *)
LeaveMain ==
    /\ main = "cancel"
    /\ program # "lab4" => mutex # None
    /\ program = "ex4-2" => waiting = {}
    /\ main' = IF PthreadExit THEN "left" ELSE "returned"
    /\ UNCHANGED <<program, index, thread, mutex, waiting, cancelled, screen, past, missed>>
-----------------------------------------------------------------------------
ThreadStep(t) ==
    /\ main # "returned"
    /\ \/ Lock(t) \/ Test(t) \/ Wait(t) \/ Relock(t)
       \/ Read(t) \/ PrintChar(t) \/ Sleep(t) \/ Write(t) \/ NewLine(t) \/ Reset(t)
       \/ Unlock(t) \/ Signal(t) \/ Die(t) \/ DieLocked(t)

SpuriousWakeUp(t) == main # "returned" /\ WakeUp(t)
MainStep == CancelThread \/ DestroyMutex \/ LeaveMain

Next == MainStep \/ \E t \in Running : ThreadStep(t) \/ SpuriousWakeUp(t)

Spec == Init /\ [][Next]_vars

(* Threads are scheduled; nothing wakes one up that waits for a signal. *)
FairSpec ==
    /\ Spec /\ WF_vars(MainStep)
    /\ \A t \in Threads \cup {"A", "B"} : WF_vars(t \in Running /\ ThreadStep(t))
-----------------------------------------------------------------------------
(* The mutex of ex4-1b.c puts the characters into the order of the string, *)
(* line after line, until main destroys it.  ex4-2.c does so without any   *)
(* lock, by the parity alone, until a thread reads the index another one   *)
(* is about to reset.                                                      *)
InOrder ==
    [][(program = "ex4-1b" /\ mutex # "destroyed") \/ (program = "ex4-2" /\ ~ past)
       => screen' = screen \/ last' = Follows(last)]_vars

(* Without order, threads print characters again and jump back and forth,  *)
(* but none is printed before the one in front of it has ever been: a      *)
(* thread prints a character before it lets others see the next index.     *)
NoneSkipped == \A s \in printed : 0..s \subseteq printed

(* The one way for A and B to wait for each other is a signal that comes   *)
(* between the test of the index and the wait, which nobody locks.         *)
StuckMeansMissed == waiting = {"A", "B"} => missed

(* Cancelled threads of lab4.c reach a cancellation point; in the others a *)
(* thread may end with the mutex and leave the next ones in a lock that is *)
(* no such point, but the return of main ends them.                        *)
Ended == main = "returned" \/ (main = "left" /\ \A t \in Running : thread[t].at = "dead")
ProgramEnds == <>Ended
=============================================================================
