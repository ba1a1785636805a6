---------------------------- MODULE PrimeService ----------------------------
(***************************************************************************)
(* The prime number service (ELE 709/lab5): server.c computes primes for   *)
(* client.c, over two POSIX message queues.  The client has two threads:   *)
(* one prompts for numbers and sends them, the other prints what comes     *)
(* back.  Both use the same buffer, the global array message, without a    *)
(* lock.  Each use of the buffer is a step of its own; a race inside one   *)
(* use would only add further mixtures of the two strings.                 *)
(***************************************************************************)
EXTENDS Integers, FiniteSets, Sequences

CONSTANTS Numbers,      (* the non-negative numbers users type             *)
          MaxTyped,     (* bound: how many of them                         *)
          Capacity,     (* mq_maxmsg, 10 in the code                       *)
          Width,        (* sizeof(message), 10 in the code                 *)
          MaxCandidate  (* bound: the largest prime the model looks for    *)

ASSUME PrimeAssumption ==
    /\ Numbers \subseteq Nat /\ MaxTyped \in Nat
    /\ Capacity \in Nat \ {0} /\ Width \in Nat \ {0} /\ MaxCandidate \in Nat

-----------------------------------------------------------------------------
(* compute_prime: candidates that no smaller factor divides are counted    *)
(* until the nth is there.                                                 *)
IsPrime(candidate) ==
    \A factor \in 2..candidate - 1 : candidate % factor # 0

Primes == {candidate \in 2..MaxCandidate : IsPrime(candidate)}

Rank == [p \in Primes |-> Cardinality({q \in Primes : q <= p})]

ComputePrime(n) == CHOOSE p \in Primes : Rank[p] = n

(* Strings as sequences of digits, Nul the byte that ends them in memory.  *)
Nul == 10

Digits[n \in Nat] == IF n < 10 THEN <<n>> ELSE Append(Digits[n \div 10], n % 10)

(* Writing s into a buffer leaves the bytes after it as they are. *)
Overwrite(buffer, s) ==
    [i \in 1..Width |-> IF i <= Len(s) THEN s[i] ELSE buffer[i]]

(* A faulty sprintf that does not end the string. *)
PrintedBare(buffer, n) == Overwrite(buffer, Digits[n])

(* sprintf(message, "%d", n) ends the string, a received message does not. *)
Printed(buffer, n) == Overwrite(buffer, Append(Digits[n], Nul))

(* A faulty receive that leaves a string of its own length. *)
ReceivedAlone(buffer, s) == s

Received(buffer, s) == Overwrite(buffer, s)

(* atoi reads digits up to the first byte that is none: value[i] is what   *)
(* it has once it has read i of them.                                      *)
Number(s) ==
    LET value[i \in 0..Len(s)] == IF i = 0 THEN 0 ELSE 10 * value[i - 1] + s[i]
    IN  value[Len(s)]

TextLength(buffer) ==
    CHOOSE k \in 0..Width : /\ \A i \in 1..k : buffer[i] # Nul
                            /\ k < Width => buffer[k + 1] = Nul

Atoi(buffer) == Number(SubSeq(buffer, 1, TextLength(buffer)))
-----------------------------------------------------------------------------
VARIABLES requests,     (* clientRequest: what prompt sends to the server  *)
          answers,      (* serverReturn: what the server sends to print    *)
          message,      (* the client's buffer                             *)
          stopPrinting, (* stop_printing                                   *)
          prompt,       (* the prompt thread: where it is, and its n       *)
          print,        (* the print thread: where it is                   *)
          server,       (* the server: where it is, and its prime          *)
          typed, shown, (* histories: what the user typed and saw          *)
          hasty         (* a history: was a number typed before the answer *)
                        (* to the last one was shown?                      *)

vars == <<requests, answers, message, stopPrinting, prompt, print, server,
          typed, shown, hasty>>
user == <<typed, shown, hasty>>

Bytes == 0..Nul

TypeOK ==
    /\ requests \in Seq(Seq(Bytes)) /\ Len(requests) <= Capacity
    /\ answers \in Seq(Seq(Bytes)) /\ Len(answers) <= Capacity
    /\ message \in [1..Width -> Bytes]
    /\ stopPrinting \in BOOLEAN
    /\ prompt \in [at : {"prompt", "send", "stop", "exit"}, n : Nat]
    /\ print \in {"poll", "receive", "show", "check", "exit"}
    /\ server \in [at : {"receive", "send", "gone"}, prime : Nat]
    /\ typed \in Seq(Nat) /\ shown \in Seq(Nat) /\ hasty \in BOOLEAN

Init ==
    /\ requests = <<>> /\ answers = <<>>
    /\ message = [i \in 1..Width |-> Nul]
    /\ stopPrinting = FALSE
    /\ prompt = [at |-> "prompt", n |-> 0]
    /\ print = "poll"
    /\ server = [at |-> "receive", prime |-> 0]
    /\ typed = <<>> /\ shown = <<>> /\ hasty = FALSE
-----------------------------------------------------------------------------
(* The user types a number, and prompt puts it into the buffer.  What is   *)
(* no number, or negative, or the end of the input, leaves n below 0 and   *)
(* the thread where it is: at the prompt, for good if scanf cannot go on.  *)
Type ==
    /\ prompt.at = "prompt"
    /\ \E n \in Numbers :
          /\ Len(typed) >= MaxTyped => n = 0
          /\ prompt' = [at |-> "send", n |-> n]
          /\ message' = Printed(message, n)
          /\ typed' = Append(typed, n)
    /\ hasty' = (hasty \/ Len(shown) # Len(typed))
    /\ UNCHANGED <<requests, answers, stopPrinting, print, server, shown>>

(* It sends the buffer as it is then, all of it; mq_send waits for room. *)
SendRequest ==
    /\ prompt.at = "send"
    /\ Len(requests) < Capacity
    /\ requests' = Append(requests, message)
    /\ prompt' = [prompt EXCEPT !.at = IF prompt.n = 0 THEN "stop" ELSE "prompt"]
    /\ UNCHANGED <<answers, message, stopPrinting, print, server, user>>

(* A faulty prompt that leaves without telling. *)
StopSilently ==
    /\ prompt.at = "stop"
    /\ prompt' = [prompt EXCEPT !.at = "exit"]
    /\ UNCHANGED <<requests, answers, message, stopPrinting, print, server, user>>

Stop ==
    /\ prompt.at = "stop"
    /\ stopPrinting' = TRUE
    /\ prompt' = [prompt EXCEPT !.at = "exit"]
    /\ UNCHANGED <<requests, answers, message, print, server, user>>
-----------------------------------------------------------------------------
(* mq_getattr: is there a message?  If not, go on to the check. *)
Poll ==
    /\ print = "poll"
    /\ print' = IF answers = <<>> THEN "check" ELSE "receive"
    /\ UNCHANGED <<requests, answers, message, stopPrinting, prompt, server, user>>

ReceiveAnswer ==
    /\ print = "receive"
    /\ answers # <<>>
    /\ answers' = Tail(answers)
    /\ message' = Received(message, Head(answers))
    /\ print' = "show"
    /\ UNCHANGED <<requests, stopPrinting, prompt, server, user>>

(* What it prints is what the buffer holds by now. *)
Show ==
    /\ print = "show"
    /\ shown' = Append(shown, Atoi(message))
    /\ print' = "check"
    /\ UNCHANGED <<requests, answers, message, stopPrinting, prompt, server,
                   typed, hasty>>

(* A faulty printer that leaves when nothing is there. *)
CheckIdle ==
    /\ print = "check"
    /\ print' = IF answers = <<>> THEN "exit" ELSE "poll"
    /\ UNCHANGED <<requests, answers, message, stopPrinting, prompt, server, user>>

(* Answers that are still on the way are nobody's concern any more. *)
Check ==
    /\ print = "check"
    /\ print' = IF stopPrinting THEN "exit" ELSE "poll"
    /\ UNCHANGED <<requests, answers, message, stopPrinting, prompt, server, user>>
-----------------------------------------------------------------------------
(* The server takes a request: 0 ends it, otherwise it computes a prime,   *)
(* here one of those up to the bound.                                      *)
Compute ==
    LET n == Atoi(Head(requests)) IN
    /\ server.at = "receive"
    /\ requests # <<>>
    /\ requests' = Tail(requests)
    /\ \/ n = 0 /\ server' = [server EXCEPT !.at = "gone"]
       \/ /\ \E p \in Primes : Rank[p] = n
          /\ server' = [at |-> "send", prime |-> ComputePrime(n)]
    /\ UNCHANGED <<answers, message, stopPrinting, prompt, print, user>>

(* mq_send waits for room; strlen leaves the end of the string out. *)
SendAnswer ==
    /\ server.at = "send"
    /\ Len(answers) < Capacity
    /\ answers' = Append(answers, Digits[server.prime])
    /\ server' = [server EXCEPT !.at = "receive"]
    /\ UNCHANGED <<requests, message, stopPrinting, prompt, print, user>>
-----------------------------------------------------------------------------
PromptThread == SendRequest \/ Stop
PrintThread  == Poll \/ ReceiveAnswer \/ Show \/ Check
ServerLoop   == Compute \/ SendAnswer
Next == Type \/ PromptThread \/ PrintThread \/ ServerLoop

Spec == Init /\ [][Next]_vars

(* Two threads and a process that are scheduled.  Nothing obliges a user   *)
(* to type another number.                                                 *)
FairSpec == Spec /\ WF_vars(PromptThread) /\ WF_vars(PrintThread) /\ WF_vars(ServerLoop)
-----------------------------------------------------------------------------
(* A received message leaves what stands after it in the buffer.  Has any  *)
(* string in the buffer been longer than the answer to number i?           *)
Answer(i) == Digits[ComputePrime(typed[i])]
NothingLonger(i) ==
    /\ \A j \in 1..i : Len(Digits[typed[j]]) <= Len(Answer(i))
    /\ \A j \in 1..i - 1 : Len(Answer(j)) <= Len(Answer(i))

(* A user who waits for each answer sees one per number, and the right one *)
(* as long as the buffer has not held a longer string.                     *)
ShowsPrimes ==
    ~ hasty => /\ Len(shown) <= Len(typed)
               /\ \A i \in 1..Len(shown) :
                     typed[i] # 0 /\ NothingLonger(i)
                     => shown[i] = ComputePrime(typed[i])

(* For such a user a 0 ends everything: both threads and the server.       *)
ZeroEndsAll ==
    ~ hasty /\ prompt.at = "send" /\ prompt.n = 0
    ~> prompt.at = "exit" /\ print = "exit" /\ server.at = "gone"

(* However fast the user types, what was typed is sent in the end: the     *)
(* prompt thread never stays in mq_send.                                   *)
TypedIsSent == prompt.at = "send" ~> prompt.at # "send"
=============================================================================
