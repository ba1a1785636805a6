# A TLA+ development of TMU-Projects

This directory holds TLA+ models of the programs in this repository that have
behaviour worth modelling: several processes, threads or circuits that talk to
each other.  TLC checks the models on small instances; TLAPS proves most of their safety for
every value of their constants.  Paths below are relative to `src/`.

## 1. Inventory

The repository collects course projects.  Most of its files are output of
tools (Quartus databases, netlists, Qsys systems).  The programs are these.

| Component | Sources | State | Operations | Interacts by | Status |
|---|---|---|---|---|---|
| Index server | `COE 768/p2p_project/index_serverv2.c` | linked list of (peer, content, address) | R register, S search, T deregister, O list | UDP, one request at a time | modelled, proved |
| Peer | `COE 768/p2p_project/p2p_peer.c` | name, `reg_contents`, files, children | menu R O S T D Q, accepting, serving in a forked child | UDP to the server (socket shared by parent and children), TCP between peers | modelled, proved |
| File transfer, UDP | `COE 768/lab5/lab5_*.c` | server's file position and `bytesToRead`, client's copy | send a file in pieces, the last one of type F | UDP, no acknowledgements | modelled, proved |
| File transfer, TCP | `COE 768/lab4/lab4_*.c` | child per connection, client's copy | send a file in packets | a TCP byte stream | modelled, proved |
| Prime service | `ELE 709/lab5/client.c`, `server.c` | global `message`, `stop_printing` | prompt, print, compute | two threads, two message queues | modelled, proved |
| Multiplier and divider IP | `COE 838/lab4/lab4_vnc` (VHDL and `main.c`) | control and data registers, pipelines, done signals | reset, load, start, wait, read | bus transfers against a clock | modelled, proved |
| String printers | `ELE 709/lab4` | `string_index`, a mutex, the threads' copies of the index | print the next character, cancel the threads | threads, mutex, condition variable | modelled, proved |
| MD5 hardware | `COE 838/project/md5-rtl` | per cruncher: four words, digest, round, step; memories and ROMs | write a chunk, start, crunch, add up, reset | clock, ROMs, bus | modelled, proved |
| Motor controllers | `ELE 709/project` | parameters, samples, reference | menu, control thread | thread, semaphore, motor library | not modelled, see section 5 |
| Echo, time and first file servers | `COE 768/lab2`, `lab3`, rest of `lab4`, `lab5` | none to speak of | one exchange | TCP, UDP | not modelled: superseded by the above |
| Exercises on processes, timers, queues | `ELE 709/lab1`-`lab3`, `lab5` | - | straight-line programs | fork, queues | not modelled |
| LED application, SystemC circuits, COE 328 circuits | `COE 838/lab1`-`lab3`, `COE 328` | - | combinational, or a few states | simulated stimuli | not modelled |
| Generated and vendor files | most of the tree | - | - | - | not modelled |

`PROJECT.json` has the same list with the exact files and reasons.

### What is hard about them, and what makes them correct

* **Index server.**  A list that must stay a set of registrations under every order of
  requests, repeated and lost ones included: no pair twice, a name with
  one address, searches that keep answering with the same provider while it is listed.
  Removal looks at the nodes after the head before the head itself and is
  right only because no pair is listed twice.
* **Peers.**  A parent and its children read the same UDP socket, so an answer
  goes to whoever reads first.  Nothing is repeated or timed out.  While it downloads,
  a peer does not accept.  A provider withdraws its content before
  it closes the stream, and the downloader registers after that.  Correct means: what a peer has
  noted is listed, only the owner removes it, quitting leaves nothing behind,
  a provider is off the list before a download of it ends, and downloads end.
* **UDP transfer.**  A PDU of type F is the only sign of the end; the length is read once
  with `fstat` and the file may change; a client killed half-way leaves
  a file that makes the next attempt fail.  Correct means: a copy is whole
  unless the network failed, no file gets bytes of another, two clients never
  write one file, and transfers end if nothing goes wrong.
* **TCP transfer.**  `read` is taken for one packet, but TCP has no packets.
* **Prime service.**  Two threads use one buffer without a lock; two bounded
  queues could block both sides.
* **Multiplier and divider.**  `start` is never cleared, so from the second
  iteration on `done` is up before the operands are there; the results are right
  because the bus is slower than the pipeline, and that is what needs showing.
* **String printers.**  Three ways for threads to share an index: not at all, with a mutex, and with
  a condition variable whose mutex nobody locks.  Correct means: the characters come in order
  where something orders them, none is skipped where nothing does, both threads wait
  only after a signal that came too early, and the process ends although threads are
  cancelled with a mutex in their hands.
* **MD5.**  The round counter runs two edges ahead of the adder, because ROMs and memory show a word one
  edge after its address; starts, resets and the host's writes to the other crunchers may
  fall on any edge.  Correct means: a cruncher that is done has the digest of the chunks it was
  started with, and of nothing else.

## 2. Modules

| Module | Models | Used by |
|---|---|---|
| `IndexProtocol` | requests, answers and the datagram queues between peers and server | `IndexDirectory`, `IndexServer`, `PeerNetwork` |
| `IndexDirectory` | what the server promises: a *set* of registrations | `IndexServer` (refinement) |
| `IndexServer` | the server's loop over the linked list | `MCIndexServer`, `PeerNetwork` |
| `PeerNetwork` | peers around the server, their children, files and streams | `MCPeers` |
| `PeerHandOver` | `PeerNetwork` with a history variable: which children ask alone on the socket they share | `MCHandOver` |
| `UdpTransfer` | lab 5: one server loop, clients that are run and run again, accidents | `MCUdp` |
| `TcpTransfer` | lab 4: byte streams | `MCTcp` |
| `PrimeService` | both threads, the server, the queues | `MCPrimes` |
| `CustomIp` | both units edge by edge, both drivers transfer by transfer | `MCCustomIp` |
| `StringPrinters` | the three programs of `ELE 709/lab4`, access by access | `MCPrinters` |
| `Md5Algorithm` | one chunk of MD5, with the operations on words as parameters | `Md5`, `Md5Group` |
| `Md5` | what a cruncher promises its host | `Md5Group` (refinement) |
| `Md5Group` | crunchers, memories, ROM ports, edge by edge | `MCMd5` |
| `Md5Words` | the circuits on words (`fcalc`, `gcalc`, `leftrotate`, the adder) at any width, and the ROMs' contents | `MCMd5` |

The proofs are in modules of their own, each of which extends the module it is about:
`IndexServerProofs`, `PeerNetworkProofs`, `UdpTransferProofs`, `TcpTransferProofs`, `PrimeServiceProofs`,
 `CustomIpProofs`, `StringPrintersProofs`, `Md5GroupProofs`.

Operators whose comment begins with "A faulty ..." are never part of a specification:
they are plausible bugs which, put in place of the definition
after them, make a property fail.  `PROJECT.json` lists which one breaks which property,
and the source lines of every other definition.

### How state and actions correspond to the code

**IndexServer.**  `index` is the list from the head on; a node is an `Entry`.
`inbox` and `outbox[p]` are the server's socket and the peer's.  One step
(`Serve`) is one turn of the loop at line 76: `Register` scans for the first
node that decides (`FirstStop`, lines 115-149) and appends, or answers with a refusal; `Search` is answered by the
first node with the content; `Unlink` takes the first match after the head, else the head
(lines 230-261); `List` sends a line for each node and a closing 'A'; every other type is ignored.
The text of a refusal is longer than the name field and runs into the content field; `Spill` is what that holds then.
Clients may send anything to it, under any name, in any order, and `Lose`
drops any datagram.

**PeerNetwork.**  `main[p]` is the memory of the parent process and the place where it blocks;
one step is what a process does between two reads that can block.
`kid[p][k]` is a forked child (it has a copy of the name), `conn[p]` the TCP stream a peer reads, `backlog[p]` the
connections nobody accepted yet.  `ready` is the bit of the listening socket in
`rfds`, which is tested again after the command (line 442), perhaps when it no longer
holds.  `files[p]` are the contents that `p`'s directory has files of; what their bytes are is left out.  Of a stream
`conn[q].got` tells what a client finds in it before its end: no byte, packets of a file, or one 'E'.  Each `read` of lines 290-307 is
taken for a packet wherever it stops, so data may make the peer keep the file, remove it, or work on a `FILE` it has closed,
which it may not survive; `EndDownload` allows all three, when the stream has ended.  Whatever is kept is published.
`Server == INSTANCE IndexServer` makes the server's turn the very action that
is proved about.  Simplifications: the fork and the parent's close are one
step, as are `connect` and the write of the request, and the packets of a file (what pieces they
arrive in is the subject of `TcpTransfer`); the network loses datagrams but neither doubles nor reorders
them, so what is shown of the peers is shown of such networks; a child is never killed because its client has gone; no
peer's backlog reaches its limit of five; the commands `L` and `?` change nothing and are
left out; the write past the end of `reg_contents` (line 188) is modelled as a
registration that is not noted.

**PeerHandOver.**  `sole[p][k]` is set when child `k` sends its 'T' on a socket where nothing is under way (`Quiet`), or the same 'T'
as a sibling for which it is set, and stays until the child ends or anything else is sent.  No guard reads it.

**UdpTransfer.**  `task` is the server's turn of line 68-114: whom it sends what, `left` is `bytesToRead`, `pos` the file offset.
A client is a process of its own each time (`run` stands for its port); `disk`
outlives it.  `unread[c]` is the receive buffer of its socket: `Put` adds a datagram, one that finds it full is
dropped and remembered in `missed`.  A byte is the pair of its file and offset, so that a copy shows what it is
made of.  `open()` in both clients is called with `S_IRWXU` among its
flags; on Linux those bits are `O_CREAT|O_EXCL|O_NOCTTY`, so it fails when the
file exists (`Creates`).  `accidents` records losses, duplicates, overtaking, edits,
and stops of the server or a client.

**TcpTransfer.**  `stream[c]` is a sequence of bytes; `Read` takes any
number of them, up to a packet.  Of a byte only its value as a packet type
matters: 'D', 'E' or other.  `whole` remembers that no read of that client stopped early.

**PrimeService.**  Every use of the buffer `message` is a step: `sprintf`,
`mq_send`, `mq_receive`, `atoi`.  The conversions are modelled by what they do,
down to the bytes an earlier and longer string leaves behind, since `mq_receive` stores no
end of string.  Input that is no number leaves the prompt thread where it is, as a user does who types nothing.  The
queues are there when the client starts: a client whose `mq_open` fails is left out.

**CustomIp.**  One step is one edge of the 50 MHz clock.  A write occupies one
edge; a read two (`readWaitTime 1` in `*_hw.tcl`), the slave's answer being
the one it latched at the first.  Any number of edges may pass between transfers (`Idle`).
`Edge` moves both pipelines and done signals at every step, with `reset2` as
their asynchronous clear.  What is computed stands for its operands.  The
done signals may have any value at power-up, each its own.  The
programs are the two `main.c`; the variable `program` says which.

**StringPrinters.**  A step is one access to what the threads share: `Read` takes
`string_index` into `tmp_index`, `PrintChar` puts the character on the screen, `Write` stores the
next index, `Reset` the wrap to 0.  `program` picks one of the three sources; where they differ
(`Top`, `Bottom`, `LastChar`, `PthreadExit`) a definition says how.  `Wait`, `WakeUp`, `Relock` and
`Signal` are the condition variable, spurious wake-ups included; `Release` frees the mutex
whoever holds it, as the library does.  `Die` is a cancellation that is acted upon, at a
cancellation point only.  Of an index past the end only the parity matters, so `Up` stops at
`Size + 2`.  The main thread of `ex4-2.c` waits in `pthread_cond_destroy` until nobody waits (`LeaveMain`).  `printed`, `last`, `past` and `missed` are histories and guard nothing.

**Md5Group.**  One step is one rising edge for all crunchers.  `cc[c]` are the registers of
`chunk_cruncher.vhd` (`stage`, `step`, `ireg`, `freg`, `t0`, `t1`, the working words `reg` and the
digest `hash`); `Clocked` is its clocked process, with `Crunch` and `Finalize` for its two stages.
`q[c]` is what the ROM ports and the memory show, latched at the edge from the address seen
before it (`Latched`); a memory written and read at one address shows anything (`Garbage`).
The host keeps to what the test benches and the application do (`MayStart`, `Free`): it
writes to crunchers that are done and starts those.
A digest read off the registers by `Digest` is the abstract one from the first edge of the final
sum on.

## 3. Runs

| Run | Properties | Shows | Bounds and why they are enough |
|---|---|---|---|
| `index_server` | `TypeOK`, `UniqueEntries`, `OneAddressPerName`, `StableProvider`, `ImplementsDirectory` | the list is a directory under every order of requests | 2 peers, 2 names, 2 contents: names clash and the list grows to all four pairs; one request under way, and a request is sent only when no answer waits (`MaxUnread` 0), as the server never reads its answers; symmetry, for safety only |
| `peers_registrations` | `QuitLeavesNothing`, `NotedMeansListed`, `OnlyOwnerRemoves` | registering, listing, renaming, deregistering and quitting over a lossy network | 2 peers, 2 contents, 3 commands each, starting under two names or one |
| `peers_downloads` | `TypeOK`, `ServerSpec`, `AnswersMatchReaders`, `StuckOnlyInCircle`, `ClosesWithdrawn` | 3 peers that also download: the server's specification, the shared socket, who can hang, and what a child that asks alone has done when it closes | 1 content, 2 commands each, 2 children each (as many as there are other peers) |
| `peers_serving` | `HandOver`, `DownloadsEnd` | one provider and two downloaders: downloads end, and the provider is off the list by then | 2 contents, of which the provider may register either and has a file of one; 1 command each; with a second command of the provider `HandOver` is false |
| `peers_rename` | `RegistrationEnds` (violated) | a peer that renames waits for ever | 2 peers, 2 commands |
| `peers_stolen_answer` | `NotedMeansListed` (violated) | with children, a parent notes what is not listed | 2 peers, 2 commands |
| `udp_transfer` | `TypeOK`, `OneWriter`, `OnlyItsBytes`, `CopyIsWhole`, `LastArrived`, `TransferEnds` | the transfer under up to two accidents of any kind | 2 users in one directory, 2 runs each; a file of three pieces, the last one short, an empty one and a missing one; 2 datagrams fit a client's socket, so the third piece may find it full |
| `tcp_transfer` | `TypeOK`, `OneWriter`, `CopyIsFile`, `TransferEnds` | two clients, reads that stop anywhere; whose reads return whole packets has the server's file | packets of 2 bytes: a file of a full packet and a short one whose bytes look like packet types, an empty file and a missing one |
| `primes` | `TypeOK`, `ShowsPrimes`, `ZeroEndsAll`, `TypedIsSent` | patient users see the right primes, and their 0 ends everything; the prompt never stays in `mq_send` | queues of 1 message instead of 10 so that they fill; numbers 0, 5 and 30 (one and two digits, primes 11 and 113 of two and three), so that a shorter answer may come after a longer one; a buffer of 5 bytes instead of 10; 3 numbers and then 0 |
| `custom_ip` | `TypeOK`, `ReadsOwnResult`, `DoneIsFilled`, `IterationEnds` | every iteration reads the result of its own operands, and ends | 3 operands, so that the operands of this and an earlier iteration and the zeros at power-up differ; iterations without bound |
| `printers` | `TypeOK`, `NoneSkipped`, `StuckMeansMissed`, `InOrder`, `ProgramEnds` | the three disciplines of sharing an index, and the end of the process | 3 threads as in the code (A and B in `ex4-2.c`), a string of 3 bytes instead of 11: odd as there, with two characters and the end of the string; loops without bound |
| `md5` | `TypeOK`, `ImplementsMd5` | each cruncher computes MD5 whatever happens to the others | 2 crunchers, words of 2 bits, chunks of 2 words, 4 rounds (one per function), 2 chunks between resets; 3 possible writes, on both memories; starts and resets of any set of crunchers at any edge |

`MaxInbox` (6 for two peers, 9 for three) bounds the server's socket and never binds: a peer has at most one
request of its own and one of each child under way.  `MaxRegs` is 3 with at
most 3 commands, so the history of registrations is never full in these runs.
Deadlock is not checked where users may stop typing and processes end
(peers, transfers, primes, printers); it is checked for the index server and the hardware.

`MCMd5` also evaluates, at the size of the code, the chunk of the test bench `md5unit_tb.vhd`: the
algorithm gives the digest the test bench expects (`TestBench`), and `gcalc` the table of the
standard (`Standard`).

In `tcp_transfer`, `udp_transfer` and `primes` a history variable (`whole`, `missed`, `hasty`) tells the clients and
users apart for whom a property is claimed.  Reads that stop inside a packet, pieces that find a socket full and users
who type ahead are in the model and in the runs; what they get is told with the disagreements below.

The `TypeOK` of `PeerNetwork` includes that of the server.  `ServerSpec` says that the
whole network, seen through the server's variables, behaves as `IndexServer!Spec`, so that what is
proved there holds in the network.

### Fairness

* `PeerNetwork`: the server's turn, each parent and child whose read can return, and a user
  who is asked a question; never that a user types a command.
* `UdpTransfer`, `TcpTransfer`: the server's loop, children and clients are
  scheduled; never that a user runs the client, and never an accident.
* `PrimeService`: both threads and the server are scheduled; never that a number is typed.
* `CustomIp`: the program runs and the bus completes its transfers.
* `StringPrinters`: the main thread and every other thread that can go on; nobody is
  woken up without a signal.

All of it is weak fairness of processes that an operating system or a clock
schedules; no step waits for a particular choice to be made infinitely often.

### Disagreements the runs show

1. **Renaming never ends** (`p2p_peer.c:175`): the answer to the question
   is read into `command`, which the loop then sends as the PDU's type.
2. **Stolen answers** (`p2p_peer.c:538`): a child and its parent share a socket; a
   parent notes a registration on the answer to the child's 'T'.

Others met on the way, without a run of their own:

* Packets are not kept (`lab4_client.c:86`, `:91`): one `read` is taken for one packet, so a read that
  ends inside a packet spoils the copy (`CopyIsFile` is about the others).
* An answer that arrives between `sprintf` and `mq_send` is sent as the request (`client.c:32`, `:64`): the two threads
  share the buffer (`ShowsPrimes` is about users who wait for each answer).
* An answer comes without the end of its string (`server.c` sends `strlen` bytes), and `mq_receive` adds none: once the
  buffer has held a longer string, its tail is printed too (`client.c:64`; 5 after 30 shows 113 instead of 11).
  `ShowsPrimes` is about answers that nothing longer came before.
* `ex4-2.c` never locks its mutex: a signal can fall between the test and the wait, and both
  threads then wait until main cancels them (`StuckMeansMissed`).
* A refused publication ("DUPLICATE ENTRY" included) renames the peer
  (`p2p_peer.c:320-332`); what it registered under the old name is not withdrawn by 'Q',
  which sends the new one.  Neither is what no longer fits `reg_contents` (line 188).
* A provider that leaves during a download ends the stream; the downloader takes
  it for complete and publishes whatever arrived, nothing included (lines 290, 322).  A `read` that stops inside a packet has the
  next byte taken for a type: the file loses that piece, or is removed, and may be closed twice (lines 293-300).
* An empty file makes no F PDU (`lab5_server.c:104`), and its client waits for ever
  (`TransferEnds` excludes it).  A file that shrinks while it is sent makes the server send empty PDUs for ever.
* The server sends as fast as it reads (`lab5_server.c:112`); what finds the client's receive buffer full is gone, and the copy
  has a hole, or no end if it was the F PDU (`CopyIsWhole` and `TransferEnds` are about the other clients).
* "overwrite any existing file" (`lab5_client.c:75`, `lab4_client.c:78`) is what `open` refuses to do.
* `done` of the multiplier is up before a multiplication has been started again
  (`mult_unit.vhd:43` says it is delayed until it is complete); `ReadsOwnResult` holds nevertheless.
* A `print` thread that stops leaves answers in the queue; with more of
  them than the queue holds the server would stay in `mq_send` (`client.c:70`). For users who wait for each answer `ZeroEndsAll` holds.

## 4. Proofs

TLAPS checks 33 theorems, for every value of the constants that the named assumptions of the
modules allow.  These only say what the code has: sizes are numbers, files and names come from
their sets, the children of a peer are finitely many, `None` is nothing else.

| Module | Theorem | Statement |
|---|---|---|
| `IndexServerProofs` | `TypeCorrect` | `Spec => []TypeOK` |
| | `NoPairTwice` | `Spec => []UniqueEntries` |
| | `NameBelongsToOne` | `Spec => []OneAddressPerName` |
| | `ProviderIsStable` | `Spec => StableProvider` |
| | `ListIsADirectory` | `Spec => ImplementsDirectory`, i.e. `IndexDirectory!Spec` with `registered <- ToSet(index)` |
| `PeerNetworkProofs` | `TypeCorrect` | `Spec => []TypeOK` |
| | `ImplementsServer` | `Spec => ServerSpec`: the network, seen through the server's variables, is `IndexServer` |
| | `ServerPropertiesHold` | the theorems above about the list, for the whole network |
| | `EveryAnswerHasItsReader` | `Reliable` implies `Spec => []AnswersMatchReaders` |
| | `HungOnlyInCircle` | `Reliable` implies `Spec => []StuckOnlyInCircle` |
| | `NotedContentsAreListed` | `NoDownloads` implies `Spec => NotedMeansListed` |
| | `OnlyOwnersRemove` | `NoDownloads` implies `Spec => OnlyOwnerRemoves` |
| | `QuittingLeavesNothing` | `NoDownloads` and `Roomy` imply `Spec => []QuitLeavesNothing` |
| | `WithdrawnBeforeClosed` | `HSpec => ClosesWithdrawn` |
| `UdpTransferProofs` | `TypeCorrect` | `Spec => []TypeOK` |
| | `WritersAreAlone` | `Spec => []OneWriter` |
| | `CopiesAreNotMixed` | `Spec => []OnlyItsBytes` |
| | `CopiesAreWhole` | `Spec => CopyIsWhole` |
| | `LastByteArrived` | `Spec => LastArrived` |
| `TcpTransferProofs` | `TypeCorrect` | `Spec => []TypeOK` |
| | `WritersAreAlone` | `Spec => []OneWriter` |
| | `CopiesAreFiles` | `Spec => CopyIsFile` |
| `PrimeServiceProofs` | `TypeCorrect` | `Spec => []TypeOK` |
| | `PrimesAreRight` | `Fits` implies `Spec => []ShowsPrimes` |
| `CustomIpProofs` | `TypeCorrect` | `Spec => []TypeOK` |
| | `ResultsAreOwn` | `Spec => []ReadsOwnResult` |
| | `DoneMeansFilled` | `Spec => []DoneIsFilled` |
| `StringPrintersProofs` | `TypeCorrect` | `Spec => []TypeOK` |
| | `NothingIsSkipped` | `Spec => []NoneSkipped` |
| | `StuckOnlyByMissedSignal` | `Spec => []StuckMeansMissed` |
| | `PrintedInOrder` | `Spec => InOrder` |
| `Md5GroupProofs` | `TypeCorrect` | `Spec => []TypeOK` |
| | `ImplementsThePromise` | `Spec => ImplementsMd5`: each cruncher implements `Md5` |

### The arguments

**Index server.**  The inductive invariant is `IInv == TypeOK /\ UniqueEntries /\ OneAddressPerName`.
`TypeOK` is inductive alone.  The other two need the scan: `Register`
appends only when no node stopped the scan, and a node stops it when it has the name at
another address or the name and the content; so a new pair is new and its name has no other address.
Removal keeps both since what is left is a subsequence of the list; the lemmas on `Sublist` say
so once for both ways `Unlink` takes.  Refinement needs `NoPairTwice`: removing *one* node
removes the pair from the *set* of nodes only if no other node has it.
Stability of the provider needs that registrations go to the end and that
removal keeps the order.

**Peer network.**  Types alone are not inductive: a child writes to `conn[q]` of its client, which must be a
connection and not `None`.  The invariant is
`Inv == TypeOK /\ Working /\ SearchAnswers /\ Links`.  `Links` relates four variables: whoever is in a backlog
(`Queued`) or has a child (`Served`) sits in the read loop of an open stream to that peer, and is there only
once; whoever sits in such a loop is in one of the two (`Attended`); and a peer that has left has no backlog (`Left`).
`Working` says that a parent at work has a content in its memory, and that 'Q' never counts past
its history; `SearchAnswers` that an 'S' from the server names a content.  Each action is then also shown to be a
step of the server's `Next` or to leave the server alone, which is refinement;
`ServerPropertiesHold` transfers the server's theorems along it, without proving them again.

**Shared socket.**  `Reliable` says: no loss, no rename at the question of 'R', nobody uses 'O'.  Without it the equation is false, and the code offers
nothing in its place: a lost answer and a 'Y' leave a reader without, a list has any number
of answers.  Each action is shown to add or remove the same number on both sides of `Waiting(p) = Pending(p)`.
Then `HungOnlyInCircle`: in a halted state nothing is pending, so nobody waits for the server; whoever hangs
downloads, is in the backlog of a peer that does not accept, and this one, which has not left by `Left`, must be
downloading itself.  So all downloading peers together are a circle.

**Names and the list.**  `NoDownloads` says that no menu has an 'S', so there are no children; the network may lose
datagrams and peers may rename themselves.  With children the properties are false, since a child takes an answer of its parent or
the other way round (run `peers_stolen_answer`).  The invariant is, besides `Inv` and the
server's `UniqueEntries`, `NamesInv == Idle /\ OneEach(inbox) /\ (\A p \in Peers : Fine(p)) /\ Distinct /\ Noted`: a peer has one request under way or the answers to
it, never both, and they are to the command it waits in; and every node of the list with its address is accounted for: it is in `reg_contents`,
or its 'A' is under way, or the 'Q' has yet to withdraw it, or the peer is stuck in a command whose datagram was lost and will
never quit.  `Roomy` (no more commands than `reg_contents` has room for) is needed for `QuittingLeavesNothing` only: the write past
its end (line 188) is a registration that 'Q' does not know of.

**How a file changes hands.**  A child withdraws the file it has sent and reads one answer before it closes.  If the answer is its own, the
node of that file is gone when the client sees the end of the stream; if it has taken an answer of its parent, the 'T' may still be under
way.  Whether it can do that depends on what else the peer asks meanwhile, and users may type what they like.  `ClosesWithdrawn` is
therefore about a child that asks alone, as `sole` records it, and `WithdrawnBeforeClosed` proves it without any hypothesis: users type
any commands before, elsewhere and afterwards, peers rename, list, quit and die, and the network loses any datagram.  The invariant is
`SoleInv`: a child that asks alone waits, its 'T' is the only request its peer can have under way, and once an answer is in the socket
the node is off the list.  A turn of the server keeps it since the request it takes is either this 'T', which removes the node
(`NoPairTwice` is needed: one node is removed, and it must be the only one), or another
peer's, which adds no node with this address; `Serving` is what one turn adds, takes off and answers.  Nobody else changes the list or
answers (`OnlyServerAnswers`).  `HandOver` says the same of every child and is false in general (see the runs); it is checked for one command
per user and not proved.

**Transfers.**  `OneWriter` is not inductive: it needs that a file somebody writes exists
(`WritersHaveFiles`, `Open`), since existence is what `open` looks at.  For `OnlyItsBytes` over UDP, every
datagram between disk and disk has to fit: requests and the server's turn belong to an
old or the present process of their client and to the file that process asked for, and so does what is in its
socket (`RequestsAsked`, `TaskAsked`, `UnreadFits`, `FilesFit`).  This holds under any number of accidents, while the run allows two.

That a copy is *whole* follows a file through the network.  Over TCP, `CopyInv == Queued /\ Silent /\ (\A c : CopyGrows(c))`:
copy, stream and what the child has yet to read are together the packets of the server's file, and a client whose
reads returned whole packets is at the border of one.  Over UDP nothing but the order of the datagrams says which piece is which, so
`CopyGrows(c)` of `CopyInv == RequestsAlone /\ TaskGoesOn /\ (\A c : CopyGrows(c))` numbers them: there is a sequence
`off` of offsets, one for each datagram in the socket, that grows along the socket and is exact when nothing was lost, with
the copy before the first, the server's position after the last, and an 'F' last only.  An edit of the file or a stop of the
server does not disturb this; a second request of the same process would (`RequestsAlone`), and so would datagrams that are doubled
or overtake each other.

**Prime service.**  `Fits` says that the digits of every number that can be typed, and of every prime in the table, leave room for a
`Nul` in the buffer; in C a longer string would be written past its end.  First the conversions, for every number:
`atoi` undoes `sprintf` (`NumberOfDigits`), whose recursive functions are shown to exist by
strong induction (`AllNumbers`, from least elements, since the library's induction theorems cannot be used here).  Then
the invariant `Patient` of a user who waits: the last number typed is in exactly one place - the buffer and the prompt thread, the
request, the server, the answer, the buffer and the print thread, or shown (`Turn`) -, and a byte of the buffer is `Nul` unless some string so far
reached it (`Blank`).  The second part is what ends an answer that comes without its end.

**Custom IP.**  `ReadsOwnResult` counts: the invariant says, for each place of the driver, how many stages of
each unit's pipeline hold the new operands (`Progress`), and that no unit says done with
an unfilled pipeline.  Between the last operand and the first result at least as many edges pass as the
pipeline has stages, whatever `done` says.

**String printers.**  One invariant per discipline: `ShownInv` (what a thread knows has been printed), for lost updates;
`OwedInv` (as long as no signal was missed, one of A and B that waits although its turn has come is owed a signal by the other, or the
other is dead), for the condition variable;
`LockedInv` (who is inside has the mutex, and the index and the last symbol agree with where it is) and
`TurnInv` (which thread may be where, by the parity of the index), for the order.

**MD5.**  `OnSchedule` says of each cruncher what its adder and its ROM ports hold at each step of each round, in terms of
the abstract rounds `Run(h, m)`, and what they hold when it is done, so that the next start finds
the first words.  Refinement follows edge by edge.  The operations on words are parameters: the
schedule is right whatever is computed, and `MCMd5` checks what is computed.

### Only model-checked

`HandOver`, which holds for one command per user only, and all liveness: `DownloadsEnd`, `RegistrationEnds`, both `TransferEnds`, `ZeroEndsAll`, `TypedIsSent`, `IterationEnds`, `ProgramEnds`.

## 5. Not modelled, and why

* **Motor controllers** (`ELE 709/project`).  A menu that changes one parameter at a time, and a
  thread that samples until the run ends while main sleeps in `pthread_join`: nothing interleaves, and
  the timer that posts the semaphore is in a library without source.  What goes wrong there is
  floating point: `N` is scanned as an int into the bytes of a float (`pidc.c:166`; a negative int is then no number, and
  passes the test for negative ones), a sampling frequency of 0 divides (`:179`), and the square wave is only
  refilled for a new frequency if the number of samples changes (`:194`).
* **Superseded versions**: the older copies of the peer-to-peer programs in `1am/`, the echo, time
  and first file servers the transfers grew out of, and the course's originals of lab 4.  Each would be a weaker
  version of a module that is there.
* **Exercises** on processes, timers and queues, SystemC and small circuits: straight-line
  programs and combinational functions.
* **The LED application**: memory-mapped writes in a fixed order.
* **Generated and vendor files**, by far the most of the tree.  Most lines in it that look like source are four copies of a vendor's
  memory calibration sequencer (`sequencer.c` and `sequencer.pre.c`, over ten thousand lines each) and generated
  headers (`soc_system.h`, the hand-off files of the boot loader).  They are no part of what these projects
  do, so the share of all lines that the modules map is small although the modelled programs are mapped nearly from end to end.

Within the modelled programs: wording and layout
of messages; failures of `socket`, `fork`, `malloc`; contents of files beyond what tells them
apart; the digits of addresses; the arithmetic of the multiplier and divider, which is the vendor's.

## 6. What is left

The programs with state shared between processes, threads or circuits are all modelled.  Left is a refinement from the
peers' downloads to the byte stream of `TcpTransfer`: `PeerNetwork` says what a stream can do to a file, not byte by byte how, and the read
loop of `p2p_peer.c:290` has the hazard that `lab4_client.c:86` has.  Nor is there a model of the peers over a network that doubles or
reorders datagrams.
