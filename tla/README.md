# Verification of the IPK24-CHAT client

The program is a chat client for the IPK24-CHAT protocol over UDP or TCP, in C,
with three POSIX threads. These TLA+ modules model both variants as they are
written, from the linked list of the message queue to the threads together:
TLC checks them on small instances, against abstract specifications where there
is one, and TLAPS proves every safety property of the queue, of the parsing of
typed lines and of the two clients for every instance.

## The system

| component | state | operations |
| --- | --- | --- |
| program interface (`libs/programInterface.c`) | `fsmState`, message counter, display name, condition variables, network configuration | `setProgramState`, `getProgramState` |
| message queue (`libs/msgQueue.c`) | linked list of messages, each with flags, confirmation, send counter and id; a mutex the callers lock | add, add in front, pop, pop all, label with an id, look up an id |
| main thread (`main.c`) | the line read, `eofDetected` | `userCommandHandling`: read, filter by state, assemble, queue, wait |
| sender thread (`protocolSender.c`) | the message to be sent, `resetLoop` | `filterResentMessages`, `logicFSM`, transmission, timed wait |
| receiver thread (`protocolReceiver.c`) | received datagram, queue of received ids | `handleConfirmUDP`, `handleReplyUDP`, `receiverFSM` |
| clean-up (`libs/cleanUpMaster.c`, `errHandling` in `main.c`) | everything that is to be freed | `sigintHandler` in the main thread, `errHandling` in any thread |
| protocol (`libs/ipk24protocol.c`) | none | assembly, disassembly, parsing of user input |
| buffers, sockets, command line (`libs/buffer.c`, `libs/networkCom.c`, `main.c`) | memory, socket | sequential helpers |

The threads share the program interface. Main queues the user's messages and
waits on `mainCond`. The sender takes the first message, sends it, waits at
most `udpTimeout` on `rec2SenderCond` and sends it again until it is confirmed
or was sent too often; with an empty queue it waits on `senderEmptyQueueCond`.
The receiver marks the first message as confirmed, pushes confirmations of the
server's messages in front of the queue, moves the state machine and signals
the other two. `fsmState` has a mutex of its own for each single access, the
queue one for each critical section; none of the condition waits tests a
predicate, and the mutex of the queue is not the mutex of the conditions.

In TCP the same loops run without confirmations and retransmissions: the sender
transmits a message once and removes it, the receiver takes one message from
each read of the stream. The sender's loop then lacks the `queueLock` at its
head, but not the `queueUnlock` in its middle.

What is hard here: three threads and a signal handler that test the state in
one critical section and act in another; signals that nobody waits for yet;
CONFIRMs and REPLYs that are late, early or repeated; time-outs that race with
them; ids and counters of 8 and 16 bits in signed `char`s; and ends of the
program that depend on all three threads agreeing. What makes the parts
correct:

- queue: the list is the sequence its callers have in mind; critical sections are entered with the mutex, only then is the queue changed, and the mutex is released again;
- commands: the arguments are cut out of the line where they stand, whatever the buffer held before;
- TCP: the login protocol is kept although the mutex is not;
- sender: stop and wait, a bounded number of transmissions, every message is settled in the end, nothing but AUTH before the login;
- receiver: every message of the server is acted on once, whatever the order and number of its deliveries;
- clean-up: SIGINT leaves no user data behind to be sent; a time-out leads through ERR and BYE to END.

`PROJECT.json` lists every hazard with its line and the properties about it.

## Modules

| module | models |
| --- | --- |
| `MessageId` | ids as two bytes, joined and compared as C does it (`utils.c`, `msgQueue.c`) |
| `MsgQueue` | the linked list of the queue in memory, its operations and loops |
| `MCMsgQueue` | the symmetry of the linked list, for TLC |
| `MessageSequence` | what the callers rely on: a sequence, and answers about it that are true of every id the comparison can recognise |
| `CommandLine` | reading a line, recognising its command, cutting and checking its arguments |
| `ProgramInterface` | the shared state, messages and the operations on the queue, condition variables, the forms of step the threads are made of |
| `UserCommands` | the main thread |
| `CleanUp` | `sigintHandler`, `errHandling` |
| `UdpSender`, `UdpReceiver` | the sender and the receiver thread in UDP, the deliveries of the network |
| `UdpClient` | the composition in UDP and its safety properties |
| `StopAndWait` | what the UDP client promises about its messages: one at a time, a limited number of tries |
| `UdpLiveness` | fairness and liveness properties |
| `TcpSender`, `TcpReceiver` | the TCP branches, on top of the steps the variants share; the stream of the server's messages |
| `TcpClient` | the composition in TCP and its safety properties |
| `DocumentedClaims`, `TcpClaims` | what documents, comments and assertions say and the code does not keep |
| `MsgQueueProofs` | theorems about the linked list |
| `UdpClientProofs` | types and lock discipline of the UDP client |
| `UdpStepProofs` | what a step of each UDP thread may do; release of the mutex |
| `UdpQueueProofs` | one message in flight, bound on transmissions, SIGINT |
| `UdpProtocolProofs` | the login in UDP; no message printed twice; changes of the queue under the mutex |
| `UdpRefinementProofs` | the UDP client implements `StopAndWait` |
| `TcpClientProofs` | the login and the open session in TCP |
| `CommandLineProofs` | what is cut out of a typed line |

`UdpClient` is composed of `UserCommands`, `CleanUp`, `UdpSender` and
`UdpReceiver`, and `TcpClient` of the first two with `TcpSender` and
`TcpReceiver`; all of them extend `ProgramInterface`. There the queue is a
sequence, which `MsgQueue` is shown to implement; the command a line is
recognised as is a choice, which `CommandLine` resolves. These two are modules
of their own and not part of the composition.

**State.** `fsm`, `queue`, `lock`, `msgCounter` and `named` are the fields of
the program interface. `pc[t]` says where thread t is; the labels are the places
between two accesses to shared state. `cmd`, `eof`, `typed`, `resetLoop`,
`msgToBeSend`, `rx`, `repetitiveMsg` and `confirmedMsgs` are locals of the
threads. `wire`, `requests`, `srv` and `dup` belong to the network: what was
sent, so that only that is confirmed or answered, and what was delivered once
and twice. `acted` is a history variable: the server's messages the receiver has
acted on.

**Atomicity.** A step is one access to shared state: one read or write of
`fsmState`, one critical section of the queue (or the part of it between two
accesses to `fsmState`), one signal. Two shortenings: `queueLock` followed by
work on the queue is one step, which is enabled when the mutex is free, and the
unlock is part of the last step of the section. Both commute with the steps of
other threads, which cannot enter.

**Condition variables.** A signal wakes one thread that waits and is lost if
there is none. `Spurious` also lets a wait return by itself. The code calls
`pthread_cond_wait` with mutexes of their own (`mainMutex`, `rec2SenderMutex`,
`senderEmptyQueueMutex`) that no signalling thread takes, so they order nothing
and are left out.

**Data.** A message is its type, flags, `confirmed`, send counter and id; texts are
left out. An id that was never written is `NoId`: the assembler skips those
bytes, and a comparison with them has either outcome. A typed line is one of
the commands it can be recognised as (`OTHER` queues nothing); `named` says
whether there is a display name, without which ERR and MSG cannot be assembled.

**The network** delivers CONFIRMs of what was sent, REPLYs to what was asked, and
messages of the server with ids of its own, late, in any order, or never;
`Duplicates` lets it deliver each of them twice. `SHORT` is a datagram without
a whole header, which `queueAddMessageOnlyID` reports with both mutexes locked. Its id
bytes are those an earlier datagram left in the buffer; if they are the id of a
recorded message of its type it passes for a repetition of that message
(`ShortRepeats`, once for each record).

**The linked list** (`MsgQueue`). Cells come from a set of addresses and hold
whatever was there before until they are written; a freed cell keeps its
pointers. The loops of `queuePopAllMessages` and `queueContainsMessageId` are
one step per cell, the other operations one step each, as their callers hold the
mutex. A cell holds a type, the two bytes of an id and flags; a search compares the
bytes of the incoming id as signed numbers with the stored unsigned ones, so an id
with a byte at or above the sign bit is denied although it is there. An answer is
kept with its question (`answer`) until the next change. The history variable `order` has the cells in the order in which they are
to be sent, and is read by properties only.

**A typed line** (`CommandLine`) is a string of character classes. The command it
begins with is one cell, because commands are compared as a whole and all that
matters is which one they are the beginning of. The buffer starts with the rest of
an earlier line, and the byte before it, which `getWord` reaches when a search
fails, is zero.

**TCP.** Each critical section of the receiver is its lock and the rest of it, two
steps, since the sender may free the mutex in between. When two threads are inside
at once, one may go after the other, or the list is corrupted and the process is
not followed further (`Race`): that is undefined behaviour, and nothing is
concluded from it. The sections of the SIGINT handler and of `errHandling` stay
single steps. A read takes the first message of the stream and leaves the rest,
or drops it (`TcpDelivery`); the bytes of a message cut in two are `UNKNOWN`.

**SIGINT** may come at any step of the main thread; the handler runs in it and
main never goes on. A main thread that holds the queue's mutex then waits for
itself, which the model shows as a handler that cannot go on: it is one of the
three causes `MutexReleased` excepts.

## Constants and bounds

| constant | meaning | in the runs |
| --- | --- | --- |
| `ByteSize` | number of values of a byte, 256 in C | 4: ids have two bytes, and each byte a sign bit |
| `CounterSize` | number of values of the send counter, 256 in C | 4; 3 in `overtaken`, the least that one retry does not wrap |
| `udpMaxRetries` | option `-r` | 1: a first transmission, a retransmission and the time-out; 3, the largest value of the counter, in `claimRetries` |
| `Commands`, `MaxTyped` | what the user may type, and how often | one or two lines: one message crosses another |
| `ServerKinds`, `SrvIds`, `ConfIds` | what the server may send | ids 0 and 1 below, 2 and 3 at or above the sign bit of a byte |
| `MaxQueue` | lines are read and datagrams delivered only while the queue is shorter | 3: a confirmation, a message in flight and one behind it; 2 in `login` and `interrupted` |
| `Addr`, `Types`, `Ids`, `Flags`, `KeepId` | cells of the list and what they hold | 3 cells: a first, a last and one between; two types, two flags, one of them that of a confirmation, and, with `ByteSize` 2, an id below and one at the sign bit. `MCMsgQueue` declares cells and types symmetric: no definition tells one of them from another |
| `MaxLine`, `maxName`, `maxSecret`, `maxContents`, `Stale` | length of a line, limits of its fields, what the buffer held | 8; 1, 2 and 7: a command, three words and the blanks between them, at their limits and beyond |
| `MaxServer` | messages the TCP server writes | 2: two in one read, a REPLY and what comes after it |
| `EofMarks`, `SigintAllowed`, `Spurious`, `Duplicates` | what the environment does | where the run is about it |

`login`, `overtaken`, `interrupted` and `tcp` start at the start of the program. The other passing runs of the UDP client start in
`InitOpen`, the state after an undisturbed login with the count of typed lines at 0; that
leaves the bound on typed lines to the session itself. Deadlock is not checked:
the program ends, and a client whose user types nothing and whose server is
silent rightly stops, a destroyed queue has no operations, and a parsed line is
the end of its behaviour.

## Runs that pass

| run | property | shows |
| --- | --- | --- |
| `login` | `TypeOK` | all variables keep their C types, every thread stays in its code |
| | `OneAuth` | never two logins pending, although main tests the state long before it queues |
| | `AuthBeforeData` | JOIN and MSG are queued only after a positive REPLY was acted on |
| | `LoginIsFinal` | once it was, the program state never falls back in front of the login |
| `session` | `OneInFlight` | stop and wait: nothing but confirmations in front of a message in flight |
| | `RetransmissionBound` | at most 1 + `udpMaxRetries` transmissions, although test and transmission are in different critical sections |
| | `ImplementsStopAndWait` | the threads, their signals and time-outs together do no more than `StopAndWait` |
| | `OnlyHolderChangesQueue` | with messages of known types, no thread changes the queue while another holds the mutex |
| `overtaken` | `OwnStopAndWait` | stop and wait of the client's own messages during a login, although its REPLY may mark a confirmation in front of the AUTH and have it repeated |
| `duplicates` | `NoDoublePrint` | a message with both bytes of its id below the sign bit is printed once |
| `ends` | `LockDiscipline` | critical sections hold the mutex on every path, with ERR, BYE, unknown and malformed messages and /exit |
| | `MutexReleased` | nobody ends, waits or locks again while holding the mutex, but for the three ways out below |
| `interrupted` | `NoUserDataAfterSigint` | after the handler has emptied the queue nothing of the user is left to be sent, at any instant of a login, with input that ends after one line and repeated REPLYs |
| `settled` | `MsgSettled` | once the server is silent every message in flight is confirmed, timed out or dropped |
| | `SilentEnds` | if it is silent from the start the time-outs of message, ERR and BYE lead to END, as long as main is not woken for nothing |
| `messageQueue` | `ListIntact` | `first`, `last`, `len` and the chain agree, with memory that is reused |
| | `NothingLeaked` | what is allocated is what can be reached, and the walk over the list ends |
| | `ImplementsSequence` | the list implements `MessageSequence`: a search finds exactly what is there, of the ids without a sign bit, and denies the others |
| `typedLines` | `AuthCutRight` | an /auth with at least one argument is accepted exactly if it has three words within their limits, and those are its arguments |
| | `RestCutRight` | the argument of /join and /rename is the rest of the line; a missing one is reported |
| `tcp` | `DataAfterLogin` | JOIN and MSG are queued and sent only after a positive REPLY |
| | `OneLoginAtATime` | there is at most one AUTH more on the connection than there were answers; before a login these are answers to AUTHs |
| | `NoLogout` | until the session begins to end, a refused JOIN never looks like a refused AUTH, although the state is read twice |

`OnlyHolderChangesQueue` leaves out unknown messages on purpose (`claimMutex`),
`NoDoublePrint` ids with a byte above 127 (`claimDuplicates`), and `AuthCutRight`
lines that only look like an /auth (`claimAuth`), contain a carriage return, or
have no argument at all: there the code does what the claims show, and an /auth
followed by three blanks and nothing else is accepted with the letter `h` of the
command for each of its arguments, as the -1 of a failed search is used as a
position. `RestCutRight` includes lines without an argument.

`NoLogout` ends where the session does: when SIGINT (`fsm_SIGINT_BYE`) or the end
of the input (`fsm_EMPTY_Q_BYE`) falls between the receiver's two reads of the
state, a refused JOIN is handled as a refused AUTH and the state becomes START
(`claimTcpLogout`). The history variable `ending` says that an end has begun.
The answers `OneLoginAtATime` counts include REPLYs to a JOIN, so that after a
login it says less. `RetransmissionBound` does not say that a CONFIRM finds its message: one
that arrives while a confirmation stands in front of the message is lost, and the
message is repeated. `SilentEnds` is checked without spurious wake-ups: a main that
is woken for nothing reads the next line while its message is in flight, which is the
situation of `claimErrorState`.

Both refinements of `StopAndWait` also say that a message is settled only by
leaving the queue (`OutOfQueue`). A counter that wraps to 0 would otherwise
pass for a settled message; with `CounterSize` 2 `overtaken` fails.

The three ways out of `MutexReleased`
are the `continue` after the time-out of the BYE, `errHandling` called inside a
critical section (a failed assertion, a failed assembly, a short datagram), and a
SIGINT handler that interrupted the holder.

The reference definition of `CommandLine` finds words as maximal runs of
characters, where the code counts lengths it does not correct for blanks. That
both agree rests on the terminator behind the line; the runs put letters and
blanks of an earlier line behind it.

**Fairness.** Weak fairness of the steps of each thread: the operating system
runs a thread that can run, and the timed wait and `recvfrom` end by
themselves. Nothing is assumed of the user, the server, the network, SIGINT,
failures of `sendto` or spurious wake-ups, and a contended mutex need not be
granted. `MsgSettled` and `SilentEnds` assume a silent server in their statements, as
one that sends for ever may keep the mutex busy. `claimTcpErr` uses the same
fairness for the TCP threads (`TcpClaims`).

## Runs that show a disagreement

Each checks one statement of the README, a comment or an assertion
(`DocumentedClaims`, `TcpClaims`), and TLC finds an execution of the code that breaks it.
Two of them are listed as runs, and `PROJECT.json` quotes the line they are about:

| run | what happens |
| --- | --- |
| `claimQueued` | a signal is lost between the sender's unlock and its wait; the message is not sent |
| `claimTcpErr` | ERR wakes the sender before it sets the state: the BYE is sent and dropped in the old state and the program never ends |

The other configurations are kept for reproduction (`tlc -config X.cfg M`, where M
is `TcpClaims` for `claimTcp...`, `CommandLine` for `claimAuth` and
`DocumentedClaims` for the rest); the hazards of `PROJECT.json` refer to them:

| configuration | what happens |
| --- | --- |
| `claimCrash` | a negative REPLY to a JOIN that was confirmed and dropped finds the queue empty and reads through NULL |
| `claimRepeated` | a REPLY that overtakes the CONFIRM of its request is recorded, ignored, and ignored again when repeated |
| `claimTimedOut` | a message confirmed after its last transmission is reported as timed out |
| `claimDuplicates` | ids with a byte above 127 are never recognised |
| `claimBye` | the sender ends the program between main's `fsm_EMPTY_Q_BYE` and its BYE |
| `claimErrorState` | main queues a message behind the back of a time-out; the sender's assertion fires |
| `claimEnd` | main overwrites END |
| `claimConfirmedFlag` | a positive REPLY marks a confirmation instead of the AUTH |
| `claimSigint` | the handler exits while the sender runs, which may not have sent the BYE |
| `claimCounter` | a REPLY sets the counter of our ids back |
| `claimMutex` | an unknown message is confirmed without the mutex |
| `claimNok` | the confirmation of a negative REPLY is queued and nobody wakes the sender |
| `claimByeTimeout` | the BYE of EOF before a login times out in `fsm_EMPTY_Q_BYE`; ERR cannot be assembled and the client blocks on its own mutex |
| `claimReceiver` | the time-out of the BYE leaves the mutex locked; the receiver never ends |
| `claimTcpMutex` | the sender releases a mutex it does not hold; two threads are in the queue |
| `claimTcpLogout` | "set state to start because auth wasn't sucessfull": SIGINT between the receiver's two reads, and a refused JOIN sets it |
| `claimTcpStream` | of two messages in one read only the first is looked at |
| `claimAuth` | a line that begins with a blank, or with the bare beginning of /auth, is an /auth |
| `claimRetries` | with the largest `-r` the send counter wraps and the message is sent for ever |

The repository's `CHANGELOG.md` says that the client may freeze when input
comes from a file and the server is local; `claimQueued`, `claimNok` and
`claimReceiver` show three of the ways.

## Proofs

| module | theorem | statement |
| --- | --- | --- |
| `MsgQueueProofs` | `ListStaysIntact` | `Spec => []ListIntact` |
| | `NothingLeakedHolds` | `Spec => []NothingLeaked` |
| | `QueueImplementsSequence` | `Spec => ImplementsSequence` |
| `UdpClientProofs` | `TypeCorrect`, `LockDisciplineHolds` | `[]TypeOK`, `[]LockDiscipline` |
| `UdpStepProofs` | `MutexReleasedHolds` | `[]MutexReleased` |
| `UdpQueueProofs` | `OneInFlightHolds`, `RetransmissionBoundHolds`, `NoUserDataAfterSigintHolds` | the three invariants |
| `UdpProtocolProofs` | `AuthBeforeDataHolds`, `OneAuthHolds`, `LoginIsFinalHolds` | the three invariants |
| | `NoDoublePrintHolds` | `[]NoDoublePrint` |
| | `OnlyHolderChangesQueueHolds` | `OnlyHolderChangesQueue`, if no unknown messages arrive |
| `UdpRefinementProofs` | `OwnStopAndWaitHolds` | `NoWrap` implies `OwnStopAndWait`, a refinement of `StopAndWait` |
| | `ImplementsStopAndWaitHolds` | `NoWrap` and `OpenSpec` imply `ImplementsStopAndWait` |
| `TcpClientProofs` | `DataAfterLoginHolds`, `NoLogoutHolds`, `OneLoginAtATimeHolds` | for the `Spec` of `TcpClient` |
| `CommandLineProofs` | `RestCutRightHolds`, `AuthCutRightHolds` | for the `Spec` of `CommandLine` |

All UDP theorems but `ImplementsStopAndWaitHolds` are proved for `Spec`, which starts with the program,
and for `OpenSpec`, which starts after a login. The assumptions are those on the
constants (byte and counter have positive sizes, retries and bounds are natural
numbers, so are the length of a line and the limits of its fields, server
messages are of known types; memory is finite and NULL no cell, the ids in the
list have two bytes),
for the two refinements of `StopAndWait` that the counter does not wrap
(`NoWrap == udpMaxRetries + 1 < CounterSize`; at the limit they are false,
`claimRetries`), and, for `OnlyHolderChangesQueue` alone, that the server sends no message of
unknown type: for those the property is false (`claimMutex`).

**The linked list.** The inductive invariant is `TypeOK /\ ListIntact /\ SearchOK`.
`ListIntact` needs the distinctness of the cells on the chain: without it, cutting off
the first cell could free one that is still on the way. The refinement needs
`SearchOK`, that the cells a search has passed do not match what it looks for, for
then the answer at the end is about the whole sequence. `BytesMatch` and
`SameMessageIdMeans` say what a match of bytes is: the ids are the same and have no
sign bit. Each kind of operation
has a lemma that it keeps the invariant (`AddKeepsList`, `PopKeepsList`, ...) and one
that it is a step of `MessageSequence`; the steps of the loops are takes or
stutters. `NothingLeaked` adds `Accounted`: what is allocated is what is on the
chain. The walk along `behindMe` in its statement is a recursive function; that
it is the chain followed by NULL is shown without induction over its definition:
the chain satisfies the equation (`WalkFollows`), and two functions that do
cannot differ at a least place (`OneWalk`). Distinct cells are no more than there are
addresses (`ChainFits`), so the walk ends in time.

**Types and locks in UDP.** `IndInv == TypeOK /\ LockDiscipline /\ CmdKnown`. `TypeOK`
alone is not inductive: main makes a message of the command it filtered two steps
earlier, so `CmdKnown` says that on the way from the filter to the queue the command
is one that sends something. Each form of step (`LocalStep`, `SetStep`,
`SignalStep`, `LockStep`, `LockedQueueStep`, `HolderStep`, `ExitStep`) has a lemma,
and each action cites the one of its form. `LockDiscipline` rests on `Frame(t)`: a
step of t leaves every other thread where it is, or takes it from a wait to the
label after it, which is in no critical section; it changes the mutex only from
free to t or from t to free; and t is in a section afterwards only with the mutex.
The early `continue` after the BYE's time-out, which keeps the mutex, does not
disturb it: the sender holds more than it needs.

**What a step does.** The invariants below are all about the few labels between a
decision and what is done about it. `UdpStepProofs` therefore goes once through
all actions and shows that every step is a `MainDoes`, `SenderDoes`,
`ReceiverDoes` or a wake-up: how it changes the mutex, the queue, the program state
and the records, at which labels, and under which condition it gets to the
labels that matter. The later modules cite these and never an action.
`MutexReleased` follows at once: a step keeps the mutex only on the way to a label
where it is known to be held.

**The queue.** `RetransmissionBound` is not inductive: `filterResentMessages` tests the
counter, and the transmission comes many steps later, with the mutex free in
between. `QueueInv` adds that from the test to the transmission the first message
may be sent once more (`Sendable`), and that nothing in a queue that is refilled
after a time-out was ever sent (`Unsent`); where `logicFSM` drops an AUTH it needs
`OneInFlight` as well. `RetransmissionBound` bounds the counter; as long as
`udpMaxRetries + 1 < CounterSize` the counter does not wrap and so bounds
the transmissions, at the limit it does not (`claimRetries`).

**The login.** Every thread acts on a program state it read earlier. `AuthInv`
carries "authenticated" from the receiver's step that makes it true to every place
that has seen a state behind the login; `LoginInv` says who may still bring an AUTH
into the queue or the state back to START, and that these never overlap.
`LoginIsFinal` needs both and `FinalInv`. Four places set a state in front of the
login, each after a test in an earlier step: main (`fsm_AUTH_W82`), the sender
(`fsm_AUTH_SENDED`), and the receiver for a CONFIRM of the AUTH (`fsm_W84_REPLY`) and a
negative REPLY (`fsm_START`). The states they test for differ, so only one of them
is between its test and its assignment, and none is when the positive REPLY is acted
on. The fourth also asks whether the first message is an AUTH. An AUTH may stay in the queue of
the open session, when the positive REPLY marked a confirmation in front of it; it
then stands in front of every JOIN (`AuthFirst`) and is dropped before the JOIN is under
way, so a refused JOIN is not taken for a refused AUTH.

**The receiver.** The code compares a message with its records, `NoDoublePrint` with
what was acted on. `PrintInv` connects them: whatever was acted on, or is about to be, is
recorded, and a MSG on its way to be printed was not acted on yet. That a record
is found again needs both bytes of the id below the sign bit.

**Stop and wait.** `Flight` is the first message of the queue that was sent and not
settled, `OwnFlight` the first that is no confirmation. `OwnStopAndWait` rests on
`QueueInv` alone: with only confirmations in front of it (`OneInFlight`), a message of
the client's own in flight is the only one (`FlightCases`); each change of the queue has
a lemma (`FlightAppend`, `FlightPush`, `FlightHead`, `FlightTail`, `FlightSend`) that says what
becomes of it, and `Sendable` bounds its repetition. `ImplementsStopAndWait` counts
confirmations too and needs `OpenInv`: in the open session no way leads back in front of
the login, so nobody marks the first message as an answered AUTH, so every
confirmation keeps the flag with which it is dropped once it is sent and is never in
flight; `Flight` and `OwnFlight` are then the same (`FlightIs`). It holds for `OpenSpec` and
not for `Spec`: during the login a positive REPLY may mark a confirmation that was
pushed in front of the AUTH (`claimConfirmedFlag`), which is then sent repeatedly.

**TCP.** The mutex is of no help, as the sender releases it without holding it; the
three properties rest on the program state alone. `LoginInv` is as in UDP.
`SessionInv` says that at most one AUTH is ahead of the sender, that none is once
the state is behind it, and that a thread that is about to set the state saw one
nobody else changes meanwhile but to an end; the history variable `ending` marks that
end, and before it the state stays behind the login (`NoLogout`). `Budget` counts: AUTHs sent and
queued, the one main is about to queue, the one it may still queue, and the
REPLYs that are under way, are together at most one more than the answers.

**A typed line.** The code cuts an argument out by searching for the next character
that is, or is not, a blank, from a start and for a length that it does not reduce by
the blanks it skips, so a search may look at what stands behind the end of the line.
`LineInv` says where the line and its terminator are and that what stands behind
them is arbitrary. Each search is the least position of a set (`LeastElement`,
`NearestIs`); as the terminator belongs to the set of every search for the end of a
word, and a start is never behind it (`NextStart`), no search gets beyond it
(`EndFacts`): it finds the next word of the line (`WordFound`) or that there is none
(`WordMissing`). That settles `RestCutRight`. The reference definition of `AuthCutRight` numbers the
words by the cardinality of the set of starts up to a place; `UpToNext` and
`UpToGrows` show that between two words cut out one after the other there is no
third one, so that they are the first, second and third (`NthIs`, `AuthCut`).

Model-checked only: liveness (`MsgSettled`, `SilentEnds`), which is out of the prover's
reach.

## Not modelled

- The bytes and texts of messages (`assembleProtocol...`, the fields of
  `disassebleProtocol...`): of a message only type, id and result of a REPLY
  decide what the threads do; the rest is printed.
- Growth and copying of buffers, failures of `malloc`, and what a thread that
  still runs reads of memory that the end of the program has freed.
- The mutex of the program state inside the signal handler.
- Command line arguments, the start before the threads exist, sockets and address
  lookup, printing: sequential, and without state the threads share.
- The interactive servers in `tests/`, whose part the environment plays.
