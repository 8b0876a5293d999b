# A verification project for cc_flasher

`cc_flasher` programs the flash of a CC2430/31 through a USB debug interface,
and can serve as a debug server for the NoICE debugger and for a command line
client. This directory holds TLA+ models of both, TLC configurations that check
them on small instances, and TLAPS proofs that they have their safety properties
for every value of the constants.
Paths are relative to `src/cc_flasher/src/`.

## The system

| Part | Code | State it keeps | Operations |
|---|---|---|---|
| Write job | `CCFlasher.cpp`, `programFlash`, `writeFlashPage` in `ccdebuginterface.cpp` | buffer of the image, options, page, rest of the verification | load, take the chip over, patch the MAC, erase, write page by page, verify, release, exit |
| Chip | external | flash, RAM routine, erase in progress, CPU, breakpoint registers | chip erase, page erase, word writes, halt, resume, step, breakpoint |
| USB transport | `ccdebuginterfaceusb.cpp` | handle of the device | one message, which may fail with `CUsbException` |
| NoICE connection | `debugserver.cpp` 66-246 | frame being received, last function, socket | receive byte, time out, poll the chip, handle, reply |
| Handlers of the server | `debugserver.cpp` 415-799 | none of their own: they share `m_dbg`, the cache and the breakpoint table | run, stop, step, registers, memory, breakpoints, flash, sfr, reset |
| Code cache, breakpoint table | `debugserver.cpp` 671-704, 801-866 | `codeCache`, `codeCacheValid`, `usedBP` | fill, answer, take and free a slot, clear |
| Listener, threads, sockets | `ccc/include/tcplistener.h`, `ccc/ccthread.cpp`, `ccc/tcpconnection.cpp` | list of connections, thread states, descriptors | accept, collect, start, hang up, stop |
| Linked list | `ccc/include/ccconlist.h` | nodes, first, last, current, count | add, delete current, iterate |
| Interactive server | `debugserver.cpp` 249-370, `ccc/tcpconnection.cpp` 71-134 | the line being received | read a line, make a command of it, answer; commands, see the handlers |
| Mutex, logging, utilities, crc8, libusb loader | the rest | | |

How they interact: a process runs either one write job or the server. The server
has two listeners, each a thread; each client gets a thread of its own; all
threads call the handlers of one `CDebugServer`, which talks to one chip through
one `m_dbg`. No lock protects the chip, the cache, the table or the `CCFlasher`
that the flash command uses, so the threads interleave between any two USB
messages. The only mutex guards the list of connections, which one thread alone
changes.

What is hard in it, and what makes each part correct:

- *Write job.* Any message may fail and leaves the chip as it is, with its
  routine running. The job is correct if what it reports is what is in the
  flash, the address survives, blank pages are left alone, and it ends.
- *NoICE connection.* Bytes arrive in any pieces, the CPU stops when it likes,
  and the loop treats "no byte now" in two ways. It is correct if it handles
  what was sent, and tells of every run exactly once and truly.
- *Cache and table.* They are copies of chip state, changed by several threads
  and bypassed by some commands. They are correct if they equal the chip, except
  after precisely named events.
- *Handlers on one CPU.* A handler borrows registers of the program and halts it
  for a moment, without a lock. It is correct if it gives back what it borrowed,
  tells the truth and leaves the CPU running or stopped as it was; which crossings
  of two connections break that has to be known exactly.
- *Routine.* Machine code put together from numbers, with 8-bit counters, relative
  jumps and a controller that works at its own time. It is correct if it does
  what the writing of a page promises, and ends although the host has gone.
- *Interactive server.* Lines come in pieces and without waiting for answers. It
  is correct if each becomes one command with one answer.
- *Listener.* Objects and descriptors are used again. It is correct if nobody
  frees or closes what another one uses, and nothing that stopped is forgotten.

`PROJECT.json` lists the hazards one by one, with their lines and the properties
that would catch them.

## The modules

| Module | Models | Checked in | Proved in |
|---|---|---|---|
| `FlashJob` | write job and chip | `flash_job`, `exit_code`, `mass_erase_ignored` | `FlashJob_proofs` |
| `NoICEConnection` | frames, worker, CPU handlers | `noice`, `frame_cut`, `stop_past_breakpoint` | `NoICEConnection_proofs` |
| `CodeCache` | cache, breakpoint table, several threads | `code_cache`, `cache_stale` | `CodeCache_proofs` |
| `DebugSession` | every handler of both ports on one CPU, with its run state, its registers and the flash command | `session` | `DebugSession_proofs` |
| `PageWrite` | abstract specification: what the writing of a page promises | property of `flash_routine` | `FlashRoutine_proofs` (that it is implemented) |
| `FlashRoutine` | `writeFlashPage` byte by byte, the CPU that executes it, the flash controller | `flash_routine` | `FlashRoutine_proofs` |
| `CommandLine` | line reader and command loop of an interactive connection | `command_line` | `CommandLine_proofs` |
| `ConnList` | the linked list on a heap of nodes | `listener` | `ConnList_proofs` |
| `ConnListener` | accept, collection, threads, sockets; extends `ConnList` | `listener` | `ConnListener_proofs` |
| `ConnRegistry` | abstract specification: connections in order, only finished ones dropped | property of `listener` | `ConnListener_proofs` (that it is implemented) |

The `MC*` modules give the constants their values.

Granularity: one action is what happens between two accesses to something
another actor can change: a USB message, a byte of the stream, the cache, the
table, a thread state. A message whose answer is lost has had its effect; the
program sees the same exception, so this is the state in which the next message
fails (or, for the last step, its own disjunct).

### FlashJob

A page is the set of its bits that are programmed to 0. An erased page is `{}`;
a write adds bits and never removes one, so writing without an erase leaves the
union of old and new, as in the chip. The last page has bits that are the MAC.
`Begin` starts a process with any options; `LoadFile` to `ReleaseOff` follow
`write` and `programFlash` message by message; `RoutineErases`, `RoutineWrites`
and `RoutineEnds` are the code `writeFlashPage` assembles, running in the chip;
`ChipErases` ends a mass erase at any time. Each flash operation may go wrong
without a trace (`faulty`). `UsbFail` ends the process at any message. `m_bRestoreMac`
and `m_bResume` are fixed, because no option sets them.

Assumed of the outside: a reset stops the routine and the erase; an erase the
host gave up on may still end at any time before that; the eight numbers of `-a`
come out of `sscanf` as eight bytes (the code passes `unsigned char*` for `%X`,
which writes past the array; what that overwrites is not modelled).

### NoICEConnection

Frames are bytes, since what the receiver makes of the rest of a frame it forgot
depends on their values: 0xFE in the data of a request can begin a frame.
`RecvByte` is `recvByte` with a byte, `ReadTimeout` is the -1 of `readByte` and
`recvByte(-1)`. In the run state -1 comes as soon as no byte is there; otherwise
after 60 seconds, and it is assumed that this is long enough for the rest of a
frame to arrive. `PollStatus`, `GetPC`, `SetPC` and the `Regs*` steps are one USB
message each, `HitBreakpoint` happens between any two. The CPU is one byte past
the breakpoint when it stops, as the comment in the worker says.

### CodeCache

Addresses are those of the code in a smaller scale: `Bank` stands for 0x8000, and
a banked address has twice that per bank. `ChipByte` is what `readCodeBank` gets:
the bank is mapped above `Bank`, the data pointer wraps into the first bank.
`getCode` is four steps: scan the marks, read from the chip into the cache, mark,
copy. A request stays inside the cache. A SET_BYTES frame holds one breakpoint.
Three history variables say what the properties exclude: `stale` (the flash
was written under a filled cache or a reader, the cache was cleared under a
reader, a read crossed a bank), `forgot` (two threads took one slot, a breakpoint
message failed, or `bp`, `clearcodecache`, a flash command or a reset went behind
the table), and `told` (what each client knows to be set).

The clients of a session, the ranges they read and the addresses of their
breakpoints are a constant (`Sessions`); a run has sessions of both kinds.

### DebugSession

A handler is the sequence of its USB messages; `todo` is what it has still to
send. Of a register only one thing is kept: whether it holds what the program has
in it (`dirty`), and whether the copy a handler took does (`kept`). `Save`, `Tell`,
`Restore`, `Set` and `Use` are the instructions by what they do to that; all
`getSFR` overwrite ACC, since the value comes to the host through it. The run
control messages act on `cpu`. A CPU that runs may execute an instruction that is
sent to it or not; a CPU in reset does not, and its status is not valid.
`HitBreakpoint` and `RoutineEnds` stop a running CPU between any two messages;
`Cut` ends a handler anywhere (`getPar` throws, a transfer fails, a catch closes
the connection). `Poll` is the look of a NoICE connection at its run; `Notification`
is what it sends then. The flash command has the steps that share something:
`m_sFilename`, the delete and the new of `m_pBuff`, `fread`, the pointer that
`programFlash` works with, and the pages; two pages and `-v 1` show every order.
The MAC patch and the mass erase are in `FlashJob`.

Three history variables say what a client can count on:

- `meant` is the run state the last command, breakpoint or end of a routine put
  the CPU in. It is `"any"` once that happened while another handler had halted
  the CPU and was about to resume it, or had taken the chip over, and when such a
  handler was cut. The next undisturbed command makes it certain again.
- `upset`: an instruction was sent to a CPU that was not stopped, or between the
  save and the restore of another handler, or a handler was cut with registers
  not put back. It lasts until a reset makes the program start over.
- `asked` is the file a flash command promises to write, `NoFile` once another
  connection named a file, loaded one or sent the chip something meanwhile.

The properties are exact in this sense: each excuse is one named crossing, and
outside of them TLC finds no order of messages that breaks the promise. That
the excused crossings do happen is not a finding, as nothing in the repository
promises two clients at once.

### FlashRoutine and PageWrite

`Instructions` are the `routine.add` calls with their numbers; the CPU has one
action per opcode, the host one per message of `writeFlashPage`, with
`writeXDATA` block by block. Sizes are the code's: 2048 bytes, words of 4, blocks
of 64, RAM at 0xF000. The controller ends an erase or a word at its own time and
drops what is given to FWDATA before. A word that is written twice or over
something that is not erased is `Spoiled`. `UsbFail` leaves the chip as it is.
A transfer is whole or it fails: the return value of `usb_control_msg` is only
compared with 0, and a transfer that is shorter without an error is not modelled.
`PageWrite` promises: erase if asked for, words in ascending order, each once, the
end told only after the last; it may stop anywhere. In the refinement the number
of words written is the distance of FADDR from the first word of the page.

### CommandLine

Bytes are `q`, another letter, blanks, CR and LF. `Receive` is one turn of the loop in
`ReadLine`; the buffer has room for `TCPCON_MAX_RECV_BUFF - 1`, that is one byte, and
this is why nothing behind a LF is lost. `Condensed` is what the loop in the worker
leaves in the string: the blanks are gone, and since the string is not shortened,
a NUL and the rest of the line follow. As a C string the command is right; a
comparison of the whole string (`q`, `h`, `c`, `s`) fails if blanks were condensed.
`Squeezed` is the reference: a line with single blanks and none at its end.

### ConnListener, ConnList, ConnRegistry

`ConnList` is the list with its pointers. `ConnListener` adds the listener, whose
collection walks the list with the cursor, and the threads. A freed object and a
closed descriptor are available again at once; `accept` returns the lowest free
descriptor; which free address `new` returns does not matter and is fixed. The
refinement maps the list to the sequence reached from `first`, and a connection
is finished when its thread has set its state.

## What the runs show

| Run | Instance | Result |
|---|---|---|
| `flash_job` | 3 pages, 2 jobs, images with blank, equal and differing pages, faults, USB failure anywhere | type invariant and six properties hold |
| `exit_code` | same | violated: see below |
| `mass_erase_ignored` | same | violated: see below |
| `noice` | 3 requests of 6 kinds, one noise byte, any cut of the stream, CPU at 3 addresses | type invariant and five properties hold |
| `frame_cut`, `stop_past_breakpoint` | same | violated: see below |
| `code_cache` | 2 banks of 2 bytes, 3 slots; 2 threads that read 5 ranges (read-ahead, the last byte, both kinds of crossing) with one flash command, or 3 threads with breakpoints at 2 addresses | type invariant and four properties hold (945 122 states) |
| `cache_stale` | 1 byte | violated: see below |
| `session` | NoICE and interactive client; run, stop and registers against the sfr commands; two clients that flash | type invariant and five properties hold (1.4 million states) |
| `flash_routine` | the code's sizes; page 63 with page erase, page 16 without | type invariant, four properties and the refinement hold (53 450 states) |
| `command_line` | 2 lines out of 42, up to 11 characters, sent at any time | type invariant and two properties hold (295 424 states) |
| `listener` | 4 clients, 4 objects, 4 descriptors | type invariant and six properties hold |

Properties of `flash_job`: `VerifiedPagesMatch` (a page that was verified is
right, whatever the chip does), `CleanJobWritesImage` (without faults all pages
are right, verified or not), `MacAsAsked`, `SkippedPagesKept`, `OutcomeIndicated`,
`EveryJobEnds`. Of `noice`: `HandledAreSent` and `AllHandled` (the receiver),
`ReportedOnce`, `ReportIsTrue`, `HaltReported` (the end of a run). Of `code_cache`:
the copies equal the chip outside the named events. Of `session`:
`RegistersIntact` and `AnswersTrue` (registers that are borrowed), `RunStateAsMeant`,
`EndOfRunIsReal` (no connection is told of the end of a run while another one
halts the CPU for a moment, but in the named case), `FlashAnswersTrue` (OK means
that all pages have the image). Of `flash_routine`: `PageIsBuffer`, `OnlyThisPage`
(whatever is interrupted), `OnInstruction` (jumps), `RoutineHalts`, `WritesPage` (the
refinement of `PageWrite`). Of `command_line`: `CommandsAreLines`, `LinesAnswered`. Of
`listener`: `WellLinked`, `ObjectsInUseExist`, `OnlyOwnerCloses`, `NoSocketLeaks`,
`CollectionComplete`, `ImplementsRegistry`.

Why the bounds are enough. A job touches the pages in order and each page alone,
so three pages give a first, a middle and a last one, each blank or not; two jobs
give every state one job can leave to the next. Three frames are a run, what
comes while it runs, and what comes after. Two threads are all that a race on a
byte or a slot needs; the third that sets breakpoints sees the result, and with
three slots for the code's four there are still more of them than a race takes. Two banks show each kind of bank boundary. A collection sees up
to three connections, so the one that is removed can be first, last, in the
middle, or next to another; the fourth client gets what was freed.
`code_cache` does not explore further once `forgot` is set (`CONSTRAINT`), because the
properties of the table say nothing after that, and without breakpoints nothing
but `forgot` itself changes. Handlers of `session` can be started again without
bound, so every handler meets every state another one leaves; all crossings are
of two handlers, a third is not needed, as what one of them borrowed or halted
is in `dirty`, `kept` and `cpu`. Page 63 is the last one, whose address uses all bits
of FADDRH; the content of the buffer has no two equal bytes in a word, and words
of 0xFF. The host and the chip run the one path of the routine, so that all
words, blocks and interruptions fit. Two lines are all that can be mixed up.

Deadlock is checked in `session` only: elsewhere a bounded number of jobs, frames,
lines or clients comes to an end, and a server with idle clients stands still.

### Violations that are findings

- `exit_code`: `run` declares `bRet` twice and returns the outer one, so the
  exit status of a failed write is 0 (`CCFlasher.cpp` 96, 102, 137).
- `mass_erase_ignored`: `-m` promises a mass erase; its failure is ignored and
  the pages are then not erased either (`ccdebuginterface.cpp` 472, 491).
- `frame_cut`: the comment promises that a frame being received is left alone;
  the poll of the run state clears it (`debugserver.cpp` 197, 227).
- `stop_past_breakpoint`: the correction of the program counter is not made if
  a stop request overtakes the poll (`debugserver.cpp` 211, 663).
- `cache_stale`: marks say valid after a flash command (`debugserver.h` 87,
  `debugserver.cpp` 556-570).

## Fairness

`FlashJob`: `WF(Host)`, since the program is one thread that goes on unless it
waits for the chip, and `WF(Chip)`, since the routine has no wait of its own but
for the flash controller. No fairness on `Begin` (the user) or `UsbFail`. With
both, the unbounded wait of `writeFlashPage` ends; with a routine that does not
reach its breakpoint it would not, which the mutant of `EveryJobEnds` shows.
`NoICEConnection`: `WF(Server)`, the thread, and `WF(SendBytes)`, a client that
began a frame sends its rest; nothing makes the CPU reach a breakpoint.
`ConnListener`: the listener between two accepts, and each thread once its
client has left; nothing makes clients come or go.
`FlashRoutine`: weak fairness of the host, of the CPU while it runs, and of the
controller, which are three actors that wait for nobody but as the model says; none
on `UsbFail`. `CommandLine`: weak fairness of the thread, whose handlers end because
each message has a timeout; the one wait without a bound, in `writeFlashPage`, ends as
`EveryJobEnds` and `RoutineHalts` show. Nothing makes the client send or hang up.
`CodeCache` and `DebugSession` have safety properties only: nothing in the server
promises that a client gets its turn.

## What is proved

Every safety property, every action property and both refinements that the runs
check are theorems, for every value of the constants. A run shows that a property
says something, since it fails when the code is changed; the theorem shows that
the bounds do not matter. The inductive invariants that TLC can evaluate were
checked with it on small instances before they were proved. Proofs have one step
per action and under it one per conjunct the action can disturb; actions that
leave the variables of a conjunct alone are settled together.

The assumptions are the ASSUMEs of the modules, which TLC evaluates in every run:
a flash has 1 to 64 pages; a page of the routine is one of 64 and its buffer 2048
bytes; the data of a NoICE request has up to 255 bytes, since its length is one
byte; noise between frames is below 127, so that it does not begin a frame; banks
are not empty; slots are numbered from 0; a model value that stands for nothing
is not a value of its kind (`Nil`, `NoMac`, `NoFile`); bounds on jobs, frames,
clients and lines are natural numbers.

Induction over numbers is proved in place where it is needed, as the library's
theorems with an operator parameter cannot be used: `AllNumbers` takes the least
counterexample of a well-founded order.

### FlashJob

`TypeCorrect`, `VerifiedPages`, `CleanJob`, `MacKept`, `Outcome`, `SkippedPages`. The
properties speak of the end of a job and are not inductive. `IInv` says what is
true on the way:

- `TypeOK`, and `ResultInv`, which ties the result and the page to the place in
  the program;
- `ChipInv`: the routine runs only while the job waits for it, and on the page of
  the loop. This needs the reset at the start of a job, which ends whatever an
  earlier job left, and the lemma `PageOfFAddrH`: the value in FADDRH selects the
  page that was meant, for all 64 pages. A chip erase goes on under the loop only
  after the host gave up on it;
- `LedInv`: the light after the last branch of `write`;
- `VerifyInv`: the verification was dropped to 0 only behind a page that was
  programmed, so the page `-v 1` must cover is behind the loop;
- `VerifiedSoFar`: every page behind the loop that had to be verified is right;
- `CleanSoFar`: without a fault every page behind the loop is right, those ahead
  of it are blank after a mass erase, and for the page under way what it holds
  and what the routine has still to write add up to the buffer;
- `MacInv`: the buffer holds the address that is asked for, from the moment it
  was read out of a chip that nothing had changed since the job began. That it
  is in the flash at the end follows with one of the two invariants before.

### FlashRoutine

`TypeCorrect`, `JumpsLand`, `OtherPagesKept`, `PageWritten` and the refinement
`RoutineWritesPage`, for each of the 64 pages and every content of the buffer. In
three parts:

- *Bytes.* `BytesJoin` says that the assembled routine is the instructions one
  behind the other; `ErasesListed` and `KeepsListed` give every byte of it at its
  offset, with and without the page erase, with the two jumps that depend on it.
  `Opcodes` is what the CPU finds in the RAM at each offset, once `Loaded`.
- *Instructions.* `AtWork` says what registers, controller and flash have at each
  instruction: before the erase (`Opening`), during it (`Erasing`), while the
  counters are set (`SettingUp`), then for word `w` while its bytes are given
  (`Copying`), until the controller is ready (`Waiting`) and in the count
  (`Counting`), at the end (`Closing`). The two 8-bit counters together hold
  the words left (`Left`), which is where 256 as 0 and the borrow matter; the
  data pointer and the address counter run along. There is one lemma per part
  (`OpeningStep` to `ClosingStep`), and `WordKeeps` and `EraseKeeps` for the controller,
  which may end its work between any two of them.
- *Host.* `Loading` has what `writeXDATA` has sent block by block until the CPU is
  resumed; after that the host only waits, or has failed, and changes nothing.

A step is mapped to `PageWrite` by the number of words written, FADDR less the
first word of the page; `OnPage` ties it to the program, so the controller's
steps are its erase and its words, in order, and all others stutter.

### NoICEConnection

`TypeCorrect`, `RunsReportedOnce`, `ReportsAreTrue`, `HandledAsSent`.

- `ConnInv`: a run that has not been reported is remembered in `lastFn`, and reports
  and that one are no more than the runs that were asked for (`Reported`); and what
  the poll has found out about the CPU, and which program counter it has, at each
  of its messages (`Polling`). `ReportIsTrue` needs all of it: between the look at
  the CPU and the notification there are up to six messages.
- `Streaming`: unless a frame was forgotten, what is still to come, including the
  frame in hand, has the frames of the requests that were not handled, in order
  and with noise between them (`Placed`). The checksum of a frame is a recursive
  function; `SumIs` says that it fits whatever the bytes are, and a received byte
  of 127 or more outside a frame begins one, since noise does not.

### CodeCache

`TypeCorrect`, `ValidBytesAreCode`, `AnswersAreTheCode`, `ToldBreakpointsAreArmed`,
`TableAgreesWithChip`, for any number of threads, banks of any size, any number of
slots and of bytes read ahead.

- `CacheInv`: two threads may fill the same bytes and mark them one after the
  other. It is enough that what a thread has read and not yet marked is right,
  and that what it did not read was valid when it looked and stays so, unless
  the cache is cleared. The lemmas before it are the arithmetic of banks: an
  address below a bank and one in it come from the same read only within one bank.
- `TableInv`: a slot has a claim from the handler that works on it or a client that
  was told of it, and of one connection only (`Claims`). Between the message to the
  chip and the mark in the table this is what keeps another thread out.

### DebugSession

`TypeCorrect`, `RegistersStayIntact`, `AnswersAreTrue`, `RunStateStaysAsMeant`,
`EndOfRunReal`, `FlashAnswersAreTrue`, for any number of connections, each with any
commands. What a thread will still do to the chip depends on the messages left
of its handler, which is why the invariants speak of that set (`Left`).
`HandlersOrdered` shows for each handler that its messages are in an order the
invariants can live with (`Fits`): what is saved is put back, nothing is used
before it was saved, the run state is asked for before the CPU is resumed.

- `RegInv`: unless something upset them, registers that do not hold the program's
  value are among those a thread has still to put back, the copies it will put
  back are true, the CPU stands still meanwhile, and runs with none of them changed.
- `RunInv`: while the run state is known, a thread that will resume the CPU is
  there only if it was meant to run, and otherwise the CPU is as it was meant to
  be. `EndOfRunIsReal` and `RunStateAsMeant` follow.
- `FlashInv`: a flash command that still promises its file is at some message of
  `write`, and buffer, pointer, CPU and pages are as far as this message needs;
  or it has failed and will say so.

### ConnListener

`TypeCorrect`, `ListStaysLinked`, `NoUseAfterCollection`, `StoppedThreadsClosed`,
`OnlyOwnersClose` and the refinement `ListenerKeepsRegistry`, for any number of clients,
descriptors, objects and nodes.

- `Objs`: which connection belongs to which thread, and in which of its states the
  thread can be where. The collection frees only what has stopped, which a thread
  is only after its last use of the object.
- `Socks`: an open descriptor is the socket of its owner's connection. Descriptors
  are reused, so a second `close` would hit a stranger; this says it cannot.
- `Linked`: the nodes in use are a chain and hold every connection but the one that
  was just accepted. `ConnList_proofs` shows for any heap that `AddItem` and
  `DeleteCurrentItem` turn a chain into a chain (`AddChain`, `DeleteChain`: first,
  last, middle and only node), and that the walk from `first` is the chain (`WalkIs`).

A step is mapped to `ConnRegistry` by the chain: adding, removing at a place and
finishing are its steps, everything else leaves the sequence as it is.

### CommandLine

`TypeCorrect` and `CommandsMatch`, for lines of any length, any number of them, and any
cut of the stream.

- `KeptUpToKeeps` says what the recursive function `KeptUpTo` gives, `KeptAlike` that the
  loop in place and the reference keep the same characters but for a last blank,
  and `CommandIsSqueezed` that what is left as a C string is the line with single
  blanks, although the NUL and the rest of the line stay in the string.
- `Stream`: there are places in all the bytes sent where the lines end, and `outStr`
  and the bytes on their way are what follows the last line that was taken. Since
  a byte is received at a time, the first LF is the end of exactly one line.
- `Commands`: the line in hand is the next one, those before it are the commands, and
  answers do not run ahead of them.

### Model-checked only

Liveness: `EveryJobEnds`, `AllHandled`, `HaltReported`, `CollectionComplete`, `RoutineHalts`,
`LinesAnswered`. The prover does not reason about fairness. The five violations are
counterexamples and have nothing to prove.

## Not modelled

- Encoding of commands, blinking of the light, look for the device; progress
  output, logging. USB transfers that are shorter than asked for.
- `test`, `testChip`, `RESET`, `GET_CHIP_ID`, `id`, `status`, `regs`: sequences of messages that
  change nothing others depend on, or answer a constant.
- `crc8`, `getPageChecksum`, `crc8.asm`: no caller.
- `CCMutex`: one thread alone changes what it guards. `Dispatch`, `Join`, `Stop`,
  the unused operations of `CCConList`: no caller while the server runs.
- Values of the program counter in `DebugSession`: `setpc` sets it to 0 or 1
  (`iAddr && 0xFFFF`), which a property would only restate; `NoICEConnection` has the
  values of a single client. Memory contents there: `CodeCache` has the code.
- Two flash commands inside the same `delete m_pBuff` or `fread`: the delete and the
  new are one step, and a load is one step with any content if it fails.
- Effects of SIGPIPE on other connections: `CommandLine` has the end of the server
  (`killed`) for the connection that causes it.
- Accesses outside an array or to a freed object (`codeCache` at its end, the
  `mac` array, `mp_Thread` in `pthread_detach`): listed as hazards. The step of
  `pthread_detach` is in `ConnListener`, its effect on a freed object is not.

## Plan

Done: the parts named above are modelled, but for what the section before lists; every
safety property, action property and refinement the runs check is proved. What
is left are results the runs do not state yet:

1. `FlashJob` and `PageWrite`: `FlashJob` takes one step for the erase and one for the
   words of a page. That an undisturbed `PageWrite` comes to just that could be a
   theorem about `PageWrite`, so that the two levels meet in one specification.
2. `ConnRegistry` and `PageWrite`: their own promises (no connection is listed
   twice; no word is given before the erase) as theorems about the abstract
   specifications, from which those of the detailed ones follow by refinement.
3. `CodeCache`: which reads cross a bank, as a lemma over all ranges, to make the
   event in `stale` exact in both directions.
