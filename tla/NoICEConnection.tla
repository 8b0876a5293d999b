-------------------------- MODULE NoICEConnection --------------------------
(***************************************************************************)
(* One NoICE connection of the debug server: the bytes of the client, the  *)
(* frame receiver (NoICEFrame::recvByte), the loop that waits for a frame  *)
(* and polls the chip while the target runs (NoICETCPConnection::Worker),  *)
(* the handlers that move the CPU (CDebugServer::noICEHandler), and the    *)
(* CPU, which may reach its breakpoint between any two USB messages.       *)
(*                                                                         *)
(* Frames are real bytes: what the receiver does with the rest of a frame  *)
(* it has half forgotten depends on their values.  The memory functions    *)
(* change nothing this module has; CodeCache models them.                  *)
(***************************************************************************)
EXTENDS Naturals, Sequences, SequencesExt, FiniteSets

CONSTANTS
    Requests,   \* what the client may ask: records [fn, data]
    Noise,      \* bytes a client may send before a frame
    MaxFrames,  \* bound on the frames the client sends
    Addrs,      \* addresses the CPU can be at
    BpAddr      \* address of the hardware breakpoint

\* the length of the data is one byte of the frame
ASSUME RequestsAssumption ==
    /\ Requests \subseteq [fn : 127 .. 255, data : Seq(0 .. 255)]
    /\ \A r \in Requests : Len(r.data) <= 255
ASSUME NoiseAssumption == Noise \subseteq 0 .. 126
ASSUME BoundAssumption == MaxFrames \in Nat
ASSUME AddrsAssumption ==
    Addrs \subseteq Nat /\ BpAddr \in Addrs /\ BpAddr + 1 \in Addrs /\ 0 \in Addrs

GET_STATUS   == 255
READ_MEM     == 254
READ_REGS    == 252
RUN_TARGET   == 250
SET_BYTES    == 249
RESET_TARGET == 246
STEP         == 245
STOP_TARGET  == 244
ERROR        == 240

VARIABLES
    net,      \* bytes sent and not yet received
    rest,     \* bytes of the current frame the client has still to send
    frame,    \* buffer[0 .. cnt-1] of the frame that is received
    lastFn,   \* iLastFunction
    spc,      \* what the thread does next
    note,     \* the handler runs for the notification of a halt, not for a request
    halted,   \* bHalted of the handler
    savedPC,  \* iPC of the worker, iAddr of the handler
    cpu,      \* [st, bp, pc]: running or halted, HALT_STATUS, program counter
    sent,     \* history: requests completely sent
    handled,  \* history: requests passed to noICEHandler
    replies,  \* history: last reply, and how many there were for RUN_TARGET
    cut       \* history: a frame was forgotten before it was complete

connVars == <<frame, lastFn, note, halted, savedPC>>
vars == <<net, rest, frame, lastFn, spc, note, halted, savedPC, cpu,
          sent, handled, replies, cut>>

\* the sum of the bytes, in an unsigned char
SumMod(bytes) ==
    LET sum[i \in 0 .. Len(bytes)] == IF i = 0 THEN 0 ELSE (sum[i - 1] + bytes[i]) % 256
    IN  sum[Len(bytes)]

\* addCS: the sum of a frame is 0
FrameOf(r) ==
    LET body == <<r.fn, Len(r.data)>> \o r.data
    IN  Append(body, (256 - SumMod(body)) % 256)

\* variant: data() begins at the length
RequestWithLength(f) == [fn |-> f[1], data |-> SubSeq(f, 2, 2 + f[2])]

RequestOf(f) == [fn |-> f[1], data |-> SubSeq(f, 3, 2 + f[2])]

UsbSteps ==
    {"status", "get_pc", "set_pc", "regs_status", "regs_halt", "regs_read", "regs_resume",
     "stop", "run", "step", "reset"}

TypeOK ==
    /\ net \in Seq(0 .. 255)
    /\ rest \in Seq(0 .. 255)
    /\ frame \in Seq(0 .. 255)
    /\ lastFn \in 0 .. 255
    /\ spc \in UsbSteps \cup {"read", "handle", "reply", "closed"}
    /\ note \in BOOLEAN
    /\ halted \in BOOLEAN
    /\ savedPC \in Addrs
    /\ cpu \in [st : {"running", "halted"}, bp : BOOLEAN, pc : Addrs]
    /\ Len(sent) <= MaxFrames
    /\ replies \in [fn : 0 .. 255, pc : Addrs, runs : Nat]
    /\ cut \in BOOLEAN

Init ==
    /\ net = <<>>
    /\ rest = <<>>
    /\ frame = <<>>
    /\ lastFn = 0
    /\ spc = "read"
    /\ note = FALSE
    /\ halted = FALSE
    /\ savedPC = 0
    /\ cpu \in [st : {"running", "halted"}, bp : {FALSE}, pc : {0}]
    /\ sent = <<>>
    /\ handled = <<>>
    /\ replies = [fn |-> 0, pc |-> 0, runs |-> 0]
    /\ cut = FALSE

-----------------------------------------------------------------------------
(* The client, and the network that hands over what is sent piece by piece. *)

BeginFrame ==
    /\ rest = <<>>
    /\ Len(sent) < MaxFrames
    /\ \E r \in Requests, n \in {<<>>} \cup {<<b>> : b \in Noise} :
          /\ rest' = n \o FrameOf(r)
          /\ sent' = Append(sent, r)
    /\ UNCHANGED <<net, connVars, spc, cpu, handled, replies, cut>>

SendBytes ==
    /\ rest # <<>>
    /\ \E n \in 1 .. Len(rest) :
          /\ net' = net \o SubSeq(rest, 1, n)
          /\ rest' = SubSeq(rest, n + 1, Len(rest))
    /\ UNCHANGED <<connVars, spc, cpu, sent, handled, replies, cut>>

-----------------------------------------------------------------------------
(* The receiver.                                                            *)

\* variant: one byte too many is waited for
CompleteOneLate(f) == Len(f) > 2 /\ Len(f) > f[2] + 3

\* cnt > 2 && cnt > buffer[1] + 2
Complete(f) == Len(f) > 2 /\ Len(f) > f[2] + 2

\* a byte below 0x7F does not begin a frame
Received(f, b) == IF f = <<>> /\ b < 127 THEN <<>> ELSE Append(f, b)

\* A byte is there: recvByte(ch).
RecvByte ==
    /\ spc = "read"
    /\ net # <<>>
    /\ net' = Tail(net)
    /\ LET f == Received(frame, Head(net)) IN
          \/ /\ ~Complete(f)
             /\ frame' = f
             /\ UNCHANGED <<spc, lastFn, handled, note, cut>>
          \/ /\ Complete(f)
             /\ SumMod(f) = 0
             /\ frame' = f
             /\ spc' = "handle"
             /\ lastFn' = f[1]
             /\ note' = FALSE
             /\ handled' = Append(handled, RequestOf(f))
             /\ UNCHANGED cut
          \/ /\ Complete(f)
             /\ SumMod(f) # 0
             /\ frame' = <<>>
             /\ UNCHANGED <<spc, lastFn, handled, note, cut>>
    /\ UNCHANGED <<rest, halted, savedPC, cpu, sent, replies>>

\* variant: the chip is not polled
PollsNever(fn) == FALSE

\* if( iLastFunction == FN_RUN_TARGET ): the timeout is 0 and the chip is polled
Polls(fn) == fn = RUN_TARGET

\* readByte returns -1: at once while the target runs, else after 60 seconds,
\* which are enough for the rest of a frame to arrive.  recvByte(-1) forgets
\* what was received of a frame.
ReadTimeout ==
    /\ spc = "read"
    /\ net = <<>>
    /\ Polls(lastFn) \/ rest = <<>>
    /\ \/ /\ frame = <<>>
          /\ Polls(lastFn)
          /\ spc' = "status"
          /\ UNCHANGED <<frame, cut>>
       \/ /\ frame # <<>>
          /\ frame' = <<>>
          /\ cut' = TRUE
          /\ UNCHANGED spc
    /\ UNCHANGED <<net, rest, lastFn, note, halted, savedPC, cpu, sent, handled, replies>>

-----------------------------------------------------------------------------
(* The chip as the USB messages see it.                                     *)

\* HALT: nothing if the CPU has stopped already
HaltCpu(c) ==
    IF c.st = "halted" THEN {c} ELSE {[st |-> "halted", bp |-> FALSE, pc |-> a] : a \in Addrs}

ResumeCpu(c) == [c EXCEPT !.st = "running", !.bp = FALSE]

StepCpu(c) ==
    IF c.st = "running" THEN {c} ELSE {[st |-> "halted", bp |-> FALSE, pc |-> a] : a \in Addrs}

\* the CPU stops one byte after the breakpoint
HitBreakpoint ==
    /\ cpu.st = "running"
    /\ cpu' = [st |-> "halted", bp |-> TRUE, pc |-> BpAddr + 1]
    /\ UNCHANGED <<net, rest, connVars, spc, sent, handled, replies, cut>>

-----------------------------------------------------------------------------
(* The poll of the run state.                                               *)

PollStatus ==
    /\ spc = "status"
    /\ \/ /\ cpu.st = "running"
          /\ spc' = "read"
          /\ UNCHANGED note
       \/ /\ cpu.st = "halted"
          /\ spc' = IF cpu.bp THEN "get_pc" ELSE "regs_status"
          /\ note' = TRUE
    /\ UNCHANGED <<net, rest, frame, lastFn, halted, savedPC, cpu, sent, handled, replies, cut>>

GetPC ==
    /\ spc = "get_pc"
    /\ savedPC' = cpu.pc
    /\ spc' = "set_pc"
    /\ UNCHANGED <<net, rest, frame, lastFn, note, halted, cpu, sent, handled, replies, cut>>

\* variant: the correction is left out
SamePC(a) == a

\* "the pc will be one byte over the breakpoint so -- it here"
PCBefore(a) == a - 1

SetPC ==
    /\ spc = "set_pc"
    /\ cpu' = [cpu EXCEPT !.pc = PCBefore(savedPC)]
    /\ spc' = "regs_status"
    /\ UNCHANGED <<net, rest, connVars, sent, handled, replies, cut>>

-----------------------------------------------------------------------------
(* noICEHandler.                                                            *)

\* the first step of the case of a function, those of the memory and the
\* unknown ones answer at once
HandlerStep(fn) ==
    CASE fn = STOP_TARGET  -> "stop"
      [] fn = RUN_TARGET   -> "run"
      [] fn = STEP         -> "step"
      [] fn = RESET_TARGET -> "reset"
      [] fn = READ_REGS    -> "regs_status"
      [] OTHER             -> "reply"

Handle ==
    /\ spc = "handle"
    /\ spc' = HandlerStep(lastFn)
    /\ UNCHANGED <<net, rest, connVars, cpu, sent, handled, replies, cut>>

Stop ==
    /\ spc = "stop"
    /\ cpu' \in HaltCpu(cpu)
    /\ spc' = "reply"
    /\ UNCHANGED <<net, rest, connVars, sent, handled, replies, cut>>

\* no reply now; the next frame is received into a new NoICEFrame
Run ==
    /\ spc = "run"
    /\ cpu' = ResumeCpu(cpu)
    /\ spc' = "read"
    /\ frame' = <<>>
    /\ UNCHANGED <<net, rest, lastFn, note, halted, savedPC, sent, handled, replies, cut>>

Step ==
    /\ spc = "step"
    /\ cpu' \in StepCpu(cpu)
    /\ spc' = "regs_status"
    /\ UNCHANGED <<net, rest, connVars, sent, handled, replies, cut>>

\* enterDebugMode, halt, setPC(0)
Reset ==
    /\ spc = "reset"
    /\ cpu' = [st |-> "halted", bp |-> FALSE, pc |-> 0]
    /\ spc' = "reply"
    /\ UNCHANGED <<net, rest, connVars, sent, handled, replies, cut>>

RegsStatus ==
    /\ spc = "regs_status"
    /\ halted' = (cpu.st = "halted")
    /\ spc' = IF cpu.st = "halted" THEN "regs_read" ELSE "regs_halt"
    /\ UNCHANGED <<net, rest, frame, lastFn, note, savedPC, cpu, sent, handled, replies, cut>>

RegsHalt ==
    /\ spc = "regs_halt"
    /\ cpu' \in HaltCpu(cpu)
    /\ spc' = "regs_read"
    /\ UNCHANGED <<net, rest, connVars, sent, handled, replies, cut>>

\* the registers, the program counter among them, and ACC put back
RegsRead ==
    /\ spc = "regs_read"
    /\ savedPC' = cpu.pc
    /\ spc' = IF halted THEN "reply" ELSE "regs_resume"
    /\ UNCHANGED <<net, rest, frame, lastFn, note, halted, cpu, sent, handled, replies, cut>>

RegsResume ==
    /\ spc = "regs_resume"
    /\ cpu' = ResumeCpu(cpu)
    /\ spc' = "reply"
    /\ UNCHANGED <<net, rest, connVars, sent, handled, replies, cut>>

\* variant: the run state is kept after the notification
StayInRun(fn) == fn

\* iLastFunction after the notification of a halt
AfterNotification(fn) == 0

ReplyFn == IF note THEN RUN_TARGET
           ELSE IF lastFn \in {GET_STATUS, READ_MEM, READ_REGS, SET_BYTES, STEP, STOP_TARGET,
                           RESET_TARGET}
                THEN lastFn ELSE ERROR

\* The notification leaves the loop waiting for the rest of a frame, if there
\* is one; an answer ends the turn of the loop and begins a new NoICEFrame.
Reply ==
    /\ spc = "reply"
    /\ replies' = [fn |-> ReplyFn, pc |-> savedPC,
                   runs |-> replies.runs + (IF note THEN 1 ELSE 0)]
    /\ lastFn' = IF note THEN AfterNotification(lastFn) ELSE lastFn
    /\ frame' = <<>>
    /\ note' = FALSE
    /\ spc' = "read"
    /\ UNCHANGED <<net, rest, halted, savedPC, cpu, sent, handled, cut>>

\* A USB message fails, or the client goes away: catch( ... ) closes the socket.
Close ==
    /\ spc \in UsbSteps \/ (spc = "read" /\ net = <<>> /\ rest = <<>>)
    /\ spc' = "closed"
    /\ UNCHANGED <<net, rest, connVars, cpu, sent, handled, replies, cut>>

Server ==
    \/ RecvByte \/ ReadTimeout \/ PollStatus \/ GetPC \/ SetPC
    \/ Handle \/ Stop \/ Run \/ Step \/ Reset
    \/ RegsStatus \/ RegsHalt \/ RegsRead \/ RegsResume \/ Reply

Next == BeginFrame \/ SendBytes \/ Server \/ HitBreakpoint \/ Close

Spec == Init /\ [][Next]_vars

(* The thread of the connection runs; a client that has begun a frame       *)
(* finishes it.  Nothing makes the CPU reach its breakpoint.                *)
Fairness == WF_vars(Server) /\ WF_vars(SendBytes)

FairSpec == Spec /\ Fairness

-----------------------------------------------------------------------------
(* Properties                                                               *)

\* As long as no frame is forgotten half-way, the requests that are handled are
\* those the client sent, each once, in order, with their data, wherever the
\* network cuts the stream and whatever noise is in between (recvByte).
HandledAreSent == ~cut => IsPrefix(handled, sent)

\* Every request that was sent is handled, unless one was forgotten or the
\* connection ends: the receiver never waits for bytes of a frame it has
\* completely (recvByte, Worker).
AllHandled == <>[](Len(handled) = Len(sent) \/ cut \/ spc = "closed")

\* Once the target was told to run, a CPU that has stopped is reported to the
\* client, unless the client asks for something else first (Worker, the poll
\* of the run state).
HaltReported ==
    spc = "read" /\ lastFn = RUN_TARGET /\ cpu.st = "halted"
        ~> lastFn # RUN_TARGET \/ spc = "closed" \/ cpu.st = "running"

\* Every run of the target is reported at most once, although the poll, the
\* halt and the next request may meet in any order (Worker).
ReportedOnce ==
    replies.runs <= Cardinality({i \in DOMAIN handled : handled[i].fn = RUN_TARGET})

\* A report says the truth: the CPU is halted when it is sent, at the address
\* it reports, and after a breakpoint that is the address of the breakpoint
\* (Worker, "-- it here").
ReportIsTrue ==
    [][replies'.runs > replies.runs =>
          /\ cpu.st = "halted"
          /\ replies'.pc = cpu.pc
          /\ cpu.bp => cpu.pc = BpAddr]_vars

\* A frame that is being received is not lost to the poll of the run state
\* (Worker: "if we are not just receiving a frame from NOICE, we can check for
\* status").
FramesSurvivePolls == IsPrefix(handled, sent)

\* A CPU that reached its breakpoint in a run and was then stopped by the
\* client stands on the breakpoint and not one byte behind (Worker: "after the
\* hw breakpoint, the pc will be one byte over the breakpoint so -- it here").
NeverPastBreakpoint ==
    /\ spc = "read"
    /\ [i \in DOMAIN handled |-> handled[i].fn] = <<RUN_TARGET, STOP_TARGET>>
    /\ cpu.bp
    => cpu.pc = BpAddr
=============================================================================
