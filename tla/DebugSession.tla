---------------------------- MODULE DebugSession ----------------------------
(***************************************************************************)
(* The handlers of the debug server on one CPU.  Every connection has a    *)
(* thread; a handler is the sequence of USB messages it sends, and the     *)
(* messages of two handlers, the program that is debugged and its          *)
(* breakpoint interleave.  Handlers use registers of the program as        *)
(* scratch, and halt the CPU for a moment; the flash command shares one    *)
(* CCFlasher.                                                              *)
(*                                                                         *)
(* A register is either what the program has there or it is not; messages  *)
(* that read what no handler changes (chip id, program counter) and        *)
(* memory contents are left out.                                           *)
(***************************************************************************)
EXTENDS Naturals, Sequences

CONSTANTS
    Threads,  \* connections of the debug server
    Menus,    \* what the clients may ask: a function from Threads to sets of commands
    Files,    \* images that can be opened
    NoFile,   \* no file name, or one that cannot be opened
    Other     \* any other content of a page or of a buffer

Regs   == {"ACC", "PSW", "DPL", "DPH", "MEMCTR"}
Pages  == 1 .. 2
NoBurn == [page |-> 0, content |-> Other]

Commands ==
    {"getpc", "halt", "resume", "step", "setpc", "sfr", "setsfr", "dumpx", "reset", "flash",
     "regs", "code", "data", "stop", "run", "istep", "ireset"}

ASSUME MenuAssumption == Menus \subseteq [Threads -> SUBSET Commands]
ASSUME FileAssumption == NoFile \notin Files /\ Other \notin Files \cup {NoFile}

VARIABLES
    cpu,     \* the chip: running, halted, stopped at a breakpoint, or held in reset
    dirty,   \* the chip: registers that do not hold what the program has in them
    burn,    \* the chip: page the routine has to write, and its content
    flash,   \* the chip: content of its pages
    menu,    \* what each client asks for in this session
    todo,    \* messages a handler has still to send
    kept,    \* registers a handler has a true copy of and has to put back
    halted,  \* bHalted of a handler
    inRun,   \* iLastFunction is FN_RUN_TARGET
    name,    \* m_sFilename
    buff,    \* content of m_pBuff
    ptr,     \* pBuf of programFlash: m_pBuff, or a buffer that was deleted since
    given,   \* file name given with a flash command
    meant,   \* history: run state the last command or breakpoint put the CPU in, or "any"
    upset,   \* history: no register has to be the program's, and none is followed
    asked    \* history: file a flash command promises to write, or NoFile

chipVars == <<cpu, dirty, burn, flash>>
handlerVars == <<kept, halted, inRun>>
fileVars == <<name, buff, ptr, given>>
vars == <<chipVars, menu, todo, handlerVars, fileVars, meant, upset, asked>>

-----------------------------------------------------------------------------
(* Messages.                                                                *)

Save(r)    == <<"save", r>>     \* iX = getSFR( X ), to be put back, and told as it is
Tell(r)    == <<"tell", r>>     \* getSFR( X ), told to the client
Restore(r) == <<"restore", r>>  \* setSFR( X, iX )
Set(r)     == <<"set", r>>      \* setSFR( X, .. ) that the client asks for
Use(S)     == <<"use", S>>      \* an instruction that overwrites registers
Op(s)      == <<s>>

\* if( !bHalted ) around what a handler does with a halted CPU
Paused(body) == <<Op("status"), Op("halt_if")>> \o body \o <<Op("resume_if")>>

\* readXDATA
ReadXData == <<Use({"DPL", "DPH"}), Use({"ACC"}), Use({"DPL", "DPH"})>>

\* readCodeBank: MEMCTR, DPTR, and blocks read by the firmware
ReadCode == <<Use({"MEMCTR"}), Use({"DPL", "DPH"}), Use({"ACC", "DPL", "DPH"})>>

(* Handlers, each preceded by the variant a property must tell from it.     *)

GetPC == <<Save("ACC"), Tell("FMAP"), Restore("ACC")>>

SetPC == <<Op("par")>> \o Paused(<<Set("FMAP"), Op("setpc")>>)

SetPCLow == <<Op("par")>> \o Paused(<<Op("setpc")>>)

\* variant: the CPU is not resumed
SfrNotResumed ==
    <<Op("status"), Op("halt_if"), Save("ACC"), Op("par"), Tell("ANY"), Restore("ACC")>>

GetSfr == Paused(<<Save("ACC"), Op("par"), Tell("ANY"), Restore("ACC")>>)

SetSfr(r) == Paused(<<Op("par"), Set(r)>>)

\* DPTR and ACC around readXDATA, in the order of READ_MEM and of dumpx
DataRead ==
    <<Save("ACC"), Save("DPL"), Save("DPH")>> \o ReadXData
        \o <<Restore("DPL"), Restore("DPH"), Restore("ACC")>>

\* variant: ACC is saved after the first getSFR has overwritten it
RegsAccLate ==
    Paused(<<Tell("FMAP"), Save("ACC"), Tell("PSW"), Tell("DPL"), Tell("DPH"), Tell("REST"),
             Restore("ACC")>>)

ReadRegs ==
    Paused(<<Save("ACC"), Tell("FMAP"), Tell("PSW"), Tell("DPL"), Tell("DPH"), Tell("REST"),
             Restore("ACC")>>)

\* variant: DPH is not put back
CodeWithoutDph ==
    <<Save("ACC"), Save("PSW"), Save("MEMCTR"), Save("DPL"), Save("DPH")>>
        \o Paused(ReadCode)
        \o <<Restore("MEMCTR"), Restore("DPL"), Restore("PSW"), Restore("ACC")>>

\* getCode when the cache does not have all that is asked for
CodeRead ==
    <<Save("ACC"), Save("PSW"), Save("MEMCTR"), Save("DPL"), Save("DPH")>>
        \o Paused(ReadCode)
        \o <<Restore("MEMCTR"), Restore("DPL"), Restore("DPH"), Restore("PSW"),
             Restore("ACC")>>

\* variant: the last page is not waited for
FlashNoWait ==
    <<Op("name"), Op("alloc"), Op("load"), Op("reset_on"), Op("debug"), Op("program"),
      <<"page", 1>>, <<"wait", 1>>, <<"verify", 1>>, <<"page", 2>>,
      Op("free"), <<"answer", "ok">>>>

\* write(): load, take the chip over, program, verify the first page, release
Flash ==
    <<Op("name"), Op("alloc"), Op("load"), Op("reset_on"), Op("debug"), Op("program"),
      <<"page", 1>>, <<"wait", 1>>, <<"verify", 1>>, <<"page", 2>>, <<"wait", 2>>,
      Op("free"), <<"answer", "ok">>>>

FailedFlash == <<Op("free"), <<"answer", "failed">>>>

Notification == {ReadRegs, <<Op("setpc")>> \o ReadRegs}

Handlers(c) ==
    CASE c = "getpc"  -> {GetPC}
      [] c = "halt"   -> {<<Op("halt")>> \o GetPC}
      [] c = "resume" -> {<<Op("resume")>>}
      [] c = "step"   -> {<<Op("step")>> \o GetPC}
      [] c = "setpc"  -> {SetPC, SetPCLow}
      [] c = "sfr"    -> {GetSfr}
      [] c = "setsfr" -> {SetSfr(r) : r \in Regs}
      [] c = "dumpx"  -> {<<Op("par")>> \o DataRead}
      [] c = "reset"  -> {<<Op("reset_on"), Op("reset_off"), Op("debug")>>}
      [] c = "flash"  -> {Flash}
      [] c = "regs"   -> {ReadRegs}
      [] c = "code"   -> {CodeRead}
      [] c = "data"   -> {DataRead}
      [] c = "stop"   -> {<<Op("halt")>>}
      [] c = "run"    -> {<<Op("resume")>>}
      [] c = "istep"  -> {<<Op("step")>> \o ReadRegs}
      [] c = "ireset" -> {<<Op("debug"), Op("halt"), Op("setpc")>>}

Suffixes(s) == {SubSeq(s, n, Len(s)) : n \in 1 .. Len(s) + 1}
Rests == UNION {Suffixes(s) : s \in (UNION {Handlers(c) : c \in Commands})
                                        \cup Notification \cup {FailedFlash}}

-----------------------------------------------------------------------------
Is(t, op)  == todo[t] # <<>> /\ Head(todo[t])[1] = op
Arg(t)     == Head(todo[t])[2]
Has(t, op) == \E i \in DOMAIN todo[t] : todo[t][i][1] = op

TypeOK ==
    /\ cpu \in {"running", "halted", "breakpoint", "reset"}
    /\ dirty \subseteq Regs
    /\ burn \in [page : Pages, content : Files \cup {Other}] \cup {NoBurn}
    /\ flash \in [Pages -> Files \cup {Other}]
    /\ menu \in Menus
    /\ todo \in [Threads -> Rests]
    /\ kept \in [Threads -> SUBSET Regs]
    /\ halted \in [Threads -> BOOLEAN]
    /\ inRun \in [Threads -> BOOLEAN]
    /\ name \in Files \cup {NoFile}
    /\ buff \in Files \cup {Other}
    /\ ptr \in [Threads -> {"none", "live", "freed"}]
    /\ given \in [Threads -> Files \cup {NoFile}]
    /\ meant \in {"running", "halted", "any"}
    /\ upset \in BOOLEAN
    /\ asked \in [Threads -> Files \cup {NoFile}]

\* startDebugServer takes the chip over before the server runs.
Init ==
    /\ cpu = "halted"
    /\ dirty = {}
    /\ burn = NoBurn
    /\ flash = [p \in Pages |-> Other]
    /\ menu \in Menus
    /\ todo = [t \in Threads |-> <<>>]
    /\ kept = [t \in Threads |-> {}]
    /\ halted = [t \in Threads |-> FALSE]
    /\ inRun = [t \in Threads |-> FALSE]
    /\ name = NoFile
    /\ buff = Other
    /\ ptr = [t \in Threads |-> "none"]
    /\ given = [t \in Threads |-> NoFile]
    /\ meant = "halted"
    /\ upset = FALSE
    /\ asked = [t \in Threads |-> NoFile]

-----------------------------------------------------------------------------
(* What a handler has under way.                                            *)

\* it has taken the chip over and not released it
Holding(t) == (Has(t, "debug") \/ Has(t, "answer")) /\ ~Has(t, "reset_on")

\* registers it uses and has not put back
Held(t) ==
    IF Holding(t) THEN Regs
    ELSE {r \in Regs : /\ \E i \in DOMAIN todo[t] : todo[t][i] = Restore(r)
                       /\ \A i \in DOMAIN todo[t] : todo[t][i] # Save(r)}

\* it found the CPU running and has still to resume it
WillResume(t) == Has(t, "resume_if") /\ ~Has(t, "status") /\ ~halted[t]

Engaged(t) == WillResume(t) \/ Holding(t)
Others(t) == Threads \ {t}
OthersHold(t) == \E u \in Others(t) : Held(u) # {}
OthersEngaged(t) == \E u \in Others(t) : Engaged(u)

Stopped == cpu \in {"halted", "breakpoint"}

-----------------------------------------------------------------------------
(* What other handlers can count on.                                        *)

Sent(t) == todo' = [todo EXCEPT ![t] = Tail(@)]
Stops(t) == todo' = [todo EXCEPT ![t] = <<>>]

\* Registers are followed as long as nothing has upset them.
NoneKept == [u \in Threads |-> {}]
Follow(D, K) ==
    IF upset' THEN dirty' = {} /\ kept' = NoneKept
    ELSE dirty' = D /\ kept' = K

Forget(r) == [u \in Threads |-> kept[u] \ {r}]

\* The CPU is in state m, unless one of the threads U has a say in that too.
Means(m, U) == meant' = IF \E u \in U : Engaged(u) THEN "any" ELSE m

\* A flash command promises nothing once it is over, or, of another thread than
\* t, when it is among S.
Crosses(t, S) ==
    asked' = [u \in Threads |->
                IF todo'[u] = <<>> \/ u \in S \ {t} THEN NoFile ELSE asked[u]]

\* A message of t changes the chip.
Disturbs(t) == Crosses(t, {u \in Threads : Has(u, "answer") /\ Holding(u)})

-----------------------------------------------------------------------------
(* Instructions.  A stopped CPU executes what the debug interface sends, a  *)
(* running one may, one in reset does not.                                  *)

Executes == IF Stopped THEN {TRUE} ELSE IF cpu = "running" THEN BOOLEAN ELSE {FALSE}

Instr(t) ==
    /\ Sent(t)
    /\ Disturbs(t)
    /\ upset' = (upset \/ ~Stopped \/ OthersHold(t))
    /\ UNCHANGED <<cpu, flash, menu, halted, inRun, fileVars, meant>>

\* MOV A, direct
SaveReg(t) ==
    /\ Is(t, "save")
    /\ Instr(t)
    /\ Follow(IF Arg(t) = "ACC" THEN dirty ELSE dirty \cup {"ACC"},
              [kept EXCEPT ![t] = IF Arg(t) \in dirty THEN @ ELSE @ \cup {Arg(t)}])
    /\ UNCHANGED burn

TellReg(t) ==
    /\ Is(t, "tell")
    /\ Instr(t)
    /\ Follow(dirty \cup {"ACC"}, kept)
    /\ UNCHANGED burn

\* MOV direct, #imm
RestoreReg(t) ==
    /\ Is(t, "restore")
    /\ Instr(t)
    /\ Follow(IF Arg(t) \in kept[t] THEN dirty \ {Arg(t)} ELSE dirty \cup {Arg(t)},
              [kept EXCEPT ![t] = @ \ {Arg(t)}])
    /\ UNCHANGED burn

\* The program has what the client puts in the register.
SetReg(t) ==
    /\ Is(t, "set")
    /\ Instr(t)
    /\ Follow(dirty \ {Arg(t)}, Forget(Arg(t)))
    /\ UNCHANGED burn

UseRegs(t) ==
    /\ Is(t, "use")
    /\ Instr(t)
    /\ Follow(dirty \cup Arg(t), kept)
    /\ UNCHANGED burn

SetPCOf(t) ==
    /\ Is(t, "setpc")
    /\ Instr(t)
    /\ \E done \in Executes : burn' = IF done THEN NoBurn ELSE burn
    /\ Follow(dirty, kept)

-----------------------------------------------------------------------------
(* Run control.                                                             *)

\* CPU_HALTED of getStatus, any value in reset
Statuses == IF cpu = "reset" THEN BOOLEAN ELSE {Stopped}

GetStatus(t) ==
    /\ Is(t, "status")
    /\ Sent(t)
    /\ \E st \in Statuses : halted' = [halted EXCEPT ![t] = st]
    /\ UNCHANGED <<chipVars, menu, kept, inRun, fileVars, meant, upset, asked>>

HaltIf(t) ==
    /\ Is(t, "halt_if")
    /\ Sent(t)
    /\ IF halted[t] THEN UNCHANGED <<cpu, asked>>
       ELSE Disturbs(t) /\ cpu' = IF cpu = "running" THEN "halted" ELSE cpu
    /\ UNCHANGED <<dirty, burn, flash, menu, handlerVars, fileVars, meant, upset>>

ResumeIf(t) ==
    /\ Is(t, "resume_if")
    /\ Sent(t)
    /\ IF halted[t] THEN UNCHANGED <<cpu, asked, upset>>
       ELSE /\ Disturbs(t)
            /\ cpu' = IF Stopped THEN "running" ELSE cpu
            /\ upset' = (upset \/ OthersHold(t))
    /\ Follow(dirty, kept)
    /\ halted' = [halted EXCEPT ![t] = FALSE]
    /\ UNCHANGED <<burn, flash, menu, inRun, fileVars, meant>>

Halt(t) ==
    /\ Is(t, "halt")
    /\ Sent(t)
    /\ Disturbs(t)
    /\ cpu' = IF cpu = "running" THEN "halted" ELSE cpu
    /\ Means(IF cpu = "reset" THEN "any" ELSE "halted", Others(t))
    /\ UNCHANGED <<dirty, burn, flash, menu, handlerVars, fileVars, upset>>

Resume(t) ==
    /\ Is(t, "resume")
    /\ Sent(t)
    /\ Disturbs(t)
    /\ cpu' = IF Stopped THEN "running" ELSE cpu
    /\ Means(IF cpu = "reset" THEN "any" ELSE "running", Others(t))
    /\ upset' = (upset \/ OthersHold(t))
    /\ Follow(dirty, kept)
    /\ UNCHANGED <<burn, flash, menu, halted, inRun, fileVars>>

\* The program executes an instruction.
Step(t) ==
    /\ Is(t, "step")
    /\ Sent(t)
    /\ Disturbs(t)
    /\ cpu' = IF Stopped THEN "halted" ELSE cpu
    /\ upset' = (upset \/ OthersHold(t))
    /\ Follow(dirty, kept)
    /\ UNCHANGED <<burn, flash, menu, halted, inRun, fileVars, meant>>

\* The program starts over, and its registers with it.
StartsOver(t) ==
    /\ dirty' = {}
    /\ kept' = NoneKept
    /\ burn' = NoBurn
    /\ upset' = OthersHold(t)

\* reset( true )
ResetOn(t) ==
    /\ Is(t, "reset_on") \/ Is(t, "free")
    /\ Sent(t)
    /\ Disturbs(t)
    /\ cpu' = "reset"
    /\ StartsOver(t)
    /\ UNCHANGED <<flash, menu, halted, inRun, fileVars, meant>>

\* reset( false ), with which write() ends too
ResetOff(t) ==
    /\ Is(t, "reset_off") \/ Is(t, "answer")
    /\ Sent(t)
    /\ Disturbs(t)
    /\ cpu' = IF cpu = "reset" THEN "running" ELSE cpu
    /\ Means(IF cpu = "reset" THEN "running" ELSE "any", Others(t))
    /\ ptr' = [ptr EXCEPT ![t] = "none"]
    /\ given' = [given EXCEPT ![t] = NoFile]
    /\ UNCHANGED <<dirty, burn, flash, menu, handlerVars, name, buff, upset>>

\* Whether entering debug mode resets the chip is the firmware's business.
EnterDebugMode(t) ==
    /\ Is(t, "debug")
    /\ Sent(t)
    /\ Disturbs(t)
    /\ cpu' = "halted"
    /\ Means("halted", Others(t))
    /\ UNCHANGED <<dirty, kept, burn, upset>> \/ StartsOver(t)
    /\ UNCHANGED <<flash, menu, halted, inRun, fileVars>>

-----------------------------------------------------------------------------
(* The flash command.  m_pBuff, m_sFilename and the chip are shared.        *)

SetName(t) ==
    /\ Is(t, "name")
    /\ Sent(t)
    /\ \E f \in Files \cup {NoFile} :
        /\ given' = [given EXCEPT ![t] = f]
        /\ name' = IF f = NoFile THEN name ELSE f
        /\ asked' = [u \in Threads |->
                        IF u = t THEN name'
                        ELSE IF f # NoFile /\ given[u] = NoFile /\ Has(u, "load") THEN NoFile
                        ELSE asked[u]]
    /\ UNCHANGED <<chipVars, menu, handlerVars, buff, ptr, meant, upset>>

\* the flash commands that count on what is in m_pBuff
Loading == {u \in Threads : Has(u, "answer") /\ ~Has(u, "alloc")}

\* delete m_pBuff; m_pBuff = new ..
Alloc(t) ==
    /\ Is(t, "alloc")
    /\ Sent(t)
    /\ buff' = Other
    /\ ptr' = [u \in Threads |-> IF ptr[u] = "live" THEN "freed" ELSE ptr[u]]
    /\ Crosses(t, Loading)
    /\ UNCHANGED <<chipVars, menu, handlerVars, name, given, meant, upset>>

\* variant: the result of fopen is not looked at
OpensAny(f) == TRUE

Opens(f) == f # NoFile

\* fopen and fread into m_pBuff, or write() returns
Load(t) ==
    /\ Is(t, "load")
    /\ LET f == IF given[t] # NoFile THEN given[t] ELSE name IN
        \/ Opens(f) /\ buff' = f /\ Sent(t) /\ UNCHANGED given
        \/ buff' \in {buff, Other} /\ Stops(t) /\ given' = [given EXCEPT ![t] = NoFile]
    /\ Crosses(t, Loading)
    /\ UNCHANGED <<chipVars, menu, handlerVars, name, ptr, meant, upset>>

\* programFlash( m_pBuff, .. )
Program(t) ==
    /\ Is(t, "program")
    /\ Sent(t)
    /\ ptr' = [ptr EXCEPT ![t] = "live"]
    /\ UNCHANGED <<chipVars, menu, handlerVars, name, buff, given, meant, upset, asked>>

\* what pBuf may point to
Content(t) == IF ptr[t] = "live" THEN {buff} ELSE Files \cup {Other}

\* writeFlashPage: data, routine, LJMP and RESUME
WritePage(t) ==
    /\ Is(t, "page")
    /\ Sent(t)
    /\ Disturbs(t)
    /\ upset' = (upset \/ ~Stopped \/ OthersHold(t))
    /\ Follow(Regs, kept)
    /\ \E done \in Executes, c \in Content(t) :
        IF done
        THEN /\ burn' = [page |-> Arg(t), content |-> c]
             /\ flash' = [flash EXCEPT ![Arg(t)] = Other]
             /\ cpu' = "running"
        ELSE UNCHANGED <<burn, flash, cpu>>
    /\ UNCHANGED <<menu, halted, inRun, fileVars, meant>>

\* do .. while( !( iStatus & CPU_HALTED ) )
Wait(t) ==
    /\ Is(t, "wait")
    /\ TRUE \in Statuses
    /\ Sent(t)
    /\ UNCHANGED <<chipVars, menu, handlerVars, fileVars, meant, upset, asked>>

Verify(t) ==
    /\ Is(t, "verify")
    /\ upset' = (upset \/ ~Stopped \/ OthersHold(t))
    /\ Follow(Regs, kept)
    /\ \E c \in Content(t) :
       \E same \in (IF Stopped THEN {flash[Arg(t)] = c} ELSE BOOLEAN) :
        todo' = [todo EXCEPT ![t] = IF same THEN Tail(@) ELSE FailedFlash]
    /\ Disturbs(t)
    /\ UNCHANGED <<cpu, burn, flash, menu, halted, inRun, fileVars, meant>>

-----------------------------------------------------------------------------
(* A handler begins, goes on, or is cut: getPar throws, or a USB transfer   *)
(* fails and the connection is closed.                                      *)

Begin(t, c) ==
    /\ todo[t] = <<>>
    /\ c \in menu[t]
    /\ \E h \in Handlers(c) : todo' = [todo EXCEPT ![t] = h]
    /\ inRun' = [inRun EXCEPT ![t] = c = "run"]
    /\ UNCHANGED <<chipVars, menu, kept, halted, fileVars, meant, upset, asked>>

\* variant: the status is not looked at
SeesAny == TRUE

SeesStop == TRUE \in Statuses

\* The thread of a client that let the program run finds the CPU stopped.
Poll(t) ==
    /\ todo[t] = <<>>
    /\ inRun[t]
    /\ SeesStop
    /\ \E n \in Notification :
        /\ cpu = "halted" => n = ReadRegs
        /\ cpu = "breakpoint" => n # ReadRegs
        /\ todo' = [todo EXCEPT ![t] = n]
    /\ inRun' = [inRun EXCEPT ![t] = FALSE]
    /\ UNCHANGED <<chipVars, menu, kept, halted, fileVars, meant, upset, asked>>

GetPar(t) ==
    /\ Is(t, "par")
    /\ Sent(t)
    /\ UNCHANGED <<chipVars, menu, handlerVars, fileVars, meant, upset, asked>>

Cut(t) ==
    /\ todo[t] # <<>>
    /\ ~Is(t, "name") /\ ~Is(t, "alloc") /\ ~Is(t, "load")
    /\ Stops(t)
    /\ upset' = (upset \/ dirty # {})
    /\ Follow(dirty, [kept EXCEPT ![t] = {}])
    /\ meant' = IF Engaged(t) THEN "any" ELSE meant
    /\ halted' = [halted EXCEPT ![t] = FALSE]
    /\ inRun' = [inRun EXCEPT ![t] = FALSE]
    /\ ptr' = [ptr EXCEPT ![t] = "none"]
    /\ given' = [given EXCEPT ![t] = NoFile]
    /\ Crosses(t, {})
    /\ UNCHANGED <<cpu, burn, flash, menu, name, buff>>

Message(t) ==
    \/ SaveReg(t) \/ TellReg(t) \/ RestoreReg(t) \/ SetReg(t) \/ UseRegs(t) \/ SetPCOf(t)
    \/ GetStatus(t) \/ HaltIf(t) \/ ResumeIf(t) \/ Halt(t) \/ Resume(t) \/ Step(t)
    \/ ResetOn(t) \/ ResetOff(t) \/ EnterDebugMode(t)
    \/ SetName(t) \/ Alloc(t) \/ Load(t) \/ Program(t) \/ WritePage(t) \/ Wait(t) \/ Verify(t)
    \/ GetPar(t)

-----------------------------------------------------------------------------
(* The program and the flash routine, while the CPU runs.  That the program *)
(* writes registers need not be modelled: a handler that has one in use     *)
(* meanwhile has upset it.                                                  *)

Arrives ==
    /\ cpu = "running"
    /\ Means("halted", Threads)
    /\ UNCHANGED <<menu, todo, halted, inRun, fileVars, upset, asked>>

HitBreakpoint ==
    /\ Arrives
    /\ burn = NoBurn
    /\ cpu' = "breakpoint"
    /\ UNCHANGED <<dirty, burn, flash, kept>>

RoutineEnds ==
    /\ Arrives
    /\ burn # NoBurn
    /\ cpu' = "halted"
    /\ flash' = [flash EXCEPT ![burn.page] = burn.content]
    /\ burn' = NoBurn
    /\ UNCHANGED <<dirty, kept>>

Next ==
    \/ \E t \in Threads :
        Message(t) \/ Poll(t) \/ Cut(t) \/ \E c \in menu[t] : Begin(t, c)
    \/ HitBreakpoint \/ RoutineEnds

Spec == Init /\ [][Next]_vars

-----------------------------------------------------------------------------
(* Properties.                                                              *)

\* Registers that do not hold the program's value are among those a handler
\* still has to put back, and a program that runs has all of its own, unless
\* an instruction was sent to a CPU that was not stopped or between the save
\* and the restore of another handler, or a handler was cut.
RegistersIntact ==
    ~upset => /\ dirty \subseteq UNION {Held(t) : t \in Threads}
              /\ cpu = "running" /\ burn = NoBurn => dirty = {}

\* What a client is told of a register is the program's value.
AnswersTrue ==
    [][\A t \in Threads : (SaveReg(t) \/ TellReg(t)) /\ ~upset' => Arg(t) \notin dirty]_vars

\* When no handler is in between, the CPU runs or is stopped as the last
\* command or breakpoint had it, unless that came while a handler was about to
\* resume or had taken the chip over, or such a handler was cut.
RunStateAsMeant ==
    meant # "any" /\ (\A t \in Threads : ~Engaged(t)) => (Stopped <=> meant = "halted")

\* A NoICE client is told of the end of a run when the program really stopped,
\* not when another handler holds it for a moment.
EndOfRunIsReal ==
    [][\A t \in Threads : Poll(t) => meant # "running" \/ OthersEngaged(t)]_vars

\* OK to a flash command means that every page has the image the client named,
\* unless another connection named a file, loaded one or sent the chip
\* something in the meantime.
FlashAnswersTrue ==
    [][\A t \in Threads :
        Is(t, "answer") /\ Arg(t) = "ok" /\ ResetOff(t) /\ asked[t] # NoFile
            => \A p \in Pages : flash[p] = asked[t]]_vars
=============================================================================
