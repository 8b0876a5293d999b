------------------------------ MODULE FlashJob ------------------------------
(***************************************************************************)
(* One host program (CCFlasher) writing images into the flash of one       *)
(* CC2430/31 through the USB debug interface: CCFlasher::write, the page   *)
(* loop of CCDebugInterface::programFlash, the routine that                *)
(* writeFlashPage loads into the chip's RAM and starts there, and the exit *)
(* of CCFlasher::run.  The program is run up to MaxJobs times, one job     *)
(* after the other on the same chip, with different options; any USB       *)
(* message may fail (CUsbException), which ends the program and leaves the *)
(* chip as it is, its routine still running.                               *)
(*                                                                         *)
(* A page holds the set of its bits that are programmed to 0.  An erased   *)
(* page is {}; programming only adds bits, so a page that is written       *)
(* without an erase holds the union of the old and the new content.        *)
(***************************************************************************)
EXTENDS Naturals

CONSTANTS
    NPages,       \* pages of the flash: FLASH_SIZE / FLASH_PAGE_SIZE, 64 in the code
    Bits,         \* the bits of one page
    MacBits,      \* the bits of the last page that hold the 8 bytes of the MAC
    Images,       \* contents of the files given with -f, padded with 0xFF by loadFile
    InitialFlash, \* contents of the flash when the first job starts
    Macs,         \* addresses that may be given with -a
    NoMac,        \* no -a, or one that sscanf does not match
    NoFile,       \* a file that cannot be opened or read
    ErasePolls,   \* iCnt of massEraseFlash, 100 in the code
    MaxJobs       \* bound on the number of times the program is run

Pages    == 0 .. NPages - 1
LastPage == NPages - 1
Content  == SUBSET Bits

ASSUME PagesAssumption == NPages \in 1 .. 64
ASSUME BitsAssumption ==
    /\ MacBits \subseteq Bits
    /\ Macs \subseteq SUBSET MacBits
    /\ NoMac \notin Macs
ASSUME ImagesAssumption ==
    /\ Images \subseteq [Pages -> Content]
    /\ InitialFlash \subseteq [Pages -> Content]
    /\ NoFile \notin Images
ASSUME BoundsAssumption == ErasePolls \in Nat /\ MaxJobs \in Nat

VARIABLES
    \* the chip
    flash,        \* content of every page
    routine,      \* the routine of writeFlashPage: its phase, page, and bits still to program
    erasing,      \* a CHIP_ERASE is in progress
    target,       \* the CPU runs its own firmware, is held in reset, or is in debug mode
    led,          \* LED of the debug interface
    \* the host program
    pc, opts, file, buff, page, verify, polls, result, jobs,
    \* history: what the properties compare with
    mac0,         \* MAC in the flash when the job took the chip over
    faulty,       \* a flash operation of this job did not do what it was asked to
    gaveUp        \* this job stopped waiting for its mass erase

chipVars == <<flash, routine, erasing, target>>
jobVars  == <<opts, file, jobs>>
histVars == <<mac0, faulty, gaveUp>>
vars == <<flash, routine, erasing, target, led,
          pc, opts, file, buff, page, verify, polls, result, jobs,
          mac0, faulty, gaveUp>>

Blank   == [p \in Pages |-> {}]

\* verify: m_iVerify, where every number but 0 and 1 means what 2 means
Options == [verify : 0 .. 2, massErase : BOOLEAN, mac : Macs \cup {NoMac}]
Halted  == [st |-> "halted", page |-> 0, todo |-> {}]

UsbSteps ==
    {"led_on", "reset_on", "debug", "read_mac", "program", "chip_erase", "poll_erase",
     "page", "wait", "verify", "finish", "release_on", "release_off"}

TypeOK ==
    /\ flash \in [Pages -> Content]
    /\ routine \in [st : {"halted", "erase", "write"}, page : Pages, todo : Content]
    /\ erasing \in BOOLEAN
    /\ target \in {"run", "reset", "debug"}
    /\ led \in BOOLEAN
    /\ pc \in UsbSteps \cup {"idle", "load", "done"}
    /\ opts \in Options
    /\ file \in Images \cup {NoFile}
    /\ buff \in [Pages -> Content]
    /\ page \in 0 .. NPages
    /\ verify \in 0 .. 2
    /\ polls \in 0 .. ErasePolls
    /\ result \in {"none", "ok", "failed", "no_file", "no_interface", "usb_error"}
    /\ jobs \in 0 .. MaxJobs
    /\ mac0 \in SUBSET MacBits
    /\ faulty \in BOOLEAN
    /\ gaveUp \in BOOLEAN

-----------------------------------------------------------------------------
(* The decisions of the code, each preceded by the variants of it that the  *)
(* properties must tell from it.                                            *)

MacOf(content) == content[LastPage] \cap MacBits

WithMac(content, mac) ==
    [content EXCEPT ![LastPage] = (@ \ MacBits) \cup mac]

\* variant: the old address is not put back
PatchedBufferWithoutRestore(image, old, new) ==
    IF new = NoMac THEN image ELSE WithMac(image, new)

\* The buffer that is programmed: the old address is always restored, because
\* m_bRestoreMac has no option; an address given with -a then replaces it.
PatchedBuffer(image, old, new) ==
    IF new = NoMac THEN WithMac(image, old) ELSE WithMac(WithMac(image, old), new)

PageEmpty(content) == content = {}

\* variant: the erase is left to the caller
NeverErase(o) == FALSE

\* writeFlashPage is called with !bMassErase
ErasePage(o) == ~o.massErase

\* variant: nothing is verified after the first page, whatever the option
VerifyOnce(v) == 0

\* "only first page?": 1 becomes 0 once a page has been verified
NextVerify(v) == IF v = 1 THEN 0 ELSE v

\* variant: the light goes off whatever happened
LightOff(r) == FALSE

\* the light that tells the outcome: on for an error
OutcomeLed(r) == r = "failed"

\* variant: the page address is not scaled to flash words
FAddrHOfPageAddress(p) == (p * 2048) \div 256

\* variant: the mask is 0x7C
FAddrHMasked(p) ==
    LET quarter == ((p * 2048) \div 256) \div 4
    IN  (quarter % 128) - (quarter % 4)

\* value written to FADDRH: ((iPageAddress >> 8) / FLASH_WORD_SIZE) & 0x7E
FAddrH(p) ==
    LET quarter == ((p * 2048) \div 256) \div 4
    IN  (quarter % 128) - (quarter % 2)

\* the page the flash controller takes from FADDRH
SelectedPage(faddrh) == faddrh \div 2

\* The process exit status.  Only the exception and the missing interface are
\* told to the caller: the bRet that write() sets is the one declared inside
\* the try block, the one that is returned stays TRUE.
ExitCode(r) == IF r \in {"usb_error", "no_interface"} THEN 1 ELSE 0

-----------------------------------------------------------------------------
\* the options before parseOptions: the members set by the constructor
Defaults == [verify |-> 1, massErase |-> FALSE, mac |-> NoMac]

Init ==
    /\ flash \in InitialFlash
    /\ routine = Halted
    /\ erasing = FALSE
    /\ target = "run"
    /\ led = FALSE
    /\ pc = "idle"
    /\ opts = Defaults
    /\ file = NoFile
    /\ buff = Blank
    /\ page = 0
    /\ verify = 0
    /\ polls = 0
    /\ result = "none"
    /\ jobs = 0
    /\ mac0 = {}
    /\ faulty = FALSE
    /\ gaveUp = FALSE

\* what a process leaves when it is gone
FreshMemory ==
    /\ buff' = Blank
    /\ page' = 0
    /\ verify' = 0
    /\ polls' = 0

(* The user runs the program, a new process: the options are parsed, the    *)
(* interface is looked for.                                                 *)
Begin ==
    /\ pc \in {"idle", "done"}
    /\ jobs < MaxJobs
    /\ opts' \in Options
    /\ file' \in Images \cup {NoFile}
    /\ jobs' = jobs + 1
    /\ \/ pc' = "load" /\ result' = "none"
       \/ pc' = "done" /\ result' = "no_interface"
    /\ FreshMemory
    /\ UNCHANGED <<chipVars, led, histVars>>

(* loadFile: write() returns before it touches the chip if it fails.        *)
LoadFile ==
    /\ pc = "load"
    /\ \/ /\ file # NoFile
          /\ buff' = file
          /\ pc' = "led_on"
          /\ UNCHANGED result
       \/ /\ file = NoFile
          /\ pc' = "done"
          /\ result' = "no_file"
          /\ UNCHANGED buff
    /\ UNCHANGED <<chipVars, led, jobVars, page, verify, polls, histVars>>

LedOn ==
    /\ pc = "led_on"
    /\ led' = TRUE
    /\ pc' = "reset_on"
    /\ UNCHANGED <<chipVars, jobVars, buff, page, verify, polls, result, histVars>>

\* reset(true): the reset line is held, whatever the chip was doing ends
HoldReset ==
    /\ target' = "reset"
    /\ routine' = Halted
    /\ erasing' = FALSE

ResetOn ==
    /\ pc = "reset_on"
    /\ HoldReset
    /\ mac0' = MacOf(flash)
    /\ faulty' = FALSE
    /\ gaveUp' = FALSE
    /\ pc' = "debug"
    /\ UNCHANGED <<flash, led, jobVars, buff, page, verify, polls, result>>

EnterDebug ==
    /\ pc = "debug"
    /\ target' = "debug"
    /\ pc' = "read_mac"
    /\ UNCHANGED <<flash, routine, erasing, led, jobVars, buff, page, verify, polls,
                   result, histVars>>

(* readCodeBank of the last 8 bytes, and the two memcpy into m_pBuff.       *)
ReadMac ==
    /\ pc = "read_mac"
    /\ buff' = PatchedBuffer(buff, MacOf(flash), opts.mac)
    /\ pc' = "program"
    /\ UNCHANGED <<chipVars, led, jobVars, page, verify, polls, result, histVars>>

(* programFlash up to its loop: led, chip id, clock (its outcome is         *)
(* ignored), and the choice of a mass erase.                                *)
EnterProgram ==
    /\ pc = "program"
    /\ led' = TRUE
    /\ page' = 0
    /\ verify' = opts.verify
    /\ pc' = IF opts.massErase THEN "chip_erase" ELSE "page"
    /\ UNCHANGED <<chipVars, jobVars, buff, polls, result, histVars>>

MassErase ==
    /\ pc = "chip_erase"
    /\ erasing' = TRUE
    /\ polls' = ErasePolls
    /\ pc' = "poll_erase"
    /\ UNCHANGED <<flash, routine, target, led, jobVars, buff, page, verify, result, histVars>>

(* The erase is polled ErasePolls + 1 times; programFlash ignores what      *)
(* massEraseFlash returns and goes on in both cases.                        *)
PollErase ==
    /\ pc = "poll_erase"
    /\ \/ /\ ~erasing
          /\ pc' = "page"
          /\ UNCHANGED <<polls, gaveUp>>
       \/ /\ erasing /\ polls > 0
          /\ polls' = polls - 1
          /\ UNCHANGED <<pc, gaveUp>>
       \/ /\ erasing /\ polls = 0
          /\ pc' = "page"
          /\ gaveUp' = TRUE
          /\ UNCHANGED polls
    /\ UNCHANGED <<chipVars, led, jobVars, buff, page, verify, result, mac0, faulty>>

SkipPage ==
    /\ pc = "page"
    /\ page < NPages
    /\ PageEmpty(buff[page])
    /\ page' = page + 1
    /\ UNCHANGED <<chipVars, led, pc, jobVars, buff, verify, polls, result, histVars>>

(* writeFlashPage up to resume(): the page and the routine are in RAM and   *)
(* the routine runs.  The light blinks while they are loaded and is off     *)
(* after a page of 32 blocks.                                               *)
StartPage ==
    /\ pc = "page"
    /\ page < NPages
    /\ ~PageEmpty(buff[page])
    /\ routine' = [st   |-> IF ErasePage(opts) THEN "erase" ELSE "write",
                   page |-> SelectedPage(FAddrH(page)),
                   todo |-> buff[page]]
    /\ led' = FALSE
    /\ pc' = "wait"
    /\ UNCHANGED <<flash, erasing, target, jobVars, buff, page, verify, polls, result, histVars>>

(* The loop that polls the status until CPU_HALTED has no bound.            *)
WaitHalted ==
    /\ pc = "wait"
    /\ routine.st = "halted"
    /\ \/ verify # 0 /\ pc' = "verify" /\ UNCHANGED page
       \/ verify = 0 /\ pc' = "page" /\ page' = page + 1
    /\ UNCHANGED <<chipVars, led, jobVars, buff, verify, polls, result, histVars>>

(* readFlashPage and the comparison; an error ends the loop at once.        *)
Verify ==
    /\ pc = "verify"
    /\ led' = FALSE
    /\ verify' = NextVerify(verify)
    /\ \/ /\ flash[page] = buff[page]
          /\ page' = page + 1
          /\ pc' = "page"
          /\ UNCHANGED result
       \/ /\ flash[page] # buff[page]
          /\ result' = "failed"
          /\ pc' = "finish"
          /\ UNCHANGED page
    /\ UNCHANGED <<chipVars, jobVars, buff, polls, histVars>>

Complete ==
    /\ pc = "page"
    /\ page = NPages
    /\ led' = FALSE
    /\ result' = "ok"
    /\ pc' = "finish"
    /\ UNCHANGED <<chipVars, jobVars, buff, page, verify, polls, histVars>>

Finish ==
    /\ pc = "finish"
    /\ led' = OutcomeLed(result)
    /\ pc' = "release_on"
    /\ UNCHANGED <<chipVars, jobVars, buff, page, verify, polls, result, histVars>>

(* m_bResume has no option either: reset(true), reset(false).               *)
ReleaseOn ==
    /\ pc = "release_on"
    /\ HoldReset
    /\ pc' = "release_off"
    /\ UNCHANGED <<flash, led, jobVars, buff, page, verify, polls, result, histVars>>

ReleaseOff ==
    /\ pc = "release_off"
    /\ target' = "run"
    /\ pc' = "done"
    /\ UNCHANGED <<flash, routine, erasing, led, jobVars, buff, page, verify, polls,
                   result, histVars>>

(* A USB message fails: the exception unwinds to run(), which ends the      *)
(* program.  Nothing is undone: the light, the chip and its routine stay as *)
(* they are.  A message whose answer is lost has had its effect, which is   *)
(* the state one step later, where the next message fails; the last one has *)
(* no next step.                                                            *)
UsbFail ==
    /\ pc \in UsbSteps
    /\ pc' = "done"
    /\ result' = "usb_error"
    /\ led' \in IF pc \in {"page", "verify"} THEN BOOLEAN ELSE {led}
    /\ target' \in IF pc = "release_off" THEN {target, "run"} ELSE {target}
    /\ FreshMemory
    /\ UNCHANGED <<flash, routine, erasing, jobVars, histVars>>

Host ==
    \/ LoadFile \/ LedOn \/ ResetOn \/ EnterDebug \/ ReadMac \/ EnterProgram
    \/ MassErase \/ PollErase \/ SkipPage \/ StartPage \/ WaitHalted \/ Verify
    \/ Complete \/ Finish \/ ReleaseOn \/ ReleaseOff

-----------------------------------------------------------------------------
(* The chip.  An erase or a write may fail: the controller reports nothing, *)
(* only a verification can tell.                                            *)

ChipErases ==
    /\ erasing
    /\ flash' = Blank
    /\ erasing' = FALSE
    /\ UNCHANGED <<routine, target, led, pc, jobVars, buff, page, verify, polls, result,
                   histVars>>

RoutineErases ==
    /\ routine.st = "erase"
    /\ routine' = [routine EXCEPT !.st = "write"]
    /\ \/ flash' = [flash EXCEPT ![routine.page] = {}] /\ UNCHANGED faulty
       \/ faulty' = TRUE /\ UNCHANGED flash
    /\ UNCHANGED <<erasing, target, led, pc, jobVars, buff, page, verify, polls, result,
                   mac0, gaveUp>>

RoutineWrites ==
    /\ routine.st = "write"
    /\ \E b \in routine.todo :
          /\ routine' = [routine EXCEPT !.todo = @ \ {b}]
          /\ \/ flash' = [flash EXCEPT ![routine.page] = @ \cup {b}] /\ UNCHANGED faulty
             \/ faulty' = TRUE /\ UNCHANGED flash
    /\ UNCHANGED <<erasing, target, led, pc, jobVars, buff, page, verify, polls, result,
                   mac0, gaveUp>>

\* variant: the routine does not end in a breakpoint
RoutineNeverEnds == FALSE /\ UNCHANGED vars

\* the faked breakpoint 0xA5
RoutineEnds ==
    /\ routine.st = "write"
    /\ routine.todo = {}
    /\ routine' = Halted
    /\ UNCHANGED <<flash, erasing, target, led, pc, jobVars, buff, page, verify, polls,
                   result, histVars>>

Chip == ChipErases \/ RoutineErases \/ RoutineWrites \/ RoutineEnds

-----------------------------------------------------------------------------
Next == Begin \/ Host \/ UsbFail \/ Chip

Spec == Init /\ [][Next]_vars

(* The host is one thread that runs whenever it is not waiting for the      *)
(* chip, the routine runs to its end unless a reset stops it.  Nothing      *)
(* makes the user run the program again, and nothing makes a message fail.  *)
Fairness == WF_vars(Host) /\ WF_vars(Chip)

FairSpec == Spec /\ Fairness

-----------------------------------------------------------------------------
(* Properties                                                               *)

\* the pages the verification covers: all that are programmed, or the first of them
Programmed(p) == ~PageEmpty(buff[p])
Verified(p) ==
    /\ Programmed(p)
    /\ \/ opts.verify = 2
       \/ opts.verify = 1 /\ \A q \in Pages : q < p => ~Programmed(q)

\* A job that reports a complete flash left every page it had to verify equal
\* to the buffer, whatever the flash controller got wrong and whatever an
\* earlier job that was cut off left running (programFlash, -v).
VerifiedPagesMatch ==
    result = "ok" /\ ~gaveUp => \A p \in Pages : Verified(p) => flash[p] = buff[p]

\* Without a fault of the flash controller no verification is needed: a job
\* that reports a complete flash has written the image, and with a mass erase
\* the whole flash is the image (programFlash, writeFlashPage).
CleanJobWritesImage ==
    result = "ok" /\ ~faulty /\ ~gaveUp =>
        \A p \in Pages : Programmed(p) \/ opts.massErase => flash[p] = buff[p]

\* After a complete flash the chip has the address given with -a, or without
\* it the one it had when the job began, also when the image or an erase
\* covers the last page (CCFlasher::write, "Restoring MAC").
MacAsAsked ==
    /\ result = "ok"
    /\ ~gaveUp
    /\ ~faulty \/ opts.verify = 2
    /\ Programmed(LastPage)
    => MacOf(flash) = IF opts.mac = NoMac THEN mac0 ELSE opts.mac

\* The page loop never changes a page that is blank in the buffer, unless by a
\* chip erase: the pages an image does not use keep what they hold (the
\* "Skiping" branch of programFlash).
SkippedPagesKept ==
    [][\A p \in Pages :
          pc \in {"page", "wait", "verify"} /\ ~Programmed(p) /\ ~erasing
          => flash'[p] = flash[p]]_vars

\* A job that ran to its end has released the chip, with nothing left running
\* in it, and the light is on exactly if the job failed (CCFlasher::write,
\* "indicate LOG_ERROR").
OutcomeIndicated ==
    pc = "done" /\ result \in {"ok", "failed"} =>
        /\ led = (result = "failed")
        /\ target = "run"
        /\ ~erasing
        /\ routine.st = "halted"

\* Every job ends, by success, error or exception, although the loop that
\* waits for the routine has no bound (writeFlashPage).
EveryJobEnds == (pc = "load") ~> (pc = "done")

\* A job that reports a complete flash after a mass erase has erased the
\* flash: what is not in the image is blank (usage: "-m Do mass erase before
\* programming").
MassEraseHonoured ==
    pc = "done" /\ result = "ok" /\ opts.massErase /\ ~faulty => flash = buff

\* The exit status tells a job that wrote its image from one that did not
\* (run: "return bRet ? 0 : 1", with bRet = write(...)).
ExitCodeTellsOutcome ==
    pc = "done" => (ExitCode(result) = 0) = (result = "ok")
=============================================================================
