---------------------------- MODULE FlashRoutine ----------------------------
(***************************************************************************)
(* CCDebugInterface::writeFlashPage byte by byte: the 8051 routine it      *)
(* assembles, the transfer of the page and of the routine into the RAM of  *)
(* the chip, and the CPU that executes what is there against the flash     *)
(* controller.  Numbers are those of the code: 2 KB pages, words of four   *)
(* bytes, 8-bit registers, relative jumps.                                 *)
(*                                                                         *)
(* The 8051 core, the flash controller and the firmware of the debug       *)
(* interface are external; only the instructions of the routine are there. *)
(***************************************************************************)
EXTENDS Integers, Sequences

CONSTANTS
    Jobs,  \* calls of writeFlashPage: page, bErasePage, and whether the page is blank
    Buff   \* pBuff

PageSize == 2048
WordSize == 4
NWords   == PageSize \div WordSize
Words    == 0 .. NWords - 1
Byte     == 0 .. 255

\* variant: a byte is not cut off
Unmasked(x) == x

LowByte(x)  == x % 256
HighByte(x) == (x \div 256) % 256

\* contents of a word: erased, or something that is not followed
Erased  == <<255, 255, 255, 255>>
Spoiled == <<-1, -1, -1, -1>>

ASSUME JobsAssumption ==
    \A j \in Jobs : /\ j.page \in 0 .. 63
                    /\ j.erase \in BOOLEAN
                    /\ j.blank \in BOOLEAN
ASSUME BuffAssumption == Buff \in [1 .. PageSize -> Byte]

VARIABLES
    job,     \* this call
    host,    \* where writeFlashPage is
    sent,    \* bytes of the block that writeXDATA has sent
    ram,     \* the RAM that is used
    memctr,  \* MEMCTR
    core,    \* the CPU: whether it runs, PC, ACC, DPTR and R5, R6, R7
    faddr,   \* FADDRH and FADDRL: a word of the flash
    writing, \* WRITE of FLC
    latch,   \* bytes given to FWDATA for the next word
    busy,    \* what the controller is doing
    cells,   \* the words of the page
    strays   \* words elsewhere that were erased or written

hostVars  == <<job, host, sent, ram, memctr>>
flashVars == <<faddr, writing, latch, busy, cells, strays>>
vars == <<hostVars, core, flashVars>>

-----------------------------------------------------------------------------
(* The routine.                                                             *)

FADDRL == 172
FADDRH == 173
FLC    == 174
FWDATA == 175
P1DIR  == 254

\* 0x75: MOV direct, #imm; 0xE5: MOV A, direct; 0x20: JB bit, rel
\* variant: a byte address where a word address is due
ByteAddress(page) == 2 * ((((page * PageSize) \div 256) \div 2) % 64)

\* ((iPageAddress >> 8) / FLASH_WORD_SIZE) & 0x7E
AddressHigh(page) == 2 * (((((page * PageSize) \div 256) \div WordSize) \div 2) % 64)

\* variant: the wait goes back to the start of the erase
EraseAgain == <<<<117, FLC, 1>>, <<229, FLC>>, <<32, 231, 248>>>>

EraseCode == <<<<117, FLC, 1>>, <<229, FLC>>, <<32, 231, 251>>>>

Count == <<<<127, HighByte(NWords)>>, <<126, LowByte(NWords)>>>>

\* variant: the loop skips MOVX A, @DPTR
SameByte == <<<<125, WordSize>>, <<224>>, <<163>>, <<245, FWDATA>>, <<221, 251>>>>

WordCode == <<<<125, WordSize>>, <<224>>, <<163>>, <<245, FWDATA>>, <<221, 250>>>>

\* variant: the inner loop is one byte shorter
LateLoop == <<<<222, 242>>, <<223, 239>>>>

Loop == <<<<222, 241>>, <<223, 239>>>>

Instructions(page, erase) ==
    <<<<117, FADDRH, AddressHigh(page)>>, <<117, P1DIR, 1>>, <<117, FADDRL, 0>>>>
        \o (IF erase THEN EraseCode ELSE <<>>)
        \o <<<<144, 240, 0>>>> \o Count
        \o <<<<117, FLC, 2>>>> \o WordCode \o <<<<229, FLC>>, <<32, 230, 251>>>>
        \o Loop
        \o <<<<117, P1DIR, 0>>, <<165>>>>

\* CByteBuffer::add
BytesUpTo(code) ==
    LET f[i \in 0 .. Len(code)] == IF i = 0 THEN <<>> ELSE f[i - 1] \o code[i] IN f

Routine ==
    [j \in Jobs |->
        LET code == Instructions(j.page, j.erase) IN BytesUpTo(code)[Len(code)]]

DataAddr == 61440                  \* 0xF000
CodeAddr == DataAddr + PageSize
Ram      == DataAddr .. CodeAddr + 63

\* addresses at which an instruction of the routine begins
Starts ==
    [e \in BOOLEAN |->
        LET code == Instructions(0, e) IN
        {CodeAddr + Len(BytesUpTo(code)[i]) : i \in 0 .. Len(code) - 1}]

-----------------------------------------------------------------------------
Init ==
    /\ job \in Jobs
    /\ host = "data"
    /\ sent = 0
    /\ ram = [a \in Ram |-> 0]
    /\ memctr = 1
    /\ core = [runs |-> FALSE, pc |-> 0, acc |-> 0, dptr |-> 0, r |-> [k \in 5 .. 7 |-> 0]]
    /\ faddr = 0
    /\ writing = FALSE
    /\ latch = <<>>
    /\ busy = "no"
    /\ cells = [w \in Words |-> IF job.blank THEN Erased ELSE Spoiled]
    /\ strays = {}

-----------------------------------------------------------------------------
(* The host.                                                                *)

At(from, to) == host = from /\ host' = to /\ UNCHANGED <<job, flashVars>>

\* writeXDATA begins: MOV DPTR, iAddr
Point(from, to, addr) ==
    /\ At(from, to)
    /\ core' = [core EXCEPT !.dptr = addr]
    /\ sent' = 0
    /\ UNCHANGED <<ram, memctr>>

BlockSize(cnt) == IF sent + 64 < cnt THEN 64 ELSE cnt - sent

\* writeXDATADirect: the firmware writes a block at DPTR and moves it on
Send(from, to, bytes, cnt) ==
    LET size  == BlockSize(cnt)
        first == core.dptr IN
    /\ At(from, IF sent + size < cnt THEN from ELSE to)
    /\ ram' = [a \in Ram |-> IF a \in first .. first + size - 1
                             THEN bytes[sent + 1 + a - first] ELSE ram[a]]
    /\ core' = [core EXCEPT !.dptr = (@ + size) % 65536]
    /\ sent' = sent + size
    /\ UNCHANGED memctr

PointData == Point("data", "send_data", DataAddr)
SendData  == Send("send_data", "routine", Buff, PageSize)
PointCode == Point("routine", "send_routine", CodeAddr)
SendCode  == Send("send_routine", "map", Routine[job], Len(Routine[job]))

\* MOV MEMCTR, 0x40 | 0x10 | 0x01: code is fetched from RAM too
MapRam == At("map", "jump") /\ memctr' = 81 /\ UNCHANGED <<sent, ram, core>>

SetPC ==
    /\ At("jump", "resume")
    /\ core' = [core EXCEPT !.pc = CodeAddr]
    /\ UNCHANGED <<sent, ram, memctr>>

Resume ==
    /\ At("resume", "wait")
    /\ core' = [core EXCEPT !.runs = TRUE]
    /\ UNCHANGED <<sent, ram, memctr>>

\* variant: the status is read once
WaitOnce == At("wait", "done") /\ UNCHANGED <<sent, ram, memctr, core>>

WaitHalted == At("wait", "done") /\ ~core.runs /\ UNCHANGED <<sent, ram, memctr, core>>

\* A transfer fails: CUsbException, and what runs on the chip goes on.
UsbFail ==
    /\ host \notin {"done", "failed"}
    /\ At(host, "failed")
    /\ UNCHANGED <<sent, ram, memctr, core>>

-----------------------------------------------------------------------------
(* The CPU: one action for each opcode.                                     *)

Fetch(opcode) ==
    /\ core.runs
    /\ memctr >= 64
    /\ core.pc \in Ram
    /\ ram[core.pc] = opcode
    /\ UNCHANGED hostVars

Operand(i) == ram[core.pc + i]

\* the CPU after an instruction of so many bytes
After(length) == [core EXCEPT !.pc = @ + length]

\* rel is a signed byte, from the end of the instruction
Jumped(c, rel) == [c EXCEPT !.pc = @ + (IF rel < 128 THEN rel ELSE rel - 256)]

MovAddress ==
    /\ Fetch(117)
    /\ \/ Operand(1) = FADDRH /\ faddr' = 256 * Operand(2) + LowByte(faddr)
       \/ Operand(1) = FADDRL /\ faddr' = 256 * HighByte(faddr) + Operand(2)
    /\ core' = After(3)
    /\ UNCHANGED <<writing, latch, busy, cells, strays>>

MovPort == Fetch(117) /\ Operand(1) = P1DIR /\ core' = After(3) /\ UNCHANGED flashVars

\* bit 0 of FLC starts an erase, bit 1 lets FWDATA write
MovFlc ==
    /\ Fetch(117)
    /\ Operand(1) = FLC
    /\ busy' = IF Operand(2) % 2 = 1 THEN "erase" ELSE busy
    /\ writing' = (Operand(2) \div 2 = 1)
    /\ core' = After(3)
    /\ UNCHANGED <<faddr, latch, cells, strays>>

\* BUSY and SWBSY
MovAFlc ==
    /\ Fetch(229)
    /\ core' = [After(2) EXCEPT
                  !.acc = CASE busy = "erase" -> 128 [] busy = "word" -> 64 [] OTHER -> 0]
    /\ UNCHANGED flashVars

Jb ==
    /\ Fetch(32)
    /\ LET bit == (core.acc \div (IF Operand(1) = 231 THEN 128 ELSE 64)) % 2 IN
        core' = IF bit = 1 THEN Jumped(After(3), Operand(2)) ELSE After(3)
    /\ UNCHANGED flashVars

MovDptr ==
    /\ Fetch(144)
    /\ core' = [After(3) EXCEPT !.dptr = 256 * Operand(1) + Operand(2)]
    /\ UNCHANGED flashVars

MovReg(k) ==
    /\ Fetch(120 + k)
    /\ core' = [After(2) EXCEPT !.r[k] = Operand(1)]
    /\ UNCHANGED flashVars

MovxADptr ==
    /\ Fetch(224)
    /\ core' = [After(1) EXCEPT !.acc = IF core.dptr \in Ram THEN ram[core.dptr] ELSE 0]
    /\ UNCHANGED flashVars

IncDptr ==
    /\ Fetch(163)
    /\ core' = [After(1) EXCEPT !.dptr = (@ + 1) % 65536]
    /\ UNCHANGED flashVars

\* The fourth byte starts the write; bytes are lost while one goes on.
MovFwdata ==
    /\ Fetch(245)
    /\ IF writing /\ busy = "no"
       THEN /\ latch' = Append(latch, core.acc)
            /\ busy' = IF Len(latch) = WordSize - 1 THEN "word" ELSE "no"
       ELSE UNCHANGED <<latch, busy>>
    /\ core' = After(2)
    /\ UNCHANGED <<faddr, writing, cells, strays>>

Djnz(k) ==
    /\ Fetch(216 + k)
    /\ LET next == [After(2) EXCEPT !.r[k] = (@ - 1) % 256] IN
        core' = IF next.r[k] # 0 THEN Jumped(next, Operand(1)) ELSE next
    /\ UNCHANGED flashVars

\* 0xA5 halts a CPU that is debugged.
Break == Fetch(165) /\ core' = [After(1) EXCEPT !.runs = FALSE] /\ UNCHANGED flashVars

Execute ==
    \/ MovAddress \/ MovPort \/ MovFlc \/ MovAFlc \/ Jb \/ MovDptr \/ MovxADptr \/ IncDptr
    \/ MovFwdata \/ Break
    \/ \E k \in 5 .. 7 : MovReg(k) \/ Djnz(k)

-----------------------------------------------------------------------------
(* The flash controller ends what it is doing at its own time.              *)

Page(addr) == addr \div NWords
WordAt     == faddr % NWords

Put(old, w) == IF old = Erased THEN w ELSE Spoiled

\* words of the page become new, or a word elsewhere is touched
Changes(new) ==
    /\ busy' = "no"
    /\ IF Page(faddr) = job.page
       THEN cells' = new /\ UNCHANGED strays
       ELSE strays' = strays \cup {faddr} /\ UNCHANGED cells
    /\ UNCHANGED <<hostVars, core, writing>>

EraseDone ==
    /\ busy = "erase"
    /\ Changes([w \in Words |-> Erased])
    /\ UNCHANGED <<faddr, latch>>

WordDone ==
    /\ busy = "word"
    /\ latch' = <<>>
    /\ faddr' = (faddr + 1) % 65536
    /\ Changes([cells EXCEPT ![WordAt] = Put(@, latch)])

Next ==
    \/ PointData \/ SendData \/ PointCode \/ SendCode \/ MapRam \/ SetPC \/ Resume
    \/ WaitHalted \/ UsbFail
    \/ Execute
    \/ EraseDone \/ WordDone

\* Nothing the debug interface does depends on another client; the CPU and the
\* controller go on by themselves.
Spec ==
    /\ Init /\ [][Next]_vars
    /\ WF_vars(PointData \/ SendData \/ PointCode \/ SendCode \/ MapRam \/ SetPC \/ Resume
               \/ WaitHalted)
    /\ WF_vars(Execute)
    /\ WF_vars(EraseDone \/ WordDone)

-----------------------------------------------------------------------------
Word16    == {x \in Nat : x < 65536}
Registers == [5 .. 7 -> Byte]

TypeOK ==
    /\ job \in Jobs
    /\ host \in {"data", "send_data", "routine", "send_routine", "map", "jump", "resume",
                 "wait", "done", "failed"}
    /\ sent \in 0 .. PageSize
    /\ DOMAIN ram = Ram
    /\ memctr \in Byte
    /\ core \in [runs : BOOLEAN, pc : Word16, acc : Byte, dptr : Word16, r : Registers]
    /\ faddr \in Word16
    /\ writing \in BOOLEAN
    /\ Len(latch) <= WordSize
    /\ busy \in {"no", "erase", "word"}
    /\ DOMAIN cells = Words
    /\ strays \subseteq Word16

DataWords == [w \in Words |-> [i \in 1 .. WordSize |-> Buff[WordSize * w + i]]]

\* When writeFlashPage returns, the page is the buffer, if it was erased by the
\* routine or before.
PageIsBuffer == host = "done" /\ (job.erase \/ job.blank) => cells = DataWords

\* Whatever is interrupted, no word of another page is touched.
OnlyThisPage == strays = {}

\* Every jump of the routine lands on an instruction.
OnInstruction == core.runs => core.pc \in Starts[job.erase]

\* Once the CPU runs it halts, even when the host has gone.
RoutineHalts == core.runs ~> ~core.runs

Abstract == INSTANCE PageWrite WITH
    Data  <- DataWords,
    erase <- job.erase,
    page  <- cells,
    n     <- IF writing THEN faddr - NWords * job.page ELSE 0,
    done  <- host = "done"

\* The bytes sent to the chip do what the writing of a page promises.
WritesPage == Abstract!Spec
=============================================================================
