------------------------------ MODULE CodeCache ------------------------------
(***************************************************************************)
(* What the debug server remembers of the chip: the code cache filled by   *)
(* CDebugServer::getCode and the table of the four hardware breakpoints    *)
(* (usedBP), used by the threads of all NoICE connections at once, cleared *)
(* by clearcodecache and by a reset, and left alone by the commands that   *)
(* change the chip behind its back (flash, bp).  No lock protects either.  *)
(*                                                                         *)
(* Addresses are those of the code, in a smaller scale: Bank is the size   *)
(* of a flash bank (0x8000), a banked address is 2 * Bank * bank + offset  *)
(* (bank << 16 | offset).                                                  *)
(***************************************************************************)
EXTENDS Naturals, FiniteSets

CONSTANTS
    Threads,    \* connections of the debug server
    Bank,       \* FLASH_BANK_SIZE, 0x8000
    Banks,      \* banks of the flash, 4
    Ahead,      \* bytes read in advance, 64
    Images,     \* contents the flash may have
    ErasedByte, \* 0xFF, what an empty cache holds
    Slots,      \* hardware breakpoints, 0 .. 3
    NoBp,       \* a breakpoint register that is off
    Sessions    \* which connections there are, and what they may ask: records
                \* [threads, reads, bps, flashes] with ranges of addresses to read,
                \* addresses for breakpoints, and a bound on the flash commands

FlashAddrs == 0 .. Bank * Banks - 1
CacheAddrs == 0 .. 2 * Bank * Banks - 1
Ranges     == {r \in CacheAddrs \X CacheAddrs : r[1] <= r[2]}
NoRange    == <<0, 0>>
BpAddrs    == UNION {s.bps : s \in Sessions}

ASSUME BankAssumption == Bank \in Nat \ {0} /\ Banks \in Nat \ {0} /\ Ahead \in Nat
ASSUME SlotAssumption ==
    IsFiniteSet(Slots) /\ Slots # {} /\ Slots = 0 .. Cardinality(Slots) - 1
ASSUME SessionAssumption ==
    /\ \A s \in Sessions : /\ s.threads \subseteq Threads
                          /\ s.reads \subseteq Ranges
                          /\ s.bps \subseteq CacheAddrs
                          /\ s.flashes \in Nat
    /\ NoBp \notin BpAddrs

VARIABLES
    session, \* the session that is going on
    flash,   \* the chip: code
    hwBP,    \* the chip: its breakpoint registers
    cache,   \* codeCache
    valid,   \* codeCacheValid
    usedBP,  \* usedBP
    pc,      \* where each thread is in its handler
    asked,   \* iAddr .. iAddr + iCnt - 1 of getCode
    range,   \* iReadBegin .. iReadEnd of getCode
    slot,    \* slot a thread sets or removes
    bp,      \* address of the breakpoint it sets
    flashes, \* number of flash commands so far
    told,    \* history: breakpoints a client has been told are set
    stale,   \* history: something happened that the cache does not follow
    forgot   \* history: something happened that usedBP does not follow

vars == <<session, flash, hwBP, cache, valid, usedBP, pc, range, asked, slot, bp, flashes,
          told, stale, forgot>>

FillSteps == {"scan", "read", "mark", "copy"}
BpSteps   == {"bp_chip", "bp_mark", "rm_chip"}

TypeOK ==
    /\ session \in Sessions
    /\ flash \in Images
    /\ hwBP \in [Slots -> BpAddrs \cup {NoBp}]
    /\ DOMAIN cache = CacheAddrs
    /\ valid \in [CacheAddrs -> BOOLEAN]
    /\ usedBP \in [Slots -> BOOLEAN]
    /\ pc \in [Threads -> FillSteps \cup BpSteps \cup {"idle", "init", "flash"}]
    /\ range \in [Threads -> Ranges]
    /\ asked \in [Threads -> Ranges]
    /\ slot \in [Threads -> Slots]
    /\ bp \in [Threads -> BpAddrs \cup {NoBp}]
    /\ flashes \in 0 .. session.flashes
    /\ told \in [Threads -> SUBSET (Slots \X BpAddrs)]
    /\ stale \in BOOLEAN
    /\ forgot \in BOOLEAN

Init ==
    /\ session \in Sessions
    /\ flash \in Images
    /\ hwBP = [s \in Slots |-> NoBp]
    /\ cache = [a \in CacheAddrs |-> ErasedByte]
    /\ valid = [a \in CacheAddrs |-> FALSE]
    /\ usedBP = [s \in Slots |-> FALSE]
    /\ pc = [t \in Threads |-> "idle"]
    /\ range = [t \in Threads |-> NoRange]
    /\ asked = [t \in Threads |-> NoRange]
    /\ slot = [t \in Threads |-> 0]
    /\ bp = [t \in Threads |-> NoBp]
    /\ flashes = 0
    /\ told = [t \in Threads |-> {}]
    /\ stale = FALSE
    /\ forgot = FALSE

-----------------------------------------------------------------------------
(* Addresses.                                                               *)

\* banked address to address in flash: (a & 0x7FFF) + 0x8000 * (a >> 16)
FlashAddr(a) == (a % Bank) + Bank * (a \div (2 * Bank))

\* What readCodeBank gets from the chip: the bank is mapped above Bank, the
\* data pointer starts there and goes round after the last byte, to the lower
\* half, which is always the first bank.
ChipByte(fa, i) ==
    LET dptr == (Bank + (fa % Bank) + i) % (2 * Bank)
    IN  IF dptr >= Bank THEN flash[(dptr - Bank) + Bank * (fa \div Bank)] ELSE flash[dptr]

Crosses(r) == r[1] \div Bank # r[2] \div Bank

Invalid(r) == {a \in r[1] .. r[2] : ~valid[a]}
FirstOf(S) == CHOOSE a \in S : \A x \in S : a <= x
LastOf(S)  == CHOOSE a \in S : \A x \in S : x <= a

\* variant: the bytes read in advance are not counted in the range that is read
WithoutAhead(first, last) == <<first, first>>

\* variant: bytes are read in advance past the end of the bank
PastTheBank(first, last) ==
    IF first + Ahead > last THEN <<first, first + Ahead>> ELSE <<first, last>>

\* "get more code than requested ( it's faster )"
WithAhead(first, last) ==
    IF first \div Bank = (first + Ahead) \div Bank /\ first + Ahead > last
    THEN <<first, first + Ahead>>
    ELSE <<first, last>>

-----------------------------------------------------------------------------
(* getCode, one step for what happens between two accesses to the chip or   *)
(* to the cache.                                                            *)

Goto(t, step) == pc' = [pc EXCEPT ![t] = step]

\* the handler returns: its locals are gone
Return(t) ==
    /\ Goto(t, "idle")
    /\ asked' = [asked EXCEPT ![t] = NoRange]
    /\ range' = [range EXCEPT ![t] = NoRange]
    /\ slot' = [slot EXCEPT ![t] = 0]
    /\ bp' = [bp EXCEPT ![t] = NoBp]

\* FN_READ_MEM of a code page
ReadMem(t) ==
    /\ pc[t] = "idle"
    /\ \E r \in session.reads : asked' = [asked EXCEPT ![t] = r]
    /\ Goto(t, "scan")
    /\ UNCHANGED <<session, flash, hwBP, cache, valid, usedBP, range, slot, bp, flashes,
                   told, stale, forgot>>

Scan(t) ==
    /\ pc[t] = "scan"
    /\ \/ /\ Invalid(asked[t]) = {}
          /\ Goto(t, "copy")
          /\ UNCHANGED range
       \/ /\ Invalid(asked[t]) # {}
          /\ range' = [range EXCEPT ![t] =
                WithAhead(FirstOf(Invalid(asked[t])), LastOf(Invalid(asked[t])))]
          /\ Goto(t, "read")
    /\ UNCHANGED <<session, flash, hwBP, cache, valid, usedBP, asked, slot, bp, flashes,
                   told, stale, forgot>>

\* readCode( iFlashAddress, &codeCache[iReadBegin], .. )
Read(t) ==
    /\ pc[t] = "read"
    /\ cache' = [a \in CacheAddrs |->
          IF a \in range[t][1] .. range[t][2]
          THEN ChipByte(FlashAddr(range[t][1]), a - range[t][1]) ELSE cache[a]]
    /\ stale' = (stale \/ Crosses(range[t]) \/ \E u \in Threads : pc[u] = "flash")
    /\ Goto(t, "mark")
    /\ UNCHANGED <<session, flash, hwBP, valid, usedBP, range, asked, slot, bp, flashes,
                   told, forgot>>

Mark(t) ==
    /\ pc[t] = "mark"
    /\ valid' = [a \in CacheAddrs |-> valid[a] \/ a \in range[t][1] .. range[t][2]]
    /\ Goto(t, "copy")
    /\ UNCHANGED <<session, flash, hwBP, cache, usedBP, range, asked, slot, bp, flashes,
                   told, stale, forgot>>

\* memcpy( pBuff, &codeCache[iAddr], iCnt ) and the reply, which for a
\* breakpoint tells the client its slot
Copy(t) ==
    /\ pc[t] = "copy"
    /\ told' = IF bp[t] = NoBp THEN told
               ELSE [told EXCEPT ![t] = @ \cup {<<slot[t], bp[t]>>}]
    /\ Return(t)
    /\ UNCHANGED <<session, flash, hwBP, cache, valid, usedBP, flashes, stale, forgot>>

-----------------------------------------------------------------------------
(* FN_SET_BYTES.                                                            *)

FreeSlots == {s \in Slots : ~usedBP[s]}
InFlight(s) == {t \in Threads : pc[t] \in BpSteps /\ slot[t] = s}

\* the first free slot, or "out of breakpoints"
SetBp(t) ==
    /\ pc[t] = "idle"
    /\ FreeSlots # {}
    /\ \E a \in session.bps :
          /\ bp' = [bp EXCEPT ![t] = a]
          /\ asked' = [asked EXCEPT ![t] = <<a, a>>]
    /\ slot' = [slot EXCEPT ![t] = FirstOf(FreeSlots)]
    /\ forgot' = (forgot \/ InFlight(FirstOf(FreeSlots)) # {})
    /\ Goto(t, "bp_chip")
    /\ UNCHANGED <<session, flash, hwBP, cache, valid, usedBP, range, flashes, told,
                   stale>>

SetBpChip(t) ==
    /\ pc[t] = "bp_chip"
    /\ hwBP' = [hwBP EXCEPT ![slot[t]] = bp[t]]
    /\ Goto(t, "bp_mark")
    /\ UNCHANGED <<session, flash, cache, valid, usedBP, range, asked, slot, bp, flashes,
                   told, stale, forgot>>

\* variant: the slot is not marked as used
KeepFree(s) == usedBP

Taken(s) == [usedBP EXCEPT ![s] = TRUE]

SetBpMark(t) ==
    /\ pc[t] = "bp_mark"
    /\ usedBP' = Taken(slot[t])
    /\ Goto(t, "scan")
    /\ UNCHANGED <<session, flash, hwBP, cache, valid, range, asked, slot, bp, flashes,
                   told, stale, forgot>>

\* the client gives the slot back as the byte to restore
RemoveBp(t) ==
    /\ pc[t] = "idle"
    /\ \E b \in told[t] :
          /\ slot' = [slot EXCEPT ![t] = b[1]]
          /\ told' = [told EXCEPT ![t] = {x \in @ : x[1] # b[1]}]
          /\ usedBP' = [usedBP EXCEPT ![b[1]] = FALSE]
          /\ forgot' = (forgot \/ InFlight(b[1]) # {})
    /\ Goto(t, "rm_chip")
    /\ UNCHANGED <<session, flash, hwBP, cache, valid, range, asked, bp, flashes, stale>>

\* variant: the register is left on
StillOn(s) == hwBP

Off(s) == [hwBP EXCEPT ![s] = NoBp]

RemoveBpChip(t) ==
    /\ pc[t] = "rm_chip"
    /\ hwBP' = Off(slot[t])
    /\ Return(t)
    /\ UNCHANGED <<session, flash, cache, valid, usedBP, flashes, told, stale, forgot>>

\* A USB message fails: the handler is left where it is and its connection is
\* closed; the client that connects next knows of no breakpoint.  A message
\* whose answer is lost has had its effect.
UsbFail(t) ==
    /\ pc[t] \in {"read", "bp_chip", "rm_chip", "init"}
    /\ \/ UNCHANGED hwBP
       \/ pc[t] = "bp_chip" /\ hwBP' = [hwBP EXCEPT ![slot[t]] = bp[t]]
       \/ pc[t] = "rm_chip" /\ hwBP' = Off(slot[t])
    /\ told' = [told EXCEPT ![t] = {}]
    /\ forgot' = (forgot \/ pc[t] \in BpSteps)
    /\ Return(t)
    /\ UNCHANGED <<session, flash, cache, valid, usedBP, flashes, stale>>

-----------------------------------------------------------------------------
(* Commands of other connections.                                           *)

\* variant: the bytes are cleared, their marks are not
KeepMarks == valid

NoMarks == [a \in CacheAddrs |-> FALSE]

\* initCodeCache: the cache follows the chip again if no thread is filling it;
\* the breakpoints are forgotten and not removed.
InitCodeCache ==
    /\ cache' = [a \in CacheAddrs |-> ErasedByte]
    /\ valid' = NoMarks
    /\ usedBP' = [s \in Slots |-> FALSE]
    /\ stale' = (\E t \in Threads : pc[t] \in FillSteps)
    /\ forgot' = (forgot \/ \E s \in Slots : usedBP[s] \/ InFlight(s) # {})

\* clearcodecache
ClearCodeCache ==
    /\ InitCodeCache
    /\ UNCHANGED <<session, flash, hwBP, pc, range, asked, slot, bp, flashes, told>>

\* The reset line or enterDebugMode: the breakpoint registers are kept or off.
ResetRegisters ==
    /\ hwBP' \in {hwBP, [s \in Slots |-> NoBp]}
    /\ forgot' = (forgot \/ \E s \in Slots : usedBP[s] \/ InFlight(s) # {})

\* FN_RESET_TARGET: enterDebugMode, then initCodeCache
ResetTarget(t) ==
    /\ pc[t] = "idle"
    /\ ResetRegisters
    /\ Goto(t, "init")
    /\ UNCHANGED <<session, flash, cache, valid, usedBP, range, asked, slot, bp, flashes,
                   told, stale>>

ResetDone(t) ==
    /\ pc[t] = "init"
    /\ InitCodeCache
    /\ Goto(t, "idle")
    /\ UNCHANGED <<session, flash, hwBP, range, asked, slot, bp, flashes, told>>

\* resetHandle: neither the cache nor the table is touched
ResetCommand ==
    /\ ResetRegisters
    /\ UNCHANGED <<session, flash, cache, valid, usedBP, pc, range, asked, slot, bp,
                   flashes, told, stale>>

\* flashHandle: the code changes, the cache does not; what another thread reads
\* while the flash is written is neither the old code nor the new.  A message
\* that fails ends the command early, with some other code in the flash.
WriteFlash ==
    /\ flash' \in Images
    /\ stale' = (stale \/ (\E a \in CacheAddrs : valid[a])
                       \/ (\E t \in Threads : pc[t] \in FillSteps))

FlashCommand(t) ==
    /\ pc[t] = "idle"
    /\ flashes < session.flashes
    /\ flashes' = flashes + 1
    /\ WriteFlash
    /\ ResetRegisters
    /\ Goto(t, "flash")
    /\ UNCHANGED <<session, cache, valid, usedBP, range, asked, slot, bp, told>>

FlashDone(t) ==
    /\ pc[t] = "flash"
    /\ WriteFlash
    /\ ResetRegisters
    /\ Goto(t, "idle")
    /\ UNCHANGED <<session, cache, valid, usedBP, range, asked, slot, bp, flashes, told>>

\* breakpointHandle: the registers change, the table does not
BpCommand ==
    /\ \E s \in Slots, a \in session.bps \cup {NoBp} : hwBP' = [hwBP EXCEPT ![s] = a]
    /\ forgot' = TRUE
    /\ UNCHANGED <<session, flash, cache, valid, usedBP, pc, range, asked, slot, bp,
                   flashes, told, stale>>

Thread(t) ==
    \/ ReadMem(t) \/ Scan(t) \/ Read(t) \/ Mark(t) \/ Copy(t)
    \/ SetBp(t) \/ SetBpChip(t) \/ SetBpMark(t) \/ RemoveBp(t) \/ RemoveBpChip(t)
    \/ ResetTarget(t) \/ ResetDone(t) \/ FlashCommand(t) \/ FlashDone(t) \/ UsbFail(t)

Next ==
    \/ \E t \in session.threads : Thread(t)
    \/ ClearCodeCache \/ ResetCommand \/ BpCommand

Spec == Init /\ [][Next]_vars

-----------------------------------------------------------------------------
(* Properties                                                               *)

\* A byte that is marked valid is the byte the chip has at that address.
\* There are three exceptions and no other, and each lasts until the cache is
\* cleared while nobody reads: the flash was written under a filled cache or a
\* reader, the cache was cleared under a reader, and a read went past the end of
\* its bank
\* (getCode, initCodeCache).
CacheHoldsCode ==
    ~stale => \A a \in CacheAddrs : valid[a] => cache[a] = flash[FlashAddr(a)]

\* With the same exceptions the answer to a read is the code in the chip, also
\* when several connections fill the cache at once and part of it was there
\* already (getCode).
AnswersAreCode ==
    ~stale => \A t \in Threads :
        pc[t] = "copy" => \A a \in asked[t][1] .. asked[t][2] :
                              valid[a] /\ cache[a] = flash[FlashAddr(a)]

\* A breakpoint a client has been told is set stays armed at its address until
\* that client removes it, as long as the table follows the chip: no two
\* connections pick one slot at once, no message about a breakpoint fails, and
\* nobody uses bp, clearcodecache, flash or a reset while one is set
\* (noICEHandler, FN_SET_BYTES).
BreakpointsArmed ==
    ~forgot => \A t \in Threads : \A b \in told[t] : hwBP[b[1]] = b[2]

\* With the same exceptions a slot that no handler is working on is free in
\* the table exactly if its register is off: no breakpoint is left behind and
\* no slot is lost (noICEHandler, FN_SET_BYTES).
SlotsAgree ==
    ~forgot => \A s \in Slots : InFlight(s) = {} => (usedBP[s] <=> hwBP[s] # NoBp)

\* Data in the cache that are marked valid are valid (debugserver.h: "if data
\* in codecache is valid").
ValidIsValid == \A a \in CacheAddrs : valid[a] => cache[a] = flash[FlashAddr(a)]
=============================================================================
