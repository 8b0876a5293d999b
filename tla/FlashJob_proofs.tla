-------------------------- MODULE FlashJob_proofs --------------------------
(***************************************************************************)
(* Proofs about FlashJob, for every flash size up to 64 pages, every set   *)
(* of images, options and faults, and any number of jobs.                  *)
(***************************************************************************)
EXTENDS FlashJob, TLAPS

(* The inductive invariant.  The properties of a finished job are those of *)
(* the pages the loop is past, so each part below is about the loop at an  *)
(* arbitrary page; the job that has the chip to itself is what makes them  *)
(* inductive.                                                              *)

InLoop == pc \in {"page", "wait", "verify"}
Closing == pc \in {"finish", "release_on", "release_off"}
Ended == pc = "done" /\ result \in {"ok", "failed"}

\* where the result is set, and what it says of the loop
ResultInv ==
    /\ pc \in {"load", "led_on", "reset_on", "debug", "read_mac", "program",
               "chip_erase", "poll_erase", "page", "wait", "verify"}
          => result = "none"
    /\ Closing => result \in {"ok", "failed"}
    /\ result = "ok" => page = NPages /\ (Closing \/ pc = "done")
    /\ pc \in {"wait", "verify"} => page < NPages /\ ~PageEmpty(buff[page])
    /\ pc \in {"chip_erase", "poll_erase"} => page = 0

\* nothing runs in the chip but the routine of the page that is programmed
ChipInv ==
    /\ pc \in {"debug", "read_mac", "program", "chip_erase", "poll_erase", "page", "verify",
               "finish", "release_on", "release_off"}
          => routine.st = "halted"
    /\ pc = "wait" => routine.st = "halted" \/ routine.page = page
    /\ pc \in {"debug", "read_mac", "program", "chip_erase", "release_off"} => ~erasing
    /\ erasing /\ (InLoop \/ Closing) => gaveUp
    /\ Ended => routine.st = "halted" /\ ~erasing /\ target = "run"

LedInv == pc \in {"release_on", "release_off"} \/ Ended => led = (result = "failed")

\* verify has been dropped to 0 only after a page was verified
VerifyInv ==
    InLoop \/ pc \in {"chip_erase", "poll_erase"} =>
        \/ verify = opts.verify
        \/ /\ opts.verify = 1
           /\ verify = 0
           /\ \E q \in Pages : q < page /\ ~PageEmpty(buff[q])

VerifiedSoFar ==
    (InLoop \/ result = "ok") /\ ~gaveUp =>
        \A p \in Pages : p < page /\ Verified(p) => flash[p] = buff[p]

\* without a fault: the pages behind the loop, the one it is at, those ahead
CleanSoFar ==
    ~gaveUp /\ ~faulty =>
        /\ InLoop \/ result = "ok" =>
              \A p \in Pages : p < page /\ (Programmed(p) \/ opts.massErase)
                                  => flash[p] = buff[p]
        /\ InLoop /\ opts.massErase =>
              \A p \in Pages : p > page \/ (p = page /\ pc = "page") => flash[p] = {}
        /\ pc = "poll_erase" /\ ~erasing => \A p \in Pages : flash[p] = {}
        /\ pc = "verify" => flash[page] = buff[page]
        /\ pc = "wait" =>
              \/ routine.st = "halted" /\ flash[page] = buff[page]
              \/ routine.st = "write" /\ flash[page] \cup routine.todo = buff[page]
              \/ routine.st = "erase" /\ routine.todo = buff[page] /\ ~opts.massErase

AskedMac == IF opts.mac = NoMac THEN mac0 ELSE opts.mac

MacInv ==
    /\ pc \in {"debug", "read_mac"} => MacOf(flash) = mac0
    /\ InLoop \/ pc \in {"program", "chip_erase", "poll_erase"} \/ result = "ok"
          => MacOf(buff) = AskedMac

IInv ==
    /\ TypeOK
    /\ ResultInv
    /\ ChipInv
    /\ LedInv
    /\ VerifyInv
    /\ VerifiedSoFar
    /\ CleanSoFar
    /\ MacInv
-----------------------------------------------------------------------------
(* Lemmas about the operators.                                              *)

\* The flash controller works on the page writeFlashPage was called for, on
\* every page of the flash (FADDRH keeps the upper six bits of the address).
LEMMA PageOfFAddrH ==
    ASSUME NEW p \in Pages
    PROVE  SelectedPage(FAddrH(p)) = p
  BY PagesAssumption DEF Pages, SelectedPage, FAddrH

LEMMA LastPageIsAPage == LastPage \in Pages
  BY PagesAssumption DEF LastPage, Pages

\* The address that is put into an image is the one that is read back from it,
\* and the image stays an image (the two memcpy of CCFlasher::write).
LEMMA MacOfWithMac ==
    ASSUME NEW content \in [Pages -> Content], NEW mac \in SUBSET MacBits
    PROVE  /\ WithMac(content, mac) \in [Pages -> Content]
           /\ MacOf(WithMac(content, mac)) = mac
  BY LastPageIsAPage, BitsAssumption DEF WithMac, MacOf, Content

LEMMA MacOfPatchedBuffer ==
    ASSUME NEW image \in [Pages -> Content], NEW old \in SUBSET MacBits,
           NEW new \in Macs \cup {NoMac}
    PROVE  /\ PatchedBuffer(image, old, new) \in [Pages -> Content]
           /\ MacOf(PatchedBuffer(image, old, new)) = IF new = NoMac THEN old ELSE new
<1>1. WithMac(image, old) \in [Pages -> Content] /\ MacOf(WithMac(image, old)) = old
  BY MacOfWithMac
<1>2. CASE new = NoMac
  BY <1>1, <1>2 DEF PatchedBuffer
<1>3. CASE new # NoMac
  <2>1. new \in SUBSET MacBits
    BY <1>3, BitsAssumption
  <2>2. MacOf(WithMac(WithMac(image, old), new)) = new
        /\ WithMac(WithMac(image, old), new) \in [Pages -> Content]
    BY <1>1, <2>1, MacOfWithMac
  <2> QED BY <1>3, <2>2 DEF PatchedBuffer
<1> QED BY <1>2, <1>3

-----------------------------------------------------------------------------
(* Type correctness.                                                        *)

LEMMA InitTypeOK == Init => TypeOK
<1> SUFFICES ASSUME Init PROVE TypeOK
  OBVIOUS
<1>1. flash \in [Pages -> Content] /\ buff \in [Pages -> Content]
  BY ImagesAssumption DEF Init, Blank, Content
<1>2. routine \in [st : {"halted", "erase", "write"}, page : Pages, todo : Content]
  BY PagesAssumption DEF Init, Halted, Pages, Content
<1>3. opts \in Options
  BY DEF Init, Defaults, Options
<1>4. page \in 0 .. NPages /\ verify \in 0 .. 2 /\ polls \in 0 .. ErasePolls
      /\ jobs \in 0 .. MaxJobs
  BY PagesAssumption, BoundsAssumption DEF Init
<1>5. mac0 \in SUBSET MacBits
  BY DEF Init
<1> QED BY <1>1, <1>2, <1>3, <1>4, <1>5 DEF Init, TypeOK

LEMMA NextTypeOK == TypeOK /\ ResultInv /\ [Next]_vars => TypeOK'
<1> SUFFICES ASSUME TypeOK, ResultInv, [Next]_vars PROVE TypeOK'
  OBVIOUS
<1> USE DEF TypeOK
<1>0. Halted \in [st : {"halted", "erase", "write"}, page : Pages, todo : Content]
      /\ Blank \in [Pages -> Content]
  BY PagesAssumption DEF Halted, Blank, Pages, Content
<1>mac. \A content \in [Pages -> Content] : MacOf(content) \in SUBSET MacBits
  BY DEF MacOf
<1>mem. ASSUME FreshMemory
        PROVE  /\ buff' \in [Pages -> Content]
               /\ page' \in 0 .. NPages
               /\ verify' \in 0 .. 2
               /\ polls' \in 0 .. ErasePolls
  BY <1>0, <1>mem, PagesAssumption, BoundsAssumption DEF FreshMemory
<1>page. ASSUME page < NPages
         PROVE  page \in Pages /\ page + 1 \in 0 .. NPages
  BY <1>page, PagesAssumption DEF Pages
<1>1. CASE Begin
  <2>1. jobs' \in 0 .. MaxJobs
    BY <1>1, BoundsAssumption DEF Begin
  <2> QED BY <1>1, <1>mem, <2>1 DEF Begin, chipVars, histVars, UsbSteps
<1>2. CASE LoadFile
  BY <1>2, ImagesAssumption DEF LoadFile, chipVars, jobVars, histVars, UsbSteps
<1>3. CASE LedOn
  BY <1>3 DEF LedOn, chipVars, jobVars, histVars, UsbSteps
<1>4. CASE ResetOn
  BY <1>0, <1>mac, <1>4 DEF ResetOn, HoldReset, jobVars, UsbSteps
<1>5. CASE EnterDebug
  BY <1>5 DEF EnterDebug, jobVars, histVars, UsbSteps
<1>6. CASE ReadMac
  <2>1. opts.mac \in Macs \cup {NoMac}
    BY DEF Options
  <2>2. buff' \in [Pages -> Content]
    BY <1>6, <1>mac, <2>1, MacOfPatchedBuffer DEF ReadMac
  <2> QED BY <1>6, <2>2 DEF ReadMac, chipVars, jobVars, histVars, UsbSteps
<1>7. CASE EnterProgram
  <2>1. verify' \in 0 .. 2 /\ page' \in 0 .. NPages
    BY <1>7, PagesAssumption DEF EnterProgram, Options
  <2> QED BY <1>7, <2>1 DEF EnterProgram, chipVars, jobVars, histVars, UsbSteps
<1>8. CASE MassErase
  BY <1>8, BoundsAssumption DEF MassErase, jobVars, histVars, UsbSteps
<1>9. CASE PollErase
  <2>1. polls' \in 0 .. ErasePolls
    BY <1>9, BoundsAssumption DEF PollErase
  <2>2. gaveUp' \in BOOLEAN
    BY <1>9 DEF PollErase
  <2> QED BY <1>9, <2>1, <2>2 DEF PollErase, chipVars, jobVars, UsbSteps
<1>10. CASE SkipPage
  BY <1>10, <1>page DEF SkipPage, chipVars, jobVars, histVars
<1>11. CASE StartPage
  <2>1. page \in Pages
    BY <1>11, <1>page DEF StartPage
  <2>2. routine' \in [st : {"halted", "erase", "write"}, page : Pages, todo : Content]
    BY <1>11, <2>1, PageOfFAddrH DEF StartPage
  <2> QED BY <1>11, <2>2 DEF StartPage, jobVars, histVars, UsbSteps
<1>12. CASE WaitHalted
  <2>1. page' \in 0 .. NPages
    BY <1>12, <1>page DEF WaitHalted, ResultInv
  <2> QED BY <1>12, <2>1 DEF WaitHalted, chipVars, jobVars, histVars, UsbSteps
<1>13. CASE Verify
  <2>1. page' \in 0 .. NPages
    BY <1>13, <1>page DEF Verify, ResultInv
  <2>2. verify' \in 0 .. 2
    BY <1>13 DEF Verify, NextVerify
  <2> QED BY <1>13, <2>1, <2>2 DEF Verify, chipVars, jobVars, histVars, UsbSteps
<1>14. CASE Complete
  BY <1>14 DEF Complete, chipVars, jobVars, histVars, UsbSteps
<1>15. CASE Finish
  BY <1>15 DEF Finish, OutcomeLed, chipVars, jobVars, histVars, UsbSteps
<1>16. CASE ReleaseOn
  BY <1>0, <1>16 DEF ReleaseOn, HoldReset, jobVars, histVars, UsbSteps
<1>17. CASE ReleaseOff
  BY <1>17 DEF ReleaseOff, jobVars, histVars, UsbSteps
<1>18. CASE UsbFail
  BY <1>18, <1>mem DEF UsbFail, jobVars, histVars, UsbSteps
<1>19. CASE ChipErases
  <2>1. flash' \in [Pages -> Content] /\ erasing' \in BOOLEAN
    BY <1>0, <1>19 DEF ChipErases
  <2> QED BY <1>19, <2>1 DEF ChipErases, jobVars, histVars
<1>20. CASE RoutineErases
  <2>1. flash' \in [Pages -> Content]
    BY <1>20 DEF RoutineErases, Content
  <2>2. routine' \in [st : {"halted", "erase", "write"}, page : Pages, todo : Content]
    BY <1>20 DEF RoutineErases
  <2>3. faulty' \in BOOLEAN
    BY <1>20 DEF RoutineErases
  <2> QED BY <1>20, <2>1, <2>2, <2>3 DEF RoutineErases, jobVars
<1>21. CASE RoutineWrites
  <2>1. PICK b \in routine.todo :
           /\ routine' = [routine EXCEPT !.todo = @ \ {b}]
           /\ \/ flash' = [flash EXCEPT ![routine.page] = @ \cup {b}]
              \/ flash' = flash
    BY <1>21 DEF RoutineWrites
  <2>2. b \in Bits
    BY DEF Content
  <2>3. flash' \in [Pages -> Content]
    BY <2>1, <2>2 DEF Content
  <2>4. routine' \in [st : {"halted", "erase", "write"}, page : Pages, todo : Content]
    BY <2>1 DEF Content
  <2>5. faulty' \in BOOLEAN
    BY <1>21 DEF RoutineWrites
  <2> QED BY <1>21, <2>3, <2>4, <2>5 DEF RoutineWrites, jobVars
<1>22. CASE RoutineEnds
  BY <1>0, <1>22 DEF RoutineEnds, jobVars, histVars
<1>23. CASE UNCHANGED vars
  BY <1>23 DEF vars
<1> QED
  BY <1>1, <1>2, <1>3, <1>4, <1>5, <1>6, <1>7, <1>8, <1>9, <1>10, <1>11, <1>12, <1>13,
     <1>14, <1>15, <1>16, <1>17, <1>18, <1>19, <1>20, <1>21, <1>22, <1>23
  DEF Next, Host, Chip
-----------------------------------------------------------------------------
(* The parts of the inductive invariant, one lemma each.                    *)

LEMMA NextResultInv == TypeOK /\ ResultInv /\ [Next]_vars => ResultInv'
<1> SUFFICES ASSUME TypeOK, ResultInv, [Next]_vars PROVE ResultInv'
  OBVIOUS
<1> USE DEF ResultInv, Closing
<1>1. CASE Begin \/ LoadFile \/ UsbFail
  BY <1>1 DEF Begin, LoadFile, UsbFail, FreshMemory, UsbSteps
<1>2. CASE LedOn \/ ResetOn \/ EnterDebug \/ ReadMac \/ EnterProgram
  BY <1>2 DEF LedOn, ResetOn, EnterDebug, ReadMac, EnterProgram
<1>3. CASE MassErase \/ PollErase
  BY <1>3 DEF MassErase, PollErase
<1>4. CASE SkipPage \/ StartPage \/ WaitHalted
  BY <1>4 DEF SkipPage, StartPage, WaitHalted
<1>5. CASE Verify \/ Complete \/ Finish \/ ReleaseOn \/ ReleaseOff
  BY <1>5 DEF Verify, Complete, Finish, ReleaseOn, ReleaseOff
<1>6. CASE Chip
  BY <1>6 DEF Chip, ChipErases, RoutineErases, RoutineWrites, RoutineEnds
<1>7. CASE UNCHANGED vars
  BY <1>7 DEF vars
<1> QED BY <1>1, <1>2, <1>3, <1>4, <1>5, <1>6, <1>7 DEF Next, Host

LEMMA NextChipInv == TypeOK /\ ResultInv /\ ChipInv /\ [Next]_vars => ChipInv'
<1> SUFFICES ASSUME TypeOK, ResultInv, ChipInv, [Next]_vars PROVE ChipInv'
  OBVIOUS
<1> USE DEF ResultInv, ChipInv, InLoop, Closing, Ended
<1>1. CASE Begin \/ LoadFile \/ UsbFail
  BY <1>1 DEF Begin, LoadFile, UsbFail, chipVars, histVars
<1>2. CASE LedOn \/ ResetOn \/ EnterDebug \/ ReadMac \/ EnterProgram
  BY <1>2 DEF LedOn, ResetOn, EnterDebug, ReadMac, EnterProgram, HoldReset, Halted, chipVars,
              histVars
<1>3. CASE MassErase \/ PollErase
  BY <1>3 DEF MassErase, PollErase, chipVars, histVars
<1>4. CASE StartPage
  <2>1. page \in Pages
    BY <1>4, PagesAssumption DEF StartPage, TypeOK, Pages
  <2>2. routine'.page = page'
    BY <1>4, <2>1, PageOfFAddrH DEF StartPage
  <2> QED BY <1>4, <2>2 DEF StartPage, histVars
<1>5. CASE SkipPage \/ WaitHalted
  BY <1>5 DEF SkipPage, WaitHalted, chipVars, histVars
<1>6. CASE Verify \/ Complete \/ Finish
  BY <1>6 DEF Verify, Complete, Finish, chipVars, histVars
<1>7. CASE ReleaseOn \/ ReleaseOff
  BY <1>7 DEF ReleaseOn, ReleaseOff, HoldReset, Halted, histVars
<1>8. CASE ChipErases \/ RoutineEnds
  BY <1>8 DEF ChipErases, RoutineEnds, Halted, histVars
<1>9. CASE RoutineErases \/ RoutineWrites
  BY <1>9 DEF RoutineErases, RoutineWrites, TypeOK
<1>10. CASE UNCHANGED vars
  BY <1>10 DEF vars
<1> QED
  BY <1>1, <1>2, <1>3, <1>4, <1>5, <1>6, <1>7, <1>8, <1>9, <1>10 DEF Next, Host, Chip

LEMMA NextLedInv == ResultInv /\ LedInv /\ [Next]_vars => LedInv'
<1> SUFFICES ASSUME ResultInv, LedInv, [Next]_vars PROVE LedInv'
  OBVIOUS
<1> USE DEF ResultInv, LedInv, Ended
<1>1. CASE Begin \/ LoadFile \/ UsbFail
  BY <1>1 DEF Begin, LoadFile, UsbFail
<1>2. CASE LedOn \/ ResetOn \/ EnterDebug \/ ReadMac \/ EnterProgram \/ MassErase \/ PollErase
  BY <1>2 DEF LedOn, ResetOn, EnterDebug, ReadMac, EnterProgram, MassErase, PollErase
<1>3. CASE SkipPage \/ StartPage \/ WaitHalted \/ Verify \/ Complete
  BY <1>3 DEF SkipPage, StartPage, WaitHalted, Verify, Complete
<1>4. CASE Finish \/ ReleaseOn \/ ReleaseOff
  BY <1>4 DEF Finish, ReleaseOn, ReleaseOff, OutcomeLed
<1>5. CASE Chip
  BY <1>5 DEF Chip, ChipErases, RoutineErases, RoutineWrites, RoutineEnds
<1>6. CASE UNCHANGED vars
  BY <1>6 DEF vars
<1> QED BY <1>1, <1>2, <1>3, <1>4, <1>5, <1>6 DEF Next, Host

LEMMA NextVerifyInv == TypeOK /\ ResultInv /\ VerifyInv /\ [Next]_vars => VerifyInv'
<1> SUFFICES ASSUME TypeOK, ResultInv, VerifyInv, [Next]_vars PROVE VerifyInv'
  OBVIOUS
<1> USE DEF VerifyInv, InLoop
<1>page. page \in Nat
  BY PagesAssumption DEF TypeOK
<1>1. CASE Begin \/ LoadFile \/ UsbFail
  BY <1>1 DEF Begin, LoadFile, UsbFail
<1>2. CASE LedOn \/ ResetOn \/ EnterDebug \/ ReadMac \/ EnterProgram \/ MassErase
  BY <1>2 DEF LedOn, ResetOn, EnterDebug, ReadMac, EnterProgram, MassErase, jobVars
<1>3. CASE PollErase
  BY <1>3 DEF PollErase, jobVars
<1>4. CASE SkipPage \/ WaitHalted
  BY <1>4, <1>page DEF SkipPage, WaitHalted, jobVars, Pages
<1>5. CASE Verify
  <2>1. page \in Pages /\ page < page + 1 /\ ~PageEmpty(buff[page])
    BY <1>5, <1>page, PagesAssumption DEF Verify, ResultInv, Pages
  <2>2. CASE verify = 1
    BY <1>5, <2>1, <2>2 DEF Verify, NextVerify, jobVars
  <2>3. CASE verify # 1
    BY <1>5, <1>page, <2>3 DEF Verify, NextVerify, jobVars, Pages
  <2> QED BY <2>2, <2>3
<1>6. CASE StartPage \/ Complete \/ Finish \/ ReleaseOn \/ ReleaseOff
  BY <1>6 DEF StartPage, Complete, Finish, ReleaseOn, ReleaseOff, jobVars
<1>7. CASE Chip
  BY <1>7 DEF Chip, ChipErases, RoutineErases, RoutineWrites, RoutineEnds, jobVars
<1>8. CASE UNCHANGED vars
  BY <1>8 DEF vars
<1> QED BY <1>1, <1>2, <1>3, <1>4, <1>5, <1>6, <1>7, <1>8 DEF Next, Host

\* which pages must be verified is settled when the loop begins
LEMMA VerifiedUnchanged ==
    ASSUME buff' = buff, opts' = opts
    PROVE  /\ \A p \in Pages : Verified(p)' <=> Verified(p)
           /\ \A p \in Pages : Programmed(p)' <=> Programmed(p)
  BY DEF Verified, Programmed

LEMMA NextVerifiedSoFar ==
    TypeOK /\ ResultInv /\ ChipInv /\ VerifyInv /\ VerifiedSoFar /\ [Next]_vars
    => VerifiedSoFar'
<1> SUFFICES ASSUME TypeOK, ResultInv, ChipInv, VerifyInv, VerifiedSoFar, [Next]_vars,
                    (InLoop \/ result = "ok")', ~gaveUp',
                    NEW p \in Pages, p < page', Verified(p)'
             PROVE  flash'[p] = buff'[p]
  BY DEF VerifiedSoFar
<1> USE DEF ResultInv, InLoop, Closing
<1>page. page \in Nat /\ p \in Nat
  BY PagesAssumption DEF TypeOK, Pages
<1>1. CASE Begin \/ LoadFile \/ UsbFail \/ LedOn \/ ResetOn \/ EnterDebug \/ ReadMac
  BY <1>1 DEF Begin, LoadFile, UsbFail, LedOn, ResetOn, EnterDebug, ReadMac
\* the loop begins at page 0
<1>2. CASE EnterProgram \/ MassErase \/ PollErase
  BY <1>2, <1>page DEF EnterProgram, MassErase, PollErase
<1>3. CASE SkipPage
  <2>1. /\ buff' = buff /\ opts' = opts /\ flash' = flash
        /\ InLoop /\ ~gaveUp /\ page' = page + 1 /\ ~Programmed(page)
    BY <1>3 DEF SkipPage, Programmed, chipVars, jobVars, histVars
  <2>2. Verified(p) /\ Programmed(p)
    BY <2>1, VerifiedUnchanged DEF Verified
  <2>3. p < page
    BY <2>1, <2>2, <1>page
  <2> QED BY <2>1, <2>2, <2>3 DEF VerifiedSoFar
<1>4. CASE StartPage
  <2>1. /\ buff' = buff /\ opts' = opts /\ flash' = flash
        /\ InLoop /\ ~gaveUp /\ page' = page
    BY <1>4 DEF StartPage, jobVars, histVars
  <2> QED BY <2>1, VerifiedUnchanged DEF VerifiedSoFar
\* a page that is not verified is none of those that must be
<1>5. CASE WaitHalted
  <2>1. /\ buff' = buff /\ opts' = opts /\ flash' = flash /\ InLoop /\ ~gaveUp
    BY <1>5 DEF WaitHalted, chipVars, jobVars, histVars
  <2>2. Verified(p)
    BY <2>1, VerifiedUnchanged
  <2>3. p < page
    <3>1. CASE page' = page
      BY <3>1
    <3>2. CASE verify = 0 /\ page' = page + 1 /\ p = page
      <4>1. \/ opts.verify # 2 /\ (\E q \in Pages : q < page /\ ~PageEmpty(buff[q]))
            \/ opts.verify = 0
        BY <1>5, <3>2 DEF WaitHalted, VerifyInv
      <4> QED BY <2>2, <3>2, <4>1 DEF Verified, Programmed
    <3> QED BY <1>5, <1>page, <3>1, <3>2 DEF WaitHalted
  <2> QED BY <2>1, <2>2, <2>3 DEF VerifiedSoFar
<1>6. CASE Verify
  <2>1. /\ buff' = buff /\ opts' = opts /\ flash' = flash /\ InLoop /\ ~gaveUp
    BY <1>6 DEF Verify, chipVars, jobVars, histVars
  <2>2. flash[page] = buff[page] /\ page' = page + 1
    BY <1>6 DEF Verify
  <2>3. p < page \/ p = page
    BY <1>page, <2>2
  <2> QED BY <2>1, <2>2, <2>3, VerifiedUnchanged DEF VerifiedSoFar
<1>7. CASE Complete \/ Finish \/ ReleaseOn \/ ReleaseOff
  <2>1. /\ buff' = buff /\ opts' = opts /\ flash' = flash /\ ~gaveUp /\ page' = page
        /\ InLoop \/ result = "ok"
    BY <1>7 DEF Complete, Finish, ReleaseOn, ReleaseOff, HoldReset, chipVars, jobVars, histVars
  <2> QED BY <2>1, VerifiedUnchanged DEF VerifiedSoFar
<1>8. CASE ChipErases
  BY <1>8 DEF ChipErases, ChipInv, Ended, histVars
\* the routine writes the page the loop is at
<1>9. CASE RoutineErases \/ RoutineWrites
  <2>1. /\ buff' = buff /\ opts' = opts /\ ~gaveUp /\ page' = page
        /\ pc' = pc /\ result' = result /\ routine.st # "halted"
    BY <1>9 DEF RoutineErases, RoutineWrites, jobVars
  <2>2. pc = "wait" /\ routine.page = page
    BY <2>1 DEF ChipInv, Ended
  <2>3. flash'[p] = flash[p]
    BY <1>9, <1>page, <2>1, <2>2 DEF RoutineErases, RoutineWrites, TypeOK
  <2> QED BY <2>1, <2>2, <2>3, VerifiedUnchanged DEF VerifiedSoFar
<1>10. CASE RoutineEnds \/ UNCHANGED vars
  <2>1. /\ buff' = buff /\ opts' = opts /\ flash' = flash /\ ~gaveUp /\ page' = page
        /\ pc' = pc /\ result' = result
    BY <1>10 DEF RoutineEnds, vars, jobVars, histVars
  <2> QED BY <2>1, VerifiedUnchanged DEF VerifiedSoFar
<1> QED
  BY <1>1, <1>2, <1>3, <1>4, <1>5, <1>6, <1>7, <1>8, <1>9, <1>10 DEF Next, Host, Chip

\* CleanSoFar speaks of the image, the options, the flash, the routine and the
\* loop only: a step that leaves these alone preserves it.
LEMMA CleanSoFarFrame ==
    ASSUME CleanSoFar,
           UNCHANGED <<flash, routine, buff, opts, page, result, erasing, gaveUp, faulty>>,
           pc' = pc
    PROVE  CleanSoFar'
  BY DEF CleanSoFar, InLoop, Programmed

LEMMA NextCleanSoFar ==
    TypeOK /\ ResultInv /\ ChipInv /\ CleanSoFar /\ [Next]_vars => CleanSoFar'
<1> SUFFICES ASSUME TypeOK, ResultInv, ChipInv, CleanSoFar, [Next]_vars, ~gaveUp', ~faulty'
             PROVE  CleanSoFar'
  BY DEF CleanSoFar
<1> USE DEF ResultInv, InLoop, Closing
<1>page. page \in Nat /\ NPages \in Nat /\ \A p \in Pages : p \in Nat /\ p < NPages
  BY PagesAssumption DEF TypeOK, Pages
<1>at. ASSUME page < NPages PROVE page \in Pages
  BY <1>at, PagesAssumption DEF TypeOK, Pages
<1>1. CASE Begin \/ LoadFile \/ UsbFail \/ LedOn \/ ResetOn \/ EnterDebug \/ ReadMac
  BY <1>1 DEF CleanSoFar, Begin, LoadFile, UsbFail, LedOn, ResetOn, EnterDebug, ReadMac
<1>2. CASE EnterProgram \/ MassErase
  BY <1>2, <1>page DEF CleanSoFar, EnterProgram, MassErase, jobVars
<1>3. CASE PollErase
  <2>1. UNCHANGED <<flash, buff, opts, page, result, erasing, faulty>> /\ ~gaveUp
        /\ pc' \in {"page", "poll_erase"} /\ pc = "poll_erase"
    BY <1>3 DEF PollErase, chipVars, jobVars
  <2>2. CASE pc' = pc
    BY <1>3, <2>1, <2>2 DEF CleanSoFar, PollErase, chipVars, jobVars
  <2>3. CASE pc' = "page"
    <3>1. ~erasing
      BY <1>3, <2>1, <2>3 DEF PollErase
    <3>2. \A p \in Pages : flash[p] = {}
      BY <2>1, <3>1 DEF CleanSoFar
    <3> QED BY <1>page, <2>1, <2>3, <3>2 DEF CleanSoFar
  <2> QED BY <2>1, <2>2, <2>3
\* the page was blank in the image, and after a mass erase in the flash
<1>4. CASE SkipPage
  <2>1. /\ UNCHANGED <<flash, buff, opts, result, pc, erasing, faulty, gaveUp>>
        /\ pc = "page" /\ page' = page + 1 /\ page < NPages /\ buff[page] = {}
    BY <1>4 DEF SkipPage, PageEmpty, chipVars, jobVars, histVars
  <2>2. \A p \in Pages : p < page' /\ (Programmed(p) \/ opts.massErase) => flash[p] = buff[p]
    <3> SUFFICES ASSUME NEW p \in Pages, p < page', Programmed(p) \/ opts.massErase
                 PROVE  flash[p] = buff[p]
      OBVIOUS
    <3>1. CASE p = page
      BY <2>1, <3>1 DEF CleanSoFar, Programmed, PageEmpty
    <3>2. CASE p < page
      BY <2>1, <3>2 DEF CleanSoFar
    <3> QED BY <1>page, <2>1, <3>1, <3>2
  <2>3. opts.massErase => \A p \in Pages : p >= page' => flash[p] = {}
    BY <1>page, <2>1 DEF CleanSoFar
  <2> QED BY <1>page, <2>1, <2>2, <2>3 DEF CleanSoFar, Programmed
<1>5. CASE StartPage
  <2>1. /\ UNCHANGED <<flash, buff, opts, result, page, erasing, faulty, gaveUp>>
        /\ pc = "page" /\ pc' = "wait" /\ page \in Pages
    BY <1>5, <1>at DEF StartPage, jobVars, histVars
  <2>2. /\ routine'.todo = buff[page]
        /\ IF opts.massErase THEN routine'.st = "write" ELSE routine'.st = "erase"
    BY <1>5 DEF StartPage, ErasePage
  <2>3. opts.massErase => flash[page] = {}
    BY <2>1 DEF CleanSoFar
  <2> QED BY <1>page, <2>1, <2>2, <2>3 DEF CleanSoFar, Programmed
<1>6. CASE WaitHalted
  <2>1. /\ UNCHANGED <<flash, buff, opts, result, erasing, routine, faulty, gaveUp>>
        /\ pc = "wait" /\ routine.st = "halted" /\ page \in Pages
        /\ \/ pc' = "verify" /\ page' = page
           \/ pc' = "page" /\ page' = page + 1
    BY <1>6, <1>at DEF WaitHalted, chipVars, jobVars, histVars
  <2>2. flash[page] = buff[page]
    BY <2>1 DEF CleanSoFar
  <2>3. CASE pc' = "verify" /\ page' = page
    BY <1>page, <2>1, <2>2, <2>3 DEF CleanSoFar, Programmed
  <2>4. CASE pc' = "page" /\ page' = page + 1
    <3>1. \A p \in Pages : p < page' => p < page \/ p = page
      BY <1>page, <2>4
    <3>2. \A p \in Pages : p > page' \/ p = page' => p > page
      BY <1>page, <2>4
    <3> QED BY <2>1, <2>2, <2>4, <3>1, <3>2 DEF CleanSoFar, Programmed
  <2> QED BY <2>1, <2>3, <2>4
<1>7. CASE Verify
  <2>1. /\ UNCHANGED <<flash, buff, opts, erasing, routine, faulty, gaveUp>>
        /\ pc = "verify" /\ page \in Pages
    BY <1>7, <1>at DEF Verify, chipVars, jobVars, histVars
  <2>2. CASE flash[page] = buff[page]
    <3>1. pc' = "page" /\ page' = page + 1 /\ result' = result
      BY <1>7, <2>2 DEF Verify
    <3>2. \A p \in Pages : p < page' => p < page \/ p = page
      BY <1>page, <3>1
    <3>3. \A p \in Pages : p > page' \/ p = page' => p > page
      BY <1>page, <3>1
    <3> QED BY <2>1, <2>2, <3>1, <3>2, <3>3 DEF CleanSoFar, Programmed
  <2>3. CASE flash[page] # buff[page]
    BY <1>7, <2>3 DEF CleanSoFar, Verify
  <2> QED BY <2>2, <2>3
<1>8. CASE Complete \/ Finish \/ ReleaseOn \/ ReleaseOff
  <2>1. /\ UNCHANGED <<flash, buff, opts, page, faulty, gaveUp>>
        /\ pc' \in {"finish", "release_on", "release_off", "done"}
        /\ result' = "ok" => InLoop \/ result = "ok"
    BY <1>8 DEF Complete, Finish, ReleaseOn, ReleaseOff, chipVars, jobVars, histVars
  <2> QED BY <2>1 DEF CleanSoFar, Programmed
\* the host waits for the erase, or has given up
<1>9. CASE ChipErases
  <2>1. /\ UNCHANGED <<pc, result, gaveUp>> /\ erasing
        /\ \A p \in Pages : flash'[p] = {}
    BY <1>9 DEF ChipErases, Blank, histVars
  <2>2. ~InLoop /\ result # "ok" /\ pc \notin {"wait", "verify"}
    BY <2>1 DEF ChipInv, Ended
  <2> QED BY <2>1, <2>2 DEF CleanSoFar
\* the routine works on the page the loop is at, and only while it waits
<1>10. CASE RoutineErases \/ RoutineWrites
  <2>1. /\ UNCHANGED <<buff, opts, page, result, pc, erasing, gaveUp>>
        /\ routine.st # "halted" /\ ~faulty
    BY <1>10 DEF RoutineErases, RoutineWrites, TypeOK, jobVars
  <2>2. CASE pc = "wait"
    <3>1. routine.page = page /\ page \in Pages
      BY <1>at, <2>1, <2>2 DEF ChipInv
    <3>2. \A p \in Pages : p # page => flash'[p] = flash[p]
      BY <1>10, <3>1 DEF RoutineErases, RoutineWrites, TypeOK
    <3>3. routine'.st = "write" /\ flash'[page] \cup routine'.todo = buff[page]
      <4>1. CASE RoutineErases
        <5>1. flash' = [flash EXCEPT ![page] = {}] /\ routine' = [routine EXCEPT !.st = "write"]
          BY <2>1, <3>1, <4>1 DEF RoutineErases
        <5>2. routine.todo = buff[page]
          BY <2>1, <2>2, <4>1 DEF RoutineErases, CleanSoFar
        <5> QED BY <3>1, <5>1, <5>2 DEF TypeOK
      <4>2. CASE RoutineWrites
        <5>1. PICK b \in routine.todo :
                 /\ flash' = [flash EXCEPT ![page] = @ \cup {b}]
                 /\ routine' = [routine EXCEPT !.todo = @ \ {b}]
          BY <2>1, <3>1, <4>2 DEF RoutineWrites
        <5>2. routine.st = "write" /\ flash[page] \cup routine.todo = buff[page]
          BY <2>1, <2>2, <4>2 DEF RoutineWrites, CleanSoFar
        <5>3. /\ flash'[page] = flash[page] \cup {b}
              /\ routine'.todo = routine.todo \ {b}
              /\ routine'.st = "write"
          BY <3>1, <5>1, <5>2 DEF TypeOK
        <5> QED BY <5>2, <5>3
      <4> QED BY <1>10, <4>1, <4>2
    <3>4. \A p \in Pages : p < page \/ p > page => p # page
      BY <1>page
    <3> QED BY <2>1, <2>2, <3>2, <3>3, <3>4 DEF CleanSoFar, Programmed
  <2>3. CASE pc # "wait"
    <3>1. ~InLoop /\ result # "ok" /\ pc \notin {"poll_erase", "verify"}
      BY <2>1, <2>3 DEF ChipInv, Ended
    <3> QED BY <2>1, <2>3, <3>1 DEF CleanSoFar
  <2> QED BY <2>2, <2>3
<1>11. CASE RoutineEnds
  <2>1. /\ UNCHANGED <<flash, buff, opts, page, result, pc, erasing, gaveUp, faulty>>
        /\ routine.st = "write" /\ routine.todo = {} /\ routine'.st = "halted"
    BY <1>11 DEF RoutineEnds, Halted, jobVars, histVars
  <2>2. pc = "wait" => flash[page] = buff[page]
    BY <2>1 DEF CleanSoFar
  <2> QED BY <2>1, <2>2 DEF CleanSoFar, Programmed
<1>12. CASE UNCHANGED vars
  BY <1>12, CleanSoFarFrame DEF vars
<1> QED
  BY <1>1, <1>2, <1>3, <1>4, <1>5, <1>6, <1>7, <1>8, <1>9, <1>10, <1>11, <1>12
  DEF Next, Host, Chip

LEMMA NextMacInv == TypeOK /\ ResultInv /\ ChipInv /\ MacInv /\ [Next]_vars => MacInv'
<1> SUFFICES ASSUME TypeOK, ResultInv, ChipInv, MacInv, [Next]_vars PROVE MacInv'
  OBVIOUS
<1> USE DEF ResultInv, MacInv, InLoop, Closing, AskedMac
<1>1. CASE Begin \/ LoadFile \/ UsbFail
  BY <1>1 DEF Begin, LoadFile, UsbFail
<1>2. CASE LedOn \/ EnterDebug
  BY <1>2 DEF LedOn, EnterDebug, MacOf, chipVars, histVars
<1>3. CASE ResetOn
  BY <1>3 DEF ResetOn, MacOf
<1>4. CASE ReadMac
  <2>1. MacOf(flash) = mac0 /\ mac0 \in SUBSET MacBits /\ opts.mac \in Macs \cup {NoMac}
    BY <1>4 DEF ReadMac, TypeOK, Options
  <2>2. MacOf(PatchedBuffer(buff, MacOf(flash), opts.mac)) = AskedMac
    BY <2>1, MacOfPatchedBuffer DEF TypeOK
  <2>3. /\ buff' = PatchedBuffer(buff, MacOf(flash), opts.mac)
        /\ pc' = "program" /\ UNCHANGED <<opts, mac0, result>>
    BY <1>4 DEF ReadMac, jobVars, histVars
  <2>4. MacOf(buff') = AskedMac'
    BY <2>2, <2>3 DEF MacOf
  <2> QED BY <1>4, <2>3, <2>4 DEF ReadMac, MacOf
<1>5. CASE EnterProgram \/ MassErase \/ PollErase
  BY <1>5 DEF EnterProgram, MassErase, PollErase, MacOf, jobVars, histVars
<1>6. CASE SkipPage \/ StartPage \/ WaitHalted
  BY <1>6 DEF SkipPage, StartPage, WaitHalted, MacOf, jobVars, histVars
<1>7. CASE Verify \/ Complete \/ Finish \/ ReleaseOn \/ ReleaseOff
  BY <1>7 DEF Verify, Complete, Finish, ReleaseOn, ReleaseOff, MacOf, jobVars, histVars
<1>8. CASE Chip
  <2>1. UNCHANGED <<pc, buff, opts, mac0, result>>
    BY <1>8 DEF Chip, ChipErases, RoutineErases, RoutineWrites, RoutineEnds, jobVars, histVars
  <2>2. pc \in {"debug", "read_mac"} => flash' = flash
    BY <1>8 DEF Chip, ChipErases, RoutineErases, RoutineWrites, RoutineEnds, ChipInv
  <2> QED BY <2>1, <2>2 DEF MacOf
<1>9. CASE UNCHANGED vars
  BY <1>9 DEF vars, MacOf
<1> QED BY <1>1, <1>2, <1>3, <1>4, <1>5, <1>6, <1>7, <1>8, <1>9 DEF Next, Host

-----------------------------------------------------------------------------
(* The theorems.                                                            *)

LEMMA InitIInv == Init => IInv
<1> SUFFICES ASSUME Init PROVE IInv
  OBVIOUS
<1>1. TypeOK
  BY InitTypeOK
<1> QED
  BY <1>1 DEF Init, Halted, IInv, ResultInv, ChipInv, LedInv, VerifyInv, VerifiedSoFar,
              CleanSoFar, MacInv, InLoop, Closing, Ended

LEMMA NextIInv == IInv /\ [Next]_vars => IInv'
  BY NextTypeOK, NextResultInv, NextChipInv, NextLedInv, NextVerifyInv, NextVerifiedSoFar,
     NextCleanSoFar, NextMacInv DEF IInv

THEOREM Inductive == Spec => []IInv
<1>1. Init => IInv
  BY InitIInv
<1>2. IInv /\ [Next]_vars => IInv'
  BY NextIInv
<1> QED BY <1>1, <1>2, PTL DEF Spec

\* Every variable keeps its type, whatever the flash size, the images, the
\* options and the faults: the page the routine works on is always a page, and
\* the loop never goes past the flash.
THEOREM TypeCorrect == Spec => []TypeOK
<1>1. IInv => TypeOK
  BY DEF IInv
<1> QED BY <1>1, Inductive, PTL

\* programFlash never reports a complete flash with a wrong page among those
\* it was asked to verify.
THEOREM VerifiedPages == Spec => []VerifiedPagesMatch
<1>1. IInv => VerifiedPagesMatch
  <2> SUFFICES ASSUME IInv, result = "ok", ~gaveUp, NEW p \in Pages, Verified(p)
               PROVE  flash[p] = buff[p]
    BY DEF VerifiedPagesMatch
  <2>1. page = NPages /\ p < page
    BY PagesAssumption DEF IInv, ResultInv, Pages
  <2> QED BY <2>1 DEF IInv, VerifiedSoFar
<1> QED BY <1>1, Inductive, PTL

\* Without a fault of the flash controller every page is right, verified or not.
THEOREM CleanJob == Spec => []CleanJobWritesImage
<1>1. IInv => CleanJobWritesImage
  <2> SUFFICES ASSUME IInv, result = "ok", ~faulty, ~gaveUp, NEW p \in Pages,
                      Programmed(p) \/ opts.massErase
               PROVE  flash[p] = buff[p]
    BY DEF CleanJobWritesImage
  <2>1. page = NPages /\ p < page
    BY PagesAssumption DEF IInv, ResultInv, Pages
  <2> QED BY <2>1 DEF IInv, CleanSoFar
<1> QED BY <1>1, Inductive, PTL

\* The address in the chip after a complete flash is the one that was asked for.
THEOREM MacKept == Spec => []MacAsAsked
<1>1. IInv => MacAsAsked
  <2> SUFFICES ASSUME IInv, result = "ok", ~gaveUp, ~faulty \/ opts.verify = 2,
                      Programmed(LastPage)
               PROVE  MacOf(flash) = AskedMac
    BY DEF MacAsAsked, AskedMac
  <2>1. page = NPages /\ LastPage \in Pages /\ LastPage < page
    BY LastPageIsAPage, PagesAssumption DEF IInv, ResultInv, LastPage
  <2>2. flash[LastPage] = buff[LastPage]
    BY <2>1 DEF IInv, VerifiedSoFar, CleanSoFar, Verified
  <2>3. MacOf(buff) = AskedMac
    BY DEF IInv, MacInv
  <2> QED BY <2>2, <2>3 DEF MacOf
<1> QED BY <1>1, Inductive, PTL

\* A job that ends leaves a released chip and a light that tells the outcome.
THEOREM Outcome == Spec => []OutcomeIndicated
<1>1. IInv => OutcomeIndicated
  BY DEF IInv, ChipInv, LedInv, Ended, OutcomeIndicated
<1> QED BY <1>1, Inductive, PTL

\* No step of the page loop changes a page that the image leaves blank.
THEOREM SkippedPages == Spec => SkippedPagesKept
<1> DEFINE Kept ==
      \A p \in Pages :
          pc \in {"page", "wait", "verify"} /\ ~Programmed(p) /\ ~erasing
          => flash'[p] = flash[p]
<1>1. IInv /\ [Next]_vars => [Kept]_vars
  <2> SUFFICES ASSUME IInv, Next, NEW p \in Pages,
                      pc \in {"page", "wait", "verify"}, ~Programmed(p), ~erasing
               PROVE  flash'[p] = flash[p]
    OBVIOUS
  <2>1. CASE RoutineErases \/ RoutineWrites
    <3>1. routine.st # "halted" /\ routine.page # p
      BY <2>1 DEF RoutineErases, RoutineWrites, IInv, ChipInv, ResultInv, Programmed
    <3> QED BY <2>1, <3>1 DEF RoutineErases, RoutineWrites, IInv, TypeOK
  <2>2. CASE Begin \/ Host \/ UsbFail \/ ChipErases \/ RoutineEnds
    BY <2>2 DEF Begin, Host, UsbFail, ChipErases, RoutineEnds, LoadFile, LedOn, ResetOn,
                EnterDebug, ReadMac, EnterProgram, MassErase, PollErase, SkipPage, StartPage,
                WaitHalted, Verify, Complete, Finish, ReleaseOn, ReleaseOff, chipVars
  <2> QED BY <2>1, <2>2 DEF Next, Chip
<1> QED BY <1>1, Inductive, PTL DEF Spec, SkippedPagesKept
=============================================================================
