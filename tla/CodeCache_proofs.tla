--------------------------- MODULE CodeCache_proofs ---------------------------
(***************************************************************************)
(* Proofs about CodeCache, for any number of connections, of banks and of  *)
(* breakpoint slots, and banks of any size.  The cache and the breakpoint  *)
(* table do not depend on each other, so each has an inductive invariant   *)
(* of its own: CacheInv says what a handler that fills the cache can count *)
(* on between its steps, TableInv what every connection has a say in.      *)
(***************************************************************************)
EXTENDS CodeCache, FiniteSetTheorems, WellFoundedInduction, TLAPS

(* Arithmetic of banked addresses.                                          *)

\* Division by a positive number: quotient and remainder, in the form in which
\* the provers can use them with a divisor that is a constant of the module.
LEMMA Division ==
    ASSUME NEW a \in Nat, NEW n \in Nat \ {0}
    PROVE  /\ a \div n \in Nat
           /\ a % n \in 0 .. n - 1
           /\ a = n * (a \div n) + (a % n)
  OBVIOUS

\* The quotient and the remainder are the only ones.
LEMMA DivisionUnique ==
    ASSUME NEW q \in Nat, NEW n \in Nat \ {0}, NEW r \in 0 .. n - 1
    PROVE  (n * q + r) \div n = q /\ (n * q + r) % n = r
  OBVIOUS

\* The smallest element of a set of numbers is one.
LEMMA FirstOfSet ==
    ASSUME NEW S \in SUBSET Nat, S # {}
    PROVE  FirstOf(S) \in S /\ \A x \in S : FirstOf(S) <= x
<1> DEFINE R == {ss \in Nat \X Nat : ss[1] < ss[2]}
<1>1. IsWellFoundedOn(R, Nat)
  BY NatLessThanWellFounded, Zenon DEF OpToRel
<1>2. PICK m \in S : \A y \in S : ~ (<<y, m>> \in R)
  BY <1>1, WFMin, Zenon
<1>3. \A y \in S : m <= y
  <2> SUFFICES ASSUME NEW y \in S, ~(m <= y)
               PROVE  FALSE
    OBVIOUS
  <2>1. m \in Nat /\ y \in Nat /\ y < m
    OBVIOUS
  <2>2. <<y, m>> \in R
    BY <2>1
  <2> QED
    BY <1>2, <2>2
<1> QED
  BY <1>3 DEF FirstOf

\* The largest element of a bounded set of numbers is one.
LEMMA LastOfSet ==
    ASSUME NEW S \in SUBSET Nat, S # {}, NEW n \in Nat, \A x \in S : x <= n
    PROVE  LastOf(S) \in S /\ \A x \in S : x <= LastOf(S)
<1> DEFINE T == {y \in 0 .. n : n - y \in S}
<1>1. \A x \in S : x \in Nat /\ n - x \in T
  <2> SUFFICES ASSUME NEW x \in S
               PROVE  x \in Nat /\ n - x \in T
    OBVIOUS
  <2>1. x \in Nat /\ x <= n
    OBVIOUS
  <2>2. n - x \in 0 .. n /\ n - (n - x) = x
    BY <2>1
  <2> QED
    BY <2>1, <2>2
<1>2. T \in SUBSET Nat /\ T # {}
  <2>1. PICK x : x \in S
    OBVIOUS
  <2>2. n - x \in T
    BY <1>1, <2>1
  <2>3. T \in SUBSET Nat
    OBVIOUS
  <2> QED
    BY <2>2, <2>3
<1>3. FirstOf(T) \in T /\ \A y \in T : FirstOf(T) <= y
  BY <1>2, FirstOfSet
<1> DEFINE m == n - FirstOf(T)
<1>4. m \in S /\ FirstOf(T) \in Nat
  BY <1>3
<1>5. \A x \in S : x <= m
  BY <1>1, <1>3, <1>4
<1> QED
  BY <1>4, <1>5 DEF LastOf

\* A bank of n bytes and the lower half of the address space in front of it:
\* the byte x of bank number 2 * h + b is in the pair h of banks, and is byte x
\* of it.
LEMMA BankArithmetic ==
    ASSUME NEW n \in Nat \ {0}, NEW h \in Nat, NEW b \in 0 .. 1, NEW x \in 0 .. n - 1
    PROVE  /\ (n * (2 * h + b) + x) \div (2 * n) = h
           /\ (x + n * h) % n = x
           /\ (x + n * h) \div n = h
           /\ (n + x) % (2 * n) = n + x
<1>1. n * b + x \in 0 .. 2 * n - 1 /\ n + x \in 0 .. 2 * n - 1
  <2>1. b = 0 \/ b = 1
    OBVIOUS
  <2> QED
    BY <2>1
<1>2. n * (2 * h + b) + x = (2 * n) * h + (n * b + x)
  OBVIOUS
<1>3. (n * (2 * h + b) + x) \div (2 * n) = h
  BY <1>1, <1>2, DivisionUnique, 2 * n \in Nat \ {0}
<1>4. x + n * h = n * h + x
  OBVIOUS
<1>5. n + x = (2 * n) * 0 + (n + x)
  OBVIOUS
<1> QED
  BY <1>1, <1>3, <1>4, <1>5, DivisionUnique, 2 * n \in Nat \ {0}

\* A range that does not cross a bank starts and ends in the same bank, and the
\* addresses in between are in that bank too.
LEMMA SameBank ==
    ASSUME NEW r \in Ranges, ~Crosses(r), NEW a \in r[1] .. r[2]
    PROVE  a \div Bank = r[1] \div Bank
<1> USE BankAssumption
<1>1. r[1] \in Nat /\ r[2] \in Nat /\ a \in Nat /\ r[1] <= a /\ a <= r[2]
  BY DEF Ranges, CacheAddrs
<1>2. \A x, y \in Nat : x <= y => x \div Bank <= y \div Bank
  OBVIOUS
<1>3. r[1] \div Bank <= a \div Bank /\ a \div Bank <= r[2] \div Bank
  BY <1>1, <1>2
<1>4. r[1] \div Bank \in Nat /\ a \div Bank \in Nat
  BY <1>1
<1> QED
  BY <1>3, <1>4 DEF Crosses

\* In such a range the bytes read from the chip are those of its flash: the data
\* pointer neither leaves the bank nor goes round.
LEMMA BankIsRead ==
    ASSUME NEW r \in Ranges, ~Crosses(r), NEW a \in r[1] .. r[2]
    PROVE  ChipByte(FlashAddr(r[1]), a - r[1]) = flash[FlashAddr(a)]
<1> USE BankAssumption
<1> DEFINE q == r[1] \div Bank
           x == r[1] % Bank
           y == a % Bank
           h == q \div 2
<1>1. r[1] \in Nat /\ a \in Nat /\ r[1] <= a
  BY DEF Ranges, CacheAddrs
<1>2. /\ q \in Nat /\ x \in 0 .. Bank - 1 /\ y \in 0 .. Bank - 1
      /\ r[1] = Bank * q + x
      /\ a = Bank * q + y
  BY <1>1, Division, SameBank
<1> HIDE DEF q, x, y
<1> DEFINE b == q % 2
<1>3. h \in Nat /\ b \in 0 .. 1 /\ q = 2 * h + b
  BY <1>2
<1> HIDE DEF h, b
<1>4. \A z \in 0 .. Bank - 1 :
         /\ (Bank * (2 * h + b) + z) \div (2 * Bank) = h
         /\ (z + Bank * h) % Bank = z
         /\ (z + Bank * h) \div Bank = h
         /\ (Bank + z) % (2 * Bank) = Bank + z
  BY <1>3, BankArithmetic, Zenon
<1>5. r[1] \div (2 * Bank) = h /\ a \div (2 * Bank) = h
  BY <1>2, <1>3, <1>4
<1>6. FlashAddr(r[1]) = x + Bank * h /\ FlashAddr(a) = y + Bank * h
  BY <1>5 DEF FlashAddr, x, y
<1>7. FlashAddr(r[1]) % Bank = x /\ FlashAddr(r[1]) \div Bank = h
  BY <1>2, <1>4, <1>6, Zenon
<1>8. Bank + x + (a - r[1]) = Bank + y
  <2>1. Bank * q \in Nat
    BY <1>2
  <2> QED
    BY <1>2, <2>1
<1>9. (Bank + y) % (2 * Bank) = Bank + y /\ Bank + y >= Bank /\ (Bank + y) - Bank = y
  BY <1>2, <1>4
<1> QED
  BY <1>6, <1>7, <1>8, <1>9 DEF ChipByte

\* What is read is a range of the cache that begins at the first byte that was
\* asked for and has the last one.
LEMMA AheadRange ==
    ASSUME NEW first \in CacheAddrs, NEW last \in CacheAddrs, first <= last
    PROVE  /\ WithAhead(first, last) \in Ranges
           /\ WithAhead(first, last)[1] = first
           /\ last <= WithAhead(first, last)[2]
<1> USE BankAssumption
<1>1. first \in Nat /\ last \in Nat /\ first + Ahead \in Nat
  BY DEF CacheAddrs
<1>2. CASE first \div Bank = (first + Ahead) \div Bank /\ first + Ahead > last
  <2> DEFINE q == first \div Bank
             y == (first + Ahead) % Bank
  <2>1. q \in Nat /\ y \in 0 .. Bank - 1 /\ first + Ahead = Bank * q + y
    BY <1>1, <1>2, Division
  <2>2. first % Bank \in Nat /\ first = Bank * q + (first % Bank)
    BY <1>1, Division
  <2>3. Bank * q <= 2 * Bank * Banks - 1
    BY <1>1, <2>1, <2>2 DEF CacheAddrs
  <2> HIDE DEF q, y
  <2>4. q <= 2 * Banks - 1
    BY <2>1, <2>3
  <2>5. Bank * q + Bank <= 2 * Bank * Banks
    BY <2>1, <2>4
  <2>6. first + Ahead \in CacheAddrs
    BY <2>1, <2>5, <1>1 DEF CacheAddrs
  <2> QED
    BY <1>1, <1>2, <2>6 DEF WithAhead, Ranges
<1>3. CASE ~(first \div Bank = (first + Ahead) \div Bank /\ first + Ahead > last)
  BY <1>3, <1>1 DEF WithAhead, Ranges
<1> QED
  BY <1>2, <1>3

-----------------------------------------------------------------------------
(* Types.                                                                   *)

\* The first free slot is a slot, and free.
LEMMA FirstFree ==
    ASSUME FreeSlots # {}
    PROVE  FirstOf(FreeSlots) \in Slots /\ ~usedBP[FirstOf(FreeSlots)]
<1>1. Slots \subseteq Nat
  BY SlotAssumption, FS_CardinalityType
<1>2. FreeSlots \in SUBSET Nat
  BY <1>1 DEF FreeSlots
<1>3. FirstOf(FreeSlots) \in FreeSlots
  BY <1>2, FirstOfSet
<1> QED
  BY <1>3 DEF FreeSlots

\* What Scan decides to read has every byte that was missing.
LEMMA MissingAreRead ==
    ASSUME TypeOK, NEW t \in Threads, Invalid(asked[t]) # {}
    PROVE  LET r == WithAhead(FirstOf(Invalid(asked[t])), LastOf(Invalid(asked[t])))
           IN  /\ r \in Ranges
               /\ \A a \in asked[t][1] .. asked[t][2] : valid[a] \/ a \in r[1] .. r[2]
<1> DEFINE S == Invalid(asked[t])
           n == asked[t][2]
<1>1. asked[t] \in Ranges
  BY DEF TypeOK
<1>2. asked[t][1] \in CacheAddrs /\ n \in CacheAddrs
  BY <1>1 DEF Ranges
<1>3. CacheAddrs \subseteq Nat /\ asked[t][1] .. n \subseteq CacheAddrs
  BY <1>2, BankAssumption DEF CacheAddrs
<1>4. S \in SUBSET Nat /\ S \subseteq CacheAddrs /\ n \in Nat /\ \A x \in S : x <= n
  <2>1. S \subseteq asked[t][1] .. n
    BY DEF Invalid
  <2>2. asked[t][1] \in Nat /\ n \in Nat
    BY <1>2, <1>3
  <2> QED
    BY <1>3, <2>1, <2>2
<1>5. /\ FirstOf(S) \in S /\ LastOf(S) \in S
      /\ \A x \in S : FirstOf(S) <= x /\ x <= LastOf(S)
  BY <1>4, FirstOfSet, LastOfSet
<1> DEFINE r == WithAhead(FirstOf(S), LastOf(S))
<1>6. r \in Ranges /\ r[1] = FirstOf(S) /\ LastOf(S) <= r[2]
  BY <1>4, <1>5, AheadRange
<1>7. r[1] \in Nat /\ r[2] \in Nat
  BY <1>6, <1>3 DEF Ranges
<1>8. ASSUME NEW a \in asked[t][1] .. n, ~valid[a]
      PROVE  a \in r[1] .. r[2]
  <2>1. a \in S
    BY <1>8 DEF Invalid
  <2>2. a \in Nat /\ r[1] <= a /\ a <= LastOf(S) /\ LastOf(S) \in Nat
    BY <2>1, <1>4, <1>5, <1>6
  <2> QED
    BY <2>2, <1>6, <1>7
<1> QED
  BY <1>6, <1>8

LEMMA InitTypeOK == Init => TypeOK
<1> SUFFICES ASSUME Init
             PROVE  TypeOK
  OBVIOUS
<1>1. NoRange \in Ranges
  BY BankAssumption DEF NoRange, Ranges, CacheAddrs
<1>2. 0 \in Slots
  BY SlotAssumption, FS_CardinalityType
<1>3. session \in Sessions /\ flashes \in 0 .. session.flashes
  BY SessionAssumption DEF Init
<1>4. told \in [Threads -> SUBSET (Slots \X BpAddrs)]
  BY DEF Init
<1>5. DOMAIN cache = CacheAddrs /\ valid \in [CacheAddrs -> BOOLEAN]
  BY DEF Init
<1> QED
  BY <1>1, <1>2, <1>3, <1>4, <1>5 DEF Init, TypeOK

LEMMA ReturnTypeOK ==
    ASSUME TypeOK, NEW t \in Threads, Return(t)
    PROVE  /\ pc' \in [Threads -> FillSteps \cup BpSteps \cup {"idle", "init", "flash"}]
           /\ asked' \in [Threads -> Ranges]
           /\ range' \in [Threads -> Ranges]
           /\ slot' \in [Threads -> Slots]
           /\ bp' \in [Threads -> BpAddrs \cup {NoBp}]
<1>1. NoRange \in Ranges
  BY BankAssumption DEF NoRange, Ranges, CacheAddrs
<1>2. 0 \in Slots
  BY SlotAssumption, FS_CardinalityType
<1> QED
  BY <1>1, <1>2 DEF Return, Goto, TypeOK, FillSteps, BpSteps

LEMMA NextTypeOK == TypeOK /\ [Next]_vars => TypeOK'
<1> SUFFICES ASSUME TypeOK, [Next]_vars
             PROVE  TypeOK'
  OBVIOUS
<1> USE DEF TypeOK, Goto
<1>0. /\ session.threads \subseteq Threads /\ session.reads \subseteq Ranges
      /\ session.bps \subseteq CacheAddrs /\ session.bps \subseteq BpAddrs
      /\ session.flashes \in Nat
  BY SessionAssumption DEF BpAddrs
<1>1. ASSUME NEW t \in Threads, ReadMem(t)
      PROVE  TypeOK'
  BY <1>0, <1>1 DEF ReadMem, FillSteps
<1>2. ASSUME NEW t \in Threads, Scan(t)
      PROVE  TypeOK'
  BY <1>2, MissingAreRead DEF Scan, FillSteps
<1>3. ASSUME NEW t \in Threads, Read(t)
      PROVE  TypeOK'
  BY <1>3 DEF Read, FillSteps, Crosses
<1>4. ASSUME NEW t \in Threads, Mark(t)
      PROVE  TypeOK'
  BY <1>4 DEF Mark, FillSteps
<1>5. ASSUME NEW t \in Threads, Copy(t)
      PROVE  TypeOK'
  BY <1>5, ReturnTypeOK DEF Copy
<1>6. ASSUME NEW t \in Threads, SetBp(t)
      PROVE  TypeOK'
  <2>1. \A a \in CacheAddrs : <<a, a>> \in Ranges
    BY BankAssumption DEF Ranges, CacheAddrs
  <2>2. PICK a \in session.bps : /\ bp' = [bp EXCEPT ![t] = a]
                                 /\ asked' = [asked EXCEPT ![t] = <<a, a>>]
    BY <1>6 DEF SetBp
  <2>3. asked' \in [Threads -> Ranges] /\ bp' \in [Threads -> BpAddrs \cup {NoBp}]
    BY <1>0, <2>1, <2>2
  <2>4. slot' \in [Threads -> Slots]
    BY <1>6, FirstFree DEF SetBp
  <2> QED
    BY <1>6, <2>3, <2>4 DEF SetBp, BpSteps
<1>7. ASSUME NEW t \in Threads, SetBpChip(t)
      PROVE  TypeOK'
  BY <1>7 DEF SetBpChip, BpSteps
<1>8. ASSUME NEW t \in Threads, SetBpMark(t)
      PROVE  TypeOK'
  BY <1>8 DEF SetBpMark, Taken, FillSteps
<1>9. ASSUME NEW t \in Threads, RemoveBp(t)
      PROVE  TypeOK'
  BY <1>9 DEF RemoveBp, BpSteps
<1>10. ASSUME NEW t \in Threads, RemoveBpChip(t)
       PROVE  TypeOK'
  BY <1>10, ReturnTypeOK DEF RemoveBpChip, Off
<1>11. ASSUME NEW t \in Threads, UsbFail(t)
       PROVE  TypeOK'
  BY <1>11, ReturnTypeOK DEF UsbFail, Off
<1>12. ASSUME InitCodeCache
       PROVE  /\ DOMAIN cache' = CacheAddrs
              /\ valid' \in [CacheAddrs -> BOOLEAN]
              /\ usedBP' \in [Slots -> BOOLEAN]
              /\ stale' \in BOOLEAN
              /\ forgot' \in BOOLEAN
  BY <1>12 DEF InitCodeCache, NoMarks
<1>13. ASSUME ResetRegisters
       PROVE  hwBP' \in [Slots -> BpAddrs \cup {NoBp}] /\ forgot' \in BOOLEAN
  BY <1>13 DEF ResetRegisters
<1>14. ASSUME NEW t \in Threads, ResetTarget(t) \/ ResetDone(t)
       PROVE  TypeOK'
  BY <1>12, <1>13, <1>14 DEF ResetTarget, ResetDone
<1>15. ASSUME NEW t \in Threads, FlashCommand(t) \/ FlashDone(t)
       PROVE  TypeOK'
  <2>1. ResetRegisters /\ WriteFlash
    BY <1>15 DEF FlashCommand, FlashDone
  <2>2. hwBP' \in [Slots -> BpAddrs \cup {NoBp}] /\ forgot' \in BOOLEAN
    BY <1>13, <2>1
  <2>3. flash' \in Images /\ stale' \in BOOLEAN
    BY <2>1 DEF WriteFlash
  <2>4. flashes' \in 0 .. session.flashes
    BY <1>0, <1>15 DEF FlashCommand, FlashDone
  <2> QED
    BY <1>15, <2>2, <2>3, <2>4 DEF FlashCommand, FlashDone
<1>16. CASE ClearCodeCache
  BY <1>12, <1>16 DEF ClearCodeCache
<1>17. CASE ResetCommand
  BY <1>13, <1>17 DEF ResetCommand
<1>18. CASE BpCommand
  BY <1>0, <1>18 DEF BpCommand
<1>19. CASE UNCHANGED vars
  BY <1>19 DEF vars
<1> QED
  BY <1>0, <1>1, <1>2, <1>3, <1>4, <1>5, <1>6, <1>7, <1>8, <1>9, <1>10, <1>11, <1>14,
     <1>15, <1>16, <1>17, <1>18, <1>19 DEF Next, Thread

\* Every variable stays in its range (debugserver.cpp, getCode, initCodeCache and
\* noICEHandler).
THEOREM TypeCorrect == Spec => []TypeOK
  BY InitTypeOK, NextTypeOK, PTL DEF Spec

-----------------------------------------------------------------------------
(* The cache and the flash.                                                 *)

Holds(a) == cache[a] = flash[FlashAddr(a)]

\* While nothing is stale, a handler that fills the cache reads all that was
\* missing of what it was asked for; what it has read and not yet marked is what
\* the flash has, whoever else filled the same bytes meanwhile; and what it is
\* about to copy is marked.
FillsFollowed ==
    ~stale => \A t \in Threads :
        /\ pc[t] \in {"read", "mark"} =>
              \A a \in asked[t][1] .. asked[t][2] :
                  valid[a] \/ a \in range[t][1] .. range[t][2]
        /\ pc[t] = "mark" => \A a \in range[t][1] .. range[t][2] : Holds(a)
        /\ pc[t] = "copy" => \A a \in asked[t][1] .. asked[t][2] : valid[a]

CacheInv == CacheHoldsCode /\ FillsFollowed

\* Addresses between those of a range are addresses of the cache.
LEMMA InRange ==
    ASSUME NEW r \in Ranges
    PROVE  r[1] .. r[2] \subseteq CacheAddrs
  BY BankAssumption DEF Ranges, CacheAddrs

\* A step that touches neither the cache nor the flash, and of each thread's fill
\* either nothing or ends it.
LEMMA QuietFills ==
    ASSUME CacheInv,
           UNCHANGED <<flash, cache, valid, stale>>,
           \A u \in Threads : pc'[u] \in {"read", "mark", "copy"} =>
              pc'[u] = pc[u] /\ asked'[u] = asked[u] /\ range'[u] = range[u]
    PROVE  CacheInv'
  BY DEF CacheInv, CacheHoldsCode, FillsFollowed, Holds, FlashAddr

\* A step after which nothing is marked and no thread fills the cache.
LEMMA NothingFilled ==
    ASSUME \A a \in CacheAddrs : ~valid'[a],
           \A u \in Threads : pc'[u] \notin FillSteps
    PROVE  CacheInv'
  BY DEF CacheInv, CacheHoldsCode, FillsFollowed, FillSteps

LEMMA ReadCacheInv ==
    ASSUME TypeOK, CacheInv, NEW t \in Threads, Read(t)
    PROVE  CacheInv'
<1> SUFFICES ASSUME ~stale'
             PROVE  CacheInv'
  BY DEF CacheInv, CacheHoldsCode, FillsFollowed
<1>1. ~stale /\ ~Crosses(range[t]) /\ range[t] \in Ranges
  BY DEF Read, TypeOK
<1>2. \A a \in range[t][1] .. range[t][2] : a \in CacheAddrs /\ Holds(a)'
  <2> SUFFICES ASSUME NEW a \in range[t][1] .. range[t][2]
               PROVE  a \in CacheAddrs /\ Holds(a)'
    OBVIOUS
  <2>1. a \in CacheAddrs
    BY <1>1, InRange
  <2>2. cache'[a] = ChipByte(FlashAddr(range[t][1]), a - range[t][1])
    BY <2>1 DEF Read
  <2>3. cache'[a] = flash[FlashAddr(a)]
    BY <1>1, <2>2, BankIsRead
  <2> QED
    BY <2>1, <2>3 DEF Holds, FlashAddr, Read
<1>3. \A a \in CacheAddrs : Holds(a) => Holds(a)'
  BY <1>2 DEF Holds, Read, FlashAddr
<1>4. CacheHoldsCode'
  BY <1>1, <1>3 DEF CacheInv, CacheHoldsCode, Holds, Read, FlashAddr
<1>5. FillsFollowed'
  <2> SUFFICES ASSUME NEW u \in Threads
               PROVE  /\ pc'[u] \in {"read", "mark"} =>
                            \A a \in asked'[u][1] .. asked'[u][2] :
                                valid'[a] \/ a \in range'[u][1] .. range'[u][2]
                      /\ pc'[u] = "mark" =>
                            \A a \in range'[u][1] .. range'[u][2] : Holds(a)'
                      /\ pc'[u] = "copy" =>
                            \A a \in asked'[u][1] .. asked'[u][2] : valid'[a]
    BY DEF FillsFollowed
  <2>1. asked' = asked /\ range' = range /\ valid' = valid /\ range[u] \in Ranges
    BY DEF Read, TypeOK
  <2>2. pc[t] = "read" /\ (u = t => pc'[u] = "mark") /\ (u # t => pc'[u] = pc[u])
    BY DEF Read, Goto, TypeOK
  <2>3. range[u][1] .. range[u][2] \subseteq CacheAddrs
    BY <2>1, InRange
  <2> QED
    BY <1>1, <1>2, <1>3, <2>1, <2>2, <2>3 DEF CacheInv, FillsFollowed
<1> QED
  BY <1>4, <1>5 DEF CacheInv

LEMMA MarkCacheInv ==
    ASSUME TypeOK, CacheInv, NEW t \in Threads, Mark(t)
    PROVE  CacheInv'
<1> SUFFICES ASSUME ~stale'
             PROVE  CacheInv'
  BY DEF CacheInv, CacheHoldsCode, FillsFollowed
<1>1. ~stale /\ pc[t] = "mark" /\ UNCHANGED <<flash, cache, asked, range>>
  BY DEF Mark
<1>2. \A a \in range[t][1] .. range[t][2] : Holds(a)
  BY <1>1 DEF CacheInv, FillsFollowed
<1>3. \A a \in CacheAddrs :
         valid'[a] <=> valid[a] \/ a \in range[t][1] .. range[t][2]
  BY DEF Mark, TypeOK
<1>4. CacheHoldsCode'
  BY <1>1, <1>2, <1>3 DEF CacheInv, CacheHoldsCode, Holds, FlashAddr
<1>5. \A a : Holds(a)' <=> Holds(a)
  BY <1>1 DEF Holds, FlashAddr
<1>6. FillsFollowed'
  <2> SUFFICES ASSUME NEW u \in Threads
               PROVE  /\ pc'[u] \in {"read", "mark"} =>
                            \A a \in asked[u][1] .. asked[u][2] :
                                valid'[a] \/ a \in range[u][1] .. range[u][2]
                      /\ pc'[u] = "mark" =>
                            \A a \in range[u][1] .. range[u][2] : Holds(a)
                      /\ pc'[u] = "copy" =>
                            \A a \in asked[u][1] .. asked[u][2] : valid'[a]
    BY <1>1, <1>5 DEF FillsFollowed
  <2>1. (u = t => pc'[u] = "copy") /\ (u # t => pc'[u] = pc[u])
    BY DEF Mark, Goto, TypeOK
  <2>2. asked[u][1] .. asked[u][2] \subseteq CacheAddrs
    BY InRange DEF TypeOK
  <2> QED
    BY <1>1, <1>3, <2>1, <2>2 DEF CacheInv, FillsFollowed
<1> QED
  BY <1>4, <1>6 DEF CacheInv

LEMMA NextCacheInv == TypeOK /\ CacheInv /\ [Next]_vars => CacheInv'
<1> SUFFICES ASSUME TypeOK, CacheInv, [Next]_vars
             PROVE  CacheInv'
  OBVIOUS
<1>1. ASSUME NEW t \in Threads, ReadMem(t)
      PROVE  CacheInv'
  BY <1>1, QuietFills DEF ReadMem, Goto, TypeOK
<1>2. ASSUME NEW t \in Threads, Scan(t)
      PROVE  CacheInv'
  <2>1. UNCHANGED <<flash, cache, valid, stale, asked>>
    BY <1>2 DEF Scan
  <2>2. \A u \in Threads : u # t => pc'[u] = pc[u] /\ range'[u] = range[u]
    BY <1>2 DEF Scan, Goto, TypeOK
  <2>3. CASE Invalid(asked[t]) = {}
    <3>1. pc'[t] = "copy" /\ \A a \in asked[t][1] .. asked[t][2] : valid[a]
      BY <1>2, <2>3 DEF Scan, Goto, TypeOK, Invalid
    <3> QED
      BY <2>1, <2>2, <3>1 DEF CacheInv, CacheHoldsCode, FillsFollowed, Holds, FlashAddr
  <2>4. CASE Invalid(asked[t]) # {}
    <3>1. /\ pc'[t] = "read"
          /\ \A a \in asked[t][1] .. asked[t][2] :
                valid[a] \/ a \in range'[t][1] .. range'[t][2]
      BY <1>2, <2>4, MissingAreRead DEF Scan, Goto, TypeOK
    <3> QED
      BY <2>1, <2>2, <3>1 DEF CacheInv, CacheHoldsCode, FillsFollowed, Holds, FlashAddr
  <2> QED
    BY <2>3, <2>4
<1>3. ASSUME NEW t \in Threads, Read(t)
      PROVE  CacheInv'
  BY <1>3, ReadCacheInv
<1>4. ASSUME NEW t \in Threads, Mark(t)
      PROVE  CacheInv'
  BY <1>4, MarkCacheInv
<1>5. ASSUME NEW t \in Threads, Copy(t) \/ RemoveBpChip(t) \/ UsbFail(t)
      PROVE  CacheInv'
  BY <1>5, QuietFills DEF Copy, RemoveBpChip, UsbFail, Return, Goto, TypeOK
<1>6. ASSUME NEW t \in Threads, SetBp(t)
      PROVE  CacheInv'
  BY <1>6, QuietFills DEF SetBp, Goto, TypeOK
<1>7. ASSUME NEW t \in Threads, SetBpChip(t) \/ SetBpMark(t) \/ RemoveBp(t)
      PROVE  CacheInv'
  BY <1>7, QuietFills DEF SetBpChip, SetBpMark, RemoveBp, Goto, TypeOK
<1>8. ASSUME InitCodeCache, \A u \in Threads : pc'[u] \in FillSteps => pc[u] \in FillSteps
      PROVE  CacheInv'
  <2>1. \A a \in CacheAddrs : ~valid'[a]
    BY <1>8 DEF InitCodeCache, NoMarks
  <2>2. CASE stale'
    BY <2>2 DEF CacheInv, CacheHoldsCode, FillsFollowed
  <2>3. CASE ~stale'
    BY <1>8, <2>1, <2>3, NothingFilled DEF InitCodeCache
  <2> QED
    BY <2>2, <2>3
<1>9. ASSUME NEW t \in Threads, ResetTarget(t)
      PROVE  CacheInv'
  BY <1>9, QuietFills DEF ResetTarget, Goto, TypeOK
<1>10. ASSUME NEW t \in Threads, ResetDone(t)
       PROVE  CacheInv'
  BY <1>8, <1>10 DEF ResetDone, Goto, TypeOK, FillSteps
<1>11. ASSUME NEW t \in Threads, FlashCommand(t) \/ FlashDone(t)
       PROVE  CacheInv'
  <2>1. valid' = valid /\ \A u \in Threads : pc'[u] \in FillSteps => pc[u] \in FillSteps
    BY <1>11 DEF FlashCommand, FlashDone, Goto, TypeOK, FillSteps
  <2>2. CASE stale'
    BY <2>2 DEF CacheInv, CacheHoldsCode, FillsFollowed
  <2>3. CASE ~stale'
    BY <1>11, <2>1, <2>3, NothingFilled DEF FlashCommand, FlashDone, WriteFlash
  <2> QED
    BY <2>2, <2>3
<1>12. CASE ClearCodeCache
  BY <1>8, <1>12 DEF ClearCodeCache
<1>13. CASE ResetCommand \/ BpCommand \/ UNCHANGED vars
  BY <1>13, QuietFills DEF ResetCommand, BpCommand, vars
<1>14. session.threads \subseteq Threads
  BY SessionAssumption DEF TypeOK
<1> QED
  BY <1>1, <1>2, <1>3, <1>4, <1>5, <1>6, <1>7, <1>9, <1>10, <1>11, <1>12, <1>13, <1>14
  DEF Next, Thread

LEMMA CacheInvAlways == Spec => []CacheInv
<1>1. Init => CacheInv
  BY DEF Init, CacheInv, CacheHoldsCode, FillsFollowed
<1> QED
  BY <1>1, NextCacheInv, TypeCorrect, PTL DEF Spec

\* A byte that is marked valid is the byte the chip has there, for banks of any
\* size and any number of connections and of bytes read in advance, until the
\* flash is written under the cache, a read crosses a bank, or the cache is
\* cleared under a reader (getCode, initCodeCache).
THEOREM ValidBytesAreCode == Spec => []CacheHoldsCode
  BY CacheInvAlways, PTL DEF CacheInv

\* What getCode is about to copy to the client is the code of the chip, however
\* the fills of the connections interleave (getCode).
THEOREM AnswersAreTheCode == Spec => []AnswersAreCode
<1>1. TypeOK /\ CacheInv => AnswersAreCode
  BY InRange DEF TypeOK, CacheInv, CacheHoldsCode, FillsFollowed, AnswersAreCode
<1> QED
  BY <1>1, CacheInvAlways, TypeCorrect, PTL

-----------------------------------------------------------------------------
(* The breakpoint table and the registers of the chip.                      *)

\* The handler has marked a slot and has not yet told the client of it.
Setting(t) == pc[t] \in FillSteps /\ bp[t] # NoBp

\* Slots a connection has a say in: the one its handler works on, and those the
\* client has been told of.
Claims(t, s) ==
    \/ (Setting(t) \/ pc[t] \in BpSteps) /\ slot[t] = s
    \/ \E b \in told[t] : b[1] = s

\* Only a handler that sets a breakpoint has an address for one.
BpLocals ==
    \A t \in Threads :
        /\ pc[t] \in {"bp_chip", "bp_mark"} => bp[t] # NoBp
        /\ pc[t] \in {"idle", "init", "flash", "rm_chip"} => bp[t] = NoBp

\* While nothing is forgotten, a slot a client is told of, or is about to be told
\* of, is used and armed; one a handler works on is free in the table; and no two
\* connections have a say in one slot.
TableFollowed ==
    ~forgot =>
        /\ \A t \in Threads : \A b \in told[t] : usedBP[b[1]] /\ hwBP[b[1]] = b[2]
        /\ \A t \in Threads : Setting(t) =>
              /\ usedBP[slot[t]] /\ hwBP[slot[t]] = bp[t]
              /\ \A b \in told[t] : b[1] # slot[t]
        /\ \A t \in Threads : pc[t] \in BpSteps => ~usedBP[slot[t]]
        /\ \A t \in Threads : pc[t] = "bp_mark" => hwBP[slot[t]] = bp[t]
        /\ \A t, u \in Threads : \A s \in Slots : Claims(t, s) /\ Claims(u, s) => t = u

TableInv == TableFollowed /\ SlotsAgree

LEMMA NextBpLocals == TypeOK /\ BpLocals /\ [Next]_vars => BpLocals'
<1> SUFFICES ASSUME TypeOK, BpLocals, [Next]_vars
             PROVE  BpLocals'
  OBVIOUS
<1> USE DEF TypeOK, BpLocals, Goto
<1>0. session.threads \subseteq Threads /\ NoBp \notin session.bps
  BY SessionAssumption DEF BpAddrs
<1>1. ASSUME NEW t \in Threads, ReadMem(t) \/ Scan(t) \/ Read(t) \/ Mark(t)
      PROVE  BpLocals'
  BY <1>1 DEF ReadMem, Scan, Read, Mark
<1>2. ASSUME NEW t \in Threads, Copy(t) \/ RemoveBpChip(t) \/ UsbFail(t)
      PROVE  BpLocals'
  BY <1>2 DEF Copy, RemoveBpChip, UsbFail, Return
<1>3. ASSUME NEW t \in Threads, SetBp(t)
      PROVE  BpLocals'
  BY <1>0, <1>3 DEF SetBp
<1>4. ASSUME NEW t \in Threads, SetBpChip(t) \/ SetBpMark(t) \/ RemoveBp(t)
      PROVE  BpLocals'
  BY <1>4 DEF SetBpChip, SetBpMark, RemoveBp
<1>5. ASSUME NEW t \in Threads,
             ResetTarget(t) \/ ResetDone(t) \/ FlashCommand(t) \/ FlashDone(t)
      PROVE  BpLocals'
  BY <1>5 DEF ResetTarget, ResetDone, FlashCommand, FlashDone
<1>6. CASE ClearCodeCache \/ ResetCommand \/ BpCommand \/ UNCHANGED vars
  BY <1>6 DEF ClearCodeCache, ResetCommand, BpCommand, vars
<1> QED
  BY <1>0, <1>1, <1>2, <1>3, <1>4, <1>5, <1>6 DEF Next, Thread

\* A step that touches neither the table nor the registers, starts no handler on a
\* slot and ends none that works on one.
LEMMA QuietTable ==
    ASSUME TableInv,
           UNCHANGED <<usedBP, hwBP, forgot>>,
           \A u \in Threads :
              /\ told'[u] \subseteq told[u]
              /\ pc'[u] \in BpSteps <=> pc[u] \in BpSteps
              /\ pc'[u] = "bp_mark" => pc[u] = "bp_mark"
              /\ Setting(u)' => Setting(u)
              /\ pc'[u] \in BpSteps \/ Setting(u)' => slot'[u] = slot[u] /\ bp'[u] = bp[u]
    PROVE  TableInv'
<1>1. \A u \in Threads, s \in Slots : Claims(u, s)' => Claims(u, s)
  BY DEF Claims
<1>2. \A s \in Slots : InFlight(s)' = InFlight(s)
  BY DEF InFlight
<1>3. TableFollowed'
  <2> SUFFICES ASSUME ~forgot
               PROVE  TableFollowed'
    BY DEF TableFollowed
  <2>1. \A u \in Threads : \A b \in told'[u] : b \in told[u]
    OBVIOUS
  <2>2. \A u \in Threads : \A b \in told'[u] : usedBP'[b[1]] /\ hwBP'[b[1]] = b[2]
    BY <2>1 DEF TableInv, TableFollowed
  <2>3. \A u \in Threads : Setting(u)' =>
           /\ usedBP'[slot'[u]] /\ hwBP'[slot'[u]] = bp'[u]
           /\ \A b \in told'[u] : b[1] # slot'[u]
    BY <2>1 DEF TableInv, TableFollowed
  <2>4. \A u \in Threads :
           /\ pc'[u] \in BpSteps => ~usedBP'[slot'[u]]
           /\ pc'[u] = "bp_mark" => hwBP'[slot'[u]] = bp'[u]
    BY DEF TableInv, TableFollowed, BpSteps
  <2>5. \A u, v \in Threads : \A s \in Slots : Claims(u, s)' /\ Claims(v, s)' => u = v
    BY <1>1 DEF TableInv, TableFollowed
  <2> QED
    BY <2>2, <2>3, <2>4, <2>5 DEF TableFollowed
<1>4. SlotsAgree'
  BY <1>2 DEF TableInv, SlotsAgree
<1> QED
  BY <1>3, <1>4 DEF TableInv

\* When no slot is used and no handler works on one, nobody has a say in any, and
\* all registers are off.
LEMMA NothingClaimed ==
    ASSUME TypeOK, TableInv, ~forgot, \A s \in Slots : ~usedBP[s] /\ InFlight(s) = {}
    PROVE  /\ \A u \in Threads : told[u] = {} /\ ~Setting(u) /\ pc[u] \notin BpSteps
           /\ \A s \in Slots : hwBP[s] = NoBp
<1>1. \A u \in Threads : slot[u] \in Slots /\ told[u] \in SUBSET (Slots \X BpAddrs)
  BY DEF TypeOK
<1>2. \A u \in Threads : pc[u] \notin BpSteps
  BY <1>1 DEF InFlight
<1>3. \A u \in Threads : ~Setting(u)
  BY <1>1 DEF TableInv, TableFollowed
<1>4. \A u \in Threads : told[u] = {}
  BY <1>1 DEF TableInv, TableFollowed
<1>5. \A s \in Slots : hwBP[s] = NoBp
  BY DEF TableInv, SlotsAgree
<1> QED
  BY <1>2, <1>3, <1>4, <1>5

LEMMA ClearedTable ==
    ASSUME \A u \in Threads : told'[u] = {} /\ ~Setting(u)' /\ pc'[u] \notin BpSteps,
           \A s \in Slots : ~usedBP'[s] /\ hwBP'[s] = NoBp
    PROVE  TableInv'
<1>1. \A u \in Threads, s \in Slots : ~Claims(u, s)'
  BY DEF Claims
<1>2. TableFollowed'
  <2>1. \A u \in Threads : pc'[u] # "bp_mark"
    BY DEF BpSteps
  <2>2. \A u \in Threads : \A b \in told'[u] : FALSE
    OBVIOUS
  <2>3. \A u \in Threads : pc'[u] \notin BpSteps /\ ~Setting(u)'
    OBVIOUS
  <2> QED
    BY <1>1, <2>1, <2>2, <2>3 DEF TableFollowed
<1>3. SlotsAgree'
  BY DEF SlotsAgree
<1> QED
  BY <1>2, <1>3 DEF TableInv

\* The answer to a client whose breakpoint is set.
LEMMA CopyTableInv ==
    ASSUME TypeOK, TableInv, NEW t \in Threads, Copy(t)
    PROVE  TableInv'
<1>1. UNCHANGED <<usedBP, hwBP, forgot>> /\ pc[t] = "copy" /\ pc'[t] = "idle"
  BY DEF Copy, Return, Goto, TypeOK
<1>2. \A u \in Threads : u # t =>
         pc'[u] = pc[u] /\ slot'[u] = slot[u] /\ bp'[u] = bp[u] /\ told'[u] = told[u]
  BY DEF Copy, Return, Goto, TypeOK
<1>3. ~Setting(t)' /\ pc'[t] \notin BpSteps /\ pc[t] \notin BpSteps
  BY <1>1 DEF Setting, FillSteps, BpSteps
<1>4. CASE bp[t] = NoBp
  <2>1. told' = told
    BY <1>4 DEF Copy
  <2> QED
    BY <1>1, <1>2, <1>3, <2>1, QuietTable DEF Setting
<1>5. CASE bp[t] # NoBp
  <2>1. Setting(t) /\ told'[t] = told[t] \cup {<<slot[t], bp[t]>>}
    BY <1>1, <1>5 DEF Copy, Setting, FillSteps, TypeOK
  <2>2. \A u \in Threads, s \in Slots : Claims(u, s)' => Claims(u, s)
    BY <1>2, <1>3, <2>1 DEF Claims, Setting
  <2>3. \A s \in Slots : InFlight(s)' = InFlight(s)
    BY <1>2, <1>3 DEF InFlight
  <2>4. SlotsAgree'
    BY <1>1, <2>3 DEF TableInv, SlotsAgree
  <2>5. TableFollowed'
    <3> SUFFICES ASSUME ~forgot
                 PROVE  TableFollowed'
      BY <1>1 DEF TableFollowed
    <3>1. \A u \in Threads : \A b \in told'[u] : usedBP[b[1]] /\ hwBP[b[1]] = b[2]
      BY <1>2, <2>1 DEF TableInv, TableFollowed
    <3>2. \A u \in Threads : Setting(u)' => u # t
      BY <1>3
    <3> QED
      BY <1>1, <1>2, <1>3, <2>2, <3>1, <3>2 DEF TableInv, TableFollowed, Setting
  <2> QED
    BY <2>4, <2>5 DEF TableInv
<1> QED
  BY <1>4, <1>5

\* The first free slot is taken: nobody has a say in it.
LEMMA SetBpTableInv ==
    ASSUME TypeOK, BpLocals, TableInv, NEW t \in Threads, SetBp(t)
    PROVE  TableInv'
<1> DEFINE s0 == FirstOf(FreeSlots)
<1> SUFFICES ASSUME ~forgot'
             PROVE  TableInv'
  BY DEF TableInv, TableFollowed, SlotsAgree
<1>1. /\ UNCHANGED <<usedBP, hwBP, told>> /\ ~forgot /\ InFlight(s0) = {}
      /\ s0 \in Slots /\ ~usedBP[s0] /\ FreeSlots # {}
  BY FirstFree DEF SetBp
<1> HIDE DEF s0
<1>2. /\ pc[t] = "idle" /\ pc'[t] = "bp_chip" /\ slot'[t] = s0
      /\ \A u \in Threads : u # t => pc'[u] = pc[u] /\ slot'[u] = slot[u] /\ bp'[u] = bp[u]
  BY DEF SetBp, Goto, TypeOK, s0
<1>3. \A u \in Threads : ~Claims(u, s0)
  <2>1. \A u \in Threads : ~(pc[u] \in BpSteps /\ slot[u] = s0)
    BY <1>1 DEF InFlight
  <2> QED
    BY <1>1, <2>1 DEF Claims, TableInv, TableFollowed
<1>4. ~Setting(t)' /\ pc'[t] \in BpSteps /\ pc[t] \notin BpSteps
  BY <1>2 DEF Setting, FillSteps, BpSteps
<1>5. \A u \in Threads, s \in Slots : Claims(u, s)' => Claims(u, s) \/ (u = t /\ s = s0)
  BY <1>1, <1>2, <1>4 DEF Claims, Setting
<1>6. TableFollowed'
  <2>1. \A u, v \in Threads : \A s \in Slots : Claims(u, s)' /\ Claims(v, s)' => u = v
    BY <1>1, <1>3, <1>5 DEF TableInv, TableFollowed
  <2> QED
    BY <1>1, <1>2, <1>4, <2>1 DEF TableInv, TableFollowed, Setting
<1>7. SlotsAgree'
  <2>1. \A s \in Slots : InFlight(s)' = {} => InFlight(s) = {}
    BY <1>2, <1>4 DEF InFlight
  <2> QED
    BY <1>1, <2>1 DEF TableInv, SlotsAgree
<1> QED
  BY <1>6, <1>7 DEF TableInv

LEMMA SetBpChipTableInv ==
    ASSUME TypeOK, BpLocals, TableInv, NEW t \in Threads, SetBpChip(t)
    PROVE  TableInv'
<1> SUFFICES ASSUME ~forgot'
             PROVE  TableInv'
  BY DEF TableInv, TableFollowed, SlotsAgree
<1>1. /\ UNCHANGED <<usedBP, told, slot, bp>> /\ ~forgot
      /\ pc[t] = "bp_chip" /\ pc'[t] = "bp_mark" /\ slot[t] \in Slots
      /\ \A u \in Threads : u # t => pc'[u] = pc[u]
      /\ hwBP'[slot[t]] = bp[t] /\ \A s \in Slots : s # slot[t] => hwBP'[s] = hwBP[s]
  BY DEF SetBpChip, Goto, TypeOK
<1>2. \A u \in Threads : /\ pc'[u] \in BpSteps <=> pc[u] \in BpSteps
                         /\ Setting(u)' <=> Setting(u)
  BY <1>1 DEF Setting, BpSteps, FillSteps
<1>3. \A u \in Threads, s \in Slots : Claims(u, s)' <=> Claims(u, s)
  BY <1>1, <1>2 DEF Claims
<1>4. ~usedBP[slot[t]] /\ Claims(t, slot[t])
  BY <1>1 DEF TableInv, TableFollowed, BpSteps, Claims
<1>5. \A u \in Threads : slot[u] \in Slots /\ \A b \in told[u] : b[1] \in Slots
  BY DEF TypeOK
<1>6. TableFollowed'
  <2>1. \A u \in Threads : pc'[u] = "bp_mark" => hwBP'[slot[u]] = bp[u]
    <3> SUFFICES ASSUME NEW u \in Threads, u # t, pc[u] = "bp_mark"
                 PROVE  hwBP'[slot[u]] = bp[u]
      BY <1>1
    <3>1. Claims(u, slot[u]) /\ hwBP[slot[u]] = bp[u]
      BY <1>1 DEF Claims, BpSteps, TableInv, TableFollowed
    <3>2. slot[u] # slot[t]
      BY <1>1, <1>4, <1>5, <3>1 DEF TableInv, TableFollowed
    <3> QED
      BY <1>1, <1>5, <3>1, <3>2
  <2> QED
    BY <1>1, <1>2, <1>3, <1>4, <1>5, <2>1 DEF TableInv, TableFollowed
<1>7. SlotsAgree'
  <2>1. \A s \in Slots : InFlight(s)' = InFlight(s)
    BY <1>1, <1>2 DEF InFlight
  <2>2. InFlight(slot[t]) # {}
    BY <1>1 DEF InFlight, BpSteps
  <2> QED
    BY <1>1, <2>1, <2>2 DEF TableInv, SlotsAgree
<1> QED
  BY <1>6, <1>7 DEF TableInv

LEMMA SetBpMarkTableInv ==
    ASSUME TypeOK, BpLocals, TableInv, NEW t \in Threads, SetBpMark(t)
    PROVE  TableInv'
<1> SUFFICES ASSUME ~forgot'
             PROVE  TableInv'
  BY DEF TableInv, TableFollowed, SlotsAgree
<1>1. /\ UNCHANGED <<hwBP, told, slot, bp>> /\ ~forgot
      /\ pc[t] = "bp_mark" /\ pc'[t] = "scan" /\ slot[t] \in Slots /\ bp[t] # NoBp
      /\ \A u \in Threads : u # t => pc'[u] = pc[u]
      /\ usedBP'[slot[t]] /\ \A s \in Slots : s # slot[t] => usedBP'[s] = usedBP[s]
  BY DEF SetBpMark, Taken, Goto, TypeOK, BpLocals
<1>2. /\ pc'[t] \notin BpSteps /\ pc[t] \in BpSteps /\ Setting(t)' /\ ~Setting(t)
      /\ \A u \in Threads : u # t => (Setting(u)' <=> Setting(u))
  BY <1>1 DEF Setting, BpSteps, FillSteps
<1>3. \A u \in Threads, s \in Slots : Claims(u, s)' <=> Claims(u, s)
  BY <1>1, <1>2 DEF Claims
<1>4. ~usedBP[slot[t]] /\ Claims(t, slot[t]) /\ hwBP[slot[t]] = bp[t]
  BY <1>1, <1>2 DEF TableInv, TableFollowed, Claims
<1>5. \A u \in Threads : slot[u] \in Slots /\ \A b \in told[u] : b[1] \in Slots
  BY DEF TypeOK
<1>6. TableFollowed'
  <2>1. \A u \in Threads : pc'[u] \in BpSteps => u # t /\ ~usedBP'[slot[u]]
    <3> SUFFICES ASSUME NEW u \in Threads, pc'[u] \in BpSteps
                 PROVE  u # t /\ ~usedBP'[slot[u]]
      OBVIOUS
    <3>1. u # t /\ pc[u] \in BpSteps
      BY <1>1, <1>2
    <3>2. Claims(u, slot[u]) /\ ~usedBP[slot[u]]
      BY <1>1, <3>1 DEF Claims, TableInv, TableFollowed
    <3>3. slot[u] # slot[t]
      BY <1>1, <1>4, <1>5, <3>1, <3>2 DEF TableInv, TableFollowed
    <3> QED
      BY <1>1, <1>5, <3>1, <3>2, <3>3
  <2>2. \A u \in Threads : \A b \in told[u] : b[1] # slot[t] /\ usedBP'[b[1]]
    BY <1>1, <1>4, <1>5 DEF TableInv, TableFollowed
  <2>3. \A u \in Threads : Setting(u)' => usedBP'[slot[u]] /\ hwBP[slot[u]] = bp[u]
    BY <1>1, <1>2, <1>4, <1>5 DEF TableInv, TableFollowed
  <2> QED
    BY <1>1, <1>2, <1>3, <2>1, <2>2, <2>3 DEF TableInv, TableFollowed
<1>7. SlotsAgree'
  <2>1. \A s \in Slots : s # slot[t] => InFlight(s)' = InFlight(s)
    BY <1>1, <1>2 DEF InFlight
  <2> QED
    BY <1>1, <1>4, <2>1 DEF TableInv, SlotsAgree
<1> QED
  BY <1>6, <1>7 DEF TableInv

LEMMA RemoveBpTableInv ==
    ASSUME TypeOK, BpLocals, TableInv, NEW t \in Threads, RemoveBp(t)
    PROVE  TableInv'
<1> SUFFICES ASSUME ~forgot'
             PROVE  TableInv'
  BY DEF TableInv, TableFollowed, SlotsAgree
<1>1. PICK b \in told[t] : /\ slot' = [slot EXCEPT ![t] = b[1]]
                           /\ told' = [told EXCEPT ![t] = {x \in @ : x[1] # b[1]}]
                           /\ usedBP' = [usedBP EXCEPT ![b[1]] = FALSE]
                           /\ forgot' = (forgot \/ InFlight(b[1]) # {})
  BY DEF RemoveBp
<1>2. \A u \in Threads : slot[u] \in Slots /\ \A c \in told[u] : c[1] \in Slots
  BY DEF TypeOK
<1> DEFINE s0 == b[1]
<1>3. /\ s0 \in Slots /\ ~forgot /\ InFlight(s0) = {} /\ UNCHANGED <<hwBP, bp>>
      /\ pc[t] = "idle" /\ pc'[t] = "rm_chip" /\ slot'[t] = s0
      /\ told'[t] = {x \in told[t] : x[1] # s0}
      /\ ~usedBP'[s0] /\ \A s \in Slots : s # s0 => usedBP'[s] = usedBP[s]
      /\ \A u \in Threads : u # t => pc'[u] = pc[u] /\ slot'[u] = slot[u] /\ told'[u] = told[u]
  <2>1. s0 \in Slots /\ ~forgot /\ InFlight(s0) = {}
    BY <1>1, <1>2
  <2>2. UNCHANGED <<hwBP, bp>> /\ pc[t] = "idle" /\ pc'[t] = "rm_chip"
    BY DEF RemoveBp, Goto, TypeOK
  <2>3. \A u \in Threads : u # t => pc'[u] = pc[u] /\ slot'[u] = slot[u] /\ told'[u] = told[u]
    BY <1>1 DEF RemoveBp, Goto, TypeOK
  <2>4. slot'[t] = s0 /\ told'[t] = {x \in told[t] : x[1] # s0}
    BY <1>1 DEF TypeOK
  <2>5. ~usedBP'[s0] /\ \A s \in Slots : s # s0 => usedBP'[s] = usedBP[s]
    BY <1>1, <2>1 DEF TypeOK
  <2> QED
    BY <2>1, <2>2, <2>3, <2>4, <2>5
<1>4. Claims(t, s0)
  BY DEF Claims
<1> HIDE DEF s0
<1>5. /\ pc[t] \notin BpSteps /\ pc'[t] \in BpSteps /\ ~Setting(t) /\ ~Setting(t)'
      /\ \A u \in Threads : u # t => (Setting(u)' <=> Setting(u))
  BY <1>3 DEF Setting, BpSteps, FillSteps
<1>6. \A u \in Threads, s \in Slots : Claims(u, s)' => Claims(u, s)
  BY <1>3, <1>4, <1>5 DEF Claims
<1>7. \A u \in Threads : u # t => ~Claims(u, s0)
  BY <1>3, <1>4 DEF TableInv, TableFollowed
<1>8. TableFollowed'
  <2>1. \A u \in Threads : \A c \in told'[u] : c \in told[u] /\ c[1] # s0 /\ c[1] \in Slots
    BY <1>2, <1>3, <1>7 DEF Claims
  <2>2. \A u \in Threads : Setting(u)' => u # t /\ slot[u] # s0
    BY <1>3, <1>5, <1>7 DEF Claims
  <2>3. \A u \in Threads : pc'[u] \in BpSteps => ~usedBP'[slot'[u]]
    BY <1>2, <1>3, <1>5 DEF TableInv, TableFollowed
  <2> QED
    BY <1>2, <1>3, <1>5, <1>6, <2>1, <2>2, <2>3 DEF TableInv, TableFollowed
<1>9. SlotsAgree'
  <2>1. \A s \in Slots : InFlight(s)' = {} => s # s0 /\ InFlight(s) = {}
    BY <1>3, <1>5 DEF InFlight
  <2> QED
    BY <1>3, <2>1 DEF TableInv, SlotsAgree
<1> QED
  BY <1>8, <1>9 DEF TableInv

LEMMA RemoveBpChipTableInv ==
    ASSUME TypeOK, BpLocals, TableInv, NEW t \in Threads, RemoveBpChip(t)
    PROVE  TableInv'
<1> SUFFICES ASSUME ~forgot'
             PROVE  TableInv'
  BY DEF TableInv, TableFollowed, SlotsAgree
<1> DEFINE s0 == slot[t]
<1>1. /\ UNCHANGED <<usedBP, told>> /\ ~forgot
      /\ pc[t] = "rm_chip" /\ pc'[t] = "idle" /\ s0 \in Slots
      /\ hwBP'[s0] = NoBp /\ \A s \in Slots : s # s0 => hwBP'[s] = hwBP[s]
      /\ \A u \in Threads : u # t => pc'[u] = pc[u] /\ slot'[u] = slot[u] /\ bp'[u] = bp[u]
  BY DEF RemoveBpChip, Off, Return, Goto, TypeOK
<1>2. \A u \in Threads : slot[u] \in Slots /\ \A c \in told[u] : c[1] \in Slots
  BY DEF TypeOK
<1>3. /\ pc[t] \in BpSteps /\ pc'[t] \notin BpSteps /\ ~Setting(t) /\ ~Setting(t)'
      /\ \A u \in Threads : u # t => (Setting(u)' <=> Setting(u))
  BY <1>1 DEF Setting, BpSteps, FillSteps
<1>4. ~usedBP[s0] /\ Claims(t, s0)
  BY <1>1, <1>3 DEF Claims, TableInv, TableFollowed
<1> HIDE DEF s0
<1>5. \A u \in Threads, s \in Slots : Claims(u, s)' => Claims(u, s)
  BY <1>1, <1>3 DEF Claims
<1>6. \A u \in Threads : u # t => ~Claims(u, s0)
  BY <1>1, <1>4 DEF TableInv, TableFollowed
<1>7. TableFollowed'
  <2>1. \A u \in Threads : \A c \in told[u] : c[1] # s0
    BY <1>1, <1>4 DEF TableInv, TableFollowed
  <2>2. \A u \in Threads : Setting(u)' => u # t /\ slot[u] # s0
    BY <1>3, <1>6 DEF Claims
  <2>3. \A u \in Threads : pc'[u] = "bp_mark" => u # t /\ pc[u] = "bp_mark" /\ slot[u] # s0
    BY <1>1, <1>6 DEF Claims, BpSteps
  <2> QED
    BY <1>1, <1>2, <1>3, <1>5, <2>1, <2>2, <2>3 DEF TableInv, TableFollowed
<1>8. SlotsAgree'
  <2>1. \A s \in Slots : s # s0 => InFlight(s)' = InFlight(s)
    BY <1>1, <1>3 DEF InFlight, s0
  <2> QED
    BY <1>1, <1>4, <2>1 DEF TableInv, SlotsAgree
<1> QED
  BY <1>7, <1>8 DEF TableInv

\* The table is emptied, or the registers may be: nothing is forgotten only if
\* there was nothing in them.
LEMMA ResetTableInv ==
    ASSUME TypeOK, TableInv,
           ~forgot' => ~forgot /\ ~ \E s \in Slots : usedBP[s] \/ InFlight(s) # {},
           usedBP' \in {usedBP, [s \in Slots |-> FALSE]},
           hwBP' \in {hwBP, [s \in Slots |-> NoBp]},
           told' = told, bp' = bp,
           \A u \in Threads : pc'[u] \in FillSteps \cup BpSteps => pc'[u] = pc[u]
    PROVE  TableInv'
<1> SUFFICES ASSUME ~forgot'
             PROVE  TableInv'
  BY DEF TableInv, TableFollowed, SlotsAgree
<1>1. /\ \A u \in Threads : told[u] = {} /\ ~Setting(u) /\ pc[u] \notin BpSteps
      /\ \A s \in Slots : hwBP[s] = NoBp /\ ~usedBP[s]
  BY NothingClaimed
<1>2. \A u \in Threads : ~Setting(u)' /\ pc'[u] \notin BpSteps
  BY <1>1 DEF Setting
<1>3. \A s \in Slots : hwBP'[s] = NoBp /\ ~usedBP'[s]
  BY <1>1
<1> QED
  BY <1>1, <1>2, <1>3, ClearedTable

\* A connection whose message fails: with a breakpoint in the message the table is
\* not followed any longer.
LEMMA UsbFailTableInv ==
    ASSUME TypeOK, TableInv, NEW t \in Threads, UsbFail(t)
    PROVE  TableInv'
<1> SUFFICES ASSUME ~forgot'
             PROVE  TableInv'
  BY DEF TableInv, TableFollowed, SlotsAgree
<1>1. pc[t] \notin BpSteps /\ UNCHANGED <<usedBP, hwBP, forgot>>
  <2>1. forgot' = (forgot \/ pc[t] \in BpSteps) /\ forgot \in BOOLEAN /\ usedBP' = usedBP
    BY DEF UsbFail, TypeOK
  <2>2. pc[t] \notin BpSteps /\ forgot' = forgot
    BY <2>1
  <2>3. pc[t] # "bp_chip" /\ pc[t] # "rm_chip"
    BY <2>2 DEF BpSteps
  <2> QED
    BY <2>1, <2>2, <2>3 DEF UsbFail
<1>2. /\ pc'[t] = "idle" /\ told'[t] = {}
      /\ \A u \in Threads : u # t =>
            pc'[u] = pc[u] /\ slot'[u] = slot[u] /\ bp'[u] = bp[u] /\ told'[u] = told[u]
  BY DEF UsbFail, Return, Goto, TypeOK
<1>3. ~Setting(t)' /\ pc'[t] \notin BpSteps
  BY <1>2 DEF Setting, FillSteps, BpSteps
<1> QED
  BY <1>1, <1>2, <1>3, QuietTable DEF Setting

LEMMA NextTableInv == TypeOK /\ BpLocals /\ TableInv /\ [Next]_vars => TableInv'
<1> SUFFICES ASSUME TypeOK, BpLocals, TableInv, [Next]_vars
             PROVE  TableInv'
  OBVIOUS
<1>1. ASSUME NEW t \in Threads, ReadMem(t) \/ Scan(t) \/ Read(t) \/ Mark(t)
      PROVE  TableInv'
  <2>1. /\ UNCHANGED <<usedBP, hwBP, forgot, told, slot, bp>>
        /\ \A u \in Threads : u # t => pc'[u] = pc[u]
        /\ pc'[t] \in FillSteps
        /\ pc[t] \in FillSteps \/ bp[t] = NoBp
        /\ pc[t] \notin BpSteps
    BY <1>1 DEF ReadMem, Scan, Read, Mark, Goto, TypeOK, BpLocals, FillSteps, BpSteps
  <2>2. pc'[t] \notin BpSteps /\ pc'[t] # "bp_mark"
    BY <2>1 DEF FillSteps, BpSteps
  <2> QED
    BY <2>1, <2>2, QuietTable DEF Setting
<1>2. ASSUME NEW t \in Threads, Copy(t)
      PROVE  TableInv'
  BY <1>2, CopyTableInv
<1>3. ASSUME NEW t \in Threads, SetBp(t)
      PROVE  TableInv'
  BY <1>3, SetBpTableInv
<1>4. ASSUME NEW t \in Threads, SetBpChip(t)
      PROVE  TableInv'
  BY <1>4, SetBpChipTableInv
<1>5. ASSUME NEW t \in Threads, SetBpMark(t)
      PROVE  TableInv'
  BY <1>5, SetBpMarkTableInv
<1>6. ASSUME NEW t \in Threads, RemoveBp(t)
      PROVE  TableInv'
  BY <1>6, RemoveBpTableInv
<1>7. ASSUME NEW t \in Threads, RemoveBpChip(t)
      PROVE  TableInv'
  BY <1>7, RemoveBpChipTableInv
<1>8. ASSUME NEW t \in Threads, UsbFail(t)
      PROVE  TableInv'
  BY <1>8, UsbFailTableInv
<1>9. CASE ClearCodeCache \/ ResetCommand
  BY <1>9, ResetTableInv DEF ClearCodeCache, ResetCommand, InitCodeCache, ResetRegisters
<1>10. ASSUME NEW t \in Threads, ResetTarget(t) \/ ResetDone(t)
       PROVE  TableInv'
  <2>1. \A u \in Threads : pc'[u] \in FillSteps \cup BpSteps => pc'[u] = pc[u]
    BY <1>10 DEF ResetTarget, ResetDone, Goto, TypeOK, FillSteps, BpSteps
  <2> QED
    BY <1>10, <2>1, ResetTableInv DEF ResetTarget, ResetDone, InitCodeCache, ResetRegisters
<1>11. ASSUME NEW t \in Threads, FlashCommand(t) \/ FlashDone(t)
       PROVE  TableInv'
  <2>1. \A u \in Threads : pc'[u] \in FillSteps \cup BpSteps => pc'[u] = pc[u]
    BY <1>11 DEF FlashCommand, FlashDone, Goto, TypeOK, FillSteps, BpSteps
  <2> QED
    BY <1>11, <2>1, ResetTableInv DEF FlashCommand, FlashDone, ResetRegisters
<1>12. CASE BpCommand
  BY <1>12 DEF BpCommand, TableInv, TableFollowed, SlotsAgree
<1>13. CASE UNCHANGED vars
  BY <1>13, QuietTable DEF vars, Setting
<1>14. session.threads \subseteq Threads
  BY SessionAssumption DEF TypeOK
<1> QED
  BY <1>1, <1>2, <1>3, <1>4, <1>5, <1>6, <1>7, <1>8, <1>9, <1>10, <1>11, <1>12, <1>13, <1>14
  DEF Next, Thread

LEMMA TableInvAlways == Spec => []TableInv
<1>1. Init => BpLocals /\ TableInv
  <2> SUFFICES ASSUME Init
               PROVE  BpLocals /\ TableInv
    OBVIOUS
  <2>1. \A t \in Threads : ~Setting(t) /\ told[t] = {} /\ pc[t] = "idle" /\ bp[t] = NoBp
    BY DEF Init, Setting, FillSteps
  <2>2. \A t \in Threads : pc[t] \notin BpSteps
    BY <2>1 DEF BpSteps
  <2>3. TableFollowed
    BY <2>1, <2>2 DEF TableFollowed, Claims
  <2>4. SlotsAgree
    BY DEF Init, SlotsAgree
  <2> QED
    BY <2>1, <2>3, <2>4 DEF BpLocals, TableInv
<1>2. TypeOK /\ BpLocals /\ TableInv /\ [Next]_vars => (BpLocals /\ TableInv)'
  BY NextBpLocals, NextTableInv
<1> QED
  BY <1>1, <1>2, TypeCorrect, PTL DEF Spec

\* A breakpoint a client has been told of is armed until that client removes it,
\* for any number of connections and of slots (noICEHandler, FN_SET_BYTES).
THEOREM ToldBreakpointsAreArmed == Spec => []BreakpointsArmed
<1>1. TableInv => BreakpointsArmed
  BY DEF TableInv, TableFollowed, BreakpointsArmed
<1> QED
  BY <1>1, TableInvAlways, PTL

\* A slot nobody works on is free in the table exactly if its register is off
\* (noICEHandler, FN_SET_BYTES).
THEOREM TableAgreesWithChip == Spec => []SlotsAgree
  BY TableInvAlways, PTL DEF TableInv

=============================================================================
