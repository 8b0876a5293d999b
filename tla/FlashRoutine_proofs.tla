------------------------ MODULE FlashRoutine_proofs ------------------------
(***************************************************************************)
(* Proofs about FlashRoutine: what the machine code of writeFlashPage      *)
(* does, for each of the 64 pages, with and without the page erase, for    *)
(* every content of the buffer.                                            *)
(***************************************************************************)
EXTENDS FlashRoutine, SequenceTheorems, WellFoundedInduction, TLAPS

-----------------------------------------------------------------------------
(* The invariant: what holds at each instruction of the routine.            *)

\* pc is so many bytes behind the start of the routine
Pc(o) == core.pc = CodeAddr + o

\* the instruction behind the page erase
K == IF job.erase THEN 17 ELSE 9

\* The RAM has the page and the routine.
Loaded ==
    /\ \A i \in 1 .. PageSize : ram[DataAddr + i - 1] = Buff[i]
    /\ \A i \in 1 .. Len(Routine[job]) : ram[CodeAddr + i - 1] = Routine[job][i]

Quiet == busy = "no" /\ latch = <<>>

\* w words of the page have been written
OnPage(w) == faddr = NWords * job.page + w

\* They are the first w words of the buffer, and the others are erased.
Filled(w) ==
    job.erase \/ job.blank =>
        \A v \in Words : cells[v] = IF v < w THEN DataWords[v] ELSE Erased

\* n more words are to be written, by the counters of the two loops
Left(n) == 256 * (core.r[7] - 1) + (IF core.r[6] = 0 THEN 256 ELSE core.r[6]) = n

\* n bytes of word w have been given to the controller
Latched(w, n) == Len(latch) = n /\ \A b \in 1 .. n : latch[b] = Buff[WordSize * w + b]

\* the data pointer is behind n bytes of word w
Source(w, n) == core.dptr = DataAddr + WordSize * w + n

Opening ==
    /\ Quiet /\ ~writing
    /\ job.blank => \A v \in Words : cells[v] = Erased
    /\ \/ Pc(0) /\ faddr = 0
       \/ (Pc(3) \/ Pc(6) \/ (job.erase /\ Pc(9))) /\ OnPage(0)

Erasing ==
    /\ job.erase /\ latch = <<>> /\ ~writing /\ OnPage(0)
    /\ busy \in {"no", "erase"}
    /\ busy = "no" => Filled(0)
    /\ \/ Pc(12)
       \/ Pc(14) /\ core.acc \in {0, 128} /\ (core.acc = 0 => busy = "no")

SettingUp ==
    /\ Quiet /\ ~writing /\ OnPage(0) /\ Filled(0)
    /\ \/ Pc(K)
       \/ Pc(K + 3) /\ Source(0, 0)
       \/ Pc(K + 5) /\ Source(0, 0) /\ core.r[7] = 2
       \/ Pc(K + 7) /\ Source(0, 0) /\ core.r[7] = 2 /\ core.r[6] = 0

\* i bytes of a word have been given when its loop begins again
Copying(w) ==
    /\ OnPage(w) /\ writing /\ busy = "no" /\ Left(NWords - w) /\ Filled(w)
    /\ \/ Pc(K + 10) /\ Latched(w, 0) /\ Source(w, 0)
       \/ \E i \in 0 .. 3 :
             /\ core.r[5] = WordSize - i
             /\ \/ Pc(K + 12) /\ Latched(w, i) /\ Source(w, i)
                \/ Pc(K + 13) /\ Latched(w, i) /\ Source(w, i)
                              /\ core.acc = Buff[WordSize * w + i + 1]
                \/ Pc(K + 14) /\ Latched(w, i) /\ Source(w, i + 1)
                              /\ core.acc = Buff[WordSize * w + i + 1]
                \/ Pc(K + 16) /\ i < 3 /\ Latched(w, i + 1) /\ Source(w, i + 1)

\* Word w has been given; the controller may have written it or not.
Waiting(w) ==
    /\ writing /\ Left(NWords - w) /\ Source(w, WordSize)
    /\ \/ busy = "word" /\ OnPage(w) /\ Filled(w) /\ Latched(w, WordSize)
       \/ Quiet /\ OnPage(w + 1) /\ Filled(w + 1)
    /\ \/ Pc(K + 16) /\ core.r[5] = 1
       \/ Pc(K + 18)
       \/ Pc(K + 20) /\ core.acc \in {0, 64} /\ (core.acc = 0 => busy = "no")

Counting(w) ==
    /\ OnPage(w + 1) /\ writing /\ Quiet /\ Filled(w + 1) /\ Source(w, WordSize)
    /\ \/ Pc(K + 23) /\ Left(NWords - w)
       \/ Pc(K + 25) /\ core.r[6] = 0 /\ 256 * (core.r[7] - 1) = NWords - (w + 1)

Complete == writing /\ Quiet /\ OnPage(NWords) /\ Filled(NWords)

Closing == Complete /\ (Pc(K + 27) \/ Pc(K + 30))

AtWork ==
    \/ Opening \/ Erasing \/ SettingUp \/ Closing
    \/ \E w \in Words : Copying(w) \/ Waiting(w) \/ Counting(w)

\* n bytes of what is sent are in the RAM
Sent(addr, bytes, n) == \A i \in 1 .. n : ram[addr + i - 1] = bytes[i]

\* What the host has done so far, as long as nothing has run.
Loading ==
    /\ ~core.runs /\ Quiet /\ ~writing /\ faddr = 0
    /\ job.blank => \A v \in Words : cells[v] = Erased
    /\ host \notin {"wait", "done"}
    /\ host = "send_data" =>
          sent < PageSize /\ core.dptr = DataAddr + sent /\ Sent(DataAddr, Buff, sent)
    /\ host \in {"routine", "send_routine"} => Sent(DataAddr, Buff, PageSize)
    /\ host = "send_routine" =>
          /\ sent < Len(Routine[job]) /\ core.dptr = CodeAddr + sent
          /\ Sent(CodeAddr, Routine[job], sent)
    /\ host \in {"map", "jump", "resume"} => Loaded
    /\ host \in {"jump", "resume"} => memctr = 81
    /\ host = "resume" => Pc(0)

RoutineInv ==
    /\ latch \in Seq(Byte) /\ cells = [v \in Words |-> cells[v]]
    /\ strays = {}
    /\ \/ Loading
       \/ core.runs /\ host \in {"wait", "failed"} /\ memctr = 81 /\ Loaded /\ AtWork
       \/ ~core.runs /\ host \in {"wait", "done", "failed"} /\ Complete

-----------------------------------------------------------------------------
(* The bytes of the routine.                                                *)

LEMMA AllNumbers ==
    ASSUME NEW S, 0 \in S, \A n \in S \cap Nat : n + 1 \in S
    PROVE  Nat \subseteq S
<1> SUFFICES ASSUME Nat \ S # {}
             PROVE  FALSE
  OBVIOUS
<1> DEFINE R == {ss \in Nat \X Nat : ss[1] < ss[2]}
           T == Nat \ S
<1>1. IsWellFoundedOn(R, Nat)
  BY NatLessThanWellFounded, Zenon DEF OpToRel
<1>2. T \in SUBSET Nat /\ T # {}
  OBVIOUS
<1>3. PICK m \in T : \A y \in T : ~ (<<y, m>> \in R)
  <2> HIDE DEF R, T
  <2> QED
    BY <1>1, <1>2, WFMin, Zenon
<1>4. m \in Nat /\ m \notin S /\ m # 0 /\ m - 1 \in Nat
  OBVIOUS
<1>5. m - 1 \notin S
  <2>1. (m - 1) + 1 = m
    BY <1>4
  <2> QED
    BY <1>4, <2>1
<1>6. m - 1 \in T /\ <<m - 1, m>> \in R
  BY <1>4, <1>5
<1> QED
  BY <1>3, <1>6

\* g gives the first instructions of c, one behind the other, up to n.
Joining(g, c, n) ==
    /\ g \in [0 .. n -> Seq(Nat)]
    /\ g[0] = <<>>
    /\ \A i \in 1 .. n : g[i] = g[i - 1] \o c[i]

LEMMA JoiningExists ==
    ASSUME NEW c \in Seq(Seq(Nat))
    PROVE  \A n \in 0 .. Len(c) : \E g : Joining(g, c, n)
<1> DEFINE S == {n \in Nat : n <= Len(c) => \E g : Joining(g, c, n)}
<1>1. 0 \in S
  <2>1. Joining([i \in 0 .. 0 |-> <<>>], c, 0)
    BY DEF Joining
  <2> QED
    BY <2>1
<1>2. ASSUME NEW n \in S
      PROVE  n + 1 \in S
  <2> SUFFICES ASSUME n + 1 <= Len(c)
               PROVE  \E g : Joining(g, c, n + 1)
    OBVIOUS
  <2>1. PICK g : Joining(g, c, n)
    OBVIOUS
  <2>2. PICK h : h = [i \in 0 .. n + 1 |-> IF i = n + 1 THEN g[n] \o c[n + 1] ELSE g[i]]
    OBVIOUS
  <2>3. n \in Nat /\ c[n + 1] \in Seq(Nat) /\ n \in 0 .. n /\ g[n] \in Seq(Nat)
    BY <2>1 DEF Joining
  <2>4. g[n] \o c[n + 1] \in Seq(Nat)
    BY <2>3
  <2>5. h \in [0 .. n + 1 -> Seq(Nat)] /\ h[0] = <<>>
    BY <2>1, <2>2, <2>3, <2>4 DEF Joining
  <2>6. ASSUME NEW i \in 1 .. n + 1
        PROVE  h[i] = h[i - 1] \o c[i]
    <3>1. i - 1 \in 0 .. n /\ i \in 0 .. n + 1 /\ h[i - 1] = g[i - 1]
      BY <2>2, <2>3
    <3>2. CASE i = n + 1
      <4>1. i - 1 = n
        BY <2>3, <3>2
      <4>2. h[i] = g[n] \o c[n + 1]
        BY <2>2, <3>1, <3>2
      <4> QED
        BY <3>1, <3>2, <4>1, <4>2, Zenon
    <3>3. CASE i # n + 1
      <4>1. i \in 1 .. n
        BY <2>3, <3>3
      <4>2. h[i] = g[i]
        BY <2>2, <3>1, <3>3
      <4>3. g[i] = g[i - 1] \o c[i]
        BY <2>1, <4>1 DEF Joining
      <4> QED
        BY <3>1, <4>2, <4>3, Zenon
    <3> QED
      BY <3>2, <3>3
  <2> QED
    BY <2>5, <2>6 DEF Joining
<1>3. Nat \subseteq S
  <2> HIDE DEF S
  <2> QED
    BY <1>1, <1>2, AllNumbers
<1> QED
  BY <1>3

LEMMA BytesJoin ==
    ASSUME NEW c \in Seq(Seq(Nat))
    PROVE  Joining(BytesUpTo(c), c, Len(c))
<1> DEFINE Rec(s) == s = [i \in 0 .. Len(c) |-> IF i = 0 THEN <<>> ELSE s[i - 1] \o c[i]]
<1>1. PICK g : Joining(g, c, Len(c))
  BY JoiningExists
<1>2. Rec(g)
  <2>1. g = [i \in 0 .. Len(c) |-> g[i]]
    BY <1>1 DEF Joining
  <2>2. ASSUME NEW i \in 0 .. Len(c)
        PROVE  g[i] = IF i = 0 THEN <<>> ELSE g[i - 1] \o c[i]
    <3>1. CASE i = 0
      BY <1>1, <3>1, Zenon DEF Joining
    <3>2. CASE i # 0
      <4>1. i \in 1 .. Len(c)
        BY <3>2
      <4>2. g[i] = g[i - 1] \o c[i]
        BY <1>1, <4>1 DEF Joining
      <4> QED
        BY <3>2, <4>2, Zenon
    <3> QED
      BY <3>1, <3>2
  <2> QED
    BY <2>1, <2>2
<1>3. PICK h : h = CHOOSE s : Rec(s)
  OBVIOUS
<1>4. BytesUpTo(c) = h
  BY <1>3 DEF BytesUpTo
<1>5. Rec(h)
  <2> HIDE DEF Rec
  <2> QED
    BY <1>2, <1>3, Zenon
<1>6. /\ Len(c) \in Nat /\ \A i \in 1 .. Len(c) : c[i] \in Seq(Nat)
      /\ h[0] = <<>> /\ \A i \in 1 .. Len(c) : h[i] = h[i - 1] \o c[i]
  <2>1. 0 \in 0 .. Len(c)
    OBVIOUS
  <2>2. h[0] = <<>>
    BY <1>5, <2>1, Zenon
  <2>3. ASSUME NEW i \in 1 .. Len(c)
        PROVE  h[i] = h[i - 1] \o c[i]
    <3>1. i \in 0 .. Len(c) /\ i # 0
      OBVIOUS
    <3> QED
      BY <1>5, <3>1, Zenon
  <2>4. Len(c) \in Nat /\ \A i \in 1 .. Len(c) : c[i] \in Seq(Nat)
    OBVIOUS
  <2> QED
    BY <2>2, <2>3, <2>4, Zenon
<1> DEFINE S == {i \in Nat : i <= Len(c) => h[i] \in Seq(Nat)}
<1>7. 0 \in S
  <2>1. <<>> \in Seq(Nat)
    OBVIOUS
  <2>2. h[0] \in Seq(Nat)
    BY <1>6, <2>1, Zenon
  <2> QED
    BY <2>2
<1>8. ASSUME NEW i \in S
      PROVE  i + 1 \in S
  <2> SUFFICES ASSUME i + 1 <= Len(c)
               PROVE  h[i + 1] \in Seq(Nat)
    OBVIOUS
  <2>1. i + 1 \in 1 .. Len(c) /\ (i + 1) - 1 = i /\ h[i] \in Seq(Nat)
    BY <1>6
  <2>2. h[i + 1] = h[i] \o c[i + 1] /\ c[i + 1] \in Seq(Nat)
    BY <1>6, <2>1
  <2> QED
    BY <2>1, <2>2
<1>9. Nat \subseteq S
  <2> HIDE DEF S
  <2> QED
    BY <1>7, <1>8, AllNumbers
<1>10. h \in [0 .. Len(c) -> Seq(Nat)]
  <2>1. \A i \in 0 .. Len(c) : h[i] \in Seq(Nat)
    BY <1>6, <1>9
  <2>2. h = [i \in 0 .. Len(c) |-> h[i]]
    BY <1>5
  <2> QED
    BY <2>1, <2>2
<1> QED
  BY <1>4, <1>6, <1>10 DEF Joining

\* An instruction comes behind those before it.
Follows(c, g, i) ==
    /\ Len(g[i]) = Len(g[i - 1]) + Len(c[i])
    /\ \A x \in 1 .. Len(c[i]) : g[Len(c)][Len(g[i - 1]) + x] = c[i][x]

\* Each instruction is in the bytes, behind those before it.
LEMMA BytesAt ==
    ASSUME NEW c \in Seq(Seq(Nat)), NEW g, Joining(g, c, Len(c)),
           NEW i \in 1 .. Len(c)
    PROVE  /\ Len(g[i - 1]) \in Nat /\ Len(g[Len(c)]) \in Nat
           /\ Len(g[i]) <= Len(g[Len(c)]) /\ Follows(c, g, i)
<1> DEFINE S == {m \in Nat : i <= m /\ m <= Len(c) =>
                    /\ Len(g[i]) <= Len(g[m])
                    /\ \A y \in 1 .. Len(g[i]) : g[m][y] = g[i][y]}
<1>1. /\ i - 1 \in 0 .. Len(c) /\ i \in 0 .. Len(c) /\ Len(c) \in 0 .. Len(c)
      /\ i \in Nat /\ Len(c) \in Nat /\ i <= Len(c)
  OBVIOUS
<1>0. /\ g \in [0 .. Len(c) -> Seq(Nat)]
      /\ \A m \in 1 .. Len(c) : g[m] = g[m - 1] \o c[m]
  BY Zenon DEF Joining
<1>2. \A m \in 0 .. Len(c) : g[m] \in Seq(Nat) /\ Len(g[m]) \in Nat
  <2>1. \A m \in 0 .. Len(c) : g[m] \in Seq(Nat)
    BY <1>0, Zenon
  <2>2. \A s \in Seq(Nat) : Len(s) \in Nat
    OBVIOUS
  <2> QED
    BY <2>1, <2>2, Zenon
<1>3. c[i] \in Seq(Nat) /\ g[i] = g[i - 1] \o c[i]
  <2>1. c[i] \in Seq(Nat)
    OBVIOUS
  <2> QED
    BY <1>0, <2>1, Zenon
<1>4. /\ Len(g[i]) = Len(g[i - 1]) + Len(c[i])
      /\ \A x \in 1 .. Len(c[i]) : g[i][Len(g[i - 1]) + x] = c[i][x]
  <2>1. PICK u, v : u = g[i - 1] /\ v = c[i]
    OBVIOUS
  <2>2. u \in Seq(Nat) /\ v \in Seq(Nat) /\ g[i] = u \o v
    BY <1>1, <1>2, <1>3, <2>1
  <2>3. Len(u \o v) = Len(u) + Len(v) /\ \A x \in 1 .. Len(v) : (u \o v)[Len(u) + x] = v[x]
    BY <2>2
  <2> QED
    BY <2>1, <2>2, <2>3
<1>5. 0 \in S
  BY <1>1
<1>6. ASSUME NEW m \in S
      PROVE  m + 1 \in S
  <2> SUFFICES ASSUME i <= m + 1, m + 1 <= Len(c)
               PROVE  /\ Len(g[i]) <= Len(g[m + 1])
                      /\ \A y \in 1 .. Len(g[i]) : g[m + 1][y] = g[i][y]
    OBVIOUS
  <2>1. CASE i = m + 1
    BY <1>1, <1>2, <2>1
  <2>2. CASE i # m + 1
    <3>0. i <= m /\ m <= Len(c)
      BY <1>1, <2>2
    <3>1. /\ Len(g[i]) <= Len(g[m]) /\ \A y \in 1 .. Len(g[i]) : g[m][y] = g[i][y]
          /\ m \in 0 .. Len(c) /\ m + 1 \in 1 .. Len(c) /\ (m + 1) - 1 = m
      <4>1. /\ Len(g[i]) <= Len(g[m]) /\ \A y \in 1 .. Len(g[i]) : g[m][y] = g[i][y]
        BY <3>0
      <4>2. m \in 0 .. Len(c) /\ m + 1 \in 1 .. Len(c) /\ (m + 1) - 1 = m
        BY <1>1, <3>0
      <4> QED
        BY <4>1, <4>2, Zenon
    <3>2. c[m + 1] \in Seq(Nat) /\ g[m + 1] = g[m] \o c[m + 1] /\ g[m] \in Seq(Nat)
      <4>1. c[m + 1] \in Seq(Nat)
        BY <3>1
      <4>2. g[m + 1] = g[(m + 1) - 1] \o c[m + 1]
        BY <1>0, <3>1, Zenon
      <4>3. (m + 1) - 1 = m
        BY <3>1
      <4> QED
        BY <1>2, <3>1, <4>1, <4>2, <4>3, Zenon
    <3>3. PICK u, v : u = g[m] /\ v = c[m + 1]
      OBVIOUS
    <3>4. u \in Seq(Nat) /\ v \in Seq(Nat) /\ g[m + 1] = u \o v
      BY <3>2, <3>3
    <3>5. Len(u \o v) >= Len(u) /\ \A y \in 1 .. Len(u) : (u \o v)[y] = u[y]
      BY <3>4
    <3>6. Len(g[i]) \in Nat /\ Len(u) \in Nat /\ Len(g[m + 1]) \in Nat
      BY <1>1, <1>2, <3>4
    <3>7. g[m + 1] = u \o v /\ g[m] = u
      BY <3>3, <3>4, Zenon
    <3>8. \A y \in 1 .. Len(g[i]) : y \in 1 .. Len(u)
      BY <3>1, <3>6, <3>7
    <3>9. \A y \in 1 .. Len(g[i]) : g[m + 1][y] = g[i][y]
      BY <3>1, <3>5, <3>7, <3>8, Zenon
    <3>10. Len(g[m + 1]) >= Len(g[m])
      BY <3>5, <3>7, Zenon
    <3> QED
      BY <3>1, <3>6, <3>7, <3>9, <3>10
  <2> QED
    BY <2>1, <2>2
<1>7. Nat \subseteq S
  <2> HIDE DEF S
  <2> QED
    BY <1>5, <1>6, AllNumbers
<1>8. /\ Len(g[i]) <= Len(g[Len(c)])
      /\ \A y \in 1 .. Len(g[i]) : g[Len(c)][y] = g[i][y]
  BY <1>1, <1>7
<1>9. ASSUME NEW x \in 1 .. Len(c[i])
      PROVE  g[Len(c)][Len(g[i - 1]) + x] = c[i][x]
  <2>1. Len(g[i - 1]) + x \in 1 .. Len(g[i])
    <3>1. PICK a, b, d : a = Len(g[i - 1]) /\ b = Len(c[i]) /\ d = Len(g[i])
      OBVIOUS
    <3>2. a \in Nat /\ b \in Nat /\ d = a + b /\ x \in 1 .. b
      BY <1>1, <1>2, <1>3, <1>4, <3>1
    <3>3. a + x \in 1 .. d
      BY <3>2
    <3> QED
      BY <3>1, <3>3, Zenon
  <2> QED
    BY <1>4, <1>8, <2>1, Zenon
<1> QED
  BY <1>1, <1>2, <1>4, <1>8, <1>9 DEF Follows

\* An instruction of so many bytes.
Is1(s, a)       == s \in Seq(Nat) /\ Len(s) = 1 /\ s[1] = a
Is2(s, a, b)    == s \in Seq(Nat) /\ Len(s) = 2 /\ s[1] = a /\ s[2] = b
Is3(s, a, b, d) == s \in Seq(Nat) /\ Len(s) = 3 /\ s[1] = a /\ s[2] = b /\ s[3] = d

\* The same in the bytes of a routine, behind o bytes.
At1(r, o, a)       == r[o + 1] = a
At2(r, o, a, b)    == r[o + 1] = a /\ r[o + 2] = b
At3(r, o, a, b, d) == r[o + 1] = a /\ r[o + 2] = b /\ r[o + 3] = d

\* An instruction begins behind b bytes.
Begun(c, g, b) == \E i \in 0 .. Len(c) - 1 : Len(g[i]) = b

LEMMA Following ==
    ASSUME NEW c \in Seq(Seq(Nat)), NEW g, Joining(g, c, Len(c))
    PROVE  \A i \in 1 .. Len(c) : Follows(c, g, i)
<1> QED
  BY BytesAt

LEMMA Assembled1 ==
    ASSUME NEW c, NEW g, NEW i, Follows(c, g, i), NEW a, Is1(c[i], a)
    PROVE  Len(g[i]) = Len(g[i - 1]) + 1 /\ At1(g[Len(c)], Len(g[i - 1]), a)
<1>1. Len(c[i]) = 1 /\ c[i][1] = a
  BY Zenon DEF Is1
<1>2. 1 \in 1 .. 1
  OBVIOUS
<1> QED
  BY <1>1, <1>2, Zenon DEF Follows, At1

LEMMA Assembled2 ==
    ASSUME NEW c, NEW g, NEW i, Follows(c, g, i), NEW a, NEW b, Is2(c[i], a, b)
    PROVE  Len(g[i]) = Len(g[i - 1]) + 2 /\ At2(g[Len(c)], Len(g[i - 1]), a, b)
<1>1. Len(c[i]) = 2 /\ c[i][1] = a /\ c[i][2] = b
  BY Zenon DEF Is2
<1>2. 1 \in 1 .. 2 /\ 2 \in 1 .. 2
  OBVIOUS
<1> QED
  BY <1>1, <1>2, Zenon DEF Follows, At2

LEMMA Assembled3 ==
    ASSUME NEW c, NEW g, NEW i, Follows(c, g, i), NEW a, NEW b, NEW d, Is3(c[i], a, b, d)
    PROVE  Len(g[i]) = Len(g[i - 1]) + 3 /\ At3(g[Len(c)], Len(g[i - 1]), a, b, d)
<1>1. Len(c[i]) = 3 /\ c[i][1] = a /\ c[i][2] = b /\ c[i][3] = d
  BY Zenon DEF Is3
<1>2. 1 \in 1 .. 3 /\ 2 \in 1 .. 3 /\ 3 \in 1 .. 3
  OBVIOUS
<1> QED
  BY <1>1, <1>2, Zenon DEF Follows, At3

\* The instructions with the page erase, and without it.
Erases(page, c) ==
    /\ c \in Seq(Seq(Nat)) /\ Len(c) = 21 /\ Is3(c[1], 117, 173, 2 * page)
    /\ Is3(c[2], 117, 254, 1) /\ Is3(c[3], 117, 172, 0) /\ Is3(c[4], 117, 174, 1)
    /\ Is2(c[5], 229, 174) /\ Is3(c[6], 32, 231, 251) /\ Is3(c[7], 144, 240, 0)
    /\ Is2(c[8], 127, 2) /\ Is2(c[9], 126, 0) /\ Is3(c[10], 117, 174, 2)
    /\ Is2(c[11], 125, 4) /\ Is1(c[12], 224) /\ Is1(c[13], 163) /\ Is2(c[14], 245, 175)
    /\ Is2(c[15], 221, 250) /\ Is2(c[16], 229, 174) /\ Is3(c[17], 32, 230, 251)
    /\ Is2(c[18], 222, 241) /\ Is2(c[19], 223, 239) /\ Is3(c[20], 117, 254, 0)
    /\ Is1(c[21], 165)

Keeps(page, c) ==
    /\ c \in Seq(Seq(Nat)) /\ Len(c) = 18 /\ Is3(c[1], 117, 173, 2 * page)
    /\ Is3(c[2], 117, 254, 1) /\ Is3(c[3], 117, 172, 0) /\ Is3(c[4], 144, 240, 0)
    /\ Is2(c[5], 127, 2) /\ Is2(c[6], 126, 0) /\ Is3(c[7], 117, 174, 2)
    /\ Is2(c[8], 125, 4) /\ Is1(c[9], 224) /\ Is1(c[10], 163) /\ Is2(c[11], 245, 175)
    /\ Is2(c[12], 221, 250) /\ Is2(c[13], 229, 174) /\ Is3(c[14], 32, 230, 251)
    /\ Is2(c[15], 222, 241) /\ Is2(c[16], 223, 239) /\ Is3(c[17], 117, 254, 0)
    /\ Is1(c[18], 165)

LEMMA InstructionsAre ==
    ASSUME NEW page \in 0 .. 63
    PROVE  /\ Erases(page, Instructions(page, TRUE))
           /\ Keeps(page, Instructions(page, FALSE))
<1>1. PICK i1, i2, i3, i4, i5, i6, i7, i8, i9, i10, i11, i12, i13, i14,
           i15, i16, i17, i18, i19, i20, i21 :
          /\ i1 = <<117, FADDRH, 2 * page>> /\ i2 = <<117, P1DIR, 1>>
          /\ i3 = <<117, FADDRL, 0>> /\ i4 = <<117, FLC, 1>> /\ i5 = <<229, FLC>>
          /\ i6 = <<32, 231, 251>> /\ i7 = <<144, 240, 0>> /\ i8 = <<127, 2>>
          /\ i9 = <<126, 0>> /\ i10 = <<117, FLC, 2>> /\ i11 = <<125, 4>> /\ i12 = <<224>>
          /\ i13 = <<163>> /\ i14 = <<245, FWDATA>> /\ i15 = <<221, 250>>
          /\ i16 = <<229, FLC>> /\ i17 = <<32, 230, 251>> /\ i18 = <<222, 241>>
          /\ i19 = <<223, 239>> /\ i20 = <<117, P1DIR, 0>> /\ i21 = <<165>>
  OBVIOUS
<1>2. Is3(i1, 117, 173, 2 * page)
  BY <1>1 DEF Is3, FADDRH, FADDRL, FLC, FWDATA, P1DIR
<1>3. Is3(i2, 117, 254, 1)
  BY <1>1 DEF Is3, FADDRH, FADDRL, FLC, FWDATA, P1DIR
<1>4. Is3(i3, 117, 172, 0)
  BY <1>1 DEF Is3, FADDRH, FADDRL, FLC, FWDATA, P1DIR
<1>5. Is3(i4, 117, 174, 1)
  BY <1>1 DEF Is3, FADDRH, FADDRL, FLC, FWDATA, P1DIR
<1>6. Is2(i5, 229, 174)
  BY <1>1 DEF Is2, FADDRH, FADDRL, FLC, FWDATA, P1DIR
<1>7. Is3(i6, 32, 231, 251)
  BY <1>1 DEF Is3, FADDRH, FADDRL, FLC, FWDATA, P1DIR
<1>8. Is3(i7, 144, 240, 0)
  BY <1>1 DEF Is3, FADDRH, FADDRL, FLC, FWDATA, P1DIR
<1>9. Is2(i8, 127, 2)
  BY <1>1 DEF Is2, FADDRH, FADDRL, FLC, FWDATA, P1DIR
<1>10. Is2(i9, 126, 0)
  BY <1>1 DEF Is2, FADDRH, FADDRL, FLC, FWDATA, P1DIR
<1>11. Is3(i10, 117, 174, 2)
  BY <1>1 DEF Is3, FADDRH, FADDRL, FLC, FWDATA, P1DIR
<1>12. Is2(i11, 125, 4)
  BY <1>1 DEF Is2, FADDRH, FADDRL, FLC, FWDATA, P1DIR
<1>13. Is1(i12, 224)
  BY <1>1 DEF Is1, FADDRH, FADDRL, FLC, FWDATA, P1DIR
<1>14. Is1(i13, 163)
  BY <1>1 DEF Is1, FADDRH, FADDRL, FLC, FWDATA, P1DIR
<1>15. Is2(i14, 245, 175)
  BY <1>1 DEF Is2, FADDRH, FADDRL, FLC, FWDATA, P1DIR
<1>16. Is2(i15, 221, 250)
  BY <1>1 DEF Is2, FADDRH, FADDRL, FLC, FWDATA, P1DIR
<1>17. Is2(i16, 229, 174)
  BY <1>1 DEF Is2, FADDRH, FADDRL, FLC, FWDATA, P1DIR
<1>18. Is3(i17, 32, 230, 251)
  BY <1>1 DEF Is3, FADDRH, FADDRL, FLC, FWDATA, P1DIR
<1>19. Is2(i18, 222, 241)
  BY <1>1 DEF Is2, FADDRH, FADDRL, FLC, FWDATA, P1DIR
<1>20. Is2(i19, 223, 239)
  BY <1>1 DEF Is2, FADDRH, FADDRL, FLC, FWDATA, P1DIR
<1>21. Is3(i20, 117, 254, 0)
  BY <1>1 DEF Is3, FADDRH, FADDRL, FLC, FWDATA, P1DIR
<1>22. Is1(i21, 165)
  BY <1>1 DEF Is1, FADDRH, FADDRL, FLC, FWDATA, P1DIR
<1>23. /\ i1 \in Seq(Nat) /\ i2 \in Seq(Nat) /\ i3 \in Seq(Nat) /\ i4 \in Seq(Nat)
      /\ i5 \in Seq(Nat) /\ i6 \in Seq(Nat) /\ i7 \in Seq(Nat) /\ i8 \in Seq(Nat)
      /\ i9 \in Seq(Nat) /\ i10 \in Seq(Nat) /\ i11 \in Seq(Nat) /\ i12 \in Seq(Nat)
      /\ i13 \in Seq(Nat) /\ i14 \in Seq(Nat) /\ i15 \in Seq(Nat) /\ i16 \in Seq(Nat)
      /\ i17 \in Seq(Nat) /\ i18 \in Seq(Nat) /\ i19 \in Seq(Nat) /\ i20 \in Seq(Nat)
      /\ i21 \in Seq(Nat)
  BY <1>2, <1>3, <1>4, <1>5, <1>6, <1>7, <1>8, <1>9, <1>10, <1>11, <1>12, <1>13,
     <1>14, <1>15, <1>16, <1>17, <1>18, <1>19, <1>20, <1>21, <1>22 DEF Is1, Is2, Is3
<1>24. AddressHigh(page) = 2 * page
  BY DEF AddressHigh, PageSize, WordSize
<1>25. HighByte(NWords) = 2 /\ LowByte(NWords) = 0 /\ WordSize = 4
  BY DEF HighByte, LowByte, NWords, PageSize, WordSize
<1>26. PICK c, d : c = Instructions(page, TRUE) /\ d = Instructions(page, FALSE)
  OBVIOUS
<1>27. /\ c = <<i1, i2, i3>> \o <<i4, i5, i6>> \o <<i7>> \o <<i8, i9>> \o <<i10>> \o
              <<i11, i12, i13, i14, i15>> \o <<i16, i17>> \o <<i18, i19>> \o <<i20, i21>>
       /\ d = <<i1, i2, i3>> \o <<>> \o <<i7>> \o <<i8, i9>> \o <<i10>> \o
              <<i11, i12, i13, i14, i15>> \o <<i16, i17>> \o <<i18, i19>> \o <<i20, i21>>
  BY <1>1, <1>24, <1>25, <1>26 DEF Instructions, EraseCode, Count, WordCode, Loop
<1>28. /\ c \in Seq(Seq(Nat)) /\ Len(c) = 21 /\ c[1] = i1 /\ c[2] = i2 /\ c[3] = i3 /\ c[4] = i4
       /\ c[5] = i5 /\ c[6] = i6 /\ c[7] = i7 /\ c[8] = i8 /\ c[9] = i9 /\ c[10] = i10
       /\ c[11] = i11 /\ c[12] = i12 /\ c[13] = i13 /\ c[14] = i14 /\ c[15] = i15
       /\ c[16] = i16 /\ c[17] = i17 /\ c[18] = i18 /\ c[19] = i19 /\ c[20] = i20
       /\ c[21] = i21
  BY <1>23, <1>27
<1>29. /\ d \in Seq(Seq(Nat)) /\ Len(d) = 18 /\ d[1] = i1 /\ d[2] = i2 /\ d[3] = i3 /\ d[4] = i7
       /\ d[5] = i8 /\ d[6] = i9 /\ d[7] = i10 /\ d[8] = i11 /\ d[9] = i12 /\ d[10] = i13
       /\ d[11] = i14 /\ d[12] = i15 /\ d[13] = i16 /\ d[14] = i17 /\ d[15] = i18
       /\ d[16] = i19 /\ d[17] = i20 /\ d[18] = i21
  BY <1>23, <1>27
<1>30. Erases(page, c)
  BY <1>28, <1>2, <1>3, <1>4, <1>5, <1>6, <1>7, <1>8, <1>9, <1>10, <1>11, <1>12, <1>13,
     <1>14, <1>15, <1>16, <1>17, <1>18, <1>19, <1>20, <1>21, <1>22 DEF Erases
<1>31. Keeps(page, d)
  BY <1>29, <1>2, <1>3, <1>4, <1>5, <1>6, <1>7, <1>8, <1>9, <1>10, <1>11, <1>12, <1>13,
     <1>14, <1>15, <1>16, <1>17, <1>18, <1>19, <1>20, <1>21, <1>22 DEF Keeps
<1> QED
  BY <1>26, <1>30, <1>31, Zenon

\* The bytes of the routine; its last fifteen instructions are behind k bytes.
Listed(r, page, erase, k) ==
    /\ Len(r) = k + 31 /\ At3(r, 0, 117, 173, 2 * page) /\ At3(r, 3, 117, 254, 1)
    /\ At3(r, 6, 117, 172, 0)
    /\ erase => At3(r, 9, 117, 174, 1) /\ At2(r, 12, 229, 174) /\ At3(r, 14, 32, 231, 251)
    /\ At3(r, k, 144, 240, 0) /\ At2(r, k + 3, 127, 2) /\ At2(r, k + 5, 126, 0)
    /\ At3(r, k + 7, 117, 174, 2) /\ At2(r, k + 10, 125, 4) /\ At1(r, k + 12, 224)
    /\ At1(r, k + 13, 163) /\ At2(r, k + 14, 245, 175) /\ At2(r, k + 16, 221, 250)
    /\ At2(r, k + 18, 229, 174) /\ At3(r, k + 20, 32, 230, 251) /\ At2(r, k + 23, 222, 241)
    /\ At2(r, k + 25, 223, 239) /\ At3(r, k + 27, 117, 254, 0) /\ At1(r, k + 30, 165)

\* the offsets at which the instructions begin
Begins(erase, k) ==
    {0, 3, 6} \cup (IF erase THEN {9, 12, 14} ELSE {})
        \cup {k, k + 3, k + 5, k + 7, k + 10, k + 12, k + 13, k + 14, k + 16,
              k + 18, k + 20, k + 23, k + 25, k + 27, k + 30}

LEMMA ErasesListed ==
    ASSUME NEW page \in 0 .. 63, NEW c, Erases(page, c), NEW g, g = BytesUpTo(c)
    PROVE  /\ Listed(g[Len(c)], page, TRUE, 17)
           /\ \A b \in Begins(TRUE, 17) : Begun(c, g, b)
<1>1. c \in Seq(Seq(Nat)) /\ Len(c) = 21 /\ Joining(g, c, Len(c))
  BY BytesJoin DEF Erases
<1>0. \A i \in 1 .. Len(c) : Follows(c, g, i)
  BY <1>1, Following
<1>2. PICK r : r = g[Len(c)]
  OBVIOUS
<1>3. Len(g[0]) = 0
  <2>1. g[0] = <<>>
    BY <1>1, Zenon DEF Joining
  <2> QED
    BY <2>1
<1>4. Len(g[1]) = 3 /\ At3(r, 0, 117, 173, 2 * page) /\ Begun(c, g, 0)
  <2>1. PICK i : i = 1 /\ i - 1 = 0 /\ i \in 1 .. Len(c)
    BY <1>1
  <2>2. Follows(c, g, i) /\ Is3(c[i], 117, 173, 2 * page)
    BY <1>0, <1>1, <2>1 DEF Erases
  <2>3. Len(g[i]) = Len(g[i - 1]) + 3 /\ At3(g[Len(c)], Len(g[i - 1]), 117, 173, 2 * page)
    BY <2>2, Assembled3, Zenon
  <2>4. Len(g[i - 1]) = 0
    BY <1>3, <2>1
  <2>5. Begun(c, g, 0)
    BY <1>1, <2>1, <2>4 DEF Begun
  <2> QED
    BY <1>2, <2>1, <2>3, <2>4, <2>5
<1>5. Len(g[2]) = 6 /\ At3(r, 3, 117, 254, 1) /\ Begun(c, g, 3)
  <2>1. PICK i : i = 2 /\ i - 1 = 1 /\ i \in 1 .. Len(c)
    BY <1>1
  <2>2. Follows(c, g, i) /\ Is3(c[i], 117, 254, 1)
    BY <1>0, <1>1, <2>1 DEF Erases
  <2>3. Len(g[i]) = Len(g[i - 1]) + 3 /\ At3(g[Len(c)], Len(g[i - 1]), 117, 254, 1)
    BY <2>2, Assembled3, Zenon
  <2>4. Len(g[i - 1]) = 3
    BY <1>4, <2>1
  <2>5. Begun(c, g, 3)
    BY <1>1, <2>1, <2>4 DEF Begun
  <2> QED
    BY <1>2, <2>1, <2>3, <2>4, <2>5
<1>6. Len(g[3]) = 9 /\ At3(r, 6, 117, 172, 0) /\ Begun(c, g, 6)
  <2>1. PICK i : i = 3 /\ i - 1 = 2 /\ i \in 1 .. Len(c)
    BY <1>1
  <2>2. Follows(c, g, i) /\ Is3(c[i], 117, 172, 0)
    BY <1>0, <1>1, <2>1 DEF Erases
  <2>3. Len(g[i]) = Len(g[i - 1]) + 3 /\ At3(g[Len(c)], Len(g[i - 1]), 117, 172, 0)
    BY <2>2, Assembled3, Zenon
  <2>4. Len(g[i - 1]) = 6
    BY <1>5, <2>1
  <2>5. Begun(c, g, 6)
    BY <1>1, <2>1, <2>4 DEF Begun
  <2> QED
    BY <1>2, <2>1, <2>3, <2>4, <2>5
<1>7. Len(g[4]) = 12 /\ At3(r, 9, 117, 174, 1) /\ Begun(c, g, 9)
  <2>1. PICK i : i = 4 /\ i - 1 = 3 /\ i \in 1 .. Len(c)
    BY <1>1
  <2>2. Follows(c, g, i) /\ Is3(c[i], 117, 174, 1)
    BY <1>0, <1>1, <2>1 DEF Erases
  <2>3. Len(g[i]) = Len(g[i - 1]) + 3 /\ At3(g[Len(c)], Len(g[i - 1]), 117, 174, 1)
    BY <2>2, Assembled3, Zenon
  <2>4. Len(g[i - 1]) = 9
    BY <1>6, <2>1
  <2>5. Begun(c, g, 9)
    BY <1>1, <2>1, <2>4 DEF Begun
  <2> QED
    BY <1>2, <2>1, <2>3, <2>4, <2>5
<1>8. Len(g[5]) = 14 /\ At2(r, 12, 229, 174) /\ Begun(c, g, 12)
  <2>1. PICK i : i = 5 /\ i - 1 = 4 /\ i \in 1 .. Len(c)
    BY <1>1
  <2>2. Follows(c, g, i) /\ Is2(c[i], 229, 174)
    BY <1>0, <1>1, <2>1 DEF Erases
  <2>3. Len(g[i]) = Len(g[i - 1]) + 2 /\ At2(g[Len(c)], Len(g[i - 1]), 229, 174)
    BY <2>2, Assembled2, Zenon
  <2>4. Len(g[i - 1]) = 12
    BY <1>7, <2>1
  <2>5. Begun(c, g, 12)
    BY <1>1, <2>1, <2>4 DEF Begun
  <2> QED
    BY <1>2, <2>1, <2>3, <2>4, <2>5
<1>9. Len(g[6]) = 17 /\ At3(r, 14, 32, 231, 251) /\ Begun(c, g, 14)
  <2>1. PICK i : i = 6 /\ i - 1 = 5 /\ i \in 1 .. Len(c)
    BY <1>1
  <2>2. Follows(c, g, i) /\ Is3(c[i], 32, 231, 251)
    BY <1>0, <1>1, <2>1 DEF Erases
  <2>3. Len(g[i]) = Len(g[i - 1]) + 3 /\ At3(g[Len(c)], Len(g[i - 1]), 32, 231, 251)
    BY <2>2, Assembled3, ZenonT(40)
  <2>4. Len(g[i - 1]) = 14
    BY <1>8, <2>1
  <2>5. Begun(c, g, 14)
    BY <1>1, <2>1, <2>4 DEF Begun
  <2> QED
    BY <1>2, <2>1, <2>3, <2>4, <2>5
<1>10. Len(g[7]) = 20 /\ At3(r, 17, 144, 240, 0) /\ Begun(c, g, 17)
  <2>1. PICK i : i = 7 /\ i - 1 = 6 /\ i \in 1 .. Len(c)
    BY <1>1
  <2>2. Follows(c, g, i) /\ Is3(c[i], 144, 240, 0)
    BY <1>0, <1>1, <2>1 DEF Erases
  <2>3. Len(g[i]) = Len(g[i - 1]) + 3 /\ At3(g[Len(c)], Len(g[i - 1]), 144, 240, 0)
    BY <2>2, Assembled3, Zenon
  <2>4. Len(g[i - 1]) = 17
    BY <1>9, <2>1
  <2>5. Begun(c, g, 17)
    BY <1>1, <2>1, <2>4 DEF Begun
  <2> QED
    BY <1>2, <2>1, <2>3, <2>4, <2>5
<1>11. Len(g[8]) = 22 /\ At2(r, 20, 127, 2) /\ Begun(c, g, 20)
  <2>1. PICK i : i = 8 /\ i - 1 = 7 /\ i \in 1 .. Len(c)
    BY <1>1
  <2>2. Follows(c, g, i) /\ Is2(c[i], 127, 2)
    BY <1>0, <1>1, <2>1 DEF Erases
  <2>3. Len(g[i]) = Len(g[i - 1]) + 2 /\ At2(g[Len(c)], Len(g[i - 1]), 127, 2)
    BY <2>2, Assembled2, Zenon
  <2>4. Len(g[i - 1]) = 20
    BY <1>10, <2>1
  <2>5. Begun(c, g, 20)
    BY <1>1, <2>1, <2>4 DEF Begun
  <2> QED
    BY <1>2, <2>1, <2>3, <2>4, <2>5
<1>12. Len(g[9]) = 24 /\ At2(r, 22, 126, 0) /\ Begun(c, g, 22)
  <2>1. PICK i : i = 9 /\ i - 1 = 8 /\ i \in 1 .. Len(c)
    BY <1>1
  <2>2. Follows(c, g, i) /\ Is2(c[i], 126, 0)
    BY <1>0, <1>1, <2>1 DEF Erases
  <2>3. Len(g[i]) = Len(g[i - 1]) + 2 /\ At2(g[Len(c)], Len(g[i - 1]), 126, 0)
    BY <2>2, Assembled2, Zenon
  <2>4. Len(g[i - 1]) = 22
    BY <1>11, <2>1
  <2>5. Begun(c, g, 22)
    BY <1>1, <2>1, <2>4 DEF Begun
  <2> QED
    BY <1>2, <2>1, <2>3, <2>4, <2>5
<1>13. Len(g[10]) = 27 /\ At3(r, 24, 117, 174, 2) /\ Begun(c, g, 24)
  <2>1. PICK i : i = 10 /\ i - 1 = 9 /\ i \in 1 .. Len(c)
    BY <1>1
  <2>2. Follows(c, g, i) /\ Is3(c[i], 117, 174, 2)
    BY <1>0, <1>1, <2>1 DEF Erases
  <2>3. Len(g[i]) = Len(g[i - 1]) + 3 /\ At3(g[Len(c)], Len(g[i - 1]), 117, 174, 2)
    BY <2>2, Assembled3, Zenon
  <2>4. Len(g[i - 1]) = 24
    BY <1>12, <2>1
  <2>5. Begun(c, g, 24)
    BY <1>1, <2>1, <2>4 DEF Begun
  <2> QED
    BY <1>2, <2>1, <2>3, <2>4, <2>5
<1>14. Len(g[11]) = 29 /\ At2(r, 27, 125, 4) /\ Begun(c, g, 27)
  <2>1. PICK i : i = 11 /\ i - 1 = 10 /\ i \in 1 .. Len(c)
    BY <1>1
  <2>2. Follows(c, g, i) /\ Is2(c[i], 125, 4)
    BY <1>0, <1>1, <2>1 DEF Erases
  <2>3. Len(g[i]) = Len(g[i - 1]) + 2 /\ At2(g[Len(c)], Len(g[i - 1]), 125, 4)
    BY <2>2, Assembled2, Zenon
  <2>4. Len(g[i - 1]) = 27
    BY <1>13, <2>1
  <2>5. Begun(c, g, 27)
    BY <1>1, <2>1, <2>4 DEF Begun
  <2> QED
    BY <1>2, <2>1, <2>3, <2>4, <2>5
<1>15. Len(g[12]) = 30 /\ At1(r, 29, 224) /\ Begun(c, g, 29)
  <2>1. PICK i : i = 12 /\ i - 1 = 11 /\ i \in 1 .. Len(c)
    BY <1>1
  <2>2. Follows(c, g, i) /\ Is1(c[i], 224)
    BY <1>0, <1>1, <2>1 DEF Erases
  <2>3. Len(g[i]) = Len(g[i - 1]) + 1 /\ At1(g[Len(c)], Len(g[i - 1]), 224)
    BY <2>2, Assembled1, Zenon
  <2>4. Len(g[i - 1]) = 29
    BY <1>14, <2>1
  <2>5. Begun(c, g, 29)
    BY <1>1, <2>1, <2>4 DEF Begun
  <2> QED
    BY <1>2, <2>1, <2>3, <2>4, <2>5
<1>16. Len(g[13]) = 31 /\ At1(r, 30, 163) /\ Begun(c, g, 30)
  <2>1. PICK i : i = 13 /\ i - 1 = 12 /\ i \in 1 .. Len(c)
    BY <1>1
  <2>2. Follows(c, g, i) /\ Is1(c[i], 163)
    BY <1>0, <1>1, <2>1 DEF Erases
  <2>3. Len(g[i]) = Len(g[i - 1]) + 1 /\ At1(g[Len(c)], Len(g[i - 1]), 163)
    BY <2>2, Assembled1, Zenon
  <2>4. Len(g[i - 1]) = 30
    BY <1>15, <2>1
  <2>5. Begun(c, g, 30)
    BY <1>1, <2>1, <2>4 DEF Begun
  <2> QED
    BY <1>2, <2>1, <2>3, <2>4, <2>5
<1>17. Len(g[14]) = 33 /\ At2(r, 31, 245, 175) /\ Begun(c, g, 31)
  <2>1. PICK i : i = 14 /\ i - 1 = 13 /\ i \in 1 .. Len(c)
    BY <1>1
  <2>2. Follows(c, g, i) /\ Is2(c[i], 245, 175)
    BY <1>0, <1>1, <2>1 DEF Erases
  <2>3. Len(g[i]) = Len(g[i - 1]) + 2 /\ At2(g[Len(c)], Len(g[i - 1]), 245, 175)
    BY <2>2, Assembled2, Zenon
  <2>4. Len(g[i - 1]) = 31
    BY <1>16, <2>1
  <2>5. Begun(c, g, 31)
    BY <1>1, <2>1, <2>4 DEF Begun
  <2> QED
    BY <1>2, <2>1, <2>3, <2>4, <2>5
<1>18. Len(g[15]) = 35 /\ At2(r, 33, 221, 250) /\ Begun(c, g, 33)
  <2>1. PICK i : i = 15 /\ i - 1 = 14 /\ i \in 1 .. Len(c)
    BY <1>1
  <2>2. Follows(c, g, i) /\ Is2(c[i], 221, 250)
    BY <1>0, <1>1, <2>1 DEF Erases
  <2>3. Len(g[i]) = Len(g[i - 1]) + 2 /\ At2(g[Len(c)], Len(g[i - 1]), 221, 250)
    BY <2>2, Assembled2, ZenonT(40)
  <2>4. Len(g[i - 1]) = 33
    BY <1>17, <2>1
  <2>5. Begun(c, g, 33)
    BY <1>1, <2>1, <2>4 DEF Begun
  <2> QED
    BY <1>2, <2>1, <2>3, <2>4, <2>5
<1>19. Len(g[16]) = 37 /\ At2(r, 35, 229, 174) /\ Begun(c, g, 35)
  <2>1. PICK i : i = 16 /\ i - 1 = 15 /\ i \in 1 .. Len(c)
    BY <1>1
  <2>2. Follows(c, g, i) /\ Is2(c[i], 229, 174)
    BY <1>0, <1>1, <2>1 DEF Erases
  <2>3. Len(g[i]) = Len(g[i - 1]) + 2 /\ At2(g[Len(c)], Len(g[i - 1]), 229, 174)
    BY <2>2, Assembled2, Zenon
  <2>4. Len(g[i - 1]) = 35
    BY <1>18, <2>1
  <2>5. Begun(c, g, 35)
    BY <1>1, <2>1, <2>4 DEF Begun
  <2> QED
    BY <1>2, <2>1, <2>3, <2>4, <2>5
<1>20. Len(g[17]) = 40 /\ At3(r, 37, 32, 230, 251) /\ Begun(c, g, 37)
  <2>1. PICK i : i = 17 /\ i - 1 = 16 /\ i \in 1 .. Len(c)
    BY <1>1
  <2>2. Follows(c, g, i) /\ Is3(c[i], 32, 230, 251)
    BY <1>0, <1>1, <2>1 DEF Erases
  <2>3. Len(g[i]) = Len(g[i - 1]) + 3 /\ At3(g[Len(c)], Len(g[i - 1]), 32, 230, 251)
    BY <2>2, Assembled3, ZenonT(40)
  <2>4. Len(g[i - 1]) = 37
    BY <1>19, <2>1
  <2>5. Begun(c, g, 37)
    BY <1>1, <2>1, <2>4 DEF Begun
  <2> QED
    BY <1>2, <2>1, <2>3, <2>4, <2>5
<1>21. Len(g[18]) = 42 /\ At2(r, 40, 222, 241) /\ Begun(c, g, 40)
  <2>1. PICK i : i = 18 /\ i - 1 = 17 /\ i \in 1 .. Len(c)
    BY <1>1
  <2>2. Follows(c, g, i) /\ Is2(c[i], 222, 241)
    BY <1>0, <1>1, <2>1 DEF Erases
  <2>3. Len(g[i]) = Len(g[i - 1]) + 2 /\ At2(g[Len(c)], Len(g[i - 1]), 222, 241)
    BY <2>2, Assembled2, ZenonT(40)
  <2>4. Len(g[i - 1]) = 40
    BY <1>20, <2>1
  <2>5. Begun(c, g, 40)
    BY <1>1, <2>1, <2>4 DEF Begun
  <2> QED
    BY <1>2, <2>1, <2>3, <2>4, <2>5
<1>22. Len(g[19]) = 44 /\ At2(r, 42, 223, 239) /\ Begun(c, g, 42)
  <2>1. PICK i : i = 19 /\ i - 1 = 18 /\ i \in 1 .. Len(c)
    BY <1>1
  <2>2. Follows(c, g, i) /\ Is2(c[i], 223, 239)
    BY <1>0, <1>1, <2>1 DEF Erases
  <2>3. Len(g[i]) = Len(g[i - 1]) + 2 /\ At2(g[Len(c)], Len(g[i - 1]), 223, 239)
    BY <2>2, Assembled2, ZenonT(40)
  <2>4. Len(g[i - 1]) = 42
    BY <1>21, <2>1
  <2>5. Begun(c, g, 42)
    BY <1>1, <2>1, <2>4 DEF Begun
  <2> QED
    BY <1>2, <2>1, <2>3, <2>4, <2>5
<1>23. Len(g[20]) = 47 /\ At3(r, 44, 117, 254, 0) /\ Begun(c, g, 44)
  <2>1. PICK i : i = 20 /\ i - 1 = 19 /\ i \in 1 .. Len(c)
    BY <1>1
  <2>2. Follows(c, g, i) /\ Is3(c[i], 117, 254, 0)
    BY <1>0, <1>1, <2>1 DEF Erases
  <2>3. Len(g[i]) = Len(g[i - 1]) + 3 /\ At3(g[Len(c)], Len(g[i - 1]), 117, 254, 0)
    BY <2>2, Assembled3, Zenon
  <2>4. Len(g[i - 1]) = 44
    BY <1>22, <2>1
  <2>5. Begun(c, g, 44)
    BY <1>1, <2>1, <2>4 DEF Begun
  <2> QED
    BY <1>2, <2>1, <2>3, <2>4, <2>5
<1>24. Len(g[21]) = 48 /\ At1(r, 47, 165) /\ Begun(c, g, 47)
  <2>1. PICK i : i = 21 /\ i - 1 = 20 /\ i \in 1 .. Len(c)
    BY <1>1
  <2>2. Follows(c, g, i) /\ Is1(c[i], 165)
    BY <1>0, <1>1, <2>1 DEF Erases
  <2>3. Len(g[i]) = Len(g[i - 1]) + 1 /\ At1(g[Len(c)], Len(g[i - 1]), 165)
    BY <2>2, Assembled1, Zenon
  <2>4. Len(g[i - 1]) = 47
    BY <1>23, <2>1
  <2>5. Begun(c, g, 47)
    BY <1>1, <2>1, <2>4 DEF Begun
  <2> QED
    BY <1>2, <2>1, <2>3, <2>4, <2>5
<1>25. Listed(r, page, TRUE, 17)
  BY <1>1, <1>2, <1>4, <1>5, <1>6, <1>7, <1>8, <1>9, <1>10, <1>11, <1>12, <1>13, <1>14,
     <1>15, <1>16, <1>17, <1>18, <1>19, <1>20, <1>21, <1>22, <1>23, <1>24, SMTT(60) DEF Listed
<1>26. ASSUME NEW b \in Begins(TRUE, 17)
       PROVE  Begun(c, g, b)
  <2>1. \/ b = 0 \/ b = 3 \/ b = 6 \/ b = 9 \/ b = 12 \/ b = 14 \/ b = 17
        \/ b = 20 \/ b = 22 \/ b = 24 \/ b = 27 \/ b = 29 \/ b = 30 \/ b = 31
        \/ b = 33 \/ b = 35 \/ b = 37 \/ b = 40 \/ b = 42 \/ b = 44 \/ b = 47
    BY DEF Begins
  <2>2. /\ Begun(c, g, 0) /\ Begun(c, g, 3) /\ Begun(c, g, 6) /\ Begun(c, g, 9) /\ Begun(c, g, 12)
        /\ Begun(c, g, 14) /\ Begun(c, g, 17) /\ Begun(c, g, 20) /\ Begun(c, g, 22)
        /\ Begun(c, g, 24) /\ Begun(c, g, 27) /\ Begun(c, g, 29) /\ Begun(c, g, 30)
        /\ Begun(c, g, 31) /\ Begun(c, g, 33) /\ Begun(c, g, 35) /\ Begun(c, g, 37)
        /\ Begun(c, g, 40) /\ Begun(c, g, 42) /\ Begun(c, g, 44) /\ Begun(c, g, 47)
    BY <1>1, <1>2, <1>4, <1>5, <1>6, <1>7, <1>8, <1>9, <1>10, <1>11, <1>12, <1>13, <1>14,
       <1>15, <1>16, <1>17, <1>18, <1>19, <1>20, <1>21, <1>22, <1>23, <1>24
  <2> QED
    BY <2>1, <2>2, ZenonT(40)
<1> QED
  BY <1>2, <1>25, <1>26

LEMMA KeepsListed ==
    ASSUME NEW page \in 0 .. 63, NEW c, Keeps(page, c), NEW g, g = BytesUpTo(c)
    PROVE  /\ Listed(g[Len(c)], page, FALSE, 9)
           /\ \A b \in Begins(FALSE, 9) : Begun(c, g, b)
<1>1. c \in Seq(Seq(Nat)) /\ Len(c) = 18 /\ Joining(g, c, Len(c))
  BY BytesJoin DEF Keeps
<1>0. \A i \in 1 .. Len(c) : Follows(c, g, i)
  BY <1>1, Following
<1>2. PICK r : r = g[Len(c)]
  OBVIOUS
<1>3. Len(g[0]) = 0
  <2>1. g[0] = <<>>
    BY <1>1, Zenon DEF Joining
  <2> QED
    BY <2>1
<1>4. Len(g[1]) = 3 /\ At3(r, 0, 117, 173, 2 * page) /\ Begun(c, g, 0)
  <2>1. PICK i : i = 1 /\ i - 1 = 0 /\ i \in 1 .. Len(c)
    BY <1>1
  <2>2. Follows(c, g, i) /\ Is3(c[i], 117, 173, 2 * page)
    BY <1>0, <1>1, <2>1 DEF Keeps
  <2>3. Len(g[i]) = Len(g[i - 1]) + 3 /\ At3(g[Len(c)], Len(g[i - 1]), 117, 173, 2 * page)
    BY <2>2, Assembled3, Zenon
  <2>4. Len(g[i - 1]) = 0
    BY <1>3, <2>1
  <2>5. Begun(c, g, 0)
    BY <1>1, <2>1, <2>4 DEF Begun
  <2> QED
    BY <1>2, <2>1, <2>3, <2>4, <2>5
<1>5. Len(g[2]) = 6 /\ At3(r, 3, 117, 254, 1) /\ Begun(c, g, 3)
  <2>1. PICK i : i = 2 /\ i - 1 = 1 /\ i \in 1 .. Len(c)
    BY <1>1
  <2>2. Follows(c, g, i) /\ Is3(c[i], 117, 254, 1)
    BY <1>0, <1>1, <2>1 DEF Keeps
  <2>3. Len(g[i]) = Len(g[i - 1]) + 3 /\ At3(g[Len(c)], Len(g[i - 1]), 117, 254, 1)
    BY <2>2, Assembled3, Zenon
  <2>4. Len(g[i - 1]) = 3
    BY <1>4, <2>1
  <2>5. Begun(c, g, 3)
    BY <1>1, <2>1, <2>4 DEF Begun
  <2> QED
    BY <1>2, <2>1, <2>3, <2>4, <2>5
<1>6. Len(g[3]) = 9 /\ At3(r, 6, 117, 172, 0) /\ Begun(c, g, 6)
  <2>1. PICK i : i = 3 /\ i - 1 = 2 /\ i \in 1 .. Len(c)
    BY <1>1
  <2>2. Follows(c, g, i) /\ Is3(c[i], 117, 172, 0)
    BY <1>0, <1>1, <2>1 DEF Keeps
  <2>3. Len(g[i]) = Len(g[i - 1]) + 3 /\ At3(g[Len(c)], Len(g[i - 1]), 117, 172, 0)
    BY <2>2, Assembled3, Zenon
  <2>4. Len(g[i - 1]) = 6
    BY <1>5, <2>1
  <2>5. Begun(c, g, 6)
    BY <1>1, <2>1, <2>4 DEF Begun
  <2> QED
    BY <1>2, <2>1, <2>3, <2>4, <2>5
<1>7. Len(g[4]) = 12 /\ At3(r, 9, 144, 240, 0) /\ Begun(c, g, 9)
  <2>1. PICK i : i = 4 /\ i - 1 = 3 /\ i \in 1 .. Len(c)
    BY <1>1
  <2>2. Follows(c, g, i) /\ Is3(c[i], 144, 240, 0)
    BY <1>0, <1>1, <2>1 DEF Keeps
  <2>3. Len(g[i]) = Len(g[i - 1]) + 3 /\ At3(g[Len(c)], Len(g[i - 1]), 144, 240, 0)
    BY <2>2, Assembled3, Zenon
  <2>4. Len(g[i - 1]) = 9
    BY <1>6, <2>1
  <2>5. Begun(c, g, 9)
    BY <1>1, <2>1, <2>4 DEF Begun
  <2> QED
    BY <1>2, <2>1, <2>3, <2>4, <2>5
<1>8. Len(g[5]) = 14 /\ At2(r, 12, 127, 2) /\ Begun(c, g, 12)
  <2>1. PICK i : i = 5 /\ i - 1 = 4 /\ i \in 1 .. Len(c)
    BY <1>1
  <2>2. Follows(c, g, i) /\ Is2(c[i], 127, 2)
    BY <1>0, <1>1, <2>1 DEF Keeps
  <2>3. Len(g[i]) = Len(g[i - 1]) + 2 /\ At2(g[Len(c)], Len(g[i - 1]), 127, 2)
    BY <2>2, Assembled2, Zenon
  <2>4. Len(g[i - 1]) = 12
    BY <1>7, <2>1
  <2>5. Begun(c, g, 12)
    BY <1>1, <2>1, <2>4 DEF Begun
  <2> QED
    BY <1>2, <2>1, <2>3, <2>4, <2>5
<1>9. Len(g[6]) = 16 /\ At2(r, 14, 126, 0) /\ Begun(c, g, 14)
  <2>1. PICK i : i = 6 /\ i - 1 = 5 /\ i \in 1 .. Len(c)
    BY <1>1
  <2>2. Follows(c, g, i) /\ Is2(c[i], 126, 0)
    BY <1>0, <1>1, <2>1 DEF Keeps
  <2>3. Len(g[i]) = Len(g[i - 1]) + 2 /\ At2(g[Len(c)], Len(g[i - 1]), 126, 0)
    BY <2>2, Assembled2, Zenon
  <2>4. Len(g[i - 1]) = 14
    BY <1>8, <2>1
  <2>5. Begun(c, g, 14)
    BY <1>1, <2>1, <2>4 DEF Begun
  <2> QED
    BY <1>2, <2>1, <2>3, <2>4, <2>5
<1>10. Len(g[7]) = 19 /\ At3(r, 16, 117, 174, 2) /\ Begun(c, g, 16)
  <2>1. PICK i : i = 7 /\ i - 1 = 6 /\ i \in 1 .. Len(c)
    BY <1>1
  <2>2. Follows(c, g, i) /\ Is3(c[i], 117, 174, 2)
    BY <1>0, <1>1, <2>1 DEF Keeps
  <2>3. Len(g[i]) = Len(g[i - 1]) + 3 /\ At3(g[Len(c)], Len(g[i - 1]), 117, 174, 2)
    BY <2>2, Assembled3, Zenon
  <2>4. Len(g[i - 1]) = 16
    BY <1>9, <2>1
  <2>5. Begun(c, g, 16)
    BY <1>1, <2>1, <2>4 DEF Begun
  <2> QED
    BY <1>2, <2>1, <2>3, <2>4, <2>5
<1>11. Len(g[8]) = 21 /\ At2(r, 19, 125, 4) /\ Begun(c, g, 19)
  <2>1. PICK i : i = 8 /\ i - 1 = 7 /\ i \in 1 .. Len(c)
    BY <1>1
  <2>2. Follows(c, g, i) /\ Is2(c[i], 125, 4)
    BY <1>0, <1>1, <2>1 DEF Keeps
  <2>3. Len(g[i]) = Len(g[i - 1]) + 2 /\ At2(g[Len(c)], Len(g[i - 1]), 125, 4)
    BY <2>2, Assembled2, Zenon
  <2>4. Len(g[i - 1]) = 19
    BY <1>10, <2>1
  <2>5. Begun(c, g, 19)
    BY <1>1, <2>1, <2>4 DEF Begun
  <2> QED
    BY <1>2, <2>1, <2>3, <2>4, <2>5
<1>12. Len(g[9]) = 22 /\ At1(r, 21, 224) /\ Begun(c, g, 21)
  <2>1. PICK i : i = 9 /\ i - 1 = 8 /\ i \in 1 .. Len(c)
    BY <1>1
  <2>2. Follows(c, g, i) /\ Is1(c[i], 224)
    BY <1>0, <1>1, <2>1 DEF Keeps
  <2>3. Len(g[i]) = Len(g[i - 1]) + 1 /\ At1(g[Len(c)], Len(g[i - 1]), 224)
    BY <2>2, Assembled1, Zenon
  <2>4. Len(g[i - 1]) = 21
    BY <1>11, <2>1
  <2>5. Begun(c, g, 21)
    BY <1>1, <2>1, <2>4 DEF Begun
  <2> QED
    BY <1>2, <2>1, <2>3, <2>4, <2>5
<1>13. Len(g[10]) = 23 /\ At1(r, 22, 163) /\ Begun(c, g, 22)
  <2>1. PICK i : i = 10 /\ i - 1 = 9 /\ i \in 1 .. Len(c)
    BY <1>1
  <2>2. Follows(c, g, i) /\ Is1(c[i], 163)
    BY <1>0, <1>1, <2>1 DEF Keeps
  <2>3. Len(g[i]) = Len(g[i - 1]) + 1 /\ At1(g[Len(c)], Len(g[i - 1]), 163)
    BY <2>2, Assembled1, Zenon
  <2>4. Len(g[i - 1]) = 22
    BY <1>12, <2>1
  <2>5. Begun(c, g, 22)
    BY <1>1, <2>1, <2>4 DEF Begun
  <2> QED
    BY <1>2, <2>1, <2>3, <2>4, <2>5
<1>14. Len(g[11]) = 25 /\ At2(r, 23, 245, 175) /\ Begun(c, g, 23)
  <2>1. PICK i : i = 11 /\ i - 1 = 10 /\ i \in 1 .. Len(c)
    BY <1>1
  <2>2. Follows(c, g, i) /\ Is2(c[i], 245, 175)
    BY <1>0, <1>1, <2>1 DEF Keeps
  <2>3. Len(g[i]) = Len(g[i - 1]) + 2 /\ At2(g[Len(c)], Len(g[i - 1]), 245, 175)
    BY <2>2, Assembled2, Zenon
  <2>4. Len(g[i - 1]) = 23
    BY <1>13, <2>1
  <2>5. Begun(c, g, 23)
    BY <1>1, <2>1, <2>4 DEF Begun
  <2> QED
    BY <1>2, <2>1, <2>3, <2>4, <2>5
<1>15. Len(g[12]) = 27 /\ At2(r, 25, 221, 250) /\ Begun(c, g, 25)
  <2>1. PICK i : i = 12 /\ i - 1 = 11 /\ i \in 1 .. Len(c)
    BY <1>1
  <2>2. Follows(c, g, i) /\ Is2(c[i], 221, 250)
    BY <1>0, <1>1, <2>1 DEF Keeps
  <2>3. Len(g[i]) = Len(g[i - 1]) + 2 /\ At2(g[Len(c)], Len(g[i - 1]), 221, 250)
    BY <2>2, Assembled2, ZenonT(40)
  <2>4. Len(g[i - 1]) = 25
    BY <1>14, <2>1
  <2>5. Begun(c, g, 25)
    BY <1>1, <2>1, <2>4 DEF Begun
  <2> QED
    BY <1>2, <2>1, <2>3, <2>4, <2>5
<1>16. Len(g[13]) = 29 /\ At2(r, 27, 229, 174) /\ Begun(c, g, 27)
  <2>1. PICK i : i = 13 /\ i - 1 = 12 /\ i \in 1 .. Len(c)
    BY <1>1
  <2>2. Follows(c, g, i) /\ Is2(c[i], 229, 174)
    BY <1>0, <1>1, <2>1 DEF Keeps
  <2>3. Len(g[i]) = Len(g[i - 1]) + 2 /\ At2(g[Len(c)], Len(g[i - 1]), 229, 174)
    BY <2>2, Assembled2, Zenon
  <2>4. Len(g[i - 1]) = 27
    BY <1>15, <2>1
  <2>5. Begun(c, g, 27)
    BY <1>1, <2>1, <2>4 DEF Begun
  <2> QED
    BY <1>2, <2>1, <2>3, <2>4, <2>5
<1>17. Len(g[14]) = 32 /\ At3(r, 29, 32, 230, 251) /\ Begun(c, g, 29)
  <2>1. PICK i : i = 14 /\ i - 1 = 13 /\ i \in 1 .. Len(c)
    BY <1>1
  <2>2. Follows(c, g, i) /\ Is3(c[i], 32, 230, 251)
    BY <1>0, <1>1, <2>1 DEF Keeps
  <2>3. Len(g[i]) = Len(g[i - 1]) + 3 /\ At3(g[Len(c)], Len(g[i - 1]), 32, 230, 251)
    BY <2>2, Assembled3, ZenonT(40)
  <2>4. Len(g[i - 1]) = 29
    BY <1>16, <2>1
  <2>5. Begun(c, g, 29)
    BY <1>1, <2>1, <2>4 DEF Begun
  <2> QED
    BY <1>2, <2>1, <2>3, <2>4, <2>5
<1>18. Len(g[15]) = 34 /\ At2(r, 32, 222, 241) /\ Begun(c, g, 32)
  <2>1. PICK i : i = 15 /\ i - 1 = 14 /\ i \in 1 .. Len(c)
    BY <1>1
  <2>2. Follows(c, g, i) /\ Is2(c[i], 222, 241)
    BY <1>0, <1>1, <2>1 DEF Keeps
  <2>3. Len(g[i]) = Len(g[i - 1]) + 2 /\ At2(g[Len(c)], Len(g[i - 1]), 222, 241)
    BY <2>2, Assembled2, ZenonT(40)
  <2>4. Len(g[i - 1]) = 32
    BY <1>17, <2>1
  <2>5. Begun(c, g, 32)
    BY <1>1, <2>1, <2>4 DEF Begun
  <2> QED
    BY <1>2, <2>1, <2>3, <2>4, <2>5
<1>19. Len(g[16]) = 36 /\ At2(r, 34, 223, 239) /\ Begun(c, g, 34)
  <2>1. PICK i : i = 16 /\ i - 1 = 15 /\ i \in 1 .. Len(c)
    BY <1>1
  <2>2. Follows(c, g, i) /\ Is2(c[i], 223, 239)
    BY <1>0, <1>1, <2>1 DEF Keeps
  <2>3. Len(g[i]) = Len(g[i - 1]) + 2 /\ At2(g[Len(c)], Len(g[i - 1]), 223, 239)
    BY <2>2, Assembled2, ZenonT(40)
  <2>4. Len(g[i - 1]) = 34
    BY <1>18, <2>1
  <2>5. Begun(c, g, 34)
    BY <1>1, <2>1, <2>4 DEF Begun
  <2> QED
    BY <1>2, <2>1, <2>3, <2>4, <2>5
<1>20. Len(g[17]) = 39 /\ At3(r, 36, 117, 254, 0) /\ Begun(c, g, 36)
  <2>1. PICK i : i = 17 /\ i - 1 = 16 /\ i \in 1 .. Len(c)
    BY <1>1
  <2>2. Follows(c, g, i) /\ Is3(c[i], 117, 254, 0)
    BY <1>0, <1>1, <2>1 DEF Keeps
  <2>3. Len(g[i]) = Len(g[i - 1]) + 3 /\ At3(g[Len(c)], Len(g[i - 1]), 117, 254, 0)
    BY <2>2, Assembled3, Zenon
  <2>4. Len(g[i - 1]) = 36
    BY <1>19, <2>1
  <2>5. Begun(c, g, 36)
    BY <1>1, <2>1, <2>4 DEF Begun
  <2> QED
    BY <1>2, <2>1, <2>3, <2>4, <2>5
<1>21. Len(g[18]) = 40 /\ At1(r, 39, 165) /\ Begun(c, g, 39)
  <2>1. PICK i : i = 18 /\ i - 1 = 17 /\ i \in 1 .. Len(c)
    BY <1>1
  <2>2. Follows(c, g, i) /\ Is1(c[i], 165)
    BY <1>0, <1>1, <2>1 DEF Keeps
  <2>3. Len(g[i]) = Len(g[i - 1]) + 1 /\ At1(g[Len(c)], Len(g[i - 1]), 165)
    BY <2>2, Assembled1, Zenon
  <2>4. Len(g[i - 1]) = 39
    BY <1>20, <2>1
  <2>5. Begun(c, g, 39)
    BY <1>1, <2>1, <2>4 DEF Begun
  <2> QED
    BY <1>2, <2>1, <2>3, <2>4, <2>5
<1>22. Listed(r, page, FALSE, 9)
  BY <1>1, <1>2, <1>4, <1>5, <1>6, <1>7, <1>8, <1>9, <1>10, <1>11, <1>12, <1>13, <1>14,
     <1>15, <1>16, <1>17, <1>18, <1>19, <1>20, <1>21, SMTT(60) DEF Listed
<1>23. ASSUME NEW b \in Begins(FALSE, 9)
       PROVE  Begun(c, g, b)
  <2>1. \/ b = 0 \/ b = 3 \/ b = 6 \/ b = 9 \/ b = 12 \/ b = 14 \/ b = 16
        \/ b = 19 \/ b = 21 \/ b = 22 \/ b = 23 \/ b = 25 \/ b = 27 \/ b = 29
        \/ b = 32 \/ b = 34 \/ b = 36 \/ b = 39
    BY DEF Begins
  <2>2. /\ Begun(c, g, 0) /\ Begun(c, g, 3) /\ Begun(c, g, 6) /\ Begun(c, g, 9) /\ Begun(c, g, 12)
        /\ Begun(c, g, 14) /\ Begun(c, g, 16) /\ Begun(c, g, 19) /\ Begun(c, g, 21)
        /\ Begun(c, g, 22) /\ Begun(c, g, 23) /\ Begun(c, g, 25) /\ Begun(c, g, 27)
        /\ Begun(c, g, 29) /\ Begun(c, g, 32) /\ Begun(c, g, 34) /\ Begun(c, g, 36)
        /\ Begun(c, g, 39)
    BY <1>1, <1>2, <1>4, <1>5, <1>6, <1>7, <1>8, <1>9, <1>10, <1>11, <1>12, <1>13, <1>14,
       <1>15, <1>16, <1>17, <1>18, <1>19, <1>20, <1>21
  <2> QED
    BY <2>1, <2>2, ZenonT(40)
<1> QED
  BY <1>2, <1>22, <1>23

LEMMA RoutineListed ==
    ASSUME NEW j \in Jobs, NEW k, k = IF j.erase THEN 17 ELSE 9
    PROVE  Listed(Routine[j], j.page, j.erase, k)
<1>1. j.page \in 0 .. 63 /\ j.erase \in BOOLEAN
  BY JobsAssumption
<1>2. PICK c : c = Instructions(j.page, j.erase)
  OBVIOUS
<1>3. PICK g : g = BytesUpTo(c)
  OBVIOUS
<1>4. Routine[j] = g[Len(c)]
  BY <1>2, <1>3 DEF Routine
<1>5. CASE j.erase
  <2>1. j.erase = TRUE /\ k = 17
    BY <1>1, <1>5
  <2>2. Erases(j.page, c)
    BY <1>1, <1>2, <2>1, InstructionsAre
  <2>3. Listed(g[Len(c)], j.page, TRUE, 17)
    BY <1>1, <1>3, <2>2, ErasesListed
  <2> QED
    BY <1>4, <2>1, <2>3, Zenon
<1>6. CASE ~ j.erase
  <2>1. j.erase = FALSE /\ k = 9
    BY <1>1, <1>6
  <2>2. Keeps(j.page, c)
    BY <1>1, <1>2, <2>1, InstructionsAre
  <2>3. Listed(g[Len(c)], j.page, FALSE, 9)
    BY <1>1, <1>3, <2>2, KeepsListed
  <2> QED
    BY <1>4, <2>1, <2>3, Zenon
<1> QED
  BY <1>5, <1>6

LEMMA StartsListed ==
    ASSUME NEW e \in BOOLEAN, NEW k, k = IF e THEN 17 ELSE 9, NEW b \in Begins(e, k)
    PROVE  CodeAddr + b \in Starts[e]
<1>1. PICK c : c = Instructions(0, e)
  OBVIOUS
<1>2. PICK g : g = BytesUpTo(c)
  OBVIOUS
<1>3. Starts[e] = {CodeAddr + Len(g[i]) : i \in 0 .. Len(c) - 1}
  BY <1>1, <1>2 DEF Starts
<1>4. Begun(c, g, b)
  <2>1. CASE e
    <3>1. e = TRUE /\ k = 17 /\ b \in Begins(TRUE, 17)
      BY <2>1
    <3>2. PICK page \in 0 .. 63 : page = 0
      OBVIOUS
    <3>3. Erases(page, c)
      BY <1>1, <3>1, <3>2, InstructionsAre
    <3> QED
      BY <1>2, <3>1, <3>2, <3>3, ErasesListed
  <2>2. CASE ~ e
    <3>1. e = FALSE /\ k = 9 /\ b \in Begins(FALSE, 9)
      BY <2>2
    <3>2. PICK page \in 0 .. 63 : page = 0
      OBVIOUS
    <3>3. Keeps(page, c)
      BY <1>1, <3>1, <3>2, InstructionsAre
    <3> QED
      BY <1>2, <3>1, <3>2, <3>3, KeepsListed
  <2> QED
    BY <2>1, <2>2
<1> QED
  BY <1>3, <1>4 DEF Begun

-----------------------------------------------------------------------------
(* What the CPU finds at each instruction, and which action that is.        *)

Code1(o, a)       == Pc(o) => ram[core.pc] = a
Code2(o, a, b)    == Pc(o) => ram[core.pc] = a /\ Operand(1) = b
Code3(o, a, b, d) == Pc(o) => ram[core.pc] = a /\ Operand(1) = b /\ Operand(2) = d

LEMMA CodeLoaded ==
    ASSUME Loaded, Len(Routine[job]) \in Nat, NEW o \in Nat
    PROVE  /\ \A a : At1(Routine[job], o, a) /\ o + 1 <= Len(Routine[job]) => Code1(o, a)
           /\ \A a, b :
                 At2(Routine[job], o, a, b) /\ o + 2 <= Len(Routine[job]) => Code2(o, a, b)
           /\ \A a, b, d :
                 At3(Routine[job], o, a, b, d) /\ o + 3 <= Len(Routine[job])
                    => Code3(o, a, b, d)
<1>1. CodeAddr \in Nat
  BY DEF CodeAddr, DataAddr, PageSize
<1>2. PICK r : r = Routine[job]
  OBVIOUS
<1>3. \A i \in 1 .. Len(r) : ram[CodeAddr + i - 1] = r[i]
  BY <1>2 DEF Loaded
<1>4. o + 1 <= Len(r) => ram[CodeAddr + o] = r[o + 1]
  BY <1>1, <1>2, <1>3
<1>5. o + 2 <= Len(r) => ram[CodeAddr + o + 1] = r[o + 2]
  BY <1>1, <1>2, <1>3
<1>6. o + 3 <= Len(r) => ram[CodeAddr + o + 2] = r[o + 3]
  BY <1>1, <1>2, <1>3
<1>7. Len(r) \in Nat
  BY <1>2
<1>8. ASSUME NEW a, At1(r, o, a), o + 1 <= Len(r)
      PROVE  Code1(o, a)
  BY <1>4, <1>8 DEF Code1, Pc, At1
<1>9. ASSUME NEW a, NEW b, At2(r, o, a, b), o + 2 <= Len(r)
      PROVE  Code2(o, a, b)
  BY <1>4, <1>5, <1>7, <1>9 DEF Code2, Pc, At2, Operand
<1>10. ASSUME NEW a, NEW b, NEW d, At3(r, o, a, b, d), o + 3 <= Len(r)
       PROVE  Code3(o, a, b, d)
  BY <1>4, <1>5, <1>6, <1>7, <1>10 DEF Code3, Pc, At3, Operand
<1> QED
  BY <1>2, <1>8, <1>9, <1>10

Program ==
    /\ Code3(0, 117, FADDRH, 2 * job.page) /\ Code3(3, 117, P1DIR, 1)
    /\ Code3(6, 117, FADDRL, 0)
    /\ job.erase => Code3(9, 117, FLC, 1) /\ Code2(12, 229, FLC) /\ Code3(14, 32, 231, 251)
    /\ Code3(K, 144, 240, 0) /\ Code2(K + 3, 127, 2) /\ Code2(K + 5, 126, 0)
    /\ Code3(K + 7, 117, FLC, 2) /\ Code2(K + 10, 125, 4) /\ Code1(K + 12, 224)
    /\ Code1(K + 13, 163) /\ Code2(K + 14, 245, FWDATA) /\ Code2(K + 16, 221, 250)
    /\ Code2(K + 18, 229, FLC) /\ Code3(K + 20, 32, 230, 251) /\ Code2(K + 23, 222, 241)
    /\ Code2(K + 25, 223, 239) /\ Code3(K + 27, 117, P1DIR, 0) /\ Code1(K + 30, 165)

LEMMA ProgramLoaded ==
    ASSUME job \in Jobs, Loaded
    PROVE  Program
<1>1. K \in Nat /\ (job.erase => K = 17) /\ K >= 9
  BY JobsAssumption DEF K
<1>2. PICK r, k, page : r = Routine[job] /\ k = K /\ page = job.page
  OBVIOUS
<1>3. Listed(r, page, job.erase, k)
  BY <1>2, RoutineListed DEF K
<1>4. Len(r) = k + 31 /\ Len(Routine[job]) \in Nat /\ k \in Nat /\ Len(r) \in Nat
  BY <1>1, <1>2, <1>3 DEF Listed
<1> DEFINE Fits(o, n) == o \in Nat /\ o + n <= Len(r)
<1>5. /\ \A o, a : At1(r, o, a) /\ Fits(o, 1) => Code1(o, a)
      /\ \A o, a, b : At2(r, o, a, b) /\ Fits(o, 2) => Code2(o, a, b)
      /\ \A o, a, b, d : At3(r, o, a, b, d) /\ Fits(o, 3) => Code3(o, a, b, d)
  BY <1>2, <1>4, CodeLoaded
<1>6. /\ Fits(0, 3) /\ Fits(3, 3) /\ Fits(6, 3)
      /\ job.erase => Fits(9, 3) /\ Fits(12, 2) /\ Fits(14, 3)
      /\ Fits(k, 3) /\ Fits(k + 3, 2) /\ Fits(k + 5, 2) /\ Fits(k + 7, 3) /\ Fits(k + 10, 2)
      /\ Fits(k + 12, 1) /\ Fits(k + 13, 1) /\ Fits(k + 14, 2) /\ Fits(k + 16, 2)
      /\ Fits(k + 18, 2) /\ Fits(k + 20, 3) /\ Fits(k + 23, 2) /\ Fits(k + 25, 2)
      /\ Fits(k + 27, 3) /\ Fits(k + 30, 1)
  BY <1>1, <1>2, <1>4
<1> HIDE DEF Fits
<1>7. /\ Code3(0, 117, 173, 2 * page) /\ Code3(3, 117, 254, 1) /\ Code3(6, 117, 172, 0)
      /\ job.erase => Code3(9, 117, 174, 1) /\ Code2(12, 229, 174) /\ Code3(14, 32, 231, 251)
  BY <1>3, <1>5, <1>6, ZenonT(60) DEF Listed
<1>8. /\ Code3(k, 144, 240, 0) /\ Code2(k + 3, 127, 2) /\ Code2(k + 5, 126, 0)
      /\ Code3(k + 7, 117, 174, 2) /\ Code2(k + 10, 125, 4) /\ Code1(k + 12, 224)
      /\ Code1(k + 13, 163) /\ Code2(k + 14, 245, 175) /\ Code2(k + 16, 221, 250)
  BY <1>3, <1>5, <1>6 DEF Listed
<1>9. /\ Code2(k + 18, 229, 174) /\ Code3(k + 20, 32, 230, 251) /\ Code2(k + 23, 222, 241)
      /\ Code2(k + 25, 223, 239) /\ Code3(k + 27, 117, 254, 0) /\ Code1(k + 30, 165)
  BY <1>3, <1>5, <1>6 DEF Listed
<1> QED
  BY <1>2, <1>7, <1>8, <1>9 DEF Program, FADDRH, FADDRL, FLC, FWDATA, P1DIR

LEMMA Opcodes ==
    ASSUME Execute
    PROVE  /\ UNCHANGED hostVars /\ core.runs
           /\ ram[core.pc] = 117 => MovAddress \/ MovPort \/ MovFlc
           /\ ram[core.pc] = 229 => MovAFlc
           /\ ram[core.pc] = 32 => Jb
           /\ ram[core.pc] = 144 => MovDptr
           /\ \A k \in 5 .. 7 : ram[core.pc] = 120 + k => MovReg(k)
           /\ ram[core.pc] = 224 => MovxADptr
           /\ ram[core.pc] = 163 => IncDptr
           /\ ram[core.pc] = 245 => MovFwdata
           /\ \A k \in 5 .. 7 : ram[core.pc] = 216 + k => Djnz(k)
           /\ ram[core.pc] = 165 => Break
<1>1. /\ MovAddress \/ MovPort \/ MovFlc => Fetch(117)
      /\ MovAFlc => Fetch(229)
      /\ Jb => Fetch(32)
      /\ MovDptr => Fetch(144)
      /\ \A k \in 5 .. 7 : MovReg(k) => Fetch(120 + k)
      /\ MovxADptr => Fetch(224)
      /\ IncDptr => Fetch(163)
      /\ MovFwdata => Fetch(245)
      /\ \A k \in 5 .. 7 : Djnz(k) => Fetch(216 + k)
      /\ Break => Fetch(165)
  BY DEF MovAddress, MovPort, MovFlc, MovAFlc, Jb, MovDptr, MovReg, MovxADptr, IncDptr,
         MovFwdata, Djnz, Break
<1>2. \A x : Fetch(x) => ram[core.pc] = x /\ UNCHANGED hostVars /\ core.runs
  BY DEF Fetch
<1> QED
  BY <1>1, <1>2 DEF Execute

\* The CPU goes on at o with these registers.
Runs(o, acc, dptr, r) ==
    core' = [runs |-> TRUE, pc |-> CodeAddr + o, acc |-> acc, dptr |-> dptr, r |-> r]

LEMMA WordsAreNat == \A x \in Word16 : x \in Nat /\ x <= 65535
  BY DEF Word16

LEMMA CoreTypes ==
    ASSUME TypeOK
    PROVE  /\ core \in [runs : BOOLEAN, pc : Word16, acc : Byte, dptr : Word16, r : Registers]
           /\ core.pc \in Nat /\ core.dptr \in Word16 /\ core.acc \in Byte
           /\ core.r \in Registers /\ faddr \in Word16 /\ CodeAddr \in Nat /\ K \in Nat
<1>1. /\ core \in [runs : BOOLEAN, pc : Word16, acc : Byte, dptr : Word16, r : Registers]
      /\ faddr \in Word16
  BY DEF TypeOK
<1>2. CodeAddr \in Nat /\ K \in Nat
  BY DEF CodeAddr, DataAddr, PageSize, K
<1>3. core.pc \in Word16
  BY <1>1
<1> QED
  BY <1>1, <1>2, <1>3, WordsAreNat

\* The registers after an instruction that goes on to the next, or to o.
LEMMA Moves ==
    ASSUME TypeOK, core.runs, NEW n \in Nat, NEW o \in Nat, Pc(o), NEW p, p = o + n
    PROVE  /\ core' = After(n) => Runs(p, core.acc, core.dptr, core.r)
           /\ \A a : core' = [After(n) EXCEPT !.acc = a] => Runs(p, a, core.dptr, core.r)
           /\ \A d : core' = [After(n) EXCEPT !.dptr = d] => Runs(p, core.acc, d, core.r)
           /\ \A k, x : core' = [After(n) EXCEPT !.r[k] = x]
                           => Runs(p, core.acc, core.dptr, [core.r EXCEPT ![k] = x])
<1>1. core.pc + n = CodeAddr + p
  <2>1. core.pc \in Nat /\ CodeAddr \in Nat /\ core.pc = CodeAddr + o
    BY CoreTypes DEF Pc
  <2> QED
    BY <2>1
<1>2. core \in [runs : BOOLEAN, pc : Word16, acc : Byte, dptr : Word16, r : Registers]
  BY CoreTypes
<1>3. core' = After(n) => Runs(p, core.acc, core.dptr, core.r)
  BY <1>1, <1>2 DEF After, Runs, Pc
<1>4. ASSUME NEW a, core' = [After(n) EXCEPT !.acc = a]
      PROVE  Runs(p, a, core.dptr, core.r)
  BY <1>1, <1>2, <1>4 DEF After, Runs, Pc
<1>5. ASSUME NEW d, core' = [After(n) EXCEPT !.dptr = d]
      PROVE  Runs(p, core.acc, d, core.r)
  BY <1>1, <1>2, <1>5 DEF After, Runs, Pc
<1>6. ASSUME NEW k, NEW x, core' = [After(n) EXCEPT !.r[k] = x]
      PROVE  Runs(p, core.acc, core.dptr, [core.r EXCEPT ![k] = x])
  BY <1>1, <1>2, <1>6 DEF After, Runs, Pc
<1> QED
  BY <1>3, <1>4, <1>5, <1>6

LEMMA Jumps ==
    ASSUME TypeOK, core.runs, NEW n \in Nat, NEW o \in Nat, Pc(o), NEW rel \in 128 .. 255,
           NEW p, p = o + n + rel - 256
    PROVE  /\ core' = Jumped(After(n), rel) => Runs(p, core.acc, core.dptr, core.r)
           /\ \A k, x : core' = Jumped([After(n) EXCEPT !.r[k] = x], rel)
                           => Runs(p, core.acc, core.dptr, [core.r EXCEPT ![k] = x])
<1>1. (core.pc + n) + (rel - 256) = CodeAddr + p
  <2>1. core.pc \in Nat /\ CodeAddr \in Nat /\ core.pc = CodeAddr + o
    BY CoreTypes DEF Pc
  <2> QED
    BY <2>1
<1>2. core \in [runs : BOOLEAN, pc : Word16, acc : Byte, dptr : Word16, r : Registers]
  BY CoreTypes
<1>3. PICK e : e = rel - 256
  OBVIOUS
<1>4. \A c : Jumped(c, rel) = [c EXCEPT !.pc = @ + e]
  BY <1>3 DEF Jumped
<1>5. ASSUME core' = Jumped(After(n), rel)
      PROVE  Runs(p, core.acc, core.dptr, core.r)
  <2>1. core' = [After(n) EXCEPT !.pc = @ + e]
    BY <1>4, <1>5
  <2>2. core' = [core EXCEPT !.pc = core.pc + n + e]
    BY <1>2, <2>1 DEF After
  <2>3. core.pc + n + e = CodeAddr + p
    BY <1>1, <1>3
  <2> QED
    BY <1>2, <2>2, <2>3 DEF Runs
<1>6. ASSUME NEW k, NEW x, core' = Jumped([After(n) EXCEPT !.r[k] = x], rel)
      PROVE  Runs(p, core.acc, core.dptr, [core.r EXCEPT ![k] = x])
  <2>1. core' = [[After(n) EXCEPT !.r[k] = x] EXCEPT !.pc = @ + e]
    BY <1>4, <1>6
  <2> QED
    BY <1>1, <1>2, <1>3, <2>1 DEF After, Runs, Pc
<1> QED
  BY <1>5, <1>6

Status == CASE busy = "erase" -> 128 [] busy = "word" -> 64 [] OTHER -> 0

\* the instructions up to the wait for the page erase
LEMMA EraseSteps ==
    ASSUME TypeOK, Program, Execute
    PROVE  /\ Pc(0) => /\ Runs(3, core.acc, core.dptr, core.r)
                       /\ faddr' = 256 * (2 * job.page) + LowByte(faddr)
                       /\ UNCHANGED <<writing, latch, busy, cells, strays>>
           /\ Pc(3) => Runs(6, core.acc, core.dptr, core.r) /\ UNCHANGED flashVars
           /\ Pc(6) => /\ Runs(9, core.acc, core.dptr, core.r)
                       /\ faddr' = 256 * HighByte(faddr) + 0
                       /\ UNCHANGED <<writing, latch, busy, cells, strays>>
           /\ job.erase /\ Pc(9) => /\ Runs(12, core.acc, core.dptr, core.r)
                                    /\ busy' = "erase" /\ ~ writing'
                                    /\ UNCHANGED <<faddr, latch, cells, strays>>
           /\ job.erase /\ Pc(12) => /\ Runs(14, Status, core.dptr, core.r)
                                     /\ UNCHANGED flashVars
           /\ job.erase /\ Pc(14) => /\ Runs(IF (core.acc \div 128) % 2 = 1 THEN 12 ELSE 17,
                                             core.acc, core.dptr, core.r)
                                     /\ UNCHANGED flashVars
<1>1. core.runs
  BY Opcodes
<1>2. ASSUME Pc(0)
      PROVE  /\ Runs(3, core.acc, core.dptr, core.r)
             /\ faddr' = 256 * (2 * job.page) + LowByte(faddr)
             /\ UNCHANGED <<writing, latch, busy, cells, strays>>
  <2>1. ram[core.pc] = 117 /\ Operand(1) = FADDRH /\ Operand(2) = 2 * job.page
    BY <1>2 DEF Program, Code3
  <2>2. MovAddress
    BY <2>1, Opcodes DEF MovPort, MovFlc, FADDRH, P1DIR, FLC
  <2>3. core' = After(3) /\ faddr' = 256 * Operand(2) + LowByte(faddr)
        /\ UNCHANGED <<writing, latch, busy, cells, strays>>
    BY <2>1, <2>2 DEF MovAddress, FADDRH, FADDRL
  <2>4. Runs(3, core.acc, core.dptr, core.r)
    BY <1>1, <1>2, <2>3, Moves
  <2> QED
    BY <2>1, <2>3, <2>4
<1>3. ASSUME Pc(3)
      PROVE  Runs(6, core.acc, core.dptr, core.r) /\ UNCHANGED flashVars
  <2>1. ram[core.pc] = 117 /\ Operand(1) = P1DIR
    BY <1>3 DEF Program, Code3
  <2>2. MovPort
    BY <2>1, Opcodes DEF MovAddress, MovFlc, FADDRH, FADDRL, P1DIR, FLC
  <2>3. core' = After(3) /\ UNCHANGED flashVars
    BY <2>2 DEF MovPort
  <2>4. Runs(6, core.acc, core.dptr, core.r)
    BY <1>1, <1>3, <2>3, Moves
  <2> QED
    BY <2>3, <2>4
<1>4. ASSUME Pc(6)
      PROVE  /\ Runs(9, core.acc, core.dptr, core.r)
             /\ faddr' = 256 * HighByte(faddr) + 0
             /\ UNCHANGED <<writing, latch, busy, cells, strays>>
  <2>1. ram[core.pc] = 117 /\ Operand(1) = FADDRL /\ Operand(2) = 0
    BY <1>4 DEF Program, Code3
  <2>2. MovAddress
    BY <2>1, Opcodes DEF MovPort, MovFlc, FADDRL, P1DIR, FLC
  <2>3. core' = After(3) /\ faddr' = 256 * HighByte(faddr) + Operand(2)
        /\ UNCHANGED <<writing, latch, busy, cells, strays>>
    BY <2>1, <2>2 DEF MovAddress, FADDRH, FADDRL
  <2>4. Runs(9, core.acc, core.dptr, core.r)
    BY <1>1, <1>4, <2>3, Moves
  <2> QED
    BY <2>1, <2>3, <2>4
<1>5. ASSUME job.erase, Pc(9)
      PROVE  /\ Runs(12, core.acc, core.dptr, core.r)
             /\ busy' = "erase" /\ ~ writing' /\ UNCHANGED <<faddr, latch, cells, strays>>
  <2>1. ram[core.pc] = 117 /\ Operand(1) = FLC /\ Operand(2) = 1
    BY <1>5 DEF Program, Code3
  <2>2. MovFlc
    BY <2>1, Opcodes DEF MovAddress, MovPort, FADDRH, FADDRL, P1DIR, FLC
  <2>3. /\ core' = After(3) /\ busy' = "erase" /\ ~ writing'
        /\ UNCHANGED <<faddr, latch, cells, strays>>
    <3>1. 1 % 2 = 1 /\ 1 \div 2 # 1
      OBVIOUS
    <3>2. /\ core' = After(3) /\ UNCHANGED <<faddr, latch, cells, strays>>
          /\ busy' = (IF 1 % 2 = 1 THEN "erase" ELSE busy) /\ writing' = (1 \div 2 = 1)
      BY <2>1, <2>2 DEF MovFlc
    <3> QED
      BY <3>1, <3>2
  <2>4. Runs(12, core.acc, core.dptr, core.r)
    BY <1>1, <1>5, <2>3, Moves
  <2> QED
    BY <2>3, <2>4
<1>6. ASSUME job.erase, Pc(12)
      PROVE  Runs(14, Status, core.dptr, core.r) /\ UNCHANGED flashVars
  <2>1. ram[core.pc] = 229
    BY <1>6 DEF Program, Code2
  <2>2. MovAFlc
    BY <2>1, Opcodes
  <2>3. core' = [After(2) EXCEPT !.acc = Status] /\ UNCHANGED flashVars
    BY <2>2 DEF MovAFlc, Status
  <2>4. Runs(14, Status, core.dptr, core.r)
    BY <1>1, <1>6, <2>3, Moves
  <2> QED
    BY <2>3, <2>4
<1>7. ASSUME job.erase, Pc(14)
      PROVE  /\ Runs(IF (core.acc \div 128) % 2 = 1 THEN 12 ELSE 17,
                     core.acc, core.dptr, core.r)
             /\ UNCHANGED flashVars
  <2>1. ram[core.pc] = 32 /\ Operand(1) = 231 /\ Operand(2) = 251
    BY <1>7 DEF Program, Code3
  <2>2. Jb
    BY <2>1, Opcodes
  <2>3. /\ core' = IF (core.acc \div 128) % 2 = 1 THEN Jumped(After(3), 251) ELSE After(3)
        /\ UNCHANGED flashVars
    BY <2>1, <2>2 DEF Jb
  <2>4. (core.acc \div 128) % 2 = 1 => Runs(12, core.acc, core.dptr, core.r)
    BY <1>1, <1>7, <2>3, Jumps, SMTT(40)
  <2>5. (core.acc \div 128) % 2 # 1 => Runs(17, core.acc, core.dptr, core.r)
    BY <1>1, <1>7, <2>3, Moves
  <2> QED
    BY <2>3, <2>4, <2>5
<1> QED
  BY <1>2, <1>3, <1>4, <1>5, <1>6, <1>7

\* the instructions before the loops
LEMMA SetupSteps ==
    ASSUME TypeOK, Program, Execute
    PROVE  /\ Pc(K) => Runs(K + 3, core.acc, DataAddr, core.r) /\ UNCHANGED flashVars
           /\ Pc(K + 3) => /\ Runs(K + 5, core.acc, core.dptr, [core.r EXCEPT ![7] = 2])
                           /\ UNCHANGED flashVars
           /\ Pc(K + 5) => /\ Runs(K + 7, core.acc, core.dptr, [core.r EXCEPT ![6] = 0])
                           /\ UNCHANGED flashVars
           /\ Pc(K + 7) => /\ Runs(K + 10, core.acc, core.dptr, core.r)
                           /\ writing' /\ UNCHANGED <<faddr, latch, busy, cells, strays>>
           /\ Pc(K + 27) => Runs(K + 30, core.acc, core.dptr, core.r) /\ UNCHANGED flashVars
           /\ Pc(K + 30) => ~ core'.runs /\ UNCHANGED flashVars
<1>1. core.runs /\ K \in Nat
  BY Opcodes DEF K
<1>2. ASSUME Pc(K)
      PROVE  Runs(K + 3, core.acc, DataAddr, core.r) /\ UNCHANGED flashVars
  <2>1. ram[core.pc] = 144 /\ Operand(1) = 240 /\ Operand(2) = 0
    BY <1>2 DEF Program, Code3
  <2>2. MovDptr
    BY <2>1, Opcodes
  <2>3. core' = [After(3) EXCEPT !.dptr = DataAddr] /\ UNCHANGED flashVars
    BY <2>1, <2>2 DEF MovDptr, DataAddr
  <2>4. Runs(K + 3, core.acc, DataAddr, core.r)
    BY <1>1, <1>2, <2>3, Moves
  <2> QED
    BY <2>3, <2>4
<1>3. ASSUME Pc(K + 3)
      PROVE  /\ Runs(K + 5, core.acc, core.dptr, [core.r EXCEPT ![7] = 2])
             /\ UNCHANGED flashVars
  <2>1. ram[core.pc] = 120 + 7 /\ Operand(1) = 2
    BY <1>3 DEF Program, Code2
  <2>2. MovReg(7)
    BY <2>1, Opcodes
  <2>3. core' = [After(2) EXCEPT !.r[7] = 2] /\ UNCHANGED flashVars
    BY <2>1, <2>2 DEF MovReg
  <2>4. K + 3 \in Nat /\ K + 5 = (K + 3) + 2
    BY <1>1
  <2>5. Runs(K + 5, core.acc, core.dptr, [core.r EXCEPT ![7] = 2])
    BY <1>1, <1>3, <2>3, <2>4, Moves
  <2> QED
    BY <2>3, <2>5
<1>4. ASSUME Pc(K + 5)
      PROVE  /\ Runs(K + 7, core.acc, core.dptr, [core.r EXCEPT ![6] = 0])
             /\ UNCHANGED flashVars
  <2>1. ram[core.pc] = 120 + 6 /\ Operand(1) = 0
    BY <1>4 DEF Program, Code2
  <2>2. MovReg(6)
    BY <2>1, Opcodes
  <2>3. core' = [After(2) EXCEPT !.r[6] = 0] /\ UNCHANGED flashVars
    BY <2>1, <2>2 DEF MovReg
  <2>4. K + 5 \in Nat /\ K + 7 = (K + 5) + 2
    BY <1>1
  <2>5. Runs(K + 7, core.acc, core.dptr, [core.r EXCEPT ![6] = 0])
    BY <1>1, <1>4, <2>3, <2>4, Moves
  <2> QED
    BY <2>3, <2>5
<1>5. ASSUME Pc(K + 7)
      PROVE  /\ Runs(K + 10, core.acc, core.dptr, core.r)
             /\ writing' /\ UNCHANGED <<faddr, latch, busy, cells, strays>>
  <2>1. ram[core.pc] = 117 /\ Operand(1) = FLC /\ Operand(2) = 2
    BY <1>5 DEF Program, Code3
  <2>2. MovFlc
    BY <2>1, Opcodes DEF MovAddress, MovPort, FADDRH, FADDRL, P1DIR, FLC
  <2>3. /\ core' = After(3) /\ writing' /\ UNCHANGED <<faddr, latch, busy, cells, strays>>
    <3>1. 2 % 2 # 1 /\ 2 \div 2 = 1
      OBVIOUS
    <3>2. /\ core' = After(3) /\ UNCHANGED <<faddr, latch, cells, strays>>
          /\ busy' = (IF 2 % 2 = 1 THEN "erase" ELSE busy) /\ writing' = (2 \div 2 = 1)
      BY <2>1, <2>2 DEF MovFlc
    <3> QED
      BY <3>1, <3>2
  <2>4. K + 7 \in Nat /\ K + 10 = (K + 7) + 3
    BY <1>1
  <2>5. Runs(K + 10, core.acc, core.dptr, core.r)
    BY <1>1, <1>5, <2>3, <2>4, Moves
  <2> QED
    BY <2>3, <2>5
<1>6. ASSUME Pc(K + 27)
      PROVE  Runs(K + 30, core.acc, core.dptr, core.r) /\ UNCHANGED flashVars
  <2>1. ram[core.pc] = 117 /\ Operand(1) = P1DIR
    BY <1>6 DEF Program, Code3
  <2>2. MovPort
    BY <2>1, Opcodes DEF MovAddress, MovFlc, FADDRH, FADDRL, P1DIR, FLC
  <2>3. core' = After(3) /\ UNCHANGED flashVars
    BY <2>2 DEF MovPort
  <2>4. K + 27 \in Nat /\ K + 30 = (K + 27) + 3
    BY <1>1
  <2>5. Runs(K + 30, core.acc, core.dptr, core.r)
    BY <1>1, <1>6, <2>3, <2>4, Moves
  <2> QED
    BY <2>3, <2>5
<1>7. ASSUME Pc(K + 30)
      PROVE  ~ core'.runs /\ UNCHANGED flashVars
  <2>1. ram[core.pc] = 165
    BY <1>7 DEF Program, Code1
  <2>2. core' = [After(1) EXCEPT !.runs = FALSE] /\ UNCHANGED flashVars
    BY <2>1, Opcodes DEF Break
  <2> QED
    BY <2>2, CoreTypes DEF After
<1> QED
  BY <1>2, <1>3, <1>4, <1>5, <1>6, <1>7

\* what DJNZ leaves in register k
Less(k) == (core.r[k] - 1) % 256

LEMMA Loops ==
    ASSUME TypeOK, NEW k \in 5 .. 7, Djnz(k), NEW o \in Nat, Pc(o), Operand(1) \in 128 .. 255
    PROVE  /\ Runs(IF Less(k) # 0 THEN o + 2 + Operand(1) - 256 ELSE o + 2,
                   core.acc, core.dptr, [core.r EXCEPT ![k] = Less(k)])
           /\ UNCHANGED flashVars
<1>1. core \in [runs : BOOLEAN, pc : Word16, acc : Byte, dptr : Word16, r : Registers]
      /\ core.r \in Registers /\ core.runs
  BY CoreTypes DEF Djnz, Fetch
<1>2. PICK next : next = [After(2) EXCEPT !.r[k] = (@ - 1) % 256]
  OBVIOUS
<1>3. core' = (IF next.r[k] # 0 THEN Jumped(next, Operand(1)) ELSE next) /\ UNCHANGED flashVars
  BY <1>2 DEF Djnz
<1>4. next = [After(2) EXCEPT !.r[k] = Less(k)]
  BY <1>1, <1>2 DEF After, Less
<1>5. next.r = [core.r EXCEPT ![k] = Less(k)]
  BY <1>1, <1>4 DEF After
<1>6. next.r[k] = Less(k)
  BY <1>1, <1>5 DEF Registers
<1>7. CASE Less(k) # 0
  <2>1. core' = Jumped([After(2) EXCEPT !.r[k] = Less(k)], Operand(1))
    BY <1>3, <1>4, <1>6, <1>7
  <2>2. Runs(o + 2 + Operand(1) - 256, core.acc, core.dptr, [core.r EXCEPT ![k] = Less(k)])
    BY <1>1, <2>1, Jumps, ZenonT(60)
  <2> QED
    BY <1>3, <1>7, <2>2
<1>8. CASE Less(k) = 0
  <2>1. core' = [After(2) EXCEPT !.r[k] = Less(k)]
    BY <1>3, <1>4, <1>6, <1>8
  <2>2. Runs(o + 2, core.acc, core.dptr, [core.r EXCEPT ![k] = Less(k)])
    BY <1>1, <2>1, Moves
  <2> QED
    BY <1>3, <1>8, <2>2
<1> QED
  BY <1>7, <1>8

\* the instructions that give the controller one word
LEMMA CopySteps ==
    ASSUME TypeOK, Program, Execute
    PROVE  /\ Pc(K + 10) => /\ Runs(K + 12, core.acc, core.dptr, [core.r EXCEPT ![5] = 4])
                            /\ UNCHANGED flashVars
           /\ Pc(K + 12) => /\ Runs(K + 13, IF core.dptr \in Ram THEN ram[core.dptr] ELSE 0,
                                    core.dptr, core.r)
                            /\ UNCHANGED flashVars
           /\ Pc(K + 13) => /\ Runs(K + 14, core.acc, (core.dptr + 1) % 65536, core.r)
                            /\ UNCHANGED flashVars
           /\ Pc(K + 14) => /\ Runs(K + 16, core.acc, core.dptr, core.r)
                            /\ writing /\ busy = "no" =>
                                  /\ latch' = Append(latch, core.acc)
                                  /\ busy' = IF Len(latch) = 3 THEN "word" ELSE "no"
                            /\ UNCHANGED <<faddr, writing, cells, strays>>
           /\ Pc(K + 16) => /\ Runs(IF Less(5) # 0 THEN K + 12 ELSE K + 18,
                                    core.acc, core.dptr, [core.r EXCEPT ![5] = Less(5)])
                            /\ UNCHANGED flashVars
<1>1. core.runs /\ K \in Nat
  BY Opcodes DEF K
<1>2. ASSUME Pc(K + 10)
      PROVE  /\ Runs(K + 12, core.acc, core.dptr, [core.r EXCEPT ![5] = 4])
             /\ UNCHANGED flashVars
  <2>1. ram[core.pc] = 120 + 5 /\ Operand(1) = 4
    BY <1>2 DEF Program, Code2
  <2>2. MovReg(5)
    BY <2>1, Opcodes
  <2>3. core' = [After(2) EXCEPT !.r[5] = 4] /\ UNCHANGED flashVars
    BY <2>1, <2>2 DEF MovReg
  <2>4. K + 10 \in Nat /\ K + 12 = (K + 10) + 2
    BY <1>1
  <2>5. Runs(K + 12, core.acc, core.dptr, [core.r EXCEPT ![5] = 4])
    BY <1>1, <1>2, <2>3, <2>4, Moves
  <2> QED
    BY <2>3, <2>5
<1>3. ASSUME Pc(K + 12)
      PROVE  /\ Runs(K + 13, IF core.dptr \in Ram THEN ram[core.dptr] ELSE 0,
                     core.dptr, core.r)
             /\ UNCHANGED flashVars
  <2>1. PICK a : a = IF core.dptr \in Ram THEN ram[core.dptr] ELSE 0
    OBVIOUS
  <2>2. ram[core.pc] = 224
    BY <1>3 DEF Program, Code1
  <2>3. core' = [After(1) EXCEPT !.acc = a] /\ UNCHANGED flashVars
    BY <2>1, <2>2, Opcodes DEF MovxADptr
  <2>4. K + 12 \in Nat /\ K + 13 = (K + 12) + 1
    BY <1>1
  <2>5. Runs(K + 13, a, core.dptr, core.r)
    BY <1>1, <1>3, <2>3, <2>4, Moves
  <2> QED
    BY <2>1, <2>3, <2>5
<1>4. ASSUME Pc(K + 13)
      PROVE  /\ Runs(K + 14, core.acc, (core.dptr + 1) % 65536, core.r)
             /\ UNCHANGED flashVars
  <2>1. PICK d : d = (core.dptr + 1) % 65536
    OBVIOUS
  <2>2. ram[core.pc] = 163
    BY <1>4 DEF Program, Code1
  <2>3. After(1).dptr = core.dptr
    BY CoreTypes DEF After
  <2>4. core' = [After(1) EXCEPT !.dptr = d] /\ UNCHANGED flashVars
    BY <2>1, <2>2, <2>3, Opcodes DEF IncDptr
  <2>5. K + 13 \in Nat /\ K + 14 = (K + 13) + 1
    BY <1>1
  <2>6. Runs(K + 14, core.acc, d, core.r)
    BY <1>1, <1>4, <2>4, <2>5, Moves
  <2> QED
    BY <2>1, <2>4, <2>6
<1>5. ASSUME Pc(K + 14)
      PROVE  /\ Runs(K + 16, core.acc, core.dptr, core.r)
             /\ writing /\ busy = "no" =>
                   /\ latch' = Append(latch, core.acc)
                   /\ busy' = IF Len(latch) = 3 THEN "word" ELSE "no"
             /\ UNCHANGED <<faddr, writing, cells, strays>>
  <2>1. ram[core.pc] = 245
    BY <1>5 DEF Program, Code2
  <2>2. MovFwdata
    BY <2>1, Opcodes
  <2>3. /\ core' = After(2) /\ UNCHANGED <<faddr, writing, cells, strays>>
        /\ writing /\ busy = "no" =>
              /\ latch' = Append(latch, core.acc)
              /\ busy' = IF Len(latch) = WordSize - 1 THEN "word" ELSE "no"
    BY <2>2 DEF MovFwdata
  <2>4. WordSize - 1 = 3
    BY DEF WordSize
  <2>5. K + 14 \in Nat /\ K + 16 = (K + 14) + 2
    BY <1>1
  <2>6. Runs(K + 16, core.acc, core.dptr, core.r)
    BY <1>1, <1>5, <2>3, <2>5, Moves
  <2> QED
    BY <2>3, <2>4, <2>6
<1>6. ASSUME Pc(K + 16)
      PROVE  /\ Runs(IF Less(5) # 0 THEN K + 12 ELSE K + 18,
                     core.acc, core.dptr, [core.r EXCEPT ![5] = Less(5)])
             /\ UNCHANGED flashVars
  <2>1. ram[core.pc] = 216 + 5 /\ Operand(1) = 250
    BY <1>6 DEF Program, Code2
  <2>2. Djnz(5)
    BY <2>1, Opcodes
  <2>3. K + 16 \in Nat /\ (K + 16) + 2 = K + 18 /\ (K + 16) + 2 + 250 - 256 = K + 12
    BY <1>1
  <2>4. PICK o \in Nat : o = K + 16
    BY <2>3
  <2>5. /\ Runs(IF Less(5) # 0 THEN o + 2 + 250 - 256 ELSE o + 2,
                core.acc, core.dptr, [core.r EXCEPT ![5] = Less(5)])
        /\ UNCHANGED flashVars
    BY <1>6, <2>1, <2>2, <2>4, Loops
  <2> QED
    BY <2>3, <2>4, <2>5
<1> QED
  BY <1>2, <1>3, <1>4, <1>5, <1>6

\* the wait for the controller and the loop over the words
LEMMA WordSteps ==
    ASSUME TypeOK, Program, Execute
    PROVE  /\ Pc(K + 18) => Runs(K + 20, Status, core.dptr, core.r) /\ UNCHANGED flashVars
           /\ Pc(K + 20) => /\ Runs(IF (core.acc \div 64) % 2 = 1 THEN K + 18 ELSE K + 23,
                                    core.acc, core.dptr, core.r)
                            /\ UNCHANGED flashVars
           /\ Pc(K + 23) => /\ Runs(IF Less(6) # 0 THEN K + 10 ELSE K + 25,
                                    core.acc, core.dptr, [core.r EXCEPT ![6] = Less(6)])
                            /\ UNCHANGED flashVars
           /\ Pc(K + 25) => /\ Runs(IF Less(7) # 0 THEN K + 10 ELSE K + 27,
                                    core.acc, core.dptr, [core.r EXCEPT ![7] = Less(7)])
                            /\ UNCHANGED flashVars
<1>1. core.runs /\ K \in Nat
  BY Opcodes DEF K
<1>2. ASSUME Pc(K + 18)
      PROVE  Runs(K + 20, Status, core.dptr, core.r) /\ UNCHANGED flashVars
  <2>1. ram[core.pc] = 229
    BY <1>2 DEF Program, Code2
  <2>2. MovAFlc
    BY <2>1, Opcodes
  <2>3. core' = [After(2) EXCEPT !.acc = Status] /\ UNCHANGED flashVars
    BY <2>2 DEF MovAFlc, Status
  <2>4. K + 18 \in Nat /\ K + 20 = (K + 18) + 2
    BY <1>1
  <2>5. Runs(K + 20, Status, core.dptr, core.r)
    BY <1>1, <1>2, <2>3, <2>4, Moves
  <2> QED
    BY <2>3, <2>5
<1>3. ASSUME Pc(K + 20)
      PROVE  /\ Runs(IF (core.acc \div 64) % 2 = 1 THEN K + 18 ELSE K + 23,
                     core.acc, core.dptr, core.r)
             /\ UNCHANGED flashVars
  <2>1. ram[core.pc] = 32 /\ Operand(1) = 230 /\ Operand(2) = 251
    BY <1>3 DEF Program, Code3
  <2>2. Jb
    BY <2>1, Opcodes
  <2>3. /\ core' = IF (core.acc \div 64) % 2 = 1 THEN Jumped(After(3), 251) ELSE After(3)
        /\ UNCHANGED flashVars
    BY <2>1, <2>2 DEF Jb
  <2>4. K + 20 \in Nat /\ K + 18 = (K + 20) + 3 + 251 - 256 /\ K + 23 = (K + 20) + 3
    BY <1>1
  <2>5. (core.acc \div 64) % 2 = 1 => Runs(K + 18, core.acc, core.dptr, core.r)
    BY <1>1, <1>3, <2>3, <2>4, Jumps, SMTT(40)
  <2>6. (core.acc \div 64) % 2 # 1 => Runs(K + 23, core.acc, core.dptr, core.r)
    BY <1>1, <1>3, <2>3, <2>4, Moves
  <2> QED
    BY <2>3, <2>5, <2>6
<1>4. ASSUME Pc(K + 23)
      PROVE  /\ Runs(IF Less(6) # 0 THEN K + 10 ELSE K + 25,
                     core.acc, core.dptr, [core.r EXCEPT ![6] = Less(6)])
             /\ UNCHANGED flashVars
  <2>1. ram[core.pc] = 216 + 6 /\ Operand(1) = 241
    BY <1>4 DEF Program, Code2
  <2>2. Djnz(6)
    BY <2>1, Opcodes
  <2>3. K + 23 \in Nat /\ (K + 23) + 2 = K + 25 /\ (K + 23) + 2 + 241 - 256 = K + 10
    BY <1>1
  <2>4. PICK o \in Nat : o = K + 23
    BY <2>3
  <2>5. /\ Runs(IF Less(6) # 0 THEN o + 2 + 241 - 256 ELSE o + 2,
                core.acc, core.dptr, [core.r EXCEPT ![6] = Less(6)])
        /\ UNCHANGED flashVars
    BY <1>4, <2>1, <2>2, <2>4, Loops
  <2> QED
    BY <2>3, <2>4, <2>5
<1>5. ASSUME Pc(K + 25)
      PROVE  /\ Runs(IF Less(7) # 0 THEN K + 10 ELSE K + 27,
                     core.acc, core.dptr, [core.r EXCEPT ![7] = Less(7)])
             /\ UNCHANGED flashVars
  <2>1. ram[core.pc] = 216 + 7 /\ Operand(1) = 239
    BY <1>5 DEF Program, Code2
  <2>2. Djnz(7)
    BY <2>1, Opcodes
  <2>3. K + 25 \in Nat /\ (K + 25) + 2 = K + 27 /\ (K + 25) + 2 + 239 - 256 = K + 10
    BY <1>1
  <2>4. PICK o \in Nat : o = K + 25
    BY <2>3
  <2>5. /\ Runs(IF Less(7) # 0 THEN o + 2 + 239 - 256 ELSE o + 2,
                core.acc, core.dptr, [core.r EXCEPT ![7] = Less(7)])
        /\ UNCHANGED flashVars
    BY <1>5, <2>1, <2>2, <2>4, Loops
  <2> QED
    BY <2>3, <2>4, <2>5
<1> QED
  BY <1>2, <1>3, <1>4, <1>5

-----------------------------------------------------------------------------
(* The CPU goes from one place of the invariant to the next.                *)

LEMMA Frames ==
    ASSUME UNCHANGED hostVars
    PROVE  /\ UNCHANGED cells => \A w : Filled(w)' <=> Filled(w)
           /\ UNCHANGED faddr => \A w : OnPage(w)' <=> OnPage(w)
           /\ UNCHANGED latch => \A w, n : Latched(w, n)' <=> Latched(w, n)
           /\ UNCHANGED <<busy, latch>> => (Quiet' <=> Quiet)
           /\ K' = K /\ job' = job
<1>1. job' = job
  BY DEF hostVars
<1>2. UNCHANGED cells => \A w : Filled(w)' <=> Filled(w)
  BY <1>1 DEF Filled
<1>3. UNCHANGED faddr => \A w : OnPage(w)' <=> OnPage(w)
  BY <1>1 DEF OnPage
<1>4. UNCHANGED latch => \A w, n : Latched(w, n)' <=> Latched(w, n)
  BY DEF Latched
<1>5. UNCHANGED <<busy, latch>> => (Quiet' <=> Quiet)
  BY DEF Quiet
<1>6. K' = K
  BY <1>1 DEF K
<1> QED
  BY <1>1, <1>2, <1>3, <1>4, <1>5, <1>6

\* what Runs says of the values the invariant speaks of
LEMMA RunsTo ==
    ASSUME NEW o, NEW acc, NEW dptr, NEW r, Runs(o, acc, dptr, r)
    PROVE  /\ Pc(o)' /\ core'.acc = acc /\ core'.r = r /\ core'.runs
           /\ \A w, n : Source(w, n)' <=> dptr = DataAddr + WordSize * w + n
           /\ \A n : Left(n)' <=> 256 * (r[7] - 1) + (IF r[6] = 0 THEN 256 ELSE r[6]) = n
  BY DEF Runs, Pc, Source, Left

LEMMA OpeningStep ==
    ASSUME TypeOK, Program, Execute, Opening
    PROVE  (Opening \/ Erasing \/ SettingUp)' /\ core'.runs /\ UNCHANGED <<latch, strays>>
<1>1. UNCHANGED hostVars
  BY Opcodes
<1>2. job.page \in 0 .. 63 /\ job.erase \in BOOLEAN
  BY JobsAssumption DEF TypeOK
<1>3. CASE Pc(0) /\ faddr = 0
  <2>1. /\ Runs(3, core.acc, core.dptr, core.r)
        /\ faddr' = 256 * (2 * job.page) + LowByte(faddr)
        /\ UNCHANGED <<writing, latch, busy, cells, strays>>
    BY <1>3, EraseSteps
  <2>2. OnPage(0)'
    <3>1. LowByte(0) = 0 /\ NWords = 512 /\ job' = job
      BY <1>1, Frames DEF LowByte, NWords, PageSize, WordSize
    <3> QED
      BY <1>2, <1>3, <2>1, <3>1 DEF OnPage
  <2>3. Pc(3)' /\ core'.runs /\ Quiet' /\ job' = job
    BY <1>1, <2>1, RunsTo, Frames DEF Opening
  <2> QED
    BY <2>1, <2>2, <2>3 DEF Opening
<1>4. CASE Pc(3) /\ OnPage(0)
  <2>1. Runs(6, core.acc, core.dptr, core.r) /\ UNCHANGED flashVars
    BY <1>4, EraseSteps
  <2>2. Pc(6)' /\ core'.runs /\ Quiet' /\ job' = job /\ OnPage(0)'
    BY <1>1, <1>4, <2>1, RunsTo, Frames DEF Opening, flashVars
  <2> QED
    BY <2>1, <2>2 DEF Opening, flashVars
<1>5. CASE Pc(6) /\ OnPage(0)
  <2>1. /\ Runs(9, core.acc, core.dptr, core.r)
        /\ faddr' = 256 * HighByte(faddr) + 0
        /\ UNCHANGED <<writing, latch, busy, cells, strays>>
    BY <1>5, EraseSteps
  <2>2. OnPage(0)'
    <3>1. NWords = 512 /\ job' = job
      BY <1>1, Frames DEF NWords, PageSize, WordSize
    <3>2. faddr = 512 * job.page
      BY <1>2, <1>5, <3>1 DEF OnPage
    <3>3. HighByte(faddr) = 2 * job.page
      BY <1>2, <3>2 DEF HighByte
    <3> QED
      BY <1>2, <2>1, <3>1, <3>3 DEF OnPage
  <2>3. Pc(9)' /\ core'.runs /\ Quiet' /\ job' = job /\ K' = K
    BY <1>1, <2>1, RunsTo, Frames DEF Opening
  <2>4. CASE job.erase
    BY <2>1, <2>2, <2>3, <2>4 DEF Opening
  <2>5. CASE ~ job.erase
    <3>1. Pc(K)'
      BY <2>3, <2>5 DEF K
    <3>2. Filled(0)'
      BY <1>5, <2>1, <2>3, <2>5 DEF Filled, Opening, Words
    <3> QED
      BY <2>1, <2>2, <2>3, <3>1, <3>2 DEF Opening, SettingUp
  <2> QED
    BY <2>4, <2>5
<1>6. CASE job.erase /\ Pc(9) /\ OnPage(0)
  <2>1. /\ Runs(12, core.acc, core.dptr, core.r)
        /\ busy' = "erase" /\ ~ writing' /\ UNCHANGED <<faddr, latch, cells, strays>>
    BY <1>6, EraseSteps
  <2>2. Pc(12)' /\ core'.runs /\ job' = job /\ OnPage(0)'
    BY <1>1, <1>6, <2>1, RunsTo, Frames
  <2> QED
    BY <1>6, <2>1, <2>2 DEF Opening, Erasing, Quiet
<1> QED
  BY <1>3, <1>4, <1>5, <1>6 DEF Opening

LEMMA ErasingStep ==
    ASSUME TypeOK, Program, Execute, Erasing
    PROVE  (Erasing \/ SettingUp)' /\ core'.runs /\ UNCHANGED <<latch, strays>>
<1>1. UNCHANGED hostVars
  BY Opcodes
<1>2. CASE Pc(12)
  <2>1. Runs(14, Status, core.dptr, core.r) /\ UNCHANGED flashVars
    BY <1>2, EraseSteps DEF Erasing
  <2>2. Pc(14)' /\ core'.runs /\ core'.acc = Status
    BY <2>1, RunsTo
  <2>3. /\ job' = job /\ (OnPage(0)' <=> OnPage(0)) /\ (Filled(0)' <=> Filled(0))
        /\ UNCHANGED <<writing, latch, busy, strays>>
    BY <1>1, <2>1, Frames DEF flashVars
  <2>4. Status \in {0, 128} /\ (Status = 0 => busy = "no")
    BY DEF Status, Erasing
  <2> QED
    BY <2>2, <2>3, <2>4 DEF Erasing
<1>3. CASE Pc(14) /\ core.acc = 128
  <2>1. (128 \div 128) % 2 = 1
    OBVIOUS
  <2>2. Runs(12, core.acc, core.dptr, core.r) /\ UNCHANGED flashVars
    BY <1>3, <2>1, EraseSteps DEF Erasing
  <2>3. Pc(12)' /\ core'.runs
    BY <2>2, RunsTo
  <2>4. /\ job' = job /\ (OnPage(0)' <=> OnPage(0)) /\ (Filled(0)' <=> Filled(0))
        /\ UNCHANGED <<writing, latch, busy, strays>>
    BY <1>1, <2>2, Frames DEF flashVars
  <2> QED
    BY <2>3, <2>4 DEF Erasing
<1>4. CASE Pc(14) /\ core.acc = 0 /\ busy = "no"
  <2>1. (0 \div 128) % 2 # 1
    OBVIOUS
  <2>2. Runs(17, core.acc, core.dptr, core.r) /\ UNCHANGED flashVars
    BY <1>4, <2>1, EraseSteps DEF Erasing
  <2>3. Pc(17)' /\ core'.runs
    BY <2>2, RunsTo
  <2>4. /\ job' = job /\ (OnPage(0)' <=> OnPage(0)) /\ (Filled(0)' <=> Filled(0)) /\ K' = K
        /\ UNCHANGED <<writing, latch, busy, strays>>
    BY <1>1, <2>2, Frames DEF flashVars
  <2>5. K = 17
    BY DEF K, Erasing
  <2> QED
    BY <1>4, <2>3, <2>4, <2>5 DEF Erasing, SettingUp, Quiet
<1> QED
  BY <1>2, <1>3, <1>4 DEF Erasing

LEMMA RegistersSet ==
    ASSUME NEW r \in Registers, NEW k \in 5 .. 7, NEW x
    PROVE  \A j \in 5 .. 7 : [r EXCEPT ![k] = x][j] = IF j = k THEN x ELSE r[j]
  BY DEF Registers

LEMMA SettingUpStep ==
    ASSUME TypeOK, Program, Execute, SettingUp
    PROVE  (SettingUp \/ Copying(0))' /\ core'.runs /\ UNCHANGED <<latch, strays>>
<1>1. UNCHANGED hostVars /\ core.r \in Registers /\ 5 \in 5 .. 7 /\ 6 \in 5 .. 7 /\ 7 \in 5 .. 7
  BY Opcodes, CoreTypes
<1>2. job' = job /\ K' = K
  BY <1>1, Frames
<1>3. ASSUME UNCHANGED flashVars
      PROVE  Quiet' /\ ~ writing' /\ OnPage(0)' /\ Filled(0)' /\ UNCHANGED <<latch, strays>>
  BY <1>1, <1>3, Frames DEF SettingUp, flashVars
<1>4. CASE Pc(K)
  <2>1. Runs(K + 3, core.acc, DataAddr, core.r) /\ UNCHANGED flashVars
    BY <1>4, SetupSteps
  <2>2. Pc(K + 3)' /\ core'.runs /\ (Source(0, 0)' <=> DataAddr = DataAddr + WordSize * 0 + 0)
    BY <1>2, <2>1, RunsTo
  <2>3. DataAddr = DataAddr + WordSize * 0 + 0
    BY DEF DataAddr, WordSize
  <2> QED
    BY <1>2, <1>3, <2>1, <2>2, <2>3 DEF SettingUp
<1>5. CASE Pc(K + 3) /\ Source(0, 0)
  <2>1. /\ Runs(K + 5, core.acc, core.dptr, [core.r EXCEPT ![7] = 2]) /\ UNCHANGED flashVars
    BY <1>5, SetupSteps
  <2>2. /\ Pc(K + 5)' /\ core'.runs /\ core'.r = [core.r EXCEPT ![7] = 2]
        /\ (Source(0, 0)' <=> core.dptr = DataAddr + WordSize * 0 + 0)
    BY <1>2, <2>1, RunsTo
  <2>3. core'.r[7] = 2
    BY <1>1, <2>2, RegistersSet
  <2>4. Source(0, 0)'
    BY <1>5, <2>2 DEF Source
  <2> QED
    BY <1>2, <1>3, <2>1, <2>2, <2>3, <2>4 DEF SettingUp
<1>6. CASE Pc(K + 5) /\ Source(0, 0) /\ core.r[7] = 2
  <2>1. /\ Runs(K + 7, core.acc, core.dptr, [core.r EXCEPT ![6] = 0]) /\ UNCHANGED flashVars
    BY <1>6, SetupSteps
  <2>2. /\ Pc(K + 7)' /\ core'.runs /\ core'.r = [core.r EXCEPT ![6] = 0]
        /\ (Source(0, 0)' <=> core.dptr = DataAddr + WordSize * 0 + 0)
    BY <1>2, <2>1, RunsTo
  <2>3. core'.r[7] = 2 /\ core'.r[6] = 0
    BY <1>1, <1>6, <2>2, RegistersSet
  <2>4. Source(0, 0)'
    BY <1>6, <2>2 DEF Source
  <2> QED
    BY <1>2, <1>3, <2>1, <2>2, <2>3, <2>4 DEF SettingUp
<1>7. CASE Pc(K + 7) /\ Source(0, 0) /\ core.r[7] = 2 /\ core.r[6] = 0
  <2>1. /\ Runs(K + 10, core.acc, core.dptr, core.r)
        /\ writing' /\ UNCHANGED <<faddr, latch, busy, cells, strays>>
    BY <1>7, SetupSteps
  <2>2. /\ Pc(K + 10)' /\ core'.runs
        /\ (Source(0, 0)' <=> core.dptr = DataAddr + WordSize * 0 + 0)
        /\ (Left(NWords - 0)' <=> 256 * (core.r[7] - 1)
              + (IF core.r[6] = 0 THEN 256 ELSE core.r[6]) = NWords - 0)
    BY <1>2, <2>1, RunsTo
  <2>3. Left(NWords - 0)' /\ Source(0, 0)'
    BY <1>7, <2>2 DEF Source, NWords, PageSize, WordSize
  <2>4. OnPage(0)' /\ Filled(0)' /\ Quiet' /\ Latched(0, 0)'
    <3>1. OnPage(0)' /\ Filled(0)' /\ Quiet'
      BY <1>1, <2>1, Frames DEF SettingUp
    <3> QED
      BY <3>1 DEF Quiet, Latched
  <2> QED
    BY <1>2, <2>1, <2>2, <2>3, <2>4 DEF Copying, Quiet
<1> QED
  BY <1>4, <1>5, <1>6, <1>7 DEF SettingUp

LEMMA LoadedAt == ASSUME Loaded, NEW x \in 1 .. PageSize PROVE ram[DataAddr + x - 1] = Buff[x]
  BY DEF Loaded

LEMMA BufferByte == ASSUME NEW x \in 1 .. PageSize PROVE Buff[x] \in Byte
  BY BuffAssumption

\* Byte n + 1 of word w is at the address of Source(w, n).
LEMMA ByteInRam ==
    ASSUME Loaded, NEW w \in Words, NEW i \in 0 .. 3, Source(w, i)
    PROVE  /\ core.dptr \in Ram /\ ram[core.dptr] = Buff[WordSize * w + i + 1]
           /\ (core.dptr + 1) % 65536 = DataAddr + WordSize * w + (i + 1)
           /\ Buff[WordSize * w + i + 1] \in Byte
<1>1. WordSize = 4 /\ PageSize = 2048 /\ NWords = 512 /\ DataAddr = 61440
  BY DEF WordSize, PageSize, NWords, DataAddr
<1>2. w \in 0 .. 511
  BY <1>1 DEF Words
<1>3. PICK x \in 1 .. 2048 : x = 4 * w + i + 1
  BY <1>2
<1>4. core.dptr = 61440 + 4 * w + i
  BY <1>1 DEF Source
<1>5. core.dptr = 61440 + x - 1 /\ core.dptr \in 61440 .. 63487
  BY <1>2, <1>3, <1>4
<1>6. ram[61440 + x - 1] = Buff[x] /\ Buff[x] \in Byte
  <2>1. x \in 1 .. PageSize
    BY <1>1
  <2>2. ram[DataAddr + x - 1] = Buff[x] /\ Buff[x] \in Byte
    BY <2>1, LoadedAt, BufferByte
  <2> QED
    BY <1>1, <2>2
<1>7. WordSize * w + i + 1 = x
  BY <1>1, <1>3
<1>8. core.dptr \in Ram
  BY <1>1, <1>5 DEF Ram, CodeAddr
<1>9. (core.dptr + 1) % 65536 = DataAddr + WordSize * w + (i + 1)
  BY <1>1, <1>2, <1>4
<1> QED
  BY <1>5, <1>6, <1>7, <1>8, <1>9

LEMMA RegisterNumbers ==
    ASSUME TypeOK
    PROVE  \A k \in 5 .. 7 : core.r[k] \in 0 .. 255
  BY CoreTypes DEF Registers, Byte

\* In the loop that gives the bytes of word w.
Giving(w, i) ==
    /\ core.r[5] = WordSize - i
    /\ \/ Pc(K + 12) /\ Latched(w, i) /\ Source(w, i)
       \/ Pc(K + 13) /\ Latched(w, i) /\ Source(w, i)
                     /\ core.acc = Buff[WordSize * w + i + 1]
       \/ Pc(K + 14) /\ Latched(w, i) /\ Source(w, i + 1)
                     /\ core.acc = Buff[WordSize * w + i + 1]
       \/ Pc(K + 16) /\ i < 3 /\ Latched(w, i + 1) /\ Source(w, i + 1)

Writes(w) == OnPage(w) /\ writing /\ busy = "no" /\ Left(NWords - w) /\ Filled(w)

LEMMA CopyingIs ==
    ASSUME NEW w
    PROVE  Copying(w) <=> /\ Writes(w)
                          /\ \/ Pc(K + 10) /\ Latched(w, 0) /\ Source(w, 0)
                             \/ \E i \in 0 .. 3 : Giving(w, i)
  BY DEF Copying, Writes, Giving

LEMMA CopyingStep ==
    ASSUME TypeOK, Program, Loaded, Execute, latch \in Seq(Byte), NEW w \in Words, Copying(w)
    PROVE  /\ (Copying(w) \/ Waiting(w))' /\ core'.runs
           /\ latch' \in Seq(Byte) /\ UNCHANGED strays
<1>1. UNCHANGED hostVars /\ core.r \in Registers /\ 5 \in 5 .. 7 /\ 6 \in 5 .. 7 /\ 7 \in 5 .. 7
  BY Opcodes, CoreTypes
<1>2. job' = job /\ K' = K
  BY <1>1, Frames
<1>3. Writes(w)
  BY CopyingIs
<1>4. ASSUME UNCHANGED flashVars, core'.r[6] = core.r[6], core'.r[7] = core.r[7]
      PROVE  Writes(w)' /\ latch' = latch /\ strays' = strays
  <2>1. Left(NWords - w)'
    BY <1>3, <1>4 DEF Writes, Left
  <2>2. OnPage(w)' /\ Filled(w)'
    BY <1>1, <1>3, <1>4, Frames DEF Writes, flashVars
  <2> QED
    BY <1>3, <1>4, <2>1, <2>2 DEF Writes, flashVars
<1>5. ASSUME NEW x, core'.r = [core.r EXCEPT ![5] = x]
      PROVE  core'.r[5] = x /\ core'.r[6] = core.r[6] /\ core'.r[7] = core.r[7]
  BY <1>1, <1>5 DEF Registers
<1>6. CASE Pc(K + 10) /\ Latched(w, 0) /\ Source(w, 0)
  <2>1. Runs(K + 12, core.acc, core.dptr, [core.r EXCEPT ![5] = 4]) /\ UNCHANGED flashVars
    BY <1>6, CopySteps
  <2>2. core'.r = [core.r EXCEPT ![5] = 4] /\ Pc(K + 12)' /\ core'.runs
    BY <1>2, <2>1 DEF Runs, Pc
  <2>3. Writes(w)' /\ latch' = latch /\ strays' = strays /\ core'.r[5] = 4
    BY <1>4, <1>5, <2>1, <2>2
  <2>4. Latched(w, 0)' /\ Source(w, 0)'
    BY <1>1, <1>6, <2>1, <2>3, Frames, RunsTo DEF Source
  <2>5. Giving(w, 0)'
    BY <1>2, <2>2, <2>3, <2>4 DEF Giving, WordSize
  <2>6. 0 \in 0 .. 3
    OBVIOUS
  <2>7. Copying(w)'
    BY <2>3, <2>5, <2>6 DEF Copying, Giving, Writes
  <2> QED
    BY <2>2, <2>3, <2>7
<1>7. ASSUME NEW i \in 0 .. 3, Giving(w, i)
      PROVE  /\ (Copying(w) \/ Waiting(w))' /\ core'.runs
             /\ latch' \in Seq(Byte) /\ UNCHANGED strays
  <2>1. CASE Pc(K + 12) /\ Latched(w, i) /\ Source(w, i)
    <3>1. PICK a : a = Buff[WordSize * w + i + 1]
      OBVIOUS
    <3>2. core.dptr \in Ram /\ ram[core.dptr] = a
      BY <2>1, <3>1, ByteInRam
    <3>3. Runs(K + 13, a, core.dptr, core.r) /\ UNCHANGED flashVars
      BY <2>1, <3>2, CopySteps
    <3>4. Pc(K + 13)' /\ core'.runs /\ core'.r = core.r /\ core'.acc = a
      BY <1>2, <3>3 DEF Runs, Pc
    <3>5. Writes(w)' /\ latch' = latch /\ strays' = strays /\ Latched(w, i)'
      BY <1>1, <1>4, <2>1, <3>3, <3>4, Frames
    <3>6. Source(w, i)'
      BY <2>1, <3>3, RunsTo DEF Source
    <3>7. Giving(w, i)'
      BY <1>2, <1>7, <3>1, <3>4, <3>5, <3>6 DEF Giving
    <3>8. Copying(w)'
      BY <3>5, <3>7 DEF Copying, Giving, Writes
    <3> QED
      BY <3>4, <3>5, <3>8
  <2>2. CASE Pc(K + 13) /\ Latched(w, i) /\ Source(w, i)
             /\ core.acc = Buff[WordSize * w + i + 1]
    <3>1. PICK d : d = (core.dptr + 1) % 65536
      OBVIOUS
    <3>2. d = DataAddr + WordSize * w + (i + 1)
      BY <2>2, <3>1, ByteInRam
    <3>3. Runs(K + 14, core.acc, d, core.r) /\ UNCHANGED flashVars
      BY <2>2, <3>1, CopySteps
    <3>4. Pc(K + 14)' /\ core'.runs /\ core'.r = core.r /\ core'.acc = core.acc
      BY <1>2, <3>3 DEF Runs, Pc
    <3>5. Writes(w)' /\ latch' = latch /\ strays' = strays /\ Latched(w, i)'
      BY <1>1, <1>4, <2>2, <3>3, <3>4, Frames
    <3>6. Source(w, i + 1)'
      BY <3>2, <3>3, RunsTo
    <3>7. Giving(w, i)'
      BY <1>2, <1>7, <2>2, <3>4, <3>5, <3>6 DEF Giving
    <3>8. Copying(w)'
      BY <3>5, <3>7 DEF Copying, Giving, Writes
    <3> QED
      BY <3>4, <3>5, <3>8
  <2>3. CASE Pc(K + 14) /\ Latched(w, i) /\ Source(w, i + 1)
             /\ core.acc = Buff[WordSize * w + i + 1]
    <3>1. /\ Runs(K + 16, core.acc, core.dptr, core.r)
          /\ latch' = Append(latch, core.acc)
          /\ busy' = IF Len(latch) = 3 THEN "word" ELSE "no"
          /\ UNCHANGED <<faddr, writing, cells, strays>>
      BY <1>3, <2>3, CopySteps DEF Writes
    <3>2. Pc(K + 16)' /\ core'.runs /\ core'.r = core.r /\ core'.dptr = core.dptr
      BY <1>2, <3>1, RunsTo DEF Runs, Pc
    <3>3. latch' \in Seq(Byte) /\ Latched(w, i + 1)'
      <4>1. core.acc \in Byte /\ Len(latch) = i
        BY <2>3, CoreTypes DEF Latched
      <4>2. PICK a \in Byte : a = core.acc
        BY <4>1
      <4>3. /\ latch' \in Seq(Byte) /\ Len(latch') = i + 1 /\ latch'[i + 1] = a
            /\ \A b \in 1 .. i : latch'[b] = latch[b]
        BY <3>1, <4>1, <4>2
      <4>4. \A b \in 1 .. i + 1 : latch'[b] = Buff[WordSize * w + b]
        <5> SUFFICES ASSUME NEW b \in 1 .. i + 1
                     PROVE  latch'[b] = Buff[WordSize * w + b]
          OBVIOUS
        <5>1. CASE b \in 1 .. i
          BY <2>3, <4>3, <5>1 DEF Latched
        <5>2. CASE b \notin 1 .. i
          <6>1. b = i + 1 /\ WordSize * w + b = WordSize * w + i + 1
            BY <5>2 DEF WordSize, Words
          <6> QED
            BY <2>3, <4>2, <4>3, <6>1
        <5> QED
          BY <5>1, <5>2
      <4> QED
        BY <4>3, <4>4 DEF Latched
    <3>4. Source(w, i + 1)' /\ Left(NWords - w)'
      BY <1>3, <2>3, <3>2 DEF Source, Writes, Left
    <3>5. OnPage(w)' /\ Filled(w)' /\ writing'
      BY <1>1, <1>3, <3>1, Frames DEF Writes
    <3>6. Len(latch) = i /\ core.r[5] = 4 - i
      BY <1>7, <2>3 DEF Latched, Giving, WordSize
    <3>7. CASE i < 3
      <4>1. busy' = "no"
        BY <3>1, <3>6, <3>7
      <4>2. Writes(w)'
        BY <3>4, <3>5, <4>1 DEF Writes
      <4>3. Giving(w, i)'
        BY <1>2, <1>7, <3>2, <3>3, <3>4, <3>7 DEF Giving
      <4>4. Copying(w)'
        BY <4>2, <4>3 DEF Copying, Giving, Writes
      <4> QED
        BY <3>1, <3>2, <3>3, <4>4
    <3>8. CASE i = 3
      <4>1. busy' = "word" /\ core'.r[5] = 1 /\ WordSize = 4
        BY <3>1, <3>2, <3>6, <3>8 DEF WordSize
      <4>2. Latched(w, WordSize)' /\ Source(w, WordSize)'
        BY <3>3, <3>4, <3>8, <4>1
      <4>3. Waiting(w)'
        BY <1>2, <3>2, <3>4, <3>5, <4>1, <4>2 DEF Waiting
      <4> QED
        BY <3>1, <3>2, <3>3, <4>3
    <3> QED
      BY <3>7, <3>8
  <2>4. CASE Pc(K + 16) /\ i < 3 /\ Latched(w, i + 1) /\ Source(w, i + 1)
    <3>1. core.r[5] = 4 - i /\ Less(5) = 3 - i
      BY <1>7, <2>4 DEF Giving, WordSize, Less
    <3>2. PICK x : x = 3 - i
      OBVIOUS
    <3>3. Runs(K + 12, core.acc, core.dptr, [core.r EXCEPT ![5] = x]) /\ UNCHANGED flashVars
      <4>1. Less(5) # 0 /\ Less(5) = x
        BY <2>4, <3>1, <3>2
      <4> QED
        BY <2>4, <4>1, CopySteps
    <3>4. Pc(K + 12)' /\ core'.runs /\ core'.r = [core.r EXCEPT ![5] = x]
      BY <1>2, <3>3 DEF Runs, Pc
    <3>5. Writes(w)' /\ latch' = latch /\ strays' = strays /\ core'.r[5] = x
      BY <1>4, <1>5, <3>3, <3>4
    <3>6. Source(w, i + 1)' /\ Latched(w, i + 1)'
      BY <1>1, <2>4, <3>3, <3>5, Frames, RunsTo DEF Source
    <3>7. i + 1 \in 0 .. 3 /\ x = WordSize - (i + 1)
      BY <2>4, <3>2 DEF WordSize
    <3>8. Giving(w, i + 1)'
      BY <1>2, <3>4, <3>5, <3>6, <3>7 DEF Giving
    <3>9. Copying(w)'
      BY <3>5, <3>7, <3>8 DEF Copying, Giving, Writes
    <3> QED
      BY <3>4, <3>5, <3>9
  <2> QED
    BY <1>7, <2>1, <2>2, <2>3, <2>4 DEF Giving
<1> QED
  BY <1>6, <1>7, CopyingIs

LEMMA WaitingStep ==
    ASSUME TypeOK, Program, Execute, NEW w \in Words, Waiting(w)
    PROVE  (Waiting(w) \/ Counting(w))' /\ core'.runs /\ UNCHANGED <<latch, strays>>
<1>1. UNCHANGED hostVars /\ core.r \in Registers /\ 5 \in 5 .. 7 /\ 6 \in 5 .. 7 /\ 7 \in 5 .. 7
  BY Opcodes, CoreTypes
<1>2. job' = job /\ K' = K
  BY <1>1, Frames
<1> DEFINE Written ==
        \/ busy = "word" /\ OnPage(w) /\ Filled(w) /\ Latched(w, WordSize)
        \/ Quiet /\ OnPage(w + 1) /\ Filled(w + 1)
<1>3. ASSUME UNCHANGED flashVars, core'.dptr = core.dptr,
             core'.r[6] = core.r[6], core'.r[7] = core.r[7]
      PROVE  /\ writing' /\ Left(NWords - w)' /\ Source(w, WordSize)' /\ Written'
             /\ busy' = busy /\ UNCHANGED <<latch, strays>>
  <2>1. Left(NWords - w)' /\ Source(w, WordSize)'
    BY <1>3 DEF Waiting, Left, Source
  <2>2. (OnPage(w)' <=> OnPage(w)) /\ (Filled(w)' <=> Filled(w))
        /\ (OnPage(w + 1)' <=> OnPage(w + 1)) /\ (Filled(w + 1)' <=> Filled(w + 1))
        /\ (Latched(w, WordSize)' <=> Latched(w, WordSize)) /\ (Quiet' <=> Quiet)
    BY <1>1, <1>3, Frames DEF flashVars
  <2> QED
    BY <1>3, <2>1, <2>2 DEF Waiting, flashVars
<1>4. CASE Pc(K + 16) /\ core.r[5] = 1
  <2>1. Less(5) = 0
    BY <1>4 DEF Less
  <2>2. Runs(K + 18, core.acc, core.dptr, [core.r EXCEPT ![5] = 0]) /\ UNCHANGED flashVars
    BY <1>4, <2>1, CopySteps
  <2>3. /\ core'.r = [core.r EXCEPT ![5] = 0] /\ Pc(K + 18)' /\ core'.runs
        /\ core'.dptr = core.dptr
    BY <1>2, <2>2 DEF Runs, Pc
  <2>4. core'.r[6] = core.r[6] /\ core'.r[7] = core.r[7]
    BY <1>1, <2>3 DEF Registers
  <2> QED
    BY <1>2, <1>3, <2>2, <2>3, <2>4 DEF Waiting
<1>5. CASE Pc(K + 18)
  <2>1. Runs(K + 20, Status, core.dptr, core.r) /\ UNCHANGED flashVars
    BY <1>5, WordSteps
  <2>2. /\ core'.r = core.r /\ Pc(K + 20)' /\ core'.runs
        /\ core'.dptr = core.dptr /\ core'.acc = Status
    BY <1>2, <2>1 DEF Runs, Pc
  <2>3. Status \in {0, 64} /\ (Status = 0 => busy = "no")
    BY DEF Status, Waiting, Quiet
  <2> QED
    BY <1>2, <1>3, <2>1, <2>2, <2>3 DEF Waiting
<1>6. CASE Pc(K + 20) /\ core.acc = 64
  <2>1. (64 \div 64) % 2 = 1
    OBVIOUS
  <2>2. Runs(K + 18, core.acc, core.dptr, core.r) /\ UNCHANGED flashVars
    BY <1>6, <2>1, WordSteps
  <2>3. core'.r = core.r /\ Pc(K + 18)' /\ core'.runs /\ core'.dptr = core.dptr
    BY <1>2, <2>2 DEF Runs, Pc
  <2> QED
    BY <1>2, <1>3, <2>2, <2>3 DEF Waiting
<1>7. CASE Pc(K + 20) /\ core.acc = 0 /\ busy = "no"
  <2>1. (0 \div 64) % 2 # 1
    OBVIOUS
  <2>2. Runs(K + 23, core.acc, core.dptr, core.r) /\ UNCHANGED flashVars
    BY <1>7, <2>1, WordSteps
  <2>3. core'.r = core.r /\ Pc(K + 23)' /\ core'.runs /\ core'.dptr = core.dptr
    BY <1>2, <2>2 DEF Runs, Pc
  <2>4. /\ writing' /\ Left(NWords - w)' /\ Source(w, WordSize)' /\ Written'
        /\ busy' = busy /\ UNCHANGED <<latch, strays>>
    BY <1>3, <2>2, <2>3
  <2>5. Quiet' /\ OnPage(w + 1)' /\ Filled(w + 1)'
    BY <1>7, <2>4
  <2> QED
    BY <1>2, <2>3, <2>4, <2>5 DEF Counting
<1> QED
  BY <1>4, <1>5, <1>6, <1>7 DEF Waiting

LEMMA CountingStep ==
    ASSUME TypeOK, Program, Execute, NEW w \in Words, Counting(w)
    PROVE  /\ Counting(w)' \/ (\E v \in Words : Copying(v)') \/ Closing'
           /\ core'.runs /\ UNCHANGED <<latch, strays>>
<1>1. UNCHANGED hostVars /\ core.r \in Registers /\ 5 \in 5 .. 7 /\ 6 \in 5 .. 7 /\ 7 \in 5 .. 7
  BY Opcodes, CoreTypes
<1>2. job' = job /\ K' = K
  BY <1>1, Frames
<1>3. PICK a, b : a = core.r[7] /\ b = core.r[6]
  OBVIOUS
<1>4. a \in 0 .. 255 /\ b \in 0 .. 255 /\ w \in 0 .. 511 /\ NWords = 512
  BY <1>1, <1>3, RegisterNumbers DEF Words, NWords, PageSize, WordSize
<1>5. ASSUME UNCHANGED flashVars, core'.dptr = core.dptr
      PROVE  /\ OnPage(w + 1)' /\ writing' /\ Quiet' /\ Filled(w + 1)' /\ Source(w, WordSize)'
             /\ UNCHANGED <<latch, strays>>
  <2>1. OnPage(w + 1)' /\ Filled(w + 1)' /\ Quiet'
    BY <1>1, <1>5, Frames DEF flashVars, Counting
  <2> QED
    BY <1>5, <2>1 DEF Source, Counting, flashVars
<1>6. ASSUME /\ OnPage(w + 1)' /\ writing' /\ Quiet' /\ Filled(w + 1)' /\ Source(w, WordSize)'
             /\ UNCHANGED <<latch, strays>>,
             Pc(K + 10)', Left(NWords - (w + 1))', w + 1 \in Words
      PROVE  \E v \in Words : Copying(v)'
  <2>1. PICK v \in Words : v = w + 1
    BY <1>6
  <2>2. Source(v, 0)'
    BY <1>4, <1>6, <2>1 DEF Source, WordSize, DataAddr
  <2>3. Latched(v, 0)' /\ busy' = "no"
    BY <1>6 DEF Quiet, Latched
  <2>4. OnPage(v)' /\ Filled(v)' /\ Left(NWords - v)' /\ writing' /\ Pc(K + 10)'
    BY <1>6, <2>1
  <2>5. Copying(v)'
    BY <1>2, <2>2, <2>3, <2>4 DEF Copying
  <2> QED
    BY <2>5
<1>7. CASE Pc(K + 23) /\ Left(NWords - w)
  <2>1. 256 * (a - 1) + (IF b = 0 THEN 256 ELSE b) = 512 - w
    BY <1>3, <1>4, <1>7 DEF Left
  <2>2. PICK x : x = Less(6)
    OBVIOUS
  <2>3. /\ Runs(IF x # 0 THEN K + 10 ELSE K + 25, core.acc, core.dptr, [core.r EXCEPT ![6] = x])
        /\ UNCHANGED flashVars
    BY <1>7, <2>2, WordSteps
  <2>4. /\ core'.r = [core.r EXCEPT ![6] = x] /\ Pc(IF x # 0 THEN K + 10 ELSE K + 25)'
        /\ core'.runs /\ core'.dptr = core.dptr
    BY <1>2, <2>3 DEF Runs, Pc
  <2>5. core'.r[6] = x /\ core'.r[7] = a
    BY <1>1, <1>3, <2>4 DEF Registers
  <2>6. x = IF b = 0 THEN 255 ELSE b - 1
    BY <1>3, <1>4, <2>2 DEF Less
  <2>7. CASE x # 0
    <3>1. w + 1 \in Words /\ 256 * (a - 1) + x = 512 - (w + 1)
      BY <1>4, <2>1, <2>6, <2>7 DEF Words
    <3>2. Left(NWords - (w + 1))'
      BY <1>4, <2>5, <2>7, <3>1 DEF Left
    <3>3. Pc(K + 10)'
      BY <2>4, <2>7
    <3> QED
      BY <1>5, <1>6, <2>3, <2>4, <3>1, <3>2, <3>3
  <2>8. CASE x = 0
    <3>1. 256 * (a - 1) = 512 - (w + 1)
      BY <1>4, <2>1, <2>6, <2>8
    <3>2. Pc(K + 25)'
      BY <2>4, <2>8
    <3>3. Counting(w)'
      BY <1>2, <1>4, <1>5, <2>3, <2>4, <2>5, <2>8, <3>1, <3>2 DEF Counting
    <3> QED
      BY <1>5, <2>3, <2>4, <3>3
  <2> QED
    BY <2>7, <2>8
<1>8. CASE Pc(K + 25) /\ core.r[6] = 0 /\ 256 * (core.r[7] - 1) = NWords - (w + 1)
  <2>1. 256 * (a - 1) = 512 - (w + 1) /\ b = 0
    BY <1>3, <1>4, <1>8
  <2>2. PICK x : x = Less(7)
    OBVIOUS
  <2>3. /\ Runs(IF x # 0 THEN K + 10 ELSE K + 27, core.acc, core.dptr, [core.r EXCEPT ![7] = x])
        /\ UNCHANGED flashVars
    BY <1>8, <2>2, WordSteps
  <2>4. /\ core'.r = [core.r EXCEPT ![7] = x] /\ Pc(IF x # 0 THEN K + 10 ELSE K + 27)'
        /\ core'.runs /\ core'.dptr = core.dptr
    BY <1>2, <2>3 DEF Runs, Pc
  <2>5. core'.r[6] = 0 /\ core'.r[7] = x
    BY <1>1, <1>8, <2>4 DEF Registers
  <2>6. x = a - 1
    BY <1>3, <1>4, <2>1, <2>2 DEF Less
  <2>7. CASE x # 0
    <3>1. w + 1 \in Words /\ 256 * (x - 1) + 256 = 512 - (w + 1)
      BY <1>4, <2>1, <2>6, <2>7 DEF Words
    <3>2. Left(NWords - (w + 1))'
      BY <1>4, <2>5, <3>1 DEF Left
    <3>3. Pc(K + 10)'
      BY <2>4, <2>7
    <3> QED
      BY <1>5, <1>6, <2>3, <2>4, <3>1, <3>2, <3>3
  <2>8. CASE x = 0
    <3>1. w + 1 = NWords
      BY <1>4, <2>1, <2>6, <2>8
    <3>2. Pc(K + 27)'
      BY <2>4, <2>8
    <3>3. OnPage(NWords)' /\ Filled(NWords)' /\ writing' /\ Quiet'
      BY <1>5, <2>3, <2>4, <3>1
    <3>4. Closing'
      BY <1>2, <3>2, <3>3 DEF Closing, Complete
    <3> QED
      BY <1>5, <2>3, <2>4, <3>4
  <2> QED
    BY <2>7, <2>8
<1> QED
  BY <1>7, <1>8 DEF Counting

LEMMA ClosingStep ==
    ASSUME TypeOK, Program, Execute, Closing
    PROVE  /\ (Closing' /\ core'.runs) \/ (Complete' /\ ~ core'.runs)
           /\ UNCHANGED <<latch, strays>>
<1>1. UNCHANGED hostVars
  BY Opcodes
<1>2. job' = job /\ K' = K
  BY <1>1, Frames
<1>3. ASSUME UNCHANGED flashVars
      PROVE  Complete' /\ UNCHANGED <<latch, strays>>
  BY <1>1, <1>3, Frames DEF Closing, Complete, flashVars
<1>4. CASE Pc(K + 27)
  <2>1. Runs(K + 30, core.acc, core.dptr, core.r) /\ UNCHANGED flashVars
    BY <1>4, SetupSteps
  <2>2. Pc(K + 30)' /\ core'.runs
    BY <1>2, <2>1 DEF Runs, Pc
  <2> QED
    BY <1>2, <1>3, <2>1, <2>2 DEF Closing
<1>5. CASE Pc(K + 30)
  <2>1. ~ core'.runs /\ UNCHANGED flashVars
    BY <1>5, SetupSteps
  <2> QED
    BY <1>3, <2>1
<1> QED
  BY <1>4, <1>5 DEF Closing

LEMMA ExecuteStep ==
    ASSUME TypeOK, Loaded, Execute, AtWork, latch \in Seq(Byte)
    PROVE  /\ (AtWork' /\ core'.runs) \/ (Complete' /\ ~ core'.runs)
           /\ latch' \in Seq(Byte) /\ UNCHANGED <<hostVars, strays>>
<1>1. Program
  BY ProgramLoaded DEF TypeOK
<1>2. UNCHANGED hostVars
  BY Opcodes
<1>3. CASE Opening
  BY <1>1, <1>2, <1>3, OpeningStep DEF AtWork
<1>4. CASE Erasing
  BY <1>1, <1>2, <1>4, ErasingStep DEF AtWork
<1>5. CASE SettingUp
  <2>1. 0 \in Words
    BY DEF Words, NWords, PageSize, WordSize
  <2> QED
    BY <1>1, <1>2, <1>5, <2>1, SettingUpStep DEF AtWork
<1>6. CASE Closing
  BY <1>1, <1>2, <1>6, ClosingStep DEF AtWork
<1>7. ASSUME NEW w \in Words, Copying(w)
      PROVE  AtWork' /\ core'.runs /\ latch' \in Seq(Byte) /\ UNCHANGED strays
  BY <1>1, <1>7, CopyingStep DEF AtWork
<1>8. ASSUME NEW w \in Words, Waiting(w)
      PROVE  AtWork' /\ core'.runs /\ UNCHANGED <<latch, strays>>
  BY <1>1, <1>8, WaitingStep DEF AtWork
<1>9. ASSUME NEW w \in Words, Counting(w)
      PROVE  AtWork' /\ core'.runs /\ UNCHANGED <<latch, strays>>
  BY <1>1, <1>9, CountingStep DEF AtWork
<1> QED
  BY <1>2, <1>3, <1>4, <1>5, <1>6, <1>7, <1>8, <1>9 DEF AtWork

-----------------------------------------------------------------------------
(* The CPU stays within its registers, and the controller within a word.    *)

Cores == [runs : BOOLEAN, pc : Word16, acc : Byte, dptr : Word16, r : Registers]

\* at an instruction of the routine
LEMMA Points ==
    ASSUME AtWork
    PROVE  \/ Pc(0) \/ Pc(3) \/ Pc(6)
           \/ job.erase /\ (Pc(9) \/ Pc(12) \/ Pc(14))
           \/ Pc(K) \/ Pc(K + 3) \/ Pc(K + 5) \/ Pc(K + 7)
           \/ Pc(K + 10) \/ Pc(K + 13) \/ Pc(K + 14) \/ Pc(K + 16)
           \/ Pc(K + 12) /\ \E w \in Words, i \in 0 .. 3 : Source(w, i)
           \/ Pc(K + 18) \/ Pc(K + 20) \/ Pc(K + 23) \/ Pc(K + 25)
           \/ Pc(K + 27) \/ Pc(K + 30)
<1>1. CASE Opening \/ Erasing
  BY <1>1 DEF Opening, Erasing
<1>2. CASE SettingUp \/ Closing
  BY <1>2 DEF SettingUp, Closing
<1>3. ASSUME NEW w \in Words, Copying(w)
      PROVE  \/ Pc(K + 10) \/ Pc(K + 13) \/ Pc(K + 14) \/ Pc(K + 16)
             \/ Pc(K + 12) /\ \E i \in 0 .. 3 : Source(w, i)
  <2>1. CASE Pc(K + 10)
    BY <2>1
  <2>2. ASSUME NEW i \in 0 .. 3, Giving(w, i)
        PROVE  \/ Pc(K + 13) \/ Pc(K + 14) \/ Pc(K + 16)
               \/ Pc(K + 12) /\ Source(w, i)
    BY <2>2, Zenon DEF Giving
  <2> QED
    BY <1>3, <2>1, <2>2, CopyingIs
<1>4. ASSUME NEW w \in Words, Waiting(w)
      PROVE  Pc(K + 16) \/ Pc(K + 18) \/ Pc(K + 20)
  BY <1>4 DEF Waiting
<1>5. ASSUME NEW w \in Words, Counting(w)
      PROVE  Pc(K + 23) \/ Pc(K + 25)
  BY <1>5 DEF Counting
<1> QED
  BY <1>1, <1>2, <1>3, <1>4, <1>5 DEF AtWork

LEMMA AtStart ==
    ASSUME job \in Jobs, AtWork
    PROVE  core.pc \in Starts[job.erase]
<1>1. PICK e, k : e = job.erase /\ k = K
  OBVIOUS
<1>2. e \in BOOLEAN /\ k = IF e THEN 17 ELSE 9
  BY <1>1, JobsAssumption DEF K
<1>3. ASSUME NEW b \in Begins(e, k)
      PROVE  Pc(b) => core.pc \in Starts[e]
  BY <1>2, <1>3, StartsListed DEF Pc
<1>4. \E b \in Begins(e, k) : Pc(b)
  <2>1. /\ 0 \in Begins(e, k) /\ 3 \in Begins(e, k) /\ 6 \in Begins(e, k)
        /\ \A b \in {9, 12, 14} : e => b \in Begins(e, k)
        /\ \A b \in {k, k + 3, k + 5, k + 7, k + 10, k + 12, k + 13, k + 14, k + 16,
                   k + 18, k + 20, k + 23, k + 25, k + 27, k + 30} : b \in Begins(e, k)
    BY DEF Begins
  <2>2. CASE Pc(0) \/ Pc(3) \/ Pc(6)
    BY <2>1, <2>2
  <2>3. CASE e /\ (Pc(9) \/ Pc(12) \/ Pc(14))
    BY <2>1, <2>3
  <2>4. CASE \/ Pc(k) \/ Pc(k + 3) \/ Pc(k + 5) \/ Pc(k + 7) \/ Pc(k + 10) \/ Pc(k + 12)
             \/ Pc(k + 13) \/ Pc(k + 14) \/ Pc(k + 16)
    BY <2>1, <2>4
  <2>5. CASE Pc(k + 18) \/ Pc(k + 20) \/ Pc(k + 23) \/ Pc(k + 25) \/ Pc(k + 27) \/ Pc(k + 30)
    BY <2>1, <2>5
  <2> QED
    BY <1>1, <2>2, <2>3, <2>4, <2>5, Points
<1> QED
  BY <1>1, <1>3, <1>4

LEMMA SmallWord == \A x \in Nat : x <= 65535 => x \in Word16
  BY DEF Word16

LEMMA RunsTyped ==
    \A o, a, d, r :
        o \in 0 .. 62 /\ a \in Byte /\ d \in Word16 /\ r \in Registers /\ Runs(o, a, d, r)
            => core' \in Cores
<1> TAKE o, a, d, r
<1> HAVE o \in 0 .. 62 /\ a \in Byte /\ d \in Word16 /\ r \in Registers /\ Runs(o, a, d, r)
<1>1. PICK p : p = CodeAddr + o
  OBVIOUS
<1>2. p \in Word16
  <2>1. CodeAddr = 63488
    BY DEF CodeAddr, DataAddr, PageSize
  <2>2. p \in Nat /\ p <= 65535
    BY <1>1, <2>1
  <2> QED
    BY <2>2, SmallWord
<1>3. core' = [runs |-> TRUE, pc |-> p, acc |-> a, dptr |-> d, r |-> r]
  BY <1>1 DEF Runs
<1> QED
  BY <1>2, <1>3 DEF Cores

LEMMA NextWord == \A d \in Nat : (d + 1) % 65536 \in Word16
  BY DEF Word16

LEMMA LessTyped ==
    ASSUME TypeOK, NEW k \in 5 .. 7
    PROVE  Less(k) \in Byte
<1>1. core.r[k] \in 0 .. 255
  BY RegisterNumbers
<1> QED
  BY <1>1 DEF Less, Byte

LEMMA SetRegister ==
    ASSUME TypeOK, NEW k \in 5 .. 7, NEW x \in Byte
    PROVE  [core.r EXCEPT ![k] = x] \in Registers
  BY CoreTypes DEF Registers

LEMMA CoreStays ==
    ASSUME TypeOK, Loaded, Execute, AtWork
    PROVE  core' \in Cores
<1>1. Program /\ core.runs
  BY ProgramLoaded, Opcodes DEF TypeOK
<1>2. core.acc \in Byte /\ core.dptr \in Word16 /\ core.r \in Registers
  BY CoreTypes
<1>3. K \in {9, 17}
  BY DEF K
<1>4. /\ 0 \in Byte /\ 2 \in Byte /\ 4 \in Byte /\ Status \in Byte /\ DataAddr \in Word16
      /\ (core.dptr + 1) % 65536 \in Word16
  <2>1. core.dptr \in Nat
    BY <1>2, WordsAreNat
  <2>2. (core.dptr + 1) % 65536 \in Word16
    BY <2>1, NextWord
  <2>3. 0 \in Byte /\ 2 \in Byte /\ 4 \in Byte /\ DataAddr \in Word16
    BY DEF Byte, Word16, DataAddr
  <2>4. Status \in Byte
    BY DEF Status, Byte
  <2> QED
    BY <2>2, <2>3, <2>4
<1>5. \A k \in 5 .. 7 : [core.r EXCEPT ![k] = Less(k)] \in Registers
  BY LessTyped, SetRegister
<1>6. /\ [core.r EXCEPT ![7] = 2] \in Registers /\ [core.r EXCEPT ![6] = 0] \in Registers
      /\ [core.r EXCEPT ![5] = 4] \in Registers
  BY <1>4, SetRegister
<1>7. ASSUME Pc(0) \/ Pc(3) \/ Pc(6) \/ (job.erase /\ (Pc(9) \/ Pc(12) \/ Pc(14)))
      PROVE  core' \in Cores
  <2>1. \E o \in {3, 6, 9, 12, 14, 17}, a \in {core.acc, Status} : Runs(o, a, core.dptr, core.r)
    BY <1>1, <1>7, EraseSteps
  <2> QED
    BY <1>2, <1>4, <2>1, RunsTyped
<1>8. ASSUME Pc(K) \/ Pc(K + 3) \/ Pc(K + 5) \/ Pc(K + 7) \/ Pc(K + 27)
      PROVE  core' \in Cores
  <2>1. \E o \in {K + 3, K + 5, K + 7, K + 10, K + 30}, d \in {core.dptr, DataAddr},
           r \in {core.r, [core.r EXCEPT ![7] = 2], [core.r EXCEPT ![6] = 0]} :
              Runs(o, core.acc, d, r)
    BY <1>1, <1>8, SetupSteps
  <2> QED
    BY <1>2, <1>3, <1>4, <1>6, <2>1, RunsTyped
<1>9. ASSUME Pc(K + 10) \/ Pc(K + 13) \/ Pc(K + 14) \/ Pc(K + 16)
      PROVE  core' \in Cores
  <2>1. \E o \in {K + 12, K + 14, K + 16, K + 18},
           d \in {core.dptr, (core.dptr + 1) % 65536},
           r \in {core.r, [core.r EXCEPT ![5] = 4], [core.r EXCEPT ![5] = Less(5)]} :
              Runs(o, core.acc, d, r)
    BY <1>1, <1>9, CopySteps
  <2> QED
    BY <1>2, <1>3, <1>4, <1>5, <1>6, <2>1, RunsTyped
<1>10. ASSUME Pc(K + 12), NEW w \in Words, NEW i \in 0 .. 3, Source(w, i)
       PROVE  core' \in Cores
  <2>1. PICK a \in Byte : a = Buff[WordSize * w + i + 1]
    BY <1>10, ByteInRam
  <2>2. core.dptr \in Ram /\ ram[core.dptr] = a
    BY <1>10, <2>1, ByteInRam
  <2>3. Runs(K + 13, a, core.dptr, core.r)
    BY <1>1, <1>10, <2>2, CopySteps
  <2>4. K + 13 \in 0 .. 62
    BY <1>3
  <2> QED
    BY <1>2, <2>3, <2>4, RunsTyped
<1>11. ASSUME Pc(K + 18) \/ Pc(K + 20) \/ Pc(K + 23) \/ Pc(K + 25)
       PROVE  core' \in Cores
  <2>1. \E o \in {K + 20, K + 18, K + 23, K + 10, K + 25, K + 27}, a \in {core.acc, Status},
           r \in {core.r, [core.r EXCEPT ![6] = Less(6)], [core.r EXCEPT ![7] = Less(7)]} :
              Runs(o, a, core.dptr, r)
    BY <1>1, <1>11, WordSteps
  <2> QED
    BY <1>2, <1>3, <1>4, <1>5, <2>1, RunsTyped
<1>12. ASSUME Pc(K + 30)
       PROVE  core' \in Cores
  <2>1. ram[core.pc] = 165
    BY <1>1, <1>12 DEF Program, Code1
  <2>2. core' = [After(1) EXCEPT !.runs = FALSE]
    BY <2>1, Opcodes DEF Break
  <2>3. core.pc + 1 \in Word16
    BY <1>3, <1>12 DEF Pc, Word16, CodeAddr, DataAddr, PageSize
  <2>4. core \in Cores
    BY CoreTypes DEF Cores
  <2> QED
    BY <2>2, <2>3, <2>4 DEF After, Cores
<1> QED
  BY <1>7, <1>8, <1>9, <1>10, <1>11, <1>12, Points

-----------------------------------------------------------------------------
(* The instructions keep the invariant.                                     *)

\* where the controller is, and how much it has been given
LEMMA Bounded ==
    (job \in Jobs /\ (AtWork \/ Complete)) =>
        faddr \in Word16 /\ Len(latch) <= WordSize
<1> SUFFICES ASSUME job \in Jobs, AtWork \/ Complete
             PROVE  faddr \in Word16 /\ Len(latch) <= WordSize
  OBVIOUS
<1>1. job.page \in 0 .. 63
  BY JobsAssumption
<1>2. NWords = 512 /\ WordSize = 4 /\ Words = 0 .. 511
  BY DEF NWords, WordSize, PageSize, Words
<1>4. \A n \in 0 .. 512 : OnPage(n) => faddr \in Word16
  <2> TAKE n \in 0 .. 512
  <2>1. PICK x : x = 512 * job.page + n
    OBVIOUS
  <2>2. x \in Nat /\ x <= 65535
    BY <1>1, <2>1
  <2> QED
    BY <1>2, <2>1, <2>2, SmallWord DEF OnPage
<1>5. Len(<<>>) <= WordSize
  BY <1>2
<1>6. \A w : \A n \in 0 .. 4 : Latched(w, n) => Len(latch) <= WordSize
  BY <1>2 DEF Latched
<1>7. CASE Opening
  <2>1. OnPage(0) \/ faddr = 0
    BY <1>7 DEF Opening
  <2> QED
    BY <1>4, <1>5, <1>7, <2>1, SmallWord, SMTT(40) DEF Opening, Quiet
<1>8. CASE Erasing \/ SettingUp
  BY <1>4, <1>5, <1>8 DEF Erasing, SettingUp, Quiet
<1>9. CASE Complete
  BY <1>2, <1>4, <1>5, <1>9 DEF Complete, Quiet
<1>10. ASSUME NEW w \in Words, Copying(w)
       PROVE  faddr \in Word16 /\ Len(latch) <= WordSize
  <2>1. OnPage(w) /\ w \in 0 .. 512
    BY <1>2, <1>10 DEF Copying
  <2>2. faddr \in Word16
    BY <1>4, <2>1
  <2>3. CASE Latched(w, 0)
    BY <1>6, <2>2, <2>3
  <2>4. ASSUME NEW i \in 0 .. 3, Giving(w, i)
        PROVE  Len(latch) <= WordSize
    <3>1. Latched(w, i) \/ Latched(w, i + 1)
      BY <2>4 DEF Giving
    <3> QED
      BY <1>6, <3>1
  <2> QED
    BY <1>10, <2>2, <2>3, <2>4, CopyingIs
<1>11. ASSUME NEW w \in Words, Waiting(w)
       PROVE  faddr \in Word16 /\ Len(latch) <= WordSize
  <2>1. (OnPage(w) \/ OnPage(w + 1)) /\ w \in 0 .. 512 /\ w + 1 \in 0 .. 512
    BY <1>2, <1>11 DEF Waiting
  <2>2. Quiet \/ Latched(w, 4)
    BY <1>2, <1>11 DEF Waiting
  <2>3. faddr \in Word16
    BY <1>4, <2>1
  <2>4. Len(latch) <= WordSize
    BY <1>5, <1>6, <2>2 DEF Quiet
  <2> QED
    BY <2>3, <2>4
<1>12. ASSUME NEW w \in Words, Counting(w)
       PROVE  faddr \in Word16 /\ Len(latch) <= WordSize
  <2>1. OnPage(w + 1) /\ w + 1 \in 0 .. 512
    BY <1>2, <1>12 DEF Counting
  <2> QED
    BY <1>4, <1>5, <1>12, <2>1 DEF Counting, Quiet
<1> QED
  BY <1>7, <1>8, <1>9, <1>10, <1>11, <1>12 DEF AtWork, Closing

IInv == TypeOK /\ RoutineInv

LEMMA LoadedStays ==
    ASSUME UNCHANGED <<job, ram>>
    PROVE  Loaded' <=> Loaded
  BY DEF Loaded

LEMMA ExecuteKeeps ==
    ASSUME IInv, Execute
    PROVE  IInv'
<1>1. core.runs /\ UNCHANGED hostVars
  BY Opcodes
<1>2. /\ TypeOK /\ latch \in Seq(Byte) /\ cells = [v \in Words |-> cells[v]] /\ strays = {}
      /\ host \in {"wait", "failed"} /\ memctr = 81 /\ Loaded /\ AtWork
  BY <1>1 DEF IInv, RoutineInv, Loading
<1>3. /\ (AtWork' /\ core'.runs) \/ (Complete' /\ ~ core'.runs)
      /\ latch' \in Seq(Byte) /\ UNCHANGED strays
  BY <1>2, ExecuteStep
<1>4. job' = job /\ host' = host /\ sent' = sent /\ ram' = ram /\ memctr' = memctr
  BY <1>1 DEF hostVars
<1>5. UNCHANGED cells /\ writing' \in BOOLEAN /\ busy' \in {"no", "erase", "word"}
  <2>1. writing \in BOOLEAN /\ busy \in {"no", "erase", "word"}
    BY <1>2 DEF TypeOK
  <2>2. CASE UNCHANGED flashVars
    BY <2>1, <2>2 DEF flashVars
  <2>3. CASE MovAddress
    BY <2>1, <2>3 DEF MovAddress
  <2>4. CASE MovFlc
    BY <2>1, <2>4 DEF MovFlc
  <2>5. CASE MovFwdata
    BY <2>1, <2>5 DEF MovFwdata
  <2> QED
    BY <2>2, <2>3, <2>4, <2>5
       DEF Execute, MovPort, MovAFlc, Jb, MovDptr, MovReg, MovxADptr, IncDptr, Djnz, Break
<1>6. core' \in Cores
  BY <1>2, CoreStays
<1>7. faddr' \in Word16 /\ Len(latch') <= WordSize
  <2>1. ((job \in Jobs /\ (AtWork \/ Complete)) =>
            faddr \in Word16 /\ Len(latch) <= WordSize)'
    BY Bounded, PTL
  <2> QED
    BY <1>2, <1>3, <1>4, <2>1 DEF TypeOK
<1>8. TypeOK'
  BY <1>2, <1>3, <1>4, <1>5, <1>6, <1>7 DEF TypeOK, Cores
<1>9. Loaded'
  BY <1>2, <1>4, LoadedStays
<1> QED
  BY <1>2, <1>3, <1>4, <1>5, <1>8, <1>9 DEF IInv, RoutineInv

-----------------------------------------------------------------------------
(* The controller keeps it.                                                 *)

LEMMA OfThisPage ==
    ASSUME job \in Jobs, NEW w \in Words, OnPage(w)
    PROVE  /\ Page(faddr) = job.page /\ WordAt = w
           /\ (faddr + 1) % 65536 = faddr + 1
<1>1. NWords = 512 /\ w \in 0 .. 511
  BY DEF NWords, WordSize, PageSize, Words
<1>2. PICK p \in 0 .. 63 : p = job.page
  BY JobsAssumption
<1>3. PICK a \in Nat : a = faddr
  BY <1>1, <1>2 DEF OnPage
<1>4. a = 512 * p + w
  BY <1>1, <1>2, <1>3 DEF OnPage
<1>5. a \div 512 = p /\ a % 512 = w /\ (a + 1) % 65536 = a + 1
  BY <1>1, <1>4
<1> QED
  BY <1>1, <1>2, <1>3, <1>5 DEF Page, WordAt

LEMMA EraseKeeps ==
    ASSUME IInv, EraseDone
    PROVE  IInv'
<1>1. /\ TypeOK /\ latch \in Seq(Byte) /\ cells = [v \in Words |-> cells[v]] /\ strays = {}
      /\ job \in Jobs
  BY DEF IInv, RoutineInv, TypeOK
<1>2. busy = "erase"
  BY DEF EraseDone
<1>3. /\ core.runs /\ host \in {"wait", "failed"} /\ memctr = 81 /\ Loaded /\ Erasing
  BY <1>2 DEF IInv, RoutineInv, Loading, Quiet, AtWork, Opening, SettingUp, Closing, Complete,
              Copying, Waiting, Counting
<1>4. 0 \in Words
  BY DEF Words, NWords, WordSize, PageSize
<1>5. Page(faddr) = job.page
  BY <1>1, <1>3, <1>4, OfThisPage DEF Erasing
<1>6. /\ busy' = "no" /\ cells' = [w \in Words |-> Erased] /\ strays' = strays
      /\ UNCHANGED <<hostVars, core, writing, faddr, latch>>
  BY <1>5 DEF EraseDone, Changes
<1>7. Filled(0)' /\ OnPage(0)'
  <2>1. \A v \in Words : v \in Nat /\ ~ v < 0
    BY DEF Words
  <2> QED
    BY <1>3, <1>6, <2>1 DEF Filled, OnPage, Erasing, hostVars
<1>8. Erasing'
  BY <1>3, <1>6, <1>7 DEF Erasing, Pc, hostVars
<1>9. TypeOK'
  BY <1>1, <1>6 DEF TypeOK, hostVars
<1>10. Loaded'
  BY <1>3, <1>6, LoadedStays DEF hostVars
<1> QED
  BY <1>1, <1>3, <1>6, <1>8, <1>9, <1>10 DEF IInv, RoutineInv, AtWork, hostVars

LEMMA WordIsData ==
    ASSUME latch \in Seq(Byte), NEW w \in Words, Latched(w, WordSize)
    PROVE  latch = DataWords[w]
<1>1. WordSize = 4 /\ Len(latch) = 4 /\ \A b \in 1 .. 4 : latch[b] = Buff[4 * w + b]
  BY DEF WordSize, Latched
<1>2. DataWords[w] = [i \in 1 .. 4 |-> Buff[4 * w + i]]
  BY <1>1 DEF DataWords
<1>3. latch = [i \in 1 .. 4 |-> latch[i]]
  BY <1>1
<1> QED
  BY <1>1, <1>2, <1>3

LEMMA WordKeeps ==
    ASSUME IInv, WordDone
    PROVE  IInv'
<1>1. /\ TypeOK /\ latch \in Seq(Byte) /\ cells = [v \in Words |-> cells[v]] /\ strays = {}
      /\ job \in Jobs
  BY DEF IInv, RoutineInv, TypeOK
<1>2. busy = "word"
  BY DEF WordDone
<1>3. PICK w \in Words :
        core.runs /\ host \in {"wait", "failed"} /\ memctr = 81 /\ Loaded /\ Waiting(w)
  BY <1>2 DEF IInv, RoutineInv, Loading, Quiet, AtWork, Opening, Erasing, SettingUp, Closing,
              Complete, Copying, Counting
<1>4. OnPage(w) /\ Filled(w) /\ Latched(w, WordSize)
  BY <1>2, <1>3 DEF Waiting, Quiet
<1>5. Page(faddr) = job.page /\ WordAt = w /\ (faddr + 1) % 65536 = faddr + 1
  BY <1>1, <1>4, OfThisPage
<1>6. /\ busy' = "no" /\ latch' = <<>> /\ faddr' = faddr + 1
      /\ cells' = [cells EXCEPT ![w] = Put(cells[w], latch)] /\ strays' = strays
      /\ UNCHANGED <<hostVars, core, writing>>
  BY <1>5 DEF WordDone, Changes
<1>7. /\ Words = 0 .. 511 /\ NWords = 512 /\ w \in 0 .. 511 /\ WordSize = 4
      /\ job.page \in 0 .. 63
  BY <1>1, JobsAssumption DEF Words, NWords, WordSize, PageSize
<1>8. OnPage(w + 1)' /\ faddr' \in Word16
  <2>1. PICK p \in 0 .. 63, u \in 0 .. 511 : p = job.page /\ u = w
    BY <1>7
  <2>2. faddr = 512 * p + u
    BY <1>4, <1>7, <2>1 DEF OnPage
  <2>3. PICK a \in Nat : a = 512 * p + (u + 1) /\ a <= 65535
    OBVIOUS
  <2>4. faddr' = a
    BY <1>6, <2>2, <2>3
  <2>5. a \in Word16
    BY <2>3, SmallWord
  <2>6. NWords * job'.page + (w + 1) = a
    BY <1>6, <1>7, <2>1, <2>3 DEF hostVars
  <2> QED
    BY <2>4, <2>5, <2>6 DEF OnPage
<1>9. Filled(w + 1)'
  <2>1. SUFFICES ASSUME job.erase \/ job.blank, NEW v \in Words
                 PROVE  cells'[v] = IF v < w + 1 THEN DataWords[v] ELSE Erased
    BY <1>6 DEF Filled, hostVars
  <2>2. \A u \in Words : cells[u] = IF u < w THEN DataWords[u] ELSE Erased
    BY <1>4, <2>1 DEF Filled
  <2>3. CASE v = w
    <3>1. cells[w] = Erased
      <4>1. ~ w < w
        BY <1>7
      <4> QED
        BY <2>2, <4>1
    <3>2. cells'[w] = latch
      BY <1>1, <1>6, <3>1 DEF Put
    <3>3. latch = DataWords[w]
      BY <1>1, <1>4, WordIsData
    <3> QED
      BY <1>7, <2>3, <3>2, <3>3
  <2>4. CASE v # w
    <3>1. cells'[v] = cells[v]
      BY <1>1, <1>6, <2>4
    <3>2. v < w + 1 <=> v < w
      BY <1>7, <2>4
    <3> QED
      BY <2>2, <3>1, <3>2
  <2> QED
    BY <2>3, <2>4
<1>10. Waiting(w)'
  <2>1. Left(NWords - w)' /\ Source(w, WordSize)'
    BY <1>3, <1>6 DEF Waiting, Left, Source
  <2>2. Quiet'
    BY <1>6 DEF Quiet
  <2> QED
    BY <1>3, <1>6, <1>8, <1>9, <2>1, <2>2 DEF Waiting, Pc, K, hostVars
<1>11. cells' = [v \in Words |-> cells'[v]]
  BY <1>1, <1>6
<1>12. TypeOK'
  <2>1. DOMAIN cells' = Words
    BY <1>11
  <2>2. Len(latch') <= WordSize
    <3>1. Len(<<>>) <= WordSize
      BY DEF WordSize
    <3> QED
      BY <1>6, <3>1
  <2> QED
    BY <1>1, <1>6, <1>8, <2>1, <2>2 DEF TypeOK, hostVars
<1>13. Loaded'
  BY <1>3, <1>6, LoadedStays DEF hostVars
<1>14. AtWork'
  BY <1>10 DEF AtWork
<1>15. latch' \in Seq(Byte)
  BY <1>6
<1> QED
  BY <1>1, <1>3, <1>6, <1>11, <1>12, <1>13, <1>14, <1>15 DEF IInv, RoutineInv, hostVars

-----------------------------------------------------------------------------
(* The host loads the page and the routine.                                 *)

\* A block of so many bytes goes behind the s bytes that are there.
LEMMA BlockSent ==
    ASSUME NEW bytes, NEW addr \in Nat, NEW s \in Nat, NEW size \in Nat,
           \A a \in addr .. addr + s + size - 1 : a \in Ram,
           \A i \in 1 .. s : ram[addr + i - 1] = bytes[i],
           ram' = [a \in Ram |-> IF a \in addr + s .. addr + s + size - 1
                                 THEN bytes[s + 1 + a - (addr + s)] ELSE ram[a]]
    PROVE  /\ \A i \in 1 .. s + size : ram'[addr + i - 1] = bytes[i]
           /\ \A a \in Ram : a < addr => ram'[a] = ram[a]
<1>1. ASSUME NEW i \in 1 .. s + size
      PROVE  ram'[addr + i - 1] = bytes[i]
  <2>1. PICK a \in Nat : a = addr + i - 1
    OBVIOUS
  <2>2. a \in Ram
    BY <2>1
  <2>3. CASE i <= s
    <3>1. ~ a \in addr + s .. addr + s + size - 1 /\ i \in 1 .. s
      BY <2>1, <2>3
    <3>2. ram'[a] = ram[a]
      BY <2>2, <3>1
    <3> QED
      BY <2>1, <3>1, <3>2
  <2>4. CASE ~ i <= s
    <3>1. a \in addr + s .. addr + s + size - 1 /\ s + 1 + a - (addr + s) = i
      BY <2>1, <2>4
    <3>2. ram'[a] = bytes[i]
      BY <2>2, <3>1
    <3> QED
      BY <2>1, <3>2
  <2> QED
    BY <2>3, <2>4
<1>2. ASSUME NEW a \in Ram, a < addr
      PROVE  ram'[a] = ram[a]
  <2>1. ~ a \in addr + s .. addr + s + size - 1
    BY <1>2
  <2> QED
    BY <2>1
<1> QED
  BY <1>1, <1>2

LEMMA BlockSizes ==
    ASSUME NEW cnt \in Nat, sent \in Nat, sent < cnt
    PROVE  BlockSize(cnt) \in 1 .. 64 /\ sent + BlockSize(cnt) <= cnt
<1>1. PICK s \in Nat : s = sent
  OBVIOUS
<1> QED
  BY <1>1 DEF BlockSize

LEMMA MovedOn ==
    ASSUME TypeOK, NEW size \in Nat, core' = [core EXCEPT !.dptr = (@ + size) % 65536]
    PROVE  core' \in Cores
<1>1. PICK d \in Nat : d = core.dptr
  BY CoreTypes, WordsAreNat
<1>2. PICK x \in Nat : x = (d + size) % 65536 /\ x <= 65535
  OBVIOUS
<1>3. x \in Word16
  BY <1>2, SmallWord
<1>4. core' = [core EXCEPT !.dptr = x]
  BY <1>1, <1>2
<1>5. core \in Cores
  BY CoreTypes DEF Cores
<1> QED
  BY <1>3, <1>4, <1>5 DEF Cores

\* Until the CPU is let run, only the host has done anything.
LEMMA StillLoading ==
    ASSUME IInv, host \notin {"wait", "done", "failed"}
    PROVE  Loading
  BY DEF IInv, RoutineInv

\* A step of the host leaves the flash and the job alone.
LEMMA HostStep ==
    ASSUME IInv, NEW from, NEW to, At(from, to)
    PROVE  /\ host = from /\ host' = to /\ job' = job
           /\ UNCHANGED <<faddr, writing, latch, busy, cells, strays>>
           /\ latch' \in Seq(Byte) /\ cells' = [v \in Words |-> cells'[v]] /\ strays' = {}
           /\ (Quiet /\ ~ writing /\ faddr = 0
                 /\ (job.blank => \A v \in Words : cells[v] = Erased))
              => (Quiet /\ ~ writing /\ faddr = 0
                    /\ (job.blank => \A v \in Words : cells[v] = Erased))'
<1>1. host = from /\ host' = to /\ job' = job
      /\ UNCHANGED <<faddr, writing, latch, busy, cells, strays>>
  BY DEF At, flashVars
<1>2. latch \in Seq(Byte) /\ cells = [v \in Words |-> cells[v]] /\ strays = {}
  BY DEF IInv, RoutineInv
<1> QED
  BY <1>1, <1>2 DEF Quiet

LEMMA HostTyped ==
    ASSUME IInv, NEW from, NEW to, At(from, to), core' \in Cores, sent' \in 0 .. PageSize,
           DOMAIN ram' = Ram, memctr' \in Byte,
           to \in {"data", "send_data", "routine", "send_routine", "map", "jump", "resume",
                   "wait", "done", "failed"}
    PROVE  TypeOK'
  BY HostStep DEF IInv, TypeOK, Cores

LEMMA CoreSet ==
    ASSUME IInv
    PROVE  /\ core \in Cores
           /\ \A d \in Word16 : [core EXCEPT !.dptr = d] \in Cores
           /\ \A p \in Word16 : [core EXCEPT !.pc = p] \in Cores
           /\ [core EXCEPT !.runs = TRUE] \in Cores
<1>1. core \in Cores
  BY CoreTypes DEF IInv, Cores
<1> QED
  BY <1>1 DEF Cores

LEMMA Addresses ==
    /\ DataAddr = 61440 /\ CodeAddr = 63488 /\ PageSize = 2048
    /\ DataAddr \in Word16 /\ CodeAddr \in Word16
    /\ \A a \in Nat : 61440 <= a /\ a <= 63551 => a \in Ram
<1>1. DataAddr = 61440 /\ CodeAddr = 63488 /\ PageSize = 2048
  BY DEF DataAddr, CodeAddr, PageSize
<1> QED
  BY <1>1, SmallWord DEF Ram

LEMMA RoutineLength ==
    ASSUME job \in Jobs
    PROVE  Len(Routine[job]) \in 1 .. 64 /\ 0 < Len(Routine[job])
<1>1. Listed(Routine[job], job.page, job.erase, K)
  BY RoutineListed DEF K
<1> QED
  BY <1>1 DEF Listed, K

LEMMA PointDataKeeps ==
    ASSUME IInv, PointData
    PROVE  IInv'
<1>1. At("data", "send_data") /\ core' = [core EXCEPT !.dptr = DataAddr] /\ sent' = 0
      /\ UNCHANGED <<ram, memctr>>
  BY DEF PointData, Point
<1>2. Loading /\ DOMAIN ram' = Ram /\ memctr' \in Byte
  BY <1>1, StillLoading, HostStep DEF IInv, TypeOK
<1>3. core' \in Cores /\ sent' \in 0 .. PageSize /\ core'.dptr = DataAddr + sent' /\ sent' < PageSize
      /\ core'.runs = core.runs
  <2>1. core \in Cores /\ core' \in Cores
    BY <1>1, CoreSet, Addresses
  <2> QED
    BY <1>1, <2>1, Addresses DEF Cores
<1>4. TypeOK'
  BY <1>1, <1>2, <1>3, HostTyped
<1>5. Sent(DataAddr, Buff, sent)'
  BY <1>1 DEF Sent
<1>6. Loading'
  BY <1>1, <1>2, <1>3, <1>5, HostStep DEF Loading
<1> QED
  BY <1>1, <1>4, <1>6, HostStep DEF IInv, RoutineInv

LEMMA SendDataKeeps ==
    ASSUME IInv, SendData
    PROVE  IInv'
<1> DEFINE size == BlockSize(PageSize)
<1>1. /\ At("send_data", IF sent + size < PageSize THEN "send_data" ELSE "routine")
      /\ ram' = [a \in Ram |-> IF a \in core.dptr .. core.dptr + size - 1
                               THEN Buff[sent + 1 + a - core.dptr] ELSE ram[a]]
      /\ core' = [core EXCEPT !.dptr = (@ + size) % 65536]
      /\ sent' = sent + size /\ memctr' = memctr
  BY DEF SendData, Send
<1>2. Loading /\ DOMAIN ram' = Ram /\ memctr' \in Byte /\ core \in Cores /\ TypeOK
  BY <1>1, StillLoading, HostStep, CoreSet DEF IInv, TypeOK
<1>3. sent < PageSize /\ core.dptr = DataAddr + sent /\ Sent(DataAddr, Buff, sent)
  BY <1>1, <1>2, HostStep DEF Loading
<1>4. PICK s \in 0 .. 2047 : s = sent
  BY <1>2, <1>3, Addresses DEF TypeOK
<1>5. PICK n \in 1 .. 64 : n = size /\ s + n <= 2048
  BY <1>4, BlockSizes, Addresses
<1> HIDE DEF size
<1>6. core' \in Cores /\ core'.dptr = DataAddr + sent' /\ core'.runs = core.runs
  <2>1. core' \in Cores
    <3>1. TypeOK /\ n \in Nat /\ core' = [core EXCEPT !.dptr = (@ + n) % 65536]
      BY <1>1, <1>2, <1>5
    <3> QED
      BY <3>1, MovedOn
  <2>2. core.dptr = 61440 + s /\ (61440 + s + n) % 65536 = 61440 + (s + n)
    BY <1>3, <1>4, <1>5, Addresses
  <2>3. core'.dptr = 61440 + (s + n)
    BY <1>1, <1>2, <1>5, <2>2 DEF Cores
  <2> QED
    BY <1>1, <1>2, <1>4, <1>5, <2>1, <2>3, Addresses DEF Cores
<1>7. \A i \in 1 .. s + n : ram'[DataAddr + i - 1] = Buff[i]
  <2>1. \A a \in DataAddr .. DataAddr + s + n - 1 : a \in Ram
    BY <1>5, Addresses
  <2>2. \A i \in 1 .. s : ram[DataAddr + i - 1] = Buff[i]
    BY <1>3, <1>4 DEF Sent
  <2>3. ram' = [a \in Ram |-> IF a \in DataAddr + s .. DataAddr + s + n - 1
                              THEN Buff[s + 1 + a - (DataAddr + s)] ELSE ram[a]]
    BY <1>1, <1>3, <1>4, <1>5
  <2>4. DataAddr \in Nat /\ s \in Nat /\ n \in Nat
    BY <1>4, <1>5, Addresses
  <2> QED
    BY <2>1, <2>2, <2>3, <2>4, BlockSent
<1>8. sent' = s + n
  BY <1>1, <1>4, <1>5
<1>9. Sent(DataAddr, Buff, sent)'
  BY <1>7, <1>8 DEF Sent
<1>10. sent' \in 0 .. PageSize /\ (~ sent' < PageSize => sent' = PageSize)
  BY <1>5, <1>8, Addresses
<1>11. /\ host' \in {"send_data", "routine"}
       /\ host' = "send_data" => sent' < PageSize
       /\ host' = "routine" => Sent(DataAddr, Buff, PageSize)'
  <2>1. host' = IF sent' < PageSize THEN "send_data" ELSE "routine"
    BY <1>1, HostStep
  <2>2. ~ sent' < PageSize => Sent(DataAddr, Buff, PageSize)'
    BY <1>9, <1>10 DEF Sent
  <2> QED
    BY <2>1, <2>2
<1>12. TypeOK'
  BY <1>1, <1>2, <1>6, <1>10, HostTyped
<1>13. Loading'
  BY <1>1, <1>2, <1>6, <1>9, <1>11, HostStep DEF Loading
<1> QED
  BY <1>1, <1>12, <1>13, HostStep DEF IInv, RoutineInv

LEMMA PointCodeKeeps ==
    ASSUME IInv, PointCode
    PROVE  IInv'
<1>1. At("routine", "send_routine") /\ core' = [core EXCEPT !.dptr = CodeAddr] /\ sent' = 0
      /\ UNCHANGED <<ram, memctr>>
  BY DEF PointCode, Point
<1>2. Loading /\ DOMAIN ram' = Ram /\ memctr' \in Byte /\ job \in Jobs
  BY <1>1, StillLoading, HostStep DEF IInv, TypeOK
<1>3. core' \in Cores /\ sent' \in 0 .. PageSize /\ core'.dptr = CodeAddr + sent'
      /\ core'.runs = core.runs
  <2>1. core \in Cores /\ core' \in Cores
    BY <1>1, CoreSet, Addresses
  <2> QED
    BY <1>1, <2>1, Addresses DEF Cores
<1>4. TypeOK'
  BY <1>1, <1>2, <1>3, HostTyped
<1>5. Sent(CodeAddr, Routine[job], sent)'
  BY <1>1 DEF Sent
<1>6. Sent(DataAddr, Buff, PageSize)'
  BY <1>1, <1>2, HostStep DEF Loading, Sent
<1>7. sent' < Len(Routine[job'])
  <2>1. job' = job
    BY <1>1, HostStep
  <2>2. 0 < Len(Routine[job])
    BY <1>2, RoutineLength
  <2> QED
    BY <1>1, <2>1, <2>2
<1>8. Loading'
  BY <1>1, <1>2, <1>3, <1>5, <1>6, <1>7, HostStep DEF Loading
<1> QED
  BY <1>1, <1>4, <1>8, HostStep DEF IInv, RoutineInv

LEMMA SendCodeKeeps ==
    ASSUME IInv, SendCode
    PROVE  IInv'
<1>0. PICK bytes, len : bytes = Routine[job] /\ len = Len(Routine[job])
  OBVIOUS
<1> DEFINE size == BlockSize(len)
<1>1. /\ At("send_routine", IF sent + size < len THEN "send_routine" ELSE "map")
      /\ ram' = [a \in Ram |-> IF a \in core.dptr .. core.dptr + size - 1
                               THEN bytes[sent + 1 + a - core.dptr] ELSE ram[a]]
      /\ core' = [core EXCEPT !.dptr = (@ + size) % 65536]
      /\ sent' = sent + size /\ memctr' = memctr
  BY <1>0 DEF SendCode, Send
<1>2. /\ Loading /\ DOMAIN ram' = Ram /\ memctr' \in Byte /\ core \in Cores /\ TypeOK
      /\ job \in Jobs /\ job' = job
  BY <1>1, StillLoading, HostStep, CoreSet DEF IInv, TypeOK
<1>3. /\ sent < len /\ core.dptr = CodeAddr + sent /\ Sent(CodeAddr, bytes, sent)
      /\ Sent(DataAddr, Buff, PageSize) /\ len \in 1 .. 64
  BY <1>0, <1>1, <1>2, HostStep, RoutineLength DEF Loading
<1>4. PICK s \in 0 .. 63 : s = sent
  BY <1>2, <1>3 DEF TypeOK
<1>5. PICK n \in 1 .. 64 : n = size /\ s + n <= len
  BY <1>3, <1>4, BlockSizes
<1> HIDE DEF size
<1>6. core' \in Cores /\ core'.dptr = CodeAddr + sent' /\ core'.runs = core.runs
  <2>1. core' \in Cores
    <3>1. TypeOK /\ n \in Nat /\ core' = [core EXCEPT !.dptr = (@ + n) % 65536]
      BY <1>1, <1>2, <1>5
    <3> QED
      BY <3>1, MovedOn
  <2>2. core.dptr = 63488 + s /\ (63488 + s + n) % 65536 = 63488 + (s + n)
    BY <1>3, <1>4, <1>5, Addresses
  <2>3. core'.dptr = 63488 + (s + n)
    BY <1>1, <1>2, <1>5, <2>2 DEF Cores
  <2> QED
    BY <1>1, <1>2, <1>4, <1>5, <2>1, <2>3, Addresses DEF Cores
<1>7. /\ \A i \in 1 .. s + n : ram'[CodeAddr + i - 1] = bytes[i]
      /\ \A a \in Ram : a < CodeAddr => ram'[a] = ram[a]
  <2>1. \A a \in CodeAddr .. CodeAddr + s + n - 1 : a \in Ram
    BY <1>3, <1>5, Addresses
  <2>2. \A i \in 1 .. s : ram[CodeAddr + i - 1] = bytes[i]
    BY <1>3, <1>4 DEF Sent
  <2>3. ram' = [a \in Ram |-> IF a \in CodeAddr + s .. CodeAddr + s + n - 1
                              THEN bytes[s + 1 + a - (CodeAddr + s)] ELSE ram[a]]
    BY <1>1, <1>3, <1>4, <1>5
  <2>4. CodeAddr \in Nat /\ s \in Nat /\ n \in Nat
    BY <1>4, <1>5, Addresses
  <2> QED
    BY <2>1, <2>2, <2>3, <2>4, BlockSent
<1>8. sent' = s + n
  BY <1>1, <1>4, <1>5
<1>9. Sent(CodeAddr, Routine[job], sent)'
  BY <1>0, <1>2, <1>7, <1>8 DEF Sent
<1>10. \A i \in 1 .. PageSize : ram'[DataAddr + i - 1] = Buff[i]
  <2> TAKE i \in 1 .. PageSize
  <2>1. PICK a \in Nat : a = DataAddr + i - 1 /\ a < CodeAddr /\ a \in Ram
    BY Addresses
  <2>2. ram[a] = Buff[i]
    BY <1>3, <2>1 DEF Sent
  <2> QED
    BY <1>7, <2>1, <2>2
<1>11. sent' \in 0 .. PageSize /\ (~ sent' < len => sent' = len)
  BY <1>3, <1>5, <1>8, Addresses
<1>12. /\ host' \in {"send_routine", "map"}
       /\ host' = "send_routine" => sent' < Len(Routine[job'])
       /\ host' = "map" => Loaded'
  <2>1. host' = IF sent' < len THEN "send_routine" ELSE "map"
    BY <1>1, HostStep
  <2>2. ~ sent' < len => Loaded'
    BY <1>0, <1>2, <1>9, <1>10, <1>11 DEF Sent, Loaded
  <2>3. len = Len(Routine[job'])
    BY <1>0, <1>2
  <2> QED
    BY <2>1, <2>2, <2>3
<1>13. TypeOK'
  BY <1>1, <1>2, <1>6, <1>11, HostTyped
<1>14. Sent(DataAddr, Buff, PageSize)'
  BY <1>10 DEF Sent
<1>15. Loading'
  BY <1>1, <1>2, <1>6, <1>9, <1>12, <1>14, HostStep DEF Loading
<1> QED
  BY <1>1, <1>13, <1>15, HostStep DEF IInv, RoutineInv

LEMMA MapRamKeeps ==
    ASSUME IInv, MapRam
    PROVE  IInv'
<1>1. At("map", "jump") /\ memctr' = 81 /\ UNCHANGED <<sent, ram, core>>
  BY DEF MapRam
<1>2. Loading /\ DOMAIN ram' = Ram /\ memctr' \in Byte /\ core' \in Cores /\ sent' \in 0 .. PageSize
  BY <1>1, StillLoading, HostStep, CoreSet DEF IInv, TypeOK, Byte
<1>3. Loaded'
  BY <1>1, <1>2, HostStep, LoadedStays DEF Loading
<1>4. Loading'
  BY <1>1, <1>2, <1>3, HostStep DEF Loading
<1>5. TypeOK'
  BY <1>1, <1>2, HostTyped
<1> QED
  BY <1>1, <1>4, <1>5, HostStep DEF IInv, RoutineInv

LEMMA SetPCKeeps ==
    ASSUME IInv, SetPC
    PROVE  IInv'
<1>1. At("jump", "resume") /\ core' = [core EXCEPT !.pc = CodeAddr]
      /\ UNCHANGED <<sent, ram, memctr>>
  BY DEF SetPC
<1>2. /\ Loading /\ DOMAIN ram' = Ram /\ memctr' \in Byte /\ sent' \in 0 .. PageSize
      /\ core \in Cores /\ core' \in Cores
  BY <1>1, StillLoading, HostStep, CoreSet, Addresses DEF IInv, TypeOK
<1>3. Loaded'
  BY <1>1, <1>2, HostStep, LoadedStays DEF Loading
<1>4. Pc(0)' /\ core'.runs = core.runs
  <2>1. core'.pc = CodeAddr /\ core'.runs = core.runs
    BY <1>1, <1>2 DEF Cores
  <2> QED
    BY <2>1, Addresses DEF Pc
<1>5. Loading'
  BY <1>1, <1>2, <1>3, <1>4, HostStep DEF Loading
<1>6. TypeOK'
  BY <1>1, <1>2, HostTyped
<1> QED
  BY <1>1, <1>5, <1>6, HostStep DEF IInv, RoutineInv

LEMMA ResumeKeeps ==
    ASSUME IInv, Resume
    PROVE  IInv'
<1>1. At("resume", "wait") /\ core' = [core EXCEPT !.runs = TRUE] /\ UNCHANGED <<sent, ram, memctr>>
  BY DEF Resume
<1>2. /\ Loading /\ DOMAIN ram' = Ram /\ memctr' \in Byte /\ sent' \in 0 .. PageSize
      /\ core \in Cores /\ core' \in Cores
  BY <1>1, StillLoading, HostStep, CoreSet DEF IInv, TypeOK
<1>3. Loaded' /\ memctr' = 81
  BY <1>1, <1>2, HostStep, LoadedStays DEF Loading
<1>4. Pc(0)' /\ core'.runs
  <2>1. core'.pc = core.pc /\ core'.runs
    BY <1>1, <1>2 DEF Cores
  <2> QED
    BY <1>1, <1>2, <2>1, HostStep DEF Pc, Loading
<1>5. Opening'
  BY <1>1, <1>2, <1>4, HostStep DEF Opening, Loading
<1>6. TypeOK'
  BY <1>1, <1>2, HostTyped
<1> QED
  BY <1>1, <1>3, <1>4, <1>5, <1>6, HostStep DEF IInv, RoutineInv, AtWork

LEMMA WaitHaltedKeeps ==
    ASSUME IInv, WaitHalted
    PROVE  IInv'
<1>1. At("wait", "done") /\ ~ core.runs /\ UNCHANGED <<sent, ram, memctr, core>>
  BY DEF WaitHalted
<1>2. Complete
  BY <1>1, HostStep DEF IInv, RoutineInv, Loading
<1>3. Complete'
  BY <1>1, <1>2, HostStep DEF Complete, Quiet, OnPage, Filled
<1>4. core' \in Cores /\ DOMAIN ram' = Ram /\ memctr' \in Byte /\ sent' \in 0 .. PageSize
  BY <1>1, CoreSet DEF IInv, TypeOK
<1>5. TypeOK'
  BY <1>1, <1>4, HostTyped
<1> QED
  BY <1>1, <1>3, <1>5, HostStep DEF IInv, RoutineInv

\* What the CPU and the controller do is a matter of these variables.
LEMMA SameWork ==
    ASSUME UNCHANGED <<job, core, faddr, writing, latch, busy, cells>>
    PROVE  (AtWork => AtWork') /\ (Complete => Complete') /\ (Quiet => Quiet')
<1>1. /\ \A w : (OnPage(w) => OnPage(w)') /\ (Filled(w) => Filled(w)')
      /\ \A w, n : (Source(w, n) => Source(w, n)') /\ (Latched(w, n) => Latched(w, n)')
      /\ \A n : (Left(n) => Left(n)') /\ (Pc(n) => Pc(n)')
      /\ (Quiet => Quiet') /\ K' = K
  BY DEF OnPage, Filled, Source, Latched, Left, Pc, Quiet, K
<1>2. Opening => Opening'
  BY <1>1 DEF Opening
<1>3. Erasing => Erasing'
  BY <1>1 DEF Erasing
<1>4. SettingUp => SettingUp'
  BY <1>1 DEF SettingUp
<1>5. Complete => Complete'
  BY <1>1 DEF Complete
<1>6. Closing => Closing'
  BY <1>1, <1>5 DEF Closing
<1>7. ASSUME NEW w \in Words, Copying(w)
      PROVE  Copying(w)'
  BY <1>1, <1>7 DEF Copying
<1>8. ASSUME NEW w \in Words, Waiting(w)
      PROVE  Waiting(w)'
  BY <1>1, <1>8 DEF Waiting
<1>9. ASSUME NEW w \in Words, Counting(w)
      PROVE  Counting(w)'
  BY <1>1, <1>9 DEF Counting
<1> QED
  BY <1>1, <1>2, <1>3, <1>4, <1>5, <1>6, <1>7, <1>8, <1>9 DEF AtWork

LEMMA UsbFailKeeps ==
    ASSUME IInv, UsbFail
    PROVE  IInv'
<1>1. At(host, "failed") /\ UNCHANGED <<sent, ram, memctr, core>> /\ host \notin {"done", "failed"}
  BY DEF UsbFail
<1>2. host' = "failed" /\ UNCHANGED <<job, faddr, writing, latch, busy, cells, strays>>
  BY <1>1 DEF At, flashVars
<1>3. latch' \in Seq(Byte) /\ cells' = [v \in Words |-> cells'[v]] /\ strays' = {}
  BY <1>2 DEF IInv, RoutineInv
<1>4. TypeOK'
  BY <1>1, <1>2 DEF IInv, TypeOK
<1>5. CASE Loading
  <2>1. Loading'
    BY <1>1, <1>2, <1>5 DEF Loading, Quiet
  <2> QED
    BY <1>3, <1>4, <2>1 DEF IInv, RoutineInv
<1>6. CASE core.runs /\ host \in {"wait", "failed"} /\ memctr = 81 /\ Loaded /\ AtWork
  <2>1. Loaded'
    BY <1>1, <1>2, <1>6, LoadedStays
  <2>2. AtWork'
    BY <1>1, <1>2, <1>6, SameWork
  <2> QED
    BY <1>1, <1>2, <1>3, <1>4, <1>6, <2>1, <2>2 DEF IInv, RoutineInv
<1>7. CASE ~ core.runs /\ host \in {"wait", "done", "failed"} /\ Complete
  <2>1. Complete'
    BY <1>1, <1>2, <1>7 DEF Complete, Quiet, OnPage, Filled
  <2> QED
    BY <1>1, <1>2, <1>3, <1>4, <1>7, <2>1 DEF IInv, RoutineInv
<1> QED
  BY <1>5, <1>6, <1>7 DEF IInv, RoutineInv

-----------------------------------------------------------------------------
(* The theorems.                                                            *)

LEMMA InitInvariant == Init => IInv
<1> SUFFICES ASSUME Init
             PROVE  IInv
  OBVIOUS
<1>1. 0 \in Word16 /\ 0 \in Byte /\ 1 \in Byte /\ WordSize = 4
  BY SmallWord DEF Byte, WordSize
<1>2. [k \in 5 .. 7 |-> 0] \in Registers
  BY <1>1 DEF Registers
<1>3. core \in Cores
  BY <1>1, <1>2 DEF Init, Cores
<1>4. TypeOK
  <2>1. 0 \in 0 .. PageSize /\ Len(<<>>) <= WordSize
    BY <1>1, Addresses
  <2> QED
    BY <1>1, <1>3, <2>1 DEF Init, TypeOK, Cores
<1>5. /\ latch \in Seq(Byte) /\ cells = [v \in Words |-> cells[v]]
      /\ job.blank => \A v \in Words : cells[v] = Erased
  BY DEF Init
<1>6. Loading
  BY <1>5 DEF Init, Loading, Quiet
<1> QED
  BY <1>4, <1>5, <1>6 DEF IInv, RoutineInv, Init

LEMMA NextInvariant == IInv /\ [Next]_vars => IInv'
<1> SUFFICES ASSUME IInv, [Next]_vars
             PROVE  IInv'
  OBVIOUS
<1>1. CASE PointData
  BY <1>1, PointDataKeeps
<1>2. CASE SendData
  BY <1>2, SendDataKeeps
<1>3. CASE PointCode
  BY <1>3, PointCodeKeeps
<1>4. CASE SendCode
  BY <1>4, SendCodeKeeps
<1>5. CASE MapRam
  BY <1>5, MapRamKeeps
<1>6. CASE SetPC
  BY <1>6, SetPCKeeps
<1>7. CASE Resume
  BY <1>7, ResumeKeeps
<1>8. CASE WaitHalted
  BY <1>8, WaitHaltedKeeps
<1>9. CASE UsbFail
  BY <1>9, UsbFailKeeps
<1>10. CASE Execute
  BY <1>10, ExecuteKeeps
<1>11. CASE EraseDone
  BY <1>11, EraseKeeps
<1>12. CASE WordDone
  BY <1>12, WordKeeps
<1>13. CASE UNCHANGED vars
  <2>1. UNCHANGED <<job, host, sent, ram, memctr, core, faddr, writing, latch, busy, cells, strays>>
    BY <1>13 DEF vars, hostVars, flashVars
  <2>2. TypeOK'
    BY <2>1 DEF IInv, TypeOK
  <2>3. (AtWork => AtWork') /\ (Complete => Complete') /\ (Loaded => Loaded')
        /\ (Quiet => Quiet') /\ (Pc(0) => Pc(0)')
    BY <2>1, SameWork, LoadedStays DEF Pc
  <2>4. Loading => Loading'
    BY <2>1, <2>3 DEF Loading, Sent
  <2> QED
    BY <2>1, <2>2, <2>3, <2>4 DEF IInv, RoutineInv
<1> QED
  BY <1>1, <1>2, <1>3, <1>4, <1>5, <1>6, <1>7, <1>8, <1>9, <1>10, <1>11, <1>12, <1>13 DEF Next

\* The invariant is one of the specification.
LEMMA RoutineInvariant == Spec => []IInv
  BY InitInvariant, NextInvariant, PTL DEF Spec

\* Every variable keeps to its type: no register of the CPU, no address of the
\* controller and no word it is given goes beyond its width.
THEOREM TypeCorrect == Spec => []TypeOK
<1>1. IInv => TypeOK
  BY DEF IInv
<1> QED
  BY <1>1, RoutineInvariant, PTL

\* Whatever the host does after it has started the routine, no word of another
\* page is erased or written: FADDRH and FADDRL that the routine sets are the
\* page of the call, for each of the 64, and the loops end in time.
THEOREM OtherPagesKept == Spec => []OnlyThisPage
<1>1. IInv => OnlyThisPage
  BY DEF IInv, RoutineInv, OnlyThisPage
<1> QED
  BY <1>1, RoutineInvariant, PTL

\* With and without the page erase, the CPU is always at the first byte of an
\* instruction: every relative jump of the routine lands on one.
THEOREM JumpsLand == Spec => []OnInstruction
<1>1. IInv => OnInstruction
  BY AtStart DEF IInv, RoutineInv, TypeOK, Loading, OnInstruction
<1> QED
  BY <1>1, RoutineInvariant, PTL

\* When writeFlashPage returns, each of the 512 words of the page is that of
\* the buffer, whatever the buffer holds.
THEOREM PageWritten == Spec => []PageIsBuffer
<1>1. IInv => PageIsBuffer
  <2> SUFFICES ASSUME IInv, host = "done", job.erase \/ job.blank
               PROVE  cells = DataWords
    BY DEF PageIsBuffer
  <2>1. Filled(NWords) /\ cells = [v \in Words |-> cells[v]]
    BY DEF IInv, RoutineInv, Loading, Complete
  <2>2. \A v \in Words : v < NWords
    BY DEF Words, NWords, PageSize, WordSize
  <2>3. \A v \in Words : cells[v] = DataWords[v]
    BY <2>1, <2>2 DEF Filled
  <2>4. DataWords = [v \in Words |-> DataWords[v]]
    BY DEF DataWords
  <2> QED
    BY <2>1, <2>3, <2>4
<1> QED
  BY <1>1, RoutineInvariant, PTL

-----------------------------------------------------------------------------
(* The routine implements PageWrite.                                        *)

\* how many words of the page the controller has written
WordsWritten == IF writing THEN faddr - NWords * job.page ELSE 0

LEMMA WrittenOnPage ==
    (job \in Jobs /\ writing) => \A n \in Nat : OnPage(n) => WordsWritten = n
<1> SUFFICES ASSUME job \in Jobs, writing, NEW n \in Nat, OnPage(n)
             PROVE  WordsWritten = n
  OBVIOUS
<1>1. PICK a \in Nat : a = NWords * job.page
  BY JobsAssumption DEF NWords, WordSize, PageSize
<1>2. faddr = a + n
  BY <1>1 DEF OnPage
<1>3. WordsWritten = (a + n) - a
  BY <1>1, <1>2 DEF WordsWritten
<1> QED
  BY <1>3

\* An instruction of the loops leaves the address to the controller.
LEMMA StillWriting ==
    ASSUME TypeOK, Loaded, Execute, AtWork, writing
    PROVE  UNCHANGED <<faddr, writing>>
<1>1. Program
  BY ProgramLoaded DEF TypeOK
<1>2. ~ Opening /\ ~ Erasing /\ ~ SettingUp
  BY DEF Opening, Erasing, SettingUp
<1>3. UNCHANGED flashVars => UNCHANGED <<faddr, writing>>
  BY DEF flashVars
<1>4. ASSUME Pc(K + 10) \/ Pc(K + 12) \/ Pc(K + 13) \/ Pc(K + 14) \/ Pc(K + 16)
      PROVE  UNCHANGED <<faddr, writing>>
  <2>1. CASE Pc(K + 14)
    BY <1>1, <2>1, CopySteps
  <2>2. CASE Pc(K + 10) \/ Pc(K + 12) \/ Pc(K + 13) \/ Pc(K + 16)
    <3>1. UNCHANGED flashVars
      BY <1>1, <2>2, CopySteps
    <3> QED
      BY <1>3, <3>1
  <2> QED
    BY <1>4, <2>1, <2>2
<1>5. ASSUME Pc(K + 18) \/ Pc(K + 20) \/ Pc(K + 23) \/ Pc(K + 25)
      PROVE  UNCHANGED <<faddr, writing>>
  BY <1>1, <1>3, <1>5, WordSteps
<1>6. CASE Closing
  BY <1>1, <1>3, <1>6, SetupSteps DEF Closing
<1>7. ASSUME NEW w \in Words, Copying(w)
      PROVE  UNCHANGED <<faddr, writing>>
  <2>1. CASE Pc(K + 10)
    BY <1>4, <2>1
  <2>2. ASSUME NEW i \in 0 .. 3, Giving(w, i)
        PROVE  Pc(K + 12) \/ Pc(K + 13) \/ Pc(K + 14) \/ Pc(K + 16)
    BY <2>2, Zenon DEF Giving
  <2> QED
    BY <1>4, <1>7, <2>1, <2>2, CopyingIs
<1>8. ASSUME NEW w \in Words, Waiting(w)
      PROVE  UNCHANGED <<faddr, writing>>
  <2>1. Pc(K + 16) \/ Pc(K + 18) \/ Pc(K + 20)
    BY <1>8 DEF Waiting
  <2> QED
    BY <1>4, <1>5, <2>1
<1>9. ASSUME NEW w \in Words, Counting(w)
      PROVE  UNCHANGED <<faddr, writing>>
  <2>1. Pc(K + 23) \/ Pc(K + 25)
    BY <1>9 DEF Counting
  <2> QED
    BY <1>5, <2>1
<1> QED
  BY <1>2, <1>6, <1>7, <1>8, <1>9 DEF AtWork

\* An instruction before them sets no address once the words are written.
LEMMA NotYetWriting ==
    ASSUME TypeOK, Loaded, Execute, AtWork, ~ writing
    PROVE  writing' => OnPage(0)'
<1>1. Program
  BY ProgramLoaded DEF TypeOK
<1>2. Opening \/ Erasing \/ SettingUp
  BY DEF AtWork, Closing, Complete, Copying, Waiting, Counting
<1>3. CASE Opening
  BY <1>1, <1>3, OpeningStep DEF Opening, Erasing, SettingUp
<1>4. CASE Erasing
  BY <1>1, <1>4, ErasingStep DEF Erasing, SettingUp
<1>5. CASE SettingUp
  BY <1>1, <1>5, SettingUpStep DEF SettingUp, Copying
<1> QED
  BY <1>2, <1>3, <1>4, <1>5

LEMMA ExecuteWritesNone ==
    ASSUME IInv, Execute
    PROVE  WordsWritten' = WordsWritten
<1>1. core.runs /\ job' = job
  BY Opcodes DEF hostVars
<1>2. TypeOK /\ Loaded /\ AtWork /\ job \in Jobs
  BY <1>1 DEF IInv, RoutineInv, Loading, TypeOK
<1>3. CASE writing
  BY <1>1, <1>2, <1>3, StillWriting DEF WordsWritten
<1>4. CASE ~ writing
  <2>1. WordsWritten = 0
    BY <1>4 DEF WordsWritten
  <2>2. CASE ~ writing'
    BY <2>1, <2>2 DEF WordsWritten
  <2>3. CASE writing'
    <3>1. OnPage(0)'
      BY <1>2, <1>4, <2>3, NotYetWriting
    <3>2. ((job \in Jobs /\ writing) => \A n \in Nat : OnPage(n) => WordsWritten = n)'
      BY WrittenOnPage, PTL
    <3> QED
      BY <1>1, <1>2, <2>1, <2>3, <3>1, <3>2
  <2> QED
    BY <2>2, <2>3
<1> QED
  BY <1>3, <1>4

\* The page, what has been written of it and the end that is told stay.
LEMMA Stutters ==
    ASSUME job' = job, cells' = cells, WordsWritten' = WordsWritten,
           host' = "done" <=> host = "done"
    PROVE  UNCHANGED Abstract!vars
<1>1. (host' = "done") = (host = "done")
  OBVIOUS
<1> QED
  BY <1>1 DEF Abstract!vars, WordsWritten

LEMMA InitImplements == Init => WordsWritten = 0 /\ (host = "done") = FALSE
  BY DEF Init, WordsWritten

LEMMA StepImplements == IInv /\ [Next]_vars => [Abstract!Next]_(Abstract!vars)
<1> SUFFICES ASSUME IInv, [Next]_vars
             PROVE  Abstract!Next \/ UNCHANGED Abstract!vars
  OBVIOUS
<1>1. TypeOK /\ job \in Jobs
  BY DEF IInv, TypeOK
<1>2. ASSUME NEW from, NEW to, At(from, to), from # "done", to # "done"
      PROVE  UNCHANGED Abstract!vars
  <2>1. host' # "done" /\ host # "done" /\ job' = job /\ cells' = cells
        /\ writing' = writing /\ faddr' = faddr
    BY <1>2 DEF At, flashVars
  <2>2. WordsWritten' = WordsWritten
    BY <2>1 DEF WordsWritten
  <2> QED
    BY <2>1, <2>2, Stutters
<1>3. CASE PointData \/ SendData \/ PointCode \/ SendCode \/ MapRam \/ SetPC \/ Resume \/ UsbFail
  BY <1>2, <1>3
     DEF PointData, SendData, PointCode, SendCode, MapRam, SetPC, Resume, UsbFail, Point, Send
<1>4. CASE WaitHalted
  <2>1. host = "wait" /\ host' = "done" /\ ~ core.runs /\ UNCHANGED <<job, flashVars>>
    BY <1>4 DEF WaitHalted, At
  <2>2. Complete
    BY <2>1 DEF IInv, RoutineInv, Loading
  <2>3. NWords \in Nat
    BY DEF NWords, WordSize, PageSize
  <2>4. WordsWritten = NWords
    BY <1>1, <2>2, <2>3, WrittenOnPage DEF Complete
  <2>5. WordsWritten' = WordsWritten /\ (host' = "done") = TRUE /\ cells' = cells /\ job' = job
    BY <2>1 DEF WordsWritten, flashVars
  <2> QED
    BY <2>4, <2>5 DEF Abstract!Next, Abstract!Finish, WordsWritten
<1>5. CASE Execute
  <2>1. UNCHANGED hostVars /\ UNCHANGED cells
    BY <1>5, Opcodes DEF Execute, MovAddress, MovPort, MovFlc, MovAFlc, Jb, MovDptr, MovReg,
                         MovxADptr, IncDptr, MovFwdata, Djnz, Break, flashVars
  <2>2. WordsWritten' = WordsWritten
    BY <1>5, ExecuteWritesNone
  <2> QED
    BY <2>1, <2>2, Stutters DEF hostVars
<1>6. CASE EraseDone
  <2>1. busy = "erase"
    BY <1>6 DEF EraseDone
  <2>2. host \in {"wait", "failed"} /\ Erasing
    BY <2>1 DEF IInv, RoutineInv, Loading, Quiet, AtWork, Opening, SettingUp, Closing, Complete,
                Copying, Waiting, Counting
  <2>3. 0 \in Words
    BY DEF Words, NWords, WordSize, PageSize
  <2>4. Page(faddr) = job.page /\ job.erase /\ ~ writing
    BY <1>1, <2>2, <2>3, OfThisPage DEF Erasing
  <2>5. cells' = [w \in Words |-> Erased] /\ UNCHANGED <<job, host, writing, faddr>>
    BY <1>6, <2>4 DEF EraseDone, Changes, hostVars
  <2>6. WordsWritten = 0 /\ WordsWritten' = 0 /\ ~ host = "done"
    BY <2>2, <2>4, <2>5 DEF WordsWritten
  <2> QED
    BY <2>4, <2>5, <2>6 DEF Abstract!Next, Abstract!Erase, Abstract!Words, Words, WordsWritten
<1>7. CASE WordDone
  <2>1. busy = "word" /\ latch \in Seq(Byte)
    BY <1>7 DEF WordDone, IInv, RoutineInv
  <2>2. PICK w \in Words : host \in {"wait", "failed"} /\ Waiting(w)
    BY <2>1 DEF IInv, RoutineInv, Loading, Quiet, AtWork, Opening, Erasing, SettingUp, Closing,
                Complete, Copying, Counting
  <2>3. OnPage(w) /\ Latched(w, WordSize) /\ writing
    BY <2>1, <2>2 DEF Waiting, Quiet
  <2>4. Page(faddr) = job.page /\ WordAt = w /\ (faddr + 1) % 65536 = faddr + 1
    BY <1>1, <2>3, OfThisPage
  <2>5. latch = DataWords[w]
    BY <2>1, <2>3, WordIsData
  <2>6. /\ cells' = [cells EXCEPT ![w] = Put(cells[w], DataWords[w])]
        /\ faddr' = faddr + 1 /\ UNCHANGED <<job, host, writing>>
    BY <1>7, <2>4, <2>5 DEF WordDone, Changes, hostVars
  <2>7. w \in Nat /\ w < NWords
    BY DEF Words, NWords, WordSize, PageSize
  <2>8. WordsWritten = w
    BY <1>1, <2>3, <2>7, WrittenOnPage
  <2>9. WordsWritten' = w + 1
    <3>1. PICK a \in Nat : a = NWords * job.page
      BY <1>1, JobsAssumption DEF NWords, WordSize, PageSize
    <3>2. faddr = a + w
      BY <2>3, <3>1 DEF OnPage
    <3>3. WordsWritten' = (a + w + 1) - a
      BY <2>3, <2>6, <3>1, <3>2 DEF WordsWritten
    <3> QED
      BY <2>7, <3>3
  <2>10. ~ host = "done" /\ (host' = "done") = (host = "done")
    BY <2>2, <2>6
  <2> QED
    BY <2>6, <2>7, <2>8, <2>9, <2>10
       DEF Abstract!Next, Abstract!WriteWord, Abstract!Put, Put, WordsWritten
<1>8. CASE UNCHANGED vars
  BY <1>8, Stutters DEF vars, hostVars, flashVars, WordsWritten
<1> QED
  BY <1>3, <1>4, <1>5, <1>6, <1>7, <1>8 DEF Next

\* The bytes that writeFlashPage sends do what the writing of a page promises:
\* the erase before the first word, the words of the buffer in ascending order
\* and each of them once, and the end only behind the last of them.
THEOREM RoutineWritesPage == Spec => WritesPage
<1>1. Init => WordsWritten = 0 /\ (host = "done") = FALSE
  BY InitImplements
<1>2. IInv /\ [Next]_vars => [Abstract!Next]_(Abstract!vars)
  BY StepImplements
<1> QED
  BY <1>1, <1>2, RoutineInvariant, PTL DEF Spec, WritesPage, Abstract!Spec, WordsWritten
=============================================================================
