----------------------- MODULE NoICEConnection_proofs -----------------------
(***************************************************************************)
(* Proofs about NoICEConnection, for any requests, noise, addresses and    *)
(* number of frames.                                                       *)
(***************************************************************************)
EXTENDS NoICEConnection, FiniteSetTheorems, SequenceTheorems,
        WellFoundedInduction, TLAPS

Byte == 0 .. 255

Asked == [fn : Byte, data : Seq(Byte)]

\* the runs of the target among the requests that were handled
RunsAsked == {i \in DOMAIN handled : handled[i].fn = RUN_TARGET}

\* what the types leave out
Histories ==
    /\ sent \in Seq(Requests)
    /\ handled \in Seq(Asked)

\* a run the client has still to be told about
Pending == IF lastFn = RUN_TARGET THEN 1 ELSE 0

\* The poll is a part of a run.  Its notification is sent by the steps of
\* READ_REGS on a CPU that has stopped, and the program counter has been
\* corrected by then.
Polling ==
    /\ cpu.bp => cpu.st = "halted"
    /\ spc \in {"status", "get_pc", "set_pc"} => lastFn = RUN_TARGET /\ frame = <<>>
    /\ spc \in {"read", "status"} => ~note
    /\ spc \in {"get_pc", "set_pc"} => note /\ cpu.bp
    /\ note =>
          /\ lastFn = RUN_TARGET
          /\ cpu.st = "halted"
          /\ spc \in {"get_pc", "set_pc", "regs_status", "regs_read", "reply", "closed"}
    /\ ~note /\ spc \in {"stop", "step", "reset", "regs_status", "regs_halt", "regs_read",
                         "regs_resume", "reply"} => lastFn # RUN_TARGET
    /\ lastFn = RUN_TARGET /\ spc \in {"read", "status", "get_pc"} /\ cpu.bp
          => cpu.pc = BpAddr + 1
    /\ spc = "set_pc" => savedPC = BpAddr + 1
    /\ note /\ spc \in {"regs_status", "regs_read", "reply"} /\ cpu.bp => cpu.pc = BpAddr
    /\ note /\ spc = "regs_read" => halted
    /\ note /\ spc = "reply" => savedPC = cpu.pc

Reported == replies.runs + Pending <= Cardinality(RunsAsked)

ConnInv == Histories /\ Polling /\ Reported

-----------------------------------------------------------------------------
(* Checksums.                                                               *)

\* Induction, for a set of numbers.
LEMMA AllNumbers ==
    ASSUME NEW S, 0 \in S, \A n \in S \cap Nat : n + 1 \in S
    PROVE  Nat \subseteq S
<1> SUFFICES ASSUME Nat \ S # {}
             PROVE  FALSE
  OBVIOUS
<1> DEFINE R == {ss \in Nat \X Nat : ss[1] < ss[2]}
           T == Nat \ S
<1>1. IsWellFoundedOn(R, Nat)
  BY NatLessThanWellFounded, Zenon DEF OpToRel
<1>2. T \in SUBSET Nat /\ T # {}
  OBVIOUS
<1>3. PICK m \in T : \A y \in T : ~ (<<y, m>> \in R)
  <2> HIDE DEF R, T
  <2> QED
    BY <1>1, <1>2, WFMin, Zenon
<1>4. m \in Nat /\ m \notin S /\ m # 0 /\ m - 1 \in Nat
  OBVIOUS
<1>5. m - 1 \notin S
  <2>1. (m - 1) + 1 = m
    BY <1>4
  <2> QED
    BY <1>4, <2>1
<1>6. m - 1 \in T /\ <<m - 1, m>> \in R
  BY <1>4, <1>5
<1> QED
  BY <1>3, <1>6

LEMMA ByteIsNat == \A x \in Byte : x \in Nat /\ x <= 255
  BY DEF Byte

LEMMA BytesAssociate ==
    \A a, b, c \in Seq(Byte) : (a \o b) \o c = a \o (b \o c)
  BY ConcatAssociative

LEMMA ModIsByte ==
    ASSUME NEW x \in Int
    PROVE  x % 256 \in Byte
  BY DEF Byte

\* g gives the sums of the first bytes of b, up to n.
Summing(g, b, n) ==
    /\ g[0] = 0
    /\ \A i \in 1 .. n : g[i] = (g[i - 1] + b[i]) % 256

Sums(g, b, n) == g \in [0 .. n -> Byte] /\ Summing(g, b, n)

LEMMA SumsExist ==
    ASSUME NEW b \in Seq(Byte)
    PROVE  \A n \in 0 .. Len(b) : \E g : Sums(g, b, n)
<1> DEFINE S == {n \in Nat : n <= Len(b) => \E g : Sums(g, b, n)}
<1>1. 0 \in S
  <2>1. Sums([i \in 0 .. 0 |-> 0], b, 0)
    BY DEF Sums, Summing, Byte
  <2> QED
    BY <2>1
<1>2. ASSUME NEW n \in S
      PROVE  n + 1 \in S
  <2> SUFFICES ASSUME n + 1 <= Len(b)
               PROVE  \E g : Sums(g, b, n + 1)
    OBVIOUS
  <2>1. PICK g : Sums(g, b, n)
    OBVIOUS
  <2>2. PICK h : h = [i \in 0 .. n + 1 |-> IF i = n + 1 THEN (g[n] + b[n + 1]) % 256 ELSE g[i]]
    OBVIOUS
  <2>3. n \in Nat /\ b[n + 1] \in Byte /\ n \in 0 .. n /\ g[n] \in Byte
    BY <2>1 DEF Sums, Summing
  <2>4. (g[n] + b[n + 1]) % 256 \in Byte
    <3>1. \A x, y \in Byte : x + y \in Int
      BY DEF Byte
    <3>2. g[n] + b[n + 1] \in Int
      BY <2>3, <3>1
    <3> QED
      BY <3>2, ModIsByte
  <2>5. h \in [0 .. n + 1 -> Byte] /\ h[0] = 0
    BY <2>1, <2>2, <2>3, <2>4 DEF Sums, Summing
  <2>6. ASSUME NEW i \in 1 .. n + 1
        PROVE  h[i] = (h[i - 1] + b[i]) % 256
    <3>1. i - 1 \in 0 .. n /\ h[i - 1] = g[i - 1]
      BY <2>2, <2>3
    <3>2. CASE i = n + 1
      BY <2>2, <2>3, <3>1, <3>2
    <3>3. CASE i # n + 1
      <4>1. i \in 1 .. n
        BY <2>3, <3>3
      <4> QED
        BY <2>1, <2>2, <3>1, <3>3, <4>1 DEF Sums, Summing
    <3> QED
      BY <3>2, <3>3
  <2> QED
    BY <2>5, <2>6 DEF Sums, Summing
<1>3. Nat \subseteq S
  <2> HIDE DEF S
  <2> QED
    BY <1>1, <1>2, AllNumbers
<1> QED
  BY <1>3

LEMMA SumsUnique ==
    ASSUME NEW b, NEW n \in Nat, NEW g, NEW h, Summing(g, b, n), Summing(h, b, n)
    PROVE  \A i \in 0 .. n : g[i] = h[i]
<1> DEFINE S == {i \in Nat : i <= n => g[i] = h[i]}
<1>1. 0 \in S
  BY DEF Summing
<1>2. ASSUME NEW i \in S
      PROVE  i + 1 \in S
  <2> SUFFICES ASSUME i + 1 <= n
               PROVE  g[i + 1] = h[i + 1]
    OBVIOUS
  <2>1. i \in Nat /\ i + 1 \in 1 .. n /\ (i + 1) - 1 = i /\ g[i] = h[i]
    OBVIOUS
  <2>2. /\ g[i + 1] = (g[(i + 1) - 1] + b[i + 1]) % 256
        /\ h[i + 1] = (h[(i + 1) - 1] + b[i + 1]) % 256
    BY <2>1 DEF Summing
  <2> QED
    BY <2>1, <2>2
<1>3. Nat \subseteq S
  <2> HIDE DEF S
  <2> QED
    BY <1>1, <1>2, AllNumbers
<1> QED
  BY <1>3

\* SumMod is the last of the sums.
LEMMA SumIs ==
    ASSUME NEW b \in Seq(Byte), NEW g, Sums(g, b, Len(b))
    PROVE  SumMod(b) = g[Len(b)]
<1> DEFINE Rec(s) == s = [i \in 0 .. Len(b) |-> IF i = 0 THEN 0 ELSE (s[i - 1] + b[i]) % 256]
<1>1. Rec(g)
  <2>1. g = [i \in 0 .. Len(b) |-> g[i]]
    BY DEF Sums, Summing
  <2>2. \A i \in 0 .. Len(b) : g[i] = IF i = 0 THEN 0 ELSE (g[i - 1] + b[i]) % 256
    BY DEF Sums, Summing
  <2> QED
    BY <2>1, <2>2
<1>2. PICK h : h = CHOOSE s : Rec(s)
  OBVIOUS
<1>3. SumMod(b) = h[Len(b)]
  BY <1>2 DEF SumMod
<1>4. Rec(h)
  <2> HIDE DEF Rec
  <2> QED
    BY <1>1, <1>2, Zenon
<1>5. \A i \in 0 .. Len(b) : h[i] = g[i]
  <2>1. Len(b) \in Nat /\ Summing(h, b, Len(b)) /\ Summing(g, b, Len(b))
    BY <1>4 DEF Sums, Summing
  <2> HIDE DEF Rec
  <2> QED
    BY <2>1, SumsUnique
<1> QED
  BY <1>3, <1>5

LEMMA SumType ==
    ASSUME NEW b \in Seq(Byte)
    PROVE  SumMod(b) \in Byte
<1>1. PICK g : Sums(g, b, Len(b))
  BY SumsExist
<1>2. SumMod(b) = g[Len(b)]
  BY <1>1, SumIs
<1> QED
  BY <1>1, <1>2 DEF Sums, Summing

LEMMA SumAppend ==
    ASSUME NEW b \in Seq(Byte), NEW x \in Byte
    PROVE  SumMod(Append(b, x)) = (SumMod(b) + x) % 256
<1>1. PICK c : c = Append(b, x)
  OBVIOUS
<1>2. /\ c \in Seq(Byte) /\ Len(c) = Len(b) + 1 /\ c[Len(b) + 1] = x
      /\ \A i \in 1 .. Len(b) : c[i] = b[i]
  BY <1>1
<1>3. PICK g : Sums(g, c, Len(c))
  BY <1>2, SumsExist
<1>4. SumMod(c) = g[Len(c)]
  BY <1>2, <1>3, SumIs
<1>5. PICK h : h = [i \in 0 .. Len(b) |-> g[i]]
  OBVIOUS
<1>6. Sums(h, b, Len(b))
  BY <1>2, <1>3, <1>5 DEF Sums, Summing
<1>7. SumMod(b) = h[Len(b)]
  BY <1>6, SumIs
<1>8. h[Len(b)] = g[Len(b)] /\ (Len(b) + 1) - 1 = Len(b) /\ Len(b) + 1 \in 1 .. Len(c)
  BY <1>2, <1>5
<1>9. g[Len(b) + 1] = (g[(Len(b) + 1) - 1] + c[Len(b) + 1]) % 256
  BY <1>3, <1>8 DEF Sums, Summing
<1> QED
  BY <1>1, <1>2, <1>4, <1>7, <1>8, <1>9

\* A frame of a request: its length, its bytes, and its sum, which is 0.
LEMMA FrameIs ==
    ASSUME NEW r \in Requests
    PROVE  /\ FrameOf(r) \in Seq(Byte)
           /\ Len(FrameOf(r)) = Len(r.data) + 3
           /\ FrameOf(r)[1] = r.fn /\ FrameOf(r)[1] >= 127
           /\ FrameOf(r)[2] = Len(r.data)
           /\ \A i \in 1 .. Len(r.data) : FrameOf(r)[i + 2] = r.data[i]
           /\ SumMod(FrameOf(r)) = 0
<1>1. PICK fn, d : /\ r.fn = fn /\ r.data = d
                   /\ fn \in 127 .. 255 /\ d \in Seq(Byte) /\ Len(d) <= 255
  BY RequestsAssumption DEF Byte
<1>2. PICK h : h = <<fn, Len(d)>>
  OBVIOUS
<1>3. h \in Seq(Byte) /\ Len(h) = 2 /\ h[1] = fn /\ h[2] = Len(d)
  <2>1. \A n \in Nat : n <= 255 => n \in Byte
    BY DEF Byte
  <2>2. fn \in Nat /\ fn <= 255 /\ Len(d) \in Nat
    BY <1>1
  <2>3. fn \in Byte
    BY <2>1, <2>2
  <2>4. Len(d) \in Byte
    BY <1>1, <2>1, <2>2
  <2> QED
    BY <1>2, <2>3, <2>4
<1>4. PICK body : body = h \o d
  OBVIOUS
<1>5. /\ body \in Seq(Byte) /\ Len(body) = Len(d) + 2
      /\ body[1] = fn /\ body[2] = Len(d)
      /\ \A i \in 1 .. Len(d) : body[i + 2] = d[i]
  <2>1. /\ body \in Seq(Byte) /\ Len(body) = Len(h) + Len(d)
        /\ \A i \in 1 .. Len(h) + Len(d) :
              body[i] = IF i <= Len(h) THEN h[i] ELSE d[i - Len(h)]
    <3>1. d \in Seq(Byte) /\ h \in Seq(Byte)
      BY <1>1, <1>3
    <3> QED
      BY <1>4, <3>1, ConcatProperties
  <2>2. ASSUME NEW i \in 1 .. Len(d)
        PROVE  body[i + 2] = d[i]
    <3>1. i + 2 \in 1 .. Len(h) + Len(d) /\ ~ (i + 2 <= Len(h)) /\ (i + 2) - Len(h) = i
      BY <1>1, <1>3
    <3> QED
      BY <2>1, <3>1
  <2> QED
    BY <1>1, <1>3, <2>1, <2>2
<1>6. PICK m : m = SumMod(body)
  OBVIOUS
<1>7. m \in Byte /\ (256 - m) % 256 \in Byte /\ (m + ((256 - m) % 256)) % 256 = 0
  <2>1. m \in Byte
    BY <1>5, <1>6, SumType
  <2>2. CASE m = 0
    BY <2>2 DEF Byte
  <2>3. CASE m # 0
    <3>1. 256 - m \in 1 .. 255
      BY <2>1, <2>3 DEF Byte
    <3>2. (256 - m) % 256 = 256 - m
      BY <3>1
    <3>3. m + (256 - m) = 256
      BY <2>1 DEF Byte
    <3> QED
      BY <2>1, <3>1, <3>2, <3>3 DEF Byte
  <2> QED
    BY <2>2, <2>3
<1>8. FrameOf(r) = Append(body, (256 - m) % 256)
  BY <1>1, <1>2, <1>4, <1>6 DEF FrameOf
<1>9. SumMod(FrameOf(r)) = 0
  BY <1>5, <1>6, <1>7, <1>8, SumAppend
<1>10. /\ FrameOf(r) \in Seq(Byte) /\ Len(FrameOf(r)) = Len(body) + 1
       /\ \A i \in 1 .. Len(body) : FrameOf(r)[i] = body[i]
  BY <1>5, <1>7, <1>8
<1>11. /\ 1 \in 1 .. Len(body) /\ 2 \in 1 .. Len(body)
       /\ \A i \in 1 .. Len(d) : i + 2 \in 1 .. Len(body)
  BY <1>1, <1>5
<1>12. Len(FrameOf(r)) = Len(d) + 3
  BY <1>1, <1>5, <1>10
<1>13. /\ FrameOf(r)[1] = fn /\ FrameOf(r)[2] = Len(d)
       /\ \A i \in 1 .. Len(d) : FrameOf(r)[i + 2] = d[i]
  BY <1>5, <1>10, <1>11
<1>14. fn >= 127
  BY <1>1
<1> QED
  BY <1>1, <1>9, <1>10, <1>12, <1>13, <1>14

-----------------------------------------------------------------------------
(* The steps.                                                               *)

Good == TypeOK /\ ConnInv

\* The runs that were asked for can be counted.
LEMMA RunsAreFinite ==
    ASSUME NEW h \in Seq(Asked), NEW R, R = {i \in DOMAIN h : h[i].fn = RUN_TARGET}
    PROVE  IsFiniteSet(R) /\ Cardinality(R) \in Nat /\ Len(h) + 1 \notin R
<1>1. Len(h) \in Nat /\ R \subseteq 1 .. Len(h)
  OBVIOUS
<1>2. IsFiniteSet(1 .. Len(h))
  BY <1>1, FS_Interval
<1>3. IsFiniteSet(R)
  BY <1>1, <1>2, FS_Subset
<1>4. Cardinality(R) \in Nat
  BY <1>3, FS_CardinalityType
<1> QED
  BY <1>1, <1>3, <1>4

LEMMA ConnInit == Init => Good
<1> SUFFICES ASSUME Init
             PROVE  Good
  OBVIOUS
<1>1. TypeOK
  <2>1. cpu \in [st : {"running", "halted"}, bp : BOOLEAN, pc : Addrs]
    BY AddrsAssumption DEF Init
  <2>2. replies \in [fn : 0 .. 255, pc : Addrs, runs : Nat]
    BY AddrsAssumption DEF Init
  <2>3. Len(sent) <= MaxFrames
    BY BoundAssumption DEF Init
  <2>4. /\ net \in Seq(0 .. 255) /\ rest \in Seq(0 .. 255) /\ frame \in Seq(0 .. 255)
        /\ lastFn \in 0 .. 255
    BY DEF Init
  <2>5. /\ savedPC \in Addrs /\ spc \in UsbSteps \cup {"read", "handle", "reply", "closed"}
        /\ note \in BOOLEAN /\ halted \in BOOLEAN /\ cut \in BOOLEAN
    BY AddrsAssumption DEF Init
  <2> QED
    BY <2>1, <2>2, <2>3, <2>4, <2>5 DEF TypeOK
<1>2. Histories
  BY DEF Init, Histories
<1>3. Polling
  <2>1. cpu.bp = FALSE /\ spc = "read" /\ note = FALSE
    BY DEF Init
  <2> QED
    BY <2>1 DEF Polling
<1> USE DEF Init
<1>4. Reported
  <2>1. RunsAsked = {}
    BY DEF RunsAsked
  <2>2. Cardinality(RunsAsked) = 0 /\ Pending = 0
    BY <2>1, FS_EmptySet DEF Pending, RUN_TARGET
  <2> QED
    BY <2>2 DEF Reported
<1> QED
  BY <1>1, <1>2, <1>3, <1>4 DEF Good, ConnInv

\* As long as no request is handled and nothing reported, the account of the
\* runs is kept.
LEMMA ReportedKept ==
    ASSUME Reported, handled' = handled, replies' = replies, lastFn' = lastFn
    PROVE  Reported'
  BY DEF Reported, RunsAsked, Pending

LEMMA BeginFrameStep ==
    ASSUME Good, BeginFrame
    PROVE  Good'
<1> USE DEF Good, ConnInv
<1>1. PICK r \in Requests, n \in {<<>>} \cup {<<b>> : b \in Noise} :
          rest' = n \o FrameOf(r) /\ sent' = Append(sent, r)
  BY DEF BeginFrame
<1>2. /\ UNCHANGED <<net, connVars, spc, cpu, handled, replies, cut>>
      /\ Len(sent) < MaxFrames
  BY DEF BeginFrame
<1>3. n \in Seq(Byte)
  <2>1. CASE n = <<>>
    BY <2>1
  <2>2. ASSUME NEW b \in Noise, n = <<b>>
        PROVE  n \in Seq(Byte)
    <3>1. b \in Byte
      BY NoiseAssumption DEF Byte
    <3> QED
      BY <2>2, <3>1
  <2> QED
    BY <2>1, <2>2
<1>4. rest' \in Seq(Byte)
  BY <1>1, <1>3, FrameIs, ConcatProperties
<1>5. sent' \in Seq(Requests) /\ Len(sent') = Len(sent) + 1 /\ Len(sent) \in Nat
  BY <1>1 DEF Histories
<1>6. TypeOK'
  BY <1>2, <1>4, <1>5, BoundAssumption DEF TypeOK, connVars, Byte, UsbSteps
<1>7. Histories'
  BY <1>2, <1>5 DEF Histories
<1>8. Polling'
  BY <1>2 DEF Polling, connVars
<1>9. Reported'
  BY <1>2, ReportedKept DEF connVars
<1> QED
  BY <1>6, <1>7, <1>8, <1>9

\* The bytes that are sent are the first of the rest.
LEMMA Split ==
    ASSUME NEW s \in Seq(Byte), NEW n \in 1 .. Len(s)
    PROVE  /\ SubSeq(s, 1, n) \in Seq(Byte) /\ Len(SubSeq(s, 1, n)) = n
           /\ \A i \in 1 .. n : SubSeq(s, 1, n)[i] = s[i]
           /\ SubSeq(s, n + 1, Len(s)) \in Seq(Byte)
           /\ Len(SubSeq(s, n + 1, Len(s))) = Len(s) - n
           /\ \A i \in 1 .. Len(s) - n : SubSeq(s, n + 1, Len(s))[i] = s[n + i]
<1>1. \A i \in 1 .. Len(s) : s[i] \in Byte
  OBVIOUS
<1>2. PICK a, b : a = SubSeq(s, 1, n) /\ b = SubSeq(s, n + 1, Len(s))
  OBVIOUS
<1>3. /\ a \in Seq(Byte) /\ Len(a) = n
      /\ \A i \in 1 .. n : a[i] = s[i]
  <2>1. 1 \in Int /\ n \in Int /\ \A i \in 1 .. n : s[i] \in Byte
    BY <1>1
  <2>2. /\ a \in Seq(Byte) /\ Len(a) = IF 1 <= n THEN n - 1 + 1 ELSE 0
        /\ \A i \in 1 .. n - 1 + 1 : a[i] = s[1 + i - 1]
    BY <1>2, <2>1, SubSeqProperties
  <2> QED
    BY <2>2
<1>4. /\ b \in Seq(Byte) /\ Len(b) = Len(s) - n
      /\ \A i \in 1 .. Len(s) - n : b[i] = s[n + i]
  <2>1. n + 1 \in Int /\ Len(s) \in Int /\ \A i \in n + 1 .. Len(s) : s[i] \in Byte
    BY <1>1
  <2>2. /\ b \in Seq(Byte) /\ Len(b) = IF n + 1 <= Len(s) THEN Len(s) - (n + 1) + 1 ELSE 0
        /\ \A i \in 1 .. Len(s) - (n + 1) + 1 : b[i] = s[(n + 1) + i - 1]
    BY <1>2, <2>1, SubSeqProperties
  <2> QED
    BY <2>2
<1> QED
  BY <1>2, <1>3, <1>4

LEMMA SendBytesStep ==
    ASSUME Good, SendBytes
    PROVE  Good'
<1> USE DEF Good, ConnInv
<1>1. PICK n \in 1 .. Len(rest) : /\ net' = net \o SubSeq(rest, 1, n)
                                  /\ rest' = SubSeq(rest, n + 1, Len(rest))
  BY DEF SendBytes
<1>2. UNCHANGED <<connVars, spc, cpu, sent, handled, replies, cut>>
  BY DEF SendBytes
<1>3. net \in Seq(Byte) /\ rest \in Seq(Byte)
  BY DEF TypeOK, Byte
<1>4. rest' \in Seq(Byte) /\ SubSeq(rest, 1, n) \in Seq(Byte)
  BY <1>1, <1>3, Split
<1>5. net' \in Seq(Byte)
  BY <1>1, <1>3, <1>4, ConcatProperties
<1>6. TypeOK'
  BY <1>2, <1>4, <1>5 DEF TypeOK, connVars, Byte
<1>7. Histories' /\ Polling'
  BY <1>2 DEF Histories, Polling, connVars
<1>8. Reported'
  BY <1>2, ReportedKept DEF connVars
<1> QED
  BY <1>6, <1>7, <1>8

\* What has come together when a byte is received.
LEMMA ReceivedType ==
    ASSUME TypeOK, net # <<>>, NEW f, f = Received(frame, Head(net))
    PROVE  /\ f \in Seq(Byte) /\ Tail(net) \in Seq(Byte)
           /\ Complete(f) => RequestOf(f) \in Asked /\ f[1] \in Byte /\ RequestOf(f).fn = f[1]
<1>1. net \in Seq(Byte) /\ frame \in Seq(Byte)
  BY DEF TypeOK, Byte
<1>2. Head(net) \in Byte /\ Tail(net) \in Seq(Byte)
  BY <1>1
<1>3. f \in Seq(Byte)
  BY <1>1, <1>2 DEF Received
<1>4. ASSUME Complete(f)
      PROVE  RequestOf(f) \in Asked /\ f[1] \in Byte /\ RequestOf(f).fn = f[1]
  <2>1. Len(f) \in Nat /\ Len(f) > 2 /\ Len(f) > f[2] + 2
    BY <1>3, <1>4 DEF Complete
  <2>2. \A i \in 1 .. Len(f) : f[i] \in Byte
    BY <1>3
  <2>3. f[1] \in Byte /\ f[2] \in Byte
    BY <2>1, <2>2
  <2>4. f[2] \in Nat
    <3>1. Byte \subseteq Nat
      BY DEF Byte
    <3> QED
      BY <2>3, <3>1
  <2>5. SubSeq(f, 3, 2 + f[2]) \in Seq(Byte)
    <3>1. 3 \in Int /\ 2 + f[2] \in Int /\ \A i \in 3 .. 2 + f[2] : f[i] \in Byte
      BY <2>1, <2>2, <2>4
    <3> QED
      BY <3>1, SubSeqProperties
  <2> QED
    BY <2>3, <2>5 DEF RequestOf, Asked
<1> QED
  BY <1>2, <1>3, <1>4

LEMMA RecvByteStep ==
    ASSUME Good, RecvByte
    PROVE  Good'
<1> USE DEF Good, ConnInv
<1>1. PICK f : f = Received(frame, Head(net))
  OBVIOUS
<1>2. /\ spc = "read" /\ net # <<>> /\ net' = Tail(net)
      /\ UNCHANGED <<rest, halted, savedPC, cpu, sent, replies>>
  BY DEF RecvByte
<1>3. /\ f \in Seq(Byte) /\ net' \in Seq(Byte)
      /\ Complete(f) => RequestOf(f) \in Asked /\ f[1] \in Byte /\ RequestOf(f).fn = f[1]
  BY <1>1, <1>2, ReceivedType
<1>4. \/ /\ frame' \in {f, <<>>}
         /\ UNCHANGED <<spc, lastFn, handled, note, cut>>
      \/ /\ Complete(f)
         /\ frame' = f
         /\ spc' = "handle"
         /\ lastFn' = f[1]
         /\ note' = FALSE
         /\ handled' = Append(handled, RequestOf(f))
         /\ UNCHANGED cut
  BY <1>1 DEF RecvByte
<1>5. frame' \in Seq(Byte)
  <2>1. frame \in Seq(Byte) /\ <<>> \in Seq(Byte)
    BY DEF TypeOK, Byte
  <2>2. frame' = frame \/ frame' = f \/ frame' = <<>>
    BY <1>4
  <2> QED
    BY <1>3, <2>1, <2>2, Zenon
<1>6. CASE UNCHANGED <<spc, lastFn, handled, note, cut>>
  <2>1. TypeOK'
    BY <1>2, <1>3, <1>5, <1>6 DEF TypeOK, Byte
  <2>2. Histories' /\ Polling'
    BY <1>2, <1>6 DEF Histories, Polling
  <2>3. Reported'
    BY <1>2, <1>6, ReportedKept
  <2> QED
    BY <2>1, <2>2, <2>3
<1>7. CASE /\ Complete(f) /\ spc' = "handle" /\ lastFn' = f[1] /\ note' = FALSE
           /\ handled' = Append(handled, RequestOf(f)) /\ UNCHANGED cut
  <2>1. TypeOK'
    BY <1>2, <1>3, <1>5, <1>7 DEF TypeOK, Byte
  <2>2. Polling'
    BY <1>2, <1>7 DEF Polling
  <2>3. handled' \in Seq(Asked)
    BY <1>3, <1>7 DEF Histories
  <2>4. Histories'
    BY <1>2, <2>3 DEF Histories
  <2>5. PICK k : k = Len(handled) + 1
    OBVIOUS
  <2>6. /\ handled \in Seq(Asked) /\ Len(handled) \in Nat
        /\ DOMAIN handled' = (DOMAIN handled) \cup {k} /\ handled'[k] = RequestOf(f)
        /\ \A i \in DOMAIN handled : handled'[i] = handled[i]
    BY <1>3, <1>7, <2>5 DEF Histories
  <2>7. /\ IsFiniteSet(RunsAsked) /\ k \notin RunsAsked
        /\ Cardinality(RunsAsked) \in Nat
    BY <2>5, <2>6, RunsAreFinite DEF RunsAsked
  <2>8. PICK n : n = Cardinality(RunsAsked)
    OBVIOUS
  <2>9. replies.runs <= n /\ replies.runs \in Nat /\ n \in Nat
    BY <2>7, <2>8 DEF Reported, Pending, TypeOK
  <2>10. ASSUME lastFn' = RUN_TARGET
         PROVE  Reported'
    <3>1. RunsAsked' = RunsAsked \cup {k}
      BY <1>3, <1>7, <2>6, <2>10 DEF RunsAsked
    <3>2. Cardinality(RunsAsked') = n + 1
      BY <2>7, <2>8, <3>1, FS_AddElement
    <3>3. Pending' = 1 /\ replies' = replies
      BY <1>2, <2>10 DEF Pending
    <3>4. replies'.runs + Pending' <= n + 1
      BY <2>9, <3>3
    <3> QED
      BY <3>1, <3>2, <3>4 DEF Reported
  <2>11. ASSUME lastFn' # RUN_TARGET
         PROVE  Reported'
    <3>1. RunsAsked' = RunsAsked
      BY <1>3, <1>7, <2>6, <2>7, <2>11 DEF RunsAsked
    <3>2. Cardinality(RunsAsked') = n
      BY <2>8, <3>1
    <3>3. Pending' = 0 /\ replies' = replies
      BY <1>2, <2>11 DEF Pending
    <3>4. replies'.runs + Pending' <= n
      BY <2>9, <3>3
    <3> QED
      BY <3>1, <3>2, <3>4 DEF Reported
  <2> QED
    BY <2>1, <2>2, <2>4, <2>10, <2>11
<1> QED
  BY <1>4, <1>6, <1>7

LEMMA ReadTimeoutStep ==
    ASSUME Good, ReadTimeout
    PROVE  Good'
<1> USE DEF Good, ConnInv
<1>1. /\ UNCHANGED <<net, rest, lastFn, note, halted, savedPC, cpu, sent, handled, replies>>
      /\ spc = "read"
  BY DEF ReadTimeout
<1>2. \/ /\ spc' = "status" /\ lastFn = RUN_TARGET /\ frame = <<>>
         /\ UNCHANGED <<frame, cut>>
      \/ frame' = <<>> /\ cut' = TRUE /\ UNCHANGED spc
  BY DEF ReadTimeout, Polls
<1>3. TypeOK'
  <2>1. frame' \in Seq(0 .. 255) /\ cut' \in BOOLEAN
    <3>1. frame \in Seq(0 .. 255) /\ <<>> \in Seq(0 .. 255) /\ cut \in BOOLEAN
      BY DEF TypeOK
    <3> QED
      BY <1>2, <3>1, Zenon
  <2>2. spc' \in UsbSteps \cup {"read", "handle", "reply", "closed"}
    BY <1>1, <1>2 DEF UsbSteps
  <2> QED
    BY <1>1, <2>1, <2>2 DEF TypeOK
<1>4. Polling'
  BY <1>1, <1>2 DEF Polling
<1>5. Histories'
  BY <1>1 DEF Histories
<1>6. Reported'
  BY <1>1, ReportedKept
<1> QED
  BY <1>3, <1>4, <1>5, <1>6

\* The steps of the chip, of the poll and of the handlers.
Quiet ==
    \/ HitBreakpoint \/ PollStatus \/ GetPC \/ SetPC \/ Handle \/ Stop \/ Run \/ Step \/ Reset
    \/ RegsStatus \/ RegsHalt \/ RegsRead \/ RegsResume \/ Close

LEMMA QuietLeaves ==
    ASSUME Quiet
    PROVE  /\ UNCHANGED <<net, rest, lastFn, sent, handled, replies, cut>>
           /\ frame' = frame \/ (spc = "run" /\ frame' = <<>>)
  BY DEF Quiet, HitBreakpoint, PollStatus, GetPC, SetPC, Handle, Stop, Run, Step, Reset,
         RegsStatus, RegsHalt, RegsRead, RegsResume, Close, connVars

LEMMA QuietTypes ==
    ASSUME Good, Quiet
    PROVE  TypeOK'
<1> USE DEF Good, ConnInv
<1>1. /\ UNCHANGED <<net, rest, lastFn, sent, handled, replies, cut>>
      /\ frame' \in Seq(0 .. 255)
  <2>1. frame \in Seq(0 .. 255) /\ <<>> \in Seq(0 .. 255)
    BY DEF TypeOK
  <2> QED
    BY <2>1, QuietLeaves, Zenon
<1>2. /\ cpu \in [st : {"running", "halted"}, bp : BOOLEAN, pc : Addrs]
      /\ note \in BOOLEAN /\ halted \in BOOLEAN /\ savedPC \in Addrs
      /\ BpAddr + 1 \in Addrs /\ BpAddr \in Addrs /\ 0 \in Addrs /\ Addrs \subseteq Nat
  BY AddrsAssumption DEF TypeOK
<1>3. spc' \in UsbSteps \cup {"read", "handle", "reply", "closed"}
  BY DEF TypeOK, Quiet, HitBreakpoint, PollStatus, GetPC, SetPC, Handle, Stop, Run, Step, Reset,
         RegsStatus, RegsHalt, RegsRead, RegsResume, Close, HandlerStep, UsbSteps
<1>4. note' \in BOOLEAN /\ halted' \in BOOLEAN /\ savedPC' \in Addrs
  BY <1>2 DEF Quiet, HitBreakpoint, PollStatus, GetPC, SetPC, Handle, Stop, Run, Step, Reset,
         RegsStatus, RegsHalt, RegsRead, RegsResume, Close, connVars
<1>5. cpu' \in [st : {"running", "halted"}, bp : BOOLEAN, pc : Addrs]
  <2>1. CASE HitBreakpoint
    BY <1>2, <2>1 DEF HitBreakpoint
  <2>2. CASE SetPC
    <3>1. savedPC = BpAddr + 1 /\ BpAddr \in Nat
      BY <1>2, <2>2 DEF SetPC, Polling
    <3>2. PCBefore(savedPC) = BpAddr
      BY <3>1 DEF PCBefore
    <3> QED
      BY <1>2, <2>2, <3>2 DEF SetPC
  <2>3. CASE Stop \/ RegsHalt
    <3>1. cpu' \in HaltCpu(cpu)
      BY <2>3 DEF Stop, RegsHalt
    <3>2. CASE cpu.st = "halted"
      BY <1>2, <3>1, <3>2 DEF HaltCpu
    <3>3. CASE cpu.st # "halted"
      <4>1. PICK a \in Addrs : cpu' = [st |-> "halted", bp |-> FALSE, pc |-> a]
        BY <3>1, <3>3 DEF HaltCpu
      <4> QED
        BY <4>1
    <3> QED
      BY <3>2, <3>3
  <2>4. CASE Run \/ RegsResume
    <3>1. cpu' = [cpu EXCEPT !.st = "running", !.bp = FALSE]
      BY <2>4 DEF Run, RegsResume, ResumeCpu
    <3> QED
      BY <1>2, <3>1
  <2>5. CASE Step
    <3>1. cpu' \in StepCpu(cpu)
      BY <2>5 DEF Step
    <3>2. CASE cpu.st = "running"
      BY <1>2, <3>1, <3>2 DEF StepCpu
    <3>3. CASE cpu.st # "running"
      <4>1. PICK a \in Addrs : cpu' = [st |-> "halted", bp |-> FALSE, pc |-> a]
        BY <3>1, <3>3 DEF StepCpu
      <4> QED
        BY <4>1
    <3> QED
      BY <3>2, <3>3
  <2>6. CASE Reset
    BY <1>2, <2>6 DEF Reset
  <2>7. CASE PollStatus \/ GetPC \/ Handle \/ RegsStatus \/ RegsRead \/ Close
    BY <1>2, <2>7 DEF PollStatus, GetPC, Handle, RegsStatus, RegsRead, Close
  <2> QED
    BY <2>1, <2>2, <2>3, <2>4, <2>5, <2>6, <2>7 DEF Quiet
<1> QED
  BY <1>1, <1>3, <1>4, <1>5 DEF TypeOK

LEMMA QuietPolls ==
    ASSUME Good, Quiet
    PROVE  Polling'
<1> USE DEF Good, ConnInv
<1>1. /\ cpu \in [st : {"running", "halted"}, bp : BOOLEAN, pc : Addrs]
      /\ note \in BOOLEAN /\ BpAddr \in Nat /\ Addrs \subseteq Nat
  BY AddrsAssumption DEF TypeOK
<1>2. CASE HitBreakpoint
  BY <1>1, <1>2 DEF HitBreakpoint, Polling, connVars
<1>3. CASE PollStatus
  BY <1>1, <1>3 DEF PollStatus, Polling
<1>4. CASE GetPC
  BY <1>1, <1>4 DEF GetPC, Polling
<1>5. CASE SetPC
  <2>1. savedPC = BpAddr + 1 /\ note /\ lastFn = RUN_TARGET /\ cpu.st = "halted"
    BY <1>5 DEF SetPC, Polling
  <2>2. PCBefore(savedPC) = BpAddr
    BY <1>1, <2>1 DEF PCBefore
  <2>3. cpu'.st = cpu.st /\ cpu'.bp = cpu.bp /\ cpu'.pc = BpAddr
    BY <1>1, <1>5, <2>2 DEF SetPC
  <2> QED
    BY <1>5, <2>1, <2>3 DEF SetPC, Polling, connVars
<1>6. CASE Handle
  BY <1>1, <1>6 DEF Handle, HandlerStep, Polling, connVars, RUN_TARGET, STOP_TARGET, STEP,
                    RESET_TARGET, READ_REGS
<1>7. CASE Stop
  BY <1>1, <1>7 DEF Stop, HaltCpu, Polling, connVars
<1>8. CASE Run
  BY <1>1, <1>8 DEF Run, ResumeCpu, Polling
<1>9. CASE Step
  BY <1>1, <1>9 DEF Step, StepCpu, Polling, connVars
<1>10. CASE Reset
  BY <1>1, <1>10 DEF Reset, Polling, connVars
<1>11. CASE RegsStatus
  BY <1>1, <1>11 DEF RegsStatus, Polling
<1>12. CASE RegsHalt
  BY <1>1, <1>12 DEF RegsHalt, HaltCpu, Polling, connVars
<1>13. CASE RegsRead
  BY <1>1, <1>13 DEF RegsRead, Polling
<1>14. CASE RegsResume
  BY <1>1, <1>14 DEF RegsResume, ResumeCpu, Polling, connVars
<1>15. CASE Close
  BY <1>1, <1>15 DEF Close, Polling, connVars
<1> QED
  BY <1>2, <1>3, <1>4, <1>5, <1>6, <1>7, <1>8, <1>9, <1>10, <1>11, <1>12, <1>13, <1>14,
     <1>15 DEF Quiet

LEMMA QuietStep ==
    ASSUME Good, Quiet
    PROVE  Good'
<1>1. UNCHANGED <<net, rest, lastFn, sent, handled, replies, cut>>
  BY QuietLeaves
<1>2. Histories' /\ Reported'
  BY <1>1, ReportedKept DEF Histories, Good, ConnInv
<1> QED
  BY <1>2, QuietTypes, QuietPolls DEF Good, ConnInv

LEMMA ReplyStep ==
    ASSUME Good, Reply
    PROVE  Good'
<1> USE DEF Good, ConnInv
<1>1. /\ spc = "reply" /\ spc' = "read" /\ note' = FALSE /\ frame' = <<>>
      /\ lastFn' = IF note THEN 0 ELSE lastFn
      /\ UNCHANGED <<net, rest, halted, savedPC, cpu, sent, handled, cut>>
  BY DEF Reply, AfterNotification
<1>2. /\ note => lastFn = RUN_TARGET
      /\ ~note => lastFn # RUN_TARGET
      /\ note \in BOOLEAN
  BY <1>1 DEF Polling, TypeOK
<1>3. lastFn' # RUN_TARGET
  BY <1>1, <1>2 DEF RUN_TARGET
<1>4. ReplyFn \in 0 .. 255
  BY DEF ReplyFn, RUN_TARGET, GET_STATUS, READ_MEM, READ_REGS, SET_BYTES, STEP, STOP_TARGET,
         RESET_TARGET, ERROR
<1>5. /\ replies' \in [fn : 0 .. 255, pc : Addrs, runs : Nat]
      /\ replies'.runs = replies.runs + (IF note THEN 1 ELSE 0)
  <2>1. replies.runs \in Nat /\ savedPC \in Addrs
    BY DEF TypeOK
  <2>2. replies.runs + (IF note THEN 1 ELSE 0) \in Nat
    BY <1>2, <2>1
  <2>3. replies' = [fn |-> ReplyFn, pc |-> savedPC,
                    runs |-> replies.runs + (IF note THEN 1 ELSE 0)]
    BY DEF Reply
  <2> QED
    BY <1>4, <2>1, <2>2, <2>3
<1>6. TypeOK'
  <2>1. frame' \in Seq(0 .. 255) /\ lastFn' \in 0 .. 255
    BY <1>1, <1>2 DEF TypeOK
  <2> QED
    BY <1>1, <1>5, <2>1 DEF TypeOK
<1>7. Histories' /\ Polling'
  BY <1>1, <1>3 DEF Histories, Polling
<1>8. Reported'
  <2>1. RunsAsked' = RunsAsked
    BY <1>1 DEF RunsAsked
  <2>2. PICK n : n = Cardinality(RunsAsked)
    OBVIOUS
  <2>3. replies.runs + (IF note THEN 1 ELSE 0) <= n
    BY <1>2, <2>2 DEF Reported, Pending
  <2>4. Pending' = 0 /\ replies'.runs \in Nat
    BY <1>3, <1>5 DEF Pending
  <2> QED
    BY <1>5, <2>1, <2>2, <2>3, <2>4 DEF Reported
<1> QED
  BY <1>6, <1>7, <1>8

LEMMA ConnNext == Good /\ [Next]_vars => Good'
<1> SUFFICES ASSUME Good, [Next]_vars
             PROVE  Good'
  OBVIOUS
<1>1. CASE UNCHANGED vars
  BY <1>1 DEF vars, Good, ConnInv, TypeOK, Histories, Polling, Reported, RunsAsked, Pending
<1> QED
  BY <1>1, BeginFrameStep, SendBytesStep, RecvByteStep, ReadTimeoutStep, QuietStep, ReplyStep
     DEF Next, Server, Quiet

LEMMA ConnAlways == Spec => []Good
  BY ConnInit, ConnNext, PTL DEF Spec

-----------------------------------------------------------------------------
(* What the connection promises.                                            *)

\* The bytes, the frame, the CPU and the replies stay what they are, whatever
\* the client sends (NoICEFrame, NoICETCPConnection).
THEOREM TypeCorrect == Spec => []TypeOK
  BY ConnAlways, PTL DEF Good

\* A run is reported at most once, however the poll, the halt and the next
\* request meet (NoICETCPConnection::Worker).
THEOREM RunsReportedOnce == Spec => []ReportedOnce
<1>1. Good => ReportedOnce
  <2> SUFFICES ASSUME Good
               PROVE  ReportedOnce
    OBVIOUS
  <2>1. PICK n : n = Cardinality(RunsAsked)
    OBVIOUS
  <2>2. n \in Nat /\ replies.runs \in Nat /\ replies.runs + Pending <= n
    BY <2>1, RunsAreFinite DEF Good, ConnInv, Histories, Reported, RunsAsked, TypeOK
  <2>3. replies.runs <= n
    BY <2>2 DEF Pending
  <2> QED
    BY <2>1, <2>3 DEF ReportedOnce, RunsAsked
<1> QED
  BY <1>1, ConnAlways, PTL

\* A report of a halt is sent of a CPU that has stopped, with the program
\* counter it has, and at a breakpoint that is the address of the breakpoint
\* (NoICETCPConnection::Worker).
THEOREM ReportsAreTrue == Spec => ReportIsTrue
<1>1. Good /\ [Next]_vars =>
        [replies'.runs > replies.runs =>
            /\ cpu.st = "halted"
            /\ replies'.pc = cpu.pc
            /\ cpu.bp => cpu.pc = BpAddr]_vars
  <2> SUFFICES ASSUME Good, Next, replies'.runs > replies.runs
               PROVE  /\ cpu.st = "halted"
                      /\ replies'.pc = cpu.pc
                      /\ cpu.bp => cpu.pc = BpAddr
    OBVIOUS
  <2>1. replies.runs \in Nat
    BY DEF Good, TypeOK
  <2>2. replies' # replies
    BY <2>1
  <2>3. Reply
    <3>1. Quiet => replies' = replies
      BY QuietLeaves
    <3> QED
      BY <2>2, <3>1 DEF Next, Server, Quiet, BeginFrame, SendBytes, RecvByte, ReadTimeout
  <2>4. /\ spc = "reply" /\ replies'.pc = savedPC
        /\ replies'.runs = replies.runs + (IF note THEN 1 ELSE 0)
    BY <2>3 DEF Reply
  <2>5. note
    BY <2>1, <2>4 DEF Good, TypeOK
  <2> QED
    BY <2>4, <2>5 DEF Good, ConnInv, Polling
<1> QED
  BY <1>1, ConnAlways, PTL DEF Spec, ReportIsTrue

-----------------------------------------------------------------------------
(* The stream.  The bytes that are under way are the frames of the requests *)
(* that have not been handled, in order, with noise between them.           *)

Width(s, i) == Len(FrameOf(s[i]))

\* at gives the places in the bytes B of the frames of the requests of s from
\* the q-th on; everything else in B is noise.
Placed(at, B, s, q) ==
    /\ at \in [q + 1 .. Len(s) -> Nat \ {0}]
    /\ \A i \in q + 1 .. Len(s) :
          /\ at[i] + Width(s, i) <= Len(B) + 1
          /\ \A j \in 1 .. Width(s, i) : B[at[i] + j - 1] = FrameOf(s[i])[j]
    /\ \A i, k \in q + 1 .. Len(s) : i < k => at[i] + Width(s, i) <= at[k]
    /\ \A p \in 1 .. Len(B) : B[p] >= 127 =>
          \E i \in q + 1 .. Len(s) : at[i] <= p /\ p < at[i] + Width(s, i)

LEMMA WidthIs ==
    ASSUME NEW s \in Seq(Requests), NEW i \in 1 .. Len(s)
    PROVE  /\ s[i] \in Requests /\ Width(s, i) \in Nat /\ Width(s, i) >= 3
           /\ FrameOf(s[i]) \in Seq(Byte) /\ FrameOf(s[i])[1] >= 127
           /\ Width(s, i) = Len(s[i].data) + 3
<1>1. s[i] \in Requests
  OBVIOUS
<1>2. s[i].data \in Seq(Byte)
  BY <1>1, RequestsAssumption DEF Byte
<1>3. PICK n : n = Len(s[i].data)
  OBVIOUS
<1>4. n \in Nat
  BY <1>2, <1>3
<1>5. Width(s, i) = n + 3 /\ FrameOf(s[i]) \in Seq(Byte) /\ FrameOf(s[i])[1] >= 127
  BY <1>1, <1>3, FrameIs DEF Width
<1> QED
  BY <1>1, <1>3, <1>4, <1>5

\* Noise at the front is passed over.
LEMMA PlacedSkip ==
    ASSUME NEW B \in Seq(Byte), NEW s \in Seq(Requests), NEW q \in Nat, NEW at,
           Placed(at, B, s, q), Len(B) > 0, B[1] < 127
    PROVE  \E a : Placed(a, Tail(B), s, q)
<1> DEFINE O == q + 1 .. Len(s)
<1>1. PICK C : C = Tail(B)
  OBVIOUS
<1>2. /\ Len(C) = Len(B) - 1 /\ Len(B) \in Nat /\ Len(C) \in Nat
      /\ \A p \in 1 .. Len(C) : C[p] = B[p + 1]
  BY <1>1
<1>3. ASSUME NEW i \in O
      PROVE  /\ i \in 1 .. Len(s) /\ Width(s, i) \in Nat /\ Width(s, i) >= 3
             /\ at[i] \in Nat /\ at[i] >= 2 /\ at[i] + Width(s, i) <= Len(B) + 1
  <2>1. i \in 1 .. Len(s)
    OBVIOUS
  <2>2. Width(s, i) \in Nat /\ Width(s, i) >= 3 /\ FrameOf(s[i])[1] >= 127
    BY <2>1, WidthIs
  <2>3. PICK x : x = at[i]
    OBVIOUS
  <2>4. x \in Nat \ {0} /\ x + Width(s, i) <= Len(B) + 1
    BY <2>3 DEF Placed
  <2>5. 1 \in 1 .. Width(s, i) /\ x + 1 - 1 = x
    BY <2>2, <2>4
  <2>6. B[x + 1 - 1] = FrameOf(s[i])[1]
    BY <2>3, <2>5 DEF Placed
  <2>7. x # 1
    <3>1. x = 1 => B[1] = FrameOf(s[i])[1]
      BY <2>5, <2>6
    <3>2. B[1] \in Int
      <4>1. B[1] \in Byte
        OBVIOUS
      <4> QED
        BY <4>1, ByteIsNat
    <3> QED
      BY <2>2, <3>1, <3>2
  <2> QED
    BY <2>1, <2>2, <2>3, <2>4, <2>7
<1>4. PICK a : a = [i \in O |-> at[i] - 1]
  OBVIOUS
<1>5. a \in [O -> Nat \ {0}] /\ \A i \in O : a[i] = at[i] - 1
  BY <1>3, <1>4
<1>6. ASSUME NEW i \in O
      PROVE  /\ a[i] + Width(s, i) <= Len(C) + 1
             /\ \A j \in 1 .. Width(s, i) : C[a[i] + j - 1] = FrameOf(s[i])[j]
  <2>3. PICK x, y : x = at[i] /\ y = Width(s, i)
    OBVIOUS
  <2>4. /\ x \in Nat /\ y \in Nat /\ x > 1 /\ y >= 3 /\ x + y <= Len(B) + 1
        /\ a[i] = x - 1
    BY <1>3, <1>5, <2>3
  <2>1. a[i] + Width(s, i) <= Len(C) + 1
    BY <1>2, <2>3, <2>4
  <2>2. ASSUME NEW j \in 1 .. Width(s, i)
        PROVE  C[a[i] + j - 1] = FrameOf(s[i])[j]
    <3>1. PICK p : p = a[i] + j - 1
      OBVIOUS
    <3>2. j \in Nat /\ 1 <= j /\ j <= y /\ p = (x - 1) + j - 1
      BY <2>3, <2>4, <3>1
    <3>3. p \in 1 .. Len(C) /\ p + 1 = x + j - 1
      <4>1. Len(C) = Len(B) - 1 /\ Len(B) \in Nat
        BY <1>2
      <4> QED
        BY <2>4, <3>2, <4>1
    <3>4. B[x + j - 1] = FrameOf(s[i])[j]
      BY <2>3 DEF Placed
    <3> QED
      BY <1>2, <3>1, <3>3, <3>4
  <2> QED
    BY <2>1, <2>2
<1>7. ASSUME NEW i \in O, NEW k \in O, i < k
      PROVE  a[i] + Width(s, i) <= a[k]
  <2>1. at[i] + Width(s, i) <= at[k]
    BY <1>7 DEF Placed
  <2>2. PICK x, y, z : x = at[i] /\ y = Width(s, i) /\ z = at[k]
    OBVIOUS
  <2>3. /\ x \in Nat /\ y \in Nat /\ z \in Nat /\ x + y <= z
        /\ a[i] = x - 1 /\ a[k] = z - 1
    BY <1>3, <1>5, <2>1, <2>2
  <2>4. (x - 1) + y <= z - 1
    BY <2>3
  <2> QED
    BY <2>2, <2>3, <2>4
<1>8. ASSUME NEW p \in 1 .. Len(C), C[p] >= 127
      PROVE  \E i \in O : a[i] <= p /\ p < a[i] + Width(s, i)
  <2>1. p + 1 \in 1 .. Len(B) /\ B[p + 1] >= 127
    BY <1>2, <1>8
  <2>2. PICK i \in O : at[i] <= p + 1 /\ p + 1 < at[i] + Width(s, i)
    BY <2>1 DEF Placed
  <2>3. a[i] <= p /\ p < a[i] + Width(s, i)
    <3>1. PICK x, y : x = at[i] /\ y = Width(s, i)
      OBVIOUS
    <3>2. x \in Nat /\ y \in Nat /\ x <= p + 1 /\ p + 1 < x + y /\ a[i] = x - 1
      BY <1>3, <1>5, <2>2, <3>1
    <3>3. x - 1 <= p /\ p < (x - 1) + y
      BY <3>2
    <3> QED
      BY <3>1, <3>2, <3>3
  <2> QED
    BY <2>3
<1>9. Placed(a, C, s, q)
  BY <1>5, <1>6, <1>7, <1>8 DEF Placed
<1> QED
  BY <1>1, <1>9

\* What is not noise at the front begins the first frame.
LEMMA PlacedFirst ==
    ASSUME NEW B \in Seq(Byte), NEW s \in Seq(Requests), NEW q \in Nat, NEW at,
           Placed(at, B, s, q), Len(B) > 0, B[1] >= 127
    PROVE  q < Len(s) /\ at[q + 1] = 1
<1>1. PICK i \in q + 1 .. Len(s) : at[i] <= 1 /\ 1 < at[i] + Width(s, i)
  <2>1. 1 \in 1 .. Len(B)
    OBVIOUS
  <2> QED
    BY <2>1 DEF Placed
<1>2. q < Len(s) /\ q + 1 \in q + 1 .. Len(s) /\ q + 1 \in 1 .. Len(s)
  BY <1>1
<1>3. at[i] \in Nat \ {0} /\ at[q + 1] \in Nat \ {0}
  BY <1>1, <1>2 DEF Placed
<1>4. Width(s, q + 1) \in Nat /\ Width(s, q + 1) >= 3
  BY <1>2, WidthIs
<1>5. i = q + 1
  <2>1. i # q + 1 => at[q + 1] + Width(s, q + 1) <= at[i]
    <3>1. i # q + 1 => q + 1 < i
      OBVIOUS
    <3> QED
      BY <1>2, <3>1 DEF Placed
  <2> QED
    BY <1>1, <1>3, <1>4, <2>1
<1> QED
  BY <1>1, <1>2, <1>3, <1>5

\* The first frame is taken off.
LEMMA PlacedTake ==
    ASSUME NEW B \in Seq(Byte), NEW s \in Seq(Requests), NEW q \in Nat, NEW at,
           Placed(at, B, s, q), q < Len(s), at[q + 1] = 1,
           NEW C \in Seq(Byte), Len(C) = Len(B) - Width(s, q + 1),
           \A p \in 1 .. Len(C) : C[p] = B[p + Width(s, q + 1)]
    PROVE  \E a : Placed(a, C, s, q + 1)
<1> DEFINE O == (q + 1) + 1 .. Len(s)
<1>1. PICK w : w = Width(s, q + 1)
  OBVIOUS
<1>2. w \in Nat /\ w >= 3 /\ q + 1 \in 1 .. Len(s) /\ q + 1 \in q + 1 .. Len(s)
  <2>1. q + 1 \in 1 .. Len(s) /\ q + 1 \in q + 1 .. Len(s)
    OBVIOUS
  <2> QED
    BY <1>1, <2>1, WidthIs
<1>3. /\ Len(C) = Len(B) - w /\ Len(B) \in Nat /\ Len(C) \in Nat
      /\ \A p \in 1 .. Len(C) : C[p] = B[p + w]
  BY <1>1
<1>4. ASSUME NEW i \in O
      PROVE  /\ i \in q + 1 .. Len(s) /\ Width(s, i) \in Nat /\ Width(s, i) >= 3
             /\ at[i] \in Nat /\ at[i] >= 1 + w /\ at[i] + Width(s, i) <= Len(B) + 1
  <2>1. i \in 1 .. Len(s) /\ i \in q + 1 .. Len(s) /\ q + 1 < i
    OBVIOUS
  <2>2. Width(s, i) \in Nat /\ Width(s, i) >= 3
    BY <2>1, WidthIs
  <2>3. /\ at[i] \in Nat \ {0} /\ at[i] + Width(s, i) <= Len(B) + 1
        /\ at[q + 1] + Width(s, q + 1) <= at[i]
    BY <1>2, <2>1 DEF Placed
  <2>4. PICK u : u = at[q + 1]
    OBVIOUS
  <2>5. u + w <= at[i] /\ w \in Nat
    BY <1>1, <1>2, <2>3, <2>4
  <2>7. u \in Nat \ {0}
    BY <1>2, <2>4 DEF Placed
  <2>6. at[i] \in Nat /\ at[i] >= 1 + w
    BY <2>3, <2>5, <2>7
  <2> QED
    BY <2>1, <2>2, <2>3, <2>6
<1>5. PICK a : a = [i \in O |-> at[i] - w]
  OBVIOUS
<1>6. a \in [O -> Nat \ {0}] /\ \A i \in O : a[i] = at[i] - w
  <2>1. ASSUME NEW i \in O
        PROVE  at[i] - w \in Nat \ {0}
    <3>1. PICK x : x = at[i]
      OBVIOUS
    <3>2. x \in Nat /\ w \in Nat /\ x >= 1 + w
      BY <1>2, <1>4, <3>1
    <3> QED
      BY <3>1, <3>2
  <2> QED
    BY <1>5, <2>1
<1>7. ASSUME NEW i \in O
      PROVE  /\ a[i] + Width(s, i) <= Len(C) + 1
             /\ \A j \in 1 .. Width(s, i) : C[a[i] + j - 1] = FrameOf(s[i])[j]
  <2>3. PICK x, y : x = at[i] /\ y = Width(s, i)
    OBVIOUS
  <2>4. /\ x \in Nat /\ y \in Nat /\ x >= 1 + w /\ y >= 3 /\ x + y <= Len(B) + 1
        /\ a[i] = x - w
    BY <1>2, <1>4, <1>6, <2>3
  <2>5. Len(C) = Len(B) - w /\ Len(B) \in Nat /\ Len(C) \in Nat /\ w \in Nat
    BY <1>2, <1>3
  <2>6. (x - w) + y <= Len(C) + 1
    <3>1. PICK b : b = Len(B)
      OBVIOUS
    <3>2. b \in Nat /\ x + y <= b + 1 /\ Len(C) = b - w
      BY <2>4, <2>5, <3>1
    <3> QED
      BY <2>4, <2>5, <3>2
  <2>1. a[i] + Width(s, i) <= Len(C) + 1
    BY <2>3, <2>4, <2>6
  <2>2. ASSUME NEW j \in 1 .. Width(s, i)
        PROVE  C[a[i] + j - 1] = FrameOf(s[i])[j]
    <3>1. PICK p : p = a[i] + j - 1
      OBVIOUS
    <3>2. j \in Nat /\ 1 <= j /\ j <= y /\ p = (x - w) + j - 1
      BY <2>3, <2>4, <3>1
    <3>3. p \in 1 .. Len(C) /\ p + w = x + j - 1
      BY <2>4, <2>5, <3>2
    <3>4. B[x + j - 1] = FrameOf(s[i])[j]
      BY <1>4, <2>3 DEF Placed
    <3> QED
      BY <1>3, <3>1, <3>3, <3>4
  <2> QED
    BY <2>1, <2>2
<1>8. ASSUME NEW i \in O, NEW k \in O, i < k
      PROVE  a[i] + Width(s, i) <= a[k]
  <2>1. at[i] + Width(s, i) <= at[k]
    BY <1>4, <1>8 DEF Placed
  <2>2. PICK x, y, z : x = at[i] /\ y = Width(s, i) /\ z = at[k]
    OBVIOUS
  <2>3. /\ x \in Nat /\ y \in Nat /\ z \in Nat /\ x + y <= z
        /\ a[i] = x - w /\ a[k] = z - w
    BY <1>4, <1>6, <2>1, <2>2
  <2>4. w \in Nat
    BY <1>2
  <2>5. (x - w) + y <= z - w
    BY <2>3, <2>4
  <2> QED
    BY <2>2, <2>3, <2>5
<1>9. ASSUME NEW p \in 1 .. Len(C), C[p] >= 127
      PROVE  \E i \in O : a[i] <= p /\ p < a[i] + Width(s, i)
  <2>1. p + w \in 1 .. Len(B) /\ B[p + w] >= 127
    BY <1>2, <1>3, <1>9
  <2>2. PICK i \in q + 1 .. Len(s) : at[i] <= p + w /\ p + w < at[i] + Width(s, i)
    BY <2>1 DEF Placed
  <2>3. i # q + 1
    BY <1>1, <1>2, <2>2
  <2>4. i \in O
    BY <2>3
  <2>5. a[i] <= p /\ p < a[i] + Width(s, i)
    <3>1. PICK x, y : x = at[i] /\ y = Width(s, i)
      OBVIOUS
    <3>2. /\ x \in Nat /\ y \in Nat /\ w \in Nat /\ x <= p + w /\ p + w < x + y
          /\ a[i] = x - w
      BY <1>2, <1>4, <1>6, <2>2, <2>4, <3>1
    <3>3. x - w <= p /\ p < (x - w) + y
      BY <3>2
    <3> QED
      BY <3>1, <3>2, <3>3
  <2> QED
    BY <2>4, <2>5
<1>10. Placed(a, C, s, q + 1)
  BY <1>6, <1>7, <1>8, <1>9 DEF Placed
<1> QED
  BY <1>10

\* The frame of one more request comes last, after noise.
LEMMA PlacedMore ==
    ASSUME NEW B \in Seq(Byte), NEW s \in Seq(Requests), NEW q \in 0 .. Len(s), NEW at,
           Placed(at, B, s, q),
           NEW r \in Requests, NEW n \in Seq(Byte), \A p \in 1 .. Len(n) : n[p] < 127
    PROVE  \E a : /\ Placed(a, (B \o n) \o FrameOf(r), Append(s, r), q)
                  /\ \A i \in q + 1 .. Len(s) : a[i] = at[i]
<1>1. PICK F, t, C : F = FrameOf(r) /\ t = Append(s, r) /\ C = (B \o n) \o FrameOf(r)
  OBVIOUS
<1>2. PICK lb, ln, lf, N : lb = Len(B) /\ ln = Len(n) /\ lf = Len(F) /\ N = Len(s)
  OBVIOUS
<1>3. /\ F \in Seq(Byte) /\ lf \in Nat /\ lb \in Nat /\ ln \in Nat /\ N \in Nat /\ q \in 0 .. N
      /\ lf >= 3
  <2>1. t \in Seq(Requests) /\ Len(t) = N + 1 /\ t[N + 1] = r /\ N + 1 \in 1 .. Len(t)
    BY <1>1, <1>2
  <2>2. Width(t, N + 1) = lf /\ lf >= 3 /\ F \in Seq(Byte)
    BY <1>1, <1>2, <2>1, WidthIs DEF Width
  <2> QED
    BY <1>2, <2>2
<1>4. /\ t \in Seq(Requests) /\ Len(t) = N + 1 /\ t[N + 1] = r
      /\ \A i \in 1 .. N : t[i] = s[i]
  BY <1>1, <1>2
<1>5. /\ C \in Seq(Byte) /\ Len(C) = lb + ln + lf
      /\ \A p \in 1 .. lb : C[p] = B[p]
      /\ \A p \in 1 .. ln : C[lb + p] = n[p]
      /\ \A p \in 1 .. lf : C[lb + ln + p] = F[p]
  <2>1. PICK D : D = B \o n
    OBVIOUS
  <2>2. /\ D \in Seq(Byte) /\ Len(D) = lb + ln
        /\ \A p \in 1 .. lb + ln : D[p] = IF p <= lb THEN B[p] ELSE n[p - lb]
    BY <1>2, <2>1, ConcatProperties
  <2>3. /\ C \in Seq(Byte) /\ Len(C) = (lb + ln) + lf
        /\ \A p \in 1 .. (lb + ln) + lf :
              C[p] = IF p <= lb + ln THEN D[p] ELSE F[p - (lb + ln)]
    BY <1>1, <1>2, <1>3, <2>1, <2>2, ConcatProperties
  <2>4. ASSUME NEW p \in 1 .. lb
        PROVE  C[p] = B[p]
    <3>1. p \in 1 .. (lb + ln) + lf /\ p \in 1 .. lb + ln /\ p <= lb /\ p <= lb + ln
      BY <1>3
    <3> QED
      BY <2>2, <2>3, <3>1
  <2>5. ASSUME NEW p \in 1 .. ln
        PROVE  C[lb + p] = n[p]
    <3>1. /\ lb + p \in 1 .. (lb + ln) + lf /\ lb + p \in 1 .. lb + ln
          /\ ~ (lb + p <= lb) /\ lb + p <= lb + ln /\ (lb + p) - lb = p
      BY <1>3
    <3> QED
      BY <2>2, <2>3, <3>1
  <2>6. ASSUME NEW p \in 1 .. lf
        PROVE  C[lb + ln + p] = F[p]
    <3>1. /\ lb + ln + p \in 1 .. (lb + ln) + lf
          /\ ~ (lb + ln + p <= lb + ln) /\ (lb + ln + p) - (lb + ln) = p
      BY <1>3
    <3> QED
      BY <2>3, <3>1
  <2> QED
    BY <2>3, <2>4, <2>5, <2>6
<1>6. PICK a : a = [i \in q + 1 .. N + 1 |-> IF i = N + 1 THEN lb + ln + 1 ELSE at[i]]
  OBVIOUS
<1>7. ASSUME NEW i \in q + 1 .. N
      PROVE  /\ i \in q + 1 .. Len(s) /\ i \in q + 1 .. N + 1 /\ i \in 1 .. N /\ i # N + 1
             /\ a[i] = at[i] /\ at[i] \in Nat \ {0} /\ Width(t, i) = Width(s, i)
             /\ Width(s, i) \in Nat /\ at[i] + Width(s, i) <= lb + 1
  <2>1. i \in q + 1 .. Len(s) /\ i \in q + 1 .. N + 1 /\ i \in 1 .. N /\ i # N + 1
    BY <1>2, <1>3
  <2>2. at[i] \in Nat \ {0} /\ at[i] + Width(s, i) <= lb + 1
    BY <1>2, <2>1 DEF Placed
  <2>3. Width(t, i) = Width(s, i)
    BY <1>4, <2>1 DEF Width
  <2>4. Width(s, i) \in Nat
    BY <1>2, <2>1, WidthIs
  <2> QED
    BY <1>6, <2>1, <2>2, <2>3, <2>4
<1>8. /\ a[N + 1] = lb + ln + 1 /\ N + 1 \in q + 1 .. N + 1 /\ Width(t, N + 1) = lf
      /\ \A i \in q + 1 .. N + 1 : i # N + 1 => i \in q + 1 .. N
  BY <1>1, <1>2, <1>3, <1>4, <1>6 DEF Width
<1>9. a \in [q + 1 .. N + 1 -> Nat \ {0}]
  <2>1. \A i \in q + 1 .. N + 1 : i # N + 1 => at[i] \in Nat \ {0}
    BY <1>7, <1>8
  <2>2. lb + ln + 1 \in Nat \ {0}
    BY <1>3
  <2> QED
    BY <1>6, <2>1, <2>2
<1>10. ASSUME NEW i \in q + 1 .. N + 1
       PROVE  /\ a[i] + Width(t, i) <= Len(C) + 1
              /\ \A j \in 1 .. Width(t, i) : C[a[i] + j - 1] = FrameOf(t[i])[j]
  <2>1. CASE i = N + 1
    <3>1. a[i] + Width(t, i) <= Len(C) + 1
      BY <1>3, <1>5, <1>8, <2>1
    <3>2. ASSUME NEW j \in 1 .. lf
          PROVE  C[a[i] + j - 1] = FrameOf(t[i])[j]
      <4>1. a[i] + j - 1 = lb + ln + j
        BY <1>3, <1>8, <2>1
      <4> QED
        BY <1>1, <1>4, <1>5, <2>1, <4>1
    <3> QED
      BY <1>8, <2>1, <3>1, <3>2
  <2>2. CASE i # N + 1
    <3>1. PICK x, y : x = at[i] /\ y = Width(s, i)
      OBVIOUS
    <3>2. /\ i \in q + 1 .. Len(s) /\ i \in 1 .. N
          /\ a[i] = x /\ x \in Nat \ {0} /\ Width(t, i) = y /\ y \in Nat /\ x + y <= lb + 1
      BY <1>7, <1>8, <2>2, <3>1
    <3>3. x + y <= Len(C) + 1
      BY <1>3, <1>5, <3>2
    <3>4. ASSUME NEW j \in 1 .. y
          PROVE  C[x + j - 1] = FrameOf(t[i])[j]
      <4>1. x + j - 1 \in 1 .. lb
        BY <1>3, <3>2
      <4>2. B[x + j - 1] = FrameOf(s[i])[j]
        BY <3>1, <3>2 DEF Placed
      <4> QED
        BY <1>4, <1>5, <3>2, <4>1, <4>2
    <3> QED
      BY <3>2, <3>3, <3>4
  <2> QED
    BY <2>1, <2>2
<1>11. ASSUME NEW i \in q + 1 .. N + 1, NEW k \in q + 1 .. N + 1, i < k
       PROVE  a[i] + Width(t, i) <= a[k]
  <2>1. i \in q + 1 .. N
    BY <1>3, <1>11
  <2>2. PICK x, y : x = at[i] /\ y = Width(s, i)
    OBVIOUS
  <2>3. a[i] = x /\ Width(t, i) = y /\ x \in Nat /\ y \in Nat /\ x + y <= lb + 1
    BY <1>7, <2>1, <2>2
  <2>4. CASE k = N + 1
    <3>1. a[k] = lb + ln + 1
      BY <1>8, <2>4
    <3> QED
      BY <1>3, <2>3, <3>1
  <2>5. CASE k # N + 1
    <3>1. k \in q + 1 .. N /\ k \in q + 1 .. Len(s) /\ i \in q + 1 .. Len(s) /\ a[k] = at[k]
      BY <1>7, <1>8, <2>1, <2>5
    <3>2. at[i] + Width(s, i) <= at[k]
      BY <1>11, <3>1 DEF Placed
    <3> QED
      BY <2>2, <2>3, <3>1, <3>2
  <2> QED
    BY <2>4, <2>5
<1>12. ASSUME NEW p \in 1 .. Len(C), C[p] >= 127
       PROVE  \E i \in q + 1 .. N + 1 : a[i] <= p /\ p < a[i] + Width(t, i)
  <2>1. CASE p <= lb
    <3>1. p \in 1 .. Len(B) /\ B[p] >= 127
      <4>1. p \in 1 .. lb
        BY <1>3, <1>5, <2>1
      <4> QED
        BY <1>2, <1>5, <1>12, <4>1
    <3>2. PICK i \in q + 1 .. Len(s) : at[i] <= p /\ p < at[i] + Width(s, i)
      BY <3>1 DEF Placed
    <3>3. i \in q + 1 .. N /\ i \in q + 1 .. N + 1
      BY <1>2, <1>3
    <3> QED
      BY <1>7, <3>2, <3>3
  <2>2. CASE p > lb + ln
    <3>1. a[N + 1] <= p /\ p < a[N + 1] + Width(t, N + 1)
      BY <1>3, <1>5, <1>8, <2>2
    <3> QED
      BY <1>8, <3>1
  <2>3. CASE lb < p /\ p <= lb + ln
    <3>1. p - lb \in 1 .. ln /\ lb + (p - lb) = p
      BY <1>3, <2>3
    <3>2. C[p] = n[p - lb] /\ n[p - lb] < 127 /\ n[p - lb] \in Byte
      BY <1>2, <1>5, <3>1
    <3> QED
      BY <1>12, <3>2, ByteIsNat
  <2>4. p \in Nat
    BY <1>5
  <2> QED
    BY <1>3, <2>1, <2>2, <2>3, <2>4
<1>13. Placed(a, C, t, q)
  BY <1>4, <1>9, <1>10, <1>11, <1>12 DEF Placed
<1> QED
  BY <1>1, <1>2, <1>7, <1>13

\* What is received of the frame in hand, and what is under way.
Half == IF spc = "read" THEN frame ELSE <<>>

Coming == (Half \o net) \o rest

\* Unless a frame was forgotten, the requests that were handled are the first
\* of those that were sent, and the others are still coming; what is received
\* of a frame is the beginning of the next.
Streaming ==
    ~cut =>
      /\ Len(handled) <= Len(sent)
      /\ \A i \in 1 .. Len(handled) : handled[i] = sent[i]
      /\ spc # "closed" =>
            \E at : /\ Placed(at, Coming, sent, Len(handled))
                    /\ Half # <<>> => /\ Len(handled) < Len(sent)
                                      /\ at[Len(handled) + 1] = 1
                                      /\ Len(Half) < Width(sent, Len(handled) + 1)

LEMMA StreamInit == Init => Streaming
<1> SUFFICES ASSUME Init
             PROVE  Streaming
  OBVIOUS
<1>1. /\ sent = <<>> /\ handled = <<>> /\ Half = <<>> /\ net = <<>> /\ rest = <<>>
      /\ Len(sent) = 0 /\ Len(handled) = 0
  BY DEF Init, Half
<1>2. Coming = <<>> /\ Len(Coming) = 0
  BY <1>1 DEF Coming
<1>3. 0 + 1 .. 0 = {} /\ <<>> \in [{} -> Nat \ {0}]
  OBVIOUS
<1>4. Placed(<<>>, Coming, sent, Len(handled))
  BY <1>1, <1>2, <1>3 DEF Placed
<1> QED
  BY <1>1, <1>4 DEF Streaming

\* The three parts of what is coming.
LEMMA ComingIs ==
    ASSUME TypeOK
    PROVE  /\ Half \in Seq(Byte) /\ net \in Seq(Byte) /\ rest \in Seq(Byte)
           /\ Coming \in Seq(Byte) /\ Coming = Half \o (net \o rest)
<1>1. frame \in Seq(Byte) /\ net \in Seq(Byte) /\ rest \in Seq(Byte)
  BY DEF TypeOK, Byte
<1>2. Half \in Seq(Byte)
  BY <1>1 DEF Half
<1>3. Half \o net \in Seq(Byte)
  BY <1>1, <1>2, ConcatProperties
<1>4. Coming \in Seq(Byte)
  BY <1>1, <1>3, ConcatProperties DEF Coming
<1>5. (Half \o net) \o rest = Half \o (net \o rest)
  BY <1>1, <1>2, ConcatAssociative
<1> QED
  BY <1>1, <1>2, <1>4, <1>5 DEF Coming

LEMMA StreamKept ==
    ASSUME Streaming, Half' = Half, UNCHANGED <<net, rest, sent, handled, cut>>,
           spc' # "closed" => spc # "closed"
    PROVE  Streaming'
<1>1. Coming' = Coming
  BY DEF Coming
<1> QED
  BY <1>1 DEF Streaming

LEMMA StreamSend ==
    ASSUME Good, Streaming, SendBytes
    PROVE  Streaming'
<1>1. PICK n \in 1 .. Len(rest) : /\ net' = net \o SubSeq(rest, 1, n)
                                  /\ rest' = SubSeq(rest, n + 1, Len(rest))
  BY DEF SendBytes
<1>2. UNCHANGED <<spc, frame, sent, handled, cut>>
  BY DEF SendBytes, connVars
<1>3. PICK x, y : x = SubSeq(rest, 1, n) /\ y = SubSeq(rest, n + 1, Len(rest))
  OBVIOUS
<1>4. /\ Half \in Seq(Byte) /\ net \in Seq(Byte) /\ rest \in Seq(Byte)
      /\ Coming = Half \o (net \o rest)
  BY ComingIs DEF Good
<1>5. x \in Seq(Byte) /\ y \in Seq(Byte)
  BY <1>3, <1>4, Split
<1>6. rest = x \o y
  <2>1. 1 \in 1 .. Len(rest) + 1 /\ n \in 1 - 1 .. Len(rest) /\ Len(rest) \in n .. Len(rest)
    BY <1>4
  <2>2. SubSeq(rest, 1, n) \o SubSeq(rest, n + 1, Len(rest)) = SubSeq(rest, 1, Len(rest))
    BY <1>4, <2>1, ConcatAdjacentSubSeq
  <2>3. SubSeq(rest, 1, Len(rest)) = rest
    BY <1>4, SubSeqFull
  <2> QED
    BY <1>3, <2>2, <2>3
<1>7. (net \o x) \o y = net \o rest
  <2>1. (net \o x) \o y = net \o (x \o y)
    BY <1>4, <1>5, BytesAssociate
  <2> QED
    BY <1>6, <2>1
<1>8. net \o x \in Seq(Byte)
  BY <1>4, <1>5, ConcatProperties
<1>9. (Half \o (net \o x)) \o y = Half \o ((net \o x) \o y)
  <2>1. Half \in Seq(Byte) /\ net \o x \in Seq(Byte) /\ y \in Seq(Byte)
    BY <1>4, <1>5, <1>8
  <2> QED
    BY <2>1, BytesAssociate, Zenon
<1>10. Half' = Half
  BY <1>2 DEF Half
<1>11. Coming' = Coming
  BY <1>1, <1>3, <1>4, <1>7, <1>9, <1>10 DEF Coming
<1> QED
  BY <1>2, <1>10, <1>11 DEF Streaming

LEMMA StreamBegin ==
    ASSUME Good, Streaming, BeginFrame
    PROVE  Streaming'
<1> SUFFICES ASSUME ~cut
             PROVE  Streaming'
  BY DEF Streaming, BeginFrame
<1>1. PICK r \in Requests, n \in {<<>>} \cup {<<b>> : b \in Noise} :
          rest' = n \o FrameOf(r) /\ sent' = Append(sent, r)
  BY DEF BeginFrame
<1>2. UNCHANGED <<net, frame, spc, handled, cut>> /\ rest = <<>>
  BY DEF BeginFrame, connVars
<1>3. n \in Seq(Byte) /\ \A p \in 1 .. Len(n) : n[p] < 127
  <2>1. CASE n = <<>>
    BY <2>1
  <2>2. ASSUME NEW b \in Noise, n = <<b>>
        PROVE  n \in Seq(Byte) /\ \A p \in 1 .. Len(n) : n[p] < 127
    <3>1. b \in Byte /\ b < 127
      BY NoiseAssumption DEF Byte
    <3> QED
      BY <2>2, <3>1
  <2> QED
    BY <2>1, <2>2
<1>4. /\ Half \in Seq(Byte) /\ net \in Seq(Byte) /\ Coming \in Seq(Byte)
      /\ Coming = Half \o (net \o rest)
  BY ComingIs DEF Good
<1>5. PICK F : F = FrameOf(r) /\ F \in Seq(Byte)
  BY FrameIs
<1>6. Coming = Half \o net
  <2>1. net \o <<>> = net
    BY <1>4, ConcatEmptySeq
  <2> QED
    BY <1>2, <1>4, <2>1
<1>7. Half' = Half
  BY <1>2 DEF Half
<1>8. Coming' = (Coming \o n) \o F
  <2>1. Coming' = Coming \o (n \o F)
    BY <1>1, <1>2, <1>5, <1>6, <1>7 DEF Coming
  <2> QED
    <3>1. (Coming \o n) \o F = Coming \o (n \o F)
      <4>1. Coming \in Seq(Byte) /\ n \in Seq(Byte) /\ F \in Seq(Byte)
        BY <1>3, <1>4, <1>5
      <4> QED
        BY <4>1, BytesAssociate, Zenon
    <3> QED
      BY <2>1, <3>1
<1>9. /\ sent \in Seq(Requests) /\ Len(sent) \in Nat
      /\ Len(handled) \in Nat /\ Len(handled) <= Len(sent)
  BY DEF Streaming, Good, ConnInv, Histories
<1>10. /\ Len(sent') = Len(sent) + 1
       /\ \A i \in 1 .. Len(sent) : sent'[i] = sent[i]
  BY <1>1, <1>9
<1>11. /\ Len(handled') <= Len(sent')
       /\ \A i \in 1 .. Len(handled') : handled'[i] = sent'[i]
  BY <1>2, <1>9, <1>10 DEF Streaming
<1>12. ASSUME spc' # "closed"
       PROVE  \E at : /\ Placed(at, Coming', sent', Len(handled'))
                      /\ Half' # <<>> => /\ Len(handled') < Len(sent')
                                         /\ at[Len(handled') + 1] = 1
                                         /\ Len(Half') < Width(sent', Len(handled') + 1)
  <2>1. PICK at : /\ Placed(at, Coming, sent, Len(handled))
                  /\ Half # <<>> => /\ Len(handled) < Len(sent)
                                    /\ at[Len(handled) + 1] = 1
                                    /\ Len(Half) < Width(sent, Len(handled) + 1)
    BY <1>2, <1>12 DEF Streaming
  <2>2. Len(handled) \in 0 .. Len(sent)
    BY <1>9
  <2>3. PICK a : /\ Placed(a, (Coming \o n) \o F, Append(sent, r), Len(handled))
                 /\ \A i \in Len(handled) + 1 .. Len(sent) : a[i] = at[i]
    <3>1. PICK a : /\ Placed(a, (Coming \o n) \o FrameOf(r), Append(sent, r), Len(handled))
                   /\ \A i \in Len(handled) + 1 .. Len(sent) : a[i] = at[i]
      <4>1. /\ Coming \in Seq(Byte) /\ sent \in Seq(Requests) /\ n \in Seq(Byte)
            /\ Placed(at, Coming, sent, Len(handled)) /\ \A p \in 1 .. Len(n) : n[p] < 127
        BY <1>3, <1>4, <1>9, <2>1
      <4> QED
        BY <2>2, <4>1, PlacedMore
    <3> QED
      BY <1>5, <3>1
  <2>4. Placed(a, Coming', sent', Len(handled'))
    BY <1>1, <1>2, <1>8, <2>3
  <2>5. ASSUME Half # <<>>
        PROVE  /\ Len(handled) < Len(sent') /\ a[Len(handled) + 1] = 1
               /\ Len(Half) < Width(sent', Len(handled) + 1)
    <3>1. /\ Len(handled) + 1 \in Len(handled) + 1 .. Len(sent)
          /\ Len(handled) + 1 \in 1 .. Len(sent) /\ Len(handled) < Len(sent')
      BY <1>9, <1>10, <2>1, <2>5
    <3>2. Width(sent', Len(handled) + 1) = Width(sent, Len(handled) + 1)
      BY <1>10, <3>1 DEF Width
    <3> QED
      BY <2>1, <2>3, <2>5, <3>1, <3>2
  <2> QED
    BY <1>2, <1>7, <2>4, <2>5
<1> QED
  BY <1>11, <1>12 DEF Streaming

\* What a frame asks is the request it was made of.
LEMMA RequestIs ==
    ASSUME NEW r \in Requests
    PROVE  RequestOf(FrameOf(r)) = r
<1>1. PICK F, d : F = FrameOf(r) /\ d = r.data
  OBVIOUS
<1>2. /\ r = [fn |-> r.fn, data |-> d] /\ d \in Seq(Byte)
  BY <1>1, RequestsAssumption DEF Byte
<1>3. PICK n : n = Len(d)
  OBVIOUS
<1>4. /\ F \in Seq(Byte) /\ Len(F) = n + 3 /\ F[1] = r.fn /\ F[2] = n /\ n \in Nat
      /\ \A i \in 1 .. n : F[i + 2] = d[i]
  BY <1>1, <1>2, <1>3, FrameIs
<1>5. PICK x : x = SubSeq(F, 3, 2 + n)
  OBVIOUS
<1>6. x \in Seq(Byte) /\ Len(x) = n /\ \A i \in 1 .. n : x[i] = F[3 + i - 1]
  <2>1. \A i \in 1 .. Len(F) : F[i] \in Byte
    BY <1>4
  <2>2. 3 \in Int /\ 2 + n \in Int /\ \A i \in 3 .. 2 + n : F[i] \in Byte
    BY <1>4, <2>1
  <2>3. /\ x \in Seq(Byte) /\ Len(x) = IF 3 <= 2 + n THEN (2 + n) - 3 + 1 ELSE 0
        /\ \A i \in 1 .. (2 + n) - 3 + 1 : x[i] = F[3 + i - 1]
    BY <1>5, <2>2, SubSeqProperties
  <2>4. (2 + n) - 3 + 1 = n /\ (n # 0 => 3 <= 2 + n)
    BY <1>4
  <2>5. n = 0 => Len(x) = 0
    BY <2>3
  <2> QED
    BY <1>4, <2>3, <2>4, <2>5
<1>7. x = d
  <2>1. ASSUME NEW i \in 1 .. n
        PROVE  x[i] = d[i]
    <3>1. 3 + i - 1 = i + 2
      BY <1>4
    <3> QED
      BY <1>4, <1>6, <3>1
  <2>2. Len(x) = Len(d) /\ \A i \in 1 .. Len(x) : x[i] = d[i]
    BY <1>3, <1>6, <2>1
  <2> QED
    BY <1>2, <1>6, <2>2, SeqEqual
<1>8. RequestOf(F) = [fn |-> r.fn, data |-> d]
  BY <1>4, <1>5, <1>7 DEF RequestOf
<1> QED
  BY <1>1, <1>2, <1>8

\* The first bytes of a frame are complete when they are all of it.
LEMMA CompleteIs ==
    ASSUME NEW r \in Requests, NEW f \in Seq(Byte), Len(f) <= Len(FrameOf(r)),
           \A j \in 1 .. Len(f) : f[j] = FrameOf(r)[j]
    PROVE  /\ Complete(f) <=> Len(f) = Len(FrameOf(r))
           /\ Len(f) = Len(FrameOf(r)) => f = FrameOf(r)
<1>1. PICK F, n : F = FrameOf(r) /\ n = Len(r.data)
  OBVIOUS
<1>2. n \in Nat /\ F \in Seq(Byte) /\ Len(F) = n + 3 /\ F[2] = n
  <2>1. r.data \in Seq(Byte)
    BY RequestsAssumption DEF Byte
  <2>2. n \in Nat
    BY <1>1, <2>1
  <2> QED
    BY <1>1, <2>2, FrameIs
<1>3. Len(f) \in Nat /\ Len(f) <= n + 3
  BY <1>1, <1>2
<1>4. Len(f) > 2 => f[2] = n
  <2>1. Len(f) > 2 => 2 \in 1 .. Len(f)
    BY <1>3
  <2> QED
    BY <1>1, <1>2, <2>1
<1>5. Complete(f) <=> Len(f) = n + 3
  BY <1>2, <1>3, <1>4 DEF Complete
<1>6. Len(f) = n + 3 => f = F
  <2> SUFFICES ASSUME Len(f) = Len(F)
               PROVE  f = F
    BY <1>2
  <2> QED
    BY <1>1, <1>2, SeqEqual
<1> QED
  BY <1>1, <1>2, <1>5, <1>6

LEMMA StreamRecv ==
    ASSUME Good, Streaming, RecvByte
    PROVE  Streaming'
<1>1. /\ spc = "read" /\ net # <<>> /\ net' = Tail(net) /\ UNCHANGED <<rest, sent>>
  BY DEF RecvByte
<1>2. PICK f, b, T, q : f = Received(frame, b) /\ b = Head(net) /\ T = Tail(net) /\ q = Len(handled)
  OBVIOUS
<1>3. \/ /\ ~Complete(f)
         /\ frame' = f
         /\ UNCHANGED <<spc, handled, cut>>
      \/ /\ Complete(f)
         /\ SumMod(f) = 0
         /\ frame' = f
         /\ spc' = "handle"
         /\ handled' = Append(handled, RequestOf(f))
         /\ UNCHANGED cut
      \/ /\ Complete(f)
         /\ SumMod(f) # 0
         /\ UNCHANGED cut
  BY <1>2 DEF RecvByte
<1> SUFFICES ASSUME ~cut
             PROVE  Streaming'
  BY <1>3 DEF Streaming
<1>4. PICK at : /\ Placed(at, Coming, sent, q)
                /\ frame # <<>> => q < Len(sent) /\ at[q + 1] = 1 /\ Len(frame) < Width(sent, q + 1)
  BY <1>1, <1>2 DEF Streaming, Half
<1>5. /\ q \in Nat /\ q <= Len(sent) /\ Len(sent) \in Nat /\ sent \in Seq(Requests)
      /\ \A i \in 1 .. q : handled[i] = sent[i]
      /\ handled \in Seq(Asked)
  BY <1>2 DEF Streaming, Good, ConnInv, Histories
<1>6. /\ frame \in Seq(Byte) /\ net \in Seq(Byte) /\ rest \in Seq(Byte) /\ Coming \in Seq(Byte)
      /\ Coming = frame \o (net \o rest)
  BY <1>1, ComingIs DEF Good, Half
<1>7. b \in Byte /\ b \in Nat /\ T \in Seq(Byte) /\ net = <<b>> \o T /\ <<b>> \in Seq(Byte)
  <2>1. b \in Byte /\ T \in Seq(Byte)
    BY <1>1, <1>2, <1>6
  <2>2. net = <<b>> \o T
    BY <1>1, <1>2, <1>6
  <2> QED
    BY <2>1, <2>2, ByteIsNat
<1>8. PICK R : R = T \o rest /\ R \in Seq(Byte)
  BY <1>6, <1>7, ConcatProperties
<1>9. net \o rest = <<b>> \o R
  BY <1>6, <1>7, <1>8, BytesAssociate
<1>10. CASE frame = <<>> /\ b < 127
  <2>1. f = <<>> /\ ~Complete(f)
    BY <1>2, <1>10 DEF Received, Complete
  <2>2. frame' = <<>> /\ UNCHANGED <<spc, handled, cut>>
    BY <1>3, <2>1
  <2>3. Coming = <<b>> \o R
    <3>1. <<>> \o (<<b>> \o R) = <<b>> \o R
      BY <1>7, <1>8, ConcatProperties, ConcatEmptySeq
    <3> QED
      BY <1>6, <1>9, <1>10, <3>1
  <2>4. Len(Coming) > 0 /\ Coming[1] = b /\ Tail(Coming) = R
    BY <1>7, <1>8, <2>3
  <2>5. PICK a : Placed(a, R, sent, q)
    <3>1. Coming[1] < 127
      BY <1>10, <2>4
    <3> QED
      BY <1>4, <1>5, <1>6, <2>4, <3>1, PlacedSkip
  <2>6. Half' = <<>> /\ Coming' = R
    <3>1. Half' = <<>>
      BY <2>2 DEF Half
    <3>2. <<>> \o T = T
      BY <1>7, ConcatEmptySeq
    <3> QED
      BY <1>1, <1>2, <1>8, <3>1, <3>2 DEF Coming
  <2> QED
    BY <1>1, <1>2, <1>5, <2>2, <2>5, <2>6 DEF Streaming
<1>11. CASE ~ (frame = <<>> /\ b < 127)
  <2>1. f = Append(frame, b) /\ f \in Seq(Byte) /\ Len(f) = Len(frame) + 1 /\ Len(frame) \in Nat
    BY <1>2, <1>6, <1>7, <1>11 DEF Received
  <2>2. Coming = f \o R
    <3>1. f = frame \o <<b>>
      BY <1>6, <1>7, <2>1
    <3>2. (frame \o <<b>>) \o R = frame \o (<<b>> \o R)
      BY <1>6, <1>7, <1>8, BytesAssociate
    <3> QED
      BY <1>6, <1>9, <3>1, <3>2
  <2>3. /\ Len(Coming) = Len(f) + Len(R) /\ Len(R) \in Nat
        /\ \A p \in 1 .. Len(f) : Coming[p] = f[p]
        /\ \A p \in 1 .. Len(R) : Coming[Len(f) + p] = R[p]
    BY <1>8, <2>1, <2>2
  <2>4. q < Len(sent) /\ at[q + 1] = 1
    <3>1. CASE frame = <<>>
      <4>1. b >= 127 /\ f[1] = b /\ 1 \in 1 .. Len(f)
        BY <1>7, <1>11, <2>1, <3>1
      <4>2. Len(Coming) > 0 /\ Coming[1] >= 127
        BY <2>1, <2>3, <4>1
      <4>3. /\ Coming \in Seq(Byte) /\ sent \in Seq(Requests) /\ q \in Nat
            /\ Placed(at, Coming, sent, q) /\ Len(Coming) > 0 /\ Coming[1] >= 127
        BY <1>4, <1>5, <1>6, <4>2
      <4> QED
        BY <4>3, PlacedFirst
    <3>2. CASE frame # <<>>
      BY <1>4, <3>2
    <3> QED
      BY <3>1, <3>2
  <2>5. PICK r, w : r = sent[q + 1] /\ w = Width(sent, q + 1)
    OBVIOUS
  <2>6. q + 1 \in 1 .. Len(sent) /\ q + 1 \in q + 1 .. Len(sent)
    BY <1>5, <2>4
  <2>7. r \in Requests /\ w \in Nat /\ w >= 3 /\ w = Len(FrameOf(r)) /\ FrameOf(r) \in Seq(Byte)
    BY <1>5, <2>5, <2>6, WidthIs DEF Width
  <2>8. Len(f) <= w
    <3>1. CASE frame = <<>>
      BY <2>1, <2>7, <3>1
    <3>2. CASE frame # <<>>
      BY <1>4, <2>1, <2>5, <2>7, <3>2
    <3> QED
      BY <3>1, <3>2
  <2>9. \A j \in 1 .. Len(f) : f[j] = FrameOf(r)[j]
    <3>1. ASSUME NEW j \in 1 .. Len(f)
          PROVE  f[j] = FrameOf(r)[j]
      <4>1. j \in 1 .. w /\ 1 + j - 1 = j
        BY <2>1, <2>7, <2>8
      <4>2. Coming[at[q + 1] + j - 1] = FrameOf(sent[q + 1])[j]
        BY <1>4, <2>5, <2>6, <4>1 DEF Placed
      <4> QED
        BY <2>3, <2>4, <2>5, <4>1, <4>2
    <3> QED
      BY <3>1
  <2>10. /\ Complete(f) <=> Len(f) = w
         /\ Len(f) = w => f = FrameOf(r)
    BY <2>1, <2>7, <2>8, <2>9, CompleteIs
  <2>11. CASE Len(f) = w
    <3>1. Complete(f) /\ f = FrameOf(r) /\ SumMod(f) = 0 /\ RequestOf(f) = r
      BY <2>7, <2>10, <2>11, FrameIs, RequestIs
    <3>2. /\ spc' = "handle" /\ handled' = Append(handled, r) /\ UNCHANGED cut
      BY <1>3, <3>1
    <3>3. /\ Len(handled') = q + 1 /\ handled'[q + 1] = r
          /\ \A i \in 1 .. q : handled'[i] = handled[i]
      BY <1>2, <1>5, <3>2
    <3>4. Half' = <<>> /\ Coming' = R
      <4>1. Half' = <<>>
        BY <3>2 DEF Half
      <4>2. <<>> \o T = T
        BY <1>7, ConcatEmptySeq
      <4> QED
        BY <1>1, <1>2, <1>8, <4>1, <4>2 DEF Coming
    <3>5. PICK a : Placed(a, R, sent, q + 1)
      <4>1. /\ Len(R) = Len(Coming) - Width(sent, q + 1)
            /\ \A p \in 1 .. Len(R) : R[p] = Coming[p + Width(sent, q + 1)]
        <5>1. \A p \in 1 .. Len(R) : p + w = w + p
          BY <2>3, <2>7
        <5>2. Len(R) = Len(Coming) - w
          BY <2>3, <2>7, <2>11
        <5> QED
          BY <2>3, <2>5, <2>11, <5>1, <5>2
      <4> QED
        BY <1>4, <1>5, <1>6, <1>8, <2>4, <4>1, PlacedTake
    <3>6. \A i \in 1 .. q + 1 : handled'[i] = sent'[i]
      <4>1. \A i \in 1 .. q + 1 : i = q + 1 \/ i \in 1 .. q
        BY <1>5
      <4> QED
        BY <1>1, <1>5, <2>5, <3>3, <4>1
    <3>7. q + 1 <= Len(sent)
      BY <2>6
    <3> QED
      BY <1>1, <3>3, <3>4, <3>5, <3>6, <3>7 DEF Streaming
  <2>12. CASE Len(f) # w
    <3>1. frame' = f /\ UNCHANGED <<spc, handled, cut>> /\ Len(f) < w
      BY <1>3, <2>1, <2>7, <2>8, <2>10, <2>12
    <3>2. Half' = f
      BY <1>1, <3>1 DEF Half
    <3>3. Coming' = Coming
      <4>1. (f \o T) \o rest = f \o (T \o rest)
        <5>1. f \in Seq(Byte) /\ T \in Seq(Byte) /\ rest \in Seq(Byte)
          BY <1>6, <1>7, <2>1
        <5> QED
          BY <5>1, BytesAssociate, Zenon
      <4> QED
        BY <1>1, <1>2, <1>8, <2>2, <3>2, <4>1 DEF Coming
    <3>4. Len(f) < Width(sent, q + 1)
      BY <2>5, <3>1
    <3> QED
      BY <1>1, <1>2, <1>4, <1>5, <2>4, <3>1, <3>2, <3>3, <3>4 DEF Streaming
  <2> QED
    BY <2>11, <2>12
<1> QED
  BY <1>10, <1>11

LEMMA StreamStep ==
    ASSUME Good, Streaming, [Next]_vars
    PROVE  Streaming'
<1>1. CASE ReadTimeout
  <2>1. spc = "read" /\ UNCHANGED <<net, rest, sent, handled>>
    BY <1>1 DEF ReadTimeout
  <2>2. CASE cut'
    BY <2>2 DEF Streaming
  <2>3. CASE ~cut'
    <3>1. frame = <<>> /\ spc' = "status" /\ cut' = cut
      BY <1>1, <2>3 DEF ReadTimeout
    <3>2. Half' = Half
      BY <2>1, <3>1 DEF Half
    <3> QED
      BY <2>1, <3>1, <3>2, StreamKept
  <2> QED
    BY <2>2, <2>3
<1>2. CASE Quiet
  <2>1. /\ UNCHANGED <<net, rest, sent, handled, cut>>
        /\ frame' = frame \/ (spc = "run" /\ frame' = <<>>)
    BY <1>2, QuietLeaves
  <2>2. CASE HitBreakpoint
    <3>1. Half' = Half /\ spc' = spc
      BY <2>2 DEF HitBreakpoint, connVars, Half
    <3> QED
      BY <2>1, <3>1, StreamKept
  <2>3. CASE Close
    BY <2>1, <2>3 DEF Close, Streaming
  <2>4. CASE ~ (HitBreakpoint \/ Close)
    <3>1. spc # "read" /\ spc # "closed" /\ (spc' = "read" => spc \in {"status", "run"})
      BY <1>2, <2>4 DEF Quiet, PollStatus, GetPC, SetPC, Handle, HandlerStep, Stop, Run, Step,
                        Reset, RegsStatus, RegsHalt, RegsRead, RegsResume
    <3>2. spc' = "read" => frame' = <<>>
      <4>1. spc = "status" => frame' = <<>>
        BY <2>1 DEF Good, ConnInv, Polling
      <4>2. spc = "run" => frame' = <<>>
        BY <1>2, <2>4 DEF Quiet, PollStatus, GetPC, SetPC, Handle, Stop, Run, Step, Reset,
                          RegsStatus, RegsHalt, RegsRead, RegsResume
      <4> QED
        BY <3>1, <4>1, <4>2
    <3>3. Half' = Half
      BY <3>1, <3>2 DEF Half
    <3> QED
      BY <2>1, <3>1, <3>3, StreamKept
  <2> QED
    BY <2>2, <2>3, <2>4
<1>3. CASE Reply
  <2>1. /\ spc = "reply" /\ spc' = "read" /\ frame' = <<>>
        /\ UNCHANGED <<net, rest, sent, handled, cut>>
    BY <1>3 DEF Reply
  <2>2. Half' = Half
    BY <2>1 DEF Half
  <2> QED
    BY <2>1, <2>2, StreamKept
<1>4. CASE UNCHANGED vars
  <2>1. Half' = Half /\ UNCHANGED <<net, rest, sent, handled, cut, spc>>
    BY <1>4 DEF vars, Half
  <2> QED
    BY <2>1, StreamKept
<1> QED
  BY <1>1, <1>2, <1>3, <1>4, StreamBegin, StreamSend, StreamRecv DEF Next, Server, Quiet

\* The requests that are handled are those that were sent, each once, in order
\* and with their data, wherever the stream is cut and whatever noise is in
\* between (NoICEFrame::recvByte, checkCS).
THEOREM HandledAsSent == Spec => []HandledAreSent
<1>1. Good /\ Streaming => HandledAreSent
  <2> SUFFICES ASSUME Good, Streaming, ~cut
               PROVE  IsPrefix(handled, sent)
    BY DEF HandledAreSent
  <2>1. PICK n : n = Len(handled)
    OBVIOUS
  <2>2. /\ n \in Nat /\ n <= Len(sent) /\ Len(sent) \in Nat
        /\ \A i \in 1 .. n : handled[i] = sent[i]
        /\ handled \in Seq(Asked) /\ sent \in Seq(Requests)
    BY <2>1 DEF Streaming, Good, ConnInv, Histories
  <2>3. PICK x : x = SubSeq(sent, 1, n)
    OBVIOUS
  <2>4. /\ \A i \in 1 .. n : sent[i] \in Asked
        /\ \A i \in 1 .. n : handled[i] \in Asked
    BY <2>1, <2>2
  <2>5. x \in Seq(Asked) /\ Len(x) = n /\ \A i \in 1 .. n : x[i] = sent[i]
    <3>1. 1 \in Int /\ n \in Int
      BY <2>2
    <3>2. /\ x \in Seq(Asked) /\ Len(x) = IF 1 <= n THEN n - 1 + 1 ELSE 0
          /\ \A i \in 1 .. n - 1 + 1 : x[i] = sent[1 + i - 1]
      BY <2>3, <2>4, <3>1, SubSeqProperties
    <3> QED
      BY <2>2, <3>2
  <2>6. x = handled
    <3>1. Len(x) = Len(handled) /\ \A i \in 1 .. Len(x) : x[i] = handled[i]
      BY <2>1, <2>2, <2>5
    <3> QED
      BY <2>2, <2>5, <3>1, SeqEqual
  <2>7. SubSeq(handled, 1, n) = handled
    BY <2>1, <2>2, SubSeqFull
  <2> QED
    BY <2>1, <2>2, <2>3, <2>6, <2>7 DEF IsPrefix
<1>2. Spec => []Streaming
  <2>1. Streaming /\ Good /\ [Next]_vars => Streaming'
    BY StreamStep
  <2> QED
    BY <2>1, StreamInit, ConnAlways, PTL DEF Spec
<1> QED
  BY <1>1, <1>2, ConnAlways, PTL

=============================================================================
