------------------------- MODULE CommandLine_proofs -------------------------
(***************************************************************************)
(* Proofs about CommandLine: the commands are the lines the client has     *)
(* sent, for every set of lines, however they come in and whatever blanks  *)
(* they have.                                                              *)
(***************************************************************************)
EXTENDS CommandLine, WellFoundedInduction, TLAPS

-----------------------------------------------------------------------------
(* The characters that are kept of a line.                                  *)

LEMMA AllNumbers ==
    ASSUME NEW S, 0 \in S, \A n \in S \cap Nat : n + 1 \in S
    PROVE  Nat \subseteq S
<1> SUFFICES ASSUME Nat \ S # {}
             PROVE  FALSE
  OBVIOUS
<1> DEFINE R == {ss \in Nat \X Nat : ss[1] < ss[2]}
           T == Nat \ S
<1>1. IsWellFoundedOn(R, Nat)
  BY NatLessThanWellFounded, Zenon DEF OpToRel
<1>2. T \in SUBSET Nat /\ T # {}
  OBVIOUS
<1>3. PICK m \in T : \A y \in T : ~ (<<y, m>> \in R)
  <2> HIDE DEF R, T
  <2> QED
    BY <1>1, <1>2, WFMin, Zenon
<1>4. m \in Nat /\ m \notin S /\ m # 0 /\ m - 1 \in Nat
  OBVIOUS
<1>5. m - 1 \notin S
  <2>1. (m - 1) + 1 = m
    BY <1>4
  <2> QED
    BY <1>4, <2>1
<1>6. m - 1 \in T /\ <<m - 1, m>> \in R
  BY <1>4, <1>5
<1> QED
  BY <1>3, <1>6

\* g gives what is kept of s up to n.
Keeping(g, s, keep, n) ==
    /\ g \in [0 .. n -> Seq(Chars)]
    /\ g[0] = <<>>
    /\ \A i \in 1 .. n : g[i] = IF i \in keep THEN Append(g[i - 1], s[i]) ELSE g[i - 1]

LEMMA KeepingExists ==
    ASSUME NEW s \in Seq(Chars), NEW keep
    PROVE  \E g : Keeping(g, s, keep, Len(s))
<1> DEFINE S == {n \in Nat : n <= Len(s) => \E g : Keeping(g, s, keep, n)}
<1>1. 0 \in S
  <2>1. Keeping([i \in 0 .. 0 |-> <<>>], s, keep, 0)
    BY DEF Keeping
  <2> QED
    BY <2>1
<1>2. ASSUME NEW n \in S
      PROVE  n + 1 \in S
  <2> SUFFICES ASSUME n + 1 <= Len(s)
               PROVE  \E g : Keeping(g, s, keep, n + 1)
    OBVIOUS
  <2>1. PICK g : Keeping(g, s, keep, n)
    OBVIOUS
  <2>2. PICK x : x = IF n + 1 \in keep THEN Append(g[n], s[n + 1]) ELSE g[n]
    OBVIOUS
  <2>3. PICK h : h = [i \in 0 .. n + 1 |-> IF i = n + 1 THEN x ELSE g[i]]
    OBVIOUS
  <2>4. n \in Nat /\ s[n + 1] \in Chars /\ g[n] \in Seq(Chars) /\ x \in Seq(Chars)
    BY <2>1, <2>2 DEF Keeping
  <2>5. h \in [0 .. n + 1 -> Seq(Chars)] /\ h[0] = <<>>
    BY <2>1, <2>3, <2>4 DEF Keeping
  <2>6. ASSUME NEW i \in 1 .. n + 1
        PROVE  h[i] = IF i \in keep THEN Append(h[i - 1], s[i]) ELSE h[i - 1]
    <3>1. i - 1 \in 0 .. n /\ i \in 0 .. n + 1 /\ h[i - 1] = g[i - 1]
      BY <2>3, <2>4
    <3>2. CASE i = n + 1
      <4>1. i - 1 = n
        BY <2>4, <3>2
      <4>2. h[i] = x
        BY <2>3, <3>1, <3>2
      <4> QED
        BY <2>2, <3>1, <3>2, <4>1, <4>2, Zenon
    <3>3. CASE i # n + 1
      <4>1. i \in 1 .. n
        BY <2>4, <3>3
      <4>2. h[i] = g[i]
        BY <2>3, <3>1, <3>3
      <4>3. g[i] = IF i \in keep THEN Append(g[i - 1], s[i]) ELSE g[i - 1]
        BY <2>1, <4>1 DEF Keeping
      <4> QED
        BY <3>1, <4>2, <4>3, Zenon
    <3> QED
      BY <3>2, <3>3
  <2> QED
    BY <2>5, <2>6 DEF Keeping
<1>3. Nat \subseteq S
  <2> HIDE DEF S
  <2> QED
    BY <1>1, <1>2, AllNumbers
<1> QED
  BY <1>3

LEMMA KeptUpToKeeps ==
    ASSUME NEW s \in Seq(Chars), NEW keep
    PROVE  Keeping(KeptUpTo(s, keep), s, keep, Len(s))
<1> DEFINE Rec(f) == f = [i \in 0 .. Len(s) |->
                            IF i = 0 THEN <<>>
                            ELSE IF i \in keep THEN Append(f[i - 1], s[i]) ELSE f[i - 1]]
<1>1. PICK g : Keeping(g, s, keep, Len(s))
  BY KeepingExists
<1>2. Rec(g)
  <2>1. g = [i \in 0 .. Len(s) |-> g[i]]
    BY <1>1 DEF Keeping
  <2>2. ASSUME NEW i \in 0 .. Len(s)
        PROVE  g[i] = IF i = 0 THEN <<>>
                      ELSE IF i \in keep THEN Append(g[i - 1], s[i]) ELSE g[i - 1]
    <3>1. CASE i = 0
      BY <1>1, <3>1, Zenon DEF Keeping
    <3>2. CASE i # 0
      <4>1. i \in 1 .. Len(s)
        BY <3>2
      <4>2. g[i] = IF i \in keep THEN Append(g[i - 1], s[i]) ELSE g[i - 1]
        BY <1>1, <4>1 DEF Keeping
      <4> QED
        BY <3>2, <4>2, Zenon
    <3> QED
      BY <3>1, <3>2
  <2> QED
    BY <2>1, <2>2, Zenon
<1>3. PICK h : h = CHOOSE f : Rec(f)
  OBVIOUS
<1>4. KeptUpTo(s, keep) = h
  BY <1>3 DEF KeptUpTo
<1>5. Rec(h)
  <2> HIDE DEF Rec
  <2> QED
    BY <1>2, <1>3, Zenon
<1>6. /\ h[0] = <<>>
      /\ \A i \in 1 .. Len(s) : h[i] = IF i \in keep THEN Append(h[i - 1], s[i]) ELSE h[i - 1]
  <2>1. 0 \in 0 .. Len(s)
    OBVIOUS
  <2>2. h[0] = <<>>
    BY <1>5, <2>1, Zenon
  <2>3. ASSUME NEW i \in 1 .. Len(s)
        PROVE  h[i] = IF i \in keep THEN Append(h[i - 1], s[i]) ELSE h[i - 1]
    <3>1. i \in 0 .. Len(s) /\ i # 0
      OBVIOUS
    <3> QED
      BY <1>5, <3>1, Zenon
  <2> QED
    BY <2>2, <2>3, Zenon
<1> DEFINE S == {i \in Nat : i <= Len(s) => h[i] \in Seq(Chars)}
<1>7. 0 \in S
  <2>1. <<>> \in Seq(Chars)
    OBVIOUS
  <2>2. h[0] \in Seq(Chars)
    BY <1>6, <2>1, Zenon
  <2> QED
    BY <2>2
<1>8. ASSUME NEW i \in S
      PROVE  i + 1 \in S
  <2> SUFFICES ASSUME i + 1 <= Len(s)
               PROVE  h[i + 1] \in Seq(Chars)
    OBVIOUS
  <2>1. i + 1 \in 1 .. Len(s) /\ (i + 1) - 1 = i /\ h[i] \in Seq(Chars) /\ s[i + 1] \in Chars
    OBVIOUS
  <2>2. h[i + 1] = IF i + 1 \in keep THEN Append(h[i], s[i + 1]) ELSE h[i]
    BY <1>6, <2>1
  <2> QED
    BY <2>1, <2>2
<1>9. Nat \subseteq S
  <2> HIDE DEF S
  <2> QED
    BY <1>7, <1>8, AllNumbers
<1>10. h \in [0 .. Len(s) -> Seq(Chars)]
  <2>1. \A i \in 0 .. Len(s) : h[i] \in Seq(Chars)
    BY <1>9
  <2>2. h = [i \in 0 .. Len(s) |-> h[i]]
    BY <1>5
  <2> QED
    BY <2>1, <2>2
<1> QED
  BY <1>4, <1>6, <1>10 DEF Keeping

-----------------------------------------------------------------------------
(* Strings.                                                                 *)

LEMMA MaxIs ==
    ASSUME NEW n \in Nat, NEW S, S \subseteq 1 .. n, S # {}
    PROVE  Max(S) \in S /\ \A y \in S : Max(S) >= y
<1> DEFINE Most(T) == \E x \in T : \A y \in T : x >= y
           N == {m \in Nat : \A T : T \subseteq 1 .. m /\ T # {} => Most(T)}
<1>1. 0 \in N
  OBVIOUS
<1>2. ASSUME NEW m \in N
      PROVE  m + 1 \in N
  <2> SUFFICES ASSUME NEW T, T \subseteq 1 .. m + 1, T # {}
               PROVE  Most(T)
    OBVIOUS
  <2>1. CASE m + 1 \in T
    BY <2>1
  <2>2. CASE m + 1 \notin T
    <3>1. T \subseteq 1 .. m
      BY <2>2
    <3> QED
      BY <3>1
  <2> QED
    BY <2>1, <2>2
<1>3. Nat \subseteq N
  <2> HIDE DEF N
  <2> QED
    BY <1>1, <1>2, AllNumbers
<1>4. Most(S)
  BY <1>3
<1>5. PICK m : m = CHOOSE x \in S : \A y \in S : x >= y
  OBVIOUS
<1>6. Max(S) = m
  BY <1>5 DEF Max
<1>7. m \in S /\ \A y \in S : m >= y
  BY <1>4, <1>5, Zenon
<1> QED
  BY <1>6, <1>7

LEMMA MinOfOne == \A x \in Nat : Min({x}) = x
<1> TAKE x \in Nat
<1>1. PICK m : m = CHOOSE a \in {x} : \A y \in {x} : a =< y
  OBVIOUS
<1>2. Min({x}) = m
  BY <1>1 DEF Min
<1>3. \E a \in {x} : \A y \in {x} : a =< y
  OBVIOUS
<1>4. m \in {x}
  BY <1>1, <1>3, Zenon
<1> QED
  BY <1>2, <1>4

\* in front of the only place where one of ends is
LEMMA BeforeIs ==
    ASSUME NEW s, NEW ends, NEW n \in Nat
    PROVE  /\ (\A i \in DOMAIN s : s[i] \notin ends) => Before(s, ends) = s
           /\ {i \in DOMAIN s : s[i] \in ends} = {n + 1} => Before(s, ends) = SubSeq(s, 1, n)
<1> DEFINE at == {i \in DOMAIN s : s[i] \in ends}
<1>1. Before(s, ends) = IF at = {} THEN s ELSE SubSeq(s, 1, Min(at) - 1)
  BY DEF Before
<1>2. ASSUME at = {n + 1}
      PROVE  Before(s, ends) = SubSeq(s, 1, n)
  <2>1. Min({n + 1}) = n + 1 /\ (n + 1) - 1 = n
    BY MinOfOne
  <2>2. at # {}
    BY <1>2
  <2> HIDE DEF at
  <2> QED
    BY <1>1, <1>2, <2>1, <2>2
<1>3. ASSUME \A i \in DOMAIN s : s[i] \notin ends
      PROVE  Before(s, ends) = s
  <2>1. at = {}
    BY <1>3
  <2> HIDE DEF at
  <2> QED
    BY <1>1, <2>1
<1> QED
  BY <1>2, <1>3

\* no blank at the end
Ink(q) == q = <<>> \/ q[Len(q)] # Blank

LEMMA TrimmedIs ==
    ASSUME NEW C, NEW s \in Seq(C)
    PROVE  \E m \in 0 .. Len(s) :
              /\ Trimmed(s) = SubSeq(s, 1, m)
              /\ \A i \in 1 .. Len(s) : s[i] # Blank => i <= m
              /\ m > 0 => s[m] # Blank
<1> DEFINE inked == {i \in DOMAIN s : s[i] # Blank}
<1>1. Trimmed(s) = IF inked = {} THEN <<>> ELSE SubSeq(s, 1, Max(inked))
  BY DEF Trimmed
<1>2. inked \subseteq 1 .. Len(s) /\ DOMAIN s = 1 .. Len(s)
  OBVIOUS
<1>3. CASE inked = {}
  <2>1. SubSeq(s, 1, 0) = <<>>
    OBVIOUS
  <2>2. \A i \in 1 .. Len(s) : ~ s[i] # Blank
    BY <1>2, <1>3
  <2>3. Trimmed(s) = SubSeq(s, 1, 0)
    BY <1>1, <1>3, <2>1
  <2> QED
    BY <2>2, <2>3
<1>4. CASE inked # {}
  <2>1. Max(inked) \in inked /\ \A y \in inked : Max(inked) >= y
    <3>1. Len(s) \in Nat
      OBVIOUS
    <3> HIDE DEF inked
    <3> QED
      BY <1>2, <1>4, <3>1, MaxIs
  <2>2. PICK m \in 1 .. Len(s) : m = Max(inked)
    BY <1>2, <2>1
  <2>3. s[m] # Blank /\ \A i \in 1 .. Len(s) : s[i] # Blank => i <= m
    BY <1>2, <2>1, <2>2
  <2>4. Trimmed(s) = SubSeq(s, 1, m)
    BY <1>1, <1>4, <2>2
  <2> QED
    BY <2>3, <2>4
<1> QED
  BY <1>3, <1>4

LEMMA TrimmedInk ==
    ASSUME NEW C, NEW q \in Seq(C), Ink(q)
    PROVE  Trimmed(q) = q /\ (Blank \in C => Trimmed(Append(q, Blank)) = q)
<1>1. Trimmed(q) = q
  <2>1. PICK m \in 0 .. Len(q) :
           /\ Trimmed(q) = SubSeq(q, 1, m)
           /\ \A i \in 1 .. Len(q) : q[i] # Blank => i <= m
           /\ m > 0 => q[m] # Blank
    BY TrimmedIs
  <2>2. m = Len(q)
    BY <2>1 DEF Ink
  <2> QED
    BY <2>1, <2>2
<1>2. ASSUME Blank \in C
      PROVE  Trimmed(Append(q, Blank)) = q
  <2>0. Append(q, Blank) \in Seq(C)
    BY <1>2
  <2>1. PICK s \in Seq(C) : s = Append(q, Blank)
    BY <2>0, Zenon
  <2>2. PICK m \in 0 .. Len(s) :
           /\ Trimmed(s) = SubSeq(s, 1, m)
           /\ \A i \in 1 .. Len(s) : s[i] # Blank => i <= m
           /\ m > 0 => s[m] # Blank
    BY TrimmedIs
  <2>3. Len(s) = Len(q) + 1 /\ s[Len(q) + 1] = Blank /\ \A i \in 1 .. Len(q) : s[i] = q[i]
    BY <2>1
  <2>4. m # Len(q) + 1
    BY <2>2, <2>3
  <2>5. m = Len(q)
    BY <2>2, <2>3, <2>4 DEF Ink
  <2>6. SubSeq(s, 1, Len(q)) = q
    BY <2>3
  <2> QED
    BY <2>1, <2>2, <2>5, <2>6
<1> QED
  BY <1>1, <1>2

-----------------------------------------------------------------------------
(* A command is its line with condensed whitespace.                         *)

\* the positions whose character the worker keeps, and those of Squeezed
LastOnes(s)  == {i \in DOMAIN s : s[i] # Blank \/ i = Len(s) \/ s[i + 1] # Blank}
InnerOnes(s) == {i \in DOMAIN s : s[i] # Blank \/ (i < Len(s) /\ s[i + 1] # Blank)}

\* They differ in the last character only, and what is kept before it ends in
\* a blank only in front of something else.
LEMMA KeptAlike ==
    ASSUME NEW s \in Seq(Chars), NEW g, Keeping(g, s, LastOnes(s), Len(s)),
           NEW h, Keeping(h, s, InnerOnes(s), Len(s))
    PROVE  \A i \in 0 .. Len(s) :
              i < Len(s) => /\ g[i] = h[i] /\ Len(g[i]) <= i
                            /\ g[i] = <<>> \/ g[i][Len(g[i])] # Blank \/ s[i + 1] # Blank
<1> DEFINE Alike(i) == /\ g[i] = h[i] /\ Len(g[i]) <= i
                       /\ g[i] = <<>> \/ g[i][Len(g[i])] # Blank \/ s[i + 1] # Blank
           N == {i \in Nat : i < Len(s) => Alike(i)}
<1>1. 0 \in N
  BY DEF Keeping
<1>2. ASSUME NEW i \in N
      PROVE  i + 1 \in N
  <2> SUFFICES ASSUME i + 1 < Len(s)
               PROVE  Alike(i + 1)
    OBVIOUS
  <2>1. Alike(i) /\ i \in Nat
    BY <1>2
  <2>0. i + 1 < Len(s) /\ i \in Nat /\ Len(s) \in Nat
    BY <1>2
  <2>2. i + 1 \in 1 .. Len(s) /\ (i + 1) - 1 = i /\ i \in 0 .. Len(s) /\ s[i + 1] \in Chars
        /\ DOMAIN s = 1 .. Len(s)
    BY <2>1
  <2>3. i + 1 \in LastOnes(s) <=> (s[i + 1] # Blank \/ s[(i + 1) + 1] # Blank)
    <3>1. i + 1 \in DOMAIN s
      BY <2>2
    <3>2. i + 1 # Len(s)
      BY <2>0
    <3> QED
      BY <3>1, <3>2, Zenon DEF LastOnes
  <2>4. i + 1 \in InnerOnes(s) <=> (s[i + 1] # Blank \/ s[(i + 1) + 1] # Blank)
    <3>1. i + 1 \in DOMAIN s /\ i + 1 < Len(s)
      BY <2>1, <2>2
    <3> QED
      BY <3>1, Zenon DEF InnerOnes
  <2>5. /\ g[i + 1] = IF i + 1 \in LastOnes(s) THEN Append(g[i], s[i + 1]) ELSE g[i]
        /\ h[i + 1] = IF i + 1 \in InnerOnes(s) THEN Append(h[i], s[i + 1]) ELSE h[i]
        /\ g[i] \in Seq(Chars)
    BY <2>2 DEF Keeping
  <2>6. g[i + 1] = h[i + 1]
    BY <2>1, <2>3, <2>4, <2>5
  <2>7. CASE i + 1 \in LastOnes(s)
    <3>1. g[i + 1] = Append(g[i], s[i + 1])
      BY <2>5, <2>7
    <3>2. Len(g[i + 1]) = Len(g[i]) + 1 /\ g[i + 1][Len(g[i + 1])] = s[i + 1]
      BY <2>2, <2>5, <3>1
    <3> QED
      BY <2>1, <2>3, <2>5, <2>6, <2>7, <3>2
  <2>8. CASE i + 1 \notin LastOnes(s)
    <3>1. g[i + 1] = g[i]
      BY <2>5, <2>8
    <3>2. s[i + 1] = Blank
      BY <2>3, <2>8
    <3>3. g[i] = <<>> \/ g[i][Len(g[i])] # Blank
      BY <2>1, <3>2
    <3>4. Len(g[i]) <= i + 1
      BY <2>1, <2>5
    <3> QED
      BY <2>6, <3>1, <3>3, <3>4, Zenon
  <2> QED
    BY <2>7, <2>8
<1>3. Nat \subseteq N
  <2> HIDE DEF N
  <2> QED
    BY <1>1, <1>2, AllNumbers
<1> QED
  BY <1>3

\* What the worker keeps is what is left, and perhaps a blank behind it.
LEMMA KeptIs ==
    ASSUME NEW s \in Seq(Chars), NEW c, c = KeptUpTo(s, LastOnes(s))[Len(s)]
    PROVE  /\ c \in Seq(Chars) /\ Len(c) <= Len(s)
           /\ Squeezed(s) \in Seq(Chars) /\ Ink(Squeezed(s))
           /\ c = Squeezed(s) \/ c = Append(Squeezed(s), Blank)
<1>1. PICK g : g = KeptUpTo(s, LastOnes(s))
  OBVIOUS
<1>2. PICK h : h = KeptUpTo(s, InnerOnes(s))
  OBVIOUS
<1>3. Keeping(g, s, LastOnes(s), Len(s)) /\ Keeping(h, s, InnerOnes(s), Len(s))
  BY <1>1, <1>2, KeptUpToKeeps
<1>4. c = g[Len(s)] /\ Squeezed(s) = h[Len(s)]
  BY <1>1, <1>2 DEF Squeezed, InnerOnes
<1>5. CASE Len(s) = 0
  <2>1. g[0] = <<>> /\ h[0] = <<>>
    BY <1>3 DEF Keeping
  <2> QED
    BY <1>4, <1>5, <2>1 DEF Ink
<1>6. CASE Len(s) # 0
  <2>1. PICK n \in Nat : n + 1 = Len(s)
    <3>1. Len(s) - 1 \in Nat /\ (Len(s) - 1) + 1 = Len(s)
      BY <1>6
    <3> QED
      BY <3>1
  <2>2. n \in 0 .. Len(s) /\ n < Len(s) /\ n + 1 \in 1 .. Len(s) /\ (n + 1) - 1 = n
        /\ s[n + 1] \in Chars /\ DOMAIN s = 1 .. Len(s)
    BY <2>1
  <2>3. /\ g[n] = h[n] /\ Len(g[n]) <= n
        /\ g[n] = <<>> \/ g[n][Len(g[n])] # Blank \/ s[n + 1] # Blank
    BY <1>3, <2>2, KeptAlike
  <2>4. n + 1 \in LastOnes(s) /\ (n + 1 \in InnerOnes(s) <=> s[n + 1] # Blank)
    BY <2>1, <2>2 DEF LastOnes, InnerOnes
  <2>5. /\ g[n + 1] = Append(g[n], s[n + 1])
        /\ h[n + 1] = IF s[n + 1] # Blank THEN Append(h[n], s[n + 1]) ELSE h[n]
        /\ h[n] \in Seq(Chars) /\ c = g[n + 1] /\ Squeezed(s) = h[n + 1]
    BY <1>3, <1>4, <2>1, <2>2, <2>4 DEF Keeping
  <2>6. PICK q \in Seq(Chars), x \in Chars : q = h[n] /\ x = s[n + 1]
    BY <2>2, <2>5
  <2>7. /\ c = Append(q, x) /\ Squeezed(s) = IF x # Blank THEN Append(q, x) ELSE q
        /\ Len(q) <= n
        /\ q = <<>> \/ q[Len(q)] # Blank \/ x # Blank
    BY <2>3, <2>5, <2>6
  <2>8. c \in Seq(Chars) /\ Len(c) <= Len(s)
    <3>1. c \in Seq(Chars) /\ Len(c) = Len(q) + 1
      BY <2>7
    <3> QED
      BY <2>1, <2>7, <3>1
  <2>9. CASE x # Blank
    <3>1. Squeezed(s) = c /\ c[Len(c)] # Blank
      BY <2>7, <2>9
    <3> QED
      BY <2>8, <3>1 DEF Ink
  <2>10. CASE x = Blank
    <3>1. Squeezed(s) = q /\ c = Append(q, Blank) /\ Ink(q)
      BY <2>7, <2>10 DEF Ink
    <3> QED
      BY <2>8, <3>1
  <2> QED
    BY <2>9, <2>10
<1> QED
  BY <1>5, <1>6

LEMMA CharsDiffer == Nul \notin Chars /\ Lf \notin Chars /\ Cr \notin Chars /\ Cr # Lf /\ Nul # Lf
                     /\ Nul # Cr /\ Nul # Blank /\ Blank \in Chars
  BY DEF Nul, Lf, Cr, Blank, Chars

LEMMA CommandIsSqueezed ==
    ASSUME NEW s \in Seq(Chars)
    PROVE  /\ Trimmed(Condensed(s)) \in Seq(Chars \cup {Nul})
           /\ Trimmed(CStr(Trimmed(Condensed(s)))) = Squeezed(s)
<1> DEFINE All == Chars \cup {Nul}
<1>1. PICK c : c = KeptUpTo(s, LastOnes(s))[Len(s)]
  OBVIOUS
<1>2. /\ c \in Seq(Chars) /\ Len(c) <= Len(s) /\ Squeezed(s) \in Seq(Chars)
      /\ Ink(Squeezed(s))
      /\ c = Squeezed(s) \/ c = Append(Squeezed(s), Blank)
  BY <1>1, KeptIs
<1>3. Condensed(s) = [k \in DOMAIN s |-> IF k <= Len(c) THEN c[k]
                                         ELSE IF k = Len(c) + 1 THEN Nul ELSE s[k]]
  BY <1>1 DEF Condensed, LastOnes
<1>4. PICK d \in Seq(All) :
        /\ d = Condensed(s) /\ Len(d) = Len(s) /\ \A k \in 1 .. Len(c) : d[k] = c[k]
        /\ Len(c) < Len(s) => d[Len(c) + 1] = Nul
        /\ \A k \in 1 .. Len(s) : k > Len(c) + 1 => d[k] = s[k]
  <2>1. \A k \in 1 .. Len(s) : Condensed(s)[k] \in All
    BY <1>2, <1>3
  <2>2. DOMAIN s = 1 .. Len(s) /\ Len(s) \in Nat
    OBVIOUS
  <2>3. Condensed(s) \in Seq(All) /\ Len(Condensed(s)) = Len(s)
    BY <1>3, <2>1, <2>2
  <2> QED
    <3>1. PICK d : d = Condensed(s)
      OBVIOUS
    <3>2. \A k \in 1 .. Len(s) : d[k] = IF k <= Len(c) THEN c[k]
                                      ELSE IF k = Len(c) + 1 THEN Nul ELSE s[k]
      BY <1>3, <2>2, <3>1
    <3>3. Len(c) \in Nat /\ \A k \in 1 .. Len(c) : k \in 1 .. Len(s)
      BY <1>2
    <3>4. \A k \in 1 .. Len(c) : d[k] = c[k]
      BY <3>2, <3>3
    <3>5. Len(c) < Len(s) => d[Len(c) + 1] = Nul
      BY <3>2, <3>3
    <3>6. \A k \in 1 .. Len(s) : k > Len(c) + 1 => d[k] = s[k]
      BY <3>2, <3>3
    <3> QED
      BY <2>3, <3>1, <3>4, <3>5, <3>6
<1>5. PICK m \in 0 .. Len(d) : /\ Trimmed(d) = SubSeq(d, 1, m)
                               /\ \A i \in 1 .. Len(d) : d[i] # Blank => i <= m
                               /\ m > 0 => d[m] # Blank
  BY TrimmedIs
<1>6. PICK t \in Seq(All) : t = Trimmed(d) /\ Len(t) = m /\ \A i \in 1 .. m : t[i] = d[i]
  BY <1>5
<1>7. Trimmed(c) = Squeezed(s) /\ Trimmed(Squeezed(s)) = Squeezed(s)
  <2>1. PICK q \in Seq(Chars) : q = Squeezed(s)
    BY <1>2
  <2>2. Trimmed(q) = q /\ Trimmed(Append(q, Blank)) = q
    BY <1>2, <2>1, TrimmedInk, CharsDiffer
  <2> QED
    BY <1>2, <2>1, <2>2, Zenon
<1>8. CASE Len(c) < Len(s)
  <2>0. Len(c) \in Nat /\ Len(c) + 1 \in 1 .. Len(d) /\ d[Len(c) + 1] # Blank
    BY <1>2, <1>4, <1>8, CharsDiffer
  <2>1. Len(c) + 1 <= m
    BY <1>5, <2>0
  <2>2. \A i \in 1 .. m : t[i] = Nul <=> i = Len(c) + 1
    <3> SUFFICES ASSUME NEW i \in 1 .. m
                 PROVE  t[i] = Nul <=> i = Len(c) + 1
      OBVIOUS
    <3>1. i \in 1 .. Len(s) /\ t[i] = d[i]
      BY <1>4, <1>6
    <3>2. CASE i <= Len(c)
      <4>1. i \in 1 .. Len(c)
        BY <2>0, <3>2
      <4>2. d[i] = c[i] /\ c[i] \in Chars
        BY <1>2, <1>4, <4>1
      <4> QED
        BY <2>0, <3>1, <3>2, <4>2, CharsDiffer
    <3>3. CASE i = Len(c) + 1
      BY <1>4, <1>8, <3>1, <3>3
    <3>4. CASE i > Len(c) + 1
      <4>1. d[i] = s[i] /\ s[i] \in Chars
        BY <1>4, <3>1, <3>4
      <4> QED
        BY <2>0, <3>1, <3>4, <4>1, CharsDiffer
    <3> QED
      BY <2>0, <3>2, <3>3, <3>4
  <2>3. {i \in DOMAIN t : t[i] \in {Nul}} = {Len(c) + 1}
    <3>1. DOMAIN t = 1 .. m /\ Len(c) + 1 \in 1 .. m
      BY <1>6, <2>0, <2>1
    <3> QED
      BY <2>2, <3>1
  <2>4. CStr(t) = SubSeq(t, 1, Len(c))
    <3>1. PICK n \in Nat : n = Len(c)
      BY <2>0
    <3>2. Before(t, {Nul}) = SubSeq(t, 1, n)
      BY <2>3, <3>1, BeforeIs
    <3> QED
      BY <3>1, <3>2 DEF CStr
  <2>5. SubSeq(t, 1, Len(c)) = c
    BY <1>2, <1>4, <1>6, <2>1
  <2> QED
    BY <1>4, <1>6, <1>7, <2>4, <2>5
<1>9. CASE Len(c) = Len(s)
  <2>1. d = c
    BY <1>2, <1>4, <1>9
  <2>2. \A i \in DOMAIN t : t[i] \notin {Nul}
    <3> SUFFICES ASSUME NEW i \in 1 .. m
                 PROVE  t[i] # Nul
      BY <1>6
    <3>1. i \in 1 .. Len(c)
      BY <1>4, <1>9
    <3>2. t[i] = c[i] /\ c[i] \in Chars
      BY <1>2, <1>4, <1>6, <3>1
    <3> QED
      BY <3>2, CharsDiffer
  <2>3. CStr(t) = t
    BY <2>2, BeforeIs DEF CStr
  <2>4. t = Squeezed(s)
    BY <1>6, <1>7, <2>1
  <2> QED
    BY <1>4, <1>6, <1>7, <2>3, <2>4
<1> QED
  BY <1>2, <1>8, <1>9

-----------------------------------------------------------------------------
(* The inductive invariant: the bytes sent are the lines with their ends,   *)
(* and what is in outStr and on its way is the part of them that follows    *)
(* the lines taken.                                                         *)

Bytes == Chars \cup {Cr, Lf}

\* how many lines the reader has given to the worker
Taken == Len(handled) + (IF spc = "command" THEN 1 ELSE 0)

\* The line l is in all, behind from, and its end is at to.
LineAt(all, from, l, to) ==
    /\ to = from + Len(l) + 1 \/ (to = from + Len(l) + 2 /\ all[from + Len(l) + 1] = Cr)
    /\ to <= Len(all)
    /\ all[to] = Lf
    /\ \A k \in 1 .. Len(l) : all[from + k] = l[k]

Framed(all, ends) ==
    /\ all \in Seq(Bytes)
    /\ ends \in [0 .. Len(sent) -> Nat]
    /\ ends[0] = 0
    /\ ends[Len(sent)] = Len(all)
    /\ \A i \in 1 .. Len(sent) : LineAt(all, ends[i - 1], sent[i], ends[i])

Coming(all, from) ==
    /\ from + Len(outStr) + Len(net) <= Len(all)
    /\ ~gone => from + Len(outStr) + Len(net) = Len(all)
    /\ \A k \in 1 .. Len(outStr) : outStr[k] = all[from + k]
    /\ \A k \in 1 .. Len(net) : net[k] = all[from + Len(outStr) + k]

Stream == \E all, ends : Framed(all, ends) /\ Coming(all, ends[Taken])

Commands ==
    /\ Taken <= Len(sent)
    /\ spc = "command" => str = sent[Len(handled) + 1]
    /\ \A i \in 1 .. Len(handled) : handled[i] = Trimmed(Condensed(sent[i]))
    /\ answers + (IF spc = "handle" THEN 1 ELSE 0) <= Len(handled)

IInv == TypeOK /\ Commands /\ Stream

LEMMA Joined ==
    ASSUME NEW C, NEW s \in Seq(C), NEW t \in Seq(C)
    PROVE  /\ s \o t \in Seq(C)
           /\ Len(s \o t) = Len(s) + Len(t)
           /\ \A k \in 1 .. Len(s) : (s \o t)[k] = s[k]
           /\ \A k \in 1 .. Len(t) : (s \o t)[Len(s) + k] = t[k]
  OBVIOUS

LEMMA JoinedTwice ==
    ASSUME NEW C, NEW s \in Seq(C), NEW t \in Seq(C), NEW u \in Seq(C)
    PROVE  s \o t \o u = s \o (t \o u)
  OBVIOUS

LEMMA Wider ==
    ASSUME NEW C, NEW D, C \subseteq D, NEW s \in Seq(C)
    PROVE  s \in Seq(D)
  OBVIOUS

LEMMA JoinedBytes ==
    \A s, t \in Seq(Bytes) :
        /\ s \o t \in Seq(Bytes)
        /\ Len(s \o t) = Len(s) + Len(t)
        /\ \A k \in 1 .. Len(s) : (s \o t)[k] = s[k]
        /\ \A k \in 1 .. Len(t) : (s \o t)[Len(s) + k] = t[k]
  BY Joined

LEMMA LineEnds ==
    ASSUME NEW C, NEW c \in C, NEW d \in C
    PROVE  /\ <<c>> \in Seq(C) /\ Len(<<c>>) = 1 /\ <<c>>[1] = c
           /\ <<c, d>> \in Seq(C) /\ Len(<<c, d>>) = 2 /\ <<c, d>>[1] = c /\ <<c, d>>[2] = d
  OBVIOUS

LEMMA TheBytes == Chars \subseteq Bytes /\ Lf \in Bytes /\ Cr \in Bytes
  BY DEF Bytes

LEMMA InitStream == ASSUME Init PROVE IInv
<1>1. /\ net = <<>> /\ outStr = <<>> /\ str = <<>> /\ sent = <<>> /\ handled = <<>>
      /\ gone = FALSE /\ spc = "read" /\ answers = 0 /\ MaxLines \in Nat
  BY LinesAssumption DEF Init
<1>2. TypeOK
  <2>1. \A C : <<>> \in Seq(C)
    OBVIOUS
  <2>2. Len(<<>>) <= MaxLines /\ 0 \in 0 .. MaxLines
    BY <1>1
  <2> QED
    BY <1>1, <2>1, <2>2, Zenon DEF TypeOK
<1>4. Commands
  BY <1>1 DEF Commands, Taken
<1>3. Stream
  <2>1. PICK ends : ends = [i \in 0 .. 0 |-> 0]
    OBVIOUS
  <2>2. Len(<<>>) = 0 /\ <<>> \in Seq(Bytes) /\ Taken = 0 /\ ends \in [0 .. 0 -> Nat] /\ ends[0] = 0
    BY <1>1, <2>1 DEF Taken
  <2>3. Framed(<<>>, ends) /\ Coming(<<>>, 0)
    BY <1>1, <2>2 DEF Framed, Coming
  <2> QED
    BY <2>2, <2>3, Zenon DEF Stream
<1> QED
  BY <1>2, <1>3, <1>4 DEF IInv

\* Everything is in its place when only the worker goes on.
LEMMA StreamKept ==
    ASSUME IInv, UNCHANGED <<net, gone, outStr, sent>>, Taken' = Taken
    PROVE  Stream'
<1>1. PICK all, ends : Framed(all, ends) /\ Coming(all, ends[Taken])
  BY Zenon DEF IInv, Stream
<1>2. Framed(all, ends)' /\ Coming(all, ends[Taken])'
  BY <1>1 DEF Framed, Coming, LineAt
<1> QED
  BY <1>2, Zenon DEF Stream

LEMMA SendLineStep == ASSUME IInv, SendLine PROVE IInv'
<1>1. PICK l \in Lines, end \in {<<Lf>>, <<Cr, Lf>>} :
         net' = net \o l \o end /\ sent' = Append(sent, l)
  BY DEF SendLine
<1>2. /\ ~gone /\ Len(sent) < MaxLines
      /\ UNCHANGED <<gone, outStr, spc, str, handled, answers>>
  BY DEF SendLine
<1>3. /\ net \in Seq(Bytes) /\ outStr \in Seq(Chars \cup {Cr}) /\ sent \in Seq(Lines)
      /\ handled \in Seq(Seq(Chars \cup {Nul})) /\ MaxLines \in Nat
      /\ l \in Seq(Chars)
  BY LinesAssumption DEF IInv, TypeOK, Bytes
<1>4. PICK t \in Seq(Bytes) :
        /\ t = l \o end
        /\ \A k \in 1 .. Len(l) : t[k] = l[k]
        /\ Len(t) = Len(l) + 1 \/ (Len(t) = Len(l) + 2 /\ t[Len(l) + 1] = Cr)
        /\ t[Len(t)] = Lf
  <2>1. l \in Seq(Bytes) /\ Lf \in Bytes /\ Cr \in Bytes
    BY <1>3, Wider, TheBytes
  <2>2. CASE end = <<Lf>>
    <3>1. end \in Seq(Bytes) /\ Len(end) = 1 /\ end[1] = Lf
      BY <2>1, <2>2, LineEnds
    <3>2. PICK t \in Seq(Bytes) : t = l \o end
      BY <2>1, <3>1, Joined
    <3>3. Len(t) = Len(l) + 1 /\ t[Len(l) + 1] = end[1] /\ \A k \in 1 .. Len(l) : t[k] = l[k]
      <4>1. /\ Len(l \o end) = Len(l) + Len(end)
            /\ \A k \in 1 .. Len(l) : (l \o end)[k] = l[k]
            /\ \A k \in 1 .. Len(end) : (l \o end)[Len(l) + k] = end[k]
        BY <2>1, <3>1, JoinedBytes, Zenon
      <4>2. 1 \in 1 .. Len(end)
        BY <3>1
      <4> QED
        BY <3>1, <3>2, <4>1, <4>2
    <3> QED
      BY <3>1, <3>2, <3>3
  <2>3. CASE end = <<Cr, Lf>>
    <3>1. end \in Seq(Bytes) /\ Len(end) = 2 /\ end[1] = Cr /\ end[2] = Lf
      BY <2>1, <2>3, LineEnds
    <3>2. PICK t \in Seq(Bytes) : t = l \o end
      BY <2>1, <3>1, Joined
    <3>3. Len(t) = Len(l) + 2 /\ t[Len(l) + 1] = end[1] /\ t[Len(l) + 2] = end[2]
          /\ \A k \in 1 .. Len(l) : t[k] = l[k]
      <4>1. /\ Len(l \o end) = Len(l) + Len(end)
            /\ \A k \in 1 .. Len(l) : (l \o end)[k] = l[k]
            /\ \A k \in 1 .. Len(end) : (l \o end)[Len(l) + k] = end[k]
        BY <2>1, <3>1, JoinedBytes, Zenon
      <4>2. 1 \in 1 .. Len(end) /\ 2 \in 1 .. Len(end)
        BY <3>1
      <4> QED
        BY <3>1, <3>2, <4>1, <4>2
    <3> QED
      BY <3>1, <3>2, <3>3
  <2> QED
    BY <2>2, <2>3
<1>5. net' = net \o t
  <2>1. end \in Seq(Bytes) /\ l \in Seq(Bytes)
    <3>1. <<Lf>> \in Seq(Bytes) /\ <<Cr, Lf>> \in Seq(Bytes)
      BY TheBytes, LineEnds
    <3> QED
      BY <1>3, <3>1, Wider, TheBytes
  <2>2. net \o l \o end = net \o (l \o end)
    BY <1>3, <2>1, JoinedTwice
  <2> QED
    BY <1>1, <1>4, <2>2, Zenon
<1>6. /\ sent' \in Seq(Lines) /\ Len(sent') = Len(sent) + 1 /\ sent'[Len(sent) + 1] = l
      /\ \A i \in 1 .. Len(sent) : sent'[i] = sent[i]
  BY <1>1, <1>3
<1>7. /\ net' \in Seq(Bytes) /\ Len(net') = Len(net) + Len(t)
      /\ \A k \in 1 .. Len(net) : net'[k] = net[k]
      /\ \A k \in 1 .. Len(t) : net'[Len(net) + k] = t[k]
  <2>1. /\ net \o t \in Seq(Bytes) /\ Len(net \o t) = Len(net) + Len(t)
        /\ \A k \in 1 .. Len(net) : (net \o t)[k] = net[k]
        /\ \A k \in 1 .. Len(t) : (net \o t)[Len(net) + k] = t[k]
    BY <1>3, Joined
  <2> QED
    BY <1>5, <2>1
<1>8. Taken' = Taken /\ Taken \in Nat /\ Taken <= Len(sent) /\ Len(handled) <= Len(sent)
  BY <1>2, <1>3 DEF Taken, IInv, Commands
<1>9. TypeOK'
  BY <1>2, <1>3, <1>6, <1>7 DEF IInv, TypeOK, Bytes
<1>10. Commands'
  <2>1. spc = "command" => Len(handled) + 1 \in 1 .. Len(sent)
    BY <1>3, <1>8 DEF Taken
  <2>2. \A i \in 1 .. Len(handled) : i \in 1 .. Len(sent)
    BY <1>3, <1>8
  <2> QED
    BY <1>2, <1>3, <1>6, <1>8, <2>1, <2>2 DEF IInv, Commands
<1>11. Stream'
  <2>1. PICK all, ends : Framed(all, ends) /\ Coming(all, ends[Taken])
    BY Zenon DEF IInv, Stream
  <2>2. PICK n \in Nat, f \in Nat : n = Len(sent) /\ f = ends[Taken]
    <3>1. Len(sent) \in Nat /\ Taken \in 0 .. Len(sent)
      BY <1>3, <1>8
    <3>2. ends[Taken] \in Nat
      BY <2>1, <3>1 DEF Framed
    <3> QED
      BY <3>1, <3>2
  <2>3. all \in Seq(Bytes) /\ ends \in [0 .. n -> Nat] /\ ends[0] = 0 /\ ends[n] = Len(all)
    BY <2>1, <2>2 DEF Framed
  <2>4. PICK new \in Seq(Bytes) :
           /\ new = all \o t /\ Len(new) = Len(all) + Len(t)
           /\ \A k \in 1 .. Len(all) : new[k] = all[k]
           /\ \A k \in 1 .. Len(t) : new[Len(all) + k] = t[k]
    <3>1. /\ all \o t \in Seq(Bytes) /\ Len(all \o t) = Len(all) + Len(t)
          /\ \A k \in 1 .. Len(all) : (all \o t)[k] = all[k]
          /\ \A k \in 1 .. Len(t) : (all \o t)[Len(all) + k] = t[k]
      BY <2>3, Joined
    <3> QED
      BY <3>1
  <2>5. PICK e : e = [i \in 0 .. n + 1 |-> IF i = n + 1 THEN Len(new) ELSE ends[i]]
    OBVIOUS
  <2>6. /\ e \in [0 .. n + 1 -> Nat] /\ e[0] = 0 /\ e[n + 1] = Len(new)
        /\ \A i \in 0 .. n : e[i] = ends[i]
    BY <2>3, <2>4, <2>5
  <2>7. ASSUME NEW i \in 1 .. n + 1
        PROVE  LineAt(new, e[i - 1], sent'[i], e[i])
    <3>1. CASE i = n + 1
      <4>1. PICK la \in Nat, lt \in Nat, ll \in Nat : la = Len(all) /\ lt = Len(t) /\ ll = Len(l)
        BY <1>3, <1>4, <2>3
      <4>2. i - 1 = n /\ n \in 0 .. n /\ e[i - 1] = ends[n] /\ e[i] = Len(new) /\ sent'[i] = l
        BY <1>6, <2>2, <2>6, <3>1
      <4>3. e[i - 1] = la /\ e[i] = la + lt
        BY <2>3, <2>4, <4>1, <4>2
      <4>4. lt = ll + 1 \/ (lt = ll + 2 /\ t[ll + 1] = Cr)
        BY <1>4, <4>1
      <4>5. lt \in 1 .. lt /\ ll + 1 \in 1 .. lt /\ (\A k \in 1 .. ll : k \in 1 .. lt)
            /\ la + (ll + 1) = la + ll + 1
        BY <4>4
      <4>6. new[la + lt] = Lf
        BY <1>4, <2>4, <4>1, <4>5
      <4>7. new[la + (ll + 1)] = t[ll + 1]
        BY <2>4, <4>1, <4>5
      <4>8. \A k \in 1 .. ll : new[la + k] = l[k]
        BY <1>4, <2>4, <4>1, <4>5
      <4>9. LineAt(new, la, l, la + lt)
        <5>1. Len(new) = la + lt /\ la + lt <= la + lt
          BY <2>4, <4>1
        <5>2. la + lt = la + ll + 1 \/ (la + lt = la + ll + 2 /\ new[la + ll + 1] = Cr)
          BY <4>4, <4>5, <4>7
        <5> QED
          BY <4>1, <4>6, <4>8, <5>1, <5>2 DEF LineAt
      <4> QED
        BY <4>2, <4>3, <4>9
    <3>2. CASE i # n + 1
      <4>1. i \in 1 .. n /\ i - 1 \in 0 .. n /\ e[i - 1] = ends[i - 1] /\ e[i] = ends[i]
            /\ sent'[i] = sent[i]
        BY <1>6, <2>2, <2>6, <3>2
      <4>2. LineAt(all, ends[i - 1], sent[i], ends[i]) /\ ends[i - 1] \in Nat /\ ends[i] \in Nat
            /\ sent[i] \in Seq(Chars)
        <5>1. LineAt(all, ends[i - 1], sent[i], ends[i])
          BY <2>1, <2>2, <4>1 DEF Framed
        <5>2. ends[i - 1] \in Nat /\ ends[i] \in Nat
          BY <2>3, <4>1
        <5>3. sent[i] \in Lines
          BY <1>3, <2>2, <4>1
        <5> QED
          BY <5>1, <5>2, <5>3, LinesAssumption
      <4>3. LineAt(new, ends[i - 1], sent[i], ends[i])
        <5>1. PICK a \in Nat, b \in Nat, s \in Seq(Chars) :
                 a = ends[i - 1] /\ b = ends[i] /\ s = sent[i]
          BY <4>2
        <5>2. LineAt(all, a, s, b)
          BY <4>2, <5>1
        <5>3. /\ Len(s) \in Nat /\ b <= Len(all) /\ b > a + Len(s) /\ b \in 1 .. Len(all)
              /\ \A k \in 1 .. Len(s) : a + k \in 1 .. Len(all)
              /\ b = a + Len(s) + 2 => a + Len(s) + 1 \in 1 .. Len(all)
          BY <2>3, <5>2 DEF LineAt
        <5>4. LineAt(new, a, s, b)
          BY <2>3, <2>4, <5>2, <5>3 DEF LineAt
        <5> QED
          BY <5>1, <5>4
      <4> QED
        BY <4>1, <4>3
    <3> QED
      BY <3>1, <3>2
  <2>8. Framed(new, e)'
    BY <1>6, <2>2, <2>4, <2>6, <2>7 DEF Framed
  <2>9. Coming(new, f)'
    <3>1. /\ f + Len(outStr) + Len(net) = Len(all)
          /\ \A k \in 1 .. Len(outStr) : outStr[k] = all[f + k]
          /\ \A k \in 1 .. Len(net) : net[k] = all[f + Len(outStr) + k]
      BY <1>2, <2>1, <2>2 DEF Coming
    <3>2. Len(outStr) \in Nat /\ Len(net) \in Nat /\ Len(t) \in Nat /\ Len(all) \in Nat
      BY <1>3, <2>3
    <3>3. \A k \in 1 .. Len(outStr) : outStr[k] = new[f + k]
      BY <2>4, <3>1, <3>2
    <3>4. ASSUME NEW k \in 1 .. Len(net')
          PROVE  net'[k] = new[f + Len(outStr) + k]
      <4>1. CASE k <= Len(net)
        BY <1>7, <2>4, <3>1, <3>2, <4>1
      <4>2. CASE k > Len(net)
        <5>1. PICK j \in 1 .. Len(t) : k = Len(net) + j
          <6>1. k - Len(net) \in 1 .. Len(t) /\ k = Len(net) + (k - Len(net))
            BY <1>7, <3>2, <4>2
          <6> QED
            BY <6>1
        <5>2. net'[k] = t[j] /\ new[Len(all) + j] = t[j]
          <6>1. net'[Len(net) + j] = t[j] /\ new[Len(all) + j] = t[j]
            BY <1>7, <2>4
          <6> QED
            BY <5>1, <6>1, Zenon
        <5>3. f + Len(outStr) + k = Len(all) + j
          <6>1. PICK a \in Nat, b \in Nat : a = Len(outStr) /\ b = Len(net)
            BY <3>2
          <6>2. f + a + b = Len(all) /\ k = b + j /\ j \in Nat
            BY <3>1, <5>1, <6>1
          <6>3. f + a + k = Len(all) + j
            BY <6>2
          <6> QED
            BY <6>1, <6>3, Zenon
        <5> QED
          BY <5>2, <5>3
      <4> QED
        BY <3>2, <4>1, <4>2
    <3>5. f + Len(outStr) + Len(net') = Len(new)
      <4>1. PICK a \in Nat, b \in Nat, c \in Nat : a = Len(outStr) /\ b = Len(net) /\ c = Len(t)
        BY <3>2
      <4>2. f + a + b = Len(all) /\ Len(net') = b + c /\ Len(new) = Len(all) + c
        BY <1>7, <2>4, <3>1, <4>1
      <4>3. f + a + (b + c) = Len(new)
        BY <4>2
      <4> QED
        BY <4>1, <4>2, <4>3, Zenon
    <3> QED
      BY <1>2, <2>4, <3>2, <3>3, <3>4, <3>5 DEF Coming
  <2>10. e[Taken'] = f
    BY <1>8, <2>2, <2>6
  <2> QED
    BY <2>8, <2>9, <2>10, Zenon DEF Stream
<1> QED
  BY <1>9, <1>10, <1>11 DEF IInv

LEMMA HangUpStep == ASSUME IInv, HangUp PROVE IInv'
<1>1. PICK n \in 0 .. Len(net) : net' = SubSeq(net, 1, n)
  BY DEF HangUp
<1>2. gone' = TRUE /\ UNCHANGED <<outStr, spc, str, sent, handled, answers>>
  BY DEF HangUp
<1>3. net \in Seq(Bytes) /\ outStr \in Seq(Chars \cup {Cr})
  BY DEF IInv, TypeOK, Bytes
<1>4. /\ net' \in Seq(Bytes) /\ Len(net') = n
      /\ \A k \in 1 .. n : net'[k] = net[k]
  BY <1>1, <1>3
<1>5. TypeOK'
  BY <1>2, <1>4 DEF IInv, TypeOK, Bytes
<1>6. Commands' /\ Taken' = Taken
  BY <1>2 DEF IInv, Commands, Taken
<1>7. PICK all, ends : Framed(all, ends) /\ Coming(all, ends[Taken])
  BY Zenon DEF IInv, Stream
<1>8. PICK f \in Nat : f = ends[Taken]
  <2>1. Len(sent) \in Nat /\ Taken \in 0 .. Len(sent)
    BY DEF IInv, TypeOK, Commands, Taken
  <2> QED
    BY <1>7, <2>1 DEF Framed
<1>9. Framed(all, ends)'
  BY <1>2, <1>7 DEF Framed, LineAt
<1>10. Coming(all, f)'
  <2>1. Coming(all, f)
    BY <1>7, <1>8
  <2>2. PICK a \in Nat, b \in Nat, c \in Nat : a = Len(outStr) /\ b = Len(net) /\ c = Len(all)
    BY <1>3, <1>7 DEF Framed
  <2>3. f + a + b <= c /\ n <= b
    BY <1>1, <2>1, <2>2 DEF Coming
  <2>4. f + a + n <= c
    BY <2>3
  <2>5. \A k \in 1 .. n : k \in 1 .. b
    BY <2>3
  <2> QED
    BY <1>2, <1>4, <2>1, <2>2, <2>4, <2>5 DEF Coming
<1> QED
  BY <1>5, <1>6, <1>7, <1>8, <1>9, <1>10, Zenon DEF IInv, Stream

LEMMA DisconnectStep == ASSUME IInv, Disconnect PROVE IInv'
<1>1. /\ outStr' = <<>> /\ net = <<>> /\ gone /\ spc = "read" /\ spc' = "closed"
      /\ UNCHANGED <<net, gone, str, sent, handled, answers>>
  BY DEF Disconnect
<1>2. \A C : <<>> \in Seq(C)
  OBVIOUS
<1>3. TypeOK'
  BY <1>1, <1>2, Zenon DEF IInv, TypeOK
<1>4. Commands' /\ Taken' = Taken
  BY <1>1 DEF IInv, Commands, Taken
<1>5. PICK all, ends : Framed(all, ends) /\ Coming(all, ends[Taken])
  BY Zenon DEF IInv, Stream
<1>6. Framed(all, ends)'
  BY <1>1, <1>5 DEF Framed, LineAt
<1>7. PICK f \in Nat : f = ends[Taken] /\ Coming(all, f)
  <2>1. Len(sent) \in Nat /\ Taken \in 0 .. Len(sent)
    BY DEF IInv, TypeOK, Commands, Taken
  <2> QED
    BY <1>5, <2>1 DEF Framed
<1>8. Coming(all, f)'
  <2>1. Len(net) = 0 /\ Len(outStr') = 0 /\ Len(outStr) \in Nat /\ Len(all) \in Nat
    BY <1>1, <1>5 DEF IInv, TypeOK, Framed
  <2>2. f + Len(outStr) + Len(net) <= Len(all)
    BY <1>7 DEF Coming
  <2>3. f <= Len(all) /\ f + 0 + 0 = f
    BY <2>1, <2>2
  <2> QED
    BY <1>1, <2>1, <2>3 DEF Coming
<1> QED
  BY <1>3, <1>4, <1>5, <1>6, <1>7, <1>8, Zenon DEF IInv, Stream

LEMMA WorkerStep == ASSUME IInv, MakeCommand \/ Answer \/ Fail PROVE IInv'
<1>1. UNCHANGED <<net, gone, outStr, sent>>
  BY DEF MakeCommand, Answer, Fail
<1>2. /\ sent \in Seq(Lines) /\ handled \in Seq(Seq(Chars \cup {Nul})) /\ answers \in Nat
      /\ Len(sent) <= MaxLines /\ MaxLines \in Nat /\ Len(handled) \in Nat /\ Len(sent) \in Nat
      /\ Taken \in Nat /\ Taken <= Len(sent)
  BY LinesAssumption DEF IInv, TypeOK, Commands, Taken
<1>3. CASE MakeCommand
  <2>1. /\ str' = Trimmed(Condensed(str)) /\ handled' = Append(handled, str')
        /\ spc = "command" /\ spc' = "handle" /\ UNCHANGED answers
    BY <1>3 DEF MakeCommand
  <2>2. PICK n \in Nat : n = Len(handled)
    BY <1>2
  <2>3. n + 1 <= Len(sent) /\ str = sent[n + 1] /\ Taken = n + 1
    BY <1>2, <2>1, <2>2 DEF IInv, Commands, Taken
  <2>4. str \in Seq(Chars)
    BY <1>2, <2>2, <2>3, LinesAssumption
  <2>5. str' \in Seq(Chars \cup {Nul})
    BY <2>1, <2>4, CommandIsSqueezed
  <2>6. /\ handled' \in Seq(Seq(Chars \cup {Nul})) /\ Len(handled') = n + 1
        /\ handled'[n + 1] = str' /\ \A i \in 1 .. n : handled'[i] = handled[i]
    BY <1>2, <2>1, <2>2, <2>5
  <2>7. Taken' = Taken
    BY <2>1, <2>3, <2>6 DEF Taken
  <2>8. TypeOK'
    BY <1>1, <2>1, <2>5, <2>6 DEF IInv, TypeOK
  <2>9. Commands'
    <3>1. \A i \in 1 .. n + 1 : handled'[i] = Trimmed(Condensed(sent'[i]))
      <4> SUFFICES ASSUME NEW i \in 1 .. n + 1
                   PROVE  handled'[i] = Trimmed(Condensed(sent[i]))
        BY <1>1
      <4>1. CASE i = n + 1
        BY <2>1, <2>3, <2>6, <4>1, Zenon
      <4>2. CASE i # n + 1
        <5>1. i \in 1 .. n
          BY <4>2
        <5> QED
          BY <2>2, <2>6, <5>1, Zenon DEF IInv, Commands
      <4> QED
        BY <4>1, <4>2
    <3>2. answers <= n
      BY <1>2, <2>1, <2>2 DEF IInv, Commands
    <3>3. answers' + 1 <= Len(handled') /\ Taken' <= Len(sent')
      BY <1>1, <1>2, <2>1, <2>3, <2>6, <2>7, <3>2
    <3> QED
      BY <2>1, <2>6, <3>1, <3>3 DEF Commands
  <2> QED
    BY <1>1, <2>7, <2>8, <2>9, StreamKept DEF IInv
<1>4. CASE Answer \/ Fail
  <2>1. /\ spc = "handle" /\ spc' \in {"closed", "read", "killed"} /\ UNCHANGED <<str, handled>>
        /\ answers' \in {answers, answers + 1}
    BY <1>4 DEF Answer, Fail
  <2>2. Taken' = Taken /\ Taken = Len(handled)
    BY <1>2, <2>1 DEF Taken
  <2>3. answers + 1 <= Len(handled)
    BY <2>1 DEF IInv, Commands
  <2>4. answers' \in Nat /\ answers' <= Len(handled) /\ answers' + 0 <= Len(handled)
        /\ answers' \in 0 .. MaxLines
    BY <1>2, <2>1, <2>2, <2>3
  <2>5. TypeOK'
    BY <1>1, <2>1, <2>4, Zenon DEF IInv, TypeOK
  <2>6. Commands'
    BY <1>1, <2>1, <2>2, <2>4 DEF IInv, Commands
  <2> QED
    BY <1>1, <2>2, <2>5, <2>6, StreamKept DEF IInv
<1> QED
  BY <1>3, <1>4

LEMMA PartIs ==
    ASSUME NEW C, NEW s \in Seq(C), NEW i \in Nat, NEW j \in Nat, 1 <= i, i <= j, j <= Len(s)
    PROVE  /\ SubSeq(s, i, j) \in Seq(C) /\ Len(SubSeq(s, i, j)) = j - i + 1
           /\ \A k \in 1 .. j - i + 1 : SubSeq(s, i, j)[k] = s[i + k - 1]
  OBVIOUS

LEMMA RestIs ==
    ASSUME NEW C, NEW s \in Seq(C), Len(s) >= 1
    PROVE  /\ SubSeq(s, 2, Len(s)) \in Seq(C) /\ Len(SubSeq(s, 2, Len(s))) = Len(s) - 1
           /\ \A k \in 1 .. Len(s) - 1 : SubSeq(s, 2, Len(s))[k] = s[k + 1]
<1>1. CASE Len(s) = 1
  <2>1. SubSeq(s, 2, Len(s)) = <<>>
    BY <1>1
  <2> QED
    BY <1>1, <2>1
<1>2. CASE Len(s) >= 2
  BY <1>2, PartIs
<1>3. PICK n \in Nat : n = Len(s)
  OBVIOUS
<1>4. n = 1 \/ n >= 2
  BY <1>3
<1> QED
  BY <1>1, <1>2, <1>3, <1>4, Zenon

LEMMA FirstIs ==
    ASSUME NEW C, NEW s \in Seq(C), Len(s) >= 1
    PROVE  SubSeq(s, 1, 1) \in Seq(C) /\ Len(SubSeq(s, 1, 1)) = 1 /\ SubSeq(s, 1, 1)[1] = s[1]
  OBVIOUS

LEMMA Narrower ==
    ASSUME NEW C, NEW s \in Seq(C), NEW D, \A k \in 1 .. Len(s) : s[k] \in D
    PROVE  s \in Seq(D)
  OBVIOUS

\* what WithoutCr leaves of a line of the client, with or without its CR
LEMMA WithoutCrIs ==
    ASSUME NEW l \in Seq(Chars), NEW o \in Seq(Chars \cup {Cr}),
           \A k \in 1 .. Len(l) : o[k] = l[k],
           Len(o) = Len(l) \/ (Len(o) = Len(l) + 1 /\ o[Len(l) + 1] = Cr)
    PROVE  WithoutCr(o) = l
<1>1. CASE Len(o) = Len(l)
  <2>1. o = l
    BY <1>1
  <2>2. l # <<>> => l[Len(l)] \in Chars
    OBVIOUS
  <2>3. l # <<>> => l[Len(l)] # Cr
    BY <2>2, CharsDiffer
  <2> QED
    BY <2>1, <2>3, Zenon DEF WithoutCr, Last
<1>2. CASE Len(o) = Len(l) + 1 /\ o[Len(l) + 1] = Cr
  <2>1. o # <<>> /\ o[Len(o)] = Cr
    BY <1>2
  <2>2. SubSeq(o, 1, Len(o) - 1) = l
    <3>1. Len(o) - 1 = Len(l) /\ Len(l) \in Nat
      BY <1>2
    <3> QED
      BY <1>2, <3>1
  <2> QED
    BY <2>1, <2>2, Zenon DEF WithoutCr, Last, Front
<1> QED
  BY <1>1, <1>2

\* one byte
LEMMA ReceiveIs ==
    ASSUME IInv, Receive
    PROVE  /\ spc = "read" /\ UNCHANGED <<gone, sent, handled, answers>>
           /\ Len(net) \in Nat /\ Len(net) >= 1
           /\ net' \in Seq(Bytes) /\ Len(net') = Len(net) - 1
           /\ \A k \in 1 .. Len(net') : net'[k] = net[k + 1]
           /\ \/ net[1] = Lf /\ str' = WithoutCr(outStr) /\ outStr' = <<>> /\ spc' = "command"
              \/ /\ net[1] # Lf /\ UNCHANGED <<str, spc>>
                 /\ outStr' \in Seq(Chars \cup {Cr}) /\ Len(outStr') = Len(outStr) + 1
                 /\ outStr'[Len(outStr) + 1] = net[1]
                 /\ \A k \in 1 .. Len(outStr) : outStr'[k] = outStr[k]
<1>1. PICK n \in 1 .. RecvMax :
        /\ n <= Len(net)
        /\ net' = SubSeq(net, n + 1, Len(net))
        /\ LET recvBuffer == SubSeq(net, 1, n)
               line == outStr \o Before(recvBuffer, {Lf, Nul})
           IN  IF Contains(recvBuffer, Lf)
               THEN str' = WithoutCr(line) /\ outStr' = <<>> /\ spc' = "command"
               ELSE outStr' = line /\ UNCHANGED <<str, spc>>
  BY DEF Receive
<1>2. n = 1
  BY DEF RecvMax
<1>3. net \in Seq(Bytes) /\ outStr \in Seq(Chars \cup {Cr})
  BY DEF IInv, TypeOK, Bytes
<1>4. Len(net) \in Nat /\ Len(net) >= 1 /\ net[1] \in Bytes
  BY <1>1, <1>2, <1>3
<1>5. PICK b \in Seq(Bytes) : b = SubSeq(net, 1, 1) /\ Len(b) = 1 /\ b[1] = net[1]
  <2>1. /\ SubSeq(net, 1, 1) \in Seq(Bytes) /\ Len(SubSeq(net, 1, 1)) = 1
        /\ SubSeq(net, 1, 1)[1] = net[1]
    BY <1>3, <1>4, FirstIs
  <2> QED
    BY <2>1
<1>6. Contains(b, Lf) <=> net[1] = Lf
  <2>1. Contains(b, Lf) <=> \E i \in 1 .. 1 : b[i] = Lf
    BY <1>5 DEF Contains
  <2>2. \A i : i \in 1 .. 1 <=> i = 1
    OBVIOUS
  <2> QED
    BY <1>5, <2>1, <2>2, Zenon
<1>7. DOMAIN b = {1} /\ 1 = 0 + 1 /\ 0 \in Nat
  BY <1>5
<1>8. /\ net' \in Seq(Bytes) /\ Len(net') = Len(net) - 1
      /\ \A k \in 1 .. Len(net') : net'[k] = net[k + 1]
  <2>1. net' = SubSeq(net, 2, Len(net))
    BY <1>1, <1>2
  <2> QED
    BY <1>3, <1>4, <2>1, RestIs
<1>9. CASE net[1] = Lf
  <2>1. {i \in DOMAIN b : b[i] \in {Lf, Nul}} = {0 + 1}
    BY <1>5, <1>7, <1>9
  <2>2. Before(b, {Lf, Nul}) = SubSeq(b, 1, 0)
    BY <1>7, <2>1, BeforeIs
  <2>3. SubSeq(b, 1, 0) = <<>>
    BY <1>5
  <2>4. outStr \o <<>> = outStr
    BY <1>3
  <2>5. str' = WithoutCr(outStr) /\ outStr' = <<>> /\ spc' = "command"
    BY <1>1, <1>2, <1>5, <1>6, <1>9, <2>2, <2>3, <2>4, Zenon
  <2> QED
    BY <1>4, <1>8, <1>9, <2>5 DEF Receive
<1>10. CASE net[1] # Lf
  <2>1. net[1] \in Chars \cup {Cr} /\ net[1] \notin {Lf, Nul}
    BY <1>4, <1>10, CharsDiffer DEF Bytes
  <2>2. \A i \in DOMAIN b : b[i] \notin {Lf, Nul}
    BY <1>5, <1>7, <2>1
  <2>3. Before(b, {Lf, Nul}) = b
    BY <1>7, <2>2, BeforeIs
  <2>4. outStr' = outStr \o b /\ UNCHANGED <<str, spc>>
    BY <1>1, <1>2, <1>5, <1>6, <1>10, <2>3, Zenon
  <2>5. PICK d \in Seq(Chars \cup {Cr}) : d = b /\ Len(d) = 1
    <3>1. \A k \in 1 .. Len(b) : b[k] \in Chars \cup {Cr}
      BY <1>5, <2>1
    <3>2. b \in Seq(Chars \cup {Cr})
      BY <3>1, Narrower
    <3> QED
      BY <1>5, <3>2
  <2>6. /\ outStr \o d \in Seq(Chars \cup {Cr}) /\ Len(outStr \o d) = Len(outStr) + Len(d)
        /\ \A k \in 1 .. Len(outStr) : (outStr \o d)[k] = outStr[k]
        /\ \A k \in 1 .. Len(d) : (outStr \o d)[Len(outStr) + k] = d[k]
    BY <1>3, Joined
  <2>7. 1 \in 1 .. Len(d)
    BY <2>5
  <2>8. (outStr \o d)[Len(outStr) + 1] = net[1]
    BY <1>5, <2>5, <2>6, <2>7
  <2>9. /\ outStr' \in Seq(Chars \cup {Cr}) /\ Len(outStr') = Len(outStr) + 1
        /\ outStr'[Len(outStr) + 1] = net[1]
        /\ \A k \in 1 .. Len(outStr) : outStr'[k] = outStr[k]
    BY <2>4, <2>5, <2>6, <2>8
  <2> QED
    BY <1>4, <1>8, <1>10, <2>4, <2>9 DEF Receive
<1> QED
  BY <1>9, <1>10

LEMMA ReceiveStep == ASSUME IInv, Receive PROVE IInv'
<1>1. /\ sent \in Seq(Lines) /\ handled \in Seq(Seq(Chars \cup {Nul}))
      /\ outStr \in Seq(Chars \cup {Cr}) /\ net \in Seq(Bytes)
      /\ spc = "read" /\ UNCHANGED <<gone, sent, handled, answers>>
  BY ReceiveIs DEF IInv, TypeOK, Bytes
<1>2. PICK n \in Nat, T \in Nat, a \in Nat, b \in Nat :
         n = Len(sent) /\ T = Len(handled) /\ a = Len(outStr) /\ b = Len(net)
  BY <1>1
<1>3. Taken = T /\ T <= n
  BY <1>1, <1>2 DEF IInv, Commands, Taken
<1>4. /\ b >= 1 /\ net' \in Seq(Bytes) /\ Len(net') = b - 1
      /\ \A k \in 1 .. b - 1 : net'[k] = net[k + 1]
  BY <1>2, ReceiveIs
<1>5. PICK all, ends : Framed(all, ends) /\ Coming(all, ends[Taken])
  BY Zenon DEF IInv, Stream
<1>6. PICK f \in Nat, c \in Nat : f = ends[T] /\ c = Len(all)
  <2>1. T \in 0 .. Len(sent)
    BY <1>2, <1>3
  <2> QED
    BY <1>5, <2>1 DEF Framed
<1>7. /\ all \in Seq(Bytes) /\ f + a + b <= c /\ (~gone => f + a + b = c)
      /\ \A k \in 1 .. a : outStr[k] = all[f + k]
      /\ \A k \in 1 .. b : net[k] = all[f + a + k]
  <2>1. Coming(all, f) /\ all \in Seq(Bytes)
    BY <1>3, <1>5, <1>6 DEF Framed
  <2> QED
    BY <1>2, <1>6, <2>1, Zenon DEF Coming
<1>8. net[1] = all[f + a + 1]
  BY <1>4, <1>7
<1>9. Framed(all, ends)'
  BY <1>1, <1>5 DEF Framed, LineAt
<1>10. \A k \in 1 .. b - 1 : net'[k] = all[f + (a + 1) + k]
  <2> SUFFICES ASSUME NEW k \in 1 .. b - 1
               PROVE  net'[k] = all[f + (a + 1) + k]
    OBVIOUS
  <2>1. k + 1 \in 1 .. b /\ f + a + (k + 1) = f + (a + 1) + k
    BY <1>4
  <2>2. net[k + 1] = all[f + a + (k + 1)]
    BY <1>7, <2>1, Zenon
  <2> QED
    BY <1>4, <2>1, <2>2
<1>11. CASE net[1] # Lf
  <2>1. /\ outStr' \in Seq(Chars \cup {Cr}) /\ Len(outStr') = a + 1
        /\ outStr'[a + 1] = net[1] /\ UNCHANGED <<str, spc>>
        /\ \A k \in 1 .. a : outStr'[k] = outStr[k]
    BY <1>2, <1>11, ReceiveIs
  <2>2. TypeOK'
    BY <1>1, <1>4, <2>1, Zenon DEF IInv, TypeOK, Bytes
  <2>3. Commands' /\ Taken' = Taken
    BY <1>1, <2>1 DEF IInv, Commands, Taken
  <2>4. \A k \in 1 .. a + 1 : outStr'[k] = all[f + k]
    <3> SUFFICES ASSUME NEW k \in 1 .. a + 1
                 PROVE  outStr'[k] = all[f + k]
      OBVIOUS
    <3>1. CASE k = a + 1
      <4>1. f + k = f + a + 1
        BY <3>1
      <4> QED
        BY <1>8, <2>1, <3>1, <4>1, Zenon
    <3>2. CASE k # a + 1
      <4>1. k \in 1 .. a
        BY <3>2
      <4> QED
        BY <1>7, <2>1, <4>1, Zenon
    <3> QED
      BY <3>1, <3>2
  <2>5. f + (a + 1) + (b - 1) = f + a + b
    OBVIOUS
  <2>6. Coming(all, f)'
    BY <1>1, <1>4, <1>6, <1>7, <1>10, <2>1, <2>4, <2>5, Zenon DEF Coming
  <2> QED
    BY <1>3, <1>6, <1>9, <2>2, <2>3, <2>6, Zenon DEF IInv, Stream
<1>12. CASE net[1] = Lf
  <2>1. str' = WithoutCr(outStr) /\ outStr' = <<>> /\ spc' = "command"
    BY <1>12, ReceiveIs
  <2>2. PICK p \in Nat : p = f + a + 1
    OBVIOUS
  <2>3. p <= c /\ all[p] = Lf
    BY <1>4, <1>7, <1>8, <1>12, <2>2
  <2>4. T < n
    <3>1. ends[n] = c
      BY <1>2, <1>5, <1>6 DEF Framed
    <3>2. T # n
      BY <1>6, <2>2, <2>3, <3>1
    <3> QED
      BY <1>3, <3>2
  <2>5. T + 1 \in 1 .. n /\ (T + 1) - 1 = T /\ T + 1 \in 0 .. n
    BY <2>4
  <2>6. PICK l \in Seq(Chars), to \in Nat, ll \in Nat :
           l = sent[T + 1] /\ to = ends[T + 1] /\ ll = Len(l)
    <3>1. sent[T + 1] \in Lines
      BY <1>1, <1>2, <2>5
    <3>2. ends[T + 1] \in Nat
      BY <1>2, <1>5, <2>5 DEF Framed
    <3> QED
      BY <3>1, <3>2, LinesAssumption
  <2>7. LineAt(all, f, l, to)
    BY <1>2, <1>5, <1>6, <2>5, <2>6 DEF Framed
  <2>8. /\ to = f + ll + 1 \/ (to = f + ll + 2 /\ all[f + ll + 1] = Cr)
        /\ all[to] = Lf
        /\ \A k \in 1 .. ll : all[f + k] = l[k]
    BY <2>6, <2>7, Zenon DEF LineAt
  <2>9. \A k \in 1 .. a : all[f + k] # Lf
    <3> SUFFICES ASSUME NEW k \in 1 .. a
                 PROVE  all[f + k] # Lf
      OBVIOUS
    <3>1. outStr[k] \in Chars \cup {Cr}
      BY <1>1, <1>2
    <3> QED
      BY <1>7, <3>1, CharsDiffer
  <2>10. to = p
    <3>1. ASSUME to < p
          PROVE  FALSE
      <4>1. to - f \in 1 .. a /\ f + (to - f) = to
        BY <2>2, <2>8, <3>1
      <4> QED
        BY <2>8, <2>9, <4>1
    <3>2. ASSUME p < to
          PROVE  FALSE
      <4>1. a + 1 \in 1 .. ll \/ (p = f + ll + 1 /\ all[f + ll + 1] = Cr)
        BY <2>2, <2>8, <3>2
      <4>2. CASE a + 1 \in 1 .. ll
        <5>1. l[a + 1] \in Chars
          BY <2>6, <4>2
        <5>2. all[f + (a + 1)] = l[a + 1] /\ f + (a + 1) = p
          BY <2>2, <2>8, <4>2
        <5> QED
          BY <2>3, <5>1, <5>2, CharsDiffer
      <4> QED
        BY <2>3, <4>1, <4>2, CharsDiffer
    <3> QED
      BY <3>1, <3>2
  <2>11. str' = l
    <3>1. a = ll \/ (a = ll + 1 /\ all[f + ll + 1] = Cr)
      BY <2>2, <2>8, <2>10
    <3>2. \A k \in 1 .. ll : k \in 1 .. a
      BY <3>1
    <3>3. \A k \in 1 .. ll : outStr[k] = l[k]
      BY <1>7, <2>8, <3>2
    <3>4. a = ll + 1 => outStr[ll + 1] = Cr
      <4> SUFFICES ASSUME a = ll + 1
                   PROVE  outStr[ll + 1] = Cr
        OBVIOUS
      <4>1. ll + 1 \in 1 .. a /\ f + (ll + 1) = f + ll + 1 /\ all[f + ll + 1] = Cr
        BY <3>1
      <4> QED
        BY <1>7, <4>1
    <3>5. Len(outStr) = Len(l) \/ (Len(outStr) = Len(l) + 1 /\ outStr[Len(l) + 1] = Cr)
      BY <1>2, <2>6, <3>1, <3>4
    <3>6. \A k \in 1 .. Len(l) : outStr[k] = l[k]
      BY <2>6, <3>3
    <3>7. WithoutCr(outStr) = l
      BY <1>1, <3>5, <3>6, WithoutCrIs
    <3> QED
      BY <2>1, <3>7
  <2>12. TypeOK'
    <3>1. str' \in Seq(Chars \cup {Nul}) /\ <<>> \in Seq(Chars \cup {Cr})
      BY <2>11
    <3> QED
      BY <1>1, <1>4, <2>1, <3>1, Zenon DEF IInv, TypeOK, Bytes
  <2>13. Taken' = T + 1
    BY <1>1, <1>2, <2>1 DEF Taken
  <2>14. Commands'
    <3>1. Taken' <= Len(sent') /\ str' = sent'[Len(handled') + 1]
      BY <1>1, <1>2, <2>4, <2>6, <2>11, <2>13
    <3>2. answers' + 0 <= Len(handled')
      BY <1>1 DEF IInv, Commands
    <3> QED
      BY <1>1, <2>1, <3>1, <3>2 DEF IInv, Commands
  <2>15. Coming(all, to)'
    <3>1. Len(outStr') = 0
      BY <2>1
    <3>2. to + 0 + (b - 1) = f + a + b /\ \A k \in Int : f + (a + 1) + k = to + 0 + k
      BY <2>2, <2>10
    <3>3. \A k \in 1 .. b - 1 : net'[k] = all[to + 0 + k]
      BY <1>10, <3>2
    <3>4. \A k \in 1 .. 0 : FALSE
      OBVIOUS
    <3> QED
      BY <1>1, <1>4, <1>6, <1>7, <3>1, <3>2, <3>3, <3>4, Zenon DEF Coming
  <2> QED
    BY <1>9, <2>6, <2>12, <2>13, <2>14, <2>15, Zenon DEF IInv, Stream
<1> QED
  BY <1>11, <1>12

-----------------------------------------------------------------------------

LEMMA Invariant == Spec => []IInv
<1>1. Init => IInv
  BY InitStream
<1>2. IInv /\ [Next]_vars => IInv'
  <2> SUFFICES ASSUME IInv, [Next]_vars
               PROVE  IInv'
    OBVIOUS
  <2>1. CASE UNCHANGED vars
    <3>1. TypeOK' /\ Commands' /\ Taken' = Taken
      BY <2>1 DEF IInv, TypeOK, Commands, Taken, vars
    <3>2. UNCHANGED <<net, gone, outStr, sent>>
      BY <2>1 DEF vars
    <3> QED
      BY <3>1, <3>2, StreamKept DEF IInv
  <2>2. CASE SendLine
    BY <2>2, SendLineStep
  <2>3. CASE HangUp
    BY <2>3, HangUpStep
  <2>4. CASE Receive
    BY <2>4, ReceiveStep
  <2>5. CASE Disconnect
    BY <2>5, DisconnectStep
  <2>6. CASE MakeCommand \/ Answer \/ Fail
    BY <2>6, WorkerStep
  <2> QED
    BY <2>1, <2>2, <2>3, <2>4, <2>5, <2>6 DEF Next, Server
<1> QED
  BY <1>1, <1>2, PTL DEF Spec

\* The variables of the model have their types.
THEOREM TypeCorrect == Spec => []TypeOK
<1>1. IInv => TypeOK
  BY DEF IInv
<1> QED
  BY <1>1, Invariant, PTL

\* Whatever lines the client sends, with CR LF or LF, and however they come
\* in: the commands are these lines, each complete and in their order, and as
\* C strings they are the lines with condensed whitespace
\* (TCPConnection::ReadLine, InteractiveTCPConnection::Worker).
THEOREM CommandsMatch == Spec => []CommandsAreLines
<1>1. IInv => CommandsAreLines
  <2> SUFFICES ASSUME IInv
               PROVE  CommandsAreLines
    OBVIOUS
  <2>1. /\ handled \in Seq(Seq(Chars \cup {Nul})) /\ sent \in Seq(Lines)
        /\ Taken <= Len(sent) /\ DOMAIN handled = 1 .. Len(handled)
        /\ \A i \in 1 .. Len(handled) : handled[i] = Trimmed(Condensed(sent[i]))
    BY DEF IInv, TypeOK, Commands
  <2>2. Len(handled) <= Len(sent)
    BY <2>1 DEF Taken
  <2>3. ASSUME NEW i \in 1 .. Len(handled)
        PROVE  Trimmed(CStr(handled[i])) = Squeezed(sent[i])
    <3>1. sent[i] \in Seq(Chars)
      <4>1. i \in 1 .. Len(sent)
        BY <2>1, <2>2
      <4> QED
        BY <2>1, <4>1, LinesAssumption
    <3>2. handled[i] = Trimmed(Condensed(sent[i]))
      BY <2>1
    <3> QED
      BY <3>1, <3>2, CommandIsSqueezed
  <2> QED
    BY <2>1, <2>2, <2>3 DEF CommandsAreLines
<1> QED
  BY <1>1, Invariant, PTL
=============================================================================
