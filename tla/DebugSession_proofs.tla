------------------------- MODULE DebugSession_proofs -------------------------
(***************************************************************************)
(* Proofs about DebugSession, for any number of connections and any menus. *)
(* A handler is a sequence of messages, and what its thread still has to   *)
(* do with the chip is a matter of which messages are left: the first part *)
(* says so of sets of messages and shows that every handler is ordered as  *)
(* the invariants need it; the other parts are the invariants.             *)
(***************************************************************************)
EXTENDS DebugSession, SequenceTheorems, TLAPS

(* Messages.                                                                *)

Simple == {"status", "halt_if", "resume_if", "halt", "resume", "step", "setpc", "par",
           "name", "alloc", "load", "reset_on", "reset_off", "debug", "program", "free"}

Told == Regs \cup {"FMAP", "ANY", "REST"}

Msgs ==
    {Save(r) : r \in Regs} \cup {Tell(r) : r \in Told} \cup {Restore(r) : r \in Regs}
        \cup {Set(r) : r \in Told} \cup {Use(S) : S \in SUBSET Regs}
        \cup {Op(o) : o \in Simple}
        \cup {<<"page", 1>>, <<"wait", 1>>, <<"verify", 1>>, <<"page", 2>>, <<"wait", 2>>,
              <<"answer", "ok">>, <<"answer", "failed">>}

-----------------------------------------------------------------------------
(* What is left of a handler, as the set E of its messages.                 *)

In(op, E) == \E m \in E : m[1] = op

\* registers it has read and has still to put back
HeldIn(E) == {r \in Regs : Restore(r) \in E /\ Save(r) \notin E}

\* registers it may have changed and has still to put back
DirtyIn(E) == IF In("free", E) /\ ~In("reset_on", E) THEN Regs ELSE HeldIn(E)

\* it is no longer, or never was, about to take the chip over or to release it
Plain(E) == ~In("debug", E) /\ ~In("answer", E) /\ ~In("free", E)

\* it resumes the CPU, and has yet to look whether it runs
Asks(E) == In("resume_if", E) => In("status", E)

\* Message m is well placed in front of the messages E.
Fits(m, E) ==
    /\ m[1] = "save" =>
          /\ m[2] \in HeldIn(E) /\ m = Save(m[2]) /\ Plain(E)
          /\ m[2] # "ACC" => "ACC" \in HeldIn(E)
          /\ m[2] = "MEMCTR" => Asks(E)
    /\ m[1] = "tell" => "ACC" \in HeldIn(E) /\ m[2] \notin HeldIn(E) /\ Plain(E)
    /\ m[1] = "restore" =>
          /\ m[2] \in Regs /\ m = Restore(m[2]) /\ Plain(E)
          /\ m \notin E /\ Save(m[2]) \notin E
    /\ m[1] = "set" => HeldIn(E) = {} /\ Plain(E)
    /\ m[1] = "use" => m[2] \subseteq HeldIn(E) /\ Plain(E)
    /\ m[1] = "halt_if" => In("resume_if", E) /\ ~In("status", E) /\ Plain(E)
    /\ m[1] = "resume_if" =>
          /\ ~In("resume_if", E) /\ ~In("status", E) /\ Plain(E)
          /\ HeldIn(E) = {} \/ "MEMCTR" \in HeldIn(E)
    /\ m[1] = "halt" => Asks(E) /\ Plain(E)
    /\ m[1] = "resume" => HeldIn(E) = {} /\ Asks(E) /\ Plain(E)
    /\ m[1] = "reset_on" => In("debug", E) /\ ~In("reset_on", E) /\ HeldIn(E) = {}
    /\ m[1] = "free" =>
          In("answer", E) /\ ~In("reset_on", E) /\ ~In("free", E) /\ HeldIn(E) = {}
    /\ m[1] = "reset_off" =>
          In("debug", E) /\ ~In("reset_on", E) /\ ~In("free", E) /\ HeldIn(E) = {}
    /\ m[1] = "debug" => ~In("reset_on", E) /\ Asks(E) /\ HeldIn(E) = {}
    /\ m[1] = "answer" => E = {}
    /\ m[1] = "name" => In("free", E)
    /\ m[1] = "load" => In("reset_on", E) /\ ~In("resume_if", E) /\ HeldIn(E) = {}
    /\ m[1] \in {"page", "verify"} =>
          /\ m[2] \in Pages /\ HeldIn(E) = {}
          /\ In("free", E) /\ In("answer", E) /\ ~In("reset_on", E)

\* A handler begins with nothing taken over, held or dirty.
Starts(E) == HeldIn(E) = {} /\ Asks(E) /\ (In("free", E) => In("reset_on", E))

-----------------------------------------------------------------------------
(* Sequences of messages.                                                   *)

Elems(s) == {s[i] : i \in 1 .. Len(s)}
After(s, i) == {s[k] : k \in i + 1 .. Len(s)}

\* The messages of s are well placed when the messages E follow s.
Fit(s, E) == s \in Seq(Msgs) /\ \A i \in 1 .. Len(s) : Fits(s[i], After(s, i) \cup E)

LEMMA ElemsOfConcat ==
    ASSUME NEW s \in Seq(Msgs), NEW u \in Seq(Msgs)
    PROVE  Elems(s \o u) = Elems(s) \cup Elems(u)
<1> USE ConcatProperties
<1>1. Elems(s \o u) \subseteq Elems(s) \cup Elems(u)
  BY DEF Elems
<1>2. ASSUME NEW i \in 1 .. Len(s)
      PROVE  s[i] \in Elems(s \o u)
  BY (s \o u)[i] = s[i] DEF Elems
<1>3. ASSUME NEW i \in 1 .. Len(u)
      PROVE  u[i] \in Elems(s \o u)
  <2>1. Len(s) + i \in 1 .. Len(s \o u) /\ (s \o u)[Len(s) + i] = u[i]
    OBVIOUS
  <2> QED
    BY <2>1 DEF Elems
<1> QED
  BY <1>1, <1>2, <1>3 DEF Elems

\* Sequences that are well placed, one in front of the other, are well placed.
LEMMA FitConcat ==
    ASSUME NEW s, NEW u, NEW E, Fit(u, E), Fit(s, Elems(u) \cup E)
    PROVE  Fit(s \o u, E) /\ Elems(s \o u) = Elems(s) \cup Elems(u)
<1>1. s \in Seq(Msgs) /\ u \in Seq(Msgs) /\ s \o u \in Seq(Msgs)
  BY ConcatProperties DEF Fit
<1>2. ASSUME NEW i \in 1 .. Len(s \o u)
      PROVE  Fits((s \o u)[i], After(s \o u, i) \cup E)
  <2>1. CASE i \in 1 .. Len(s)
    <3>1. (s \o u)[i] = s[i]
      BY <1>1, <2>1, ConcatProperties
    <3>2. After(s \o u, i) = After(s, i) \cup Elems(u)
      <4>1. \A k \in i + 1 .. Len(s \o u) :
               (s \o u)[k] = IF k <= Len(s) THEN s[k] ELSE u[k - Len(s)]
        BY <1>1, <2>1, ConcatProperties
      <4>2. After(s \o u, i) \subseteq After(s, i) \cup Elems(u)
        BY <1>1, <2>1, <4>1, ConcatProperties DEF After, Elems
      <4>3. After(s, i) \subseteq After(s \o u, i)
        BY <1>1, <2>1, <4>1, ConcatProperties DEF After
      <4>4. ASSUME NEW k \in 1 .. Len(u)
            PROVE  u[k] \in After(s \o u, i)
        <5>1. Len(s) + k \in i + 1 .. Len(s \o u) /\ (s \o u)[Len(s) + k] = u[k]
          BY <1>1, <2>1, <4>1, ConcatProperties
        <5> QED
          BY <5>1 DEF After
      <4> QED
        BY <4>2, <4>3, <4>4 DEF Elems
    <3>3. After(s \o u, i) \cup E = After(s, i) \cup (Elems(u) \cup E)
      BY <3>2
    <3> QED
      BY <2>1, <3>1, <3>3 DEF Fit
  <2>2. CASE i \notin 1 .. Len(s)
    <3> DEFINE j == i - Len(s)
    <3>1. j \in 1 .. Len(u) /\ (s \o u)[i] = u[j]
      BY <1>1, <2>2, ConcatProperties
    <3>2. After(s \o u, i) = After(u, j)
      <4>1. \A k \in i + 1 .. Len(s \o u) :
               k - Len(s) \in j + 1 .. Len(u) /\ (s \o u)[k] = u[k - Len(s)]
        BY <1>1, <2>2, ConcatProperties
      <4>2. \A k \in j + 1 .. Len(u) :
               k + Len(s) \in i + 1 .. Len(s \o u) /\ (s \o u)[k + Len(s)] = u[k]
        BY <1>1, <2>2, <3>1, ConcatProperties
      <4> QED
        BY <4>1, <4>2 DEF After
    <3> QED
      BY <3>1, <3>2 DEF Fit
  <2> QED
    BY <2>1, <2>2
<1> QED
  BY <1>1, <1>2, ElemsOfConcat DEF Fit

-----------------------------------------------------------------------------
(* The handlers are well placed.  First short sequences, message by message. *)

LEMMA Fit1 ==
    ASSUME NEW a \in Msgs, NEW E,
           Fits(a, E)
    PROVE  Fit(<<a>>, E) /\ Elems(<<a>>) = {a}
<1> DEFINE s == <<a>>
<1>1. /\ After(s, 1) = {}
  BY DEF After
<1>2. {} \cup E = E
  OBVIOUS
<1> QED
  BY <1>1, <1>2 DEF Fit, Elems

LEMMA Fit2 ==
    ASSUME NEW a \in Msgs, NEW b \in Msgs, NEW E,
           Fits(a, {b} \cup E),
           Fits(b, E)
    PROVE  Fit(<<a, b>>, E) /\ Elems(<<a, b>>) = {a, b}
<1> DEFINE s == <<a, b>>
<1>1. /\ After(s, 1) = {b}
      /\ After(s, 2) = {}
  BY DEF After
<1>2. {} \cup E = E
  OBVIOUS
<1> QED
  BY <1>1, <1>2 DEF Fit, Elems

LEMMA Fit3 ==
    ASSUME NEW a \in Msgs, NEW b \in Msgs, NEW c \in Msgs, NEW E,
           Fits(a, {b, c} \cup E),
           Fits(b, {c} \cup E),
           Fits(c, E)
    PROVE  Fit(<<a, b, c>>, E) /\ Elems(<<a, b, c>>) = {a, b, c}
<1> DEFINE s == <<a, b, c>>
<1>1. /\ After(s, 1) = {b, c}
      /\ After(s, 2) = {c}
      /\ After(s, 3) = {}
  BY DEF After
<1>2. {} \cup E = E
  OBVIOUS
<1> QED
  BY <1>1, <1>2 DEF Fit, Elems

LEMMA Fit4 ==
    ASSUME NEW a \in Msgs, NEW b \in Msgs, NEW c \in Msgs, NEW d \in Msgs, NEW E,
           Fits(a, {b, c, d} \cup E),
           Fits(b, {c, d} \cup E),
           Fits(c, {d} \cup E),
           Fits(d, E)
    PROVE  Fit(<<a, b, c, d>>, E) /\ Elems(<<a, b, c, d>>) = {a, b, c, d}
<1> DEFINE s == <<a, b, c, d>>
<1>1. /\ After(s, 1) = {b, c, d}
      /\ After(s, 2) = {c, d}
      /\ After(s, 3) = {d}
      /\ After(s, 4) = {}
  BY DEF After
<1>2. {} \cup E = E
  OBVIOUS
<1> QED
  BY <1>1, <1>2 DEF Fit, Elems

LEMMA Fit5 ==
    ASSUME NEW s \in Seq(Msgs), Len(s) = 5, NEW E,
           Fits(s[1], {s[2], s[3], s[4], s[5]} \cup E),
           Fits(s[2], {s[3], s[4], s[5]} \cup E),
           Fits(s[3], {s[4], s[5]} \cup E),
           Fits(s[4], {s[5]} \cup E),
           Fits(s[5], E)
    PROVE  Fit(s, E) /\ Elems(s) = {s[1], s[2], s[3], s[4], s[5]}
<1>1. After(s, 1) = {s[2], s[3], s[4], s[5]}
  BY DEF After
<1>2. After(s, 2) = {s[3], s[4], s[5]}
  BY DEF After
<1>3. After(s, 3) = {s[4], s[5]}
  BY DEF After
<1>4. After(s, 4) = {s[5]} /\ After(s, 5) \cup E = E
  BY DEF After
<1>5. Elems(s) = {s[1], s[2], s[3], s[4], s[5]}
  BY DEF Elems
<1>6. ASSUME NEW i \in 1 .. Len(s)
      PROVE  Fits(s[i], After(s, i) \cup E)
  <2>1. i = 1 \/ i = 2 \/ i = 3 \/ i = 4 \/ i = 5
    OBVIOUS
  <2> QED
    BY <1>1, <1>2, <1>3, <1>4, <2>1
<1> QED
  BY <1>5, <1>6 DEF Fit

\* What makes a message well placed, one kind of message at a time.
LEMMA SaveFits ==
    ASSUME NEW r \in Regs, NEW E, r \in HeldIn(E), Plain(E),
           r # "ACC" => "ACC" \in HeldIn(E), r = "MEMCTR" => Asks(E)
    PROVE  Save(r) \in Msgs /\ Fits(Save(r), E)
  BY DEF Msgs, Fits, Save

LEMMA TellFits ==
    ASSUME NEW r \in Told, NEW E, "ACC" \in HeldIn(E), r \notin HeldIn(E), Plain(E)
    PROVE  Tell(r) \in Msgs /\ Fits(Tell(r), E)
  BY DEF Msgs, Fits, Tell

LEMMA RestoreFits ==
    ASSUME NEW r \in Regs, NEW E, Plain(E), Restore(r) \notin E, Save(r) \notin E
    PROVE  Restore(r) \in Msgs /\ Fits(Restore(r), E)
  BY DEF Msgs, Fits, Restore

LEMMA SetFits ==
    ASSUME NEW r \in Told, NEW E, HeldIn(E) = {}, Plain(E)
    PROVE  Set(r) \in Msgs /\ Fits(Set(r), E)
  BY DEF Msgs, Fits, Set

LEMMA UseFits ==
    ASSUME NEW S \in SUBSET Regs, NEW E, S \subseteq HeldIn(E), Plain(E)
    PROVE  Use(S) \in Msgs /\ Fits(Use(S), E)
  BY DEF Msgs, Fits, Use

\* What an instruction overwrites is no matter of what is held.
LEMMA UseAdds ==
    ASSUME NEW S, NEW E
    PROVE  HeldIn({Use(S)} \cup E) = HeldIn(E) /\ (Plain({Use(S)} \cup E) <=> Plain(E))
  BY DEF HeldIn, Plain, In, Use, Save, Restore

\* These may be anywhere.
LEMMA OpFits ==
    ASSUME NEW o \in {"status", "step", "setpc", "par", "alloc", "program"}, NEW E
    PROVE  Op(o) \in Msgs /\ Fits(Op(o), E)
  BY DEF Msgs, Simple, Fits, Op

\* What is put around the messages of a handler that halts the CPU for a moment.
LEMMA PausedFits ==
    ASSUME NEW body, NEW E,
           Fit(body, {Op("resume_if")} \cup E),
           Plain(Elems(body) \cup E), ~In("status", Elems(body) \cup E),
           ~In("resume_if", E), HeldIn(E) = {} \/ "MEMCTR" \in HeldIn(E)
    PROVE  /\ Fit(Paused(body), E)
           /\ Elems(Paused(body)) =
                 {Op("status"), Op("halt_if"), Op("resume_if")} \cup Elems(body)
<1> DEFINE B == Elems(body)
           R == {Op("resume_if")}
           head == <<Op("status"), Op("halt_if")>>
<1>1. Op("status") \in Msgs /\ Op("halt_if") \in Msgs /\ Op("resume_if") \in Msgs
  BY DEF Msgs, Simple
<1>2. Fits(Op("resume_if"), E)
  BY DEF Fits, Plain, In, Op
<1>3. Fits(Op("halt_if"), B \cup (R \cup E))
  <2>1. Op("resume_if") \in B \cup (R \cup E) /\ Op("resume_if")[1] = "resume_if"
    BY DEF Op
  <2>3. In("resume_if", B \cup (R \cup E))
    BY <2>1 DEF In
  <2>2. ~In("status", B \cup (R \cup E)) /\ Plain(B \cup (R \cup E))
    BY DEF In, Op, Plain
  <2> QED
    BY <2>2, <2>3 DEF Fits, Op
<1>4. Fit(<<Op("resume_if")>>, E) /\ Elems(<<Op("resume_if")>>) = R
  BY <1>1, <1>2, Fit1
<1>5. Fit(head, B \cup (R \cup E)) /\ Elems(head) = {Op("status"), Op("halt_if")}
  BY <1>1, <1>3, OpFits, Fit2
<1>6. Fit(head \o body, R \cup E) /\ Elems(head \o body) = Elems(head) \cup B
  BY <1>5, FitConcat
<1>7. /\ Fit((head \o body) \o <<Op("resume_if")>>, E)
      /\ Elems((head \o body) \o <<Op("resume_if")>>) = (Elems(head) \cup B) \cup R
  BY <1>4, <1>6, FitConcat
<1> QED
  BY <1>5, <1>7 DEF Paused

-----------------------------------------------------------------------------
(* Handler by handler.                                                      *)

Ordered(h) == Fit(h, {}) /\ Starts(Elems(h)) /\ (In("free", Elems(h)) => h = Flash)

LEMMA StartsIf ==
    ASSUME NEW E, HeldIn(E) = {}, ~In("free", E), Op("status") \in E \/ ~In("resume_if", E)
    PROVE  Starts(E)
<1>1. Op("status") \in E => In("status", E)
  <2>1. Op("status")[1] = "status"
    BY DEF Op
  <2> QED
    BY <2>1 DEF In
<1> QED
  BY <1>1 DEF Starts, Asks

LEMMA GetPCFits ==
    Ordered(GetPC) /\ Elems(GetPC) = {Save("ACC"), Tell("FMAP"), Restore("ACC")}
<1>1. /\ Fit(<<Save("ACC"), Tell("FMAP"), Restore("ACC")>>, {})
      /\ Elems(<<Save("ACC"), Tell("FMAP"), Restore("ACC")>>) =
           {Save("ACC"), Tell("FMAP"), Restore("ACC")}
  <2>1. Save("ACC") \in Msgs /\ Fits(Save("ACC"), {Tell("FMAP"), Restore("ACC")} \cup {})
    BY DEF Fits, Msgs, Simple, HeldIn, Plain, Asks, In, Regs, Told, Pages, Save, Tell,
       Restore, Set, Use, Op
  <2>2. Tell("FMAP") \in Msgs /\ Fits(Tell("FMAP"), {Restore("ACC")} \cup {})
    BY DEF Fits, Msgs, Simple, HeldIn, Plain, Asks, In, Regs, Told, Pages, Save, Tell,
       Restore, Set, Use, Op
  <2>3. Restore("ACC") \in Msgs /\ Fits(Restore("ACC"), {})
    BY DEF Fits, Msgs, Simple, HeldIn, Plain, Asks, In, Regs, Told, Pages, Save, Tell,
       Restore, Set, Use, Op
  <2> QED
    BY <2>1, <2>2, <2>3, Fit3
<1> QED
  BY <1>1 DEF GetPC, Ordered, Starts, HeldIn, Asks, In, Save, Tell, Restore, Set, Use, Op,
     Regs, Told

\* One message in front of a handler.
LEMMA PrefixFits ==
    ASSUME NEW m \in Msgs, NEW h, Fit(h, {}), Fits(m, Elems(h))
    PROVE  Fit(<<m>> \o h, {}) /\ Elems(<<m>> \o h) = {m} \cup Elems(h)
<1>1. Elems(h) \cup {} = Elems(h)
  OBVIOUS
<1>2. Fit(<<m>>, Elems(h) \cup {}) /\ Elems(<<m>>) = {m}
  BY <1>1, Fit1
<1> QED
  BY <1>2, FitConcat

LEMMA HaltGetPCFits == Ordered(<<Op("halt")>> \o GetPC)
<1>1. Op("halt") \in Msgs /\ Fits(Op("halt"), Elems(GetPC))
  BY GetPCFits DEF Fits, Msgs, Simple, HeldIn, Plain, Asks, In, Regs, Told, Pages, Save,
     Tell, Restore, Set, Use, Op
<1>2. /\ Fit(<<Op("halt")>> \o GetPC, {})
      /\ Elems(<<Op("halt")>> \o GetPC) = {Op("halt")} \cup Elems(GetPC)
  BY <1>1, GetPCFits, PrefixFits DEF Ordered
<1> QED
  BY <1>2, GetPCFits DEF Ordered, Starts, HeldIn, Asks, In, Save, Tell, Restore, Set, Use,
     Op, Regs, Told

LEMMA SetPCFits == Ordered(SetPC)
<1> DEFINE body == <<Set("FMAP"), Op("setpc")>>
<1>1. /\ Fit(<<Set("FMAP"), Op("setpc")>>, {Op("resume_if")})
      /\ Elems(<<Set("FMAP"), Op("setpc")>>) = {Set("FMAP"), Op("setpc")}
  <2>1. Set("FMAP") \in Msgs /\ Fits(Set("FMAP"), {Op("setpc")} \cup {Op("resume_if")})
    BY DEF Fits, Msgs, Simple, HeldIn, Plain, Asks, In, Regs, Told, Pages, Save, Tell,
       Restore, Set, Use, Op
  <2>2. Op("setpc") \in Msgs /\ Fits(Op("setpc"), {Op("resume_if")})
    BY DEF Fits, Msgs, Simple, HeldIn, Plain, Asks, In, Regs, Told, Pages, Save, Tell,
       Restore, Set, Use, Op
  <2> QED
    BY <2>1, <2>2, Fit2
<1>2. /\ Plain(Elems(body)) /\ ~In("status", Elems(body))
      /\ ~In("resume_if", {}) /\ HeldIn({}) = {}
  BY <1>1 DEF Plain, In, HeldIn, Save, Tell, Restore, Set, Op
<1>3. Elems(body) \cup {} = Elems(body) /\ {Op("resume_if")} \cup {} = {Op("resume_if")}
  OBVIOUS
<1> HIDE DEF body
<1>4. /\ Fit(Paused(body), {})
      /\ Elems(Paused(body)) = {Op("status"), Op("halt_if"), Op("resume_if")} \cup Elems(body)
  BY <1>1, <1>2, <1>3, PausedFits DEF body
<1>5. Op("par") \in Msgs /\ Fits(Op("par"), Elems(Paused(body)))
  BY OpFits
<1>6. /\ Fit(<<Op("par")>> \o Paused(body), {})
      /\ Elems(<<Op("par")>> \o Paused(body)) = {Op("par")} \cup Elems(Paused(body))
  BY <1>4, <1>5, PrefixFits
<1> DEFINE F == {Op("par")} \cup Elems(Paused(body))
<1>7. HeldIn(F) = {} /\ ~In("free", F)
  BY <1>1, <1>4 DEF body, Ordered, Starts, HeldIn, Asks, In, Save, Tell, Restore, Set, Use,
     Op, Regs, Told
<1> QED
  BY <1>4, <1>6, <1>7, StartsIf DEF SetPC, body, Ordered

LEMMA SetPCLowFits == Ordered(SetPCLow)
<1> DEFINE body == <<Op("setpc")>>
<1>1. Fit(<<Op("setpc")>>, {Op("resume_if")}) /\ Elems(<<Op("setpc")>>) = {Op("setpc")}
  <2>1. Op("setpc") \in Msgs /\ Fits(Op("setpc"), {Op("resume_if")})
    BY DEF Fits, Msgs, Simple, HeldIn, Plain, Asks, In, Regs, Told, Pages, Save, Tell,
       Restore, Set, Use, Op
  <2> QED
    BY <2>1, Fit1
<1>2. /\ Plain(Elems(body)) /\ ~In("status", Elems(body))
      /\ ~In("resume_if", {}) /\ HeldIn({}) = {}
  BY <1>1 DEF Plain, In, HeldIn, Save, Tell, Restore, Set, Op
<1>3. Elems(body) \cup {} = Elems(body) /\ {Op("resume_if")} \cup {} = {Op("resume_if")}
  OBVIOUS
<1> HIDE DEF body
<1>4. /\ Fit(Paused(body), {})
      /\ Elems(Paused(body)) = {Op("status"), Op("halt_if"), Op("resume_if")} \cup Elems(body)
  BY <1>1, <1>2, <1>3, PausedFits DEF body
<1>5. Op("par") \in Msgs /\ Fits(Op("par"), Elems(Paused(body)))
  BY OpFits
<1>6. /\ Fit(<<Op("par")>> \o Paused(body), {})
      /\ Elems(<<Op("par")>> \o Paused(body)) = {Op("par")} \cup Elems(Paused(body))
  BY <1>4, <1>5, PrefixFits
<1> DEFINE F == {Op("par")} \cup Elems(Paused(body))
<1>7. HeldIn(F) = {} /\ ~In("free", F)
  BY <1>1, <1>4 DEF body, Ordered, Starts, HeldIn, Asks, In, Save, Tell, Restore, Set, Use,
     Op, Regs, Told
<1> QED
  BY <1>4, <1>6, <1>7, StartsIf DEF SetPCLow, body, Ordered

LEMMA GetSfrFits == Ordered(GetSfr)
<1> DEFINE body == <<Save("ACC"), Op("par"), Tell("ANY"), Restore("ACC")>>
<1>1. /\ Fit(<<Save("ACC"), Op("par"), Tell("ANY"), Restore("ACC")>>, {Op("resume_if")})
      /\ Elems(<<Save("ACC"), Op("par"), Tell("ANY"), Restore("ACC")>>) =
           {Save("ACC"), Op("par"), Tell("ANY"), Restore("ACC")}
  <2>1. /\ Save("ACC") \in Msgs
        /\ Fits(Save("ACC"), {Op("par"), Tell("ANY"), Restore("ACC")} \cup {Op("resume_if")})
    BY DEF Fits, Msgs, Simple, HeldIn, Plain, Asks, In, Regs, Told, Pages, Save, Tell,
       Restore, Set, Use, Op
  <2>2. Op("par") \in Msgs /\ Fits(Op("par"), {Tell("ANY"), Restore("ACC")} \cup {Op("resume_if")})
    BY DEF Fits, Msgs, Simple, HeldIn, Plain, Asks, In, Regs, Told, Pages, Save, Tell,
       Restore, Set, Use, Op
  <2>3. Tell("ANY") \in Msgs /\ Fits(Tell("ANY"), {Restore("ACC")} \cup {Op("resume_if")})
    BY DEF Fits, Msgs, Simple, HeldIn, Plain, Asks, In, Regs, Told, Pages, Save, Tell,
       Restore, Set, Use, Op
  <2>4. Restore("ACC") \in Msgs /\ Fits(Restore("ACC"), {Op("resume_if")})
    BY DEF Fits, Msgs, Simple, HeldIn, Plain, Asks, In, Regs, Told, Pages, Save, Tell,
       Restore, Set, Use, Op
  <2> QED
    BY <2>1, <2>2, <2>3, <2>4, Fit4
<1>2. /\ Plain(Elems(body)) /\ ~In("status", Elems(body))
      /\ ~In("resume_if", {}) /\ HeldIn({}) = {}
  BY <1>1 DEF Plain, In, HeldIn, Save, Tell, Restore, Set, Op
<1>3. Elems(body) \cup {} = Elems(body) /\ {Op("resume_if")} \cup {} = {Op("resume_if")}
  OBVIOUS
<1> HIDE DEF body
<1>4. /\ Fit(Paused(body), {})
      /\ Elems(Paused(body)) = {Op("status"), Op("halt_if"), Op("resume_if")} \cup Elems(body)
  BY <1>1, <1>2, <1>3, PausedFits DEF body
<1>5. HeldIn(Elems(Paused(body))) = {} /\ ~In("free", Elems(Paused(body)))
  BY <1>1, <1>4 DEF body, Ordered, Starts, HeldIn, Asks, In, Save, Tell, Restore, Set, Use,
     Op, Regs, Told
<1> QED
  BY <1>4, <1>5, StartsIf DEF GetSfr, body, Ordered

LEMMA SetSfrFits ==
    ASSUME NEW r \in Regs
    PROVE  Ordered(SetSfr(r))
<1> DEFINE body == <<Op("par"), Set(r)>>
<1>1. /\ Fit(<<Op("par"), Set(r)>>, {Op("resume_if")})
      /\ Elems(<<Op("par"), Set(r)>>) = {Op("par"), Set(r)}
  <2>1. Op("par") \in Msgs /\ Fits(Op("par"), {Set(r)} \cup {Op("resume_if")})
    BY DEF Fits, Msgs, Simple, HeldIn, Plain, Asks, In, Regs, Told, Pages, Save, Tell,
       Restore, Set, Use, Op
  <2>2. Set(r) \in Msgs /\ Fits(Set(r), {Op("resume_if")})
    BY DEF Fits, Msgs, Simple, HeldIn, Plain, Asks, In, Regs, Told, Pages, Save, Tell,
       Restore, Set, Use, Op
  <2> QED
    BY <2>1, <2>2, Fit2
<1>2. /\ Plain(Elems(body)) /\ ~In("status", Elems(body))
      /\ ~In("resume_if", {}) /\ HeldIn({}) = {}
  BY <1>1 DEF Plain, In, HeldIn, Save, Tell, Restore, Set, Op
<1>3. Elems(body) \cup {} = Elems(body) /\ {Op("resume_if")} \cup {} = {Op("resume_if")}
  OBVIOUS
<1> HIDE DEF body
<1>4. /\ Fit(Paused(body), {})
      /\ Elems(Paused(body)) = {Op("status"), Op("halt_if"), Op("resume_if")} \cup Elems(body)
  BY <1>1, <1>2, <1>3, PausedFits DEF body
<1>5. HeldIn(Elems(Paused(body))) = {} /\ ~In("free", Elems(Paused(body)))
  BY <1>1, <1>4 DEF body, Ordered, Starts, HeldIn, Asks, In, Save, Tell, Restore, Set, Use,
     Op, Regs, Told
<1> QED
  BY <1>4, <1>5, StartsIf DEF SetSfr, body, Ordered

LEMMA Concat7 ==
    ASSUME NEW S, NEW a \in S, NEW b \in S, NEW c \in S, NEW d \in S, NEW e \in S,
           NEW f \in S, NEW g \in S
    PROVE  <<a, b, c, d>> \o <<e, f, g>> = <<a, b, c, d, e, f, g>>
<1> DEFINE s == <<a, b, c, d>>
           u == <<e, f, g>>
           w == <<a, b, c, d, e, f, g>>
<1>1. /\ s \in Seq(S) /\ u \in Seq(S) /\ w \in Seq(S)
      /\ Len(s) = 4 /\ Len(u) = 3 /\ Len(w) = 7
  OBVIOUS
<1>2. s \o u \in Seq(S) /\ Len(s \o u) = 7
  BY <1>1, ConcatProperties
<1>3. \A i \in 1 .. 4 : (s \o u)[i] = w[i]
  <2>1. \A i \in 1 .. 4 : (s \o u)[i] = s[i]
    BY <1>1, ConcatProperties
  <2> QED
    BY <2>1
<1>4. ASSUME NEW i \in 5 .. 7
      PROVE  (s \o u)[i] = w[i]
  <2>1. (s \o u)[i] = u[i - 4]
    BY <1>1, ConcatProperties
  <2>2. CASE i = 5
    BY <2>1, <2>2
  <2>3. CASE i = 6
    BY <2>1, <2>3
  <2>4. CASE i = 7
    BY <2>1, <2>4
  <2> QED
    BY <2>2, <2>3, <2>4
<1> HIDE DEF s, u, w
<1>5. ASSUME NEW i \in 1 .. 7
      PROVE  (s \o u)[i] = w[i]
  <2>1. i \in 1 .. 4 \/ i \in 5 .. 7
    OBVIOUS
  <2> QED
    BY <2>1, <1>3, <1>4
<1>6. s \o u = w
  BY <1>1, <1>2, <1>5, SeqEqual
<1> QED
  BY <1>6 DEF s, u, w

LEMMA ReadRegsFits == Ordered(ReadRegs) /\ ~In("free", Elems(ReadRegs))
<1> DEFINE s == <<Save("ACC"), Tell("FMAP"), Tell("PSW"), Tell("DPL")>>
           u == <<Tell("DPH"), Tell("REST"), Restore("ACC")>>
           U == {Tell("DPH"), Tell("REST"), Restore("ACC")}
           body == s \o u
           F == U \cup {Op("resume_if")}
<1>1. /\ Fit(<<Tell("DPH"), Tell("REST"), Restore("ACC")>>, {Op("resume_if")})
      /\ Elems(<<Tell("DPH"), Tell("REST"), Restore("ACC")>>) =
           {Tell("DPH"), Tell("REST"), Restore("ACC")}
  <2>1. /\ Tell("DPH") \in Msgs
        /\ Fits(Tell("DPH"), {Tell("REST"), Restore("ACC")} \cup {Op("resume_if")})
    BY DEF Fits, Msgs, Simple, HeldIn, Plain, Asks, In, Regs, Told, Pages, Save, Tell,
       Restore, Set, Use, Op
  <2>2. Tell("REST") \in Msgs /\ Fits(Tell("REST"), {Restore("ACC")} \cup {Op("resume_if")})
    BY DEF Fits, Msgs, Simple, HeldIn, Plain, Asks, In, Regs, Told, Pages, Save, Tell,
       Restore, Set, Use, Op
  <2>3. Restore("ACC") \in Msgs /\ Fits(Restore("ACC"), {Op("resume_if")})
    BY DEF Fits, Msgs, Simple, HeldIn, Plain, Asks, In, Regs, Told, Pages, Save, Tell,
       Restore, Set, Use, Op
  <2> QED
    BY <2>1, <2>2, <2>3, Fit3
<1>2. /\ Fit(<<Save("ACC"), Tell("FMAP"), Tell("PSW"), Tell("DPL")>>, F)
      /\ Elems(<<Save("ACC"), Tell("FMAP"), Tell("PSW"), Tell("DPL")>>) =
           {Save("ACC"), Tell("FMAP"), Tell("PSW"), Tell("DPL")}
  <2>1. Save("ACC") \in Msgs /\ Fits(Save("ACC"), {Tell("FMAP"), Tell("PSW"), Tell("DPL")} \cup F)
    BY DEF Fits, Msgs, Simple, HeldIn, Plain, Asks, In, Regs, Told, Pages, Save, Tell,
       Restore, Set, Use, Op
  <2>2. Tell("FMAP") \in Msgs /\ Fits(Tell("FMAP"), {Tell("PSW"), Tell("DPL")} \cup F)
    BY DEF Fits, Msgs, Simple, HeldIn, Plain, Asks, In, Regs, Told, Pages, Save, Tell,
       Restore, Set, Use, Op
  <2>3. Tell("PSW") \in Msgs /\ Fits(Tell("PSW"), {Tell("DPL")} \cup F)
    BY DEF Fits, Msgs, Simple, HeldIn, Plain, Asks, In, Regs, Told, Pages, Save, Tell,
       Restore, Set, Use, Op
  <2>4. Tell("DPL") \in Msgs /\ Fits(Tell("DPL"), F)
    BY DEF Fits, Msgs, Simple, HeldIn, Plain, Asks, In, Regs, Told, Pages, Save, Tell,
       Restore, Set, Use, Op
  <2> QED
    BY <2>1, <2>2, <2>3, <2>4, Fit4
<1>3. Fit(u, {Op("resume_if")}) /\ Elems(u) = U
  BY <1>1
<1>4. Fit(s, F) /\ Elems(s) = {Save("ACC"), Tell("FMAP"), Tell("PSW"), Tell("DPL")}
  BY <1>2
<1>5. body = <<Save("ACC"), Tell("FMAP"), Tell("PSW"), Tell("DPL"), Tell("DPH"),
               Tell("REST"), Restore("ACC")>>
  <2>1. /\ Save("ACC") \in Msgs /\ Tell("FMAP") \in Msgs /\ Tell("PSW") \in Msgs
        /\ Tell("DPL") \in Msgs /\ Tell("DPH") \in Msgs /\ Tell("REST") \in Msgs
        /\ Restore("ACC") \in Msgs
    BY DEF Msgs, Regs, Told
  <2> QED
    BY <2>1, Concat7
<1> HIDE DEF s, u, body
<1>6. Fit(body, {Op("resume_if")}) /\ Elems(body) = Elems(s) \cup U
  BY <1>3, <1>4, FitConcat DEF body
<1>7. /\ Plain(Elems(body)) /\ ~In("status", Elems(body))
      /\ ~In("resume_if", {}) /\ HeldIn({}) = {}
  BY <1>4, <1>6 DEF Plain, In, HeldIn, Save, Tell, Restore, Set, Op
<1>8. Elems(body) \cup {} = Elems(body) /\ {Op("resume_if")} \cup {} = {Op("resume_if")}
  OBVIOUS
<1>9. /\ Fit(Paused(body), {})
      /\ Elems(Paused(body)) = {Op("status"), Op("halt_if"), Op("resume_if")} \cup Elems(body)
  BY <1>6, <1>7, <1>8, PausedFits
<1>10. Elems(Paused(body)) =
          {Op("status"), Op("halt_if"), Op("resume_if"), Save("ACC"), Tell("FMAP"),
           Tell("PSW"), Tell("DPL"), Tell("DPH"), Tell("REST"), Restore("ACC")}
  BY <1>4, <1>6, <1>9
<1>11. HeldIn(Elems(Paused(body))) = {}
  BY <1>10 DEF HeldIn, Save, Tell, Restore, Op
<1>12. ~In("free", Elems(Paused(body)))
  BY <1>10 DEF In, Save, Tell, Restore, Op
<1> QED
  BY <1>5, <1>9, <1>10, <1>11, <1>12, StartsIf DEF ReadRegs, Ordered

LEMMA DataReadFits ==
    /\ Ordered(DataRead)
    /\ Elems(DataRead) = {Save("ACC"), Save("DPL"), Save("DPH"), Use({"DPL", "DPH"}), Use({"ACC"}),
                         Restore("DPL"), Restore("DPH"), Restore("ACC")}
<1> DEFINE A == <<Save("ACC"), Save("DPL"), Save("DPH")>>
           B == <<Restore("DPL"), Restore("DPH"), Restore("ACC")>>
           EA == {Save("ACC"), Save("DPL"), Save("DPH")}
           EX == {Use({"DPL", "DPH"}), Use({"ACC"})}
           EB == {Restore("DPL"), Restore("DPH"), Restore("ACC")}
           F == EX \cup EB
<1>1. /\ Fit(<<Restore("DPL"), Restore("DPH"), Restore("ACC")>>, {})
      /\ Elems(<<Restore("DPL"), Restore("DPH"), Restore("ACC")>>) =
           {Restore("DPL"), Restore("DPH"), Restore("ACC")}
  <2>1. Restore("DPL") \in Msgs /\ Fits(Restore("DPL"), {Restore("DPH"), Restore("ACC")} \cup {})
    BY DEF Fits, Msgs, Simple, HeldIn, Plain, Asks, In, Regs, Told, Pages, Save, Tell,
       Restore, Set, Use, Op
  <2>2. Restore("DPH") \in Msgs /\ Fits(Restore("DPH"), {Restore("ACC")} \cup {})
    BY DEF Fits, Msgs, Simple, HeldIn, Plain, Asks, In, Regs, Told, Pages, Save, Tell,
       Restore, Set, Use, Op
  <2>3. Restore("ACC") \in Msgs /\ Fits(Restore("ACC"), {})
    BY DEF Fits, Msgs, Simple, HeldIn, Plain, Asks, In, Regs, Told, Pages, Save, Tell,
       Restore, Set, Use, Op
  <2> QED
    BY <2>1, <2>2, <2>3, Fit3
<1>2. /\ Fit(<<Use({"DPL", "DPH"}), Use({"ACC"}), Use({"DPL", "DPH"})>>, EB)
      /\ Elems(<<Use({"DPL", "DPH"}), Use({"ACC"}), Use({"DPL", "DPH"})>>) =
           {Use({"DPL", "DPH"}), Use({"ACC"}), Use({"DPL", "DPH"})}
  <2>1. {"DPL", "DPH"} \subseteq HeldIn(EB) /\ {"ACC"} \subseteq HeldIn(EB) /\ Plain(EB)
    BY DEF HeldIn, Plain, In, Regs, Save, Restore, Op
  <2>2. /\ Use({"DPL", "DPH"}) \in Msgs
        /\ Fits(Use({"DPL", "DPH"}), {Use({"ACC"}), Use({"DPL", "DPH"})} \cup EB)
    BY <2>1, UseFits, UseAdds,
       {Use({"ACC"}), Use({"DPL", "DPH"})} \cup EB
            = {Use({"ACC"})} \cup ({Use({"DPL", "DPH"})} \cup EB)
       DEF Regs
  <2>3. Use({"ACC"}) \in Msgs /\ Fits(Use({"ACC"}), {Use({"DPL", "DPH"})} \cup EB)
    BY <2>1, UseFits, UseAdds DEF Regs
  <2>4. Use({"DPL", "DPH"}) \in Msgs /\ Fits(Use({"DPL", "DPH"}), EB)
    BY <2>1, UseFits, UseAdds DEF Regs
  <2> QED
    BY <2>2, <2>3, <2>4, Fit3
<1>3. /\ Fit(<<Save("ACC"), Save("DPL"), Save("DPH")>>, F)
      /\ Elems(<<Save("ACC"), Save("DPL"), Save("DPH")>>) =
           {Save("ACC"), Save("DPL"), Save("DPH")}
  <2>1. Save("ACC") \in Msgs /\ Fits(Save("ACC"), {Save("DPL"), Save("DPH")} \cup F)
    BY DEF Fits, Msgs, Simple, HeldIn, Plain, Asks, In, Regs, Told, Pages, Save, Tell,
       Restore, Set, Use, Op
  <2>2. Save("DPL") \in Msgs /\ Fits(Save("DPL"), {Save("DPH")} \cup F)
    BY DEF Fits, Msgs, Simple, HeldIn, Plain, Asks, In, Regs, Told, Pages, Save, Tell,
       Restore, Set, Use, Op
  <2>3. Save("DPH") \in Msgs /\ Fits(Save("DPH"), F)
    BY DEF Fits, Msgs, Simple, HeldIn, Plain, Asks, In, Regs, Told, Pages, Save, Tell,
       Restore, Set, Use, Op
  <2> QED
    BY <2>1, <2>2, <2>3, Fit3
<1>4. /\ Fit(B, {}) /\ Elems(B) = EB /\ Elems(B) \cup {} = EB
      /\ Fit(ReadXData, EB) /\ Elems(ReadXData) \cup EB = F /\ Elems(ReadXData) = EX
      /\ Fit(A, F) /\ Elems(A) = EA
  BY <1>1, <1>2, <1>3 DEF ReadXData
<1> HIDE DEF A, B
<1>5. Fit(A \o ReadXData, EB) /\ Elems(A \o ReadXData) = EA \cup EX
  <2> HIDE DEF EA, EX, EB, F
  <2> QED
    BY <1>4, FitConcat
<1>6. Fit((A \o ReadXData) \o B, {}) /\ Elems((A \o ReadXData) \o B) = (EA \cup EX) \cup EB
  <2> HIDE DEF EA, EX, EB, F
  <2>1. Fit(A \o ReadXData, Elems(B) \cup {})
    BY <1>4, <1>5
  <2>2. /\ Fit((A \o ReadXData) \o B, {})
        /\ Elems((A \o ReadXData) \o B) = Elems(A \o ReadXData) \cup Elems(B)
    BY <1>4, <2>1, FitConcat
  <2> QED
    BY <1>4, <1>5, <2>2
<1>7. (EA \cup EX) \cup EB = {Save("ACC"), Save("DPL"), Save("DPH"), Use({"DPL", "DPH"}),
                              Use({"ACC"}),
                              Restore("DPL"), Restore("DPH"), Restore("ACC")}
  OBVIOUS
<1>8. /\ HeldIn((EA \cup EX) \cup EB) = {}
      /\ ~In("free", (EA \cup EX) \cup EB) /\ ~In("resume_if", (EA \cup EX) \cup EB)
  BY DEF HeldIn, In, Save, Use, Restore, Regs
<1> QED
  BY <1>6, <1>7, <1>8, StartsIf DEF DataRead, A, B, Ordered

LEMMA CodeReadFits == Ordered(CodeRead)
<1> DEFINE A == <<Save("ACC"), Save("PSW"), Save("MEMCTR"), Save("DPL"), Save("DPH")>>
           B == <<Restore("MEMCTR"), Restore("DPL"), Restore("DPH"), Restore("PSW"),
                  Restore("ACC")>>
           EA == {Save("ACC"), Save("PSW"), Save("MEMCTR"), Save("DPL"), Save("DPH")}
           EX == {Use({"MEMCTR"}), Use({"DPL", "DPH"}), Use({"ACC", "DPL", "DPH"})}
           EP == {Op("status"), Op("halt_if"), Op("resume_if")} \cup EX
           EB == {Restore("MEMCTR"), Restore("DPL"), Restore("DPH"), Restore("PSW"), Restore("ACC")}
           G == {Op("resume_if")} \cup EB
           F == EP \cup EB
<1>1. /\ Fit(B, {})
      /\ Elems(B) =
           {Restore("MEMCTR"), Restore("DPL"), Restore("DPH"), Restore("PSW"),
            Restore("ACC")}
  <2>1. /\ Restore("MEMCTR") \in Msgs
        /\ Fits(Restore("MEMCTR"),
                {Restore("DPL"), Restore("DPH"), Restore("PSW"), Restore("ACC")} \cup {})
    BY DEF Fits, Msgs, Simple, HeldIn, Plain, Asks, In, Regs, Told, Pages, Save, Tell,
       Restore, Set, Use, Op
  <2>2. /\ Restore("DPL") \in Msgs
        /\ Fits(Restore("DPL"), {Restore("DPH"), Restore("PSW"), Restore("ACC")} \cup {})
    BY DEF Fits, Msgs, Simple, HeldIn, Plain, Asks, In, Regs, Told, Pages, Save, Tell,
       Restore, Set, Use, Op
  <2>3. Restore("DPH") \in Msgs /\ Fits(Restore("DPH"), {Restore("PSW"), Restore("ACC")} \cup {})
    BY DEF Fits, Msgs, Simple, HeldIn, Plain, Asks, In, Regs, Told, Pages, Save, Tell,
       Restore, Set, Use, Op
  <2>4. Restore("PSW") \in Msgs /\ Fits(Restore("PSW"), {Restore("ACC")} \cup {})
    BY DEF Fits, Msgs, Simple, HeldIn, Plain, Asks, In, Regs, Told, Pages, Save, Tell,
       Restore, Set, Use, Op
  <2>5. Restore("ACC") \in Msgs /\ Fits(Restore("ACC"), {})
    BY DEF Fits, Msgs, Simple, HeldIn, Plain, Asks, In, Regs, Told, Pages, Save, Tell,
       Restore, Set, Use, Op
  <2>6. /\ B \in Seq(Msgs) /\ Len(B) = 5
        /\ B[1] = Restore("MEMCTR") /\ B[2] = Restore("DPL") /\ B[3] = Restore("DPH")
        /\ B[4] = Restore("PSW") /\ B[5] = Restore("ACC")
    BY <2>1, <2>2, <2>3, <2>4, <2>5
  <2> HIDE DEF B
  <2> QED
    BY <2>1, <2>2, <2>3, <2>4, <2>5, <2>6, Fit5
<1>2. /\ Fit(<<Use({"MEMCTR"}), Use({"DPL", "DPH"}), Use({"ACC", "DPL", "DPH"})>>, G)
      /\ Elems(<<Use({"MEMCTR"}), Use({"DPL", "DPH"}), Use({"ACC", "DPL", "DPH"})>>) =
           {Use({"MEMCTR"}), Use({"DPL", "DPH"}), Use({"ACC", "DPL", "DPH"})}
  <2>1. /\ {"MEMCTR"} \subseteq HeldIn(G)
        /\ {"DPL", "DPH"} \subseteq HeldIn(G)
        /\ {"ACC", "DPL", "DPH"} \subseteq HeldIn(G)
        /\ Plain(G)
    BY DEF HeldIn, Plain, In, Regs, Save, Restore, Op
  <2>2. /\ Use({"MEMCTR"}) \in Msgs
        /\ Fits(Use({"MEMCTR"}), {Use({"DPL", "DPH"}), Use({"ACC", "DPL", "DPH"})} \cup G)
    BY <2>1, UseFits, UseAdds,
       {Use({"DPL", "DPH"}), Use({"ACC", "DPL", "DPH"})} \cup G
            = {Use({"DPL", "DPH"})} \cup ({Use({"ACC", "DPL", "DPH"})} \cup G)
       DEF Regs
  <2>3. /\ Use({"DPL", "DPH"}) \in Msgs
        /\ Fits(Use({"DPL", "DPH"}), {Use({"ACC", "DPL", "DPH"})} \cup G)
    BY <2>1, UseFits, UseAdds DEF Regs
  <2>4. Use({"ACC", "DPL", "DPH"}) \in Msgs /\ Fits(Use({"ACC", "DPL", "DPH"}), G)
    BY <2>1, UseFits, UseAdds DEF Regs
  <2> QED
    BY <2>2, <2>3, <2>4, Fit3
<1>3. Fit(A, F) /\ Elems(A) = {Save("ACC"), Save("PSW"), Save("MEMCTR"), Save("DPL"), Save("DPH")}
  <2>1. /\ Save("ACC") \in Msgs
        /\ Fits(Save("ACC"), {Save("PSW"), Save("MEMCTR"), Save("DPL"), Save("DPH")} \cup F)
    BY DEF Fits, Msgs, Simple, HeldIn, Plain, Asks, In, Regs, Told, Pages, Save, Tell,
       Restore, Set, Use, Op
  <2>2. Save("PSW") \in Msgs /\ Fits(Save("PSW"), {Save("MEMCTR"), Save("DPL"), Save("DPH")} \cup F)
    BY DEF Fits, Msgs, Simple, HeldIn, Plain, Asks, In, Regs, Told, Pages, Save, Tell,
       Restore, Set, Use, Op
  <2>3. Save("MEMCTR") \in Msgs /\ Fits(Save("MEMCTR"), {Save("DPL"), Save("DPH")} \cup F)
    BY DEF Fits, Msgs, Simple, HeldIn, Plain, Asks, In, Regs, Told, Pages, Save, Tell,
       Restore, Set, Use, Op
  <2>4. Save("DPL") \in Msgs /\ Fits(Save("DPL"), {Save("DPH")} \cup F)
    BY DEF Fits, Msgs, Simple, HeldIn, Plain, Asks, In, Regs, Told, Pages, Save, Tell,
       Restore, Set, Use, Op
  <2>5. Save("DPH") \in Msgs /\ Fits(Save("DPH"), F)
    BY DEF Fits, Msgs, Simple, HeldIn, Plain, Asks, In, Regs, Told, Pages, Save, Tell,
       Restore, Set, Use, Op
  <2>6. /\ A \in Seq(Msgs) /\ Len(A) = 5
        /\ A[1] = Save("ACC") /\ A[2] = Save("PSW") /\ A[3] = Save("MEMCTR")
        /\ A[4] = Save("DPL") /\ A[5] = Save("DPH")
    BY <2>1, <2>2, <2>3, <2>4, <2>5
  <2> HIDE DEF A
  <2> QED
    BY <2>1, <2>2, <2>3, <2>4, <2>5, <2>6, Fit5
<1>4. /\ Fit(B, {}) /\ Elems(B) = EB /\ Elems(B) \cup {} = EB
      /\ Fit(ReadCode, G) /\ Elems(ReadCode) = EX
      /\ Fit(A, F) /\ Elems(A) = EA
  BY <1>1, <1>2, <1>3 DEF ReadCode
<1> HIDE DEF A, B
<1>5. /\ Plain(EX \cup EB) /\ ~In("status", EX \cup EB) /\ ~In("resume_if", EB)
      /\ "MEMCTR" \in HeldIn(EB)
  BY DEF Plain, In, HeldIn, Use, Restore, Save, Regs
<1>6. Fit(Paused(ReadCode), EB) /\ Elems(Paused(ReadCode)) = EP
  BY <1>4, <1>5, PausedFits
<1>7. Fit(A \o Paused(ReadCode), EB) /\ Elems(A \o Paused(ReadCode)) = EA \cup EP
  <2>1. Fit(A, EP \cup EB)
    BY <1>4
  <2> HIDE DEF EA, EP, EB
  <2> QED
    BY <1>4, <1>6, <2>1, FitConcat
<1>8. /\ Fit((A \o Paused(ReadCode)) \o B, {})
      /\ Elems((A \o Paused(ReadCode)) \o B) = (EA \cup EP) \cup EB
  <2> HIDE DEF EA, EX, EP, EB
  <2>1. Fit(A \o Paused(ReadCode), Elems(B) \cup {})
    BY <1>4, <1>7
  <2>2. /\ Fit((A \o Paused(ReadCode)) \o B, {})
        /\ Elems((A \o Paused(ReadCode)) \o B) = Elems(A \o Paused(ReadCode)) \cup Elems(B)
    BY <1>4, <2>1, FitConcat
  <2> QED
    BY <1>4, <1>7, <2>2
<1>9. HeldIn((EA \cup EP) \cup EB) = {} /\ ~In("free", (EA \cup EP) \cup EB)
  BY DEF HeldIn, In, Save, Use, Restore, Op, Regs
<1> QED
  BY <1>8, <1>9, StartsIf DEF CodeRead, A, B, Ordered

LEMMA FlashFits == Ordered(Flash)
<1> DEFINE F(i) == After(Flash, i) \cup {}
<1>1. Flash \in Seq(Msgs) /\ Len(Flash) = 13
  <2>1. Flash \in Seq(Msgs)
    BY DEF Flash, Msgs, Simple, Op
  <2>2. Len(Flash) = 13
    BY DEF Flash
  <2> QED
    BY <2>1, <2>2
<1>2. /\ Flash[1] = <<"name">> /\ Flash[2] = <<"alloc">> /\ Flash[3] = <<"load">>
      /\ Flash[4] = <<"reset_on">> /\ Flash[5] = <<"debug">> /\ Flash[6] = <<"program">>
  BY DEF Flash, Op
<1>3. /\ Flash[7] = <<"page", 1>> /\ Flash[8] = <<"wait", 1>> /\ Flash[9] = <<"verify", 1>>
      /\ Flash[10] = <<"page", 2>> /\ Flash[11] = <<"wait", 2>> /\ Flash[12] = <<"free">>
      /\ Flash[13] = <<"answer", "ok">>
  BY DEF Flash, Op
<1> HIDE DEF F
<1>4. \A i \in 1 .. 13 : \A m \in F(i) : \E k \in 1 .. 13 : k > i /\ m = Flash[k]
  BY <1>1 DEF After, F
<1>5. \A k \in 1 .. 13 : \A i \in 1 .. 13 : k > i => Flash[k] \in F(i)
  BY <1>1 DEF After, F
<1>6. \A k \in 1 .. 13 : Flash[k][1] \notin {"save", "restore", "resume_if", "status"}
  BY <1>2, <1>3
<1>7. \A i \in 1 .. 13 : HeldIn(F(i)) = {} /\ ~In("resume_if", F(i))
  BY <1>4, <1>6 DEF HeldIn, In, Restore
<1>8. \A i \in 4 .. 13 : ~In("reset_on", F(i))
  BY <1>2, <1>3, <1>4 DEF In
<1>9. \A i \in 1 .. 11 : In("free", F(i))
  BY <1>3, <1>5 DEF In
<1>10. \A i \in 1 .. 12 : In("answer", F(i))
  BY <1>3, <1>5 DEF In
<1>11. In("reset_on", F(3)) /\ In("debug", F(4)) /\ ~In("free", F(12)) /\ F(13) = {}
  BY <1>2, <1>3, <1>4, <1>5 DEF In
<1>12. \A i \in 1 .. 13 : Fits(Flash[i], F(i))
  <2>1. Fits(Flash[1], F(1)) /\ Fits(Flash[2], F(2)) /\ Fits(Flash[6], F(6))
    BY <1>2, <1>9 DEF Fits
  <2>2. Fits(Flash[3], F(3))
    BY <1>2, <1>7, <1>11 DEF Fits
  <2>3. Fits(Flash[4], F(4)) /\ Fits(Flash[5], F(5))
    BY <1>2, <1>7, <1>8, <1>11 DEF Fits, Asks
  <2>4. Fits(Flash[7], F(7)) /\ Fits(Flash[9], F(9)) /\ Fits(Flash[10], F(10))
    BY <1>3, <1>7, <1>8, <1>9, <1>10 DEF Fits, Pages
  <2>5. Fits(Flash[8], F(8)) /\ Fits(Flash[11], F(11))
    BY <1>3 DEF Fits
  <2>6. Fits(Flash[12], F(12))
    BY <1>3, <1>7, <1>8, <1>10, <1>11 DEF Fits
  <2>7. Fits(Flash[13], F(13))
    BY <1>3, <1>11 DEF Fits
  <2> QED
    BY <2>1, <2>2, <2>3, <2>4, <2>5, <2>6, <2>7
<1>13. Fit(Flash, {})
  BY <1>1, <1>12 DEF Fit, F
<1>14. Starts(Elems(Flash))
  <2>1. Restore("ACC")[1] = "restore" /\ \A r \in Regs : Restore(r)[1] = "restore"
    BY DEF Restore
  <2>2. HeldIn(Elems(Flash)) = {} /\ ~In("resume_if", Elems(Flash))
    BY <1>1, <1>6, <2>1 DEF HeldIn, In, Elems
  <2>3. Flash[4] \in Elems(Flash) /\ Flash[4][1] = "reset_on"
    BY <1>1, <1>2 DEF Elems
  <2>4. In("reset_on", Elems(Flash))
    BY <2>3 DEF In
  <2> QED
    BY <2>2, <2>4 DEF Starts, Asks
<1> QED
  BY <1>13, <1>14 DEF Ordered

LEMMA FailedFlashFits ==
    /\ Fit(FailedFlash, {})
    /\ Elems(FailedFlash) = {Op("free"), <<"answer", "failed">>}
<1>1. /\ Op("free") \in Msgs /\ <<"answer", "failed">> \in Msgs
      /\ Fits(Op("free"), {<<"answer", "failed">>} \cup {})
      /\ Fits(<<"answer", "failed">>, {})
  BY DEF Fits, Msgs, Simple, HeldIn, In, Regs, Restore, Op
<1> QED
  BY <1>1, Fit2 DEF FailedFlash

LEMMA ResetFits ==
    /\ Ordered(<<Op("reset_on"), Op("reset_off"), Op("debug")>>)
    /\ Ordered(<<Op("debug"), Op("halt"), Op("setpc")>>)
<1> USE DEF Fits, Msgs, Simple, HeldIn, Plain, Asks, In, Regs, Restore, Op
<1>1. /\ Op("reset_on") \in Msgs /\ Fits(Op("reset_on"), {Op("reset_off"), Op("debug")} \cup {})
      /\ Op("reset_off") \in Msgs /\ Fits(Op("reset_off"), {Op("debug")} \cup {})
      /\ Op("debug") \in Msgs /\ Fits(Op("debug"), {})
  OBVIOUS
<1>2. /\ Fits(Op("debug"), {Op("halt"), Op("setpc")} \cup {})
      /\ Op("halt") \in Msgs /\ Fits(Op("halt"), {Op("setpc")} \cup {})
      /\ Op("setpc") \in Msgs /\ Fits(Op("setpc"), {})
  OBVIOUS
<1>3. /\ Starts({Op("reset_on"), Op("reset_off"), Op("debug")})
      /\ ~In("free", {Op("reset_on"), Op("reset_off"), Op("debug")})
  BY DEF Starts
<1>4. /\ Starts({Op("debug"), Op("halt"), Op("setpc")})
      /\ ~In("free", {Op("debug"), Op("halt"), Op("setpc")})
  BY DEF Starts
<1> HIDE DEF Fits, Msgs, Simple, HeldIn, Plain, Asks, In, Regs, Restore, Op
<1>5. Ordered(<<Op("reset_on"), Op("reset_off"), Op("debug")>>)
  BY <1>1, <1>3, Fit3 DEF Ordered
<1>6. Ordered(<<Op("debug"), Op("halt"), Op("setpc")>>)
  <2>1. /\ Fit(<<Op("debug"), Op("halt"), Op("setpc")>>, {})
        /\ Elems(<<Op("debug"), Op("halt"), Op("setpc")>>) = {Op("debug"), Op("halt"), Op("setpc")}
    BY <1>1, <1>2, Fit3
  <2> QED
    BY <1>4, <2>1 DEF Ordered
<1> QED
  BY <1>5, <1>6

LEMMA SingleFits ==
    ASSUME NEW o \in {"halt", "resume"}
    PROVE  Ordered(<<Op(o)>>)
<1>1. Op(o) \in Msgs /\ Fits(Op(o), {}) /\ Starts({Op(o)}) /\ ~In("free", {Op(o)})
  BY DEF Fits, Msgs, Simple, HeldIn, Plain, Asks, In, Regs, Restore, Starts, Op
<1> QED
  BY <1>1, Fit1 DEF Ordered

\* A message in front that is well placed anywhere.
LEMMA PrefixOrdered ==
    ASSUME NEW o \in {"step", "setpc", "par"}, NEW h, Ordered(h), ~In("free", Elems(h))
    PROVE  Ordered(<<Op(o)>> \o h)
<1>1. Op(o) \in Msgs /\ Fits(Op(o), Elems(h))
  BY OpFits
<1>2. Fit(<<Op(o)>> \o h, {}) /\ Elems(<<Op(o)>> \o h) = {Op(o)} \cup Elems(h)
  BY <1>1, PrefixFits DEF Ordered
<1>3. /\ In("resume_if", {Op(o)} \cup Elems(h)) <=> In("resume_if", Elems(h))
      /\ In("status", {Op(o)} \cup Elems(h)) <=> In("status", Elems(h))
      /\ In("free", {Op(o)} \cup Elems(h)) <=> In("free", Elems(h))
      /\ In("reset_on", {Op(o)} \cup Elems(h)) <=> In("reset_on", Elems(h))
  BY DEF In, Op
<1>4. HeldIn({Op(o)} \cup Elems(h)) = HeldIn(Elems(h))
  BY DEF HeldIn, Op, Restore, Save
<1> QED
  BY <1>2, <1>3, <1>4 DEF Ordered, Starts, Asks

\* Every handler is ordered.
LEMMA HandlersOrdered ==
    ASSUME NEW c \in Commands, NEW h \in Handlers(c)
    PROVE  Ordered(h)
<1>1. CASE c \in {"getpc", "halt", "step"}
  <2>1. ~In("free", Elems(GetPC))
    BY GetPCFits DEF In, Save, Tell, Restore
  <2> QED
    BY <1>1, <2>1, GetPCFits, HaltGetPCFits, PrefixOrdered DEF Handlers
<1>2. CASE c \in {"resume", "stop", "run"}
  BY <1>2, SingleFits DEF Handlers
<1>3. CASE c \in {"setpc", "sfr"}
  BY <1>3, SetPCFits, SetPCLowFits, GetSfrFits DEF Handlers
<1>4. CASE c = "setsfr"
  BY <1>4, SetSfrFits DEF Handlers
<1>5. CASE c \in {"dumpx", "data", "code"}
  <2>1. ~In("free", Elems(DataRead))
    BY DataReadFits DEF In, Save, Use, Restore
  <2> QED
    BY <1>5, <2>1, DataReadFits, CodeReadFits, PrefixOrdered DEF Handlers
<1>6. CASE c \in {"reset", "ireset"}
  BY <1>6, ResetFits DEF Handlers
<1>7. CASE c = "flash"
  BY <1>7, FlashFits DEF Handlers
<1>8. CASE c \in {"regs", "istep"}
  BY <1>8, ReadRegsFits, PrefixOrdered DEF Handlers
<1> QED
  BY <1>1, <1>2, <1>3, <1>4, <1>5, <1>6, <1>7, <1>8 DEF Commands

LEMMA NotificationOrdered ==
    ASSUME NEW h \in Notification
    PROVE  Ordered(h)
  BY ReadRegsFits, PrefixOrdered DEF Notification

-----------------------------------------------------------------------------
(* What is left of a handler is well placed too.                            *)

LEMMA SuffixFits ==
    ASSUME NEW s, Fit(s, {}), NEW n \in 1 .. Len(s) + 1
    PROVE  Fit(SubSeq(s, n, Len(s)), {})
<1> DEFINE u == SubSeq(s, n, Len(s))
<1>1. s \in Seq(Msgs) /\ Len(s) \in Nat
  BY DEF Fit
<1>2. /\ u \in Seq(Msgs) /\ Len(u) = Len(s) - n + 1
      /\ \A i \in 1 .. Len(u) : u[i] = s[n + i - 1]
  BY <1>1, SubSeqProperties
<1> HIDE DEF u
<1>3. ASSUME NEW i \in 1 .. Len(u)
      PROVE  Fits(u[i], After(u, i) \cup {})
  <2> DEFINE j == n + i - 1
  <2>1. j \in 1 .. Len(s) /\ u[i] = s[j]
    BY <1>1, <1>2
  <2>2. After(u, i) = After(s, j)
    <3>1. \A k \in i + 1 .. Len(u) : n + k - 1 \in j + 1 .. Len(s) /\ u[k] = s[n + k - 1]
      BY <1>1, <1>2
    <3>2. ASSUME NEW k \in j + 1 .. Len(s)
          PROVE  k - n + 1 \in i + 1 .. Len(u) /\ u[k - n + 1] = s[k]
      BY <1>1, <1>2
    <3> HIDE DEF j
    <3>3. After(u, i) \subseteq After(s, j)
      BY <3>1 DEF After
    <3>4. ASSUME NEW k \in j + 1 .. Len(s)
          PROVE  s[k] \in After(u, i)
      BY <3>2 DEF After
    <3> QED
      BY <3>3, <3>4 DEF After
  <2> QED
    BY <2>1, <2>2 DEF Fit
<1> QED
  BY <1>2, <1>3 DEF Fit, u

\* The first message of what is left, and the others.
LEMMA HeadFits ==
    ASSUME NEW s, Fit(s, {}), s # <<>>
    PROVE  /\ Head(s) \in Msgs /\ Fits(Head(s), Elems(Tail(s)))
           /\ Elems(s) = {Head(s)} \cup Elems(Tail(s))
<1>1. s \in Seq(Msgs) /\ Len(s) \in Nat \ {0} /\ Head(s) = s[1]
  BY DEF Fit
<1>2. /\ Len(Tail(s)) = Len(s) - 1
      /\ \A i \in 1 .. Len(Tail(s)) : Tail(s)[i] = s[i + 1]
  BY <1>1, HeadTailProperties
<1>3. Elems(Tail(s)) = After(s, 1)
  <2>1. ASSUME NEW k \in 2 .. Len(s)
        PROVE  k - 1 \in 1 .. Len(Tail(s)) /\ Tail(s)[k - 1] = s[k]
    BY <1>1, <1>2
  <2> QED
    BY <1>1, <1>2, <2>1 DEF Elems, After
<1>4. Fits(s[1], After(s, 1) \cup {})
  BY <1>1 DEF Fit
<1>5. Elems(s) = {s[1]} \cup After(s, 1)
  BY <1>1 DEF Elems, After
<1> QED
  BY <1>1, <1>3, <1>4, <1>5

Whole == (UNION {Handlers(c) : c \in Commands}) \cup Notification \cup {FailedFlash}

LEMMA WholeFits ==
    ASSUME NEW s \in Whole
    PROVE  Fit(s, {}) /\ s \in Seq(Msgs)
  BY HandlersOrdered, NotificationOrdered, FailedFlashFits DEF Whole, Ordered, Fit

LEMMA RestsAre ==
    /\ \A s \in Whole : s \in Rests
    /\ <<>> \in Rests
    /\ \A s \in Rests : Fit(s, {}) /\ s \in Seq(Msgs)
    /\ \A s \in Rests : s # <<>> => Tail(s) \in Rests
<1>1. Rests = UNION {Suffixes(s) : s \in Whole}
  BY DEF Rests, Whole
<1>2. ASSUME NEW s \in Whole
      PROVE  s \in Suffixes(s) /\ <<>> \in Suffixes(s)
  <2>1. s \in Seq(Msgs) /\ 1 \in 1 .. Len(s) + 1 /\ Len(s) + 1 \in 1 .. Len(s) + 1
    BY WholeFits
  <2>2. SubSeq(s, 1, Len(s)) = s
    BY <2>1, SubSeqFull
  <2>3. SubSeq(s, Len(s) + 1, Len(s)) = <<>>
    BY <2>1, SubSeqEmpty
  <2> QED
    BY <2>1, <2>2, <2>3 DEF Suffixes
<1>3. ASSUME NEW s \in Whole, NEW u \in Suffixes(s)
      PROVE  /\ Fit(u, {})
             /\ u # <<>> => Tail(u) \in Suffixes(s)
  <2>1. PICK n \in 1 .. Len(s) + 1 : u = SubSeq(s, n, Len(s))
    BY DEF Suffixes
  <2>2. s \in Seq(Msgs) /\ Len(s) \in Nat
    BY WholeFits
  <2>3. u # <<>> => n <= Len(s)
    BY <2>1, <2>2, SubSeqEmpty
  <2>4. n <= Len(s) => Tail(u) = SubSeq(s, n + 1, Len(s)) /\ n + 1 \in 1 .. Len(s) + 1
    BY <2>1, <2>2, HeadTailOfSubSeq
  <2> QED
    BY <2>1, <2>3, <2>4, WholeFits, SuffixFits DEF Suffixes
<1>4. <<>> \in Rests
  <2>1. GetPC \in Whole
    BY DEF Whole, Handlers, Commands
  <2> QED
    BY <1>1, <1>2, <2>1
<1> QED
  BY <1>1, <1>2, <1>3, <1>4 DEF Fit

-----------------------------------------------------------------------------
(* Type correctness.                                                        *)

Left(t) == Elems(todo[t])
Rest(t) == Elems(Tail(todo[t]))

\* The message a thread sends next is well placed.
LEMMA NextMessage ==
    ASSUME todo \in [Threads -> Rests], NEW t \in Threads, todo[t] # <<>>
    PROVE  /\ Head(todo[t]) \in Msgs
           /\ Fits(Head(todo[t]), Rest(t))
           /\ Left(t) = {Head(todo[t])} \cup Rest(t)
           /\ Tail(todo[t]) \in Rests
  BY RestsAre, HeadFits DEF Left, Rest

\* Messages that name a register or a page.
LEMMA ArgTypes ==
    ASSUME todo \in [Threads -> Rests], NEW t \in Threads
    PROVE  /\ Is(t, "save") \/ Is(t, "restore") => Arg(t) \in Regs
           /\ Is(t, "use") => Arg(t) \subseteq Regs
           /\ Is(t, "page") \/ Is(t, "verify") => Arg(t) \in Pages
  BY NextMessage DEF Is, Arg, Fits, HeldIn

LEMMA TypeInit == Init => TypeOK
<1> SUFFICES ASSUME Init PROVE TypeOK
  OBVIOUS
<1>1. todo \in [Threads -> Rests]
  BY RestsAre DEF Init
<1> QED
  BY <1>1, MenuAssumption DEF Init, TypeOK, NoBurn, Pages

LEMMA TypeNext == TypeOK /\ [Next]_vars => TypeOK'
<1> SUFFICES ASSUME TypeOK, [Next]_vars PROVE TypeOK'
  OBVIOUS
<1> USE DEF TypeOK
<1>1. \A t \in Threads : Is(t, "save") \/ Is(t, "restore") => Arg(t) \in Regs
  BY ArgTypes
<1>2. \A t \in Threads : Is(t, "use") => Arg(t) \subseteq Regs
  BY ArgTypes
<1>3. \A t \in Threads : Is(t, "page") \/ Is(t, "verify") => Arg(t) \in Pages
  BY ArgTypes
<1>4. \A t \in Threads : Sent(t) /\ todo[t] # <<>> => todo' \in [Threads -> Rests]
  BY NextMessage DEF Sent
<1>5. \A t \in Threads : Stops(t) => todo' \in [Threads -> Rests]
  BY RestsAre DEF Stops
<1>6. \A D, K : /\ Follow(D, K) /\ D \subseteq Regs /\ K \in [Threads -> SUBSET Regs]
                => dirty' \subseteq Regs /\ kept' \in [Threads -> SUBSET Regs]
  BY DEF Follow, NoneKept
<1>7. \A t \in Threads : \A S : Crosses(t, S) => asked' \in [Threads -> Files \cup {NoFile}]
  BY DEF Crosses
<1>8. \A t \in Threads : Disturbs(t) => asked' \in [Threads -> Files \cup {NoFile}]
  BY <1>7 DEF Disturbs
<1>9. \A m \in {"running", "halted", "any"} : \A U :
        Means(m, U) => meant' \in {"running", "halted", "any"}
  BY DEF Means
<1>10. \A t \in Threads : Instr(t) => upset' \in BOOLEAN
  BY DEF Instr
<1>11. ASSUME NEW t \in Threads, Message(t)
       PROVE  TypeOK'
  <2>1. CASE SaveReg(t)
    <3> DEFINE D == IF Arg(t) = "ACC" THEN dirty ELSE dirty \cup {"ACC"}
               K == [kept EXCEPT ![t] = IF Arg(t) \in dirty THEN @ ELSE @ \cup {Arg(t)}]
    <3>1. D \subseteq Regs /\ K \in [Threads -> SUBSET Regs]
      BY <2>1, <1>1 DEF SaveReg, Regs
    <3>2. Follow(D, K)
      BY <2>1 DEF SaveReg
    <3> HIDE DEF D, K
    <3> QED
      BY <2>1, <3>1, <3>2, <1>4, <1>6, <1>8, <1>10 DEF SaveReg, Instr, Is, fileVars
  <2>2. CASE TellReg(t)
    BY <2>2, <1>4, <1>6, <1>8, <1>10 DEF TellReg, Instr, Is, fileVars, handlerVars, Regs
  <2>3. CASE RestoreReg(t)
    <3> DEFINE D == IF Arg(t) \in kept[t] THEN dirty \ {Arg(t)} ELSE dirty \cup {Arg(t)}
               K == [kept EXCEPT ![t] = @ \ {Arg(t)}]
    <3>1. D \subseteq Regs /\ K \in [Threads -> SUBSET Regs]
      BY <2>3, <1>1 DEF RestoreReg
    <3>2. Follow(D, K)
      BY <2>3 DEF RestoreReg
    <3> HIDE DEF D, K
    <3> QED
      BY <2>3, <3>1, <3>2, <1>4, <1>6, <1>8, <1>10 DEF RestoreReg, Instr, Is, fileVars
  <2>4. CASE SetReg(t)
    BY <2>4, <1>4, <1>6, <1>8, <1>10 DEF SetReg, Instr, Is, fileVars, Forget
  <2>5. CASE UseRegs(t)
    BY <2>5, <1>2, <1>4, <1>6, <1>8, <1>10 DEF UseRegs, Instr, Is, fileVars
  <2>6. CASE SetPCOf(t)
    BY <2>6, <1>4, <1>6, <1>8, <1>10 DEF SetPCOf, Instr, Is, fileVars
  <2>7. CASE GetStatus(t)
    <3>1. ASSUME NEW st \in Statuses
          PROVE  st \in BOOLEAN
      <4>1. Stopped \in BOOLEAN
        BY SMT DEF Stopped
      <4> QED
        BY <4>1, Zenon DEF Statuses
    <3>2. PICK st \in Statuses : halted' = [halted EXCEPT ![t] = st]
      BY <2>7 DEF GetStatus
    <3> QED
      BY <2>7, <3>1, <3>2, <1>4 DEF GetStatus, Is, fileVars, chipVars
  <2>8. CASE HaltIf(t)
    BY <2>8, <1>4, <1>8 DEF HaltIf, Is, fileVars, handlerVars
  <2>9. CASE ResumeIf(t)
    BY <2>9, <1>4, <1>6, <1>8 DEF ResumeIf, Is, fileVars
  <2>10. CASE Halt(t)
    BY <2>10, <1>4, <1>8, <1>9 DEF Halt, Is, fileVars, handlerVars
  <2>11. CASE Resume(t)
    BY <2>11, <1>4, <1>6, <1>8, <1>9 DEF Resume, Is, fileVars
  <2>12. CASE Step(t)
    BY <2>12, <1>4, <1>6, <1>8 DEF Step, Is, fileVars
  <2>13. CASE ResetOn(t)
    BY <2>13, <1>4, <1>8 DEF ResetOn, StartsOver, NoneKept, OthersHold, Is, fileVars
  <2>14. CASE ResetOff(t)
    BY <2>14, <1>4, <1>8, <1>9 DEF ResetOff, Is, handlerVars
  <2>15. CASE EnterDebugMode(t)
    BY <2>15, <1>4, <1>8, <1>9 DEF EnterDebugMode, StartsOver, NoneKept, OthersHold, Is, fileVars
  <2>16. CASE SetName(t)
    BY <2>16, <1>4 DEF SetName, Is, chipVars, handlerVars
  <2>17. CASE Alloc(t)
    BY <2>17, <1>4, <1>7 DEF Alloc, Is, chipVars, handlerVars
  <2>18. CASE Load(t)
    BY <2>18, <1>4, <1>5, <1>7 DEF Load, Opens, Is, chipVars, handlerVars
  <2>19. CASE Program(t)
    BY <2>19, <1>4 DEF Program, Is, chipVars, handlerVars
  <2>20. CASE WritePage(t)
    <3>1. Content(t) \subseteq Files \cup {Other}
      BY DEF Content
    <3> QED
      BY <2>20, <3>1, <1>3, <1>4, <1>6, <1>8 DEF WritePage, Is, fileVars
  <2>21. CASE Wait(t)
    BY <2>21, <1>4 DEF Wait, Is, chipVars, handlerVars, fileVars
  <2>22. CASE Verify(t)
    <3>1. todo' \in [Threads -> Rests]
      BY <2>22, NextMessage, RestsAre DEF Verify, Is, Whole
    <3> QED
      BY <2>22, <3>1, <1>6, <1>8 DEF Verify, fileVars
  <2>23. CASE GetPar(t)
    BY <2>23, <1>4 DEF GetPar, Is, chipVars, handlerVars, fileVars
  <2> QED
    BY <1>11, <2>1, <2>2, <2>3, <2>4, <2>5, <2>6, <2>7, <2>8, <2>9, <2>10, <2>11, <2>12,
       <2>13, <2>14, <2>15, <2>16, <2>17, <2>18, <2>19, <2>20, <2>21, <2>22, <2>23 DEF Message
<1>12. ASSUME NEW t \in Threads, Poll(t)
       PROVE  TypeOK'
  BY <1>12, RestsAre DEF Poll, Whole, chipVars, fileVars
<1>13. ASSUME NEW t \in Threads, Cut(t)
       PROVE  TypeOK'
  BY <1>13, <1>5, <1>6, <1>7 DEF Cut
<1>14. ASSUME NEW t \in Threads, NEW c \in menu[t], Begin(t, c)
       PROVE  TypeOK'
  <2>1. c \in Commands
    BY MenuAssumption
  <2>2. todo' \in [Threads -> Rests]
    BY <1>14, <2>1, RestsAre DEF Begin, Whole
  <2> QED
    BY <1>14, <2>2 DEF Begin, chipVars, fileVars
<1>15. CASE HitBreakpoint
  BY <1>15, <1>9 DEF HitBreakpoint, Arrives, fileVars
<1>16. CASE RoutineEnds
  BY <1>16, <1>9 DEF RoutineEnds, Arrives, fileVars, NoBurn
<1>17. CASE UNCHANGED vars
  BY <1>17 DEF vars, chipVars, handlerVars, fileVars
<1> QED
  BY <1>11, <1>12, <1>13, <1>14, <1>15, <1>16, <1>17 DEF Next

\* The variables of the session have their types.
THEOREM TypeCorrect == Spec => []TypeOK
  BY TypeInit, TypeNext, PTL DEF Spec

-----------------------------------------------------------------------------
(* What the messages left say about the state.                              *)

LEMMA HasIs ==
    ASSUME todo \in [Threads -> Rests], NEW t \in Threads, NEW op
    PROVE  Has(t, op) <=> In(op, Left(t))
<1>1. todo[t] \in Seq(Msgs)
  BY RestsAre
<1> QED
  BY <1>1 DEF Has, In, Left, Elems

LEMMA HeldIs ==
    ASSUME todo \in [Threads -> Rests], NEW t \in Threads
    PROVE  /\ Holding(t) <=> /\ In("debug", Left(t)) \/ In("answer", Left(t))
                             /\ ~In("reset_on", Left(t))
           /\ Held(t) = IF Holding(t) THEN Regs ELSE HeldIn(Left(t))
           /\ WillResume(t) <=> /\ In("resume_if", Left(t)) /\ ~In("status", Left(t))
                                /\ ~halted[t]
<1>1. todo[t] \in Seq(Msgs)
  BY RestsAre
<1>2. \A m : (\E i \in DOMAIN todo[t] : todo[t][i] = m) <=> m \in Left(t)
  BY <1>1 DEF Left, Elems
<1>3. Held(t) = IF Holding(t) THEN Regs ELSE HeldIn(Left(t))
  BY <1>2 DEF Held, HeldIn
<1>4. Holding(t) <=> /\ In("debug", Left(t)) \/ In("answer", Left(t))
                     /\ ~In("reset_on", Left(t))
  BY HasIs DEF Holding
<1> QED
  BY <1>3, <1>4, HasIs DEF WillResume

\* A handler that releases the chip answers.
LEMMA FreeAnswers ==
    ASSUME NEW s, Fit(s, {}), In("free", Elems(s))
    PROVE  In("answer", Elems(s))
<1>1. PICK i \in 1 .. Len(s) : s[i][1] = "free"
  BY DEF In, Elems
<1>2. Len(s) \in Nat
  BY DEF Fit
<1>3. In("answer", After(s, i) \cup {})
  BY <1>1 DEF Fit, Fits
<1> QED
  BY <1>2, <1>3 DEF In, After, Elems

\* What a handler may have changed is among what others must leave alone.
LEMMA DirtyIsHeld ==
    ASSUME todo \in [Threads -> Rests], NEW t \in Threads
    PROVE  HeldIn(Left(t)) \subseteq Held(t) /\ DirtyIn(Left(t)) \subseteq Held(t)
<1>1. In("free", Left(t)) => In("answer", Left(t))
  BY RestsAre, FreeAnswers DEF Left
<1> QED
  BY <1>1, HeldIs DEF DirtyIn, HeldIn

LEMMA Alone ==
    ASSUME todo \in [Threads -> Rests], NEW t \in Threads, ~OthersHold(t)
    PROVE  \A u \in Others(t) : HeldIn(Left(u)) = {} /\ DirtyIn(Left(u)) = {}
  BY DirtyIsHeld DEF OthersHold, Others

\* Sending a message leaves the rest of the handler.
LEMMA AfterSent ==
    ASSUME todo \in [Threads -> Rests], NEW t \in Threads, todo[t] # <<>>, Sent(t)
    PROVE  /\ Left(t)' = Rest(t)
           /\ \A u \in Others(t) : Left(u)' = Left(u)
  BY DEF Sent, Left, Rest, Others

LEMMA AfterStop ==
    ASSUME todo \in [Threads -> Rests], NEW t \in Threads, Stops(t)
    PROVE  /\ Left(t)' = {}
           /\ \A u \in Others(t) : Left(u)' = Left(u)
<1>1. Elems(<<>>) = {}
  BY DEF Elems
<1> QED
  BY <1>1 DEF Stops, Left, Others

\* A message that is not about a register or the chip as a whole.
LEMMA SameHeld ==
    ASSUME NEW m, NEW E, m[1] \notin {"save", "restore"}
    PROVE  HeldIn({m} \cup E) = HeldIn(E)
  BY DEF HeldIn, Save, Restore

LEMMA SameDirty ==
    ASSUME NEW m, NEW E, m[1] \notin {"save", "restore", "free", "reset_on"}
    PROVE  DirtyIn({m} \cup E) = DirtyIn(E)
<1>1. In("free", {m} \cup E) = In("free", E) /\ In("reset_on", {m} \cup E) = In("reset_on", E)
  BY DEF In
<1> QED
  BY <1>1, SameHeld DEF DirtyIn

LEMMA SameIn ==
    ASSUME NEW m, NEW E, NEW op, m[1] # op
    PROVE  In(op, {m} \cup E) <=> In(op, E)
  BY DEF In

LEMMA PlainDirty ==
    ASSUME NEW E, Plain(E)
    PROVE  DirtyIn(E) = HeldIn(E)
  BY DEF Plain, DirtyIn

LEMMA NothingLeft ==
    HeldIn({}) = {} /\ DirtyIn({}) = {} /\ \A op : ~In(op, {})
  BY DEF HeldIn, DirtyIn, In

-----------------------------------------------------------------------------
(* Registers.  While nothing has upset them, the registers that do not hold *)
(* the program's value are among those that handlers have still to put      *)
(* back; what a handler has saved and has to put back is a true copy, the   *)
(* CPU is stopped meanwhile, and the handler that halts the CPU in between  *)
(* found it stopped.                                                        *)

Puts(t) ==
    /\ HeldIn(Left(t)) \subseteq kept[t]
    /\ HeldIn(Left(t)) # {} => Stopped
    /\ "MEMCTR" \in HeldIn(Left(t)) /\ In("resume_if", Left(t)) /\ ~In("status", Left(t))
          => halted[t]

CleanRun == (cpu = "running" /\ burn = NoBurn) \/ cpu = "reset" => dirty = {}

RegInv ==
    upset \/ /\ dirty \subseteq UNION {DirtyIn(Left(t)) : t \in Threads}
             /\ CleanRun
             /\ \A t \in Threads : Puts(t)

\* A step of a thread when no other has a register in use.
LEMMA RegAlone ==
    ASSUME todo \in [Threads -> Rests], NEW t \in Threads, ~OthersHold(t),
           \A u \in Others(t) : Left(u)' = Left(u),
           dirty' \subseteq DirtyIn(Left(t)'), CleanRun', Puts(t)'
    PROVE  RegInv'
<1>1. ASSUME NEW u \in Others(t)
      PROVE  Puts(u)'
  BY <1>1, Alone DEF Puts
<1>2. dirty' \subseteq UNION {DirtyIn(Left(u)') : u \in Threads}
  OBVIOUS
<1> QED
  BY <1>1, <1>2 DEF RegInv, Others

\* A step of a thread that changes no register.
LEMMA RegKept ==
    ASSUME RegInv, ~upset, NEW t \in Threads,
           \A u \in Others(t) : /\ Left(u)' = Left(u)
                                /\ kept'[u] = kept[u] /\ halted'[u] = halted[u],
           dirty' = dirty, Stopped => Stopped',
           DirtyIn(Left(t)) \subseteq DirtyIn(Left(t)'), CleanRun', Puts(t)'
    PROVE  RegInv'
<1>1. ASSUME NEW u \in Others(t)
      PROVE  Puts(u)'
  BY <1>1 DEF Puts, RegInv, Others
<1>2. dirty' \subseteq UNION {DirtyIn(Left(u)') : u \in Threads}
  BY DEF RegInv, Others
<1> QED
  BY <1>1, <1>2 DEF RegInv, Others

\* With no other thread in between, a register that is not the program's is the
\* thread's to put back.
LEMMA DirtyAlone ==
    ASSUME todo \in [Threads -> Rests], RegInv, ~upset, NEW t \in Threads, ~OthersHold(t)
    PROVE  dirty \subseteq DirtyIn(Left(t))
  BY Alone DEF RegInv, Others

LEMMA RegInit == Init => RegInv
<1> SUFFICES ASSUME Init PROVE RegInv
  OBVIOUS
<1>1. \A t \in Threads : Left(t) = {}
  <2>1. Elems(<<>>) = {}
    BY DEF Elems
  <2> QED
    BY <2>1 DEF Init, Left
<1> QED
  BY <1>1, NothingLeft DEF Init, RegInv, CleanRun, Puts

\* Instructions.
LEMMA RegInstr ==
    ASSUME TypeOK, RegInv, NEW t \in Threads, ~upset',
           \/ SaveReg(t) \/ TellReg(t) \/ RestoreReg(t) \/ SetReg(t) \/ UseRegs(t) \/ SetPCOf(t)
    PROVE  RegInv'
<1> DEFINE m == Head(todo[t])
           E == Rest(t)
<1>1. todo \in [Threads -> Rests] /\ todo[t] # <<>> /\ Instr(t) /\ Sent(t)
  BY DEF TypeOK, SaveReg, TellReg, RestoreReg, SetReg, UseRegs, SetPCOf, Is, Instr
<1>2. ~upset /\ Stopped /\ ~OthersHold(t) /\ UNCHANGED <<cpu, halted>>
  BY <1>1 DEF Instr, handlerVars
<1>3. /\ Fits(m, E) /\ Left(t) = {m} \cup E
      /\ Left(t)' = E /\ \A u \in Others(t) : Left(u)' = Left(u)
  BY <1>1, NextMessage, AfterSent
<1>4. dirty \subseteq DirtyIn({m} \cup E)
  BY <1>1, <1>2, <1>3, DirtyAlone
<1>5. Puts(t)
  BY <1>2 DEF RegInv
<1>6. CleanRun' /\ Stopped'
  BY <1>2 DEF CleanRun, Stopped
<1> HIDE DEF m, E
<1>7. CASE SaveReg(t)
  <2>1. m[1] = "save" /\ Arg(t) = m[2]
    BY <1>7 DEF SaveReg, Is, Arg, m
  <2> DEFINE r == m[2]
  <2>2. /\ r \in HeldIn(E) /\ m = Save(r) /\ Plain(E)
        /\ r # "ACC" => "ACC" \in HeldIn(E)
        /\ r = "MEMCTR" => Asks(E)
    BY <1>3, <2>1 DEF Fits
  <2>3. HeldIn({m} \cup E) = HeldIn(E) \ {r}
    BY <2>2 DEF HeldIn, Save, Restore
  <2>4. Plain({m} \cup E)
    BY <2>1, <2>2, SameIn DEF Plain
  <2>5. dirty \subseteq HeldIn(E) \ {r} /\ DirtyIn(E) = HeldIn(E)
    BY <1>4, <2>2, <2>3, <2>4, PlainDirty
  <2>6. /\ dirty' = IF r = "ACC" THEN dirty ELSE dirty \cup {"ACC"}
        /\ kept'[t] = kept[t] \cup {r}
    BY <1>7, <2>1, <2>5 DEF SaveReg, Follow, TypeOK
  <2>7. HeldIn(E) \subseteq kept'[t]
    BY <1>3, <1>5, <2>3, <2>6 DEF Puts
  <2>8. "MEMCTR" \in HeldIn(E) /\ In("resume_if", E) /\ ~In("status", E) => halted[t]
    BY <1>3, <1>5, <2>1, <2>2, <2>3, SameIn DEF Puts, Asks
  <2> HIDE DEF r
  <2> QED
    BY <1>1, <1>2, <1>3, <1>6, <2>2, <2>5, <2>6, <2>7, <2>8, RegAlone DEF Puts
<1>8. CASE TellReg(t)
  <2>1. m[1] = "tell"
    BY <1>8 DEF TellReg, Is, m
  <2>2. "ACC" \in HeldIn(E) /\ Plain(E)
    BY <1>3, <2>1 DEF Fits
  <2>3. dirty' = dirty \cup {"ACC"} /\ kept' = kept
    BY <1>8 DEF TellReg, Follow
  <2>4. dirty' \subseteq DirtyIn(E)
    BY <1>4, <2>1, <2>2, <2>3, SameDirty, PlainDirty
  <2>5. Puts(t)'
    BY <1>2, <1>3, <1>5, <1>6, <2>1, <2>3, SameHeld, SameIn DEF Puts
  <2> QED
    BY <1>1, <1>2, <1>3, <1>6, <2>4, <2>5, RegAlone
<1>9. CASE RestoreReg(t)
  <2>1. m[1] = "restore" /\ Arg(t) = m[2]
    BY <1>9 DEF RestoreReg, Is, Arg, m
  <2> DEFINE r == m[2]
  <2>2. r \in Regs /\ m = Restore(r) /\ Plain(E) /\ m \notin E /\ Save(r) \notin E
    BY <1>3, <2>1 DEF Fits
  <2>3. HeldIn({m} \cup E) = HeldIn(E) \cup {r} /\ r \notin HeldIn(E)
    BY <2>2 DEF HeldIn, Save, Restore
  <2>4. Plain({m} \cup E)
    BY <2>1, <2>2, SameIn DEF Plain
  <2>5. dirty \subseteq HeldIn(E) \cup {r} /\ DirtyIn(E) = HeldIn(E)
    BY <1>4, <2>2, <2>3, <2>4, PlainDirty
  <2>6. r \in kept[t] /\ HeldIn(E) \subseteq kept[t]
    BY <1>3, <1>5, <2>3 DEF Puts
  <2>7. dirty' = dirty \ {r} /\ kept'[t] = kept[t] \ {r}
    BY <1>9, <2>1, <2>6 DEF RestoreReg, Follow, TypeOK
  <2>8. "MEMCTR" \in HeldIn(E) /\ In("resume_if", E) /\ ~In("status", E) => halted[t]
    BY <1>3, <1>5, <2>1, <2>3, SameIn DEF Puts
  <2> HIDE DEF r
  <2> QED
    BY <1>1, <1>2, <1>3, <1>6, <2>3, <2>5, <2>6, <2>7, <2>8, RegAlone DEF Puts
<1>10. CASE SetReg(t)
  <2>1. m[1] = "set"
    BY <1>10 DEF SetReg, Is, m
  <2>2. HeldIn(E) = {} /\ Plain(E)
    BY <1>3, <2>1 DEF Fits
  <2>3. dirty' \subseteq dirty
    BY <1>10 DEF SetReg, Follow
  <2>4. dirty' \subseteq DirtyIn(E)
    BY <1>4, <2>1, <2>3, SameDirty
  <2> QED
    BY <1>1, <1>2, <1>3, <1>6, <2>2, <2>4, RegAlone DEF Puts
<1>11. CASE UseRegs(t)
  <2>1. m[1] = "use" /\ Arg(t) = m[2]
    BY <1>11 DEF UseRegs, Is, Arg, m
  <2>2. m[2] \subseteq HeldIn(E) /\ Plain(E)
    BY <1>3, <2>1 DEF Fits
  <2>3. dirty' = dirty \cup m[2] /\ kept' = kept
    BY <1>11, <2>1 DEF UseRegs, Follow
  <2>4. dirty' \subseteq DirtyIn(E)
    BY <1>4, <2>1, <2>2, <2>3, SameDirty, PlainDirty
  <2>5. Puts(t)'
    BY <1>2, <1>3, <1>5, <1>6, <2>1, <2>3, SameHeld, SameIn DEF Puts
  <2> QED
    BY <1>1, <1>2, <1>3, <1>6, <2>4, <2>5, RegAlone
<1>12. CASE SetPCOf(t)
  <2>1. m[1] = "setpc"
    BY <1>12 DEF SetPCOf, Is, m
  <2>2. dirty' = dirty /\ kept' = kept
    BY <1>12 DEF SetPCOf, Follow
  <2>3. dirty' \subseteq DirtyIn(E)
    BY <1>4, <2>1, <2>2, SameDirty
  <2>4. Puts(t)'
    BY <1>2, <1>3, <1>5, <1>6, <2>1, <2>2, SameHeld, SameIn DEF Puts
  <2> QED
    BY <1>1, <1>2, <1>3, <1>6, <2>3, <2>4, RegAlone
<1> QED
  BY <1>7, <1>8, <1>9, <1>10, <1>11, <1>12

\* Run control.
LEMMA RegRunControl ==
    ASSUME TypeOK, RegInv, NEW t \in Threads, ~upset',
           GetStatus(t) \/ HaltIf(t) \/ ResumeIf(t) \/ Halt(t) \/ Resume(t) \/ Step(t)
    PROVE  RegInv'
<1> DEFINE m == Head(todo[t])
           E == Rest(t)
<1>1. todo \in [Threads -> Rests] /\ todo[t] # <<>> /\ Sent(t)
  BY DEF TypeOK, GetStatus, HaltIf, ResumeIf, Halt, Resume, Step, Is
<1>2. /\ Fits(m, E) /\ Left(t) = {m} \cup E
      /\ Left(t)' = E /\ \A u \in Others(t) : Left(u)' = Left(u)
  BY <1>1, NextMessage, AfterSent
<1>3. ~upset
  BY DEF GetStatus, HaltIf, ResumeIf, Halt, Resume, Step
<1>4. dirty' = dirty /\ kept' = kept
  BY DEF GetStatus, HaltIf, ResumeIf, Halt, Resume, Step, Follow, chipVars, handlerVars
<1>5. m[1] \in {"status", "halt_if", "resume_if", "halt", "resume", "step"}
  BY DEF GetStatus, HaltIf, ResumeIf, Halt, Resume, Step, Is, m
<1>6. Puts(t) /\ CleanRun
  BY <1>3 DEF RegInv
<1> HIDE DEF m, E
<1>7. /\ HeldIn({m} \cup E) = HeldIn(E) /\ DirtyIn({m} \cup E) = DirtyIn(E)
      /\ HeldIn(E) \subseteq kept[t] /\ (HeldIn(E) # {} => Stopped)
  BY <1>2, <1>5, <1>6, SameHeld, SameDirty DEF Puts
<1>8. CASE GetStatus(t)
  <2>1. UNCHANGED <<cpu, burn>> /\ Stopped' = Stopped
    BY <1>8 DEF GetStatus, chipVars, Stopped
  <2>2. \A u \in Others(t) : halted'[u] = halted[u]
    BY <1>8 DEF GetStatus, TypeOK, Others
  <2>3. Stopped => halted'[t]
    BY <1>8 DEF GetStatus, TypeOK, Statuses, Stopped
  <2>4. Puts(t)' /\ CleanRun'
    BY <1>2, <1>4, <1>6, <1>7, <2>1, <2>3 DEF Puts, CleanRun
  <2> QED
    BY <1>2, <1>3, <1>4, <1>7, <2>1, <2>2, <2>4, RegKept
<1>9. CASE HaltIf(t)
  <2>1. m[1] = "halt_if" /\ halted' = halted /\ burn' = burn
    BY <1>9 DEF HaltIf, Is, m, handlerVars
  <2>2. cpu' = cpu \/ (cpu = "running" /\ cpu' = "halted")
    BY <1>9 DEF HaltIf
  <2>3. Puts(t)' /\ CleanRun' /\ (Stopped => Stopped')
    BY <1>2, <1>4, <1>6, <1>7, <2>1, <2>2, SameIn DEF Puts, CleanRun, Stopped
  <2> QED
    BY <1>2, <1>3, <1>4, <1>7, <2>1, <2>3, RegKept
<1>10. CASE ResumeIf(t)
  <2>1. m[1] = "resume_if" /\ burn' = burn /\ \A u \in Others(t) : halted'[u] = halted[u]
    BY <1>10 DEF ResumeIf, Is, m, TypeOK, Others
  <2>2. /\ ~In("resume_if", E) /\ ~In("status", E) /\ Plain(E)
        /\ HeldIn(E) = {} \/ "MEMCTR" \in HeldIn(E)
    BY <1>2, <2>1 DEF Fits
  <2>3. CASE halted[t]
    <3>1. cpu' = cpu
      BY <1>10, <2>3 DEF ResumeIf
    <3>2. Puts(t)' /\ CleanRun' /\ (Stopped => Stopped')
      BY <1>2, <1>4, <1>6, <1>7, <2>1, <2>2, <3>1 DEF Puts, CleanRun, Stopped
    <3> QED
      BY <1>2, <1>3, <1>4, <1>7, <2>1, <3>2, RegKept
  <2>4. CASE ~halted[t]
    <3>1. m \in {m} \cup E
      OBVIOUS
    <3>2. In("resume_if", {m} \cup E) /\ ~In("status", {m} \cup E)
      BY <2>1, <2>2, <3>1, SameIn DEF In
    <3>3. HeldIn(E) = {}
      BY <1>2, <1>6, <1>7, <2>2, <2>4, <3>2 DEF Puts
    <3>4. ~OthersHold(t)
      BY <1>10, <2>4 DEF ResumeIf
    <3>5. dirty = {}
      BY <1>1, <1>2, <1>3, <1>7, <2>2, <3>3, <3>4, DirtyAlone, PlainDirty
    <3> QED
      BY <1>1, <1>2, <1>4, <3>3, <3>4, <3>5, RegAlone DEF Puts, CleanRun
  <2> QED
    BY <2>3, <2>4
<1>11. CASE Halt(t)
  <2>1. m[1] = "halt" /\ halted' = halted /\ burn' = burn
    BY <1>11 DEF Halt, Is, m, handlerVars
  <2>2. cpu' = cpu \/ (cpu = "running" /\ cpu' = "halted")
    BY <1>11 DEF Halt
  <2>3. Puts(t)' /\ CleanRun' /\ (Stopped => Stopped')
    BY <1>2, <1>4, <1>6, <1>7, <2>1, <2>2, SameIn DEF Puts, CleanRun, Stopped
  <2> QED
    BY <1>2, <1>3, <1>4, <1>7, <2>1, <2>3, RegKept
<1>12. CASE Resume(t)
  <2>1. m[1] = "resume" /\ ~OthersHold(t)
    BY <1>12 DEF Resume, Is, m
  <2>2. HeldIn(E) = {} /\ Plain(E)
    BY <1>2, <2>1 DEF Fits
  <2>3. dirty = {}
    BY <1>1, <1>2, <1>3, <1>7, <2>1, <2>2, DirtyAlone, PlainDirty
  <2> QED
    BY <1>1, <1>2, <1>4, <2>1, <2>2, <2>3, RegAlone DEF Puts, CleanRun
<1>13. CASE Step(t)
  <2>1. m[1] = "step" /\ halted' = halted /\ burn' = burn
    BY <1>13 DEF Step, Is, m
  <2>2. cpu' = cpu \/ (Stopped /\ cpu' = "halted")
    BY <1>13 DEF Step
  <2>3. Puts(t)' /\ CleanRun' /\ (Stopped => Stopped')
    BY <1>2, <1>4, <1>6, <1>7, <2>1, <2>2, SameIn DEF Puts, CleanRun, Stopped
  <2> QED
    BY <1>2, <1>3, <1>4, <1>7, <2>1, <2>3, RegKept
<1> QED
  BY <1>8, <1>9, <1>10, <1>11, <1>12, <1>13

\* Messages that reset the chip, or may.
LEMMA RegReset ==
    ASSUME TypeOK, RegInv, NEW t \in Threads, ~upset',
           ResetOn(t) \/ ResetOff(t) \/ EnterDebugMode(t)
    PROVE  RegInv'
<1> DEFINE m == Head(todo[t])
           E == Rest(t)
<1>1. todo \in [Threads -> Rests] /\ todo[t] # <<>> /\ Sent(t)
  BY DEF TypeOK, ResetOn, ResetOff, EnterDebugMode, Is
<1>2. /\ Fits(m, E) /\ Left(t) = {m} \cup E
      /\ Left(t)' = E /\ \A u \in Others(t) : Left(u)' = Left(u)
  BY <1>1, NextMessage, AfterSent
<1>3. m[1] \in {"reset_on", "free", "reset_off", "answer", "debug"}
  BY DEF ResetOn, ResetOff, EnterDebugMode, Is, m
<1> HIDE DEF m, E
<1>4. HeldIn(E) = {}
  BY <1>2, <1>3, NothingLeft DEF Fits
<1>5. Puts(t)'
  BY <1>2, <1>4 DEF Puts
<1>6. CASE StartsOver(t)
  <2>1. ~OthersHold(t) /\ dirty' = {}
    BY <1>6 DEF StartsOver
  <2> QED
    BY <1>1, <1>2, <1>5, <2>1, RegAlone DEF CleanRun
<1>7. CASE ResetOff(t)
  <2>1. ~upset /\ UNCHANGED <<dirty, kept, halted, burn>>
    BY <1>7 DEF ResetOff, handlerVars
  <2>2. cpu' = cpu \/ (cpu = "reset" /\ cpu' = "running")
    BY <1>7 DEF ResetOff
  <2>3. m[1] \in {"reset_off", "answer"}
    BY <1>7 DEF ResetOff, Is, m
  <2>4. DirtyIn({m} \cup E) = {}
    BY <1>2, <1>4, <2>3, SameDirty, NothingLeft DEF Fits, DirtyIn
  <2>5. CleanRun' /\ (Stopped => Stopped')
    BY <2>1, <2>2 DEF RegInv, CleanRun, Stopped
  <2> QED
    BY <1>2, <1>5, <2>1, <2>4, <2>5, RegKept
<1>8. CASE EnterDebugMode(t) /\ UNCHANGED <<dirty, kept, burn, upset>>
  <2>1. m[1] = "debug" /\ cpu' = "halted" /\ halted' = halted /\ ~upset
    BY <1>8 DEF EnterDebugMode, Is, m
  <2>2. DirtyIn({m} \cup E) = DirtyIn(E)
    BY <2>1, SameDirty
  <2> QED
    BY <1>2, <1>5, <1>8, <2>1, <2>2, RegKept DEF CleanRun, Stopped
<1> QED
  BY <1>6, <1>7, <1>8 DEF ResetOn, EnterDebugMode

\* The flash command.
LEMMA RegFlash ==
    ASSUME TypeOK, RegInv, NEW t \in Threads, ~upset',
           \/ SetName(t) \/ Alloc(t) \/ Load(t) \/ Program(t) \/ WritePage(t) \/ Wait(t)
           \/ Verify(t) \/ GetPar(t)
    PROVE  RegInv'
<1> DEFINE m == Head(todo[t])
           E == Rest(t)
<1>1. todo \in [Threads -> Rests] /\ todo[t] # <<>>
  BY DEF TypeOK, SetName, Alloc, Load, Program, WritePage, Wait, Verify, GetPar, Is
<1>2. Fits(m, E) /\ Left(t) = {m} \cup E
  BY <1>1, NextMessage
<1>3. ~upset
  BY DEF SetName, Alloc, Load, Program, WritePage, Wait, Verify, GetPar
<1>4. Puts(t) /\ CleanRun
  BY <1>3 DEF RegInv
<1> HIDE DEF m, E
<1>5. CASE /\ UNCHANGED <<chipVars, kept, halted>>
           /\ Sent(t) /\ m[1] \in {"name", "alloc", "load", "program", "wait", "par"}
  <2>1. Left(t)' = E /\ \A u \in Others(t) : Left(u)' = Left(u)
    BY <1>1, <1>5, AfterSent DEF E
  <2>2. HeldIn({m} \cup E) = HeldIn(E) /\ DirtyIn({m} \cup E) = DirtyIn(E)
    BY <1>5, SameHeld, SameDirty
  <2>3. Puts(t)' /\ CleanRun' /\ (Stopped => Stopped')
    BY <1>2, <1>4, <1>5, <2>1, <2>2, SameIn DEF Puts, CleanRun, Stopped, chipVars
  <2> QED
    BY <1>2, <1>3, <1>5, <2>1, <2>2, <2>3, RegKept DEF chipVars
<1>6. CASE Load(t) /\ Stops(t)
  <2>1. Left(t)' = {} /\ \A u \in Others(t) : Left(u)' = Left(u)
    BY <1>1, <1>6, AfterStop
  <2>2. m[1] = "load" /\ UNCHANGED <<cpu, dirty, burn, kept, halted>>
    BY <1>6 DEF Load, Is, m, chipVars, handlerVars
  <2>3. In("reset_on", E) /\ HeldIn(E) = {}
    BY <1>2, <2>2 DEF Fits
  <2>4. In("reset_on", {m} \cup E) /\ HeldIn({m} \cup E) = {}
    BY <2>2, <2>3, SameIn, SameHeld
  <2>5. DirtyIn({m} \cup E) = {}
    BY <2>4 DEF DirtyIn
  <2>6. Puts(t)' /\ CleanRun' /\ (Stopped => Stopped')
    BY <1>4, <2>1, <2>2, NothingLeft DEF Puts, CleanRun, Stopped
  <2> QED
    BY <1>2, <1>3, <2>1, <2>2, <2>5, <2>6, RegKept
<1>7. CASE WritePage(t)
  <2>1. m[1] = "page" /\ Sent(t) /\ Stopped /\ ~OthersHold(t) /\ Arg(t) = m[2]
    BY <1>7 DEF WritePage, Is, m, Arg
  <2>2. Left(t)' = E /\ \A u \in Others(t) : Left(u)' = Left(u)
    BY <1>1, <2>1, AfterSent DEF E
  <2>3. /\ HeldIn(E) = {} /\ m[2] \in Pages
        /\ In("free", E) /\ ~In("reset_on", E)
    BY <1>2, <2>1 DEF Fits
  <2>4. dirty' = Regs /\ DirtyIn(E) = Regs
    BY <1>7, <2>3 DEF WritePage, Follow, DirtyIn
  <2>5. Executes = {TRUE}
    BY <2>1 DEF Executes
  <2>6. cpu' = "running" /\ burn'.page = m[2]
    BY <1>7, <2>1, <2>5 DEF WritePage
  <2>7. burn' # NoBurn
    BY <2>3, <2>6 DEF NoBurn, Pages
  <2>8. Puts(t)' /\ CleanRun'
    BY <2>2, <2>3, <2>6, <2>7 DEF Puts, CleanRun
  <2> QED
    BY <1>1, <2>1, <2>2, <2>4, <2>8, RegAlone
<1>8. CASE Verify(t)
  <2>1. m[1] = "verify" /\ Stopped /\ ~OthersHold(t) /\ UNCHANGED <<cpu, burn>>
    BY <1>8 DEF Verify, Is, m
  <2>2. /\ HeldIn(E) = {} /\ In("free", E) /\ ~In("reset_on", E)
    BY <1>2, <2>1 DEF Fits
  <2>3. \/ Sent(t)
        \/ todo' = [todo EXCEPT ![t] = FailedFlash]
    BY <1>8 DEF Verify, Sent
  <2>4. /\ HeldIn(Left(t)') = {} /\ DirtyIn(Left(t)') = Regs
        /\ \A u \in Others(t) : Left(u)' = Left(u)
    <3>1. CASE Sent(t)
      <4>1. Left(t)' = E /\ \A u \in Others(t) : Left(u)' = Left(u)
        BY <1>1, <3>1, AfterSent DEF E
      <4> QED
        BY <2>2, <4>1 DEF DirtyIn
    <3>2. CASE todo' = [todo EXCEPT ![t] = FailedFlash]
      <4>1. /\ Left(t)' = {Op("free"), <<"answer", "failed">>}
            /\ \A u \in Others(t) : Left(u)' = Left(u)
        BY <1>1, <3>2, FailedFlashFits DEF Left, Others
      <4> QED
        BY <4>1 DEF HeldIn, DirtyIn, In, Op, Restore
    <3> QED
      BY <2>3, <3>1, <3>2
  <2>5. dirty' \subseteq Regs
    BY <1>8 DEF Verify, Follow
  <2>6. Puts(t)' /\ CleanRun'
    BY <2>1, <2>4 DEF Puts, CleanRun, Stopped
  <2> QED
    BY <1>1, <2>1, <2>4, <2>5, <2>6, RegAlone
<1>9. CASE ~Verify(t) /\ ~WritePage(t) /\ ~(Load(t) /\ Stops(t))
  <2>1. m[1] \in {"name", "alloc", "load", "program", "wait", "par"} /\ Sent(t)
    BY <1>9 DEF SetName, Alloc, Load, Program, Wait, GetPar, Is, m
  <2>2. UNCHANGED <<chipVars, kept, halted>>
    BY <1>9 DEF SetName, Alloc, Load, Program, Wait, GetPar, handlerVars
  <2> QED
    BY <1>5, <2>1, <2>2
<1> QED
  BY <1>6, <1>7, <1>8, <1>9

\* A handler begins.
LEMMA AfterBegin ==
    ASSUME TypeOK, NEW t \in Threads, Poll(t) \/ \E c \in menu[t] : Begin(t, c)
    PROVE  /\ Left(t) = {} /\ Starts(Left(t)')
           /\ \A u \in Others(t) : Left(u)' = Left(u)
           /\ UNCHANGED <<chipVars, menu, kept, halted, fileVars, meant, upset, asked>>
<1>1. PICK h : Ordered(h) /\ todo' = [todo EXCEPT ![t] = h]
  <2>1. CASE Poll(t)
    BY <2>1, NotificationOrdered DEF Poll
  <2>2. ASSUME NEW c \in menu[t], Begin(t, c)
        PROVE  \E h : Ordered(h) /\ todo' = [todo EXCEPT ![t] = h]
    <3>1. c \in Commands
      BY MenuAssumption DEF TypeOK
    <3> QED
      BY <2>2, <3>1, HandlersOrdered DEF Begin
  <2> QED
    BY <2>1, <2>2
<1>2. todo[t] = <<>> /\ Elems(<<>>) = {}
  BY DEF Poll, Begin, Elems
<1>3. Left(t)' = Elems(h) /\ \A u \in Others(t) : Left(u)' = Left(u)
  BY <1>1 DEF TypeOK, Left, Others
<1>4. UNCHANGED <<chipVars, menu, kept, halted, fileVars, meant, upset, asked>>
  BY DEF Poll, Begin
<1> QED
  BY <1>1, <1>2, <1>3, <1>4 DEF Ordered, Left

LEMMA RegNext == TypeOK /\ RegInv /\ [Next]_vars => RegInv'
<1> SUFFICES ASSUME TypeOK, RegInv, [Next]_vars, ~upset' PROVE RegInv'
  BY DEF RegInv
<1>1. ASSUME NEW t \in Threads, Message(t)
      PROVE  RegInv'
  BY <1>1, RegInstr, RegRunControl, RegReset, RegFlash DEF Message
<1>2. ASSUME NEW t \in Threads, Poll(t) \/ \E c \in menu[t] : Begin(t, c)
      PROVE  RegInv'
  <2>1. /\ Left(t) = {} /\ HeldIn(Left(t)') = {}
        /\ \A u \in Others(t) : Left(u)' = Left(u)
        /\ UNCHANGED <<cpu, dirty, burn, kept, halted, upset>>
    BY <1>2, AfterBegin DEF Starts, chipVars
  <2>2. Puts(t)' /\ CleanRun' /\ (Stopped => Stopped') /\ ~upset
    BY <2>1 DEF RegInv, Puts, CleanRun, Stopped
  <2> QED
    BY <2>1, <2>2, RegKept, NothingLeft
<1>3. ASSUME NEW t \in Threads, Cut(t)
      PROVE  RegInv'
  <2>1. Left(t)' = {} /\ \A u \in Others(t) : Left(u)' = Left(u)
    BY <1>3, AfterStop DEF Cut, TypeOK
  <2>2. /\ ~upset /\ dirty = {} /\ dirty' = {} /\ UNCHANGED <<cpu, burn>>
        /\ \A u \in Others(t) : kept'[u] = kept[u] /\ halted'[u] = halted[u]
    BY <1>3 DEF Cut, Follow, TypeOK, Others
  <2>3. Puts(t)' /\ CleanRun'
    BY <2>1, <2>2, NothingLeft DEF Puts, CleanRun
  <2>4. \A u \in Others(t) : Puts(u)'
    BY <2>1, <2>2 DEF RegInv, Puts, Stopped, Others
  <2> QED
    BY <2>2, <2>3, <2>4 DEF RegInv, Others
<1>4. CASE HitBreakpoint \/ RoutineEnds
  <2>1. /\ UNCHANGED <<dirty, kept, halted, upset, todo>>
        /\ cpu = "running" /\ cpu' \in {"breakpoint", "halted"}
    BY <1>4 DEF HitBreakpoint, RoutineEnds, Arrives
  <2>2. \A t \in Threads : Left(t)' = Left(t)
    BY <2>1 DEF Left
  <2>3. \A t \in Threads : Puts(t)'
    BY <2>1, <2>2 DEF RegInv, Puts, Stopped
  <2>4. UNION {DirtyIn(Left(t)') : t \in Threads} = UNION {DirtyIn(Left(t)) : t \in Threads}
    BY <2>2
  <2> QED
    BY <2>1, <2>3, <2>4 DEF RegInv, CleanRun
<1>5. CASE UNCHANGED vars
  <2>1. /\ UNCHANGED <<cpu, dirty, burn, kept, halted, upset, todo>>
    BY <1>5 DEF vars, chipVars, handlerVars
  <2>2. \A t \in Threads : Left(t)' = Left(t)
    BY <2>1 DEF Left
  <2>3. \A t \in Threads : Puts(t)'
    BY <2>1, <2>2 DEF RegInv, Puts, Stopped
  <2>4. UNION {DirtyIn(Left(t)') : t \in Threads} = UNION {DirtyIn(Left(t)) : t \in Threads}
    BY <2>2
  <2> QED
    BY <2>1, <2>3, <2>4 DEF RegInv, CleanRun
<1> QED
  BY <1>1, <1>2, <1>3, <1>4, <1>5 DEF Next

LEMMA RegAlways == Spec => [](TypeOK /\ RegInv)
<1>1. Init => TypeOK /\ RegInv
  BY TypeInit, RegInit
<1>2. (TypeOK /\ RegInv) /\ [Next]_vars => (TypeOK /\ RegInv)'
  BY TypeNext, RegNext
<1> QED
  BY <1>1, <1>2, PTL DEF Spec

\* Registers that do not hold the program's value are among those a handler has
\* still to put back, and a program that runs has all of its own: the save and
\* restore of ACC, PSW, DPTR and MEMCTR around what the handlers of
\* debugserver.cpp do with the CPU.
THEOREM RegistersStayIntact == Spec => []RegistersIntact
<1>1. TypeOK /\ RegInv => RegistersIntact
  <2> SUFFICES ASSUME TypeOK, RegInv, ~upset PROVE RegistersIntact
    BY DEF RegistersIntact
  <2>1. \A t \in Threads : DirtyIn(Left(t)) \subseteq Held(t)
    BY DirtyIsHeld DEF TypeOK
  <2> QED
    BY <2>1 DEF RegInv, CleanRun, RegistersIntact
<1> QED
  BY <1>1, RegAlways, PTL

\* A register that a client is told, or that is saved to be put back, holds the
\* program's value when the message reads it: the order in which the handlers
\* save ACC, read registers through it and put it back.
THEOREM AnswersAreTrue == Spec => AnswersTrue
<1>1. TypeOK /\ RegInv /\ [Next]_vars =>
        [\A t \in Threads : (SaveReg(t) \/ TellReg(t)) /\ ~upset' => Arg(t) \notin dirty]_vars
  <2> SUFFICES ASSUME TypeOK, RegInv, NEW t \in Threads, SaveReg(t) \/ TellReg(t), ~upset'
               PROVE  Arg(t) \notin dirty
    OBVIOUS
  <2> DEFINE m == Head(todo[t])
             E == Rest(t)
  <2>1. todo \in [Threads -> Rests] /\ todo[t] # <<>> /\ Instr(t)
    BY DEF TypeOK, SaveReg, TellReg, Is
  <2>2. ~upset /\ ~OthersHold(t)
    BY <2>1 DEF Instr
  <2>3. Fits(m, E) /\ Left(t) = {m} \cup E
    BY <2>1, NextMessage
  <2>4. dirty \subseteq DirtyIn({m} \cup E)
    BY <2>1, <2>2, <2>3, DirtyAlone
  <2>5. Arg(t) = m[2] /\ m[1] \in {"save", "tell"}
    BY DEF SaveReg, TellReg, Is, Arg
  <2> HIDE DEF m, E
  <2>6. Plain(E) /\ Plain({m} \cup E)
    BY <2>3, <2>5, SameIn DEF Fits, Plain
  <2>7. dirty \subseteq HeldIn({m} \cup E)
    BY <2>4, <2>6, PlainDirty
  <2>8. m[2] \notin HeldIn({m} \cup E)
    <3>1. CASE m[1] = "save"
      BY <2>3, <3>1 DEF Fits, HeldIn, Save
    <3>2. CASE m[1] = "tell"
      BY <2>3, <3>2, SameHeld DEF Fits
    <3> QED
      BY <2>5, <3>1, <3>2
  <2> QED
    BY <2>5, <2>7, <2>8
<1> QED
  BY <1>1, RegAlways, PTL DEF Spec, AnswersTrue

-----------------------------------------------------------------------------
(* Run control.  When the run state is known and no handler has the chip    *)
(* taken over, a handler that will resume the CPU is there only while the   *)
(* CPU is meant to run, and without one the CPU is as it is meant to be.    *)

Holds(E) == (In("debug", E) \/ In("answer", E)) /\ ~In("reset_on", E)
Returns(t) == In("resume_if", Left(t)) /\ ~In("status", Left(t)) /\ ~halted[t]

RunInv ==
    meant # "any" /\ (\A t \in Threads : ~Holds(Left(t))) =>
        /\ cpu # "reset"
        /\ \A t \in Threads : Returns(t) => meant = "running"
        /\ (\A t \in Threads : ~Returns(t)) => (Stopped <=> meant = "halted")

LEMMA EngagedIs ==
    ASSUME todo \in [Threads -> Rests], NEW t \in Threads
    PROVE  Engaged(t) <=> Returns(t) \/ Holds(Left(t))
  BY HeldIs DEF Engaged, Returns, Holds

\* A step that leaves the run state alone.
LEMMA RunKept ==
    ASSUME RunInv, NEW t \in Threads,
           \A u \in Others(t) : Left(u)' = Left(u) /\ halted'[u] = halted[u],
           meant' = meant, Stopped <=> Stopped', cpu' = "reset" => cpu = "reset",
           Holds(Left(t)) => Holds(Left(t)'), Returns(t)' <=> Returns(t)
    PROVE  RunInv'
<1>1. \A u \in Threads : Holds(Left(u)) => Holds(Left(u)')
  BY DEF Others
<1>2. \A u \in Threads : Returns(u)' <=> Returns(u)
  BY DEF Returns, Others
<1> QED
  BY <1>1, <1>2 DEF RunInv

\* After a step of a thread that has the chip taken over.
LEMMA RunHeld ==
    ASSUME NEW t \in Threads, Holds(Left(t)')
    PROVE  RunInv'
  BY DEF RunInv

\* A step of t that puts the CPU in a run state when no other is engaged.
LEMMA RunSet ==
    ASSUME todo \in [Threads -> Rests], NEW t \in Threads, NEW s,
           \A u \in Others(t) : Left(u)' = Left(u) /\ halted'[u] = halted[u],
           Means(s, Others(t)), ~Returns(t)',
           s # "any" => cpu' # "reset" /\ (Stopped' <=> s = "halted")
    PROVE  RunInv'
<1> SUFFICES ASSUME meant' # "any" PROVE RunInv'
  BY DEF RunInv
<1>1. meant' = s /\ \A u \in Others(t) : ~Engaged(u)
  BY DEF Means
<1>2. \A u \in Others(t) : ~Returns(u)'
  BY <1>1, EngagedIs DEF Returns, Others
<1> QED
  BY <1>1, <1>2 DEF RunInv, Others

LEMMA RunInit == Init => RunInv
<1> SUFFICES ASSUME Init PROVE RunInv
  OBVIOUS
<1>1. \A t \in Threads : Left(t) = {}
  <2>1. Elems(<<>>) = {}
    BY DEF Elems
  <2> QED
    BY <2>1 DEF Init, Left
<1> QED
  BY <1>1, NothingLeft DEF Init, RunInv, Returns, Stopped

\* Messages that are not about the run state.
LEMMA RunMessage ==
    ASSUME TypeOK, RunInv, NEW t \in Threads, todo[t] # <<>>, Sent(t),
           Head(todo[t])[1] \notin {"status", "resume_if", "debug", "answer", "reset_on"},
           UNCHANGED <<halted, meant>>, Stopped <=> Stopped', cpu' = "reset" => cpu = "reset"
    PROVE  RunInv'
<1> DEFINE m == Head(todo[t])
           E == Rest(t)
<1>1. /\ Left(t) = {m} \cup E
      /\ Left(t)' = E /\ \A u \in Others(t) : Left(u)' = Left(u)
  BY NextMessage, AfterSent DEF TypeOK
<1> HIDE DEF E
<1>2. Holds(Left(t)) => Holds(E)
  BY <1>1, SameIn DEF Holds
<1>3. Returns(t)' <=> Returns(t)
  BY <1>1, SameIn DEF Returns
<1> QED
  BY <1>1, <1>2, <1>3, RunKept

LEMMA RunNext == TypeOK /\ RunInv /\ [Next]_vars => RunInv'
<1> SUFFICES ASSUME TypeOK, RunInv, [Next]_vars PROVE RunInv'
  OBVIOUS
<1>1. ASSUME NEW t \in Threads, Message(t)
      PROVE  RunInv'
  <2> DEFINE m == Head(todo[t])
             E == Rest(t)
  <2>1. todo \in [Threads -> Rests] /\ todo[t] # <<>>
    BY <1>1 DEF TypeOK, Message, SaveReg, TellReg, RestoreReg, SetReg, UseRegs, SetPCOf,
       GetStatus, HaltIf, ResumeIf, Halt, Resume, Step, ResetOn, ResetOff, EnterDebugMode,
       SetName, Alloc, Load, Program, WritePage, Wait, Verify, GetPar, Is
  <2>2. Fits(m, E) /\ Left(t) = {m} \cup E /\ m \in {m} \cup E
    BY <2>1, NextMessage
  <2>3. Sent(t) => Left(t)' = E /\ \A u \in Others(t) : Left(u)' = Left(u)
    BY <2>1, AfterSent
  <2>4. CASE SaveReg(t) \/ TellReg(t) \/ RestoreReg(t) \/ SetReg(t) \/ UseRegs(t) \/ SetPCOf(t)
    <3>1. /\ Sent(t) /\ UNCHANGED <<cpu, halted, meant>>
          /\ m[1] \in {"save", "tell", "restore", "set", "use", "setpc"}
      BY <2>4 DEF SaveReg, TellReg, RestoreReg, SetReg, UseRegs, SetPCOf, Instr, Is
    <3> QED
      BY <2>1, <3>1, RunMessage DEF Stopped
  <2>5. CASE SetName(t) \/ Alloc(t) \/ Program(t) \/ Wait(t) \/ GetPar(t) \/ (Load(t) /\ Sent(t))
    <3>1. /\ Sent(t) /\ UNCHANGED <<cpu, halted, meant>>
          /\ m[1] \in {"name", "alloc", "program", "wait", "par", "load"}
      BY <2>5 DEF SetName, Alloc, Program, Wait, GetPar, Load, Is, chipVars, handlerVars
    <3> QED
      BY <2>1, <3>1, RunMessage DEF Stopped
  <2>6. CASE Step(t)
    <3>1. /\ Sent(t) /\ UNCHANGED <<halted, meant>> /\ m[1] = "step"
          /\ cpu' = IF Stopped THEN "halted" ELSE cpu
      BY <2>6 DEF Step, Is
    <3> QED
      BY <2>1, <3>1, RunMessage DEF Stopped
  <2> HIDE DEF m, E
  <2>7. CASE GetStatus(t)
    <3>1. /\ m[1] = "status" /\ Sent(t) /\ UNCHANGED <<cpu, meant>>
          /\ \A u \in Others(t) : halted'[u] = halted[u]
      BY <2>7 DEF GetStatus, Is, m, TypeOK, Others, chipVars
    <3>2. cpu # "reset" => (halted'[t] <=> Stopped)
      BY <2>7 DEF GetStatus, TypeOK, Statuses
    <3>3. ~Returns(t)
      BY <2>2, <3>1 DEF Returns, In
    <3>4. \A u \in Others(t) : Holds(Left(u)') = Holds(Left(u)) /\ (Returns(u)' <=> Returns(u))
      BY <2>3, <3>1 DEF Returns
    <3>5. Holds(Left(t)') = Holds(Left(t))
      BY <2>2, <2>3, <3>1, SameIn DEF Holds
    <3>6. Stopped' = Stopped
      BY <3>1 DEF Stopped
    <3> SUFFICES ASSUME meant # "any", \A u \in Threads : ~Holds(Left(u)), cpu # "reset"
                 PROVE  /\ \A u \in Threads : Returns(u)' => meant = "running"
                        /\ (\A u \in Threads : ~Returns(u)') => (Stopped <=> meant = "halted")
      BY <3>1, <3>4, <3>5, <3>6 DEF RunInv, Others
    <3>7. \A u \in Threads : Returns(u) => meant = "running"
      BY DEF RunInv
    <3>8. Returns(t)' => ~Stopped
      BY <3>2 DEF Returns
    <3>9. (\A u \in Threads : ~Returns(u)) => (Stopped <=> meant = "halted")
      BY DEF RunInv
    <3>10. Returns(t)' => meant = "running"
      BY <3>3, <3>4, <3>7, <3>8, <3>9 DEF Others, TypeOK
    <3> QED
      BY <3>3, <3>4, <3>7, <3>9, <3>10 DEF Others
  <2>8. CASE HaltIf(t)
    <3>1. m[1] = "halt_if" /\ Sent(t) /\ UNCHANGED <<halted, meant>>
      BY <2>8 DEF HaltIf, Is, m, handlerVars
    <3>2. CASE halted[t]
      <4>1. cpu' = cpu
        BY <2>8, <3>2 DEF HaltIf
      <4> QED
        BY <2>1, <3>1, <4>1, RunMessage DEF Stopped, m
    <3>3. CASE ~halted[t]
      <4>1. cpu' = IF cpu = "running" THEN "halted" ELSE cpu
        BY <2>8, <3>3 DEF HaltIf
      <4>2. Returns(t) /\ Returns(t)'
        BY <2>2, <2>3, <3>1, <3>3, SameIn DEF Returns, Fits
      <4>3. Holds(Left(t)') = Holds(Left(t))
        BY <2>2, <2>3, <3>1, SameIn DEF Holds
      <4>4. \A u \in Threads : Holds(Left(u)') = Holds(Left(u)) /\ (Returns(u)' <=> Returns(u))
        BY <2>3, <3>1, <4>2, <4>3 DEF Returns, Others
      <4> QED
        BY <3>1, <4>1, <4>2, <4>4 DEF RunInv
    <3> QED
      BY <3>2, <3>3
  <2>9. CASE ResumeIf(t)
    <3>1. /\ m[1] = "resume_if" /\ Sent(t) /\ UNCHANGED meant
          /\ \A u \in Others(t) : halted'[u] = halted[u]
      BY <2>9 DEF ResumeIf, Is, m, TypeOK, Others
    <3>2. ~In("resume_if", E) /\ ~In("status", E)
      BY <2>2, <3>1 DEF Fits
    <3>3. Holds(Left(t)') = Holds(Left(t)) /\ ~Returns(t)'
      BY <2>2, <2>3, <3>1, <3>2, SameIn DEF Holds, Returns
    <3>4. CASE halted[t]
      <4>1. cpu' = cpu /\ ~Returns(t)
        BY <2>9, <3>4 DEF ResumeIf, Returns
      <4> QED
        BY <2>3, <3>1, <3>3, <4>1, RunKept DEF Stopped
    <3>5. CASE ~halted[t]
      <4>1. cpu' = IF Stopped THEN "running" ELSE cpu
        BY <2>9, <3>5 DEF ResumeIf
      <4>2. In("resume_if", {m} \cup E) /\ ~In("status", {m} \cup E)
        BY <2>2, <3>1, <3>2, SameIn DEF In
      <4>3. Returns(t)
        BY <2>2, <3>5, <4>2 DEF Returns
      <4>4. \A u \in Threads : Holds(Left(u)') = Holds(Left(u))
        BY <2>3, <3>1, <3>3 DEF Others
      <4> SUFFICES ASSUME meant # "any", \A u \in Threads : ~Holds(Left(u))
                   PROVE  RunInv'
        BY <3>1, <4>4 DEF RunInv
      <4>5. meant = "running" /\ cpu # "reset"
        BY <4>3 DEF RunInv
      <4>6. cpu' = "running"
        BY <4>1, <4>5 DEF TypeOK, Stopped
      <4> QED
        BY <3>1, <4>5, <4>6 DEF RunInv, Stopped
    <3> QED
      BY <3>4, <3>5
  <2>10. CASE Halt(t)
    <3>1. m[1] = "halt" /\ Sent(t) /\ halted' = halted
      BY <2>10 DEF Halt, Is, m, handlerVars
    <3>2. ~Returns(t)'
      BY <2>2, <2>3, <3>1 DEF Fits, Asks, Returns
    <3> DEFINE s == IF cpu = "reset" THEN "any" ELSE "halted"
    <3>3. Means(s, Others(t)) /\ cpu' = IF cpu = "running" THEN "halted" ELSE cpu
      BY <2>10 DEF Halt
    <3>4. s # "any" => cpu' # "reset" /\ (Stopped' <=> s = "halted")
      BY <3>3 DEF TypeOK, Stopped
    <3> HIDE DEF s
    <3> QED
      BY <2>1, <2>3, <3>1, <3>2, <3>3, <3>4, RunSet
  <2>11. CASE Resume(t)
    <3>1. m[1] = "resume" /\ Sent(t) /\ halted' = halted
      BY <2>11 DEF Resume, Is, m
    <3>2. ~Returns(t)'
      BY <2>2, <2>3, <3>1 DEF Fits, Asks, Returns
    <3> DEFINE s == IF cpu = "reset" THEN "any" ELSE "running"
    <3>3. Means(s, Others(t)) /\ cpu' = IF Stopped THEN "running" ELSE cpu
      BY <2>11 DEF Resume
    <3>4. s # "any" => cpu' # "reset" /\ (Stopped' <=> s = "halted")
      BY <3>3 DEF TypeOK, Stopped
    <3> HIDE DEF s
    <3> QED
      BY <2>1, <2>3, <3>1, <3>2, <3>3, <3>4, RunSet
  <2>12. CASE ResetOn(t)
    <3>1. m[1] \in {"reset_on", "free"} /\ Sent(t)
      BY <2>12 DEF ResetOn, Is, m
    <3>2. Holds(E)
      BY <2>2, <3>1 DEF Fits, Holds
    <3> QED
      BY <2>3, <3>1, <3>2, RunHeld
  <2>13. CASE ResetOff(t)
    <3>1. m[1] \in {"reset_off", "answer"} /\ Sent(t) /\ halted' = halted
      BY <2>13 DEF ResetOff, Is, m, handlerVars
    <3>2. CASE m[1] = "reset_off"
      BY <2>2, <2>3, <3>1, <3>2, RunHeld DEF Fits, Holds
    <3>3. CASE m[1] = "answer"
      <4>1. ~Returns(t)'
        BY <2>2, <2>3, <3>1, <3>3, NothingLeft DEF Fits, Returns
      <4> DEFINE s == IF cpu = "reset" THEN "running" ELSE "any"
      <4>2. Means(s, Others(t)) /\ cpu' = IF cpu = "reset" THEN "running" ELSE cpu
        BY <2>13 DEF ResetOff
      <4>3. s # "any" => cpu' # "reset" /\ (Stopped' <=> s = "halted")
        BY <4>2 DEF Stopped
      <4> HIDE DEF s
      <4> QED
        BY <2>1, <2>3, <3>1, <4>1, <4>2, <4>3, RunSet
    <3> QED
      BY <3>1, <3>2, <3>3
  <2>14. CASE EnterDebugMode(t)
    <3>1. m[1] = "debug" /\ Sent(t) /\ halted' = halted /\ cpu' = "halted"
      BY <2>14 DEF EnterDebugMode, Is, m
    <3>2. ~Returns(t)'
      BY <2>2, <2>3, <3>1 DEF Fits, Asks, Returns
    <3>3. Means("halted", Others(t))
      BY <2>14 DEF EnterDebugMode
    <3> QED
      BY <2>1, <2>3, <3>1, <3>2, <3>3, RunSet DEF Stopped
  <2>15. CASE Load(t) /\ Stops(t)
    <3>1. Left(t)' = {} /\ \A u \in Others(t) : Left(u)' = Left(u)
      BY <2>1, <2>15, AfterStop
    <3>2. m[1] = "load" /\ UNCHANGED <<cpu, halted, meant>>
      BY <2>15 DEF Load, Is, m, chipVars, handlerVars
    <3>3. In("reset_on", {m} \cup E) /\ ~In("resume_if", {m} \cup E)
      BY <2>2, <3>2, SameIn DEF Fits
    <3> QED
      BY <2>2, <3>1, <3>2, <3>3, RunKept, NothingLeft DEF Holds, Returns, Stopped
  <2>16. CASE WritePage(t)
    <3>1. m[1] = "page" /\ Sent(t)
      BY <2>16 DEF WritePage, Is, m
    <3>2. Holds(E)
      BY <2>2, <3>1 DEF Fits, Holds
    <3> QED
      BY <2>3, <3>1, <3>2, RunHeld
  <2>17. CASE Verify(t)
    <3>1. m[1] = "verify" /\ (Sent(t) \/ todo' = [todo EXCEPT ![t] = FailedFlash])
      BY <2>17 DEF Verify, Is, m, Sent
    <3>2. CASE Sent(t)
      BY <2>2, <2>3, <3>1, <3>2, RunHeld DEF Fits, Holds
    <3>3. CASE todo' = [todo EXCEPT ![t] = FailedFlash]
      <4>1. Left(t)' = {Op("free"), <<"answer", "failed">>}
        BY <2>1, <3>3, FailedFlashFits DEF Left
      <4>2. <<"answer", "failed">> \in Left(t)' /\ <<"answer", "failed">>[1] = "answer"
        BY <4>1
      <4>3. In("answer", Left(t)') /\ ~In("reset_on", Left(t)')
        BY <4>1, <4>2 DEF In, Op
      <4> QED
        BY <4>3, RunHeld DEF Holds
    <3> QED
      BY <3>1, <3>2, <3>3
  <2>18. Load(t) => Sent(t) \/ Stops(t)
    BY DEF Load
  <2> QED
    BY <1>1, <2>4, <2>5, <2>6, <2>7, <2>8, <2>9, <2>10, <2>11, <2>12, <2>13, <2>14, <2>15,
       <2>16, <2>17, <2>18 DEF Message
<1>2. ASSUME NEW t \in Threads, Poll(t) \/ \E c \in menu[t] : Begin(t, c)
      PROVE  RunInv'
  <2>1. /\ Left(t) = {} /\ Asks(Left(t)')
        /\ \A u \in Others(t) : Left(u)' = Left(u)
        /\ UNCHANGED <<cpu, halted, meant>>
    BY <1>2, AfterBegin DEF Starts, chipVars
  <2>2. ~Returns(t) /\ ~Returns(t)' /\ ~Holds(Left(t)) /\ (Stopped <=> Stopped')
    BY <2>1, NothingLeft DEF Returns, Holds, Asks, Stopped
  <2> QED
    BY <2>1, <2>2, RunKept
<1>3. ASSUME NEW t \in Threads, Cut(t)
      PROVE  RunInv'
  <2>1. Left(t)' = {} /\ \A u \in Others(t) : Left(u)' = Left(u)
    BY <1>3, AfterStop DEF Cut, TypeOK
  <2>2. UNCHANGED cpu /\ \A u \in Others(t) : halted'[u] = halted[u]
    BY <1>3 DEF Cut, TypeOK, Others
  <2> SUFFICES ASSUME meant' # "any" PROVE RunInv'
    BY DEF RunInv
  <2>3. meant' = meant /\ ~Engaged(t)
    BY <1>3 DEF Cut
  <2>4. ~Returns(t) /\ ~Holds(Left(t))
    BY <2>3, EngagedIs DEF TypeOK
  <2> QED
    BY <2>1, <2>2, <2>3, <2>4, RunKept, NothingLeft DEF Returns, Stopped
<1>4. CASE HitBreakpoint \/ RoutineEnds
  <2>1. /\ UNCHANGED <<halted, todo>> /\ Means("halted", Threads)
        /\ cpu' \in {"breakpoint", "halted"}
    BY <1>4 DEF HitBreakpoint, RoutineEnds, Arrives
  <2>2. \A t \in Threads : Left(t)' = Left(t) /\ (Returns(t)' <=> Returns(t))
    BY <2>1 DEF Left, Returns
  <2> SUFFICES ASSUME meant' # "any" PROVE RunInv'
    BY DEF RunInv
  <2>3. meant' = "halted" /\ \A t \in Threads : ~Engaged(t)
    BY <2>1 DEF Means
  <2>4. \A t \in Threads : ~Returns(t)
    BY <2>3, EngagedIs DEF TypeOK
  <2> QED
    BY <2>1, <2>2, <2>3, <2>4 DEF RunInv, Stopped
<1>5. CASE UNCHANGED vars
  <2>1. UNCHANGED <<cpu, halted, meant, todo>>
    BY <1>5 DEF vars, chipVars, handlerVars
  <2>2. \A t \in Threads : Left(t)' = Left(t) /\ (Returns(t)' <=> Returns(t))
    BY <2>1 DEF Left, Returns
  <2> QED
    BY <2>1, <2>2 DEF RunInv, Stopped
<1> QED
  BY <1>1, <1>2, <1>3, <1>4, <1>5 DEF Next

LEMMA RunAlways == Spec => [](TypeOK /\ RunInv)
<1>1. Init => TypeOK /\ RunInv
  BY TypeInit, RunInit
<1>2. (TypeOK /\ RunInv) /\ [Next]_vars => (TypeOK /\ RunInv)'
  BY TypeNext, RunNext
<1> QED
  BY <1>1, <1>2, PTL DEF Spec

\* With no handler in between, the CPU runs or is stopped as the last command
\* or breakpoint had it: the bHalted that every handler of debugserver.cpp reads
\* before it halts the CPU, and resumes it by.
THEOREM RunStateStaysAsMeant == Spec => []RunStateAsMeant
<1>1. TypeOK /\ RunInv => RunStateAsMeant
  BY EngagedIs DEF TypeOK, RunInv, RunStateAsMeant
<1> QED
  BY <1>1, RunAlways, PTL

\* A client is told of the end of a run when the program has stopped, not when
\* another handler holds it for a moment: the getStatus of the connection thread
\* after FN_RUN_TARGET.
THEOREM EndOfRunReal == Spec => EndOfRunIsReal
<1>1. TypeOK /\ RunInv /\ [Next]_vars =>
        [\A t \in Threads : Poll(t) => meant # "running" \/ OthersEngaged(t)]_vars
  <2> SUFFICES ASSUME TypeOK, RunInv, NEW t \in Threads, Poll(t), meant = "running",
                      ~OthersEngaged(t)
               PROVE  FALSE
    OBVIOUS
  <2>1. \A u \in Others(t) : ~Returns(u) /\ ~Holds(Left(u))
    BY EngagedIs DEF OthersEngaged, Others, TypeOK
  <2>2. Left(t) = {} /\ ~Returns(t) /\ ~Holds(Left(t))
    BY AfterBegin, NothingLeft DEF Returns, Holds
  <2>3. cpu # "reset" /\ ~Stopped
    BY <2>1, <2>2 DEF RunInv, Others
  <2>4. TRUE \in Statuses
    BY DEF Poll, SeesStop
  <2> QED
    BY <2>3, <2>4 DEF Statuses
<1> QED
  BY <1>1, RunAlways, PTL DEF Spec, EndOfRunIsReal

-----------------------------------------------------------------------------
(* The flash command.  A command that promises to write a file has reached  *)
(* some message of write(), and until it answers the buffer, the chip and   *)
(* the pages are as that message needs them; or it has failed.              *)

\* what is left of write() from its n-th message on
From(n) == SubSeq(Flash, n, 13)

Named(t) == IF given[t] # NoFile THEN given[t] ELSE name

Reached(t, n) ==
    /\ n <= 3 => asked[t] = Named(t)
    /\ n >= 4 => buff = asked[t]
    /\ n >= 7 => ptr[t] = "live"
    /\ n \in {5, 13} => cpu = "reset" /\ burn = NoBurn
    /\ n \in {6, 7, 9, 10, 12} => cpu = "halted" /\ burn = NoBurn
    /\ n = 8 => \/ cpu = "running" /\ burn = [page |-> 1, content |-> asked[t]]
                \/ cpu = "halted" /\ burn = NoBurn /\ flash[1] = asked[t]
    /\ n = 11 => \/ cpu = "running" /\ burn = [page |-> 2, content |-> asked[t]]
                 \/ cpu = "halted" /\ burn = NoBurn /\ flash[2] = asked[t]
    /\ n >= 9 => flash[1] = asked[t]
    /\ n >= 12 => flash[2] = asked[t]

Failed(t) == todo[t] = FailedFlash \/ todo[t] = Tail(FailedFlash)

Promise(t) ==
    asked[t] # NoFile => (\E n \in 2 .. 13 : todo[t] = From(n) /\ Reached(t, n)) \/ Failed(t)

FlashInv == \A t \in Threads : Promise(t)

LEMMA FlashIs ==
    /\ Flash \in Seq(Msgs) /\ Len(Flash) = 13
    /\ Flash[1] = <<"name">> /\ Flash[2] = <<"alloc">> /\ Flash[3] = <<"load">>
    /\ Flash[4] = <<"reset_on">> /\ Flash[5] = <<"debug">> /\ Flash[6] = <<"program">>
    /\ Flash[7] = <<"page", 1>> /\ Flash[8] = <<"wait", 1>> /\ Flash[9] = <<"verify", 1>>
    /\ Flash[10] = <<"page", 2>> /\ Flash[11] = <<"wait", 2>> /\ Flash[12] = <<"free">>
    /\ Flash[13] = <<"answer", "ok">>
<1>1. Flash \in Seq(Msgs)
  BY FlashFits DEF Ordered, Fit
<1>2. Len(Flash) = 13
  BY DEF Flash
<1>3. /\ Flash[1] = <<"name">> /\ Flash[2] = <<"alloc">> /\ Flash[3] = <<"load">>
      /\ Flash[4] = <<"reset_on">> /\ Flash[5] = <<"debug">> /\ Flash[6] = <<"program">>
  BY DEF Flash, Op
<1>4. /\ Flash[7] = <<"page", 1>> /\ Flash[8] = <<"wait", 1>> /\ Flash[9] = <<"verify", 1>>
      /\ Flash[10] = <<"page", 2>> /\ Flash[11] = <<"wait", 2>> /\ Flash[12] = <<"free">>
      /\ Flash[13] = <<"answer", "ok">>
  BY DEF Flash, Op
<1> QED
  BY <1>1, <1>2, <1>3, <1>4

LEMMA FlashMsgs ==
    ASSUME NEW i \in 1 .. 13
    PROVE  Flash[i] \in Msgs
<1>1. Flash \in Seq(Msgs) /\ i \in 1 .. Len(Flash)
  BY FlashIs
<1> QED
  BY <1>1, ElementOfSeq

LEMMA FromIs ==
    /\ From(1) = Flash /\ From(14) = <<>>
    /\ \A n \in 1 .. 13 : From(n) # <<>> /\ Head(From(n)) = Flash[n] /\ Tail(From(n)) = From(n + 1)
<1>1. From(1) = Flash
  BY FlashIs, SubSeqFull DEF From
<1>2. From(14) = <<>>
  BY SubSeqEmpty DEF From
<1>3. ASSUME NEW n \in 1 .. 13
      PROVE  From(n) # <<>> /\ Head(From(n)) = Flash[n] /\ Tail(From(n)) = From(n + 1)
  <2>1. Head(From(n)) = Flash[n] /\ Tail(From(n)) = From(n + 1)
    BY FlashIs, HeadTailOfSubSeq DEF From
  <2>2. Len(From(n)) = 13 - n + 1
    <3>1. \A i \in n .. 13 : Flash[i] \in Msgs
      BY FlashMsgs
    <3> QED
      BY <3>1, SubSeqProperties DEF From
  <2>3. Len(<<>>) = 0
    OBVIOUS
  <2> QED
    BY <2>1, <2>2, <2>3
<1> QED
  BY <1>1, <1>2, <1>3

\* Only the flash command names a file, and it does so first.
LEMMA NameIsFirst ==
    ASSUME NEW s \in Rests, s # <<>>, Head(s)[1] = "name"
    PROVE  s = From(1)
<1>1. PICK w \in Whole : s \in Suffixes(w)
  BY DEF Rests, Whole
<1>2. PICK n \in 1 .. Len(w) + 1 : s = SubSeq(w, n, Len(w))
  BY <1>1 DEF Suffixes
<1>3. w \in Seq(Msgs) /\ Len(w) \in Nat /\ Fit(w, {})
  BY WholeFits
<1>4. n \in 1 .. Len(w) /\ w[n] = Head(s)
  <2>1. n <= Len(w)
    BY <1>2, <1>3, SubSeqEmpty
  <2> QED
    BY <1>2, <1>3, <2>1, HeadTailOfSubSeq
<1>5. In("free", After(w, n) \cup {})
  BY <1>3, <1>4 DEF Fit, Fits
<1>6. In("free", Elems(w)) /\ w[n] \in Elems(w)
  BY <1>3, <1>4, <1>5 DEF In, After, Elems
<1>7. w # FailedFlash
  BY <1>4, <1>6, FailedFlashFits DEF Op
<1>8. w = Flash
  BY <1>6, <1>7, HandlersOrdered, NotificationOrdered DEF Whole, Ordered
<1>9. n = 1
  BY <1>4, <1>8, FlashIs
<1> QED
  BY <1>2, <1>8, <1>9, FlashIs, FromIs DEF From

\* Where a flash command stands, by the messages left.
LEMMA FromHas ==
    ASSUME todo \in [Threads -> Rests], NEW t \in Threads, NEW n \in 1 .. 13, todo[t] = From(n)
    PROVE  /\ Has(t, "load") <=> n <= 3
           /\ t \in Loading <=> n >= 3
           /\ Holding(t) <=> n >= 5
           /\ Has(t, "answer")
<1>1. \A i \in n .. 13 : Flash[i] \in Msgs
  BY FlashMsgs
<1>2. /\ todo[t] \in Seq(Msgs) /\ Len(todo[t]) = 13 - n + 1
      /\ \A i \in 1 .. 13 - n + 1 : todo[t][i] = Flash[n + i - 1]
  BY <1>1, SubSeqProperties DEF From
<1>3. ASSUME NEW k \in n .. 13
      PROVE  Has(t, Flash[k][1])
  <2>1. k - n + 1 \in DOMAIN todo[t] /\ todo[t][k - n + 1] = Flash[k]
    BY <1>2
  <2> QED
    BY <2>1 DEF Has
<1>4. ASSUME NEW op, Has(t, op)
      PROVE  \E k \in n .. 13 : Flash[k][1] = op
  <2>1. PICK i \in DOMAIN todo[t] : todo[t][i][1] = op
    BY <1>4 DEF Has
  <2>2. n + i - 1 \in n .. 13 /\ Flash[n + i - 1][1] = op
    BY <1>2, <2>1
  <2> QED
    BY <2>2
<1>5. /\ Has(t, "load") <=> n <= 3
      /\ Has(t, "alloc") <=> n <= 2
      /\ Has(t, "reset_on") <=> n <= 4
      /\ Has(t, "answer")
  <2>0. /\ Flash[3][1] = "load" /\ Flash[2][1] = "alloc"
        /\ Flash[4][1] = "reset_on" /\ Flash[13][1] = "answer"
    BY FlashIs
  <2>1. n <= 3 => Has(t, "load")
    BY <1>3, <2>0
  <2>2. n <= 2 => Has(t, "alloc")
    BY <1>3, <2>0
  <2>3. n <= 4 => Has(t, "reset_on")
    BY <1>3, <2>0
  <2>4. Has(t, "answer")
    BY <1>3, <2>0
  <2>5. \A k \in 4 .. 13 : Flash[k][1] # "load"
    BY FlashIs
  <2>6. \A k \in 3 .. 13 : Flash[k][1] # "alloc"
    BY FlashIs
  <2>7. \A k \in 5 .. 13 : Flash[k][1] # "reset_on"
    BY FlashIs
  <2> QED
    BY <1>4, <2>1, <2>2, <2>3, <2>4, <2>5, <2>6, <2>7
<1> QED
  BY <1>5 DEF Loading, Holding

\* A step of another thread, or of the chip, that breaks no promise.
LEMMA PromiseKept ==
    ASSUME TypeOK, NEW w \in Threads, Promise(w), todo'[w] = todo[w],
           asked'[w] \in {asked[w], NoFile},
           asked'[w] # NoFile =>
              /\ Has(w, "load") => Named(w)' = Named(w)
              /\ w \in Loading => buff' = buff /\ ptr'[w] = ptr[w]
              /\ Holding(w) /\ Has(w, "answer") => UNCHANGED <<cpu, burn, flash>>
    PROVE  Promise(w)'
<1> SUFFICES ASSUME asked'[w] # NoFile, asked'[w] = asked[w], ~Failed(w)
             PROVE  Promise(w)'
  BY DEF Promise, Failed
<1>1. PICK n \in 2 .. 13 : todo[w] = From(n) /\ Reached(w, n)
  BY DEF Promise
<1>2. /\ n <= 3 => Named(w)' = Named(w)
      /\ n >= 3 => buff' = buff /\ ptr'[w] = ptr[w]
      /\ n >= 5 => UNCHANGED <<cpu, burn, flash>>
  BY <1>1, FromHas DEF TypeOK
<1>3. Reached(w, n)'
  BY <1>1, <1>2 DEF Reached
<1>4. From(n)' = From(n)
  BY DEF From, Flash, Op
<1> QED
  BY <1>1, <1>3, <1>4 DEF Promise

LEMMA FlashInit == Init => FlashInv
  BY DEF Init, FlashInv, Promise

LEMMA FlashOthers ==
    ASSUME TypeOK, FlashInv, NEW t \in Threads, Message(t), NEW w \in Others(t)
    PROVE  Promise(w)'
<1>1. w \in Threads /\ w # t /\ Promise(w)
  BY DEF Others, FlashInv
<1>2. CASE SetName(t)
  <2>1. PICK f \in Files \cup {NoFile} :
          /\ given' = [given EXCEPT ![t] = f]
          /\ name' = IF f = NoFile THEN name ELSE f
          /\ asked' = [u \in Threads |->
                          IF u = t THEN name'
                          ELSE IF f # NoFile /\ given[u] = NoFile /\ Has(u, "load") THEN NoFile
                          ELSE asked[u]]
    BY <1>2 DEF SetName
  <2>2. asked'[w] # NoFile /\ Has(w, "load") => Named(w)' = Named(w)
    BY <1>1, <2>1 DEF Named, TypeOK
  <2>3. todo'[w] = todo[w] /\ UNCHANGED <<cpu, burn, flash, buff, ptr>>
    BY <1>1, <1>2 DEF SetName, Sent, TypeOK, chipVars
  <2>4. asked'[w] \in {asked[w], NoFile}
    BY <1>1, <2>1
  <2> QED
    BY <1>1, <2>2, <2>3, <2>4, PromiseKept
<1>3. CASE Alloc(t) \/ Load(t)
  <2>1. todo'[w] = todo[w] /\ UNCHANGED <<cpu, burn, flash, name>> /\ given'[w] = given[w]
    BY <1>1, <1>3 DEF Alloc, Load, Sent, Stops, TypeOK, chipVars
  <2>2. asked'[w] \in {asked[w], NoFile} /\ (asked'[w] # NoFile => w \notin Loading)
    BY <1>1, <1>3 DEF Alloc, Load, Crosses
  <2> QED
    BY <1>1, <2>1, <2>2, PromiseKept DEF Named
<1>4. CASE /\ todo'[w] = todo[w] /\ UNCHANGED <<name, buff>>
           /\ given'[w] = given[w] /\ ptr'[w] = ptr[w]
           /\ Disturbs(t) \/ UNCHANGED <<cpu, burn, flash, asked>>
  <2>1. /\ asked'[w] \in {asked[w], NoFile}
        /\ asked'[w] # NoFile /\ Holding(w) /\ Has(w, "answer")
              => UNCHANGED <<cpu, burn, flash>>
    BY <1>1, <1>4 DEF Disturbs, Crosses
  <2> QED
    BY <1>1, <1>4, <2>1, PromiseKept DEF Named
<1>5. CASE SaveReg(t) \/ TellReg(t) \/ RestoreReg(t) \/ SetReg(t) \/ UseRegs(t) \/ SetPCOf(t)
  <2>1. Sent(t) /\ Disturbs(t) /\ UNCHANGED fileVars
    BY <1>5 DEF SaveReg, TellReg, RestoreReg, SetReg, UseRegs, SetPCOf, Instr
  <2> QED
    BY <1>1, <1>4, <2>1 DEF Sent, TypeOK, fileVars
<1>6. CASE Halt(t) \/ Resume(t) \/ Step(t) \/ ResetOn(t) \/ EnterDebugMode(t) \/ WritePage(t)
  <2>1. Sent(t) /\ Disturbs(t) /\ UNCHANGED fileVars
    BY <1>6 DEF Halt, Resume, Step, ResetOn, EnterDebugMode, WritePage
  <2> QED
    BY <1>1, <1>4, <2>1 DEF Sent, TypeOK, fileVars
<1>7. CASE GetStatus(t) \/ Wait(t) \/ GetPar(t)
  BY <1>1, <1>4, <1>7 DEF GetStatus, Wait, GetPar, Sent, TypeOK, fileVars, chipVars
<1>8. CASE HaltIf(t) \/ ResumeIf(t)
  BY <1>1, <1>4, <1>8 DEF HaltIf, ResumeIf, Sent, TypeOK, fileVars
<1>9. CASE ResetOff(t)
  BY <1>1, <1>4, <1>9 DEF ResetOff, Sent, TypeOK
<1>10. CASE Program(t)
  BY <1>1, <1>4, <1>10 DEF Program, Sent, TypeOK, chipVars
<1>11. CASE Verify(t)
  BY <1>1, <1>4, <1>11 DEF Verify, TypeOK, fileVars
<1> QED
  BY <1>2, <1>3, <1>5, <1>6, <1>7, <1>8, <1>9, <1>10, <1>11 DEF Message

LEMMA FailedIs ==
    /\ Head(FailedFlash) = <<"free">> /\ Tail(FailedFlash) # <<>> /\ FailedFlash # <<>>
    /\ Head(Tail(FailedFlash)) = <<"answer", "failed">> /\ Tail(Tail(FailedFlash)) = <<>>
  BY DEF FailedFlash, Op

\* The step of write() that sends a message.
LEMMA FlashAction ==
    ASSUME NEW t \in Threads, Message(t)
    PROVE  LET op == Head(todo[t])[1] IN
           /\ op = "name" <=> SetName(t)
           /\ op = "alloc" => Alloc(t)
           /\ op = "load" => Load(t)
           /\ op = "reset_on" \/ op = "free" => ResetOn(t)
           /\ op = "debug" => EnterDebugMode(t)
           /\ op = "program" => Program(t)
           /\ op = "page" => WritePage(t)
           /\ op = "wait" => Wait(t)
           /\ op = "verify" => Verify(t)
           /\ op = "answer" => ResetOff(t)
  BY DEF Message, SaveReg, TellReg, RestoreReg, SetReg, UseRegs, SetPCOf, GetStatus, HaltIf,
     ResumeIf, Halt, Resume, Step, ResetOn, ResetOff, EnterDebugMode, SetName, Alloc, Load,
     Program, WritePage, Wait, Verify, GetPar, Is

\* The messages of write() carry out the promise, one by one.
LEMMA FlashMoves ==
    ASSUME TypeOK, NEW t \in Threads, Message(t), NEW n \in 2 .. 13,
           todo[t] = From(n), Reached(t, n), asked'[t] # NoFile
    PROVE  \/ n # 13 /\ todo'[t] = From(n + 1) /\ Reached(t, n + 1)'
           \/ todo'[t] = FailedFlash
<1> DEFINE m == Head(todo[t])
<1> USE DEF TypeOK
<1>1. todo[t] # <<>> /\ m = Flash[n] /\ Tail(todo[t]) = From(n + 1)
  <2>1. n \in 1 .. 13
    OBVIOUS
  <2>2. From(n) # <<>> /\ Head(From(n)) = Flash[n] /\ Tail(From(n)) = From(n + 1)
    BY <2>1, FromIs
  <2> QED
    BY <2>2
<1>2. Sent(t) => todo'[t] = From(n + 1)
  BY <1>1 DEF Sent
<1>3. Disturbs(t) \/ Crosses(t, Loading) => todo'[t] # <<>> /\ asked'[t] = asked[t]
  BY DEF Disturbs, Crosses
<1>4. CASE n = 2
  <2>1. Alloc(t)
    BY <1>1, <1>4, FlashIs, FlashAction
  <2> QED
    BY <1>2, <1>3, <1>4, <2>1 DEF Alloc, Reached, Named
<1>5. CASE n = 3
  <2>1. Load(t)
    BY <1>1, <1>5, FlashIs, FlashAction
  <2>2. ~Stops(t)
    BY <1>3, <2>1 DEF Load, Stops
  <2>3. Sent(t) /\ buff' = Named(t)
    BY <2>1, <2>2 DEF Load, Named
  <2> QED
    BY <1>2, <1>3, <1>5, <2>1, <2>3 DEF Load, Reached
<1>6. CASE n = 4
  <2>1. ResetOn(t)
    BY <1>1, <1>6, FlashIs, FlashAction
  <2> QED
    BY <1>2, <1>3, <1>6, <2>1 DEF ResetOn, StartsOver, fileVars, Reached
<1>7. CASE n = 5
  <2>1. EnterDebugMode(t)
    BY <1>1, <1>7, FlashIs, FlashAction
  <2> QED
    BY <1>2, <1>3, <1>7, <2>1 DEF EnterDebugMode, StartsOver, fileVars, Reached
<1>8. CASE n = 6
  <2>1. Program(t)
    BY <1>1, <1>8, FlashIs, FlashAction
  <2> QED
    BY <1>2, <1>8, <2>1 DEF Program, chipVars, Reached
<1>9. CASE n = 7 \/ n = 10
  <2>1. WritePage(t) /\ Arg(t) = m[2]
    BY <1>1, <1>9, FlashIs, FlashAction DEF Arg
  <2>2. Executes = {TRUE} /\ Content(t) = {asked[t]}
    <3>1. cpu = "halted" /\ ptr[t] = "live" /\ buff = asked[t]
      BY <1>9 DEF Reached
    <3>2. Executes = {TRUE}
      BY <3>1 DEF Executes, Stopped
    <3>3. Content(t) = {asked[t]}
      BY <3>1 DEF Content
    <3> QED
      BY <3>2, <3>3
  <2>3. /\ burn' = [page |-> m[2], content |-> asked[t]]
        /\ flash' = [flash EXCEPT ![m[2]] = Other] /\ cpu' = "running"
        /\ UNCHANGED <<buff, ptr>> /\ Sent(t) /\ Disturbs(t)
    BY <2>1, <2>2 DEF WritePage, fileVars
  <2>4. CASE n = 7
    <3>1. m[2] = 1
      BY <1>1, <2>4, FlashIs
    <3> QED
      BY <1>2, <1>3, <2>3, <2>4, <3>1 DEF Reached
  <2>5. CASE n = 10
    <3>1. m[2] = 2
      BY <1>1, <2>5, FlashIs
    <3>2. flash'[1] = flash[1]
      BY <2>3, <3>1 DEF Pages
    <3> QED
      BY <1>2, <1>3, <2>3, <2>5, <3>1, <3>2 DEF Reached
  <2> QED
    BY <1>9, <2>4, <2>5
<1>10. CASE n = 8 \/ n = 11
  <2>1. Wait(t)
    BY <1>1, <1>10, FlashIs, FlashAction
  <2>2. cpu # "running"
    BY <2>1 DEF Wait, Statuses, Stopped
  <2> QED
    BY <1>2, <1>10, <2>1, <2>2 DEF Wait, chipVars, fileVars, Reached
<1>11. CASE n = 9
  <2>1. Verify(t)
    BY <1>1, <1>11, FlashIs, FlashAction
  <2>2. Sent(t) \/ todo'[t] = FailedFlash
    BY <2>1 DEF Verify, Sent
  <2>3. UNCHANGED <<cpu, burn, flash, buff, ptr>> /\ asked'[t] = asked[t]
    BY <1>3, <2>1 DEF Verify, fileVars
  <2> QED
    BY <1>2, <1>11, <2>2, <2>3 DEF Reached
<1>12. CASE n = 12
  <2>1. ResetOn(t)
    BY <1>1, <1>12, FlashIs, FlashAction
  <2> QED
    BY <1>2, <1>3, <1>12, <2>1 DEF ResetOn, StartsOver, fileVars, Reached
<1>13. CASE n = 13
  <2>1. ResetOff(t)
    BY <1>1, <1>13, FlashIs, FlashAction
  <2>2. todo'[t] = <<>>
    BY <1>2, <1>13, <2>1, FromIs DEF ResetOff
  <2> QED
    BY <1>3, <2>1, <2>2 DEF ResetOff
<1> QED
  BY <1>4, <1>5, <1>6, <1>7, <1>8, <1>9, <1>10, <1>11, <1>12, <1>13

LEMMA FlashOwn ==
    ASSUME TypeOK, FlashInv, NEW t \in Threads, Message(t)
    PROVE  Promise(t)'
<1> USE DEF TypeOK
<1>1. (\A n : From(n)' = From(n)) /\ FailedFlash' = FailedFlash
  BY DEF From, FailedFlash, Flash, Op
<1>2. todo[t] # <<>>
  BY DEF Message, SaveReg, TellReg, RestoreReg, SetReg, UseRegs, SetPCOf, GetStatus, HaltIf,
     ResumeIf, Halt, Resume, Step, ResetOn, ResetOff, EnterDebugMode, SetName, Alloc, Load,
     Program, WritePage, Wait, Verify, GetPar, Is
<1>3. CASE SetName(t)
  <2>1. todo[t] = From(1)
    BY <1>2, <1>3, FlashAction, NameIsFirst
  <2>2. todo'[t] = From(2)
    BY <1>3, <2>1, FromIs DEF SetName, Sent
  <2>3. asked'[t] = Named(t)'
    BY <1>3 DEF SetName, Named
  <2>4. Reached(t, 2)'
    BY <2>3 DEF Reached
  <2> QED
    BY <1>1, <2>2, <2>4 DEF Promise
<1>4. CASE ~SetName(t) /\ asked'[t] # NoFile
  <2>1. Disturbs(t) \/ Crosses(t, Loading) \/ UNCHANGED asked
    BY <1>4 DEF Message, SaveReg, TellReg, RestoreReg, SetReg, UseRegs, SetPCOf, Instr,
       GetStatus, HaltIf, ResumeIf, Halt, Resume, Step, ResetOn, ResetOff, EnterDebugMode,
       Alloc, Load, Program, WritePage, Wait, Verify, GetPar
  <2>2. asked'[t] = asked[t]
    BY <1>4, <2>1 DEF Disturbs, Crosses
  <2>3. Promise(t) /\ asked[t] # NoFile
    BY <1>4, <2>2 DEF FlashInv
  <2>4. CASE todo[t] = FailedFlash
    <3>1. ResetOn(t)
      BY <2>4, FailedIs, FlashAction
    <3>2. todo'[t] = Tail(FailedFlash)
      BY <2>4, <3>1 DEF ResetOn, Sent
    <3> QED
      BY <1>1, <3>2 DEF Promise, Failed
  <2>5. CASE todo[t] = Tail(FailedFlash)
    <3>0. Head(todo[t])[1] = "answer"
      BY <2>5, FailedIs
    <3>1. ResetOff(t)
      BY <3>0, FlashAction
    <3>2. todo'[t] = <<>> /\ Disturbs(t)
      BY <2>5, <3>1, FailedIs DEF ResetOff, Sent
    <3> QED
      BY <1>4, <3>2 DEF Disturbs, Crosses
  <2>6. CASE ~Failed(t)
    <3>1. PICK n \in 2 .. 13 : todo[t] = From(n) /\ Reached(t, n)
      BY <2>3, <2>6 DEF Promise
    <3>2. \/ n # 13 /\ todo'[t] = From(n + 1) /\ Reached(t, n + 1)'
          \/ todo'[t] = FailedFlash
      BY <1>4, <3>1, FlashMoves
    <3>3. n # 13 => n + 1 \in 2 .. 13
      OBVIOUS
    <3> QED
      BY <1>1, <3>2, <3>3 DEF Promise, Failed
  <2> QED
    BY <2>4, <2>5, <2>6 DEF Failed
<1> QED
  BY <1>3, <1>4 DEF Promise

\* The program or the routine stops the CPU: the routine of a page a command
\* waits for has then written it.
LEMMA FlashArrives ==
    ASSUME TypeOK, FlashInv, HitBreakpoint \/ RoutineEnds, NEW w \in Threads
    PROVE  Promise(w)'
<1> USE DEF TypeOK
<1>1. /\ UNCHANGED <<todo, given, name, buff, ptr, asked>> /\ cpu = "running"
      /\ burn = NoBurn => flash' = flash
      /\ burn # NoBurn => /\ cpu' = "halted" /\ burn' = NoBurn
                          /\ flash' = [flash EXCEPT ![burn.page] = burn.content]
  BY DEF HitBreakpoint, RoutineEnds, Arrives, fileVars
<1> SUFFICES ASSUME asked[w] # NoFile, ~Failed(w)
             PROVE  Promise(w)'
  BY <1>1 DEF Promise, Failed, FailedFlash, Op
<1>2. PICK n \in 2 .. 13 : todo[w] = From(n) /\ Reached(w, n)
  BY DEF FlashInv, Promise
<1>3. Reached(w, n)'
  <2>1. CASE n \in {2, 3, 4}
    BY <1>1, <1>2, <2>1 DEF Reached, Named
  <2>2. CASE n = 8
    <3>1. burn = [page |-> 1, content |-> asked[w]] /\ burn # NoBurn
      BY <1>1, <1>2, <2>2 DEF Reached, NoBurn
    <3>2. burn.page = 1 /\ burn.content = asked[w]
      BY <3>1
    <3> QED
      BY <1>1, <1>2, <2>2, <3>1, <3>2 DEF Reached, Pages
  <2>3. CASE n = 11
    <3>1. burn = [page |-> 2, content |-> asked[w]] /\ burn # NoBurn
      BY <1>1, <1>2, <2>3 DEF Reached, NoBurn
    <3>2. burn.page = 2 /\ burn.content = asked[w]
      BY <3>1
    <3> QED
      BY <1>1, <1>2, <2>3, <3>1, <3>2 DEF Reached, Pages
  <2>4. n \in {2, 3, 4, 8, 11}
    BY <1>1, <1>2 DEF Reached
  <2> QED
    BY <2>1, <2>2, <2>3, <2>4
<1>4. todo'[w] = From(n)'
  BY <1>1, <1>2 DEF From, Flash, Op
<1> QED
  BY <1>3, <1>4 DEF Promise

LEMMA FlashNext == TypeOK /\ FlashInv /\ [Next]_vars => FlashInv'
<1> SUFFICES ASSUME TypeOK, FlashInv, [Next]_vars
             PROVE  FlashInv'
  OBVIOUS
<1> USE DEF TypeOK
<1>1. ASSUME NEW t \in Threads, Message(t)
      PROVE  FlashInv'
  <2>1. \A w \in Others(t) : Promise(w)'
    BY <1>1, FlashOthers
  <2>2. Promise(t)'
    BY <1>1, FlashOwn
  <2> QED
    BY <2>1, <2>2 DEF FlashInv, Others
<1>2. ASSUME NEW t \in Threads, Poll(t) \/ \E c \in menu[t] : Begin(t, c)
      PROVE  FlashInv'
  <2>1. todo[t] = <<>> /\ UNCHANGED <<cpu, burn, flash, name, buff, ptr, given, asked>>
    BY <1>2, AfterBegin DEF Poll, Begin, chipVars, fileVars
  <2>2. ASSUME NEW n \in 2 .. 13
        PROVE  todo[t] # From(n)
    <3>1. n \in 1 .. 13
      OBVIOUS
    <3> QED
      BY <2>1, <3>1, FromIs
  <2>3. Promise(t)'
    BY <2>1, <2>2, FailedIs DEF FlashInv, Promise, Failed
  <2>4. ASSUME NEW w \in Others(t)
        PROVE  Promise(w)'
    <3>1. w \in Threads /\ Promise(w) /\ todo'[w] = todo[w]
      BY <1>2 DEF Poll, Begin, Others, FlashInv
    <3> QED
      BY <2>1, <3>1, PromiseKept DEF Named
  <2> QED
    BY <2>3, <2>4 DEF FlashInv, Others
<1>3. ASSUME NEW t \in Threads, Cut(t)
      PROVE  FlashInv'
  <2>1. /\ todo' = [todo EXCEPT ![t] = <<>>] /\ UNCHANGED <<cpu, burn, flash, name, buff>>
        /\ ptr' = [ptr EXCEPT ![t] = "none"] /\ given' = [given EXCEPT ![t] = NoFile]
        /\ asked' = [u \in Threads |-> IF todo'[u] = <<>> THEN NoFile ELSE asked[u]]
    BY <1>3 DEF Cut, Stops, Crosses
  <2>2. Promise(t)'
    BY <2>1 DEF Promise
  <2>3. ASSUME NEW w \in Others(t)
        PROVE  Promise(w)'
    <3>1. /\ w \in Threads /\ Promise(w) /\ todo'[w] = todo[w]
          /\ ptr'[w] = ptr[w] /\ given'[w] = given[w] /\ asked'[w] \in {asked[w], NoFile}
      BY <2>1 DEF Others, FlashInv
    <3> QED
      BY <2>1, <3>1, PromiseKept DEF Named
  <2> QED
    BY <2>2, <2>3 DEF FlashInv, Others
<1>4. CASE HitBreakpoint \/ RoutineEnds
  BY <1>4, FlashArrives DEF FlashInv
<1>5. CASE UNCHANGED vars
  <2>1. UNCHANGED <<cpu, burn, flash, todo, name, buff, ptr, given, asked>>
    BY <1>5 DEF vars, chipVars, fileVars
  <2>2. ASSUME NEW w \in Threads
        PROVE  Promise(w)'
    BY <2>1, PromiseKept DEF FlashInv, Named
  <2> QED
    BY <2>2 DEF FlashInv
<1> QED
  BY <1>1, <1>2, <1>3, <1>4, <1>5 DEF Next

LEMMA FlashAlways == Spec => [](TypeOK /\ FlashInv)
<1>1. Init => TypeOK /\ FlashInv
  BY TypeInit, FlashInit
<1>2. (TypeOK /\ FlashInv) /\ [Next]_vars => (TypeOK /\ FlashInv)'
  BY TypeNext, FlashNext
<1> QED
  BY <1>1, <1>2, PTL DEF Spec

\* When the flash command of the interactive server answers OK, every page of
\* the chip has the file the client named, unless another connection named a
\* file, loaded one or sent the chip something in the meantime (flashHandle,
\* CCFlasher::write and programFlash on one CCFlasher).
THEOREM FlashAnswersAreTrue == Spec => FlashAnswersTrue
<1>1. ASSUME TypeOK, FlashInv, NEW t \in Threads,
             Is(t, "answer"), Arg(t) = "ok", asked[t] # NoFile
      PROVE  \A p \in Pages : flash[p] = asked[t]
  <2>1. todo[t] # <<>> /\ Head(todo[t])[1] = "answer" /\ Head(todo[t])[2] = "ok"
    BY <1>1 DEF Is, Arg
  <2>2. ~Failed(t)
    <3>1. todo[t] # FailedFlash
      BY <2>1, FailedIs
    <3>2. Head(Tail(FailedFlash))[2] = "failed"
      BY FailedIs
    <3> QED
      BY <2>1, <3>1, <3>2 DEF Failed
  <2>3. PICK n \in 2 .. 13 : todo[t] = From(n) /\ Reached(t, n)
    BY <1>1, <2>2 DEF FlashInv, Promise
  <2>4. Flash[n][1] = "answer"
    <3>1. n \in 1 .. 13
      BY <2>3
    <3> QED
      BY <2>1, <2>3, <3>1, FromIs
  <2>5. n = 13
    BY <2>4, FlashIs
  <2> QED
    BY <2>3, <2>5 DEF Reached, Pages
<1>2. TypeOK /\ FlashInv /\ [Next]_vars =>
        [\A t \in Threads :
            Is(t, "answer") /\ Arg(t) = "ok" /\ ResetOff(t) /\ asked[t] # NoFile
                => \A p \in Pages : flash[p] = asked[t]]_vars
  BY <1>1
<1> QED
  BY <1>2, FlashAlways, PTL DEF Spec, FlashAnswersTrue

=============================================================================
