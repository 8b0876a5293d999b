----------------------------- MODULE CommandLine -----------------------------
(***************************************************************************)
(* One connection of the interactive server: the bytes of the client, the  *)
(* line reader (TCPConnection::ReadLine), and the loop that makes a        *)
(* command of a line and answers it (InteractiveTCPConnection::Worker).    *)
(* DebugSession has what the commands do.                                  *)
(***************************************************************************)
EXTENDS Naturals, Sequences, SequencesExt, FiniteSetsExt

CONSTANTS
    Lines,    \* what the client may type: sequences over Chars
    MaxLines  \* bound on the lines it sends

Blank == " "
Nul   == "\\0"
Cr    == "\\r"
Lf    == "\\n"
Chars == {"q", "x", Blank}

ASSUME LinesAssumption == Lines \subseteq Seq(Chars) /\ MaxLines \in Nat

VARIABLES
    net,     \* bytes sent and not yet received
    gone,    \* the client has closed the connection
    outStr,  \* outStr of ReadLine
    spc,     \* what the thread does next
    str,     \* str of the worker
    sent,    \* history: lines the client has sent, without their ends
    handled, \* history: commands the worker has made of them
    answers  \* history: number of answers

vars == <<net, gone, outStr, spc, str, sent, handled, answers>>

Init ==
    /\ net = <<>>
    /\ gone = FALSE
    /\ outStr = <<>>
    /\ spc = "read"
    /\ str = <<>>
    /\ sent = <<>>
    /\ handled = <<>>
    /\ answers = 0

-----------------------------------------------------------------------------
(* The client.  It need not wait for an answer before it sends more.        *)

SendLine ==
    /\ ~gone
    /\ Len(sent) < MaxLines
    /\ \E l \in Lines, end \in {<<Lf>>, <<Cr, Lf>>} :
        /\ net' = net \o l \o end
        /\ sent' = Append(sent, l)
    /\ UNCHANGED <<gone, outStr, spc, str, handled, answers>>

\* What was not delivered by then is lost.
HangUp ==
    /\ ~gone
    /\ gone' = TRUE
    /\ \E n \in 0 .. Len(net) : net' = SubSeq(net, 1, n)
    /\ UNCHANGED <<outStr, spc, str, sent, handled, answers>>

-----------------------------------------------------------------------------
(* ReadLine.                                                                *)

\* variant: room for more than a byte
RoomForThree == 3

\* TCPCON_MAX_RECV_BUFF - 1
RecvMax == 1

\* what is before the first of these, and a string as C has it
Before(s, ends) ==
    LET at == {i \in DOMAIN s : s[i] \in ends} IN
    IF at = {} THEN s ELSE SubSeq(s, 1, Min(at) - 1)
CStr(s) == Before(s, {Nul})

\* variant: the CR is left
WithCr(s) == s

WithoutCr(s) == IF s # <<>> /\ Last(s) = Cr THEN Front(s) ELSE s

\* select and recv.  What follows a LF in recvBuffer is dropped.
Receive ==
    /\ spc = "read"
    /\ \E n \in 1 .. RecvMax :
        /\ n <= Len(net)
        /\ net' = SubSeq(net, n + 1, Len(net))
        /\ LET recvBuffer == SubSeq(net, 1, n)
               line == outStr \o Before(recvBuffer, {Lf, Nul})
           IN  IF Contains(recvBuffer, Lf)
               THEN /\ str' = WithoutCr(line)
                    /\ outStr' = <<>>
                    /\ spc' = "command"
               ELSE outStr' = line /\ UNCHANGED <<str, spc>>
    /\ UNCHANGED <<gone, sent, handled, answers>>

\* recv returns 0 or fails, and the worker catches
Disconnect ==
    /\ spc = "read"
    /\ gone
    /\ net = <<>>
    /\ outStr' = <<>>
    /\ spc' = "closed"
    /\ UNCHANGED <<net, gone, str, sent, handled, answers>>

-----------------------------------------------------------------------------
(* Worker.                                                                  *)

\* the characters of s at these positions, up to each of them
KeptUpTo(s, positions) ==
    LET f[i \in 0 .. Len(s)] ==
            IF i = 0 THEN <<>>
            ELSE IF i \in positions THEN Append(f[i - 1], s[i]) ELSE f[i - 1]
    IN f

\* The loop that condenses whitespace in place: of each run of blanks the last
\* is kept.  The terminator is moved too, and what was behind it stays.
Condensed(s) ==
    LET last == {i \in DOMAIN s : s[i] # Blank \/ i = Len(s) \/ s[i + 1] # Blank}
        kept == KeptUpTo(s, last)[Len(s)]
    IN  [k \in DOMAIN s |-> IF k <= Len(kept) THEN kept[k]
                            ELSE IF k = Len(kept) + 1 THEN Nul ELSE s[k]]

\* Of an empty string the code looks at the byte before it, which is never a
\* blank: a counter of the string or its padding.
Trimmed(s) ==
    LET inked == {i \in DOMAIN s : s[i] # Blank} IN
    IF inked = {} THEN <<>> ELSE SubSeq(s, 1, Max(inked))

Quits(s) == s = <<"q">>

\* condense whitespace and trim, then look for the command
MakeCommand ==
    /\ spc = "command"
    /\ str' = Trimmed(Condensed(str))
    /\ handled' = Append(handled, str')
    /\ spc' = "handle"
    /\ UNCHANGED <<net, gone, outStr, sent, answers>>

\* The result, an error, or bye.  A write to a client that has gone is lost, or
\* ends the server: nothing ignores SIGPIPE.
Answer ==
    /\ spc = "handle"
    /\ answers' = answers + 1
    /\ \/ spc' = IF Quits(str) THEN "closed" ELSE "read"
       \/ gone /\ spc' = "killed"
    /\ UNCHANGED <<net, gone, outStr, str, sent, handled>>

\* A handler throws something else than MissingParameter.
Fail ==
    /\ spc = "handle"
    /\ ~Quits(str)
    /\ spc' = "closed"
    /\ UNCHANGED <<net, gone, outStr, str, sent, handled, answers>>

Server == Receive \/ Disconnect \/ MakeCommand \/ Answer \/ Fail

Next == SendLine \/ HangUp \/ Server

\* The thread goes on as long as it has something to do.
Spec == Init /\ [][Next]_vars /\ WF_vars(Server)

-----------------------------------------------------------------------------
(* Properties.                                                              *)

TypeOK ==
    /\ net \in Seq(Chars \cup {Cr, Lf})
    /\ gone \in BOOLEAN
    /\ outStr \in Seq(Chars \cup {Cr})
    /\ spc \in {"read", "command", "handle", "closed", "killed"}
    /\ str \in Seq(Chars \cup {Nul})
    /\ sent \in Seq(Lines) /\ Len(sent) <= MaxLines
    /\ handled \in Seq(Seq(Chars \cup {Nul}))
    /\ answers \in 0 .. MaxLines

\* a line with one blank where there are several, and none at the end
Squeezed(s) ==
    LET inner == {i \in DOMAIN s : s[i] # Blank \/ (i < Len(s) /\ s[i + 1] # Blank)}
    IN  KeptUpTo(s, inner)[Len(s)]

\* The commands are the lines in the order they were sent, however the network
\* cuts them and although the client does not wait: none is lost, put together
\* from two or executed before its end was received.  As C string a command is
\* its line with condensed whitespace; blanks may be left at its end (ReadLine,
\* InteractiveTCPConnection::Worker).
CommandsAreLines ==
    /\ Len(handled) <= Len(sent)
    /\ \A i \in DOMAIN handled : Trimmed(CStr(handled[i])) = Squeezed(sent[i])

\* Every line gets an answer, unless the connection ends (ReadLine,
\* InteractiveTCPConnection::Worker).
LinesAnswered ==
    \A n \in 1 .. MaxLines :
        Len(sent) >= n ~> answers >= n \/ gone \/ spc = "closed"
=============================================================================
