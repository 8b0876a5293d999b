---------------------------- MODULE MCCommandLine ----------------------------
(* Two lines: all that are short, and some with longer runs of blanks.      *)
EXTENDS CommandLine

MCLines ==
    UNION {[1 .. n -> Chars] : n \in 0 .. 3}
        \cup {<<"x", Blank, Blank, Blank, "q">>,
              <<Blank, Blank, "x", Blank, Blank, Blank, Blank, "q", Blank, Blank, Blank>>}
=============================================================================
