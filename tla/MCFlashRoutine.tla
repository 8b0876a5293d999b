--------------------------- MODULE MCFlashRoutine ---------------------------
(* Two pages, one that the routine erases and one that was erased before.   *)
EXTENDS FlashRoutine

\* a content with erased words, and no two bytes of a word alike
MCBuff == [i \in 1 .. PageSize |-> IF i \in 9 .. 16 THEN 255 ELSE (7 * i) % 251]

MCJobs == {[page |-> 63, erase |-> TRUE, blank |-> FALSE],
           [page |-> 16, erase |-> FALSE, blank |-> TRUE]}
=============================================================================
