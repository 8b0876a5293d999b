----------------------------- MODULE PageWrite ------------------------------
(***************************************************************************)
(* What the writing of one page of flash promises: the page is erased if   *)
(* that is asked for, its words are written in ascending order, each of    *)
(* them once, and the end is told only when all of them are.  It may stop  *)
(* anywhere.                                                               *)
(***************************************************************************)
EXTENDS Naturals

CONSTANTS
    NWords,  \* words of a page
    Data,    \* the words to write
    Erased,  \* a word that is erased
    Spoiled  \* any other that is not followed

Words == 0 .. NWords - 1

VARIABLES
    erase,  \* the page is to be erased
    page,   \* the words in flash
    n,      \* how many of them have been written
    done    \* the end has been told

vars == <<erase, page, n, done>>

\* what is in flash once w is written: programming only clears bits
Put(old, w) == IF old = Erased THEN w ELSE Spoiled

Erase ==
    /\ erase
    /\ n = 0
    /\ ~done
    /\ page' = [w \in Words |-> Erased]
    /\ UNCHANGED <<erase, n, done>>

WriteWord ==
    /\ n < NWords
    /\ ~done
    /\ page' = [page EXCEPT ![n] = Put(@, Data[n])]
    /\ n' = n + 1
    /\ UNCHANGED <<erase, done>>

Finish ==
    /\ n = NWords
    /\ done' = TRUE
    /\ UNCHANGED <<erase, page, n>>

Next == Erase \/ WriteWord \/ Finish

Spec == n = 0 /\ done = FALSE /\ [][Next]_vars
=============================================================================
