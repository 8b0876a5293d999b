---------------------------- MODULE MCCodeCache ----------------------------
(* Two connections that read, with two banks of two bytes and a flash       *)
(* command, and three that set breakpoints in three slots.                  *)
EXTENDS CodeCache, TLC

\* the first image tells every byte of the flash from the others
MCImages == {[a \in FlashAddrs |-> a], [a \in FlashAddrs |-> IF a = 0 THEN 1 ELSE 0]}

\* one byte, a run within a bank, the last byte of the cache, and a run across
\* the middle of the first bank and of the second
MCReads == {<<0, 0>>, <<0, 1>>, <<7, 7>>, <<1, 2>>, <<5, 6>>}

Reading(T, ranges) == [threads |-> T, reads |-> ranges, bps |-> {}, flashes |-> 1]
Pairs == {T \in SUBSET Threads : Cardinality(T) = 2}

MCSessions ==
    {Reading(T, MCReads) : T \in Pairs}
        \cup {[threads |-> Threads, reads |-> {}, bps |-> {0, 1}, flashes |-> 0]}

\* cache_stale: a single byte
MCOneByte == {Reading(T, {<<0, 0>>}) : T \in Pairs}

\* Nothing is said of the table once something happened that it does not
\* follow, so these states are not explored further.  Nothing else is lost: in
\* a session without breakpoints the table and the registers stay empty.
Followed == ~forgot

Symmetry == Permutations(Threads)
=============================================================================
