---------------------------- MODULE MCFlashJob ----------------------------
(* Small chips for FlashJob: three pages, of which the last holds the MAC.  *)
EXTENDS FlashJob

CONSTANTS b, m

MCBits    == {b, m}
MCMacBits == {m}

\* an image that leaves the first page blank, one that leaves the last
\* page to the MAC, and one with an address of its own
MCImages ==
    {[p \in Pages |-> IF p = 0 THEN {} ELSE {b}],
     [p \in Pages |-> IF p = LastPage THEN {} ELSE {b, m}],
     [p \in Pages |-> IF p = LastPage THEN {m} ELSE {}]}

\* a chip with an address and old firmware, and one fresh from the factory
MCInitialFlash ==
    {[p \in Pages |-> IF p = 0 THEN {} ELSE {m}],
     [p \in Pages |-> {}]}

MCMacs == {{}, {m}}
=============================================================================
