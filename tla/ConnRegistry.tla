----------------------------- MODULE ConnRegistry -----------------------------
(***************************************************************************)
(* What the listener promises of its connections: they are kept in the     *)
(* order they were accepted, each once, and only one that has finished is  *)
(* ever dropped.                                                           *)
(***************************************************************************)
EXTENDS Naturals, Sequences, SequencesExt

CONSTANT Clients

VARIABLES
    live,    \* the connections that are kept, oldest first
    finished \* those whose thread has finished

Init ==
    /\ live = <<>>
    /\ finished = {}

Add(c) ==
    /\ c \notin ToSet(live)
    /\ c \notin finished
    /\ live' = Append(live, c)
    /\ UNCHANGED finished

Finish(c) ==
    /\ c \in ToSet(live)
    /\ finished' = finished \cup {c}
    /\ UNCHANGED live

Drop(i) ==
    /\ live[i] \in finished
    /\ live' = RemoveAt(live, i)
    /\ UNCHANGED finished

Next ==
    \/ \E c \in Clients : Add(c) \/ Finish(c)
    \/ \E i \in DOMAIN live : Drop(i)

Spec == Init /\ [][Next]_<<live, finished>>
=============================================================================
