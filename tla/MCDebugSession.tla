--------------------------- MODULE MCDebugSession ---------------------------
(* Clients of the two ports, in three kinds of session.                     *)
EXTENDS DebugSession

CONSTANTS a, b, c

MCThreads == {a, b, c}

NoICEMenu == {"regs", "code", "data", "istep", "stop", "run", "ireset"}
CliMenu   == {"getpc", "halt", "resume", "step", "setpc", "sfr", "setsfr", "dumpx", "reset"}
FlashMenu == {"flash", "halt", "resume", "reset"}

Session(A, B, C) == [t \in MCThreads |-> CASE t = a -> A [] t = b -> B [] t = c -> C]

\* a client of either port, three clients that stop and look at the CPU, and
\* two that flash
MCMenus ==
    {Session(NoICEMenu, CliMenu, {}),
     Session({"run", "regs", "stop"}, CliMenu, {"sfr", "halt"}),
     Session(FlashMenu, FlashMenu, {})}
=============================================================================
