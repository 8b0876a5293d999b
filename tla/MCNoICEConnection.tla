------------------------ MODULE MCNoICEConnection ------------------------
(* A client of three requests for NoICEConnection.                          *)
EXTENDS NoICEConnection

\* The commands that move the CPU, the one that reads it, and a memory read
\* whose data look like the head of a frame.
MCRequests ==
    {[fn |-> RUN_TARGET, data |-> <<>>],
     [fn |-> STOP_TARGET, data |-> <<>>],
     [fn |-> READ_REGS, data |-> <<>>],
     [fn |-> STEP, data |-> <<>>],
     [fn |-> RESET_TARGET, data |-> <<>>],
     [fn |-> READ_MEM, data |-> <<254, 2>>]}
=============================================================================
