------------------------------- MODULE MCClient --------------------------------
(* Small instances of Client. *)
EXTENDS Client

Load(m, main, other, ticker) ==
    [mode |-> m, calls |-> [main |-> main, other |-> other, ticker |-> ticker]]

\* two callers at once; two messages one after the other; cover on top; a
\* schedule that two messages do not fit at once
FewLoads ==
    {Load("immediate", 1, 1, 0), Load("immediate", 2, 0, 0),
     Load("cover", 1, 0, 1), Load("schedule", 2, 0, 1)}
================================================================================
