---------------------------- MODULE MCSecurityGate ----------------------------
(* A small instance of SecurityGate for TLC: see the .cfg files.               *)
EXTENDS SecurityGate

CONSTANTS
    x,      \* an advisory of a dependency of the backend
    y       \* one of a dependency that only the frontend's build uses

Entry(a, s, c, e, ok) ==
    [advisory |-> a, severity |-> s, created |-> c, expires |-> e, complete |-> ok]

\* A waiver of two days and its renewal, one that is too long, one called low, one for
\* another advisory, and three that lack something.
Drafts == {Entry(x, "high", 1, 3, TRUE), Entry(x, "high", 2, 4, TRUE),
           Entry(x, "high", 1, 4, TRUE), Entry(x, "low", 1, 4, TRUE),
           Entry(y, "high", 1, 2, TRUE), Entry(x, "high", NoDate, 4, TRUE),
           Entry(x, "other", 1, 3, TRUE), Entry(None, "high", 1, 3, TRUE),
           Entry(x, "high", 1, 3, FALSE)}

\* None, one draft, or the first with its renewal left beside it or with another waiver.
MCRegisters == {<<>>} \cup {<<d>> : d \in Drafts}
                   \cup {<<Entry(x, "high", 1, 3, TRUE), e>> :
                            e \in {Entry(x, "high", 2, 4, TRUE), Entry(y, "high", 1, 2, TRUE)}}
=============================================================================
