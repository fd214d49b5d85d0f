--------------------------- MODULE OrderedHandoff ---------------------------
(***************************************************************************)
(* What a single worker behind a queue promises: jobs 1, 2, 3, ... are     *)
(* given, and each is reported once, in that order, until it is closed.    *)
(***************************************************************************)
EXTENDS Naturals, Sequences

VARIABLES given, reported, closed

Init == given = 0 /\ reported = <<>> /\ closed = FALSE

Give ==
    /\ ~closed
    /\ given' = given + 1
    /\ UNCHANGED <<reported, closed>>

Report ==
    /\ Len(reported) < given
    /\ reported' = Append(reported, Len(reported) + 1)
    /\ UNCHANGED <<given, closed>>

Close ==
    /\ ~closed
    /\ closed' = TRUE
    /\ UNCHANGED <<given, reported>>

Next == Give \/ Report \/ Close

Spec == Init /\ [][Next]_<<given, reported, closed>>

FairSpec ==
    /\ Spec
    /\ WF_<<given, reported, closed>>(~closed /\ Report)
=============================================================================
