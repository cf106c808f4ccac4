----------------------------- MODULE MCSimulator -----------------------------
EXTENDS Simulator, TLC

CONSTANTS v0, v1, v2, v3

FourValidators == 0 :> v0 @@ 1 :> v1 @@ 2 :> v2 @@ 3 :> v3
InOrder == <<v1, v3, v0, v2>>

Good == [hashed |-> "good", valid |-> TRUE]
OnlyGood == {Good}

\* Some of the first proposals overtaken by the votes on them.
Reordering == <<6, 5, 4, 3, 2, 1, 1, 4, 1>>
NoReordering == <<>>

\* Bound: two faults in a run.
TwoFaults == faults.lost + faults.copied + faults.slow <= 2
=============================================================================
