----------------------------- MODULE MCNemuRun ------------------------------
(* Instances of NemuRun for TLC.                                           *)
EXTENDS NemuRun

\* `c` runs without a limit, or the word of a scaled-down width is used up.
BothBudgets == {-1, 2}
=============================================================================
