----------------------------- MODULE MCCapture -----------------------------
(***************************************************************************)
(* Capture for TLC: the hook files that Setup leaves have one rmb hook, or *)
(* two where the user had left an empty group beside it.                   *)
(***************************************************************************)
EXTENDS Capture, TLC

CONSTANTS done, other, first, second

Swap == Permutations({done, other}) \cup Permutations({first, second})

EveryAgent == AllAgents
=============================================================================
