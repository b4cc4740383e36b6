------------------------------ MODULE MCEmbed ------------------------------
(***************************************************************************)
(* Embed for TLC: an atom whose text is refused, a scene and a skill, in   *)
(* the first, a middle and the last tier of the cycle.                     *)
(***************************************************************************)
EXTENDS Embed, TLC

CONSTANTS a, s, m, old, new

MCTier == a :> 1 @@ s :> 2 @@ m :> 4
=============================================================================
