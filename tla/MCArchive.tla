----------------------------- MODULE MCArchive -----------------------------
(***************************************************************************)
(* Archive for TLC: the profile and a memory, two goroutines that record.  *)
(***************************************************************************)
EXTENDS Archive, TLC

CONSTANTS profile, m, g1, g2

Old(sources) == [at |-> 0, sources |-> sources, real |-> sources = "own",
                 archived |-> FALSE, deleted |-> FALSE]

(* The memory is in its third version, the profile in its first or second. *)
MCHistories ==
  { [u \in {profile, m} |-> IF u = m THEN <<Old("own"), Old("own"), Old("none")>>
                            ELSE <<Old("own")>>],
    [u \in {profile, m} |-> IF u = m THEN <<Old("own")>> ELSE <<Old("none"), Old("own")>>] }

Swap == Permutations({g1, g2})
=============================================================================
