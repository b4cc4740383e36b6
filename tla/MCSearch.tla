------------------------------ MODULE MCSearch ------------------------------
(***************************************************************************)
(* Search for TLC: two memories (2, 3), two scenes (4, 5), two skills      *)
(* (6, 7) and an atom (1).                                                 *)
(***************************************************************************)
EXTENDS Search

MCTier == <<"atom", "memory", "memory", "scene", "scene", "skill", "skill">>

Ready == [live |-> TRUE, archived |-> FALSE, vec |-> TRUE, fresh |-> FALSE,
          aged |-> FALSE, scenes |-> {}]

(* Memory 2 cites scene 4; memory 3 is younger, and archived in one.       *)
Start(b) == [u \in 1..7 |->
  CASE u = 2 -> [Ready EXCEPT !.scenes = {4}]
    [] u = 3 -> [Ready EXCEPT !.fresh = TRUE, !.aged = TRUE, !.archived = b]
    [] OTHER -> Ready]

(* Or memory 3 was just replaced: its new version has no vector yet. *)
MCStarts == {Start(b) : b \in BOOLEAN}
              \cup {[Start(FALSE) EXCEPT ![3].vec = FALSE, ![3].scenes = {4, 5}]}

Plain == [k |-> 1, scopes |-> {}, vector |-> TRUE, window |-> "always", boost |-> FALSE]

MCRequests ==
  { Plain,
    [Plain EXCEPT !.k = 2, !.window = "since", !.vector = FALSE],
    [Plain EXCEPT !.scopes = {"memory", "scene"}, !.boost = TRUE],
    [Plain EXCEPT !.scopes = {"memory", "scene"}, !.k = 2],
    [Plain EXCEPT !.scopes = {"skill"}, !.k = 0],
    [Plain EXCEPT !.scopes = {"atom", "scene", "skill"}, !.k = 2, !.vector = FALSE],
    [Plain EXCEPT !.scopes = {"memory", "atom"}, !.window = "until"],
    [Plain EXCEPT !.scopes = {"other", "memory"}] }
=============================================================================
