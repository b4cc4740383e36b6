---------------------------- MODULE MCScheduler ----------------------------
(***************************************************************************)
(* Scheduler for TLC: four sessions, some of which never work.             *)
(***************************************************************************)
EXTENDS Scheduler, TLC

CONSTANTS s1, s2, s3, s4

(* Throttled and failing sessions: L1 keeps them in its first places. *)
Two == s1 :> "throttled" @@ s2 :> "fails" @@ s3 :> "works" @@ s4 :> "works"

Three == s1 :> "fails" @@ s2 :> "throttled" @@ s3 :> "works" @@ s4 :> "waits"

Failing == s1 :> "fails" @@ s2 :> "fails" @@ s3 :> "works" @@ s4 :> "waits"

(* Sessions that are not due, which both keep. *)
NotYet == s1 :> "waits" @@ s2 :> "waits" @@ s3 :> "works" @@ s4 :> "waits"

(* In each, those that keep their places leave one free: L1's first batch  *)
(* of three, the two of L2's cycle, or the four of a cycle with maxC = 2.  *)
L1Throttled == [byAge |-> TRUE, minC |-> 1, maxC |-> 3, fate |-> Two]
L1Failing   == [byAge |-> TRUE, minC |-> 1, maxC |-> 2, fate |-> Failing]
L2Throttled == [byAge |-> FALSE, minC |-> 1, maxC |-> 1, fate |-> Three]
L2NotYet    == [byAge |-> FALSE, minC |-> 1, maxC |-> 2, fate |-> NotYet]

FairSettings == {L1Throttled, L1Failing, L2Throttled, L2NotYet}
=============================================================================
