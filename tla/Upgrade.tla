------------------------------- MODULE Upgrade -------------------------------
(***************************************************************************)
(* What installing sidecars promises: a release replaces both at once or   *)
(* neither, whatever fails, and until then there is of each what there was *)
(* before, in place or kept aside.  Installing those that come with the    *)
(* app (over none or earlier ones) promises less: it may fail half way.    *)
(*                                                                         *)
(* There are no files, copies, rollbacks or processes here.  Module        *)
(* Supervisor models those and is shown to implement this one.             *)
(***************************************************************************)
CONSTANTS
  Files,        \* the sidecars
  NoFile        \* the version of one that is not there

VARIABLE version

All(v) == [f \in Files |-> v]

UpgradeInit == \E v \in {NoFile, "previous", "bundled"} : version = All(v)

(* The first launch, or the first one of a newer app: some files are       *)
(* installed, one may be ruined, and the others stay.                      *)
Bundle ==
  /\ version \in {All(NoFile), All("previous")}
  /\ \E whole \in SUBSET Files : \E ruined \in (Files \ whole) \cup {NoFile} :
       version' = [f \in Files |-> IF f \in whole THEN "bundled"
                                 ELSE IF f = ruined THEN NoFile ELSE version[f]]

(* An update that did not fail. *)
Release == version' = All("release")

UpgradeSpec == UpgradeInit /\ [][Bundle \/ Release]_version
==============================================================================
