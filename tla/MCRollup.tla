------------------------------ MODULE MCRollup ------------------------------
(***************************************************************************)
(* Rollup for TLC.  Two subjects: in the merge setting "docs" and "doc"    *)
(* are spellings of one preference, each told in two sessions; in the      *)
(* profile setting there is the profile and an event, of two sessions or   *)
(* one.                                                                    *)
(***************************************************************************)
EXTENDS Rollup, TLC

CONSTANTS s1, s2, a1, a2, a3, a4, docs, doc, c1

MergeSessionOf == a1 :> s1 @@ a2 :> s2 @@ a3 :> s1 @@ a4 :> s2
MergeBucketOf  == a1 :> docs @@ a2 :> docs @@ a3 :> doc @@ a4 :> doc
MergeCategory  == docs :> "entity" @@ doc :> "entity"
MergeSameAs    == {<<docs, doc>>, <<doc, docs>>}
NoneSameAs     == {}

ProfileSessionOf == [a \in Atoms |-> IF a = a1 THEN s1 ELSE s2]
OneSessionOf     == [a \in Atoms |-> s1]
ProfileBucketOf  == [a \in Atoms |-> IF a = a3 THEN doc ELSE docs]
ProfileCategory  == docs :> "profile" @@ doc :> "event"
ProfileTargetOf  == c1 :> docs
NoTargetOf       == <<>>
=============================================================================
