------------------------------- MODULE Distill -------------------------------
(***************************************************************************)
(* What the distillation pipeline promises about one conversation: every   *)
(* captured turn enters the evidence (the session's atoms) through at most *)
(* one extraction, and the session's scenes are only ever replaced by      *)
(* scenes built from the evidence as it stands at that moment.             *)
(*                                                                         *)
(* There are no workers, statuses, locks, timers or failures here.  Module *)
(* Pipeline models those and is shown to implement this module.            *)
(***************************************************************************)
EXTENDS Naturals, Sequences

CONSTANTS
  Sessions,     \* the conversations
  Times,        \* created_at of a turn, which also identifies it in its session
  L2MaxAtoms    \* scenes are built from this many most recent atoms

VARIABLES
  turns,        \* the turns captured in each session
  extracted,    \* those already turned into atoms (l1_extracted_at is set)
  atoms,        \* the atoms in order of creation, each as its source turns
  scenes        \* the positions of the atoms the scenes were built from

promiseVars == <<turns, extracted, atoms, scenes>>

(* The newest L2MaxAtoms of n atoms. *)
Recent(n) == {i \in 1..n : n < i + L2MaxAtoms}

PromiseInit ==
  /\ turns     = [s \in Sessions |-> {}]
  /\ extracted = [s \in Sessions |-> {}]
  /\ atoms     = [s \in Sessions |-> <<>>]
  /\ scenes    = [s \in Sessions |-> {}]

(* A turn of the conversation is captured. *)
Capture(s) ==
  \E t \in Times \ turns[s] :
    /\ turns' = [turns EXCEPT ![s] = @ \cup {t}]
    /\ UNCHANGED <<extracted, atoms, scenes>>

(* Turns not extracted before yield at most one (aggregated) atom. *)
Extract(s) ==
  \E batch \in SUBSET (turns[s] \ extracted[s]) :
    /\ batch # {}
    /\ extracted' = [extracted EXCEPT ![s] = @ \cup batch]
    /\ \/ atoms' = [atoms EXCEPT ![s] = Append(@, batch)]
       \/ atoms' = atoms
    /\ UNCHANGED <<turns, scenes>>

(* The scenes are rebuilt from the evidence there is now. *)
Build(s) ==
  /\ scenes' = [scenes EXCEPT ![s] = Recent(Len(atoms[s]))]
  /\ UNCHANGED <<turns, extracted, atoms>>

PromiseNext == \E s \in Sessions : Capture(s) \/ Extract(s) \/ Build(s)

PromiseSpec == PromiseInit /\ [][PromiseNext]_promiseVars

-----------------------------------------------------------------------------
(* What is left of the promise when several processes distill the same     *)
(* conversations: turns may enter the evidence again and scenes may be     *)
(* built from the evidence of an earlier moment.  Still no turn is marked  *)
(* that was not captured, no evidence and no mark is lost, an atom comes   *)
(* with the marks of its turns, and the scenes are those of one moment.    *)
ExtractAgain(s) ==
  \E batch \in SUBSET turns[s] :
    /\ batch # {}
    /\ extracted' = [extracted EXCEPT ![s] = @ \cup batch]
    /\ \/ atoms' = [atoms EXCEPT ![s] = Append(@, batch)]
       \/ atoms' = atoms
    /\ UNCHANGED <<turns, scenes>>

BuildOlder(s) ==
  \E n \in 1..Len(atoms[s]) :
    /\ scenes' = [scenes EXCEPT ![s] = Recent(n)]
    /\ UNCHANGED <<turns, extracted, atoms>>

SharedNext == \E s \in Sessions : Capture(s) \/ ExtractAgain(s) \/ BuildOlder(s)

SharedSpec == PromiseInit /\ [][SharedNext]_promiseVars
==============================================================================
