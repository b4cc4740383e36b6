------------------------------- MODULE Remember -------------------------------
(***************************************************************************)
(* What the rollups of L3 promise about long-term memory: a memory is      *)
(* written by one subject at a time, its own or another spelling of it,    *)
(* and rests on evidence of the one that wrote it last.  A subject that    *)
(* writes again takes in more of its evidence and never goes back to less; *)
(* but when another takes the memory over, what it rested on is replaced.  *)
(* An entity is there only once enough conversations have told of it.      *)
(*                                                                         *)
(* There are no rollups, goroutines, mutexes, transactions or failures     *)
(* here.  Module Rollup models those and is shown to implement this one.   *)
(***************************************************************************)
EXTENDS Naturals, FiniteSets

CONSTANTS
  Atoms,        \* what L1 may ever extract
  Buckets,      \* the subjects, each with the URI of its memory
  SessionOf,    \* the conversation of each atom
  BucketOf,     \* the subject of each atom
  Category,     \* of each subject: "profile", "entity" (or preference), "event"
  SameAs,       \* pairs of subjects that are one
  MinSessions   \* so many conversations must tell of an entity

VARIABLES
  atoms,        \* the evidence there is
  memory        \* the atoms that the memory at each URI rests on, none without one

rememberVars == <<atoms, memory>>

About(b) == {a \in atoms : BucketOf[a] = b}

RememberInit ==
  /\ atoms = {}
  /\ memory = [u \in Buckets |-> {}]

(* A conversation yields an atom. *)
Learn(a) ==
  /\ atoms' = atoms \cup {a}
  /\ UNCHANGED memory

(* A subject writes its own memory, or takes over the one there is of what *)
(* is the same subject.                                                    *)
MayWrite(b, u) == b = u \/ (<<b, u>> \in SameAs /\ memory[u] # {})

(* Events are written once, entities on the word of enough conversations. *)
Worthy(u, S) ==
  /\ Category[u] = "event" => memory[u] = {}
  /\ Category[u] = "entity" => Cardinality({SessionOf[a] : a \in S}) >= MinSessions

(* The memory at u rests on S from now on: evidence of the subject that    *)
(* writes, at least what it rested on of that subject before.  Evidence of *)
(* another subject, the one taken over, is not kept.                       *)
Rewrite(u) ==
  \E b \in Buckets : \E S \in SUBSET About(b) :
    /\ MayWrite(b, u) /\ Worthy(u, S)
    /\ S # {} /\ memory[u] \cap About(b) \subseteq S
    /\ memory' = [memory EXCEPT ![u] = S]
    /\ UNCHANGED atoms

RememberNext == (\E a \in Atoms : Learn(a)) \/ (\E u \in Buckets : Rewrite(u))

RememberSpec == RememberInit /\ [][RememberNext]_rememberVars
===============================================================================
