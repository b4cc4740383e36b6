------------------------------ MODULE Pipeline ------------------------------
(***************************************************************************)
(* Distillation of captured conversations in rmbd: turns are uploaded over *)
(* HTTP, the L1 worker extracts atoms from them in batches, and the L2     *)
(* worker rebuilds a session's scenes from its atoms.                      *)
(*                                                                         *)
(* All lasting state is in SQLite, where every transaction is BEGIN        *)
(* IMMEDIATE, so a transaction is one step here.  A worker handles a       *)
(* session in two transactions, prepare and persist, with the LLM calls in *)
(* between; uploads, operator commands, a crash or the other worker may    *)
(* come in that gap.  The workers of one process exclude each other per    *)
(* session with an in-memory mutex.  l3_status is what L2 hands to the     *)
(* rollup of the third tier; L3MarkIdle is that worker's only effect here. *)
(***************************************************************************)
EXTENDS Naturals, Sequences, FiniteSets

CONSTANTS
  Daemons,      \* rmbd processes that may run on the same database
  Sessions,     \* conversations
  MaxTime,      \* turns carry a created_at in 1..MaxTime (bounds the model)
  EveryN,       \* l1_every_n
  Warmup,       \* l1_warmup
  IdleOn,       \* l1_idle_seconds is not zero
  L1MaxTurns,   \* l1_max_turns_per_batch
  L2MaxAtoms,   \* l2_max_atoms_per_batch
  MaxFaults     \* failures and crashes in a behaviour (bounds the model)

Times == 1..MaxTime

ASSUME PipelineAssumption ==
  /\ MaxTime \in Nat
  /\ EveryN \in Nat \ {0}
  /\ Warmup \in BOOLEAN
  /\ IdleOn \in BOOLEAN
  /\ L1MaxTurns \in Nat \ {0}
  /\ L2MaxAtoms \in Nat \ {0}
  /\ MaxFaults \in Nat

VARIABLES
  (* the database *)
  turns,        \* session_turns of each session, as created_at stamps
  extracted,    \* those with l1_extracted_at set
  atoms,        \* the session's atoms in order, each as its source turns
  scenes,       \* the positions of the atoms the scenes were built from: those
                \* the model was given (which of them it cites is its own choice)
  l1, l2, l3,   \* pipeline_state.l1_status, l2_status, l3_status
  since,        \* l1_turns_since_advanced
  warm,         \* warmup_threshold
  advanced,     \* l1_advanced_at: never, less than L2DelayAfterL1 ago, settled
  (* the passing of time *)
  clock,        \* turns created at or before it are at least L1Idle old
  (* each process's memory *)
  up,           \* the running processes
  sel1, sel2,   \* candidate sessions of the L1 and the L2 cycle not yet begun
  l1job,        \* the L1 batch in flight on a session, NoBatch if none
  l2job,        \* number of atoms the L2 build in flight has loaded, 0 if none
  faults        \* failures so far

dbVars    == <<turns, extracted, atoms, scenes, l1, l2, l3, since, warm, advanced>>
memVars   == <<sel1, sel2, l1job, l2job>>
promised  == <<turns, extracted, atoms, scenes>>
vars      == <<dbVars, clock, up, memVars, faults>>

Status  == {"idle", "pending", "running", "failed"}
NoBatch == [turns |-> {}, warm |-> 0]

-----------------------------------------------------------------------------
(* Helpers *)

(* Variant: the window starts one position early. *)
BadRecent(n) == {i \in 0..n : n <= i + L2MaxAtoms}

(* The newest L2MaxAtoms of n atoms. *)
Recent(n) == {i \in 1..n : n < i + L2MaxAtoms}

(* The n oldest turns of S. *)
Oldest(S, n) == {t \in S : Cardinality({u \in S : u < t}) < n}

(* The turns a prepare of session s fetches. *)
Batch(s) == Oldest(turns[s] \ extracted[s], L1MaxTurns)

(* The number of new turns that triggers an extraction. *)
Threshold(w) == IF Warmup /\ w > 0 /\ w < EveryN THEN w ELSE EveryN

NextWarmup(w) ==
  CASE ~Warmup        -> EveryN
    [] Warmup /\ w = 0 -> 2
    [] OTHER          -> IF w * 2 > EveryN THEN EveryN ELSE w * 2

(* The newest turn of the batch is older than L1Idle. *)
BadIdleSince(batch) == FALSE

IdleSince(batch) == IdleOn /\ \A t \in batch : t <= clock

ShouldRunL1(s) ==
  \/ l1[s] \in {"pending", "failed"}
  \/ since[s] >= Threshold(warm[s])
  \/ IdleSince(Batch(s))

ShouldRunL2(s) ==
  /\ l1[s] # "running"
  /\ l2[s] \in {"pending", "failed"}
  /\ advanced[s] = "settled"

(* The session mutex of process d, which both workers take. *)
BadLockFree(d, s) == TRUE

LockFree(d, s) == l1job[d][s] = NoBatch /\ l2job[d][s] = 0

Fault == faults < MaxFaults /\ faults' = faults + 1

-----------------------------------------------------------------------------
(* The database starts empty and no process runs. *)
Init ==
  /\ turns     = [s \in Sessions |-> {}]
  /\ extracted = [s \in Sessions |-> {}]
  /\ atoms     = [s \in Sessions |-> <<>>]
  /\ scenes    = [s \in Sessions |-> {}]
  /\ l1        = [s \in Sessions |-> "idle"]
  /\ l2        = [s \in Sessions |-> "idle"]
  /\ l3        = [s \in Sessions |-> "idle"]
  /\ since     = [s \in Sessions |-> 0]
  /\ warm      = [s \in Sessions |-> 2]
  /\ advanced  = [s \in Sessions |-> "never"]
  /\ clock     = 0
  /\ up        = {}
  /\ sel1      = [d \in Daemons |-> {}]
  /\ sel2      = [d \in Daemons |-> {}]
  /\ l1job     = [d \in Daemons |-> [s \in Sessions |-> NoBatch]]
  /\ l2job     = [d \in Daemons |-> [s \in Sessions |-> 0]]
  /\ faults    = 0

(***************************************************************************)
(* HTTP: a turn of session s arrives.  Its created_at is the time of the   *)
(* call, or any earlier one when a client replays history.  The first turn *)
(* creates the session and its pipeline row.                               *)
(***************************************************************************)
Upload(s, t) ==
  /\ up # {}
  /\ t \notin turns[s]
  /\ turns' = [turns EXCEPT ![s] = @ \cup {t}]
  /\ l1'    = [l1 EXCEPT ![s] = "pending"]
  /\ since' = [since EXCEPT ![s] = IF turns[s] = {} THEN @ ELSE @ + 1]
  /\ UNCHANGED <<extracted, atoms, scenes, l2, l3, warm, advanced>>
  /\ UNCHANGED <<clock, up, memVars, faults>>

(* Time passes: the next created_at becomes L1Idle old. *)
Tick ==
  /\ clock < MaxTime
  /\ clock' = clock + 1
  /\ UNCHANGED <<dbVars, up, memVars, faults>>

(* L2DelayAfterL1 has passed since the session's last extraction. *)
Settle(s) ==
  /\ advanced[s] = "recent"
  /\ advanced' = [advanced EXCEPT ![s] = "settled"]
  /\ UNCHANGED <<promised, l1, l2, l3, since, warm, clock, up, memVars, faults>>

-----------------------------------------------------------------------------
(* The L1 worker *)

(* A cycle picks the session; its goroutine then waits for the mutex. *)
SelectL1(d, s) ==
  /\ d \in up
  /\ s \notin sel1[d] /\ l1job[d][s] = NoBatch
  /\ turns[s] \ extracted[s] # {}
  /\ sel1' = [sel1 EXCEPT ![d] = @ \cup {s}]
  /\ UNCHANGED <<dbVars, clock, up, sel2, l1job, l2job, faults>>

(* The goroutine has the mutex and opens its first transaction. *)
BeginL1(d, s) ==
  /\ s \in sel1[d]
  /\ LockFree(d, s)
  /\ sel1' = [sel1 EXCEPT ![d] = @ \ {s}]
  /\ UNCHANGED <<promised, l2, l3, warm, advanced, clock, up, sel2, l2job, faults>>

(* Another process extracted the turns in the meantime. *)
NothingLeft(d, s) ==
  /\ BeginL1(d, s)
  /\ Batch(s) = {}
  /\ IF l1[s] = "pending"
     THEN /\ l1'    = [l1 EXCEPT ![s] = "idle"]
          /\ since' = [since EXCEPT ![s] = 0]
     ELSE UNCHANGED <<l1, since>>
  /\ UNCHANGED l1job

(* Not enough turns yet and the session is not idle: try a later cycle. *)
NotYetL1(d, s) ==
  /\ BeginL1(d, s)
  /\ Batch(s) # {}
  /\ ~ShouldRunL1(s)
  /\ UNCHANGED <<l1, since, l1job>>

PrepareL1(d, s) ==
  /\ BeginL1(d, s)
  /\ Batch(s) # {}
  /\ ShouldRunL1(s)
  /\ l1'    = [l1 EXCEPT ![s] = "running"]
  /\ l1job' = [l1job EXCEPT ![d][s] = [turns |-> Batch(s), warm |-> warm[s]]]
  /\ UNCHANGED since

(* The batch of d on s is over and the mutex is released. *)
EndL1(d, s) ==
  /\ l1job[d][s] # NoBatch
  /\ l1job' = [l1job EXCEPT ![d][s] = NoBatch]
  /\ UNCHANGED <<clock, up, sel1, sel2, l2job>>

(* Variant: the queueing of L2 is forgotten. *)
BadPersistL1(d, s) ==
  /\ EndL1(d, s)
  /\ \/ atoms' = [atoms EXCEPT ![s] = Append(@, l1job[d][s].turns)]
     \/ UNCHANGED atoms
  /\ extracted' = [extracted EXCEPT ![s] = @ \cup l1job[d][s].turns]
  /\ l1'        = [l1 EXCEPT ![s] = "idle"]
  /\ advanced'  = [advanced EXCEPT ![s] = "recent"]
  /\ since'     = [since EXCEPT ![s] = 0]
  /\ warm'      = [warm EXCEPT ![s] = NextWarmup(l1job[d][s].warm)]
  /\ UNCHANGED <<turns, scenes, l2, l3, faults>>

(* The LLM answered.  It may have found nothing, or only paraphrases. *)
PersistL1(d, s) ==
  /\ EndL1(d, s)
  /\ \/ atoms' = [atoms EXCEPT ![s] = Append(@, l1job[d][s].turns)]
     \/ UNCHANGED atoms
  /\ extracted' = [extracted EXCEPT ![s] = @ \cup l1job[d][s].turns]
  /\ l1'        = [l1 EXCEPT ![s] = "idle"]
  /\ advanced'  = [advanced EXCEPT ![s] = "recent"]
  /\ since'     = [since EXCEPT ![s] = 0]
  /\ warm'      = [warm EXCEPT ![s] = NextWarmup(l1job[d][s].warm)]
  /\ l2'        = [l2 EXCEPT ![s] = "pending"]
  /\ UNCHANGED <<turns, scenes, l3, faults>>

(* The LLM failed or its answer does not parse: retried, or marked failed. *)
FailL1(d, s) ==
  /\ EndL1(d, s)
  /\ \E status \in {"pending", "failed"} : l1' = [l1 EXCEPT ![s] = status]
  /\ Fault
  /\ UNCHANGED <<promised, l2, l3, since, warm, advanced>>

(* Variant: atoms are inserted outside the transaction that marks turns. *)
BadLoseL1(d, s) ==
  /\ EndL1(d, s)
  /\ Fault
  /\ atoms' = [atoms EXCEPT ![s] = Append(@, l1job[d][s].turns)]
  /\ UNCHANGED <<turns, extracted, scenes, l1, l2, l3, since, warm, advanced>>

(* The persist transaction, or recording a failure, did not go through. *)
LoseL1(d, s) ==
  /\ EndL1(d, s)
  /\ Fault
  /\ UNCHANGED dbVars

-----------------------------------------------------------------------------
(* The L2 worker *)

(* Variant: sessions whose build failed are not candidates again. *)
BadSelectL2(d, s) ==
  /\ d \in up
  /\ s \notin sel2[d] /\ l2job[d][s] = 0
  /\ l2[s] = "pending" /\ l1[s] # "running"
  /\ sel2' = [sel2 EXCEPT ![d] = @ \cup {s}]
  /\ UNCHANGED <<dbVars, clock, up, sel1, l1job, l2job, faults>>

SelectL2(d, s) ==
  /\ d \in up
  /\ s \notin sel2[d] /\ l2job[d][s] = 0
  /\ l2[s] \in {"pending", "failed"} /\ l1[s] # "running"
  /\ sel2' = [sel2 EXCEPT ![d] = @ \cup {s}]
  /\ UNCHANGED <<dbVars, clock, up, sel1, l1job, l2job, faults>>

BeginL2(d, s) ==
  /\ s \in sel2[d]
  /\ LockFree(d, s)
  /\ sel2' = [sel2 EXCEPT ![d] = @ \ {s}]
  /\ UNCHANGED <<promised, l1, l3, since, warm, advanced>>
  /\ UNCHANGED <<clock, up, sel1, l1job, faults>>

NotYetL2(d, s) ==
  /\ BeginL2(d, s)
  /\ ~ShouldRunL2(s)
  /\ UNCHANGED <<l2, l2job>>

(* Extraction found nothing in this session: there is nothing to build. *)
NoAtoms(d, s) ==
  /\ BeginL2(d, s)
  /\ ShouldRunL2(s)
  /\ atoms[s] = <<>>
  /\ l2' = [l2 EXCEPT ![s] = "idle"]
  /\ UNCHANGED l2job

PrepareL2(d, s) ==
  /\ BeginL2(d, s)
  /\ ShouldRunL2(s)
  /\ atoms[s] # <<>>
  /\ l2'    = [l2 EXCEPT ![s] = "running"]
  /\ l2job' = [l2job EXCEPT ![d][s] = Len(atoms[s])]

EndL2(d, s) ==
  /\ l2job[d][s] # 0
  /\ l2job' = [l2job EXCEPT ![d][s] = 0]
  /\ UNCHANGED <<clock, up, sel1, sel2, l1job>>

(* Scenes are upserted, the others of the session pruned, L3 is queued. *)
PersistL2(d, s) ==
  /\ EndL2(d, s)
  /\ scenes' = [scenes EXCEPT ![s] = Recent(l2job[d][s])]
  /\ l2'     = [l2 EXCEPT ![s] = "idle"]
  /\ l3'     = [l3 EXCEPT ![s] = "pending"]
  /\ UNCHANGED <<turns, extracted, atoms, l1, since, warm, advanced, faults>>

FailL2(d, s) ==
  /\ EndL2(d, s)
  /\ \E status \in {"pending", "failed"} : l2' = [l2 EXCEPT ![s] = status]
  /\ Fault
  /\ UNCHANGED <<promised, l1, l3, since, warm, advanced>>

(* Variant: the old scenes are pruned in a transaction of their own. *)
BadLoseL2(d, s) ==
  /\ EndL2(d, s)
  /\ Fault
  /\ scenes' = [scenes EXCEPT ![s] = {}]
  /\ UNCHANGED <<turns, extracted, atoms, l1, l2, l3, since, warm, advanced>>

LoseL2(d, s) ==
  /\ EndL2(d, s)
  /\ Fault
  /\ UNCHANGED dbVars

(* A cycle stops early, or the first transaction of a session fails. *)
Abandon(d, s) ==
  /\ s \in sel1[d] \cup sel2[d]
  /\ sel1' = [sel1 EXCEPT ![d] = @ \ {s}]
  /\ sel2' = [sel2 EXCEPT ![d] = @ \ {s}]
  /\ Fault
  /\ UNCHANGED <<dbVars, clock, up, l1job, l2job>>

(* The L3 worker finishes a rollup of the sessions in done. *)
L3MarkIdle(done) ==
  /\ up # {}
  /\ \A s \in done : l3[s] = "pending"
  /\ l3' = [s \in Sessions |-> IF s \in done THEN "idle" ELSE l3[s]]
  /\ UNCHANGED <<promised, l1, l2, since, warm, advanced, clock, up, memVars, faults>>

-----------------------------------------------------------------------------
(* Operator commands and the life of a process *)

Pending(status, S) == [s \in Sessions |-> IF s \in S THEN "pending" ELSE status[s]]

Running(status) == {s \in Sessions : status[s] = "running"}

(* POST debug/pipeline/requeue, at any time and for any stage. *)
Requeue(s) ==
  /\ up # {}
  /\ turns[s] # {}
  /\ \/ l1' = Pending(l1, {s}) /\ UNCHANGED <<l2, l3>>
     \/ l2' = Pending(l2, {s}) /\ UNCHANGED <<l1, l3>>
     \/ l3' = Pending(l3, {s}) /\ UNCHANGED <<l1, l2>>
  /\ UNCHANGED <<promised, since, warm, advanced, clock, up, memVars, faults>>

(* POST debug/pipeline/unstick: rows running for too long, zombies or not. *)
Unstick(old) ==
  /\ up # {}
  /\ \/ old \subseteq Running(l1) /\ l1' = Pending(l1, old) /\ UNCHANGED l2
     \/ old \subseteq Running(l2) /\ l2' = Pending(l2, old) /\ UNCHANGED l1
  /\ UNCHANGED <<promised, l3, since, warm, advanced, clock, up, memVars, faults>>

(* A process starts: rows left running are reset, stage by stage, before its
   workers run; the first reset that fails ends the recovery, and the workers
   start all the same.
*)
Start(d) ==
  /\ d \notin up
  /\ up' = up \cup {d}
  /\ \/ /\ l1' = Pending(l1, Running(l1))
        /\ \/ l2' = Pending(l2, Running(l2)) /\ UNCHANGED faults
           \/ UNCHANGED l2 /\ Fault
     \/ UNCHANGED <<l1, l2>> /\ Fault
  /\ UNCHANGED <<promised, l3, since, warm, advanced, clock, memVars>>

(* The process is killed, or told to stop: what was in flight is dropped. *)
Stop(d) ==
  /\ d \in up
  /\ up'    = up \ {d}
  /\ sel1'  = [sel1 EXCEPT ![d] = {}]
  /\ sel2'  = [sel2 EXCEPT ![d] = {}]
  /\ l1job' = [l1job EXCEPT ![d] = [s \in Sessions |-> NoBatch]]
  /\ l2job' = [l2job EXCEPT ![d] = [s \in Sessions |-> 0]]
  /\ Fault
  /\ UNCHANGED <<dbVars, clock>>

-----------------------------------------------------------------------------
L1Next(d, s) ==
  \/ SelectL1(d, s) \/ NothingLeft(d, s) \/ NotYetL1(d, s) \/ PrepareL1(d, s)
  \/ PersistL1(d, s) \/ FailL1(d, s) \/ LoseL1(d, s)

L2Next(d, s) ==
  \/ SelectL2(d, s) \/ NotYetL2(d, s) \/ NoAtoms(d, s) \/ PrepareL2(d, s)
  \/ PersistL2(d, s) \/ FailL2(d, s) \/ LoseL2(d, s)

EnvNext ==
  \/ \E s \in Sessions, t \in Times : Upload(s, t)
  \/ Tick
  \/ \E s \in Sessions : Settle(s) \/ Requeue(s)
  \/ \E S \in SUBSET Sessions \ {{}} : L3MarkIdle(S) \/ Unstick(S)
  \/ \E d \in Daemons : Start(d) \/ Stop(d)

Next ==
  \/ EnvNext
  \/ \E d \in Daemons, s \in Sessions : L1Next(d, s) \/ L2Next(d, s) \/ Abandon(d, s)

Spec == Init /\ [][Next]_vars

(***************************************************************************)
(* Fairness.  Time passes.  The app's supervisor restarts rmbd when none   *)
(* runs.  A worker's poll loop keeps cycling, so a session that stays a    *)
(* candidate is selected and its prepare runs; a Go mutex is handed to a   *)
(* starving waiter, hence SF for the steps that need it.  An LLM call ends *)
(* (the client has a timeout), by an answer or by a fault.                 *)
(***************************************************************************)
StepL1(d, s) == NothingLeft(d, s) \/ NotYetL1(d, s) \/ PrepareL1(d, s)
StepL2(d, s) == NotYetL2(d, s) \/ NoAtoms(d, s) \/ PrepareL2(d, s)

Fairness ==
  /\ WF_vars(Tick)
  /\ WF_vars(up = {} /\ \E d \in Daemons : Start(d))
  /\ \A s \in Sessions : WF_vars(Settle(s))
  /\ \A d \in Daemons, s \in Sessions :
       /\ SF_vars(SelectL1(d, s)) /\ SF_vars(SelectL2(d, s))
       /\ SF_vars(StepL1(d, s))   /\ SF_vars(StepL2(d, s))
       /\ WF_vars(PersistL1(d, s)) /\ WF_vars(PersistL2(d, s))

FairSpec == Spec /\ Fairness

-----------------------------------------------------------------------------
(* Properties *)

(* Every row, stamp and in-memory record has the shape the code gives it. *)
TypeOK ==
  /\ turns \in [Sessions -> SUBSET Times]
  /\ extracted \in [Sessions -> SUBSET Times]
  /\ atoms \in [Sessions -> Seq(SUBSET Times)]
  /\ scenes \in [Sessions -> SUBSET (Nat \ {0})]
  /\ l1 \in [Sessions -> Status]
  /\ l2 \in [Sessions -> Status]
  /\ l3 \in [Sessions -> Status]
  /\ since \in [Sessions -> Nat]
  /\ warm \in [Sessions -> Nat]
  /\ advanced \in [Sessions -> {"never", "recent", "settled"}]
  /\ clock \in 0..MaxTime
  /\ up \in SUBSET Daemons
  /\ sel1 \in [Daemons -> SUBSET Sessions]
  /\ sel2 \in [Daemons -> SUBSET Sessions]
  /\ l1job \in [Daemons -> [Sessions -> [turns : SUBSET Times, warm : Nat]]]
  /\ l2job \in [Daemons -> [Sessions -> Nat]]
  /\ faults \in 0..MaxFaults

(***************************************************************************)
(* No turn is the source of atoms of two extractions, whatever uploads,    *)
(* retries, requeues, unsticks and restarts happen while a batch is at the *)
(* LLM.  (prepareBatch, persistBatch and the session mutex of L1)          *)
(***************************************************************************)
OncePerTurn ==
  \A s \in Sessions : \A i, j \in 1..Len(atoms[s]) :
    i # j => atoms[s][i] \cap atoms[s][j] = {}

(***************************************************************************)
(* Atoms and the l1_extracted_at marks of their turns become visible       *)
(* together: no atom has a source turn that would be extracted again.      *)
(***************************************************************************)
SourcesExtracted ==
  \A s \in Sessions : \A i \in 1..Len(atoms[s]) :
    atoms[s][i] \subseteq extracted[s]

(***************************************************************************)
(* A session whose L2 stage rests has scenes built from all the evidence   *)
(* it has (the newest L2MaxAtoms of it): an extraction that lands while a  *)
(* build is queued, running or being retried is never forgotten.           *)
(***************************************************************************)
ScenesCoverAtoms ==
  \A s \in Sessions : l2[s] = "idle" => scenes[s] = Recent(Len(atoms[s]))

(***************************************************************************)
(* persistScenes never replaces scenes by ones built from atoms loaded     *)
(* before other atoms of the session were inserted.                        *)
(***************************************************************************)
ScenesNeverStale ==
  [][\A s \in Sessions :
       scenes'[s] # scenes[s] => scenes'[s] = Recent(Len(atoms[s]))]_vars

(* The pipeline keeps the promise of module Distill. *)
Promise ==
  INSTANCE Distill WITH
    Sessions <- Sessions, Times <- Times, L2MaxAtoms <- L2MaxAtoms,
    turns <- turns, extracted <- extracted, atoms <- atoms, scenes <- scenes

KeepsPromise == Promise!PromiseSpec

(***************************************************************************)
(* Several processes on one database keep what Distill promises of them:   *)
(* whatever interleaves, is killed or fails, captured turns, marks, atoms  *)
(* and scenes are never lost, torn apart or made of nothing.               *)
(***************************************************************************)
KeepsShared == Promise!SharedSpec

(***************************************************************************)
(* Every captured turn is extracted in the end: a lost pending mark, a row *)
(* left running or failed, or turns beyond the batch limit only delay it.  *)
(***************************************************************************)
EveryTurnExtracted ==
  \A s \in Sessions, t \in Times : t \in turns[s] ~> t \in extracted[s]

(* An L2 row left running by a build that no process works on any more. *)
ZombieL2(s) == l2[s] = "running" /\ \A d \in Daemons : l2job[d][s] = 0

(***************************************************************************)
(* Evidence reaches the scenes in the end, unless a build ended without    *)
(* recording how: such a row waits for a restart or for an unstick.        *)
(***************************************************************************)
EvidenceReachesScenes ==
  \A s \in Sessions :
    atoms[s] # <<>> ~> (scenes[s] = Recent(Len(atoms[s])) \/ ZombieL2(s))
=============================================================================
