------------------------------- MODULE Rollup -------------------------------
(***************************************************************************)
(* The L3 worker of rmbd: a rollup reads all atoms, groups them into       *)
(* buckets (one per memory URI) and re-distills, in parallel goroutines,   *)
(* the buckets whose evidence changed.  Uploads, corrections and a manual  *)
(* reconsolidation go on meanwhile.                                        *)
(*                                                                         *)
(* A goroutine holds the mutex of its bucket's URI from the materiality    *)
(* gate to the end of its write.  A new bucket that denotes the subject of *)
(* an existing memory, its incumbent, is merged into it, which takes the   *)
(* incumbent's mutex inside the (BEGIN IMMEDIATE) write transaction.       *)
(***************************************************************************)
EXTENDS Naturals, FiniteSets

CONSTANTS
  Sessions, Atoms, Buckets, Corrections,
  SessionOf,    \* the session of each atom
  BucketOf,     \* the bucket (category and slug) of each atom
  TargetOf,     \* the memory each correction is about
  Category,     \* of each bucket: "profile", "entity" (or preference), "event"
  SameAs,       \* pairs of buckets found to be one subject (slug or cosine)
  MinSessions,  \* graduationMinSessions
  L3Concurrency,
  MaxFaults,    \* failures in a behaviour (bounds the model)
  MaxRebuilds   \* manual reconsolidations in a behaviour (bounds the model)

ASSUME RollupAssumption ==
  /\ SessionOf \in [Atoms -> Sessions]
  /\ BucketOf \in [Atoms -> Buckets]
  /\ TargetOf \in [Corrections -> Buckets]
  /\ Category \in [Buckets -> {"profile", "entity", "event"}]
  /\ SameAs \subseteq Buckets \X Buckets
  /\ \A p \in SameAs : p[1] # p[2] /\ Category[p[1]] = Category[p[2]]
  /\ MinSessions \in Nat /\ L3Concurrency \in Nat \ {0}
  /\ MaxFaults \in Nat /\ MaxRebuilds \in Nat

VARIABLES
  atoms,     \* table atoms
  scened,    \* those that the scenes of their session list as sources
  l3,        \* pipeline_state.l3_status
  corr,      \* table corrections: absent, active or retracted
  wake,      \* what the handlers of corrections have still to do
  mem,       \* the active row of table memories for each URI
  phase,     \* of the rollup: none, started (sessions read), loaded, running
  ids,       \* the sessions it found pending
  seen,      \* the atoms it loaded
  linked,    \* those with a scene when it loaded scenes
  fixes,     \* the corrections it loaded
  pc,        \* what the goroutine of each bucket does
  into,      \* the incumbent a goroutine waits for
  written,   \* rollupBatch.written
  retry,     \* transientPending
  rebuild,   \* the reconsolidation in flight
  rebuilds, faults,
  (* history *)
  dropped,   \* buckets whose failure this rollup only logged
  wrote      \* how often this rollup wrote each memory

(* A correction is created and retracted by a handler each: it commits the *)
(* new status, then looks (due) for the sessions behind the target and     *)
(* queues those it has found, one after the other.                         *)
Handlers == Corrections \X {"active", "retracted"}

AtRest == [due |-> FALSE, found |-> {}]

Places == {"none", "todo", "gate", "llm", "persist", "lookup", "wait", "done"}

dbVars   == <<atoms, scened, l3, corr, mem>>
inputs   == <<ids, seen, linked, fixes>>
rollVars == <<phase, inputs, pc, into, written, retry, dropped, wrote>>
rebVars  == <<rebuild, rebuilds>>
vars     == <<dbVars, wake, rollVars, rebVars, faults>>

-----------------------------------------------------------------------------
(* Rows of table memories *)

MemoryRow == [version : Nat, hash : SUBSET Atoms, scenes : SUBSET Sessions,
              corr : SUBSET Corrections]

NoMemory == [version |-> 0, hash |-> {}, scenes |-> {}, corr |-> {}]

(* hash: its source atoms; scenes: the sessions of its source scenes; corr: *)
(* its source corrections.                                                  *)
Row(version, hash, scenes, cs) ==
  [version |-> version, hash |-> hash, scenes |-> scenes, corr |-> cs]

Of(b, S) == {a \in S : BucketOf[a] = b}

SessionsOf(S) == {SessionOf[a] : a \in S}

(* What the rollup knows of bucket b. *)
Evidence(b) == Of(b, seen)
Sources(b)  == SessionsOf(Of(b, linked))
Fixes(b)    == {c \in fixes : TargetOf[c] = b}

(* Variant: the bar is off by one. *)
BadDeferred(b) ==
  /\ Category[b] = "entity"
  /\ mem[b].version = 0
  /\ Cardinality(SessionsOf(Evidence(b))) + 1 < MinSessions

(* Entities and preferences wait for a second session to mention them. *)
Deferred(b) ==
  /\ Category[b] = "entity"
  /\ mem[b].version = 0
  /\ Cardinality(SessionsOf(Evidence(b))) < MinSessions

(* Variant: the corrections are not compared. *)
BadUnchanged(b) ==
  /\ mem[b].version > 0
  /\ Category[b] = "event" \/ mem[b].hash = Evidence(b)

(* The materiality gate: same evidence, same corrections.  Events are      *)
(* written once.                                                           *)
Unchanged(b) ==
  /\ mem[b].version > 0
  /\ \/ Category[b] = "event"
     \/ mem[b].hash = Evidence(b) /\ mem[b].corr = Fixes(b)

Incumbents(b) == {i \in Buckets : <<b, i>> \in SameAs /\ mem[i].version > 0}

(* The goroutines that have passed the gate hold the mutex of their URI. *)
Locked(b) == pc[b] \in {"llm", "persist", "lookup", "wait"}

(* No transaction is open while a goroutine works or waits inside it. *)
InTx(b)   == pc[b] \in {"lookup", "wait"}
WriteFree == \A b \in Buckets : ~InTx(b)

Fault == faults < MaxFaults /\ faults' = faults + 1

-----------------------------------------------------------------------------
Init ==
  /\ atoms = {} /\ scened = {}
  /\ wake    = [h \in Handlers |-> AtRest]
  /\ l3      = [s \in Sessions |-> "idle"]
  /\ corr    = [c \in Corrections |-> "absent"]
  /\ mem     = [b \in Buckets |-> NoMemory]
  /\ phase   = "none"
  /\ ids = {} /\ seen = {} /\ linked = {} /\ fixes = {}
  /\ pc      = [b \in Buckets |-> "none"]
  /\ into    = [b \in Buckets |-> b]
  /\ written = {} /\ retry = FALSE /\ dropped = {}
  /\ rebuild = {} /\ rebuilds = 0 /\ faults = 0
  /\ wrote   = [b \in Buckets |-> 0]

(* l3_status becomes pending for the sessions of S. *)
Queue(S) == l3' = [s \in Sessions |-> IF s \in S THEN "pending" ELSE l3[s]]

-----------------------------------------------------------------------------
(* The other tiers and the correction handlers *)

(* L1 inserts an atom. *)
Extract(a) ==
  /\ WriteFree
  /\ a \notin atoms
  /\ atoms' = atoms \cup {a}
  /\ UNCHANGED <<scened, l3, corr, mem, wake, rollVars, rebVars, faults>>

(* Variant: source ids are taken as the LLM gave them. *)
BadBuildScenes(s) ==
  /\ WriteFree
  /\ \E a \in atoms \ scened : SessionOf[a] = s
  /\ scened' = scened \cup {a \in Atoms : SessionOf[a] = s}
  /\ Queue({s})
  /\ UNCHANGED <<atoms, corr, mem, wake, rollVars, rebVars, faults>>

(* L2 builds the scenes of session s from its atoms and queues L3. *)
BuildScenes(s) ==
  /\ WriteFree
  /\ \E a \in atoms \ scened : SessionOf[a] = s
  /\ scened' = scened \cup {a \in atoms : SessionOf[a] = s}
  /\ Queue({s})
  /\ UNCHANGED <<atoms, corr, mem, wake, rollVars, rebVars, faults>>

CreateCorrection(c) ==
  /\ WriteFree
  /\ corr[c] = "absent"
  /\ corr' = [corr EXCEPT ![c] = "active"]
  /\ wake' = [wake EXCEPT ![<<c, "active">>].due = TRUE]
  /\ UNCHANGED <<atoms, scened, l3, mem, rollVars, rebVars, faults>>

RetractCorrection(c) ==
  /\ WriteFree
  /\ corr[c] = "active"
  /\ corr' = [corr EXCEPT ![c] = "retracted"]
  /\ wake' = [wake EXCEPT ![<<c, "retracted">>].due = TRUE]
  /\ UNCHANGED <<atoms, scened, l3, mem, rollVars, rebVars, faults>>

(* The sessions behind the active row of the target are looked for; those  *)
(* whose scenes have been pruned are not found (counted as a fault).       *)
FindSessions(h) ==
  /\ wake[h].due
  /\ \E S \in SUBSET mem[TargetOf[h[1]]].scenes :
       /\ wake' = [wake EXCEPT ![h] = [due |-> FALSE, found |-> S]]
       /\ \/ S = mem[TargetOf[h[1]]].scenes /\ UNCHANGED faults
          \/ S # mem[TargetOf[h[1]]].scenes /\ Fault
  /\ UNCHANGED <<dbVars, rollVars, rebVars>>

EnqueueSession(h) ==
  /\ WriteFree
  /\ \E s \in wake[h].found :
       /\ wake' = [wake EXCEPT ![h].found = @ \ {s}]
       /\ Queue({s})
  /\ UNCHANGED <<atoms, scened, corr, mem, rollVars, rebVars, faults>>

(* Either fails, maybe half way, which is only logged. *)
EnqueueFails(h) ==
  /\ wake[h] # AtRest
  /\ wake' = [wake EXCEPT ![h] = AtRest]
  /\ Fault
  /\ UNCHANGED <<dbVars, rollVars, rebVars>>

-----------------------------------------------------------------------------
(* The rollup: what it reads, one query after the other *)

StartRollup ==
  /\ phase = "none"
  /\ \E s \in Sessions : l3[s] = "pending"
  /\ phase' = "started"
  /\ ids' = {s \in Sessions : l3[s] = "pending"}
  /\ UNCHANGED <<dbVars, wake, seen, linked, fixes, pc, into, written, retry>>
  /\ UNCHANGED <<dropped, wrote, rebVars, faults>>

LoadAtoms ==
  /\ phase = "started"
  /\ phase' = "loaded"
  /\ seen' = atoms
  /\ UNCHANGED <<dbVars, wake, ids, linked, fixes, pc, into, written, retry, dropped, wrote>>
  /\ UNCHANGED <<rebVars, faults>>

LoadScenesAndCorrections ==
  /\ phase = "loaded"
  /\ phase' = "running"
  /\ linked' = scened
  /\ fixes'  = {c \in Corrections : corr[c] = "active"}
  /\ pc' = [b \in Buckets |-> IF Evidence(b) = {} THEN "none" ELSE "todo"]
  /\ UNCHANGED <<dbVars, wake, ids, seen, into, written, retry, dropped, wrote>>
  /\ UNCHANGED <<rebVars, faults>>

-----------------------------------------------------------------------------
(* The goroutine of bucket b *)

(* One step of b that leaves memories alone. *)
Go(b, from, to) ==
  /\ pc[b] = from
  /\ pc' = [pc EXCEPT ![b] = to]
  /\ UNCHANGED <<dbVars, wake, phase, inputs, into, rebVars>>

(* Launched when a slot is free; new subjects may have to wait. *)
Consider(b) ==
  /\ Cardinality({o \in Buckets : Locked(o) \/ pc[o] = "gate"}) < L3Concurrency
  /\ Go(b, "todo", IF Deferred(b) \/ b \in written THEN "done" ELSE "gate")
  /\ UNCHANGED <<written, retry, dropped, wrote, faults>>

(* Variant: the URI may be written by a merge after the rollup began. *)
BadPassGate(b) ==
  /\ Go(b, "gate", IF Unchanged(b) THEN "done" ELSE "llm")
  /\ UNCHANGED <<written, retry, dropped, wrote, faults>>

(* With the URI's mutex: leave a bucket alone whose evidence is the same. *)
PassGate(b) ==
  /\ Go(b, "gate", IF b \in written \/ Unchanged(b) THEN "done" ELSE "llm")
  /\ UNCHANGED <<written, retry, dropped, wrote, faults>>

(* A read failed, or the LLM was throttled: the sessions stay pending. *)
Throttled(b) ==
  /\ \E from \in {"todo", "gate", "llm"} : Go(b, from, "done")
  /\ retry' = TRUE
  /\ Fault
  /\ UNCHANGED <<written, dropped, wrote>>

(* The LLM failed for good, or its answer does not parse: logged. *)
DistillFails(b) ==
  /\ Go(b, "llm", "done")
  /\ dropped' = dropped \cup {b}
  /\ Fault
  /\ UNCHANGED <<written, retry, wrote>>

Distilled(b) ==
  /\ Go(b, "llm", "persist")
  /\ UNCHANGED <<written, retry, dropped, wrote, faults>>

(* The write lock is not free for 5 seconds: SQLITE_BUSY, only logged. *)
WriteBusy(b) ==
  /\ ~WriteFree
  /\ Go(b, "persist", "done")
  /\ dropped' = dropped \cup {b}
  /\ UNCHANGED <<written, retry, wrote, faults>>

(* b's text becomes the active row of URI u, and b's transaction ends. *)
Write(b, u) ==
  /\ pc'  = [pc EXCEPT ![b] = "done"]
  /\ mem' = [mem EXCEPT ![u] =
               Row(@.version + 1, Evidence(b), Sources(b), Fixes(b))]
  /\ written' = IF Category[u] = "event" THEN written ELSE written \cup {u}
  /\ wrote' = [wrote EXCEPT ![u] = @ + 1]
  /\ UNCHANGED <<atoms, scened, l3, corr, wake, phase, inputs, into>>
  /\ UNCHANGED <<retry, dropped, rebVars>>

(* The row of the URI exists: a new version, unless the text is the same. *)
Persist(b) ==
  /\ WriteFree
  /\ pc[b] = "persist"
  /\ mem[b].version > 0
  /\ \/ Category[b] # "event" /\ Write(b, b) /\ UNCHANGED faults
     \/ /\ Category[b] # "event"
        /\ pc' = [pc EXCEPT ![b] = "done"]
        /\ mem' = [mem EXCEPT ![b].hash = Evidence(b), ![b].scenes = Sources(b),
                             ![b].corr = Fixes(b)]
        /\ UNCHANGED <<atoms, scened, l3, corr, wake, phase, inputs, into>>
        /\ UNCHANGED <<written, retry, dropped, wrote, rebVars, faults>>
     \/ /\ Category[b] = "event"
        /\ Go(b, "persist", "done")
        /\ UNCHANGED <<written, retry, dropped, wrote, faults>>

(* A new subject: look for its incumbent, with the transaction open. *)
LookUp(b) ==
  /\ WriteFree
  /\ mem[b].version = 0
  /\ Category[b] # "event"
  /\ Go(b, "persist", "lookup")
  /\ UNCHANGED <<written, retry, dropped, wrote, faults>>

(* There is none (or the lookup failed): a first version. *)
Insert(b) ==
  /\ \/ pc[b] = "lookup" /\ Incumbents(b) = {} /\ UNCHANGED faults
     \/ pc[b] = "lookup" /\ Incumbents(b) # {} /\ Fault
     \/ pc[b] = "persist" /\ Category[b] = "event" /\ WriteFree /\ UNCHANGED faults
  /\ mem[b].version = 0
  /\ Write(b, b)

(* There is one: its mutex is needed before the transaction goes on. *)
FindIncumbent(b) ==
  /\ \E i \in Incumbents(b) : into' = [into EXCEPT ![b] = i]
  /\ pc[b] = "lookup"
  /\ pc' = [pc EXCEPT ![b] = "wait"]
  /\ UNCHANGED <<dbVars, wake, phase, inputs, written, retry, dropped, wrote>>
  /\ UNCHANGED <<rebVars, faults>>

(* The incumbent is rewritten, unless this rollup has written it already. *)
Merge(b) ==
  /\ pc[b] = "wait"
  /\ ~Locked(into[b])
  /\ IF into[b] \in written
     THEN /\ Go(b, "wait", "done")
          /\ UNCHANGED <<written, retry, dropped, wrote, faults>>
     ELSE Write(b, into[b]) /\ UNCHANGED faults

(* The write failed: logged, or if in time out the sessions stay pending.  *)
(* If it was the commit, the URI is marked by then.                        *)
WriteFails(b) ==
  /\ \/ \E from \in {"persist", "lookup"} : Go(b, from, "done")
     \/ Go(b, "wait", "done") /\ ~Locked(into[b])
  /\ \/ UNCHANGED written
     \/ written' = written \cup {into[b]} /\ Category[b] # "event"
  /\ \/ dropped' = dropped \cup {b} /\ UNCHANGED retry
     \/ retry' = TRUE /\ UNCHANGED dropped
  /\ Fault
  /\ UNCHANGED wrote

-----------------------------------------------------------------------------
(* Its end *)

Over ==
  /\ phase' = "none"
  /\ ids' = {} /\ seen' = {} /\ linked' = {} /\ fixes' = {}
  /\ pc' = [b \in Buckets |-> "none"]
  /\ into' = [b \in Buckets |-> b]
  /\ written' = {} /\ retry' = FALSE /\ dropped' = {}
  /\ wrote' = [b \in Buckets |-> 0]
  /\ UNCHANGED <<atoms, scened, corr, mem, wake, rebVars>>

(* Variant: transient failures are forgotten. *)
BadFinish ==
  /\ phase = "running"
  /\ \A b \in Buckets : pc[b] \in {"none", "done"}
  /\ l3' = [s \in Sessions |-> IF s \in ids THEN "idle" ELSE l3[s]]
  /\ Over
  /\ UNCHANGED faults

(* All goroutines are back: the sessions go idle one by one, unless some   *)
(* must retry.                                                             *)
Finish ==
  /\ phase = "running"
  /\ \A b \in Buckets : pc[b] \in {"none", "done"}
  /\ \E done \in SUBSET ids :
       /\ l3' = [s \in Sessions |-> IF s \in done /\ ~retry THEN "idle" ELSE l3[s]]
       /\ \/ done = ids /\ UNCHANGED faults
          \/ done # ids /\ Fault
  /\ Over

(* The process dies, or a query fails: the sessions stay pending. *)
Abort ==
  /\ phase # "none"
  /\ Over
  /\ Fault
  /\ UNCHANGED l3

-----------------------------------------------------------------------------
(* POST debug/pipeline/reconsolidate, beside the rollup *)

(* It loads the evidence, then the active row, and distills. *)
ReadEvidence(b) ==
  /\ rebuild = {} /\ rebuilds < MaxRebuilds
  /\ Of(b, atoms) # {}
  /\ rebuild' = {[uri |-> b, atoms |-> Of(b, atoms), version |-> 0, read |-> FALSE]}
  /\ rebuilds' = rebuilds + 1
  /\ UNCHANGED <<dbVars, wake, rollVars, faults>>

ReadActive ==
  /\ \E r \in rebuild :
       /\ ~r.read
       /\ rebuild' = {[r EXCEPT !.version = mem[r.uri].version, !.read = TRUE]}
  /\ UNCHANGED <<dbVars, wake, rollVars, rebuilds, faults>>

(* The row it read is still the active one: superseded.  The LLM was not  *)
(* told of corrections, the source columns are kept.                      *)
Reconsolidate ==
  /\ WriteFree
  /\ \E r \in rebuild :
       /\ r.read /\ mem[r.uri].version = r.version
       /\ mem' = [mem EXCEPT ![r.uri] =
                    Row(@.version + 1, r.atoms, @.scenes, @.corr)]
  /\ rebuild' = {}
  /\ UNCHANGED <<atoms, scened, l3, corr, wake, rollVars, rebuilds, faults>>

(* Otherwise a second active row would violate the unique index; or the   *)
(* LLM failed: nothing changes.                                           *)
ReconsolidateFails ==
  /\ rebuild # {}
  /\ rebuild' = {}
  /\ UNCHANGED <<dbVars, wake, rollVars, rebuilds, faults>>

-----------------------------------------------------------------------------
BucketNext(b) ==
  \/ Consider(b) \/ PassGate(b) \/ Throttled(b) \/ DistillFails(b) \/ Distilled(b)
  \/ WriteBusy(b) \/ Persist(b) \/ LookUp(b) \/ Insert(b) \/ FindIncumbent(b)
  \/ Merge(b) \/ WriteFails(b)

Next ==
  \/ \E a \in Atoms : Extract(a)
  \/ \E s \in Sessions : BuildScenes(s)
  \/ \E c \in Corrections : CreateCorrection(c) \/ RetractCorrection(c)
  \/ \E h \in Handlers : FindSessions(h) \/ EnqueueSession(h) \/ EnqueueFails(h)
  \/ StartRollup \/ LoadAtoms \/ LoadScenesAndCorrections \/ Finish \/ Abort
  \/ \E b \in Buckets : BucketNext(b) \/ ReadEvidence(b)
  \/ ReadActive \/ Reconsolidate \/ ReconsolidateFails

Spec == Init /\ [][Next]_vars

(***************************************************************************)
(* Fairness.  The poll loop starts rollups and runs their queries; a       *)
(* goroutine's steps need no one else's, or an URI mutex that its holder   *)
(* gives back; LLM calls and transactions end (timeouts).  A correction's  *)
(* handler runs to its end.  Nothing else has to happen.                   *)
(***************************************************************************)
Step(b) ==
  \/ Consider(b) \/ PassGate(b) \/ Distilled(b) \/ WriteBusy(b) \/ Persist(b)
  \/ LookUp(b) \/ Insert(b) \/ FindIncumbent(b) \/ Merge(b)

Fairness ==
  /\ WF_vars(StartRollup) /\ WF_vars(LoadAtoms)
  /\ WF_vars(LoadScenesAndCorrections) /\ WF_vars(Finish)
  /\ \A b \in Buckets : WF_vars(Step(b))
  /\ \A h \in Handlers : WF_vars(FindSessions(h) \/ EnqueueSession(h))

FairSpec == Spec /\ Fairness

-----------------------------------------------------------------------------
(* Properties *)

(* Rows and in-memory records have the shape the code gives them. *)
TypeOK ==
  /\ atoms \subseteq Atoms /\ scened \subseteq atoms
  /\ l3 \in [Sessions -> {"idle", "pending"}]
  /\ corr \in [Corrections -> {"absent", "active", "retracted"}]
  /\ wake \in [Handlers -> [due : BOOLEAN, found : SUBSET Sessions]]
  /\ mem \in [Buckets -> MemoryRow]
  /\ phase \in {"none", "started", "loaded", "running"}
  /\ ids \subseteq Sessions /\ seen \subseteq atoms /\ linked \subseteq scened
  /\ fixes \subseteq Corrections
  /\ pc \in [Buckets -> Places]
  /\ into \in [Buckets -> Buckets]
  /\ written \subseteq Buckets /\ dropped \subseteq Buckets
  /\ retry \in BOOLEAN
  /\ rebuild \subseteq [uri : Buckets, atoms : SUBSET Atoms, version : Nat, read : BOOLEAN]
  /\ Cardinality(rebuild) <= 1
  /\ rebuilds \in 0..MaxRebuilds /\ faults \in 0..MaxFaults
  /\ wrote \in [Buckets -> Nat]

(***************************************************************************)
(* A rollup gives a memory at most one new version, although its bucket    *)
(* and the variants merged into it are distilled in parallel (B05).        *)
(***************************************************************************)
WrittenOnce == \A b \in Buckets : wrote[b] <= 1

(***************************************************************************)
(* A rollup that marks sessions idle has taken in what it read: of every   *)
(* bucket the active row rests on exactly that evidence, except where it   *)
(* was deferred, dropped with a warning, or is one subject with another.   *)
(***************************************************************************)
TakenIn(b) ==
  \/ Evidence(b) = {}
  \/ Unchanged(b)
  \/ Deferred(b)
  \/ b \in dropped
  \/ \E i \in written : i = b \/ <<b, i>> \in SameAs

RollupComplete ==
  [][phase = "running" /\ phase' = "none" /\ l3' # l3
       => \A b \in Buckets : TakenIn(b)]_vars

(***************************************************************************)
(* The memories keep the promise of module Remember: whatever is distilled *)
(* in parallel, merged, retried or aborted, what a bucket writes rests on  *)
(* no less of its evidence than the memory it writes over, never on        *)
(* another's, and never falls below the graduation bar.  (The evidence of  *)
(* an incumbent is not kept when another bucket is merged into it; and a   *)
(* reconsolidation beside a rollup may put in newer evidence than the      *)
(* rollup has read.)                                                       *)
(***************************************************************************)
Promise ==
  INSTANCE Remember WITH atoms <- atoms, memory <- [b \in Buckets |-> mem[b].hash]

Remembers == Promise!RememberSpec

(***************************************************************************)
(* What is there when a session is pending and no rollup runs is taken in  *)
(* by the next one that does not fail: atoms, unless their bucket was      *)
(* dropped with a warning or is still below the graduation bar ...         *)
(***************************************************************************)
Quiet == phase = "none" /\ \E s \in Sessions : l3[s] = "pending"

AtomsTakenIn ==
  \A a \in Atoms :
    Quiet /\ a \in atoms
      ~> \/ a \in mem[BucketOf[a]].hash
         \/ Category[BucketOf[a]] = "event" /\ mem[BucketOf[a]].version > 0
         \/ Deferred(BucketOf[a])
         \/ BucketOf[a] \in dropped

(***************************************************************************)
(* ... and corrections of memories other than events.                      *)
(***************************************************************************)
CorrectionsTakenIn ==
  \A c \in Corrections :
    Quiet /\ corr[c] = "active" /\ mem[TargetOf[c]].version > 0
      ~> \/ c \in mem[TargetOf[c]].corr
         \/ Category[TargetOf[c]] = "event"
         \/ corr[c] = "retracted"
         \/ TargetOf[c] \in dropped

-----------------------------------------------------------------------------
(* What the repository says and the code does not do *)

(***************************************************************************)
(* correction/enqueue.go: the handler of a correction queues the sessions  *)
(* behind its target so that the next rollup re-distills that memory.      *)
(***************************************************************************)
CorrectionsApplied ==
  \A c \in Corrections :
    wake[<<c, "active">>].due /\ corr[c] = "active" /\ mem[TargetOf[c]].scenes # {}
      ~> \/ c \in mem[TargetOf[c]].corr
         \/ corr[c] = "retracted"

=============================================================================
