---------------------------- MODULE RollupProofs ----------------------------
(***************************************************************************)
(* Proofs about module Rollup, for any atoms, buckets, subjects found to   *)
(* be the same, corrections, concurrency and faults.                       *)
(***************************************************************************)
EXTENDS Rollup, FiniteSetTheorems, TLAPS

(* What goes on beside the goroutines of a rollup. *)
Feed ==
  \/ \E a \in Atoms : Extract(a)
  \/ \E s \in Sessions : BuildScenes(s)
  \/ \E c \in Corrections : CreateCorrection(c) \/ RetractCorrection(c)
  \/ \E h \in Handlers : FindSessions(h) \/ EnqueueSession(h) \/ EnqueueFails(h)
Read == StartRollup \/ LoadAtoms \/ LoadScenesAndCorrections
Rebuild ==
  (\E b \in Buckets : ReadEvidence(b)) \/ ReadActive \/ Reconsolidate \/ ReconsolidateFails
End == Finish \/ Abort

LEMMA NextKinds ==
  [Next]_vars => \/ Feed \/ Read \/ Rebuild \/ End \/ UNCHANGED vars
                 \/ \E b \in Buckets : BucketNext(b)
BY DEF Next, Feed, Read, Rebuild, End

-----------------------------------------------------------------------------
LEMMA FaultType == ASSUME TypeOK, Fault PROVE faults' \in 0..MaxFaults
BY RollupAssumption DEF TypeOK, Fault

(* What a goroutine would write is a row. *)
LEMMA EvidenceType ==
  ASSUME TypeOK, NEW b \in Buckets
  PROVE  /\ Evidence(b) \in SUBSET Atoms /\ Sources(b) \in SUBSET Sessions
         /\ Fixes(b) \in SUBSET Corrections
<1>1. seen \subseteq Atoms /\ linked \subseteq Atoms /\ fixes \subseteq Corrections
  BY DEF TypeOK
<1>2. Of(b, linked) \subseteq Atoms
  BY <1>1 DEF Of
<1> QED BY <1>1, <1>2, RollupAssumption DEF Evidence, Of, Sources, SessionsOf, Fixes

LEMMA RowType ==
  ASSUME NEW v \in Nat, NEW h \in SUBSET Atoms, NEW s \in SUBSET Sessions,
         NEW c \in SUBSET Corrections
  PROVE  Row(v, h, s, c) \in MemoryRow
BY DEF Row, MemoryRow

LEMMA FieldType ==
  ASSUME TypeOK, NEW u \in Buckets
  PROVE  /\ mem[u].version \in Nat /\ mem[u].version + 1 \in Nat
         /\ mem[u].hash \in SUBSET Atoms
         /\ mem[u].scenes \in SUBSET Sessions /\ mem[u].corr \in SUBSET Corrections
<1>1. mem[u] \in MemoryRow
  BY DEF TypeOK
<1> QED BY <1>1 DEF MemoryRow

(* The text is the same: only what it rests on is recorded. *)
LEMMA FieldsType ==
  ASSUME NEW m \in [Buckets -> MemoryRow], NEW b \in Buckets, NEW h \in SUBSET Atoms,
         NEW s \in SUBSET Sessions, NEW c \in SUBSET Corrections
  PROVE  [m EXCEPT ![b].hash = h, ![b].scenes = s, ![b].corr = c] \in [Buckets -> MemoryRow]
<1>1. m[b] \in MemoryRow
  OBVIOUS
<1>2. [[[m[b] EXCEPT !.hash = h] EXCEPT !.scenes = s] EXCEPT !.corr = c] \in MemoryRow
  BY <1>1 DEF MemoryRow
<1> QED BY <1>2 DEF MemoryRow

LEMMA QueueType ==
  ASSUME TypeOK, NEW S, Queue(S) PROVE l3' \in [Sessions -> {"idle", "pending"}]
BY DEF TypeOK, Queue

LEMMA TypeInit == Init => TypeOK
<1> SUFFICES ASSUME Init PROVE TypeOK
  OBVIOUS
<1>1. mem \in [Buckets -> MemoryRow]
  BY DEF Init, NoMemory, MemoryRow
<1>2. rebuild = {} /\ Cardinality(rebuild) <= 1
  BY FS_EmptySet DEF Init
<1>3. pc \in [Buckets -> Places]
  BY DEF Init, Places
<1>4. l3 \in [Sessions -> {"idle", "pending"}]
      /\ corr \in [Corrections -> {"absent", "active", "retracted"}]
      /\ into \in [Buckets -> Buckets] /\ wrote \in [Buckets -> Nat]
  BY DEF Init
<1>5. /\ atoms = {} /\ scened = {} /\ phase = "none" /\ ids = {} /\ seen = {}
      /\ linked = {} /\ fixes = {} /\ written = {} /\ dropped = {} /\ retry = FALSE
  BY DEF Init
<1>6. rebuilds \in 0..MaxRebuilds /\ faults \in 0..MaxFaults
  BY RollupAssumption DEF Init
<1>7. wake \in [Handlers -> [due : BOOLEAN, found : SUBSET Sessions]]
  BY DEF Init, AtRest
<1> QED BY <1>1, <1>2, <1>3, <1>4, <1>5, <1>6, <1>7 DEF TypeOK

LEMMA FeedType == ASSUME TypeOK, Feed PROVE TypeOK'
<1> USE DEF TypeOK, dbVars, rollVars, inputs, rebVars
<1>1. ASSUME NEW a \in Atoms, Extract(a) PROVE TypeOK'
  BY <1>1 DEF Extract
<1>2. ASSUME NEW s \in Sessions, BuildScenes(s) PROVE TypeOK'
  BY <1>2, QueueType DEF BuildScenes
<1>3. /\ \A h \in Handlers, x \in [due : BOOLEAN, found : SUBSET Sessions] :
           [wake EXCEPT ![h] = x] \in [Handlers -> [due : BOOLEAN, found : SUBSET Sessions]]
      /\ \A h \in Handlers :
           /\ [wake[h] EXCEPT !.due = TRUE] \in [due : BOOLEAN, found : SUBSET Sessions]
           /\ \A s \in Sessions :
                [wake[h] EXCEPT !.found = @ \ {s}] \in [due : BOOLEAN, found : SUBSET Sessions]
           /\ wake[h].found \subseteq Sessions
  OBVIOUS
<1>4. ASSUME NEW c \in Corrections, CreateCorrection(c) PROVE TypeOK'
  <2>1. <<c, "active">> \in Handlers
    BY DEF Handlers
  <2>2. wake' \in [Handlers -> [due : BOOLEAN, found : SUBSET Sessions]]
    BY <1>3, <1>4, <2>1 DEF CreateCorrection
  <2> QED BY <1>4, <2>2 DEF CreateCorrection
<1>5. ASSUME NEW c \in Corrections, RetractCorrection(c) PROVE TypeOK'
  <2>1. <<c, "retracted">> \in Handlers
    BY DEF Handlers
  <2>2. wake' \in [Handlers -> [due : BOOLEAN, found : SUBSET Sessions]]
    BY <1>3, <1>5, <2>1 DEF RetractCorrection
  <2> QED BY <1>5, <2>2 DEF RetractCorrection
<1>6. ASSUME NEW h \in Handlers, FindSessions(h) PROVE TypeOK'
  <2>1. PICK S \in SUBSET mem[TargetOf[h[1]]].scenes :
          /\ wake' = [wake EXCEPT ![h] = [due |-> FALSE, found |-> S]]
          /\ UNCHANGED faults \/ Fault
    BY <1>6 DEF FindSessions
  <2>2. mem[TargetOf[h[1]]].scenes \subseteq Sessions
    BY FieldType, RollupAssumption DEF Handlers
  <2>3. wake' \in [Handlers -> [due : BOOLEAN, found : SUBSET Sessions]]
    BY <1>3, <2>1, <2>2
  <2> QED BY <1>6, <2>1, <2>3, FaultType DEF FindSessions
<1>7. ASSUME NEW h \in Handlers, EnqueueSession(h) PROVE TypeOK'
  <2>1. PICK s \in wake[h].found : wake' = [wake EXCEPT ![h].found = @ \ {s}] /\ Queue({s})
    BY <1>7 DEF EnqueueSession
  <2>2. wake' \in [Handlers -> [due : BOOLEAN, found : SUBSET Sessions]]
    BY <1>3, <2>1
  <2> QED BY <1>7, <2>1, <2>2, QueueType DEF EnqueueSession
<1>8. ASSUME NEW h \in Handlers, EnqueueFails(h) PROVE TypeOK'
  BY <1>3, <1>8, FaultType DEF EnqueueFails, AtRest
<1> QED BY <1>1, <1>2, <1>4, <1>5, <1>6, <1>7, <1>8 DEF Feed

LEMMA ReadType == ASSUME TypeOK, Read PROVE TypeOK'
<1> USE DEF TypeOK, dbVars, rebVars
<1>1. CASE StartRollup
  BY <1>1 DEF StartRollup
<1>2. CASE LoadAtoms
  BY <1>2 DEF LoadAtoms
<1>3. CASE LoadScenesAndCorrections
  BY <1>3 DEF LoadScenesAndCorrections, Places
<1> QED BY <1>1, <1>2, <1>3 DEF Read

LEMMA RebuildType == ASSUME TypeOK, Rebuild PROVE TypeOK'
<1> USE DEF TypeOK, dbVars, rollVars, inputs
<1>1. ASSUME NEW b \in Buckets, ReadEvidence(b) PROVE TypeOK'
  <2> DEFINE r == [uri |-> b, atoms |-> Of(b, atoms), version |-> 0, read |-> FALSE]
  <2>1. r \in [uri : Buckets, atoms : SUBSET Atoms, version : Nat, read : BOOLEAN]
    BY DEF Of
  <2>2. rebuild' = {r} /\ rebuilds' \in 0..MaxRebuilds
    BY <1>1, RollupAssumption DEF ReadEvidence
  <2> HIDE DEF r
  <2>3. Cardinality({r}) = 1
    BY FS_Singleton
  <2>4. Cardinality(rebuild') <= 1
    BY <2>2, <2>3
  <2> QED BY <1>1, <2>1, <2>2, <2>4 DEF ReadEvidence
<1>2. rebuild' = {} => Cardinality(rebuild') <= 1
  BY FS_EmptySet
<1>3. CASE Reconsolidate
  <2>1. PICK r \in rebuild :
          mem' = [mem EXCEPT ![r.uri] = Row(@.version + 1, r.atoms, @.scenes, @.corr)]
    BY <1>3 DEF Reconsolidate
  <2>2. r.uri \in Buckets /\ r.atoms \in SUBSET Atoms
    OBVIOUS
  <2>3. Row(mem[r.uri].version + 1, r.atoms, mem[r.uri].scenes, mem[r.uri].corr) \in MemoryRow
    BY <2>2, FieldType, RowType
  <2>4. mem' \in [Buckets -> MemoryRow]
    BY <2>1, <2>2, <2>3
  <2> QED BY <1>2, <1>3, <2>4 DEF Reconsolidate
<1>4. CASE ReconsolidateFails
  BY <1>2, <1>4 DEF ReconsolidateFails
<1>5. CASE ReadActive
  <2>1. PICK r \in rebuild :
          rebuild' = {[r EXCEPT !.version = mem[r.uri].version, !.read = TRUE]}
    BY <1>5 DEF ReadActive
  <2> DEFINE new == [r EXCEPT !.version = mem[r.uri].version, !.read = TRUE]
  <2>2. mem[r.uri].version \in Nat
    BY FieldType
  <2>3. new \in [uri : Buckets, atoms : SUBSET Atoms, version : Nat, read : BOOLEAN]
    BY <2>2
  <2> HIDE DEF new
  <2>4. rebuild' = {new}
    BY <2>1 DEF new
  <2>5. Cardinality({new}) = 1
    BY FS_Singleton
  <2>6. Cardinality(rebuild') <= 1
    BY <2>4, <2>5
  <2> QED BY <1>5, <2>3, <2>4, <2>6 DEF ReadActive
<1> QED BY <1>1, <1>3, <1>4, <1>5 DEF Rebuild

LEMMA EndType == ASSUME TypeOK, End PROVE TypeOK'
<1> USE DEF TypeOK, Over, rebVars, Places
<1>1. CASE Finish
  <2>1. l3' \in [Sessions -> {"idle", "pending"}]
    BY <1>1 DEF Finish
  <2>2. faults' \in 0..MaxFaults
    BY <1>1, FaultType DEF Finish
  <2> QED BY <1>1, <2>1, <2>2 DEF Finish
<1>2. CASE Abort
  BY <1>2, FaultType DEF Abort
<1> QED BY <1>1, <1>2 DEF End

(* One step of a goroutine that leaves memories alone. *)
LEMMA GoType ==
  ASSUME TypeOK, NEW b \in Buckets, NEW from, NEW to \in Places, Go(b, from, to),
         UNCHANGED wrote, written' \subseteq Buckets, dropped' \subseteq Buckets,
         retry' \in BOOLEAN, UNCHANGED faults \/ Fault
  PROVE  TypeOK'
<1>1. faults' \in 0..MaxFaults
  BY FaultType DEF TypeOK
<1> QED BY <1>1 DEF TypeOK, Go, dbVars, inputs, rebVars

LEMMA WriteType ==
  ASSUME TypeOK, NEW b \in Buckets, NEW u \in Buckets, Write(b, u), UNCHANGED faults \/ Fault
  PROVE  TypeOK'
<1> USE DEF TypeOK, inputs, rebVars
<1>1. faults' \in 0..MaxFaults
  BY FaultType
<1>2. Row(mem[u].version + 1, Evidence(b), Sources(b), Fixes(b)) \in MemoryRow
  BY EvidenceType, FieldType, RowType
<1>3. mem' \in [Buckets -> MemoryRow]
  BY <1>2 DEF Write
<1>4. pc' \in [Buckets -> Places] /\ wrote' \in [Buckets -> Nat] /\ written' \subseteq Buckets
  BY DEF Write, Places
<1> QED BY <1>1, <1>3, <1>4 DEF Write

LEMMA BucketType == ASSUME TypeOK, NEW b \in Buckets, BucketNext(b) PROVE TypeOK'
<1>1. /\ written \subseteq Buckets /\ dropped \subseteq Buckets /\ retry \in BOOLEAN
      /\ into[b] \in Buckets
  BY DEF TypeOK
<1>2. CASE Consider(b) \/ PassGate(b) \/ Distilled(b) \/ LookUp(b)
  BY <1>1, <1>2, GoType DEF Consider, PassGate, Distilled, LookUp, Places
<1>3. CASE Throttled(b) \/ DistillFails(b) \/ WriteBusy(b) \/ WriteFails(b)
  BY <1>1, <1>3, GoType DEF Throttled, DistillFails, WriteBusy, WriteFails, Places
<1>4. CASE Persist(b)
  <2>1. CASE Write(b, b) /\ UNCHANGED faults
    BY <2>1, WriteType
  <2>2. CASE Go(b, "persist", "done") /\ UNCHANGED <<written, retry, dropped, wrote, faults>>
    BY <1>1, <2>2, GoType DEF Places
  <2>3. CASE /\ pc' = [pc EXCEPT ![b] = "done"]
             /\ mem' = [mem EXCEPT ![b].hash = Evidence(b), ![b].scenes = Sources(b),
                                  ![b].corr = Fixes(b)]
             /\ UNCHANGED <<atoms, scened, l3, corr, wake, phase, inputs, into>>
             /\ UNCHANGED <<written, retry, dropped, wrote, rebVars, faults>>
    <3>3. mem' \in [Buckets -> MemoryRow]
      BY <2>3, EvidenceType, FieldsType DEF TypeOK
    <3> QED BY <2>3, <3>3 DEF TypeOK, inputs, rebVars, Places
  <2> QED BY <1>4, <2>1, <2>2, <2>3 DEF Persist
<1>5. CASE Insert(b)
  BY <1>5, WriteType DEF Insert
<1>6. CASE FindIncumbent(b)
  BY <1>6 DEF FindIncumbent, Incumbents, TypeOK, dbVars, inputs, rebVars, Places
<1>7. CASE Merge(b)
  <2>1. CASE Go(b, "wait", "done") /\ UNCHANGED <<written, retry, dropped, wrote, faults>>
    BY <1>1, <2>1, GoType DEF Places
  <2>2. CASE Write(b, into[b]) /\ UNCHANGED faults
    BY <1>1, <2>2, WriteType
  <2> QED BY <1>7, <2>1, <2>2 DEF Merge
<1> QED BY <1>2, <1>3, <1>4, <1>5, <1>6, <1>7 DEF BucketNext

LEMMA TypeStep == TypeOK /\ [Next]_vars => TypeOK'
<1> SUFFICES ASSUME TypeOK, [Next]_vars PROVE TypeOK'
  OBVIOUS
<1>1. CASE UNCHANGED vars
  BY <1>1 DEF vars, dbVars, rollVars, inputs, rebVars, TypeOK
<1> QED BY <1>1, NextKinds, FeedType, ReadType, RebuildType, EndType, BucketType

(***************************************************************************)
(* Rows and in-memory records keep the shape the code gives them, and a    *)
(* rollup knows nothing that is not in the tables.                         *)
(***************************************************************************)
THEOREM TypeCorrect == Spec => []TypeOK
BY TypeInit, TypeStep, PTL DEF Spec

-----------------------------------------------------------------------------
(* WrittenOnce is not inductive: that a memory is written at most once rests *)
(* on who holds the mutex of its URI, on what rollupBatch.written records of *)
(* it, and on where a goroutine that merges may write.                      *)

(* Written memories are recorded, and nobody past the gate holds one. *)
Recorded(w, wr, p) ==
  \A u \in Buckets :
    /\ w[u] <= 1
    /\ Category[u] # "event" =>
         /\ w[u] > 0 => u \in wr
         /\ p[u] \in {"llm", "persist", "lookup", "wait"} => u \notin wr
    /\ Category[u] = "event" /\ w[u] > 0 => p[u] = "done"

(* Only a goroutine that waits looks at another memory than its own, of the *)
(* same category.                                                           *)
Targets(p, t) ==
  \A b \in Buckets :
    /\ p[b] \in {"lookup", "wait"} => Category[b] # "event"
    /\ p[b] = "wait" => <<b, t[b]>> \in SameAs
    /\ p[b] \notin {"wait", "done"} => t[b] = b

(* Goroutines live inside a rollup. *)
Inside(ph, w, wr, p) ==
  ph # "running" =>
    /\ wr = {}
    /\ \A b \in Buckets : p[b] = "none" /\ w[b] = 0

OnceInv ==
  /\ TypeOK
  /\ Recorded(wrote, written, pc)
  /\ Targets(pc, into)
  /\ Inside(phase, wrote, written, pc)

LEMMA SameFacts ==
  ASSUME NEW b \in Buckets, NEW i \in Buckets, <<b, i>> \in SameAs
  PROVE  i # b /\ Category[i] = Category[b]
BY RollupAssumption

LEMMA OnceInit == Init => OnceInv
<1> SUFFICES ASSUME Init PROVE OnceInv
  OBVIOUS
<1> QED BY TypeInit DEF Init, OnceInv, Recorded, Targets, Inside

(* What runs beside a rollup does not touch its memory. *)
LEMMA OnceBeside ==
  ASSUME OnceInv, TypeOK', Feed \/ Rebuild \/ UNCHANGED vars
  PROVE  OnceInv'
<1>1. UNCHANGED rollVars
  BY DEF Feed, Extract, BuildScenes, CreateCorrection, RetractCorrection,
         FindSessions, EnqueueSession, EnqueueFails, Rebuild, ReadEvidence, ReadActive, Reconsolidate,
         ReconsolidateFails, vars
<1> QED BY <1>1 DEF OnceInv, rollVars

LEMMA OnceRead == ASSUME OnceInv, TypeOK', Read PROVE OnceInv'
<1> USE DEF OnceInv, Recorded, Targets, Inside
<1>1. CASE StartRollup
  BY <1>1 DEF StartRollup
<1>2. CASE LoadAtoms
  BY <1>2 DEF LoadAtoms
<1>3. CASE LoadScenesAndCorrections
  <2>1. \A b \in Buckets : pc[b] = "none" /\ wrote[b] = 0 /\ into[b] = b
    BY <1>3 DEF LoadScenesAndCorrections
  <2>2. \A b \in Buckets : pc'[b] \in {"none", "todo"}
    BY <1>3 DEF LoadScenesAndCorrections
  <2> QED BY <1>3, <2>1, <2>2 DEF LoadScenesAndCorrections
<1> QED BY <1>1, <1>2, <1>3 DEF Read

LEMMA OnceEnd == ASSUME OnceInv, TypeOK', End PROVE OnceInv'
<1>1. Over
  BY DEF End, Finish, Abort
<1> QED BY <1>1 DEF Over, OnceInv, Recorded, Targets, Inside

(* A goroutine that leaves memories alone and passes the gate only when its *)
(* memory is not written yet.                                              *)
LEMMA OnceGo ==
  ASSUME OnceInv, TypeOK', NEW b \in Buckets, NEW from \in Places \ {"none", "done"},
         NEW to \in Places \ {"none", "wait"}, Go(b, from, to),
         UNCHANGED <<written, wrote>>,
         to = "llm" => b \notin written, to = "persist" => from = "llm",
         from = "wait" => to = "done",
         to = "lookup" => from = "persist" /\ Category[b] # "event"
  PROVE  OnceInv'
<1> USE DEF OnceInv, Go, inputs
<1>1. pc' = [pc EXCEPT ![b] = to] /\ pc[b] = from /\ UNCHANGED <<into, phase>>
  OBVIOUS
<1>2. pc \in [Buckets -> Places] /\ phase = "running"
  BY <1>1 DEF TypeOK, Inside
<1>3. Recorded(wrote', written', pc')
  BY <1>1, <1>2 DEF Recorded, Places
<1>4. Targets(pc', into')
  <2>1. pc'[b] = to /\ \A v \in Buckets \ {b} : pc'[v] = pc[v]
    BY <1>1, <1>2
  <2> QED BY <1>1, <2>1 DEF Targets, Places
<1>5. Inside(phase', wrote', written', pc')
  BY <1>1, <1>2 DEF Inside
<1> QED BY <1>3, <1>4, <1>5

(* A write that fails may mark the URI it was about. *)
LEMMA OnceFails ==
  ASSUME OnceInv, TypeOK', NEW b \in Buckets, WriteFails(b) PROVE OnceInv'
<1> DEFINE i == into[b]
<1>1. /\ pc' = [pc EXCEPT ![b] = "done"] /\ UNCHANGED <<into, phase, wrote>>
      /\ pc[b] \in {"persist", "lookup", "wait"}
      /\ pc[b] = "wait" => ~Locked(i)
      /\ written' = written \/ written' = written \cup {i}
  BY DEF WriteFails, Go, inputs
<1>2. /\ pc \in [Buckets -> Places] /\ phase = "running" /\ i \in Buckets
      /\ pc[b] # "wait" => i = b
  BY <1>1 DEF OnceInv, TypeOK, Inside, Targets
<1> HIDE DEF i
<1>3. Recorded(wrote', written', pc')
  BY <1>1, <1>2 DEF OnceInv, Recorded, Locked
<1>4. Targets(pc', into')
  BY <1>1, <1>2 DEF OnceInv, Targets
<1>5. Inside(phase', wrote', written', pc')
  BY <1>1, <1>2 DEF Inside
<1> QED BY <1>3, <1>4, <1>5 DEF OnceInv

(* A write of a memory that this rollup has not written yet. *)
LEMMA OnceWrite ==
  ASSUME OnceInv, TypeOK', NEW b \in Buckets, NEW u \in Buckets, Write(b, u),
         pc[b] \in {"persist", "lookup", "wait"},
         u # b => ~Locked(u) /\ Category[u] # "event" /\ u \notin written,
         u = b => pc[b] # "wait"
  PROVE  OnceInv'
<1>1. /\ pc' = [pc EXCEPT ![b] = "done"] /\ UNCHANGED <<into, phase>>
      /\ wrote' = [wrote EXCEPT ![u] = @ + 1]
      /\ written' = IF Category[u] = "event" THEN written ELSE written \cup {u}
  BY DEF Write, inputs
<1>2. /\ pc \in [Buckets -> Places] /\ wrote \in [Buckets -> Nat] /\ phase = "running"
  BY DEF OnceInv, TypeOK, Inside
<1>3. wrote[u] = 0
  <2>1. ~(wrote[u] > 0)
    BY DEF OnceInv, Recorded
  <2>2. wrote[u] \in Nat
    BY <1>2
  <2> QED BY <2>1, <2>2
<1>4. wrote'[u] = 1 /\ \A v \in Buckets \ {u} : wrote'[v] = wrote[v]
  BY <1>1, <1>2, <1>3
<1>5. pc'[b] = "done" /\ \A v \in Buckets \ {b} : pc'[v] = pc[v]
  BY <1>1, <1>2
<1>6. Recorded(wrote', written', pc')
  BY <1>1, <1>4, <1>5 DEF OnceInv, Recorded, Locked
<1>7. Targets(pc', into')
  BY <1>1, <1>5 DEF OnceInv, Targets
<1>8. Inside(phase', wrote', written', pc')
  BY <1>1, <1>2 DEF Inside
<1> QED BY <1>6, <1>7, <1>8 DEF OnceInv

LEMMA OnceBucket ==
  ASSUME OnceInv, TypeOK', NEW b \in Buckets, BucketNext(b) PROVE OnceInv'
<1>1. CASE Consider(b) \/ PassGate(b) \/ Distilled(b) \/ LookUp(b)
  BY <1>1, OnceGo DEF Consider, PassGate, Distilled, LookUp, Places
<1>2. CASE Throttled(b) \/ DistillFails(b) \/ WriteBusy(b)
  BY <1>2, OnceGo DEF Throttled, DistillFails, WriteBusy, Places
<1>3. CASE Persist(b)
  <2>1. CASE Write(b, b)
    BY <1>3, <2>1, OnceWrite DEF Persist
  <2>2. CASE Go(b, "persist", "done") /\ UNCHANGED <<written, wrote>>
    BY <2>2, OnceGo DEF Places
  <2>3. CASE pc' = [pc EXCEPT ![b] = "done"] /\ UNCHANGED <<into, phase, written, wrote>>
    <3>1. pc \in [Buckets -> Places] /\ pc[b] = "persist" /\ phase = "running"
      BY <1>3 DEF Persist, OnceInv, TypeOK, Inside
    <3> QED BY <2>3, <3>1 DEF OnceInv, Recorded, Targets, Inside
  <2> QED BY <1>3, <2>1, <2>2, <2>3 DEF Persist, inputs
<1>4. CASE Insert(b)
  BY <1>4, OnceWrite DEF Insert
<1>5. CASE FindIncumbent(b)
  <2>1. PICK i \in Incumbents(b) : into' = [into EXCEPT ![b] = i]
    BY <1>5 DEF FindIncumbent
  <2>2. /\ pc' = [pc EXCEPT ![b] = "wait"] /\ pc[b] = "lookup"
        /\ UNCHANGED <<phase, written, wrote>> /\ <<b, i>> \in SameAs
    BY <1>5, <2>1 DEF FindIncumbent, Incumbents
  <2>3. pc \in [Buckets -> Places] /\ into \in [Buckets -> Buckets] /\ phase = "running"
    BY <2>2 DEF OnceInv, TypeOK, Inside
  <2> QED BY <2>1, <2>2, <2>3 DEF OnceInv, Recorded, Targets, Inside
<1>6. CASE Merge(b)
  <2>1. /\ pc[b] = "wait" /\ ~Locked(into[b]) /\ into[b] \in Buckets
        /\ into[b] # b /\ Category[into[b]] # "event"
    BY <1>6, SameFacts DEF Merge, OnceInv, Targets, TypeOK
  <2>2. CASE into[b] \in written
    BY <1>6, <2>2, OnceGo DEF Merge, Places
  <2>3. CASE into[b] \notin written
    BY <1>6, <2>1, <2>3, OnceWrite DEF Merge
  <2> QED BY <2>2, <2>3
<1> QED BY <1>1, <1>2, <1>3, <1>4, <1>5, <1>6, OnceFails DEF BucketNext

LEMMA OnceStep == OnceInv /\ [Next]_vars => OnceInv'
<1> SUFFICES ASSUME OnceInv, [Next]_vars PROVE OnceInv'
  OBVIOUS
<1>1. TypeOK'
  BY TypeStep DEF OnceInv
<1> QED BY <1>1, NextKinds, OnceBeside, OnceRead, OnceEnd, OnceBucket

(* The record a rollup keeps of what it wrote is complete (alreadyWritten). *)
THEOREM OnceInvariant == Spec => []OnceInv
BY OnceInit, OnceStep, PTL DEF Spec

(***************************************************************************)
(* However many buckets are distilled at once and merged, a rollup gives a *)
(* memory at most one new version.                                         *)
(***************************************************************************)
THEOREM AtMostOneVersion == Spec => []WrittenOnce
<1>1. OnceInv => WrittenOnce
  BY DEF OnceInv, Recorded, WrittenOnce
<1> QED BY <1>1, OnceInvariant, PTL

-----------------------------------------------------------------------------
(* That a rollup takes in what it read holds because, from the moment it has *)
(* read everything, each bucket with evidence is on its way, to be retried  *)
(* or taken in.  A manual reconsolidation in the middle would replace the   *)
(* evidence recorded, hence the assumption.                                 *)
OnItsWay(b) == pc[b] \notin {"none", "done"} \/ retry \/ TakenIn(b)

CompleteInv ==
  /\ OnceInv
  /\ rebuild = {}
  /\ phase = "running" => \A b \in Buckets : OnItsWay(b)

(* As long as a memory keeps its row, or is written, a bucket taken in     *)
(* stays so.                                                               *)
LEMMA StaysTakenIn ==
  ASSUME TypeOK, NEW b \in Buckets, TakenIn(b), UNCHANGED inputs,
         written \subseteq written', dropped \subseteq dropped',
         \/ mem'[b] = mem[b]
         \/ b \in written'
         \/ Category[b] = "event" /\ mem'[b].version > 0
         \/ Unchanged(b)'
  PROVE  TakenIn(b)'
<1>1. /\ Evidence(b)' = Evidence(b) /\ Fixes(b)' = Fixes(b)
  BY DEF inputs, Evidence, Fixes, Of
<1>2. CASE mem'[b] = mem[b]
  BY <1>1, <1>2 DEF TakenIn, Unchanged, Deferred
<1>3. CASE b \in written'
  BY <1>3 DEF TakenIn
<1>4. CASE Unchanged(b)'
  BY <1>4 DEF TakenIn
<1>5. CASE Category[b] = "event" /\ mem'[b].version > 0
  BY <1>5, <1>4 DEF Unchanged
<1> QED BY <1>2, <1>3, <1>4, <1>5

LEMMA CompleteInit == Init => CompleteInv
BY OnceInit DEF Init, CompleteInv

(* Steps that leave the rollup's state and the memories alone. *)
LEMMA StaysOnItsWay ==
  ASSUME TypeOK, NEW b \in Buckets, OnItsWay(b), UNCHANGED <<inputs, mem, retry>>,
         pc'[b] = pc[b], written \subseteq written', dropped \subseteq dropped'
  PROVE  OnItsWay(b)'
<1>1. CASE TakenIn(b)
  BY <1>1, StaysTakenIn DEF OnItsWay
<1> QED BY <1>1 DEF OnItsWay

LEMMA CompleteBeside ==
  ASSUME MaxRebuilds = 0, CompleteInv, OnceInv', Feed \/ Rebuild \/ UNCHANGED vars
  PROVE  CompleteInv'
<1>1. ~Rebuild
  <2>1. rebuilds = 0
    BY DEF CompleteInv, OnceInv, TypeOK
  <2> QED BY <2>1 DEF Rebuild, ReadEvidence, ReadActive, Reconsolidate, ReconsolidateFails, CompleteInv
<1>2. UNCHANGED <<rollVars, mem, rebuild>>
  BY <1>1 DEF Feed, Extract, BuildScenes, CreateCorrection, RetractCorrection,
         FindSessions, EnqueueSession, EnqueueFails, vars, dbVars, rebVars
<1>3. UNCHANGED <<phase, inputs, mem, retry, pc, written, dropped>>
  BY <1>2 DEF rollVars
<1>4. ASSUME phase' = "running", NEW b \in Buckets PROVE OnItsWay(b)'
  BY <1>3, <1>4, StaysOnItsWay DEF CompleteInv, OnceInv
<1> QED BY <1>2, <1>4 DEF CompleteInv

LEMMA CompleteRead ==
  ASSUME CompleteInv, OnceInv', Read PROVE CompleteInv'
<1>1. UNCHANGED rebuild
  BY DEF Read, StartRollup, LoadAtoms, LoadScenesAndCorrections, rebVars
<1>2. CASE StartRollup \/ LoadAtoms
  BY <1>1, <1>2 DEF StartRollup, LoadAtoms, CompleteInv
<1>3. CASE LoadScenesAndCorrections
  <2>1. ASSUME NEW b \in Buckets PROVE OnItsWay(b)'
    <3>1. Evidence(b)' = Evidence(b)
      BY <1>3 DEF LoadScenesAndCorrections, Evidence, Of
    <3>2. pc'[b] = IF Evidence(b) = {} THEN "none" ELSE "todo"
      BY <1>3 DEF LoadScenesAndCorrections
    <3> QED BY <3>1, <3>2 DEF OnItsWay, TakenIn
  <2> QED BY <1>1, <2>1 DEF CompleteInv
<1> QED BY <1>2, <1>3 DEF Read

LEMMA CompleteEnd ==
  ASSUME CompleteInv, OnceInv', End PROVE CompleteInv'
BY DEF End, Finish, Abort, Over, CompleteInv, rebVars

(* A goroutine's step: the others keep their place, memories keep their row *)
(* unless it is written.                                                   *)
LEMMA CompleteBucket ==
  ASSUME CompleteInv, OnceInv', NEW b \in Buckets,
         UNCHANGED <<phase, inputs, rebuild>>,
         retry => retry', written \subseteq written', dropped \subseteq dropped',
         \A o \in Buckets \ {b} : pc'[o] = pc[o],
         \A o \in Buckets : \/ mem'[o] = mem[o]
                            \/ o \in written'
                            \/ Category[o] = "event" /\ mem'[o].version > 0
                            \/ Unchanged(o)',
         OnItsWay(b)'
  PROVE  CompleteInv'
<1>1. ASSUME phase = "running", NEW o \in Buckets \ {b} PROVE OnItsWay(o)'
  <2>1. TypeOK /\ OnItsWay(o)
    BY <1>1 DEF CompleteInv, OnceInv
  <2>2. CASE TakenIn(o)
    BY <2>1, <2>2, StaysTakenIn DEF OnItsWay
  <2> QED BY <2>1, <2>2 DEF OnItsWay
<1> QED BY <1>1 DEF CompleteInv

(* A step that leaves memories alone, for a reason that takes b in. *)
LEMMA CompleteGo ==
  ASSUME CompleteInv, OnceInv', NEW b \in Buckets, NEW from, NEW to, Go(b, from, to),
         retry => retry', written \subseteq written', dropped \subseteq dropped',
         to \in {"none", "done"} => retry' \/ TakenIn(b)'
  PROVE  CompleteInv'
<1>1. /\ pc' = [pc EXCEPT ![b] = to] /\ UNCHANGED <<mem, phase, inputs, rebuild>>
  BY DEF Go, dbVars, rebVars
<1>2. pc'[b] = to /\ \A o \in Buckets \ {b} : pc'[o] = pc[o]
  BY <1>1 DEF CompleteInv, OnceInv, TypeOK
<1>3. OnItsWay(b)'
  BY <1>2 DEF OnItsWay
<1> QED BY <1>1, <1>2, <1>3, CompleteBucket

LEMMA CompleteWrite ==
  ASSUME CompleteInv, OnceInv', NEW b \in Buckets, NEW u \in Buckets, Write(b, u),
         u = b \/ (<<b, u>> \in SameAs /\ Category[u] # "event")
  PROVE  CompleteInv'
<1>1. /\ UNCHANGED <<phase, inputs, rebuild, retry, dropped>>
      /\ written' = IF Category[u] = "event" THEN written ELSE written \cup {u}
      /\ pc' = [pc EXCEPT ![b] = "done"]
  BY DEF Write, rebVars
<1>2. pc'[b] = "done" /\ \A o \in Buckets \ {b} : pc'[o] = pc[o]
  BY <1>1 DEF CompleteInv, OnceInv, TypeOK
<1>3. mem[u].version \in Nat /\ mem \in [Buckets -> MemoryRow]
  BY FieldType DEF CompleteInv, OnceInv, TypeOK
<1>4. mem'[u].version > 0 /\ \A o \in Buckets \ {u} : mem'[o] = mem[o]
  BY <1>3 DEF Write, Row
<1>5. \A o \in Buckets : \/ mem'[o] = mem[o]
                         \/ o \in written'
                         \/ Category[o] = "event" /\ mem'[o].version > 0
  BY <1>1, <1>4
<1>6. OnItsWay(b)'
  <2>1. CASE u = b /\ Category[b] = "event"
    BY <2>1, <1>4 DEF OnItsWay, TakenIn, Unchanged
  <2>2. CASE u \in written'
    BY <2>2 DEF OnItsWay, TakenIn
  <2> QED BY <1>1, <2>1, <2>2
<1> QED BY <1>1, <1>2, <1>5, <1>6, CompleteBucket

(* Why a goroutine may stop: each way out takes its bucket in. *)
LEMMA EvidenceStays ==
  ASSUME NEW b \in Buckets, UNCHANGED <<inputs, mem>>
  PROVE  /\ Unchanged(b)' = Unchanged(b) /\ Deferred(b)' = Deferred(b)
         /\ Evidence(b)' = Evidence(b)
BY DEF inputs, Unchanged, Deferred, Evidence, Fixes, Of

LEMMA CompleteStops ==
  ASSUME CompleteInv, OnceInv', NEW b \in Buckets,
         Consider(b) \/ PassGate(b) \/ Throttled(b) \/ DistillFails(b) \/ Distilled(b)
           \/ WriteBusy(b) \/ LookUp(b)
  PROVE  CompleteInv'
<1>1. UNCHANGED <<inputs, mem>>
  BY DEF Consider, PassGate, Throttled, DistillFails, Distilled, WriteBusy, LookUp, Go, dbVars
<1>2. CASE Consider(b)
  <2>1. Deferred(b) \/ b \in written => TakenIn(b)'
    BY <1>1, <1>2, EvidenceStays DEF Consider, TakenIn
  <2> QED BY <1>2, <2>1, CompleteGo DEF Consider
<1>3. CASE PassGate(b)
  <2>1. b \in written \/ Unchanged(b) => TakenIn(b)'
    BY <1>1, <1>3, EvidenceStays DEF PassGate, TakenIn
  <2> QED BY <1>3, <2>1, CompleteGo DEF PassGate
<1>4. CASE Throttled(b)
  BY <1>4, CompleteGo DEF Throttled
<1>5. CASE DistillFails(b) \/ WriteBusy(b)
  <2>1. TakenIn(b)'
    BY <1>5 DEF DistillFails, WriteBusy, TakenIn
  <2> QED BY <1>5, <2>1, CompleteGo DEF DistillFails, WriteBusy
<1>6. CASE Distilled(b) \/ LookUp(b)
  BY <1>6, CompleteGo DEF Distilled, LookUp
<1> QED BY <1>2, <1>3, <1>4, <1>5, <1>6

LEMMA CompleteWrites ==
  ASSUME CompleteInv, OnceInv', NEW b \in Buckets,
         Persist(b) \/ Insert(b) \/ FindIncumbent(b) \/ Merge(b) \/ WriteFails(b)
  PROVE  CompleteInv'
<1>1. CASE Persist(b)
  <2>1. CASE Write(b, b)
    BY <2>1, CompleteWrite
  <2>2. CASE Category[b] = "event" /\ Go(b, "persist", "done")
             /\ UNCHANGED <<written, retry, dropped>>
    <3>1. TakenIn(b)'
      BY <1>1, <2>2 DEF Persist, Go, dbVars, TakenIn, Unchanged
    <3> QED BY <2>2, <3>1, CompleteGo
  <2>3. CASE /\ pc' = [pc EXCEPT ![b] = "done"]
             /\ mem' = [mem EXCEPT ![b].hash = Evidence(b), ![b].scenes = Sources(b),
                                  ![b].corr = Fixes(b)]
             /\ UNCHANGED <<phase, inputs, written, retry, dropped, rebVars>>
    <3>1. mem[b] \in MemoryRow /\ mem \in [Buckets -> MemoryRow] /\ mem[b].version > 0
      BY <1>1 DEF Persist, CompleteInv, OnceInv, TypeOK
    <3>2. /\ mem'[b].hash = Evidence(b) /\ mem'[b].corr = Fixes(b)
          /\ mem'[b].version = mem[b].version
          /\ \A o \in Buckets \ {b} : mem'[o] = mem[o]
      BY <2>3, <3>1 DEF MemoryRow
    <3>3. Evidence(b)' = Evidence(b) /\ Fixes(b)' = Fixes(b)
      BY <2>3 DEF inputs, Evidence, Fixes, Of
    <3>4. Unchanged(b)'
      BY <3>1, <3>2, <3>3 DEF Unchanged
    <3>5. OnItsWay(b)'
      BY <3>4 DEF OnItsWay, TakenIn
    <3>6. \A o \in Buckets \ {b} : pc'[o] = pc[o]
      BY <2>3 DEF CompleteInv, OnceInv, TypeOK
    <3>7. \A o \in Buckets : mem'[o] = mem[o] \/ Unchanged(o)'
      BY <3>2, <3>4
    <3> QED BY <2>3, <3>5, <3>6, <3>7, CompleteBucket DEF rebVars
  <2> QED BY <1>1, <2>1, <2>2, <2>3 DEF Persist
<1>2. CASE Insert(b)
  BY <1>2, CompleteWrite DEF Insert
<1>3. CASE FindIncumbent(b)
  <2>1. /\ pc' = [pc EXCEPT ![b] = "wait"]
        /\ UNCHANGED <<mem, phase, inputs, rebuild, retry, written, dropped>>
    BY <1>3 DEF FindIncumbent, dbVars, rebVars
  <2>2. pc'[b] = "wait" /\ \A o \in Buckets \ {b} : pc'[o] = pc[o]
    BY <2>1 DEF CompleteInv, OnceInv, TypeOK
  <2> QED BY <2>1, <2>2, CompleteBucket DEF OnItsWay
<1>4. CASE Merge(b)
  <2>1. into[b] \in Buckets /\ <<b, into[b]>> \in SameAs /\ Category[into[b]] # "event"
    BY <1>4, SameFacts DEF Merge, CompleteInv, OnceInv, TypeOK, Targets
  <2>2. CASE into[b] \in written
    <3>1. Go(b, "wait", "done") /\ UNCHANGED <<written, retry, dropped>>
      BY <1>4, <2>2 DEF Merge
    <3>2. TakenIn(b)'
      BY <2>1, <2>2, <3>1 DEF TakenIn
    <3> QED BY <3>1, <3>2, CompleteGo
  <2>3. CASE Write(b, into[b])
    BY <2>1, <2>3, CompleteWrite
  <2> QED BY <1>4, <2>2, <2>3 DEF Merge
<1>5. CASE WriteFails(b)
  <2>1. PICK from \in {"persist", "lookup", "wait"} : Go(b, from, "done")
    BY <1>5 DEF WriteFails
  <2>2. /\ (retry => retry') /\ written \subseteq written'
        /\ dropped \subseteq dropped' /\ (b \in dropped' \/ retry')
    BY <1>5 DEF WriteFails
  <2>3. retry' \/ TakenIn(b)'
    BY <2>2 DEF TakenIn
  <2> QED BY <2>1, <2>2, <2>3, CompleteGo
<1> QED BY <1>1, <1>2, <1>3, <1>4, <1>5

LEMMA CompleteStep ==
  ASSUME MaxRebuilds = 0
  PROVE  CompleteInv /\ [Next]_vars => CompleteInv'
<1> SUFFICES ASSUME CompleteInv, [Next]_vars PROVE CompleteInv'
  OBVIOUS
<1>1. OnceInv'
  BY OnceStep DEF CompleteInv
<1>2. CASE Feed \/ Rebuild \/ UNCHANGED vars
  BY <1>1, <1>2, CompleteBeside
<1>3. CASE Read
  BY <1>1, <1>3, CompleteRead
<1>4. CASE End
  BY <1>1, <1>4, CompleteEnd
<1>5. ASSUME NEW b \in Buckets, BucketNext(b) PROVE CompleteInv'
  BY <1>1, <1>5, CompleteStops, CompleteWrites DEF BucketNext
<1> QED BY <1>2, <1>3, <1>4, <1>5, NextKinds

(* Sessions go idle only at the end of a rollup that need not be retried. *)
LEMMA CompleteAtEnd ==
  CompleteInv /\ [Next]_vars =>
    (phase = "running" /\ phase' = "none" /\ l3' # l3 => \A b \in Buckets : TakenIn(b))
<1> SUFFICES ASSUME CompleteInv, [Next]_vars, phase = "running", phase' = "none", l3' # l3
             PROVE  \A b \in Buckets : TakenIn(b)
  OBVIOUS
<1>1. Finish
  <2>1. ~(Feed \/ Rebuild \/ UNCHANGED vars)
    BY DEF Feed, Extract, BuildScenes, CreateCorrection, RetractCorrection,
           FindSessions, EnqueueSession, EnqueueFails, Rebuild, ReadEvidence, ReadActive, Reconsolidate,
           ReconsolidateFails, vars, rollVars
  <2>2. ~Read
    BY DEF Read, StartRollup, LoadAtoms, LoadScenesAndCorrections
  <2>3. ASSUME NEW b \in Buckets PROVE ~BucketNext(b)
    BY DEF BucketNext, Consider, PassGate, Throttled, DistillFails, Distilled, WriteBusy,
           Persist, LookUp, Insert, FindIncumbent, Merge, WriteFails, Write, Go
  <2> QED BY <2>1, <2>2, <2>3, NextKinds DEF End, Abort
<1>2. ~retry
  <2>1. l3 \in [Sessions -> {"idle", "pending"}]
    BY DEF CompleteInv, OnceInv, TypeOK
  <2>2. retry => l3' = [s \in Sessions |-> l3[s]]
    BY <1>1 DEF Finish
  <2> QED BY <2>1, <2>2
<1> QED BY <1>1, <1>2 DEF Finish, CompleteInv, OnItsWay

(***************************************************************************)
(* Unless memories are reconsolidated by hand meanwhile, a rollup that     *)
(* marks sessions idle has taken in everything it read, whatever failed.   *)
(***************************************************************************)
THEOREM TakesInWhatItRead ==
  ASSUME MaxRebuilds = 0
  PROVE  Spec => RollupComplete
<1>1. CompleteInv /\ [Next]_vars => CompleteInv'
  BY CompleteStep
<1> QED BY <1>1, CompleteInit, CompleteAtEnd, PTL DEF Spec, RollupComplete

-----------------------------------------------------------------------------
(* That the memories keep the promise of module Remember rests on what a   *)
(* rollup has loaded being at least what every memory rests on, on the bar *)
(* that holds for every memory and every goroutine past it, and on a       *)
(* memory found once staying there.                                        *)

(* Enough sessions of the evidence in S tell of b. *)
Bar(b, S) == Category[b] = "entity" => Cardinality(SessionsOf(Of(b, S))) >= MinSessions

(* Memories have evidence, all of it in S, and S is enough for them. *)
Known(m, S) ==
  \A u \in Buckets :
    /\ m[u].version > 0 <=> m[u].hash # {}
    /\ m[u].hash \subseteq S
    /\ m[u].version > 0 => Bar(u, S)

PastBar == {"gate", "llm", "persist", "lookup", "wait"}

Grounded(b) ==
  /\ pc[b] \notin {"none", "done"} => Evidence(b) # {}
  /\ pc[b] \in PastBar => Bar(b, seen)
  /\ pc[b] = "wait" => mem[into[b]].version > 0

KnowsInv ==
  /\ OnceInv
  /\ rebuild = {}
  /\ IsFiniteSet(SessionsOf(atoms))
  /\ Known(mem, atoms)
  /\ phase \in {"loaded", "running"} => Known(mem, seen)
  /\ \A b \in Buckets : Grounded(b)

(* More evidence is enough where less was. *)
LEMMA BarGrows ==
  ASSUME NEW b \in Buckets, NEW S, NEW T, S \subseteq T, IsFiniteSet(SessionsOf(T)),
         Bar(b, S)
  PROVE  Bar(b, T)
<1>1. /\ SessionsOf(Of(b, S)) \subseteq SessionsOf(Of(b, T))
      /\ SessionsOf(Of(b, T)) \subseteq SessionsOf(T)
  BY DEF SessionsOf, Of
<1>2. IsFiniteSet(SessionsOf(Of(b, T))) /\ IsFiniteSet(SessionsOf(Of(b, S)))
  BY <1>1, FS_Subset
<1>3. Cardinality(SessionsOf(Of(b, S))) <= Cardinality(SessionsOf(Of(b, T)))
  BY <1>1, <1>2, FS_Subset
<1>4. /\ Cardinality(SessionsOf(Of(b, S))) \in Nat
      /\ Cardinality(SessionsOf(Of(b, T))) \in Nat /\ MinSessions \in Nat
  BY <1>2, FS_CardinalityType, RollupAssumption
<1> QED BY <1>3, <1>4 DEF Bar

LEMMA KnownGrows ==
  ASSUME NEW m, NEW S, NEW T, S \subseteq T, IsFiniteSet(SessionsOf(T)), Known(m, S)
  PROVE  Known(m, T)
BY BarGrows DEF Known

LEMMA SeenFinite ==
  ASSUME KnowsInv PROVE IsFiniteSet(SessionsOf(seen)) /\ seen \subseteq atoms
<1>1. seen \subseteq atoms
  BY DEF KnowsInv, OnceInv, TypeOK
<1>2. SessionsOf(seen) \subseteq SessionsOf(atoms)
  BY <1>1 DEF SessionsOf
<1> QED BY <1>1, <1>2, FS_Subset DEF KnowsInv

LEMMA KnowsInit == Init => KnowsInv
<1> SUFFICES ASSUME Init PROVE KnowsInv
  OBVIOUS
<1>1. SessionsOf(atoms) = {}
  BY DEF Init, SessionsOf
<1>2. IsFiniteSet(SessionsOf(atoms))
  BY <1>1, FS_EmptySet
<1>3. Known(mem, atoms)
  BY DEF Init, Known, NoMemory
<1>4. \A b \in Buckets : Grounded(b)
  BY DEF Init, Grounded, PastBar
<1> QED BY <1>2, <1>3, <1>4, OnceInit DEF Init, KnowsInv

(* What runs beside a rollup adds evidence, or leaves it as it is. *)
LEMMA KnowsBeside ==
  ASSUME MaxRebuilds = 0, KnowsInv, OnceInv', Feed \/ Rebuild \/ UNCHANGED vars
  PROVE  KnowsInv'
<1>1. ~Rebuild
  <2>1. rebuilds = 0
    BY DEF KnowsInv, OnceInv, TypeOK
  <2> QED BY <2>1 DEF Rebuild, ReadEvidence, ReadActive, Reconsolidate, ReconsolidateFails, KnowsInv
<1>2. UNCHANGED <<rollVars, mem, rebuild>>
  BY <1>1 DEF Feed, Extract, BuildScenes, CreateCorrection, RetractCorrection,
         FindSessions, EnqueueSession, EnqueueFails, vars, dbVars, rebVars
<1>3. \/ UNCHANGED atoms
      \/ \E a \in Atoms : atoms' = atoms \cup {a}
  BY <1>1 DEF Feed, Extract, BuildScenes, CreateCorrection, RetractCorrection,
         FindSessions, EnqueueSession, EnqueueFails, vars, dbVars
<1>4. atoms \subseteq atoms' /\ IsFiniteSet(SessionsOf(atoms'))
  <2>1. ASSUME NEW a \in Atoms, atoms' = atoms \cup {a}
        PROVE  IsFiniteSet(SessionsOf(atoms'))
    <3>1. SessionsOf(atoms') = SessionsOf(atoms) \cup {SessionOf[a]}
      BY <2>1 DEF SessionsOf
    <3> QED BY <3>1, FS_AddElement DEF KnowsInv
  <2> QED BY <1>3, <2>1 DEF KnowsInv
<1>5. Known(mem', atoms')
  BY <1>2, <1>4, KnownGrows DEF KnowsInv
<1>6. UNCHANGED <<phase, seen, pc, into, mem>>
  BY <1>2 DEF rollVars, inputs
<1>7. ASSUME NEW b \in Buckets PROVE Grounded(b)'
  BY <1>6 DEF KnowsInv, Grounded, Evidence
<1>8. SessionsOf(atoms)' = SessionsOf(atoms')
  BY DEF SessionsOf
<1> QED BY <1>2, <1>4, <1>5, <1>6, <1>7, <1>8 DEF KnowsInv

LEMMA KnowsRead == ASSUME KnowsInv, OnceInv', Read PROVE KnowsInv'
<1>1. UNCHANGED <<rebuild, atoms, mem>>
  BY DEF Read, StartRollup, LoadAtoms, LoadScenesAndCorrections, rebVars, dbVars
<1>2. phase' \in {"loaded", "running"} => Known(mem', seen')
  BY <1>1 DEF Read, StartRollup, LoadAtoms, LoadScenesAndCorrections, KnowsInv
<1>3. ASSUME NEW b \in Buckets PROVE Grounded(b)'
  <2>1. CASE StartRollup \/ LoadAtoms
    <3>1. pc'[b] = "none"
      BY <2>1 DEF StartRollup, LoadAtoms, KnowsInv, OnceInv, Inside
    <3> QED BY <3>1 DEF Grounded, PastBar
  <2>2. CASE LoadScenesAndCorrections
    <3>1. Evidence(b)' = Evidence(b)
      BY <2>2 DEF LoadScenesAndCorrections, Evidence
    <3>2. pc'[b] = IF Evidence(b) = {} THEN "none" ELSE "todo"
      BY <2>2 DEF LoadScenesAndCorrections
    <3> QED BY <3>1, <3>2 DEF Grounded, PastBar
  <2> QED BY <2>1, <2>2 DEF Read
<1> QED BY <1>1, <1>2, <1>3 DEF KnowsInv

LEMMA KnowsEnd == ASSUME KnowsInv, OnceInv', End PROVE KnowsInv'
<1>1. Over
  BY DEF End, Finish, Abort
<1>2. ASSUME NEW b \in Buckets PROVE Grounded(b)'
  BY <1>1 DEF Over, Grounded, PastBar
<1> QED BY <1>1, <1>2 DEF Over, KnowsInv, rebVars

(* A goroutine that does no more than go on, past the bar only when it is  *)
(* not deferred. *)
LEMMA KnowsGo ==
  ASSUME KnowsInv, OnceInv', NEW b \in Buckets, NEW from \in Places \ {"none", "done"},
         NEW to \in Places \ {"none", "wait"}, Go(b, from, to),
         to \in PastBar => from \in PastBar \/ ~Deferred(b)
  PROVE  KnowsInv'
<1>1. /\ pc' = [pc EXCEPT ![b] = to] /\ pc[b] = from
      /\ UNCHANGED <<mem, atoms, phase, seen, into, rebuild>>
  BY DEF Go, dbVars, inputs, rebVars
<1>2. pc'[b] = to /\ \A o \in Buckets \ {b} : pc'[o] = pc[o]
  BY <1>1 DEF KnowsInv, OnceInv, TypeOK
<1>3. \A o \in Buckets : Evidence(o)' = Evidence(o)
  BY <1>1 DEF Evidence
<1>4. ~Deferred(b) => Bar(b, seen)
  <2>1. phase = "running"
    BY <1>1 DEF KnowsInv, OnceInv, Inside
  <2>2. CASE mem[b].version > 0
    BY <2>1, <2>2 DEF KnowsInv, Known
  <2>3. CASE mem[b].version = 0
    <3>1. IsFiniteSet(SessionsOf(Evidence(b)))
      <4>1. SessionsOf(Evidence(b)) \subseteq SessionsOf(seen)
        BY DEF SessionsOf, Evidence, Of
      <4> QED BY <4>1, SeenFinite, FS_Subset
    <3>2. Cardinality(SessionsOf(Evidence(b))) \in Nat /\ MinSessions \in Nat
      BY <3>1, FS_CardinalityType, RollupAssumption
    <3> QED BY <2>3, <3>2 DEF Deferred, Bar, Evidence
  <2>4. mem[b].version \in Nat
    BY FieldType DEF KnowsInv, OnceInv
  <2> QED BY <2>2, <2>3, <2>4
<1>5. Grounded(b)'
  <2>1. from \in PastBar => Bar(b, seen)
    BY <1>1 DEF KnowsInv, Grounded
  <2>2. Evidence(b) # {}
    BY <1>1 DEF KnowsInv, Grounded
  <2> QED BY <1>1, <1>2, <1>3, <1>4, <2>1, <2>2 DEF Grounded
<1>6. ASSUME NEW o \in Buckets \ {b} PROVE Grounded(o)'
  BY <1>1, <1>2, <1>3 DEF KnowsInv, Grounded
<1> QED BY <1>1, <1>5, <1>6 DEF KnowsInv

(* b's evidence becomes that of the memory at u. *)
Rests(b, u) ==
  /\ phase = "running" /\ UNCHANGED <<phase, inputs, atoms, into>>
  /\ pc[b] \in {"persist", "lookup", "wait"}
  /\ pc' = [pc EXCEPT ![b] = "done"]
  /\ mem'[u].hash = Evidence(b) /\ mem'[u].version > 0
  /\ \A o \in Buckets \ {u} : mem'[o] = mem[o]
  /\ b = u \/ (<<b, u>> \in SameAs /\ mem[u].version > 0)
  /\ Category[u] = "event" => mem[u].version = 0

LEMMA RestsGood ==
  ASSUME KnowsInv, NEW b \in Buckets, NEW u \in Buckets, Rests(b, u)
  PROVE  /\ Category[b] = Category[u]
         /\ Evidence(b) # {} /\ Bar(b, seen) /\ Bar(u, seen)
<1>1. Evidence(b) # {} /\ Bar(b, seen)
  BY DEF Rests, KnowsInv, Grounded, PastBar
<1>2. Category[b] = Category[u]
  BY SameFacts DEF Rests
<1>3. b # u => Bar(u, seen)
  BY DEF Rests, KnowsInv, Known
<1> QED BY <1>1, <1>2, <1>3

LEMMA KnowsRests ==
  ASSUME KnowsInv, OnceInv', NEW b \in Buckets, NEW u \in Buckets, Rests(b, u),
         UNCHANGED rebuild
  PROVE  KnowsInv'
<1>1. Known(mem', seen)
  <2>1. Known(mem, seen)
    BY DEF Rests, KnowsInv
  <2>2. Evidence(b) \subseteq seen
    BY DEF Evidence, Of
  <2>3. ASSUME NEW o \in Buckets
        PROVE  /\ mem'[o].version > 0 <=> mem'[o].hash # {}
               /\ mem'[o].hash \subseteq seen
               /\ mem'[o].version > 0 => Bar(o, seen)
    BY <2>1, <2>2, RestsGood DEF Rests, Known
  <2> QED BY <2>3 DEF Known
<1>2. Known(mem', atoms)
  BY <1>1, SeenFinite, KnownGrows DEF KnowsInv
<1>3. ASSUME NEW o \in Buckets PROVE Grounded(o)'
  <2>1. pc'[b] = "done" /\ (o # b => pc'[o] = pc[o])
    BY DEF Rests, KnowsInv, OnceInv, TypeOK
  <2>2. Evidence(o)' = Evidence(o) /\ seen' = seen
    BY DEF Rests, Evidence, inputs
  <2>3. mem[into[o]].version > 0 => mem'[into[o]].version > 0
    BY DEF Rests, KnowsInv, OnceInv, TypeOK
  <2> QED BY <2>1, <2>2, <2>3 DEF Rests, KnowsInv, Grounded, PastBar
<1> QED BY <1>1, <1>2, <1>3 DEF Rests, inputs, KnowsInv

LEMMA WriteRests ==
  ASSUME KnowsInv, NEW b \in Buckets, NEW u \in Buckets, Write(b, u),
         pc[b] \in {"persist", "lookup", "wait"},
         b = u \/ (<<b, u>> \in SameAs /\ mem[u].version > 0),
         Category[u] = "event" => mem[u].version = 0
  PROVE  Rests(b, u) /\ UNCHANGED rebuild
<1>1. phase = "running"
  BY DEF KnowsInv, OnceInv, Inside
<1>2. mem[u].version \in Nat /\ mem \in [Buckets -> MemoryRow]
  BY FieldType DEF KnowsInv, OnceInv, TypeOK
<1>3. /\ mem'[u].hash = Evidence(b) /\ mem'[u].version > 0
      /\ \A o \in Buckets \ {u} : mem'[o] = mem[o]
  BY <1>2 DEF Write, Row
<1> QED BY <1>1, <1>3 DEF Write, Rests, rebVars

(* A goroutine goes on, finds an incumbent or rewrites a memory. *)
GoesOn(b) ==
  \E from \in Places \ {"none", "done"}, to \in Places \ {"none", "wait"} :
    /\ Go(b, from, to)
    /\ to \in PastBar => from \in PastBar \/ ~Deferred(b)

LEMMA BucketKinds ==
  ASSUME KnowsInv, NEW b \in Buckets, BucketNext(b)
  PROVE  \/ GoesOn(b) \/ FindIncumbent(b)
         \/ \E u \in Buckets : Rests(b, u) /\ UNCHANGED rebuild
<1> USE DEF Places, PastBar
<1>1. CASE Persist(b)
  <2>1. CASE Category[b] # "event" /\ Write(b, b)
    BY <1>1, <2>1, WriteRests DEF Persist
  <2>2. CASE /\ Category[b] # "event" /\ pc' = [pc EXCEPT ![b] = "done"]
             /\ mem' = [mem EXCEPT ![b].hash = Evidence(b), ![b].scenes = Sources(b),
                                  ![b].corr = Fixes(b)]
             /\ UNCHANGED <<atoms, phase, inputs, into, rebVars>>
    <3>1. mem[b] \in MemoryRow /\ mem \in [Buckets -> MemoryRow] /\ mem[b].version > 0
      BY <1>1 DEF Persist, KnowsInv, OnceInv, TypeOK
    <3>2. /\ mem'[b].hash = Evidence(b) /\ mem'[b].version > 0
          /\ \A o \in Buckets \ {b} : mem'[o] = mem[o]
      BY <2>2, <3>1 DEF MemoryRow
    <3>3. phase = "running" /\ pc[b] = "persist"
      BY <1>1 DEF Persist, KnowsInv, OnceInv, Inside
    <3> QED BY <2>2, <3>2, <3>3 DEF Rests, rebVars
  <2>3. CASE Go(b, "persist", "done")
    BY <2>3 DEF GoesOn
  <2> QED BY <1>1, <2>1, <2>2, <2>3 DEF Persist
<1>2. CASE Insert(b)
  BY <1>2, WriteRests DEF Insert
<1>3. CASE Merge(b)
  <2>1. /\ into[b] \in Buckets /\ <<b, into[b]>> \in SameAs /\ pc[b] = "wait"
        /\ Category[into[b]] # "event"
    BY <1>3, SameFacts DEF Merge, KnowsInv, OnceInv, TypeOK, Targets
  <2>2. mem[into[b]].version > 0
    BY <2>1 DEF KnowsInv, Grounded
  <2>3. CASE Go(b, "wait", "done")
    BY <2>3 DEF GoesOn
  <2>4. CASE Write(b, into[b])
    BY <2>1, <2>2, <2>4, WriteRests
  <2> QED BY <1>3, <2>3, <2>4 DEF Merge
<1>4. CASE FindIncumbent(b)
  BY <1>4
<1>5. CASE Consider(b)
  BY <1>5 DEF Consider, GoesOn
<1>6. CASE PassGate(b) \/ Distilled(b) \/ LookUp(b)
  BY <1>6 DEF PassGate, Distilled, LookUp, GoesOn
<1>7. CASE Throttled(b) \/ DistillFails(b) \/ WriteBusy(b) \/ WriteFails(b)
  BY <1>7 DEF Throttled, DistillFails, WriteBusy, WriteFails, GoesOn
<1> QED BY <1>1, <1>2, <1>3, <1>4, <1>5, <1>6, <1>7 DEF BucketNext

LEMMA KnowsBucket ==
  ASSUME KnowsInv, OnceInv', NEW b \in Buckets, BucketNext(b) PROVE KnowsInv'
<1>1. CASE GoesOn(b)
  BY <1>1, KnowsGo DEF GoesOn
<1>2. CASE \E u \in Buckets : Rests(b, u) /\ UNCHANGED rebuild
  BY <1>2, KnowsRests
<1>3. CASE FindIncumbent(b)
  <2>1. PICK i \in Incumbents(b) : into' = [into EXCEPT ![b] = i]
    BY <1>3 DEF FindIncumbent
  <2>2. /\ pc' = [pc EXCEPT ![b] = "wait"] /\ pc[b] = "lookup" /\ mem[i].version > 0
        /\ UNCHANGED <<mem, atoms, phase, seen, rebuild>>
    BY <1>3, <2>1 DEF FindIncumbent, Incumbents, dbVars, inputs, rebVars
  <2>3. /\ pc'[b] = "wait" /\ into'[b] = i
        /\ \A o \in Buckets \ {b} : pc'[o] = pc[o] /\ into'[o] = into[o]
    BY <2>1, <2>2 DEF KnowsInv, OnceInv, TypeOK
  <2>4. ASSUME NEW o \in Buckets PROVE Grounded(o)'
    BY <2>2, <2>3 DEF KnowsInv, Grounded, Evidence, PastBar
  <2> QED BY <2>2, <2>4 DEF KnowsInv
<1> QED BY <1>1, <1>2, <1>3, BucketKinds

LEMMA KnowsStep ==
  ASSUME MaxRebuilds = 0
  PROVE  KnowsInv /\ [Next]_vars => KnowsInv'
<1> SUFFICES ASSUME KnowsInv, [Next]_vars PROVE KnowsInv'
  OBVIOUS
<1>1. OnceInv'
  BY OnceStep DEF KnowsInv
<1>2. CASE Feed \/ Rebuild \/ UNCHANGED vars
  BY <1>1, <1>2, KnowsBeside
<1>3. CASE Read
  BY <1>1, <1>3, KnowsRead
<1>4. CASE End
  BY <1>1, <1>4, KnowsEnd
<1>5. ASSUME NEW b \in Buckets, BucketNext(b) PROVE KnowsInv'
  BY <1>1, <1>5, KnowsBucket
<1> QED BY <1>2, <1>3, <1>4, <1>5, NextKinds

-----------------------------------------------------------------------------
(* The steps as steps of module Remember *)

LEMMA SameCount == ASSUME NEW S PROVE Promise!Cardinality(S) = Cardinality(S)
BY DEF Cardinality, Promise!Cardinality

LEMMA RestsIsRewrite ==
  ASSUME KnowsInv, NEW b \in Buckets, NEW u \in Buckets, Rests(b, u)
  PROVE  Promise!Rewrite(u)
<1> DEFINE memory == [v \in Buckets |-> mem[v].hash]
<1>1. /\ Evidence(b) \in SUBSET Promise!About(b)
      /\ mem[u].hash \cap Promise!About(b) \subseteq Evidence(b)
  <2>1. seen \subseteq atoms /\ mem[u].hash \subseteq seen
    BY SeenFinite DEF Rests, KnowsInv, Known
  <2> QED BY <2>1 DEF Promise!About, Evidence, Of
<1>2. Promise!MayWrite(b, u)
  BY DEF Rests, Promise!MayWrite, KnowsInv, Known
<1>3. Promise!Worthy(u, Evidence(b))
  <2>1. Category[u] = "event" => mem[u].hash = {}
    BY FieldType DEF Rests, KnowsInv, Known, OnceInv
  <2>2. Category[u] = "entity"
          => Cardinality({SessionOf[a] : a \in Evidence(b)}) >= MinSessions
    BY RestsGood DEF Bar, Evidence, SessionsOf
  <2> QED BY <2>1, <2>2, SameCount DEF Promise!Worthy
<1>4. Evidence(b) # {}
  BY RestsGood
<1>5. memory' = [memory EXCEPT ![u] = Evidence(b)]
  BY DEF Rests
<1> QED BY <1>1, <1>2, <1>3, <1>4, <1>5 DEF Promise!Rewrite, Rests

LEMMA RememberStep ==
  ASSUME MaxRebuilds = 0
  PROVE  KnowsInv /\ [Next]_vars => [Promise!RememberNext]_(Promise!rememberVars)
<1> SUFFICES ASSUME KnowsInv, [Next]_vars
             PROVE  [Promise!RememberNext]_(Promise!rememberVars)
  OBVIOUS
<1>1. CASE Rebuild
  <2>1. rebuilds = 0
    BY DEF KnowsInv, OnceInv, TypeOK
  <2> QED BY <1>1, <2>1 DEF Rebuild, ReadEvidence, ReadActive, Reconsolidate, ReconsolidateFails, KnowsInv
<1>2. CASE UNCHANGED <<atoms, mem>>
  BY <1>2 DEF Promise!rememberVars
<1>3. CASE Feed
  <2>1. ASSUME NEW a \in Atoms, Extract(a) PROVE Promise!Learn(a)
    BY <2>1 DEF Extract, Promise!Learn
  <2>2. UNCHANGED <<atoms, mem>> \/ \E a \in Atoms : Extract(a)
    BY <1>3 DEF Feed, BuildScenes, CreateCorrection, RetractCorrection, FindSessions,
                EnqueueSession, EnqueueFails, dbVars
  <2> QED BY <1>2, <2>1, <2>2 DEF Promise!RememberNext
<1>4. CASE Read \/ End \/ UNCHANGED vars
  BY <1>2, <1>4 DEF Read, StartRollup, LoadAtoms, LoadScenesAndCorrections, End, Finish,
                   Abort, Over, vars, dbVars
<1>5. ASSUME NEW b \in Buckets, BucketNext(b)
      PROVE  [Promise!RememberNext]_(Promise!rememberVars)
  <2>1. CASE GoesOn(b) \/ FindIncumbent(b)
    BY <1>2, <2>1 DEF GoesOn, FindIncumbent, Go, dbVars
  <2>2. CASE \E u \in Buckets : Rests(b, u) /\ UNCHANGED rebuild
    BY <2>2, RestsIsRewrite DEF Promise!RememberNext
  <2> QED BY <1>5, <2>1, <2>2, BucketKinds
<1> QED BY <1>1, <1>3, <1>4, <1>5, NextKinds

(***************************************************************************)
(* The L3 worker implements the abstract specification Remember, unless    *)
(* memories are reconsolidated by hand: each step of its goroutines        *)
(* rewrites one memory as promised or is a stutter.                        *)
(***************************************************************************)
THEOREM ImplementsRemember ==
  ASSUME MaxRebuilds = 0
  PROVE  Spec => Remembers
<1>1. Init => Promise!RememberInit
  BY DEF Init, NoMemory, Promise!RememberInit
<1>2. KnowsInv /\ [Next]_vars => KnowsInv'
  BY KnowsStep
<1>3. KnowsInv /\ [Next]_vars => [Promise!RememberNext]_(Promise!rememberVars)
  BY RememberStep
<1> QED BY <1>1, <1>2, <1>3, KnowsInit, PTL DEF Spec, Remembers, Promise!RememberSpec
=============================================================================
