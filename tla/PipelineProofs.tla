--------------------------- MODULE PipelineProofs ---------------------------
(***************************************************************************)
(* Proofs about module Pipeline, for every value of its constants.         *)
(* TypeOK and SourcesExtracted hold with any number of processes on the    *)
(* database, the rest when there is only one, since a session's mutex is   *)
(* in a process's memory.  At the end: how the same workers share their    *)
(* calls among the sessions (module Scheduler).                            *)
(***************************************************************************)
EXTENDS Pipeline, TLAPS, FiniteSetTheorems, SequenceTheorems

-----------------------------------------------------------------------------
(* The batch a prepare fetches is made of turns not extracted yet. *)
LEMMA BatchFresh ==
  \A s \in Sessions : Batch(s) \subseteq turns[s] \ extracted[s]
BY DEF Batch, Oldest

(* The warm-up threshold stays a number of turns. *)
LEMMA WarmupType == ASSUME NEW w \in Nat PROVE NextWarmup(w) \in Nat
BY PipelineAssumption DEF NextWarmup

(* Requeued rows have a status. *)
LEMMA PendingType ==
  ASSUME NEW status \in [Sessions -> Status], NEW S
  PROVE  Pending(status, S) \in [Sessions -> Status]
BY DEF Pending, Status

(* So the commands and restarts that requeue rows leave valid statuses. *)
LEMMA OperatorStatus ==
  ASSUME l1 \in [Sessions -> Status],
         l2 \in [Sessions -> Status],
         l3 \in [Sessions -> Status],
         \/ \E s \in Sessions : Requeue(s)
         \/ \E S \in SUBSET Sessions : Unstick(S)
         \/ \E d \in Daemons : Start(d)
  PROVE  /\ l1' \in [Sessions -> Status]
         /\ l2' \in [Sessions -> Status]
         /\ l3' \in [Sessions -> Status]
<1>1. ASSUME NEW s \in Sessions, Requeue(s)
      PROVE  /\ l1' \in [Sessions -> Status]
             /\ l2' \in [Sessions -> Status]
             /\ l3' \in [Sessions -> Status]
  BY <1>1, PendingType DEF Requeue
<1>2. ASSUME NEW S \in SUBSET Sessions, Unstick(S)
      PROVE  /\ l1' \in [Sessions -> Status]
             /\ l2' \in [Sessions -> Status]
             /\ l3' \in [Sessions -> Status]
  BY <1>2, PendingType DEF Unstick
<1>3. ASSUME NEW d \in Daemons, Start(d)
      PROVE  /\ l1' \in [Sessions -> Status]
             /\ l2' \in [Sessions -> Status]
             /\ l3' \in [Sessions -> Status]
  BY <1>3, PendingType DEF Start
<1> QED BY <1>1, <1>2, <1>3

LEMMA TypeInit == Init => TypeOK
BY PipelineAssumption DEF Init, TypeOK, Status, Times, NoBatch

LEMMA TypeStep == TypeOK /\ [Next]_vars => TypeOK'
<1> SUFFICES ASSUME TypeOK, [Next]_vars PROVE TypeOK'
  OBVIOUS
<1> USE PipelineAssumption DEF TypeOK
<1>1. ASSUME NEW s \in Sessions, NEW t \in Times, Upload(s, t) PROVE TypeOK'
  BY <1>1 DEF Upload, memVars, Status
<1>2. CASE Tick
  BY <1>2 DEF Tick, dbVars, memVars
<1>3. ASSUME NEW s \in Sessions, Settle(s) PROVE TypeOK'
  BY <1>3 DEF Settle, promised, memVars
<1>4. ASSUME NEW s \in Sessions, Requeue(s) PROVE TypeOK'
  BY <1>4, OperatorStatus DEF Requeue, promised, memVars
<1>5. ASSUME NEW S \in SUBSET Sessions, L3MarkIdle(S) PROVE TypeOK'
  BY <1>5 DEF L3MarkIdle, promised, memVars, Status
<1>6. ASSUME NEW S \in SUBSET Sessions, Unstick(S) PROVE TypeOK'
  BY <1>6, OperatorStatus DEF Unstick, promised, memVars
<1>7. ASSUME NEW d \in Daemons, Start(d) PROVE TypeOK'
  <2>1. l1' \in [Sessions -> Status] /\ l2' \in [Sessions -> Status]
    BY <1>7, OperatorStatus
  <2>2. faults' \in 0..MaxFaults
    BY <1>7 DEF Start, Fault
  <2> QED BY <1>7, <2>1, <2>2 DEF Start, promised, memVars
<1>8. ASSUME NEW d \in Daemons, Stop(d) PROVE TypeOK'
  BY <1>8 DEF Stop, dbVars, Fault, NoBatch
<1>9. ASSUME NEW d \in Daemons, NEW s \in Sessions, L1Next(d, s)
      PROVE  TypeOK'
  <2>1. CASE SelectL1(d, s)
    BY <2>1 DEF SelectL1, dbVars
  <2>2. CASE NothingLeft(d, s)
    <3>1. /\ BeginL1(d, s)
          /\ UNCHANGED l1job
          /\ \/ UNCHANGED <<l1, since>>
             \/ /\ l1' = [l1 EXCEPT ![s] = "idle"]
                /\ since' = [since EXCEPT ![s] = 0]
      BY <2>2 DEF NothingLeft
    <3> QED BY <3>1 DEF BeginL1, promised, Status
  <2>3. CASE NotYetL1(d, s)
    BY <2>3 DEF NotYetL1, BeginL1, promised
  <2>4. CASE PrepareL1(d, s)
    <3>1. Batch(s) \in SUBSET Times
      BY BatchFresh
    <3> QED BY <2>4, <3>1 DEF PrepareL1, BeginL1, promised, Status
  <2>5. CASE PersistL1(d, s)
    <3>1. /\ l1job[d][s].turns \in SUBSET Times
          /\ l1job[d][s].warm \in Nat
      OBVIOUS
    <3>2. NextWarmup(l1job[d][s].warm) \in Nat
      BY <3>1, WarmupType
    <3>3. atoms' \in [Sessions -> Seq(SUBSET Times)]
      <4>1. Append(atoms[s], l1job[d][s].turns) \in Seq(SUBSET Times)
        BY <3>1
      <4> QED BY <2>5, <4>1 DEF PersistL1
    <3>4. /\ extracted' \in [Sessions -> SUBSET Times]
          /\ warm' \in [Sessions -> Nat]
      BY <2>5, <3>1, <3>2 DEF PersistL1
    <3> QED BY <2>5, <3>3, <3>4 DEF PersistL1, EndL1, NoBatch, Status
  <2>6. CASE FailL1(d, s)
    BY <2>6 DEF FailL1, EndL1, Fault, promised, NoBatch, Status
  <2>7. CASE LoseL1(d, s)
    BY <2>7 DEF LoseL1, EndL1, Fault, dbVars, NoBatch
  <2> QED BY <1>9, <2>1, <2>2, <2>3, <2>4, <2>5, <2>6, <2>7 DEF L1Next
<1>10. ASSUME NEW d \in Daemons, NEW s \in Sessions, L2Next(d, s)
       PROVE  TypeOK'
  <2>1. CASE SelectL2(d, s)
    BY <2>1 DEF SelectL2, dbVars
  <2>2. CASE NotYetL2(d, s)
    BY <2>2 DEF NotYetL2, BeginL2, promised
  <2>3. CASE NoAtoms(d, s)
    BY <2>3 DEF NoAtoms, BeginL2, promised, Status
  <2>4. CASE PrepareL2(d, s)
    BY <2>4 DEF PrepareL2, BeginL2, promised, Status
  <2>5. CASE PersistL2(d, s)
    <3>1. Recent(l2job[d][s]) \in SUBSET (Nat \ {0})
      BY DEF Recent
    <3> QED BY <2>5, <3>1 DEF PersistL2, EndL2, Status
  <2>6. CASE FailL2(d, s)
    BY <2>6 DEF FailL2, EndL2, Fault, promised, Status
  <2>7. CASE LoseL2(d, s)
    BY <2>7 DEF LoseL2, EndL2, Fault, dbVars
  <2> QED BY <1>10, <2>1, <2>2, <2>3, <2>4, <2>5, <2>6, <2>7 DEF L2Next
<1>11. ASSUME NEW d \in Daemons, NEW s \in Sessions, Abandon(d, s)
       PROVE  TypeOK'
  BY <1>11 DEF Abandon, Fault, dbVars
<1>12. CASE UNCHANGED vars
  BY <1>12 DEF vars, dbVars, memVars
<1> QED
  BY <1>1, <1>2, <1>3, <1>4, <1>5, <1>6, <1>7, <1>8, <1>9, <1>10, <1>11, <1>12
  DEF Next, EnvNext

(***************************************************************************)
(* Rows, stamps and in-memory records keep the shape the code gives them.  *)
(***************************************************************************)
THEOREM TypeCorrect == Spec => []TypeOK
BY TypeInit, TypeStep, PTL DEF Spec

-----------------------------------------------------------------------------
(***************************************************************************)
(* Most steps leave the evidence alone: they may drop work in flight, but  *)
(* start none, and they never put an L2 row to rest.                       *)
(***************************************************************************)
Drop ==
  /\ UNCHANGED promised
  /\ \A s \in Sessions : l2'[s] = "idle" => l2[s] = "idle"
  /\ \A d \in Daemons, s \in Sessions :
       /\ l1job'[d][s] \in {NoBatch, l1job[d][s]}
       /\ l2job'[d][s] \in {0, l2job[d][s]}

(* The steps that do more are uploads and those of a worker with the mutex. *)
WorkerStep(d, s) ==
  \/ PrepareL1(d, s) \/ PersistL1(d, s)
  \/ NoAtoms(d, s) \/ PrepareL2(d, s) \/ PersistL2(d, s)

LEMMA StepKinds ==
  ASSUME TypeOK, [Next]_vars
  PROVE  \/ Drop
         \/ \E s \in Sessions, t \in Times : Upload(s, t)
         \/ \E d \in Daemons, s \in Sessions : WorkerStep(d, s)
<1>0. /\ l2 \in [Sessions -> Status]
      /\ l1job \in [Daemons -> [Sessions -> [turns : SUBSET Times, warm : Nat]]]
      /\ l2job \in [Daemons -> [Sessions -> Nat]]
  BY DEF TypeOK
<1>1. CASE Tick
  BY <1>1 DEF Tick, dbVars, memVars, promised, Drop
<1>2. ASSUME NEW s \in Sessions, Settle(s) PROVE Drop
  BY <1>2 DEF Settle, memVars, promised, Drop
<1>3. ASSUME NEW s \in Sessions, Requeue(s) PROVE Drop
  BY <1>3, <1>0 DEF Requeue, Pending, memVars, promised, Drop
<1>4. ASSUME NEW S \in SUBSET Sessions, L3MarkIdle(S) PROVE Drop
  BY <1>4 DEF L3MarkIdle, memVars, promised, Drop
<1>5. ASSUME NEW S \in SUBSET Sessions, Unstick(S) PROVE Drop
  BY <1>5, <1>0 DEF Unstick, Pending, memVars, promised, Drop
<1>6. ASSUME NEW d \in Daemons, Start(d) PROVE Drop
  BY <1>6, <1>0 DEF Start, Pending, memVars, promised, Drop
<1>7. ASSUME NEW d \in Daemons, Stop(d) PROVE Drop
  BY <1>7, <1>0 DEF Stop, dbVars, promised, Drop
<1>8. ASSUME NEW d \in Daemons, NEW s \in Sessions, Abandon(d, s) PROVE Drop
  BY <1>8 DEF Abandon, dbVars, promised, Drop
<1>9. ASSUME NEW d \in Daemons, NEW s \in Sessions, L1Next(d, s)
      PROVE  Drop \/ WorkerStep(d, s)
  <2>1. SelectL1(d, s) => Drop
    BY DEF SelectL1, dbVars, promised, Drop
  <2>2. NothingLeft(d, s) \/ NotYetL1(d, s) => Drop
    BY DEF NothingLeft, NotYetL1, BeginL1, promised, Drop
  <2>3. FailL1(d, s) => Drop
    BY <1>0 DEF FailL1, EndL1, promised, Drop
  <2>4. LoseL1(d, s) => Drop
    BY <1>0 DEF LoseL1, EndL1, dbVars, promised, Drop
  <2> QED BY <1>9, <2>1, <2>2, <2>3, <2>4 DEF L1Next, WorkerStep
<1>10. ASSUME NEW d \in Daemons, NEW s \in Sessions, L2Next(d, s)
       PROVE  Drop \/ WorkerStep(d, s)
  <2>1. SelectL2(d, s) => Drop
    BY DEF SelectL2, dbVars, promised, Drop
  <2>2. NotYetL2(d, s) => Drop
    BY DEF NotYetL2, BeginL2, promised, Drop
  <2>3. FailL2(d, s) => Drop
    BY <1>0 DEF FailL2, EndL2, promised, Drop
  <2>4. LoseL2(d, s) => Drop
    BY <1>0 DEF LoseL2, EndL2, dbVars, promised, Drop
  <2> QED BY <1>10, <2>1, <2>2, <2>3, <2>4 DEF L2Next, WorkerStep
<1>11. CASE UNCHANGED vars
  BY <1>11 DEF vars, dbVars, memVars, promised, Drop
<1> QED
  BY <1>1, <1>2, <1>3, <1>4, <1>5, <1>6, <1>7, <1>8, <1>9, <1>10, <1>11
  DEF Next, EnvNext

-----------------------------------------------------------------------------
(***************************************************************************)
(* Atoms and the marks on their source turns appear together, even with    *)
(* several processes on the database: persistBatch is one transaction.     *)
(***************************************************************************)
LEMMA SourcesStep ==
  ASSUME TypeOK, [Next]_vars, SourcesExtracted
  PROVE  SourcesExtracted'
<1>0. /\ extracted \in [Sessions -> SUBSET Times]
      /\ atoms \in [Sessions -> Seq(SUBSET Times)]
      /\ l1job \in [Daemons -> [Sessions -> [turns : SUBSET Times, warm : Nat]]]
  BY DEF TypeOK
<1>1. CASE UNCHANGED <<atoms, extracted>>
  BY <1>1 DEF SourcesExtracted
<1>2. ASSUME NEW d \in Daemons, NEW s \in Sessions, PersistL1(d, s)
      PROVE  SourcesExtracted'
  <2>1. ASSUME NEW r \in Sessions, NEW i \in 1..Len(atoms'[r])
        PROVE  atoms'[r][i] \subseteq extracted'[r]
    <3>1. CASE r # s \/ atoms' = atoms
      BY <1>0, <1>2, <2>1, <3>1 DEF PersistL1, SourcesExtracted
    <3>2. CASE r = s /\ atoms' = [atoms EXCEPT ![s] = Append(@, l1job[d][s].turns)]
      <4>1. atoms'[s] = Append(atoms[s], l1job[d][s].turns)
        BY <1>0, <3>2
      <4>2. extracted'[s] = extracted[s] \cup l1job[d][s].turns
        BY <1>0, <1>2 DEF PersistL1
      <4>3. l1job[d][s].turns \in SUBSET Times /\ atoms[s] \in Seq(SUBSET Times)
        BY <1>0
      <4>4. i \in 1..Len(atoms[s]) \/ i = Len(atoms[s]) + 1
        BY <2>1, <3>2, <4>1, <4>3
      <4>5. CASE i \in 1..Len(atoms[s])
        BY <3>2, <4>1, <4>2, <4>3, <4>5 DEF SourcesExtracted
      <4>6. CASE i = Len(atoms[s]) + 1
        BY <3>2, <4>1, <4>2, <4>3, <4>6
      <4> QED BY <4>4, <4>5, <4>6
    <3> QED BY <1>2, <3>1, <3>2 DEF PersistL1
  <2> QED BY <2>1 DEF SourcesExtracted
<1> QED
  BY <1>1, <1>2, StepKinds
  DEF WorkerStep, Drop, promised, Upload, PrepareL1, BeginL1, NoAtoms, BeginL2,
      PrepareL2, PersistL2

(***************************************************************************)
(* No atom has a source turn that a later batch would extract again, with  *)
(* any number of processes (prepareBatch and persistBatch).                *)
(***************************************************************************)
THEOREM SourcesAreExtracted == Spec => []SourcesExtracted
<1>1. Init => SourcesExtracted
  BY DEF Init, SourcesExtracted
<1> QED BY <1>1, TypeCorrect, SourcesStep, PTL DEF Spec

-----------------------------------------------------------------------------
(* What several processes keep of the promise rests on what their batches  *)
(* and builds hold, whoever else has extracted or built meanwhile: turns   *)
(* that were captured, and no more atoms than there are.                   *)
BatchOfTurns(d, s) ==
  l1job[d][s] # NoBatch =>
    l1job[d][s].turns # {} /\ l1job[d][s].turns \subseteq turns[s]

SeveralInv ==
  \A d \in Daemons, s \in Sessions :
    BatchOfTurns(d, s) /\ l2job[d][s] <= Len(atoms[s])

LEMMA SeveralInit == Init => SeveralInv
<1> SUFFICES ASSUME Init, NEW d \in Daemons, NEW s \in Sessions
             PROVE  BatchOfTurns(d, s) /\ l2job[d][s] <= Len(atoms[s])
  BY DEF SeveralInv
<1>1. l2job[d][s] = 0 /\ atoms[s] = <<>> /\ l1job[d][s] = NoBatch
  BY DEF Init
<1> QED BY <1>1 DEF BatchOfTurns

LEMMA SeveralStep == TypeOK /\ SeveralInv /\ [Next]_vars => SeveralInv'
<1> SUFFICES ASSUME TypeOK, SeveralInv, [Next]_vars PROVE SeveralInv'
  OBVIOUS
<1>0. /\ turns \in [Sessions -> SUBSET Times] /\ atoms \in [Sessions -> Seq(SUBSET Times)]
      /\ l1job \in [Daemons -> [Sessions -> [turns : SUBSET Times, warm : Nat]]]
      /\ l2job \in [Daemons -> [Sessions -> Nat]]
  BY DEF TypeOK
<1>1. CASE Drop
  <2>1. ASSUME NEW d \in Daemons, NEW s \in Sessions
        PROVE  BatchOfTurns(d, s)' /\ l2job'[d][s] <= Len(atoms'[s])
    <3>1. /\ l1job'[d][s] \in {NoBatch, l1job[d][s]} /\ l2job'[d][s] \in {0, l2job[d][s]}
          /\ turns' = turns /\ atoms' = atoms
      BY <1>1 DEF Drop, promised
    <3>2. BatchOfTurns(d, s)'
      BY <3>1 DEF SeveralInv, BatchOfTurns
    <3>3. Len(atoms[s]) \in Nat
      BY <1>0
    <3>4. l2job'[d][s] <= Len(atoms[s])
      BY <3>1, <3>3 DEF SeveralInv
    <3> QED BY <3>1, <3>2, <3>4
  <2> QED BY <2>1 DEF SeveralInv
<1>2. ASSUME NEW s \in Sessions, NEW t \in Times, Upload(s, t) PROVE SeveralInv'
  <2>1. \A r \in Sessions : turns[r] \subseteq turns'[r]
    BY <1>0, <1>2 DEF Upload
  <2>2. UNCHANGED <<atoms, l1job, l2job>>
    BY <1>2 DEF Upload, memVars
  <2> QED BY <2>1, <2>2 DEF SeveralInv, BatchOfTurns
<1>3. ASSUME NEW d \in Daemons, NEW s \in Sessions, PrepareL1(d, s) PROVE SeveralInv'
  <2>1. Batch(s) # {} /\ Batch(s) \subseteq turns[s]
    BY <1>3 DEF PrepareL1, Batch, Oldest
  <2>2. /\ l1job' = [l1job EXCEPT ![d][s] = [turns |-> Batch(s), warm |-> warm[s]]]
        /\ UNCHANGED <<turns, atoms, l2job>>
    BY <1>3 DEF PrepareL1, BeginL1, promised
  <2>3. ASSUME NEW e \in Daemons, NEW r \in Sessions PROVE BatchOfTurns(e, r)'
    <3>1. l1job'[e][r] = IF e = d /\ r = s THEN [turns |-> Batch(s), warm |-> warm[s]]
                         ELSE l1job[e][r]
      BY <1>0, <2>2
    <3> QED BY <2>1, <2>2, <3>1 DEF SeveralInv, BatchOfTurns
  <2> QED BY <2>2, <2>3 DEF SeveralInv
<1>4. ASSUME NEW d \in Daemons, NEW s \in Sessions, PersistL1(d, s) PROVE SeveralInv'
  <2>1. /\ l1job' = [l1job EXCEPT ![d][s] = NoBatch] /\ UNCHANGED <<turns, l2job>>
        /\ \/ atoms' = [atoms EXCEPT ![s] = Append(@, l1job[d][s].turns)]
           \/ atoms' = atoms
    BY <1>4 DEF PersistL1, EndL1
  <2>2. ASSUME NEW r \in Sessions PROVE Len(atoms'[r]) \in Nat /\ Len(atoms[r]) <= Len(atoms'[r])
    <3>1. atoms[r] \in Seq(SUBSET Times) /\ l1job[d][s].turns \in SUBSET Times
      BY <1>0
    <3>2. atoms'[r] \in {atoms[r], Append(atoms[r], l1job[d][s].turns)}
      BY <1>0, <2>1
    <3> QED BY <3>1, <3>2
  <2>3. ASSUME NEW e \in Daemons, NEW r \in Sessions
        PROVE  BatchOfTurns(e, r)' /\ l2job'[e][r] <= Len(atoms'[r])
    <3>1. l1job'[e][r] \in {NoBatch, l1job[e][r]}
      BY <1>0, <2>1
    <3>2. BatchOfTurns(e, r)'
      BY <2>1, <3>1 DEF SeveralInv, BatchOfTurns
    <3>3. l2job[e][r] \in Nat /\ l2job[e][r] <= Len(atoms[r]) /\ Len(atoms[r]) \in Nat
      BY <1>0 DEF SeveralInv
    <3> QED BY <2>1, <2>2, <3>2, <3>3
  <2> QED BY <2>3 DEF SeveralInv
<1>5. ASSUME NEW d \in Daemons, NEW s \in Sessions, NoAtoms(d, s) PROVE SeveralInv'
  <2>1. UNCHANGED <<turns, atoms, l1job, l2job>>
    BY <1>5 DEF NoAtoms, BeginL2, promised
  <2> QED BY <2>1 DEF SeveralInv, BatchOfTurns
<1>6. ASSUME NEW d \in Daemons, NEW s \in Sessions, PrepareL2(d, s) \/ PersistL2(d, s)
      PROVE  SeveralInv'
  <2>1. /\ UNCHANGED <<turns, atoms, l1job>>
        /\ \/ l2job' = [l2job EXCEPT ![d][s] = Len(atoms[s])]
           \/ l2job' = [l2job EXCEPT ![d][s] = 0]
    BY <1>6 DEF PrepareL2, BeginL2, PersistL2, EndL2, promised
  <2>2. ASSUME NEW e \in Daemons, NEW r \in Sessions
        PROVE  BatchOfTurns(e, r)' /\ l2job'[e][r] <= Len(atoms'[r])
    <3>1. BatchOfTurns(e, r)'
      BY <2>1 DEF SeveralInv, BatchOfTurns
    <3>2. l2job'[e][r] \in {0, Len(atoms[r]), l2job[e][r]}
      <4>1. CASE e = d /\ r = s
        BY <1>0, <2>1, <4>1
      <4>2. CASE ~(e = d /\ r = s)
        BY <1>0, <2>1, <4>2
      <4> QED BY <4>1, <4>2
    <3>3. Len(atoms[r]) \in Nat
      BY <1>0
    <3>4. l2job[e][r] <= Len(atoms[r])
      BY DEF SeveralInv
    <3> QED BY <2>1, <3>1, <3>2, <3>3, <3>4
  <2> QED BY <2>2 DEF SeveralInv
<1> QED BY <1>1, <1>2, <1>3, <1>4, <1>5, <1>6, StepKinds DEF WorkerStep

(* Its steps as those of the weaker promise. *)
LEMMA SharedPromiseStep ==
  TypeOK /\ SeveralInv /\ [Next]_vars => [Promise!SharedNext]_(Promise!promiseVars)
<1> SUFFICES ASSUME TypeOK, SeveralInv, [Next]_vars
             PROVE  [Promise!SharedNext]_(Promise!promiseVars)
  OBVIOUS
<1> USE DEF Promise!promiseVars
<1>1. CASE Drop
  BY <1>1 DEF Drop, promised
<1>2. ASSUME NEW s \in Sessions, NEW t \in Times, Upload(s, t) PROVE Promise!Capture(s)
  BY <1>2 DEF Upload, Promise!Capture
<1>3. ASSUME NEW d \in Daemons, NEW s \in Sessions,
             PrepareL1(d, s) \/ NoAtoms(d, s) \/ PrepareL2(d, s)
      PROVE  UNCHANGED Promise!promiseVars
  BY <1>3 DEF PrepareL1, BeginL1, NoAtoms, PrepareL2, BeginL2, promised
<1>4. ASSUME NEW d \in Daemons, NEW s \in Sessions, PersistL1(d, s)
      PROVE  Promise!ExtractAgain(s)
  <2>1. l1job[d][s].turns \in SUBSET turns[s] /\ l1job[d][s].turns # {}
    BY <1>4 DEF PersistL1, EndL1, SeveralInv, BatchOfTurns
  <2> QED BY <1>4, <2>1 DEF PersistL1, Promise!ExtractAgain
<1>5. ASSUME NEW d \in Daemons, NEW s \in Sessions, PersistL2(d, s)
      PROVE  Promise!BuildOlder(s)
  <2>1. /\ l2job[d][s] # 0 /\ l2job[d][s] \in Nat
        /\ l2job[d][s] <= Len(atoms[s]) /\ Len(atoms[s]) \in Nat
    BY <1>5 DEF PersistL2, EndL2, SeveralInv, TypeOK
  <2>2. l2job[d][s] \in 1..Len(atoms[s])
    BY <2>1
  <2> QED BY <1>5, <2>2 DEF PersistL2, Promise!BuildOlder, Recent, Promise!Recent
<1> QED BY <1>1, <1>2, <1>3, <1>4, <1>5, StepKinds DEF WorkerStep, Promise!SharedNext

(***************************************************************************)
(* Any number of processes on one database lose, tear or invent nothing:   *)
(* they implement what Distill promises of several.                        *)
(***************************************************************************)
THEOREM ImplementsShared == Spec => KeepsShared
<1>1. Init => Promise!PromiseInit
  BY DEF Init, Promise!PromiseInit
<1> QED BY <1>1, SeveralInit, SeveralStep, SharedPromiseStep, TypeCorrect, PTL
        DEF Spec, KeepsShared, Promise!SharedSpec

-----------------------------------------------------------------------------
(* There is at most one process: what rmbd's session mutex relies on. *)
OneDaemon == \A d, e \in Daemons : d = e

(* The two workers of a process are never both at work on a session. *)
Exclusion ==
  \A d \in Daemons, s \in Sessions : l1job[d][s] = NoBatch \/ l2job[d][s] = 0

(* A batch in flight is made of turns that are still to be extracted. *)
BatchesFresh ==
  \A d \in Daemons, s \in Sessions :
    /\ l1job[d][s].turns \subseteq turns[s] \ extracted[s]
    /\ l1job[d][s] # NoBatch => l1job[d][s].turns # {}

(* A build in flight has loaded all the atoms there are. *)
BuildsCurrent ==
  \A d \in Daemons, s \in Sessions :
    l2job[d][s] # 0 => l2job[d][s] = Len(atoms[s])

(* Scenes are built from atoms that exist. *)
ScenesInRange ==
  \A s \in Sessions : scenes[s] \subseteq 1..Len(atoms[s])

IInv ==
  /\ TypeOK
  /\ SourcesExtracted
  /\ OncePerTurn
  /\ ScenesCoverAtoms
  /\ ScenesInRange
  /\ Exclusion
  /\ BatchesFresh
  /\ BuildsCurrent

LEMMA RecentInRange == ASSUME NEW n \in Nat PROVE Recent(n) \subseteq 1..n
BY DEF Recent

LEMMA IInvInit == Init => IInv
<1> SUFFICES ASSUME Init PROVE IInv
  OBVIOUS
<1>1. TypeOK
  BY TypeInit
<1>2. \A s \in Sessions : Recent(Len(atoms[s])) = {}
  <2>1. Recent(0) = {}
    BY DEF Recent
  <2> QED BY <2>1 DEF Init
<1>3. ScenesCoverAtoms
  BY <1>2 DEF Init, ScenesCoverAtoms
<1>4. SourcesExtracted /\ OncePerTurn /\ ScenesInRange
  BY DEF Init, SourcesExtracted, OncePerTurn, ScenesInRange
<1>5. Exclusion /\ BatchesFresh /\ BuildsCurrent
  BY DEF Init, Exclusion, BatchesFresh, BuildsCurrent, NoBatch
<1> QED BY <1>1, <1>3, <1>4, <1>5 DEF IInv

LEMMA DropStep == ASSUME IInv, Drop PROVE
  /\ OncePerTurn' /\ ScenesCoverAtoms' /\ ScenesInRange'
  /\ Exclusion' /\ BatchesFresh' /\ BuildsCurrent'
<1>1. UNCHANGED <<turns, extracted, atoms, scenes>>
  BY DEF Drop, promised
<1>2. OncePerTurn' /\ ScenesCoverAtoms' /\ ScenesInRange'
  BY <1>1 DEF IInv, Drop, OncePerTurn, ScenesCoverAtoms, ScenesInRange, Recent
<1>3. Exclusion' /\ BuildsCurrent'
  BY <1>1 DEF IInv, Drop, Exclusion, BuildsCurrent
<1>4. BatchesFresh'
  <2>1. NoBatch.turns = {}
    BY DEF NoBatch
  <2>2. ASSUME NEW d \in Daemons, NEW s \in Sessions
        PROVE  /\ l1job'[d][s].turns \subseteq turns'[s] \ extracted'[s]
               /\ l1job'[d][s] # NoBatch => l1job'[d][s].turns # {}
    <3>1. l1job'[d][s] = NoBatch \/ l1job'[d][s] = l1job[d][s]
      BY DEF Drop
    <3> QED BY <1>1, <2>1, <3>1 DEF IInv, BatchesFresh
  <2> QED BY <2>2, <1>1 DEF BatchesFresh, NoBatch
<1> QED BY <1>2, <1>3, <1>4

LEMMA UploadStep ==
  ASSUME IInv, NEW s \in Sessions, NEW t \in Times, Upload(s, t) PROVE
  /\ OncePerTurn' /\ ScenesCoverAtoms' /\ ScenesInRange'
  /\ Exclusion' /\ BatchesFresh' /\ BuildsCurrent'
<1>1. UNCHANGED <<extracted, atoms, scenes, l2, l1job, l2job>>
  BY DEF Upload, memVars
<1>2. \A r \in Sessions : turns[r] \subseteq turns'[r]
  BY DEF Upload, IInv, TypeOK
<1>3. OncePerTurn' /\ ScenesCoverAtoms' /\ ScenesInRange'
  BY <1>1 DEF IInv, OncePerTurn, ScenesCoverAtoms, ScenesInRange, Recent
<1>4. Exclusion' /\ BuildsCurrent'
  BY <1>1 DEF IInv, Exclusion, BuildsCurrent
<1>5. BatchesFresh'
  BY <1>1, <1>2 DEF IInv, BatchesFresh, NoBatch
<1> QED BY <1>3, <1>4, <1>5

(* The worker with the mutex of a session: nothing is in flight on it. *)
LEMMA PrepareStep ==
  ASSUME IInv, OneDaemon, NEW d \in Daemons, NEW s \in Sessions,
         PrepareL1(d, s) \/ NoAtoms(d, s) \/ PrepareL2(d, s)
  PROVE
  /\ OncePerTurn' /\ ScenesCoverAtoms' /\ ScenesInRange'
  /\ Exclusion' /\ BatchesFresh' /\ BuildsCurrent'
<1>0. /\ l2 \in [Sessions -> Status]
      /\ atoms \in [Sessions -> Seq(SUBSET Times)]
      /\ l1job \in [Daemons -> [Sessions -> [turns : SUBSET Times, warm : Nat]]]
      /\ l2job \in [Daemons -> [Sessions -> Nat]]
  BY DEF IInv, TypeOK
<1>1. UNCHANGED <<turns, extracted, atoms, scenes>>
  BY DEF PrepareL1, BeginL1, NoAtoms, PrepareL2, BeginL2, promised
<1>2. OncePerTurn' /\ ScenesInRange'
  BY <1>1 DEF IInv, OncePerTurn, ScenesInRange
<1>3. l1job[d][s] = NoBatch /\ l2job[d][s] = 0
  BY DEF PrepareL1, BeginL1, NoAtoms, PrepareL2, BeginL2, LockFree
<1>4. CASE PrepareL1(d, s)
  <2>1. /\ UNCHANGED <<l2, l2job>>
        /\ l1job' = [l1job EXCEPT ![d][s] = [turns |-> Batch(s), warm |-> warm[s]]]
        /\ Batch(s) # {}
    BY <1>4 DEF PrepareL1, BeginL1
  <2>2. ScenesCoverAtoms' /\ BuildsCurrent'
    BY <1>1, <2>1 DEF IInv, ScenesCoverAtoms, BuildsCurrent, Recent
  <2>3. Exclusion'
    BY <1>0, <1>3, <2>1, OneDaemon DEF IInv, Exclusion, OneDaemon
  <2>4. BatchesFresh'
    <3>1. ASSUME NEW e \in Daemons, NEW r \in Sessions
          PROVE  /\ l1job'[e][r].turns \subseteq turns'[r] \ extracted'[r]
                 /\ l1job'[e][r] # NoBatch => l1job'[e][r].turns # {}
      <4>1. CASE e = d /\ r = s
        <5>1. l1job'[e][r].turns = Batch(s)
          BY <1>0, <2>1, <4>1
        <5> QED BY <1>1, <2>1, <4>1, <5>1, BatchFresh
      <4>2. CASE ~(e = d /\ r = s)
        <5>1. l1job'[e][r] = l1job[e][r]
          BY <1>0, <2>1, <4>2
        <5> QED BY <1>1, <5>1 DEF IInv, BatchesFresh
      <4> QED BY <4>1, <4>2
    <3> QED BY <3>1 DEF BatchesFresh, NoBatch
  <2> QED BY <1>2, <2>2, <2>3, <2>4
<1>5. CASE NoAtoms(d, s)
  <2>1. /\ UNCHANGED <<l1job, l2job>>
        /\ atoms[s] = <<>>
        /\ l2' = [l2 EXCEPT ![s] = "idle"]
    BY <1>5 DEF NoAtoms, BeginL2
  <2>2. scenes[s] = {} /\ Recent(Len(atoms[s])) = {}
    BY <2>1, RecentInRange DEF IInv, ScenesInRange
  <2>3. ScenesCoverAtoms'
    BY <1>0, <1>1, <2>1, <2>2 DEF IInv, ScenesCoverAtoms, Recent
  <2>4. Exclusion' /\ BatchesFresh' /\ BuildsCurrent'
    BY <1>1, <2>1 DEF IInv, Exclusion, BatchesFresh, BuildsCurrent, NoBatch
  <2> QED BY <1>2, <2>3, <2>4
<1>6. CASE PrepareL2(d, s)
  <2>1. /\ UNCHANGED l1job
        /\ l2' = [l2 EXCEPT ![s] = "running"]
        /\ l2job' = [l2job EXCEPT ![d][s] = Len(atoms[s])]
    BY <1>6 DEF PrepareL2, BeginL2
  <2>2. ScenesCoverAtoms'
    BY <1>0, <1>1, <2>1 DEF IInv, ScenesCoverAtoms, Recent
  <2>3. Exclusion'
    BY <1>0, <1>3, <2>1, OneDaemon DEF IInv, Exclusion, OneDaemon
  <2>4. BatchesFresh'
    BY <1>1, <2>1 DEF IInv, BatchesFresh, NoBatch
  <2>5. BuildsCurrent'
    BY <1>0, <1>1, <2>1 DEF IInv, BuildsCurrent
  <2> QED BY <1>2, <2>2, <2>3, <2>4, <2>5
<1> QED BY <1>4, <1>5, <1>6

LEMMA PersistL1Step ==
  ASSUME IInv, OneDaemon, NEW d \in Daemons, NEW s \in Sessions, PersistL1(d, s)
  PROVE
  /\ OncePerTurn' /\ ScenesCoverAtoms' /\ ScenesInRange'
  /\ Exclusion' /\ BatchesFresh' /\ BuildsCurrent'
<1> DEFINE batch == l1job[d][s].turns
<1>0. /\ l2 \in [Sessions -> Status]
      /\ extracted \in [Sessions -> SUBSET Times]
      /\ atoms \in [Sessions -> Seq(SUBSET Times)]
      /\ l1job \in [Daemons -> [Sessions -> [turns : SUBSET Times, warm : Nat]]]
      /\ l2job \in [Daemons -> [Sessions -> Nat]]
  BY DEF IInv, TypeOK
<1>1. /\ UNCHANGED <<turns, scenes, l2job>>
      /\ extracted' = [extracted EXCEPT ![s] = @ \cup batch]
      /\ l2' = [l2 EXCEPT ![s] = "pending"]
      /\ l1job[d][s] # NoBatch
      /\ l1job' = [l1job EXCEPT ![d][s] = NoBatch]
      /\ \/ atoms' = [atoms EXCEPT ![s] = Append(@, batch)]
         \/ UNCHANGED atoms
  BY DEF PersistL1, EndL1
<1>2. batch \in SUBSET Times /\ batch \cap extracted[s] = {}
  BY <1>0 DEF IInv, BatchesFresh
<1>3. /\ \A r \in Sessions : r # s => atoms'[r] = atoms[r]
      /\ atoms'[s] = atoms[s] \/ atoms'[s] = Append(atoms[s], batch)
  BY <1>0, <1>1
<1>4. OncePerTurn'
  <2>1. ASSUME NEW r \in Sessions,
               NEW i \in 1..Len(atoms'[r]), NEW j \in 1..Len(atoms'[r]), i # j
        PROVE  atoms'[r][i] \cap atoms'[r][j] = {}
    <3>1. CASE atoms'[r] = atoms[r]
      BY <2>1, <3>1 DEF IInv, OncePerTurn
    <3>2. CASE r = s /\ atoms'[s] = Append(atoms[s], batch)
      <4>1. \A k \in 1..Len(atoms[s]) :
              atoms'[s][k] = atoms[s][k] /\ atoms[s][k] \cap batch = {}
        BY <1>0, <1>2, <3>2 DEF IInv, SourcesExtracted
      <4>2. atoms'[s][Len(atoms[s]) + 1] = batch
        BY <1>0, <1>2, <3>2
      <4>3. /\ i \in 1..Len(atoms[s]) \/ i = Len(atoms[s]) + 1
            /\ j \in 1..Len(atoms[s]) \/ j = Len(atoms[s]) + 1
        BY <1>0, <1>2, <2>1, <3>2
      <4> QED BY <2>1, <3>2, <4>1, <4>2, <4>3 DEF IInv, OncePerTurn
    <3> QED BY <1>3, <3>1, <3>2
  <2> QED BY <2>1 DEF OncePerTurn
<1>5. ScenesCoverAtoms'
  BY <1>0, <1>1, <1>3 DEF IInv, ScenesCoverAtoms, Recent
<1>6. ScenesInRange'
  <2>1. \A r \in Sessions : 1..Len(atoms[r]) \subseteq 1..Len(atoms'[r])
    <3>1. ASSUME NEW r \in Sessions
          PROVE  Len(atoms'[r]) \in {Len(atoms[r]), Len(atoms[r]) + 1}
      <4>1. atoms[r] \in Seq(SUBSET Times)
        BY <1>0
      <4>2. Len(Append(atoms[r], batch)) = Len(atoms[r]) + 1
        BY <1>2, <4>1
      <4> QED BY <1>3, <4>2
    <3> QED BY <1>0, <3>1
  <2> QED BY <1>1, <2>1 DEF IInv, ScenesInRange
<1>7. Exclusion'
  BY <1>0, <1>1 DEF IInv, Exclusion
<1>8. BatchesFresh'
  <2>1. NoBatch.turns = {}
    BY DEF NoBatch
  <2>2. ASSUME NEW e \in Daemons, NEW r \in Sessions
        PROVE  /\ l1job'[e][r].turns \subseteq turns'[r] \ extracted'[r]
               /\ l1job'[e][r] # NoBatch => l1job'[e][r].turns # {}
    <3>1. CASE r = s
      <4>1. l1job'[e][r] = NoBatch
        BY <1>0, <1>1, <3>1, OneDaemon DEF OneDaemon
      <4> QED BY <2>1, <4>1
    <3>2. CASE r # s
      <4>1. l1job'[e][r] = l1job[e][r] /\ extracted'[r] = extracted[r]
        BY <1>0, <1>1, <3>2
      <4> QED BY <1>1, <4>1 DEF IInv, BatchesFresh
    <3> QED BY <3>1, <3>2
  <2> QED BY <2>2 DEF BatchesFresh, NoBatch
<1>9. BuildsCurrent'
  <2>1. \A e \in Daemons : l2job[e][s] = 0
    BY <1>1, OneDaemon DEF IInv, Exclusion, OneDaemon
  <2> QED BY <1>1, <1>3, <2>1 DEF IInv, BuildsCurrent
<1> QED BY <1>4, <1>5, <1>6, <1>7, <1>8, <1>9

LEMMA PersistL2Step ==
  ASSUME IInv, OneDaemon, NEW d \in Daemons, NEW s \in Sessions, PersistL2(d, s)
  PROVE
  /\ OncePerTurn' /\ ScenesCoverAtoms' /\ ScenesInRange'
  /\ Exclusion' /\ BatchesFresh' /\ BuildsCurrent'
<1>0. /\ l2 \in [Sessions -> Status]
      /\ scenes \in [Sessions -> SUBSET (Nat \ {0})]
      /\ atoms \in [Sessions -> Seq(SUBSET Times)]
      /\ l2job \in [Daemons -> [Sessions -> Nat]]
  BY DEF IInv, TypeOK
<1>1. /\ UNCHANGED <<turns, extracted, atoms, l1job>>
      /\ scenes' = [scenes EXCEPT ![s] = Recent(l2job[d][s])]
      /\ l2' = [l2 EXCEPT ![s] = "idle"]
      /\ l2job[d][s] # 0
      /\ l2job' = [l2job EXCEPT ![d][s] = 0]
  BY DEF PersistL2, EndL2
<1>2. l2job[d][s] = Len(atoms[s])
  BY <1>1 DEF IInv, BuildsCurrent
<1>3. OncePerTurn'
  BY <1>1 DEF IInv, OncePerTurn
<1>4. ScenesCoverAtoms'
  BY <1>0, <1>1, <1>2 DEF IInv, ScenesCoverAtoms, Recent
<1>5. ScenesInRange'
  BY <1>0, <1>1, <1>2, RecentInRange DEF IInv, ScenesInRange
<1>6. Exclusion' /\ BuildsCurrent'
  BY <1>0, <1>1 DEF IInv, Exclusion, BuildsCurrent
<1>7. BatchesFresh'
  BY <1>1 DEF IInv, BatchesFresh, NoBatch
<1> QED BY <1>3, <1>4, <1>5, <1>6, <1>7

LEMMA IInvStep == ASSUME OneDaemon PROVE IInv /\ [Next]_vars => IInv'
<1> SUFFICES ASSUME IInv, [Next]_vars PROVE IInv'
  OBVIOUS
<1>1. TypeOK /\ TypeOK' /\ SourcesExtracted'
  BY TypeStep, SourcesStep DEF IInv
<1>2. /\ OncePerTurn' /\ ScenesCoverAtoms' /\ ScenesInRange'
      /\ Exclusion' /\ BatchesFresh' /\ BuildsCurrent'
  <2>1. CASE Drop
    BY <2>1, DropStep
  <2>2. ASSUME NEW s \in Sessions, NEW t \in Times, Upload(s, t) PROVE <1>2!:
    BY <2>2, UploadStep
  <2>3. ASSUME NEW d \in Daemons, NEW s \in Sessions, WorkerStep(d, s) PROVE <1>2!:
    BY <2>3, OneDaemon, PrepareStep, PersistL1Step, PersistL2Step DEF WorkerStep
  <2> QED BY <1>1, <2>1, <2>2, <2>3, StepKinds
<1> QED BY <1>1, <1>2 DEF IInv

(* With one process on the database the inductive invariant always holds. *)
THEOREM Invariance == ASSUME OneDaemon PROVE Spec => []IInv
<1>1. IInv /\ [Next]_vars => IInv'
  BY IInvStep
<1> QED BY IInvInit, <1>1, PTL DEF Spec

(***************************************************************************)
(* No turn is the source of atoms of two extractions, as long as a single  *)
(* process works on the database.  (prepareBatch, persistBatch, the mutex) *)
(***************************************************************************)
THEOREM ExtractedOnce == ASSUME OneDaemon PROVE Spec => []OncePerTurn
<1>1. IInv => OncePerTurn
  BY DEF IInv
<1> QED BY Invariance, <1>1, PTL

(***************************************************************************)
(* A session whose L2 stage rests has scenes built from all its evidence:  *)
(* persistBatch queues L2 in the transaction that inserts atoms, and no    *)
(* build that loaded fewer atoms can finish after it.                      *)
(***************************************************************************)
THEOREM ScenesComplete == ASSUME OneDaemon PROVE Spec => []ScenesCoverAtoms
<1>1. IInv => ScenesCoverAtoms
  BY DEF IInv
<1> QED BY Invariance, <1>1, PTL

(***************************************************************************)
(* persistScenes never replaces scenes by ones built from stale evidence.  *)
(***************************************************************************)
THEOREM NeverStale == ASSUME OneDaemon PROVE Spec => ScenesNeverStale
<1>1. IInv /\ [Next]_vars =>
        [\A s \in Sessions :
           scenes'[s] # scenes[s] => scenes'[s] = Recent(Len(atoms[s]))]_vars
  <2> SUFFICES ASSUME IInv, [Next]_vars, NEW s \in Sessions,
                      scenes'[s] # scenes[s]
               PROVE  scenes'[s] = Recent(Len(atoms[s]))
    OBVIOUS
  <2>1. \E d \in Daemons, r \in Sessions : PersistL2(d, r)
    BY StepKinds
    DEF IInv, WorkerStep, Drop, promised, Upload, PrepareL1, BeginL1,
        PersistL1, NoAtoms, BeginL2, PrepareL2
  <2>2. PICK d \in Daemons, r \in Sessions : PersistL2(d, r)
    BY <2>1
  <2>3. scenes' = [scenes EXCEPT ![r] = Recent(l2job[d][r])] /\ l2job[d][r] # 0
    BY <2>2 DEF PersistL2, EndL2
  <2> QED BY <2>3 DEF IInv, TypeOK, BuildsCurrent
<1> QED BY Invariance, <1>1, PTL DEF Spec, ScenesNeverStale

-----------------------------------------------------------------------------
(***************************************************************************)
(* The pipeline implements the promise of module Distill: uploads capture, *)
(* L1's persist extracts fresh turns, L2's persist builds from all atoms,  *)
(* and every other step (selection, failure, retry, crash, restart, status *)
(* change) is invisible.                                                   *)
(***************************************************************************)
LEMMA StepRefines ==
  ASSUME IInv, OneDaemon, [Next]_vars
  PROVE  [Promise!PromiseNext]_Promise!promiseVars
<1> USE DEF Promise!promiseVars
<1>0. /\ turns \in [Sessions -> SUBSET Times]
      /\ extracted \in [Sessions -> SUBSET Times]
      /\ atoms \in [Sessions -> Seq(SUBSET Times)]
      /\ l1job \in [Daemons -> [Sessions -> [turns : SUBSET Times, warm : Nat]]]
  BY DEF IInv, TypeOK
<1>1. CASE Drop
  BY <1>1 DEF Drop, promised
<1>2. ASSUME NEW s \in Sessions, NEW t \in Times, Upload(s, t)
      PROVE  Promise!Capture(s)
  BY <1>2 DEF Upload, Promise!Capture
<1>3. ASSUME NEW d \in Daemons, NEW s \in Sessions,
             PrepareL1(d, s) \/ NoAtoms(d, s) \/ PrepareL2(d, s)
      PROVE  UNCHANGED Promise!promiseVars
  BY <1>3 DEF PrepareL1, BeginL1, NoAtoms, PrepareL2, BeginL2, promised
<1>4. ASSUME NEW d \in Daemons, NEW s \in Sessions, PersistL1(d, s)
      PROVE  Promise!Extract(s)
  <2>1. /\ l1job[d][s].turns \in SUBSET (turns[s] \ extracted[s])
        /\ l1job[d][s].turns # {}
    BY <1>4 DEF PersistL1, EndL1, IInv, BatchesFresh
  <2> QED BY <1>4, <2>1 DEF PersistL1, Promise!Extract
<1>5. ASSUME NEW d \in Daemons, NEW s \in Sessions, PersistL2(d, s)
      PROVE  Promise!Build(s)
  <2>1. l2job[d][s] = Len(atoms[s])
    BY <1>5 DEF PersistL2, EndL2, IInv, BuildsCurrent
  <2> QED BY <1>5, <2>1 DEF PersistL2, Promise!Build, Recent, Promise!Recent
<1> QED
  BY <1>1, <1>2, <1>3, <1>4, <1>5, StepKinds
  DEF IInv, WorkerStep, Promise!PromiseNext

(* The workers, their batches, crashes and operators implement Distill:    *)
(* each step captures, extracts once or rebuilds from the newest atoms, or *)
(* changes nothing of what was promised.                                   *)
THEOREM Implements == ASSUME OneDaemon PROVE Spec => KeepsPromise
<1>1. Init => Promise!PromiseInit
  BY DEF Init, Promise!PromiseInit
<1>2. IInv /\ [Next]_vars => [Promise!PromiseNext]_Promise!promiseVars
  BY StepRefines
<1> QED
  BY <1>1, <1>2, Invariance, PTL DEF Spec, KeepsPromise, Promise!PromiseSpec

-----------------------------------------------------------------------------
(* How the L1 and the L2 worker share their calls: module Scheduler, whose *)
(* faults are misses here, next to those of Pipeline.                      *)
CONSTANTS Settings, MaxArrivals

VARIABLES worker, queue, work, phase, todo, busy, limit, pressure, arrivals, misses

Shared == INSTANCE Scheduler WITH faults <- misses

(* No element of the list is in it twice. *)
Once(seq) == \A i \in DOMAIN seq : \A j \in DOMAIN seq : seq[i] = seq[j] => i = j

(* The set of a list is what stands at one of its places. *)
LEMMA InSet ==
  ASSUME NEW S, NEW seq \in Seq(S), NEW e
  PROVE  e \in Shared!ToSet(seq) <=> \E i \in 1..Len(seq) : seq[i] = e
<1>1. DOMAIN seq = 1..Len(seq)
  OBVIOUS
<1> QED BY <1>1 DEF Shared!ToSet

(* A place taken out of a list without repetitions: its element is gone. *)
LEMMA TakenOut ==
  ASSUME NEW S, NEW seq \in Seq(S), NEW k \in 1..Len(seq)
  PROVE  LET r == Shared!RemoveAt(seq, k) IN
         /\ r \in Seq(S) /\ Len(r) = Len(seq) - 1
         /\ Once(seq) => Once(r) /\ Shared!ToSet(r) = Shared!ToSet(seq) \ {seq[k]}
<1> DEFINE p == SubSeq(seq, 1, k - 1)
           q == SubSeq(seq, k + 1, Len(seq))
           r == p \o q
           n == Len(seq)
<1>1. n \in Nat /\ k \in 1..n /\ \A i \in 1..n : seq[i] \in S
  BY LenProperties, ElementOfSeq
<1>2. p \in Seq(S) /\ Len(p) = k - 1 /\ \A i \in 1..(k - 1) : p[i] = seq[i]
  <2>1. \A i \in 1..(k - 1) : seq[i] \in S
    BY <1>1
  <2>2. 1 \in Int /\ k - 1 \in Int
    BY <1>1
  <2>3. /\ p \in Seq(S) /\ Len(p) = IF 1 <= k - 1 THEN (k - 1) - 1 + 1 ELSE 0
        /\ \A i \in 1 .. (k - 1) - 1 + 1 : p[i] = seq[1 + i - 1]
    BY <2>1, <2>2, SubSeqProperties
  <2> HIDE DEF p
  <2>4. \A i \in 1..(k - 1) : 1 + i - 1 = i /\ i \in 1 .. (k - 1) - 1 + 1
    BY <1>1
  <2> QED BY <1>1, <2>3, <2>4
<1>3. q \in Seq(S) /\ Len(q) = n - k /\ \A i \in 1..(n - k) : q[i] = seq[k + i]
  <2>1. \A i \in (k + 1)..n : seq[i] \in S
    BY <1>1
  <2>2. k + 1 \in Int /\ n \in Int
    BY <1>1
  <2>3. /\ q \in Seq(S) /\ Len(q) = IF k + 1 <= n THEN n - (k + 1) + 1 ELSE 0
        /\ \A i \in 1 .. n - (k + 1) + 1 : q[i] = seq[(k + 1) + i - 1]
    BY <2>1, <2>2, SubSeqProperties
  <2> HIDE DEF q
  <2>4. \A i \in 1..(n - k) : (k + 1) + i - 1 = k + i /\ i \in 1 .. n - (k + 1) + 1
    BY <1>1
  <2> QED BY <1>1, <2>3, <2>4
<1> HIDE DEF p, q
<1>4. /\ r \in Seq(S) /\ Len(r) = n - 1
      /\ \A i \in 1..(n - 1) : r[i] = IF i < k THEN seq[i] ELSE seq[i + 1]
  <2>1. /\ r \in Seq(S) /\ Len(r) = Len(p) + Len(q)
        /\ \A i \in 1 .. Len(p) + Len(q) : r[i] = IF i <= Len(p) THEN p[i] ELSE q[i - Len(p)]
    BY <1>2, <1>3, ConcatProperties
  <2> HIDE DEF r
  <2>2. Len(p) + Len(q) = n - 1
    BY <1>1, <1>2, <1>3
  <2>3. ASSUME NEW i \in 1..(n - 1) PROVE r[i] = IF i < k THEN seq[i] ELSE seq[i + 1]
    <3>1. CASE i < k
      <4>1. i \in 1..(k - 1) /\ i <= Len(p) /\ i \in 1 .. Len(p) + Len(q)
        BY <1>1, <1>2, <2>2, <3>1
      <4>2. r[i] = p[i]
        BY <2>1, <4>1
      <4> QED BY <1>2, <3>1, <4>1, <4>2
    <3>2. CASE ~(i < k)
      <4>1. i - Len(p) = i - k + 1 /\ i - k + 1 \in 1..(n - k) /\ k + (i - k + 1) = i + 1
        BY <1>1, <1>2, <3>2
      <4>2. r[i] = q[i - k + 1]
        BY <1>1, <1>2, <2>1, <2>2, <3>2, <4>1
      <4> QED BY <1>3, <3>2, <4>1, <4>2
    <3> QED BY <3>1, <3>2
  <2> QED BY <2>1, <2>2, <2>3
<1> HIDE DEF r
<1>5. ASSUME Once(seq) PROVE Once(r) /\ Shared!ToSet(r) = Shared!ToSet(seq) \ {seq[k]}
  <2>1. \A i \in 1..n : \A j \in 1..n : seq[i] = seq[j] => i = j
    BY <1>5 DEF Once
  <2>2. Once(r)
    <3> SUFFICES ASSUME NEW i \in 1..(n - 1), NEW j \in 1..(n - 1), r[i] = r[j] PROVE i = j
      BY <1>4 DEF Once
    <3> DEFINE x == IF i < k THEN i ELSE i + 1
               y == IF j < k THEN j ELSE j + 1
    <3>1. x \in 1..n /\ y \in 1..n /\ seq[x] = seq[y]
      BY <1>1, <1>4
    <3>2. x = y
      BY <2>1, <3>1
    <3> QED BY <1>1, <3>2
  <2>3. ASSUME NEW e \in Shared!ToSet(r) PROVE e \in Shared!ToSet(seq) /\ e # seq[k]
    <3>1. PICK i \in 1..(n - 1) : r[i] = e
      BY <1>4, <2>3, InSet
    <3> DEFINE x == IF i < k THEN i ELSE i + 1
    <3>2. x \in 1..n /\ x # k /\ seq[x] = e
      BY <1>1, <1>4, <3>1
    <3> QED BY <1>1, <2>1, <3>2, InSet
  <2>4. ASSUME NEW e \in Shared!ToSet(seq), e # seq[k] PROVE e \in Shared!ToSet(r)
    <3>1. PICK i \in 1..n : seq[i] = e
      BY <2>4, InSet
    <3> DEFINE x == IF i < k THEN i ELSE i - 1
    <3>2. i # k
      BY <2>4, <3>1
    <3>3. x \in 1..(n - 1) /\ r[x] = seq[i]
      BY <1>1, <1>4, <3>2
    <3> QED BY <1>4, <3>1, <3>3, InSet
  <2> QED BY <2>2, <2>3, <2>4
<1> QED BY <1>4, <1>5 DEF r, p, q, Shared!RemoveAt

(* An element put into a list that does not have it. *)
LEMMA PutIn ==
  ASSUME NEW S, NEW seq \in Seq(S), NEW e \in S, NEW k \in 1..(Len(seq) + 1)
  PROVE  LET r == Shared!InsertAt(seq, k, e) IN
         /\ r \in Seq(S) /\ Shared!ToSet(r) = Shared!ToSet(seq) \cup {e}
         /\ Once(seq) /\ e \notin Shared!ToSet(seq) => Once(r)
<1> DEFINE p == SubSeq(seq, 1, k - 1)
           q == SubSeq(seq, k, Len(seq))
           n == Len(seq)
           one == <<e>>
           pe == p \o one
           r == pe \o q
<1>1. n \in Nat /\ k \in 1..(n + 1) /\ \A i \in 1..n : seq[i] \in S
  BY LenProperties, ElementOfSeq
<1>2. p \in Seq(S) /\ Len(p) = k - 1 /\ \A i \in 1..(k - 1) : p[i] = seq[i]
  <2>1. \A i \in 1..(k - 1) : seq[i] \in S
    BY <1>1
  <2>2. 1 \in Int /\ k - 1 \in Int
    BY <1>1
  <2>3. /\ p \in Seq(S) /\ Len(p) = IF 1 <= k - 1 THEN (k - 1) - 1 + 1 ELSE 0
        /\ \A i \in 1 .. (k - 1) - 1 + 1 : p[i] = seq[1 + i - 1]
    BY <2>1, <2>2, SubSeqProperties
  <2> HIDE DEF p
  <2>4. \A i \in 1..(k - 1) : 1 + i - 1 = i /\ i \in 1 .. (k - 1) - 1 + 1
    BY <1>1
  <2> QED BY <1>1, <2>3, <2>4
<1>3. q \in Seq(S) /\ Len(q) = n - k + 1 /\ \A i \in 1..(n - k + 1) : q[i] = seq[k + i - 1]
  <2>1. \A i \in k..n : seq[i] \in S
    BY <1>1
  <2>2. k \in Int /\ n \in Int
    BY <1>1
  <2>3. /\ q \in Seq(S) /\ Len(q) = IF k <= n THEN n - k + 1 ELSE 0
        /\ \A i \in 1 .. n - k + 1 : q[i] = seq[k + i - 1]
    BY <2>1, <2>2, SubSeqProperties
  <2> HIDE DEF q
  <2> QED BY <1>1, <2>3
<1>4. one \in Seq(S) /\ Len(one) = 1 /\ one[1] = e
  OBVIOUS
<1> HIDE DEF p, q, one
<1>5. /\ pe \in Seq(S) /\ Len(pe) = k /\ pe[k] = e
      /\ \A i \in 1..(k - 1) : pe[i] = seq[i]
  <2>1. /\ pe \in Seq(S) /\ Len(pe) = Len(p) + Len(one)
        /\ \A i \in 1 .. Len(p) + Len(one) : pe[i] = IF i <= Len(p) THEN p[i] ELSE one[i - Len(p)]
    BY <1>2, <1>4, ConcatProperties
  <2> HIDE DEF pe
  <2>2. pe[k] = one[k - Len(p)] /\ k - Len(p) = 1
    BY <1>1, <1>2, <1>4, <2>1
  <2> QED BY <1>1, <1>2, <1>4, <2>1, <2>2
<1> HIDE DEF pe
<1>6. /\ r \in Seq(S) /\ Len(r) = n + 1
      /\ \A i \in 1..(n + 1) : r[i] = IF i < k THEN seq[i] ELSE IF i = k THEN e ELSE seq[i - 1]
  <2>1. /\ r \in Seq(S) /\ Len(r) = Len(pe) + Len(q)
        /\ \A i \in 1 .. Len(pe) + Len(q) : r[i] = IF i <= Len(pe) THEN pe[i] ELSE q[i - Len(pe)]
    BY <1>3, <1>5, ConcatProperties
  <2> HIDE DEF r
  <2>2. Len(pe) + Len(q) = n + 1
    BY <1>1, <1>3, <1>5
  <2>3. ASSUME NEW i \in 1..(n + 1)
        PROVE  r[i] = IF i < k THEN seq[i] ELSE IF i = k THEN e ELSE seq[i - 1]
    <3>1. CASE i <= k
      <4>1. r[i] = pe[i]
        BY <1>1, <1>5, <2>1, <2>2, <3>1
      <4> QED BY <1>1, <1>5, <3>1, <4>1
    <3>2. CASE ~(i <= k)
      <4>1. i - Len(pe) = i - k /\ i - k \in 1..(n - k + 1) /\ k + (i - k) - 1 = i - 1
        BY <1>1, <1>5, <3>2
      <4>2. r[i] = q[i - k]
        BY <1>1, <1>5, <2>1, <2>2, <3>2, <4>1
      <4> QED BY <1>1, <1>3, <3>2, <4>1, <4>2
    <3> QED BY <3>1, <3>2
  <2> QED BY <2>1, <2>2, <2>3
<1> HIDE DEF r
<1>7. Shared!ToSet(r) = Shared!ToSet(seq) \cup {e}
  <2>1. ASSUME NEW h \in Shared!ToSet(r) PROVE h \in Shared!ToSet(seq) \cup {e}
    <3>1. PICK i \in 1..(n + 1) : r[i] = h
      BY <1>6, <2>1, InSet
    <3>2. CASE i = k
      BY <1>1, <1>6, <3>1, <3>2
    <3>3. CASE i # k
      <4> DEFINE x == IF i < k THEN i ELSE i - 1
      <4>1. x \in 1..n /\ seq[x] = h
        BY <1>1, <1>6, <3>1, <3>3
      <4> QED BY <4>1, InSet
    <3> QED BY <3>2, <3>3
  <2>2. e \in Shared!ToSet(r)
    <3>1. k \in 1..Len(r) /\ r[k] = e
      BY <1>1, <1>6
    <3> QED BY <1>6, <3>1, InSet
  <2>3. ASSUME NEW h \in Shared!ToSet(seq) PROVE h \in Shared!ToSet(r)
    <3>1. PICK i \in 1..n : seq[i] = h
      BY <2>3, InSet
    <3> DEFINE x == IF i < k THEN i ELSE i + 1
    <3>2. x \in 1..(n + 1) /\ r[x] = seq[i]
      BY <1>1, <1>6
    <3> QED BY <1>6, <3>1, <3>2, InSet
  <2> QED BY <2>1, <2>2, <2>3
<1>8. ASSUME Once(seq), e \notin Shared!ToSet(seq) PROVE Once(r)
  <2>1. \A i \in 1..n : \A j \in 1..n : seq[i] = seq[j] => i = j
    BY <1>8 DEF Once
  <2>2. \A i \in 1..n : seq[i] # e
    BY <1>8, InSet
  <2> SUFFICES ASSUME NEW i \in 1..(n + 1), NEW j \in 1..(n + 1), r[i] = r[j] PROVE i = j
    BY <1>6 DEF Once
  <2> DEFINE x == IF i < k THEN i ELSE i - 1
             y == IF j < k THEN j ELSE j - 1
  <2>3. i # k => x \in 1..n /\ r[i] = seq[x]
    BY <1>1, <1>6
  <2>4. j # k => y \in 1..n /\ r[j] = seq[y]
    BY <1>1, <1>6
  <2>5. r[k] = e
    BY <1>1, <1>6
  <2>6. (i = k <=> j = k) /\ (i # k => x = y)
    BY <2>1, <2>2, <2>3, <2>4, <2>5
  <2> QED BY <1>1, <2>6
<1> QED BY <1>6, <1>7, <1>8 DEF r, pe, p, q, one, Shared!InsertAt

(* The same at the end of the list. *)
LEMMA PutLastIn ==
  ASSUME NEW S, NEW seq \in Seq(S), NEW e \in S
  PROVE  /\ Append(seq, e) \in Seq(S) /\ Shared!ToSet(Append(seq, e)) = Shared!ToSet(seq) \cup {e}
         /\ Once(seq) /\ e \notin Shared!ToSet(seq) => Once(Append(seq, e))
<1> DEFINE r == Append(seq, e)
           n == Len(seq)
<1>1. /\ r \in Seq(S) /\ Len(r) = n + 1 /\ r[n + 1] = e
      /\ \A i \in 1..n : r[i] = seq[i]
      /\ n \in Nat
  BY AppendProperties, LenProperties
<1> HIDE DEF r
<1>2. ASSUME NEW h PROVE h \in Shared!ToSet(r) <=> h \in Shared!ToSet(seq) \cup {e}
  <2>1. h \in Shared!ToSet(r) <=> \E i \in 1..(n + 1) : r[i] = h
    BY <1>1, InSet
  <2>2. h \in Shared!ToSet(seq) <=> \E i \in 1..n : seq[i] = h
    BY InSet
  <2>3. \A i \in 1..(n + 1) : i \in 1..n \/ i = n + 1
    BY <1>1
  <2> QED BY <1>1, <2>1, <2>2, <2>3
<1>3. ASSUME Once(seq), e \notin Shared!ToSet(seq) PROVE Once(r)
  <2>1. \A i \in 1..n : \A j \in 1..n : seq[i] = seq[j] => i = j
    BY <1>3 DEF Once
  <2>2. \A i \in 1..n : seq[i] # e
    BY <1>3, InSet
  <2> SUFFICES ASSUME NEW i \in 1..(n + 1), NEW j \in 1..(n + 1), r[i] = r[j] PROVE i = j
    BY <1>1 DEF Once
  <2>3. \A m \in 1..(n + 1) : m \in 1..n \/ m = n + 1
    BY <1>1
  <2> QED BY <1>1, <2>1, <2>2, <2>3
<1> QED BY <1>1, <1>2, <1>3 DEF r

(* A cut of a list without repetitions, and what is behind it. *)
LEMMA CutInTwo ==
  ASSUME NEW S, NEW seq \in Seq(S), Once(seq), NEW m \in Nat
  PROVE  LET p == Shared!First(seq, m)
             q == SubSeq(seq, m + 1, Len(seq))
         IN  /\ p \in Seq(S) /\ Once(p) /\ Shared!ToSet(p) \subseteq Shared!ToSet(seq)
             /\ IsFiniteSet(Shared!ToSet(p)) /\ Cardinality(Shared!ToSet(p)) <= m
             /\ q \in Seq(S) /\ Once(q) /\ Shared!ToSet(q) \subseteq Shared!ToSet(seq)
             /\ Shared!ToSet(p) \cap Shared!ToSet(q) = {}
<1> DEFINE n == Len(seq)
           l == IF m < n THEN m ELSE n
           p == SubSeq(seq, 1, l)
           q == SubSeq(seq, m + 1, n)
<1>1. n \in Nat /\ l \in Nat /\ l <= m /\ l <= n /\ \A i \in 1..n : seq[i] \in S
  BY LenProperties, ElementOfSeq
<1>2. p \in Seq(S) /\ Len(p) = l /\ \A i \in 1..l : p[i] = seq[i]
  <2>1. \A i \in 1..l : seq[i] \in S
    BY <1>1
  <2>2. 1 \in Int /\ l \in Int
    BY <1>1
  <2> HIDE DEF l
  <2>3. /\ p \in Seq(S) /\ Len(p) = IF 1 <= l THEN l - 1 + 1 ELSE 0
        /\ \A i \in 1 .. l - 1 + 1 : p[i] = seq[1 + i - 1]
    BY <2>1, <2>2, SubSeqProperties
  <2> HIDE DEF p
  <2>4. \A i \in 1..l : 1 + i - 1 = i /\ i \in 1 .. l - 1 + 1
    BY <1>1
  <2> QED BY <1>1, <2>3, <2>4
<1>3. /\ q \in Seq(S) /\ Len(q) \in Nat
      /\ \A i \in 1..Len(q) : m + i \in 1..n /\ q[i] = seq[m + i]
  <2>1. \A i \in (m + 1)..n : seq[i] \in S
    BY <1>1
  <2>2. m + 1 \in Int /\ n \in Int
    BY <1>1
  <2>3. /\ q \in Seq(S) /\ Len(q) = IF m + 1 <= n THEN n - (m + 1) + 1 ELSE 0
        /\ \A i \in 1 .. n - (m + 1) + 1 : q[i] = seq[(m + 1) + i - 1]
    BY <2>1, <2>2, SubSeqProperties
  <2> HIDE DEF q
  <2>4. \A i \in 1..Len(q) : (m + 1) + i - 1 = m + i /\ m + i \in 1..n /\ i \in 1 .. n - (m + 1) + 1
    BY <1>1, <2>3
  <2> QED BY <1>1, <2>3, <2>4
<1> HIDE DEF p, q
<1>4. \A i \in 1..n : \A j \in 1..n : seq[i] = seq[j] => i = j
  BY DEF Once
<1>5. Once(p) /\ Once(q)
  <2>1. DOMAIN p = 1..l /\ DOMAIN q = 1..Len(q)
    BY <1>2, <1>3
  <2>2. Once(p)
    <3> SUFFICES ASSUME NEW i \in 1..l, NEW j \in 1..l, p[i] = p[j] PROVE i = j
      BY <2>1 DEF Once
    <3>1. i \in 1..n /\ j \in 1..n
      BY <1>1
    <3> QED BY <1>2, <1>4, <3>1
  <2>3. Once(q)
    <3> SUFFICES ASSUME NEW i \in 1..Len(q), NEW j \in 1..Len(q), q[i] = q[j] PROVE i = j
      BY <2>1 DEF Once
    <3>1. m + i = m + j
      BY <1>3, <1>4
    <3> QED BY <3>1
  <2> QED BY <2>2, <2>3
<1>6. Shared!ToSet(p) \subseteq Shared!ToSet(seq) /\ Shared!ToSet(q) \subseteq Shared!ToSet(seq)
  <2>1. ASSUME NEW e \in Shared!ToSet(p) PROVE e \in Shared!ToSet(seq)
    <3>1. PICK i \in 1..l : p[i] = e
      BY <1>2, <2>1, InSet
    <3>2. i \in 1..n /\ seq[i] = e
      BY <1>1, <1>2, <3>1
    <3> QED BY <3>2, InSet
  <2>2. ASSUME NEW e \in Shared!ToSet(q) PROVE e \in Shared!ToSet(seq)
    <3>1. PICK i \in 1..Len(q) : q[i] = e
      BY <1>3, <2>2, InSet
    <3> QED BY <1>3, <3>1, InSet
  <2> QED BY <2>1, <2>2
<1>7. Shared!ToSet(p) \cap Shared!ToSet(q) = {}
  <2> SUFFICES ASSUME NEW e \in Shared!ToSet(p), e \in Shared!ToSet(q) PROVE FALSE
    OBVIOUS
  <2>1. PICK i \in 1..l : p[i] = e
    BY <1>2, InSet
  <2>2. PICK j \in 1..Len(q) : q[j] = e
    BY <1>3, InSet
  <2>3. i \in 1..n /\ m + j \in 1..n /\ seq[i] = seq[m + j]
    BY <1>1, <1>2, <1>3, <2>1, <2>2
  <2>4. i = m + j
    BY <1>4, <2>3
  <2> QED BY <1>1, <2>4
<1>8. IsFiniteSet(Shared!ToSet(p)) /\ Cardinality(Shared!ToSet(p)) <= m
  <2>1. DOMAIN p = 1..l /\ p \in [1..l -> S]
    BY <1>2
  <2>2. p \in Surjection(1..l, Shared!ToSet(p))
    BY <2>1 DEF Surjection, Shared!ToSet
  <2> HIDE DEF l
  <2>3. IsFiniteSet(1..l) /\ Cardinality(1..l) = l
    <3>1. 1 \in Int /\ l \in Int
      BY <1>1
    <3>2. IsFiniteSet(1..l) /\ Cardinality(1..l) = IF 1 > l THEN 0 ELSE l - 1 + 1
      BY <3>1, FS_Interval
    <3> QED BY <1>1, <3>2
  <2>4. IsFiniteSet(Shared!ToSet(p)) /\ Cardinality(Shared!ToSet(p)) <= Cardinality(1..l)
    BY <2>2, <2>3, FS_Surjection
  <2>5. Cardinality(Shared!ToSet(p)) \in Nat
    BY <2>4, FS_CardinalityType
  <2> QED BY <1>1, <2>3, <2>4, <2>5
<1> QED BY <1>2, <1>3, <1>5, <1>6, <1>7, <1>8 DEF p, q, Shared!First

-----------------------------------------------------------------------------
(* The worker and its limit, as configured. *)
Bounds ==
  /\ worker \in Settings
  /\ limit \in Shared!MinC..Shared!MaxC /\ pressure \in BOOLEAN
  /\ phase \in {"rest", "cycle", "batch"}
  /\ arrivals \in 0..MaxArrivals /\ misses \in 0..MaxFaults

(* The candidates are the sessions with work, each once. *)
Queued ==
  /\ queue \in Seq(Sessions) /\ Once(queue)
  /\ work \in [Sessions -> 0..MaxArrivals]
  /\ \A s \in Sessions : work[s] <= arrivals /\ (s \in Shared!Waiting <=> work[s] > 0)

(* Those a cycle has still to start or has started have work, and none is  *)
(* in a batch while it waits for another one.                              *)
Started ==
  /\ todo \in Seq(Sessions) /\ Once(todo)
  /\ Shared!ToSet(todo) \subseteq Shared!Waiting /\ busy \subseteq Shared!Waiting
  /\ busy \cap Shared!ToSet(todo) = {}
  /\ IsFiniteSet(busy) /\ Cardinality(busy) <= limit
  /\ phase = "rest" => todo = <<>>
  /\ phase # "batch" => busy = {}

(* The workers looked at are configured as Scheduler assumes. *)
SettingsFit == Shared!SchedulerAssumption

(* The inductive invariant of Scheduler. *)
SharedInv == Bounds /\ Queued /\ Started

(* The sizes of Scheduler are those of the library. *)
LEMMA SameCount == Shared!Cardinality(busy) = Cardinality(busy)
BY DEF Cardinality, Shared!Cardinality

(* The configured limits are numbers in order. *)
LEMMA Limits ==
  ASSUME SettingsFit, worker \in Settings
  PROVE  Shared!MinC \in Nat /\ Shared!MaxC \in Nat /\ 1 <= Shared!MinC /\ Shared!MinC <= Shared!MaxC
BY DEF SettingsFit, Shared!MinC, Shared!MaxC, Shared!Worker

(* The list the worker starts with. *)
LEMMA EmptyList == Shared!ToSet(<<>>) = {} /\ Once(<<>>) /\ <<>> \in Seq(Sessions)
BY DEF Shared!ToSet, Once

(* What waits in a list of sessions is a session. *)
LEMMA WaitingSessions == ASSUME queue \in Seq(Sessions) PROVE Shared!Waiting \subseteq Sessions
<1> SUFFICES ASSUME NEW e \in Shared!Waiting PROVE e \in Sessions
  OBVIOUS
<1>1. PICK i \in 1..Len(queue) : queue[i] = e
  BY InSet DEF Shared!Waiting
<1> QED BY <1>1, ElementOfSeq

(* rmbd starts with no work and the smallest limit. *)
LEMMA SharedInit == ASSUME SettingsFit, Shared!Init PROVE SharedInv
<1> SUFFICES SharedInv
  OBVIOUS
<1>1. Shared!MinC \in Nat /\ Shared!MaxC \in Nat /\ 1 <= Shared!MinC /\ Shared!MinC <= Shared!MaxC
  BY Limits DEF Shared!Init
<1>2. Bounds
  <2>1. /\ worker \in Settings /\ limit = Shared!MinC /\ pressure = FALSE /\ phase = "rest"
        /\ arrivals = 0 /\ misses = 0
    BY DEF Shared!Init
  <2>2. 0 \in 0..MaxArrivals /\ 0 \in 0..MaxFaults
    BY DEF SettingsFit
  <2>3. Shared!MinC \in Shared!MinC..Shared!MaxC
    BY <1>1
  <2> QED BY <2>1, <2>2, <2>3 DEF Bounds
<1>3. Shared!Waiting = {}
  BY EmptyList DEF Shared!Init, Shared!Waiting
<1>4. Queued
  BY <1>3, EmptyList DEF SettingsFit, Shared!Init, Queued
<1>5. Started
  BY <1>1, EmptyList, FS_EmptySet DEF Shared!Init, Started
<1> QED BY <1>2, <1>4, <1>5 DEF SharedInv

(* A session is where Shared!Position finds it. *)
LEMMA PositionOf ==
  ASSUME queue \in Seq(Sessions), NEW s \in Shared!Waiting
  PROVE  Shared!Position(s) \in 1..Len(queue) /\ queue[Shared!Position(s)] = s
<1>1. PICK i \in 1..Len(queue) : queue[i] = s
  BY InSet DEF Shared!Waiting
<1>2. DOMAIN queue = 1..Len(queue)
  BY LenProperties
<1> QED BY <1>1, <1>2 DEF Shared!Position

(* The order of the candidates without s. *)
LEMMA WithoutOf ==
  ASSUME queue \in Seq(Sessions), Once(queue), NEW s \in Sessions
  PROVE  /\ Shared!Without(s) \in Seq(Sessions) /\ Once(Shared!Without(s))
         /\ Shared!ToSet(Shared!Without(s)) = Shared!Waiting \ {s}
         /\ s \in Shared!Waiting => Len(Shared!Without(s)) = Len(queue) - 1
         /\ s \notin Shared!Waiting => Len(Shared!Without(s)) = Len(queue)
<1>1. CASE s \in Shared!Waiting
  <2>1. Shared!Position(s) \in 1..Len(queue) /\ queue[Shared!Position(s)] = s
    BY <1>1, PositionOf
  <2>2. Shared!Without(s) = Shared!RemoveAt(queue, Shared!Position(s))
    BY <1>1 DEF Shared!Without
  <2>3. /\ Shared!Without(s) \in Seq(Sessions) /\ Len(Shared!Without(s)) = Len(queue) - 1
        /\ Once(Shared!Without(s)) /\ Shared!ToSet(Shared!Without(s)) = Shared!ToSet(queue) \ {s}
    BY <2>1, <2>2, TakenOut
  <2> QED BY <1>1, <2>3 DEF Shared!Waiting
<1>2. CASE s \notin Shared!Waiting
  <2>1. Shared!Without(s) = queue
    BY <1>2 DEF Shared!Without
  <2> QED BY <1>2, <2>1 DEF Shared!Waiting
<1> QED BY <1>1, <1>2

(* A session moved to a place, or put there. *)
LEMMA Moved ==
  ASSUME queue \in Seq(Sessions), Once(queue), NEW s \in Sessions,
         NEW i \in Nat, 1 <= i,
         i <= IF s \in Shared!Waiting THEN Len(queue) ELSE Len(queue) + 1
  PROVE  Shared!PutAt(s, i) \in Seq(Sessions) /\ Once(Shared!PutAt(s, i)) /\ Shared!ToSet(Shared!PutAt(s, i)) = Shared!Waiting \cup {s}
<1> DEFINE w == Shared!Without(s)
<1>1. w \in Seq(Sessions) /\ Once(w) /\ Shared!ToSet(w) = Shared!Waiting \ {s} /\ i \in 1..(Len(w) + 1)
  <2>1. Len(queue) \in Nat
    BY LenProperties
  <2> QED BY <2>1, WithoutOf
<1> HIDE DEF w
<1>2. /\ Shared!InsertAt(w, i, s) \in Seq(Sessions) /\ Shared!ToSet(Shared!InsertAt(w, i, s)) = Shared!ToSet(w) \cup {s}
      /\ Once(Shared!InsertAt(w, i, s))
  BY <1>1, PutIn
<1> QED BY <1>1, <1>2 DEF Shared!PutAt, w

(* A session whose row is touched goes last. *)
LEMMA MovedLast ==
  ASSUME queue \in Seq(Sessions), Once(queue), NEW s \in Sessions
  PROVE  Shared!PutLast(s) \in Seq(Sessions) /\ Once(Shared!PutLast(s)) /\ Shared!ToSet(Shared!PutLast(s)) = Shared!Waiting \cup {s}
<1> DEFINE w == Shared!Without(s)
<1>1. w \in Seq(Sessions) /\ Once(w) /\ Shared!ToSet(w) = Shared!Waiting \ {s}
  BY WithoutOf
<1> HIDE DEF w
<1>2. /\ Append(w, s) \in Seq(Sessions) /\ Shared!ToSet(Append(w, s)) = Shared!ToSet(w) \cup {s}
      /\ Once(Append(w, s))
  BY <1>1, PutLastIn
<1> QED BY <1>1, <1>2 DEF Shared!PutLast, w

(* Work arrives while the worker does anything. *)
LEMMA ArriveStep == ASSUME SettingsFit, SharedInv, NEW s \in Sessions, Shared!Arrive(s) PROVE SharedInv'
<1>1. /\ arrivals < MaxArrivals /\ arrivals' = arrivals + 1
      /\ UNCHANGED <<worker, phase, todo, busy, limit, pressure, misses>>
  BY DEF Shared!Arrive
<1>2. arrivals \in 0..MaxArrivals /\ arrivals' \in 0..MaxArrivals /\ arrivals' >= 1
  BY <1>1 DEF SettingsFit, SharedInv, Bounds
<1>3. queue \in Seq(Sessions) /\ Once(queue) /\ Len(queue) \in Nat
  BY LenProperties DEF SharedInv, Queued
<1>4. queue' \in Seq(Sessions) /\ Once(queue') /\ Shared!ToSet(queue') = Shared!Waiting \cup {s}
  <2>1. CASE Shared!ByAge
    <3>1. PICK i \in 1..(IF s \in Shared!Waiting THEN Shared!Position(s) ELSE Len(queue) + 1) :
            queue' = Shared!PutAt(s, i)
      BY <2>1 DEF Shared!Arrive
    <3>2. s \in Shared!Waiting => Shared!Position(s) \in 1..Len(queue)
      BY <1>3, PositionOf
    <3>3. i \in Nat /\ 1 <= i /\ i <= IF s \in Shared!Waiting THEN Len(queue) ELSE Len(queue) + 1
      BY <1>3, <3>2
    <3> QED BY <1>3, <3>1, <3>3, Moved
  <2>2. CASE ~Shared!ByAge
    BY <1>3, <2>2, MovedLast DEF Shared!Arrive
  <2> QED BY <2>1, <2>2
<1>5. /\ work' = [work EXCEPT ![s] = @ + 1] \/ work' = [work EXCEPT ![s] = 1]
      /\ work \in [Sessions -> 0..MaxArrivals]
      /\ \A r \in Sessions : work[r] <= arrivals /\ (r \in Shared!Waiting <=> work[r] > 0)
  BY DEF Shared!Arrive, SharedInv, Queued
<1>6. Shared!Waiting' = Shared!Waiting \cup {s}
  BY <1>4 DEF Shared!Waiting
<1>7. Bounds'
  BY <1>1, <1>2 DEF SharedInv, Bounds, Shared!MinC, Shared!MaxC
<1>8. Queued'
  <2>1. work' \in [Sessions -> 0..MaxArrivals]
    <3>1. work[s] \in 0..MaxArrivals /\ work[s] <= arrivals
      BY <1>5
    <3>2. work[s] + 1 \in 0..MaxArrivals /\ 1 \in 0..MaxArrivals
      BY <1>1, <1>2, <3>1 DEF SettingsFit
    <3> QED BY <1>5, <3>2
  <2>2. ASSUME NEW r \in Sessions PROVE work'[r] <= arrivals' /\ (r \in Shared!Waiting' <=> work'[r] > 0)
    <3>1. CASE r = s
      <4>1. work[s] \in Nat /\ work[s] <= arrivals
        BY <1>5
      <4>2. work'[s] = work[s] + 1 \/ work'[s] = 1
        BY <1>5
      <4> QED BY <1>1, <1>2, <1>6, <3>1, <4>1, <4>2
    <3>2. CASE r # s
      <4>1. work'[r] = work[r] /\ work[r] \in Nat
        BY <1>5, <3>2
      <4> QED BY <1>1, <1>2, <1>5, <1>6, <3>2, <4>1
    <3> QED BY <3>1, <3>2
  <2> QED BY <1>4, <2>1, <2>2 DEF Queued
<1>9. Started'
  BY <1>1, <1>6 DEF SharedInv, Started
<1> QED BY <1>7, <1>8, <1>9 DEF SharedInv

(* What each goroutine leaves behind when it returns. *)
LEMMA Returned ==
  ASSUME SettingsFit, SharedInv, NEW s \in Sessions, Shared!Return(s), UNCHANGED misses \/ misses' \in 0..MaxFaults,
         pressure' \in BOOLEAN, Queued', Shared!Waiting \ {s} \subseteq Shared!Waiting'
  PROVE  SharedInv'
<1>1. s \in busy /\ busy' = busy \ {s} /\ UNCHANGED <<worker, phase, todo, limit, arrivals>>
  BY DEF Shared!Return
<1>2. Bounds'
  BY <1>1 DEF SharedInv, Bounds, Shared!MinC, Shared!MaxC
<1>3. IsFiniteSet(busy') /\ Cardinality(busy') <= limit'
  <2>1. IsFiniteSet(busy) /\ Cardinality(busy) <= limit /\ limit \in Nat
    <3>1. worker \in Settings /\ limit \in Shared!MinC..Shared!MaxC
      BY DEF SharedInv, Bounds
    <3> QED BY <3>1, Limits DEF SharedInv, Started
  <2>2. busy' \in SUBSET busy
    BY <1>1
  <2>3. IsFiniteSet(busy') /\ Cardinality(busy') <= Cardinality(busy)
    BY <2>1, <2>2, FS_Subset
  <2>4. Cardinality(busy) \in Nat /\ Cardinality(busy') \in Nat
    BY <2>1, <2>3, FS_CardinalityType
  <2> QED BY <1>1, <2>1, <2>3, <2>4
<1>4. Started'
  BY <1>1, <1>3 DEF SharedInv, Started
<1> QED BY <1>2, <1>4 DEF SharedInv

(* A session whose work is done leaves the candidates, or moves. *)
LEMMA SucceedStep == ASSUME SettingsFit, SharedInv, NEW s \in Sessions, Shared!Succeed(s) PROVE SharedInv'
<1>1. /\ Shared!Return(s) /\ UNCHANGED <<pressure, misses, arrivals>>
      /\ work' = [work EXCEPT ![s] = @ - 1]
  BY DEF Shared!Succeed, Shared!Return
<1>2. /\ queue \in Seq(Sessions) /\ Once(queue) /\ Len(queue) \in Nat
      /\ work \in [Sessions -> 0..MaxArrivals] /\ arrivals \in Nat
      /\ \A r \in Sessions : work[r] <= arrivals /\ (r \in Shared!Waiting <=> work[r] > 0)
  BY LenProperties DEF SharedInv, Queued, Bounds
<1>3. s \in Shared!Waiting
  BY <1>1 DEF Shared!Return, SharedInv, Started
<1>4. work[s] \in Nat /\ work[s] >= 1 /\ work'[s] = work[s] - 1 /\ work' \in [Sessions -> 0..MaxArrivals]
  <2>1. work[s] \in 0..MaxArrivals /\ work[s] > 0
    BY <1>2, <1>3
  <2> QED BY <1>1, <1>2, <2>1 DEF SettingsFit
<1>5. /\ queue' \in Seq(Sessions) /\ Once(queue')
      /\ Shared!Waiting' = IF work[s] = 1 THEN Shared!Waiting \ {s} ELSE Shared!Waiting
  <2>1. CASE work[s] = 1
    <3>1. queue' = Shared!Without(s)
      BY <2>1 DEF Shared!Succeed
    <3> QED BY <1>2, <2>1, <3>1, WithoutOf DEF Shared!Waiting
  <2>2. CASE work[s] # 1
    <3>1. PICK i \in Shared!Position(s)..Len(queue) : queue' = Shared!PutAt(s, i)
      BY <2>2 DEF Shared!Succeed
    <3>2. i \in Nat /\ 1 <= i /\ i <= Len(queue)
      BY <1>2, <1>3, <3>1, PositionOf
    <3>3. queue' \in Seq(Sessions) /\ Once(queue') /\ Shared!ToSet(queue') = Shared!Waiting \cup {s}
      BY <1>2, <1>3, <3>1, <3>2, Moved
    <3> QED BY <1>3, <2>2, <3>3 DEF Shared!Waiting
  <2> QED BY <2>1, <2>2
<1>6. ASSUME NEW r \in Sessions PROVE work'[r] <= arrivals' /\ (r \in Shared!Waiting' <=> work'[r] > 0)
  <2>1. CASE r = s
    BY <1>1, <1>2, <1>3, <1>4, <1>5, <2>1
  <2>2. CASE r # s
    <3>1. work'[r] = work[r]
      BY <1>1, <1>2, <2>2
    <3> QED BY <1>1, <1>2, <1>5, <2>2, <3>1
  <2> QED BY <2>1, <2>2
<1>7. Queued'
  BY <1>4, <1>5, <1>6 DEF Queued
<1>8. pressure' \in BOOLEAN /\ Shared!Waiting \ {s} \subseteq Shared!Waiting'
  BY <1>1, <1>5 DEF SharedInv, Bounds
<1> QED BY <1>1, <1>7, <1>8, Returned

(* A failed or waiting session stays a candidate. *)
LEMMA FailStep == ASSUME SettingsFit, SharedInv, NEW s \in Sessions, Shared!Fail(s) \/ Shared!NotDue(s) PROVE SharedInv'
<1>1. Shared!Return(s) /\ UNCHANGED <<work, arrivals>>
  BY DEF Shared!Fail, Shared!NotDue, Shared!Return
<1>2. UNCHANGED misses \/ misses' \in 0..MaxFaults
  <2>1. UNCHANGED misses \/ (misses < MaxFaults /\ misses' = misses + 1)
    BY DEF Shared!Fail, Shared!NotDue
  <2>2. misses \in 0..MaxFaults /\ MaxFaults \in Nat
    BY DEF SettingsFit, SharedInv, Bounds
  <2> QED BY <2>1, <2>2
<1>3. pressure' \in BOOLEAN
  <2>1. pressure' = TRUE \/ UNCHANGED pressure
    BY DEF Shared!Fail, Shared!NotDue
  <2> QED BY <2>1 DEF SharedInv, Bounds
<1>4. queue \in Seq(Sessions) /\ Once(queue) /\ s \in Shared!Waiting
  BY <1>1 DEF SharedInv, Queued, Started, Shared!Return
<1>5. queue' \in Seq(Sessions) /\ Once(queue') /\ Shared!Waiting' = Shared!Waiting
  <2>1. queue' = queue \/ queue' = Shared!PutLast(s)
    BY DEF Shared!Fail, Shared!NotDue
  <2>2. Shared!PutLast(s) \in Seq(Sessions) /\ Once(Shared!PutLast(s)) /\ Shared!ToSet(Shared!PutLast(s)) = Shared!Waiting
    BY <1>4, MovedLast
  <2> QED BY <1>4, <2>1, <2>2 DEF Shared!Waiting
<1>6. Queued'
  BY <1>1, <1>5 DEF SharedInv, Queued
<1> QED BY <1>1, <1>2, <1>3, <1>5, <1>6, Returned

(* Every new limit is within the configured ones. *)
LEMMA Clamped ==
  ASSUME SettingsFit, worker \in Settings, NEW n \in Nat
  PROVE  Shared!Clamp(n) \in Shared!MinC..Shared!MaxC /\ (limit \in Shared!MinC..Shared!MaxC => Shared!Halved \in Shared!MinC..Shared!MaxC)
<1>1. Shared!MinC \in Nat /\ Shared!MaxC \in Nat /\ 1 <= Shared!MinC /\ Shared!MinC <= Shared!MaxC
  BY Limits
<1>2. ASSUME limit \in Shared!MinC..Shared!MaxC PROVE limit \div 2 \in Nat /\ limit \div 2 <= Shared!MaxC
  <2>1. limit \in Nat /\ limit <= Shared!MaxC
    BY <1>1, <1>2
  <2>2. limit \div 2 \in Nat /\ limit \div 2 <= limit
    BY <2>1
  <2> QED BY <1>1, <2>1, <2>2
<1> QED BY <1>1, <1>2 DEF Shared!Clamp, Shared!Halved

(* The candidates of a cycle are the first ones, each once. *)
LEMMA SelectStep == ASSUME SettingsFit, SharedInv, Shared!Select PROVE SharedInv'
<1>1. phase = "rest" /\ UNCHANGED <<worker, queue, work, busy, pressure, arrivals>>
  BY DEF Shared!Select
<1>2. /\ worker \in Settings /\ limit \in Shared!MinC..Shared!MaxC /\ misses \in 0..MaxFaults
      /\ queue \in Seq(Sessions) /\ Once(queue) /\ Len(queue) \in Nat
      /\ todo = <<>> /\ busy = {} /\ limit \in Nat
  BY <1>1, Limits, LenProperties DEF SharedInv, Bounds, Queued, Started
<1>3. Shared!Waiting' = Shared!Waiting
  BY <1>1 DEF Shared!Waiting
<1>4. limit' \in Shared!MinC..Shared!MaxC /\ misses' \in 0..MaxFaults
  <2>1. CASE queue = <<>>
    BY <1>2, <2>1, Clamped DEF Shared!Select
  <2>2. CASE queue # <<>>
    <3>1. PICK n \in {Len(queue), limit} : Shared!Counted(n, limit) /\ limit' = Shared!Clamp(n)
      BY <2>2 DEF Shared!Select
    <3>2. n \in Nat
      BY <1>2, <3>1
    <3>3. misses' = misses \/ (misses < MaxFaults /\ misses' = misses + 1)
      BY <3>1 DEF Shared!Counted
    <3> QED BY <1>2, <3>1, <3>2, <3>3, Clamped DEF SettingsFit
  <2> QED BY <2>1, <2>2
<1>5. /\ phase' \in {"rest", "cycle"} /\ todo' \in Seq(Sessions) /\ Once(todo')
      /\ Shared!ToSet(todo') \subseteq Shared!Waiting /\ (phase' = "rest" => todo' = <<>>)
  <2>1. CASE queue = <<>>
    BY <1>1, <1>2, <2>1, EmptyList DEF Shared!Select
  <2>2. CASE queue # <<>>
    <3>1. phase' = "cycle" /\ todo' = Shared!First(queue, 2 * Shared!MaxC)
      BY <2>2 DEF Shared!Select, Shared!Candidates
    <3>2. 2 * Shared!MaxC \in Nat
      BY <1>2, Limits
    <3> QED BY <1>2, <3>1, <3>2, CutInTwo DEF Shared!Waiting
  <2> QED BY <2>1, <2>2
<1>6. Bounds'
  BY <1>1, <1>4, <1>5 DEF SharedInv, Bounds, Shared!MinC, Shared!MaxC
<1>7. Queued'
  BY <1>1, <1>3 DEF SharedInv, Queued
<1>8. Started'
  <2>1. Shared!MinC \in Nat /\ Shared!MaxC \in Nat
    BY <1>2, Limits
  <2>2. limit' >= 0 /\ IsFiniteSet(busy') /\ Cardinality(busy') = 0 /\ busy' = {}
    BY <1>1, <1>2, <1>4, <2>1, FS_EmptySet
  <2> QED BY <1>3, <1>5, <2>2 DEF Started
<1> QED BY <1>6, <1>7, <1>8 DEF SharedInv

(* A batch has at most as many sessions as the limit lets run. *)
LEMMA BatchStep == ASSUME SettingsFit, SharedInv, Shared!StartBatch PROVE SharedInv'
<1>1. /\ phase = "cycle" /\ phase' = "batch"
      /\ busy' = Shared!ToSet(Shared!First(todo, limit)) /\ todo' = SubSeq(todo, limit + 1, Len(todo))
      /\ UNCHANGED <<worker, queue, work, limit, pressure, arrivals, misses>>
  BY DEF Shared!StartBatch
<1>2. todo \in Seq(Sessions) /\ Once(todo) /\ limit \in Nat /\ Shared!ToSet(todo) \subseteq Shared!Waiting
  BY Limits DEF SharedInv, Bounds, Started
<1>3. Shared!Waiting' = Shared!Waiting
  BY <1>1 DEF Shared!Waiting
<1>4. /\ todo' \in Seq(Sessions) /\ Once(todo') /\ Shared!ToSet(todo') \subseteq Shared!ToSet(todo)
      /\ busy' \subseteq Shared!ToSet(todo) /\ busy' \cap Shared!ToSet(todo') = {}
      /\ IsFiniteSet(busy') /\ Cardinality(busy') <= limit
  BY <1>1, <1>2, CutInTwo
<1>5. Bounds' /\ Queued'
  BY <1>1, <1>3 DEF SharedInv, Bounds, Queued, Shared!MinC, Shared!MaxC
<1>6. Started'
  BY <1>1, <1>2, <1>3, <1>4 DEF Started
<1> QED BY <1>5, <1>6 DEF SharedInv

(* A limit changes only between batches. *)
LEMMA EndStep == ASSUME SettingsFit, SharedInv, Shared!EndBatch PROVE SharedInv'
<1>1. /\ phase = "batch" /\ busy = {} /\ pressure' = FALSE
      /\ UNCHANGED <<worker, queue, work, busy, arrivals>>
      /\ \/ phase' = "rest" /\ todo' = <<>>
         \/ phase' = "cycle" /\ UNCHANGED todo
  BY DEF Shared!EndBatch
<1>2. /\ worker \in Settings /\ limit \in Shared!MinC..Shared!MaxC /\ misses \in 0..MaxFaults
      /\ Len(queue) \in Nat /\ Len(todo) \in Nat
  BY LenProperties DEF SharedInv, Bounds, Queued, Started
<1>3. Shared!Waiting' = Shared!Waiting
  BY <1>1 DEF Shared!Waiting
<1>4. limit' \in Shared!MinC..Shared!MaxC /\ misses' \in 0..MaxFaults
  <2>1. PICK hint \in {Len(queue), Len(todo)} :
          /\ Shared!Counted(hint, Len(todo))
          /\ limit' = IF pressure THEN Shared!Halved ELSE Shared!Clamp(hint)
    BY DEF Shared!EndBatch
  <2>2. hint \in Nat
    BY <1>2, <2>1
  <2>3. misses' = misses \/ (misses < MaxFaults /\ misses' = misses + 1)
    BY <2>1 DEF Shared!Counted
  <2> QED BY <1>2, <2>1, <2>2, <2>3, Clamped DEF SettingsFit
<1>5. Bounds'
  BY <1>1, <1>4 DEF SharedInv, Bounds, Shared!MinC, Shared!MaxC
<1>6. Queued'
  BY <1>1, <1>3 DEF SharedInv, Queued
<1>7. Started'
  <2>1. Shared!MinC \in Nat /\ Shared!MaxC \in Nat
    BY <1>2, Limits
  <2>2. limit' >= 0 /\ IsFiniteSet(busy') /\ Cardinality(busy') = 0 /\ busy' = {}
    BY <1>1, <1>4, <2>1, FS_EmptySet
  <2> QED BY <1>1, <1>3, <2>2, EmptyList DEF SharedInv, Started
<1> QED BY <1>5, <1>6, <1>7 DEF SharedInv

(* So every step keeps the invariant. *)
LEMMA SharedNext == ASSUME SettingsFit, SharedInv, [Shared!Next]_(Shared!vars) PROVE SharedInv'
<1>1. ASSUME SharedInv, UNCHANGED Shared!vars PROVE SharedInv'
  BY <1>1 DEF Shared!vars, SharedInv, Bounds, Queued, Started, Shared!MinC, Shared!MaxC, Shared!Waiting
<1> QED BY <1>1, ArriveStep, SucceedStep, FailStep, SelectStep, BatchStep, EndStep DEF Shared!Next

(* The candidates are the sessions with work, each once, so a session in a *)
(* batch is not also among those the cycle has still to start: no session  *)
(* is processed beside itself, and each that is processed has work.        *)
THEOREM SharedInvariant ==
  ASSUME SettingsFit PROVE Shared!Spec => []SharedInv
BY SharedInit, SharedNext, PTL DEF Shared!Spec

(* Scheduler's state is well formed: whatever arrives, fails or throttles, *)
(* the limit stays within the configured concurrency, and no batch is      *)
(* larger than the limit.                                                  *)
THEOREM SharedTypeCorrect ==
  ASSUME SettingsFit PROVE Shared!Spec => []Shared!TypeOK
<1>1. SharedInv => Shared!TypeOK
  BY WaitingSessions, SameCount DEF SharedInv, Bounds, Queued, Started, Shared!TypeOK
<1> QED BY <1>1, SharedInvariant, PTL
=============================================================================
