---------------------------- MODULE EmbedProofs ----------------------------
(***************************************************************************)
(* Proofs about module Embed, for any rows, tiers, settings and faults.    *)
(***************************************************************************)
EXTENDS Embed, TLAPS

RowStep(r) == Insert(r) \/ Supersede(r) \/ PutScene(r) \/ DropScene(r)

(* The worker has settings, and what it read dies with its daemon. *)
WorkerRuns ==
  /\ tier # 0 => up /\ live # Gone
  /\ batch # {} => tier # 0

(* A PUT begins with the first tier, and one that still clears has one. *)
NextFits ==
  \A c \in Calls : /\ put[c] = "idle" => next[c] = 1
                   /\ put[c] = "clear" => next[c] \in 1..4

TInv == TypeOK /\ WorkerRuns /\ NextFits

-----------------------------------------------------------------------------
LEMMA TypeInit == Init => TInv
<1> SUFFICES ASSUME Init PROVE TInv
  OBVIOUS
<1>1. born \in [Rows -> 0..MaxWrites] /\ text \in [Rows -> Nat]
  BY EmbedAssumption DEF Init
<1>2. vec \in [Rows -> Vector \cup {None}]
  BY DEF Init
<1>3. writes \in 0..MaxWrites /\ puts \in 0..MaxPuts /\ faults \in 0..MaxFaults
  BY EmbedAssumption DEF Init
<1>4. file \in Models /\ live \in Models /\ wish \in [Calls -> Models]
      /\ base \in [Calls -> Models \cup {Gone}]
  BY EmbedAssumption DEF Init
<1>5. batch \subseteq Entry /\ retired \subseteq Rows /\ late \subseteq Rows /\ raced \subseteq Rows
  BY DEF Init
<1>6. tier \in 0..4 /\ next \in [Calls -> 1..5] /\ put \in [Calls -> {"idle", "clear", "save"}]
  BY DEF Init
<1> QED BY <1>1, <1>2, <1>3, <1>4, <1>5, <1>6 DEF Init, TypeOK, WorkerRuns, NextFits, TInv

LEMMA RowType ==
  ASSUME TInv, NEW r \in Rows, RowStep(r) PROVE TInv'
<1> USE DEF TypeOK, WorkerRuns, NextFits, TInv, Write, daemonVars, workVars, putVars
<1>1. writes + 1 \in 0..MaxWrites
  BY EmbedAssumption DEF RowStep, Insert, Supersede, PutScene, DropScene
<1>2. CASE Insert(r)
  BY <1>1, <1>2 DEF Insert
<1>3. CASE Supersede(r)
  BY <1>1, <1>3 DEF Supersede
<1>4. CASE PutScene(r)
  BY <1>1, <1>4 DEF PutScene
<1>5. CASE DropScene(r)
  <2>1. born' \in [Rows -> 0..MaxWrites]
    BY <1>1, <1>5, EmbedAssumption DEF DropScene
  <2>2. vec' \in [Rows -> Vector \cup {None}]
    BY <1>5 DEF DropScene
  <2> QED BY <1>1, <1>5, <2>1, <2>2 DEF DropScene
<1> QED BY <1>2, <1>3, <1>4, <1>5 DEF RowStep

LEMMA WorkerType ==
  ASSUME TInv, Worker \/ Failed PROVE TInv'
<1> USE DEF TypeOK, WorkerRuns, NextFits, TInv, Work, rowVars, daemonVars, putVars
<1>0. NextTier \in 0..4
  BY DEF NextTier
<1>1. CASE BeginCycle
  BY <1>1 DEF BeginCycle
<1>2. CASE Select
  <2>1. batch' \subseteq Entry
    <3>1. Oldest(Pending(tier), BatchSize) \subseteq Rows
      BY DEF Oldest, Pending, There
    <3>2. \A r \in Rows : born[r] \in Nat /\ text[r] \in Nat
      BY EmbedAssumption
    <3> QED BY <1>2, <3>1, <3>2 DEF Select, Entry
  <2>2. tier' \in 0..4 /\ (batch' # {} => tier' = tier)
    BY <1>2, <1>0 DEF Select, Oldest
  <2> QED BY <1>2, <2>1, <2>2 DEF Select
<1>3. CASE Answered
  BY <1>3 DEF Answered
<1>4. CASE Refused
  BY <1>0, <1>4 DEF Refused, GiveUp, AfterFailure
<1>5. ASSUME NEW b \in batch, Store(b) PROVE TInv'
  <2>1. b \in Entry /\ b.row \in Rows /\ b.text \in Nat
    BY DEF Entry
  <2>2. vec' \in [Rows -> Vector \cup {None}]
    <3>1. [model |-> live, text |-> b.text] \in Vector
      BY <2>1 DEF Vector
    <3> QED BY <1>5, <2>1, <3>1 DEF Store
  <2>3. late' \subseteq Rows /\ batch' \subseteq Entry
    BY <1>5, <2>1 DEF Store
  <2>4. tier' \in 0..4 /\ got' \in BOOLEAN /\ (batch' # {} => tier' = tier)
    BY <1>5, <1>0 DEF Store
  <2> QED BY <1>5, <2>2, <2>3, <2>4 DEF Store
<1>6. CASE Failed
  <2>1. faults' \in 0..MaxFaults
    BY <1>6, EmbedAssumption DEF Failed
  <2> QED BY <1>0, <1>6, <2>1 DEF Failed, GiveUp, AfterFailure
<1> QED BY <1>1, <1>2, <1>3, <1>4, <1>5, <1>6 DEF Worker

LEMMA EndType ==
  ASSUME TypeOK, NextFits, NEW c \in Calls, EndPut(c)
  PROVE  /\ put' \in [Calls -> {"idle", "clear", "save"}] /\ next' \in [Calls -> 1..5]
         /\ base' \in [Calls -> Models \cup {Gone}] /\ wish' \in [Calls -> Models]
         /\ NextFits'
BY EmbedAssumption DEF EndPut, TypeOK, NextFits

LEMMA ConfigType ==
  ASSUME TInv, \/ Start \/ Stop \/ Handler
               \/ \E c \in Calls : PutFails(c) \/ \E m \in Models : Put(c, m)
  PROVE  TInv'
<1> USE DEF TypeOK, WorkerRuns, NextFits, TInv, rowVars, daemonVars, workVars, putVars
<1>1. CASE Start
  BY <1>1 DEF Start
<1>2. CASE Stop
  <2>1. faults' \in 0..MaxFaults
    BY <1>2, EmbedAssumption DEF Stop
  <2>2. batch' \subseteq Entry /\ tier' \in 0..4
    BY <1>2 DEF Stop
  <2>3. file' \in Models \cup {Gone} /\ lost' \in BOOLEAN
    BY <1>2 DEF Stop
  <2>4. /\ put' \in [Calls -> {"idle", "clear", "save"}] /\ next' \in [Calls -> 1..5]
        /\ base' \in [Calls -> Models \cup {Gone}] /\ wish' \in [Calls -> Models]
    BY <1>2, EmbedAssumption DEF Stop
  <2> QED BY <1>2, <2>1, <2>2, <2>3, <2>4 DEF Stop
<1>3. ASSUME NEW c \in Calls, NEW m \in Models, Put(c, m) PROVE TInv'
  <2>1. puts' \in 0..MaxPuts
    BY <1>3, EmbedAssumption DEF Put
  <2>2. put' \in [Calls -> {"idle", "clear", "save"}] /\ wish' \in [Calls -> Models]
        /\ base' \in [Calls -> Models \cup {Gone}]
    BY <1>3 DEF Put
  <2> QED BY <1>3, <2>1, <2>2 DEF Put
<1>4. ASSUME NEW c \in Calls, Clear(c) PROVE TInv'
  <2>1. vec' \in [Rows -> Vector \cup {None}] /\ late' \subseteq Rows
    BY <1>4 DEF Clear
  <2>2. put' \in [Calls -> {"idle", "clear", "save"}]
    BY <1>4 DEF Clear
  <2>3. next' \in [Calls -> 1..5]
    BY <1>4 DEF Clear, NextFits
  <2> QED BY <1>4, <2>1, <2>2, <2>3 DEF Clear
<1>5. ASSUME NEW c \in Calls, Save(c) PROVE TInv'
  <2>1. file' \in Models /\ crossed' \in BOOLEAN
    BY <1>5 DEF Save
  <2> QED BY <1>5, <2>1, EndType DEF Save
<1>6. ASSUME NEW c \in Calls, PutFails(c) PROVE TInv'
  <2>1. faults' \in 0..MaxFaults
    BY <1>6, EmbedAssumption DEF PutFails
  <2>2. UNCHANGED <<file, lost>> \/ (file' = Gone /\ lost' = TRUE)
    BY <1>6 DEF PutFails
  <2>3. file' \in Models \cup {Gone} /\ lost' \in BOOLEAN
    BY <2>2
  <2> QED BY <1>6, <2>1, <2>3, EndType DEF PutFails
<1> QED BY <1>1, <1>2, <1>3, <1>4, <1>5, <1>6 DEF Handler

LEMMA TypeStep == TInv /\ [Next]_vars => TInv'
<1> SUFFICES ASSUME TInv, [Next]_vars PROVE TInv'
  OBVIOUS
<1>1. CASE UNCHANGED vars
  BY <1>1 DEF vars, rowVars, daemonVars, workVars, putVars, TypeOK, WorkerRuns, NextFits, TInv
<1>2. CASE Next
  BY <1>2, RowType, WorkerType, ConfigType DEF Next, RowStep
<1> QED BY <1>1, <1>2

(***************************************************************************)
(* The state is well formed, and only a running daemon with settings of    *)
(* its own has a batch (Runner.Start, embed.Worker).                       *)
(***************************************************************************)
THEOREM TypeCorrect == Spec => []TypeOK
<1>1. TInv => TypeOK
  BY DEF TInv
<1> QED BY TypeInit, TypeStep, <1>1, PTL DEF Spec

(* The rows keep their shape, and only a running worker has a batch. *)
THEOREM WorkerInvariant == Spec => []TInv
BY TypeInit, TypeStep, PTL DEF Spec
-----------------------------------------------------------------------------
(* The texts: a vector, or a text on its way to become one, is of the row's *)
(* present text or of a scene known to have been rewritten meanwhile; a     *)
(* row that has none of both has never been inserted.                       *)
Texts ==
  /\ \A r \in Rows : vec[r] # None \/ r \in InBatch \/ r \in There => text[r] # 0
  /\ \A b \in batch : b.text = text[b.row] \/ b.row \in raced
  /\ \A r \in Rows : vec[r] # None => vec[r].text = text[r] \/ r \in raced

LEMMA TextsStep == ASSUME TInv, Texts, [Next]_vars PROVE Texts'
<1> USE DEF TInv, TypeOK, InBatch, There
<1>1. ASSUME NEW r \in Rows, RowStep(r) PROVE Texts'
  <2> USE DEF Write, workVars
  <2>0. \A b \in batch : b.row \in Rows
    BY DEF Entry
  <2>1. CASE Insert(r)
    BY <2>0, <2>1 DEF Insert, Texts
  <2>2. CASE Supersede(r)
    BY <2>0, <2>2 DEF Supersede, Texts
  <2>3. CASE PutScene(r)
    BY <2>0, <2>3 DEF PutScene, Texts
  <2>4. CASE DropScene(r)
    BY <2>0, <2>4 DEF DropScene, Texts
  <2> QED BY <1>1, <2>1, <2>2, <2>3, <2>4 DEF RowStep
<1>2. CASE Select
  <2>1. Oldest(Pending(tier), BatchSize) \subseteq There
    BY DEF Oldest, Pending
  <2>2. \A b \in batch' : b.row \in There /\ b.text = text[b.row]
    BY <1>2, <2>1 DEF Select
  <2>3. UNCHANGED <<text, born, raced, vec>>
    BY <1>2 DEF Select, Work, rowVars
  <2> QED BY <2>2, <2>3 DEF Texts
<1>3. ASSUME NEW b \in batch, Store(b) PROVE Texts'
  <2>1. b.row \in Rows /\ batch' \subseteq batch
    BY <1>3 DEF Entry, Store
  <2>2. UNCHANGED <<text, born, raced>>
    BY <1>3 DEF Store, Work, rowVars
  <2>3. ASSUME NEW r \in Rows, vec'[r] # None
        PROVE  text[r] # 0 /\ (vec'[r].text = text[r] \/ r \in raced)
    <3>1. CASE r = b.row /\ r \in There
      BY <1>3, <2>1, <3>1 DEF Store, Texts
    <3>2. CASE ~(r = b.row /\ r \in There)
      <4>1. vec'[r] = vec[r]
        BY <1>3, <2>1, <3>2 DEF Store
      <4> QED BY <2>3, <4>1 DEF Texts
    <3> QED BY <3>1, <3>2
  <2> QED BY <2>1, <2>2, <2>3 DEF Texts
<1>4. ASSUME NEW c \in Calls, Clear(c) PROVE Texts'
  <2>1. \A r \in Rows : vec'[r] # None => vec'[r] = vec[r]
    BY <1>4 DEF Clear
  <2> QED BY <1>4, <2>1 DEF Clear, rowVars, workVars, Texts
<1>5. CASE BeginCycle \/ Answered \/ Refused \/ Failed
  BY <1>5 DEF BeginCycle, Answered, Refused, Failed, GiveUp, Work, rowVars, Texts
<1>6. CASE \/ Start \/ Stop
            \/ \E c \in Calls : Save(c) \/ PutFails(c) \/ \E m \in Models : Put(c, m)
  BY <1>6 DEF Start, Stop, Save, PutFails, Put, rowVars, workVars, Texts
<1>7. CASE UNCHANGED vars
  BY <1>7 DEF vars, rowVars, workVars, Texts
<1> QED BY <1>1, <1>2, <1>3, <1>4, <1>5, <1>6, <1>7
        DEF Next, Worker, Handler, RowStep

(***************************************************************************)
(* The vector of a row is of its present text, unless the scene was        *)
(* rewritten while the service had its old one (persistScenes clears the   *)
(* vector, embedAndStore writes it back without looking).                  *)
(***************************************************************************)
THEOREM VectorsFollowTexts == Spec => []StaleOnlyIfRaced
<1>1. Init => Texts
  BY DEF Init, Texts, InBatch, There
<1>2. Texts => StaleOnlyIfRaced
  BY DEF Texts, StaleOnlyIfRaced, There
<1> QED BY <1>1, <1>2, TextsStep, WorkerInvariant, PTL DEF Spec
-----------------------------------------------------------------------------
(* The active rows with a vector, and not from a daemon that a PUT has     *)
(* overtaken. *)
OwnVector(r) == Active(r) /\ vec[r] # None /\ r \notin late

(* Where PUTs stand: their vectors are of the saved settings; a PUT has    *)
(* left none in the tiers it went through; and when one comes to save, it  *)
(* went through all of them or saves the settings it loaded.               *)
Settings ==
  /\ ~lost => file \in Models
  /\ ~lost /\ ~crossed => \A r \in Rows : OwnVector(r) => vec[r].model = file
  /\ \A c \in Calls :
       /\ \A r \in Rows : OwnVector(r) => Tier[r] >= next[c]
       /\ put[c] = "save" /\ ~lost => next[c] = 5 \/ wish[c] = base[c]

(* A step that leaves the configuration alone and makes no row's vector    *)
(* its own keeps that.                                                     *)
LEMMA SettingsKept ==
  ASSUME Settings, UNCHANGED <<file, put, next, base, wish, crossed, lost>>,
         \A r \in Rows : OwnVector(r)' => OwnVector(r) /\ vec'[r] = vec[r]
  PROVE  Settings'
BY DEF Settings

LEMMA SettingsStep == ASSUME TInv, Texts, Settings, [Next]_vars PROVE Settings'
<1> USE DEF TInv, TypeOK
<1>1. ASSUME NEW r \in Rows, RowStep(r) PROVE Settings'
  <2> USE DEF Write, putVars, OwnVector, Active, There
  <2>1. CASE Insert(r)
    <3>1. vec[r] = None
      BY <2>1 DEF Insert, Texts
    <3> QED BY <2>1, <3>1, SettingsKept DEF Insert
  <2>2. CASE Supersede(r)
    BY <2>2, SettingsKept DEF Supersede
  <2>3. CASE PutScene(r)
    BY <2>3, SettingsKept DEF PutScene
  <2>4. CASE DropScene(r)
    BY <2>4, SettingsKept DEF DropScene
  <2> QED BY <1>1, <2>1, <2>2, <2>3, <2>4 DEF RowStep
<1>2. ASSUME NEW b \in batch, Store(b) PROVE Settings'
  <2>1. b.row \in Rows
    BY DEF Entry
  <2>2. UNCHANGED <<born, retired, file, put, next, base, wish, crossed, lost>>
    BY <1>2 DEF Store, Work, rowVars, putVars
  <2>3. CASE Late(b.row) \/ b.row \notin There
    BY <1>2, <2>1, <2>2, <2>3, SettingsKept DEF Store, OwnVector, Active, There
  <2>4. CASE ~Late(b.row) /\ b.row \in There
    <3>1. vec'[b.row].model = file
      BY <1>2, <2>1, <2>4 DEF Store, Late
    <3>2. \A r \in Rows \ {b.row} :
             OwnVector(r)' => OwnVector(r) /\ vec'[r] = vec[r]
      BY <1>2, <2>1, <2>2 DEF Store, OwnVector, Active, There
    <3>3. Tier[b.row] \in 1..4 /\ \A c \in Calls : next[c] \in 1..5
      BY <2>1, EmbedAssumption DEF Tiers
    <3>4. \A c \in Calls : Tier[b.row] >= next[c]
      BY <2>4, <3>3 DEF Late
    <3> QED BY <2>2, <3>1, <3>2, <3>4 DEF Settings
  <2> QED BY <2>3, <2>4
<1>3. ASSUME NEW c \in Calls, Clear(c) PROVE Settings'
  <2>1. \A r \in Rows : OwnVector(r)' =>
           OwnVector(r) /\ vec'[r] = vec[r] /\ Tier[r] # next[c]
    BY <1>3 DEF Clear, Cleared, OwnVector, Active, There, rowVars
  <2>2. \A r \in Rows : Tier[r] \in 1..4
    BY EmbedAssumption DEF Tiers
  <2>3. next[c] \in 1..4
    BY <1>3 DEF Clear, NextFits
  <2>4. \A r \in Rows : OwnVector(r)' => Tier[r] >= next[c] + 1
    BY <2>1, <2>2, <2>3 DEF Settings
  <2>5. /\ put[c] = "clear" /\ next'[c] = next[c] + 1
        /\ \A d \in Calls \ {c} : next'[d] = next[d] /\ put'[d] = put[d]
    BY <1>3 DEF Clear
  <2>6. next[c] # 4 => put'[c] = "clear"
    BY <1>3 DEF Clear
  <2>7. UNCHANGED <<file, crossed, lost, base, wish>>
    BY <1>3 DEF Clear
  <2>8. \A d \in Calls : put'[d] = "save" /\ ~lost => next'[d] = 5 \/ wish[d] = base[d]
    <3> SUFFICES ASSUME NEW d \in Calls, put'[d] = "save", ~lost
                 PROVE  next'[d] = 5 \/ wish[d] = base[d]
      OBVIOUS
    <3>1. CASE d = c
      BY <2>5, <2>6, <3>1
    <3>2. CASE d # c
      BY <2>5, <3>2 DEF Settings
    <3> QED BY <3>1, <3>2
  <2>9. \A d \in Calls : \A r \in Rows : OwnVector(r)' => Tier[r] >= next'[d]
    BY <2>1, <2>4, <2>5 DEF Settings
  <2>10. ~lost /\ ~crossed => \A r \in Rows : OwnVector(r)' => vec'[r].model = file
    BY <2>1 DEF Settings
  <2>11. ~lost => file \in Models
    BY DEF Settings
  <2> QED BY <2>7, <2>8, <2>9, <2>10, <2>11 DEF Settings
<1>4. ASSUME NEW c \in Calls, NEW m \in Models, Put(c, m) PROVE Settings'
  <2>1. \A r \in Rows : OwnVector(r)' <=> OwnVector(r)
    BY <1>4 DEF Put, OwnVector, Active, There, rowVars
  <2>2. UNCHANGED <<file, crossed, lost, vec, next>> /\ wish' = [wish EXCEPT ![c] = m]
        /\ base' = [base EXCEPT ![c] = file]
        /\ put' = [put EXCEPT ![c] = IF Changed(m) THEN "clear" ELSE "save"]
    BY <1>4 DEF Put
  <2>3. ~lost /\ ~Changed(m) => m = file
    BY EmbedAssumption DEF Changed, Settings
  <2>4. \A d \in Calls : put'[d] = "save" /\ ~lost => next[d] = 5 \/ wish'[d] = base'[d]
    BY <2>2, <2>3 DEF Settings
  <2> QED BY <2>1, <2>2, <2>4 DEF Settings
<1>5. ASSUME NEW c \in Calls, Save(c) PROVE Settings'
  <2>1. \A r \in Rows : OwnVector(r)' <=> OwnVector(r)
    BY <1>5 DEF Save, OwnVector, Active, There, rowVars
  <2>2. /\ file' = wish[c] /\ crossed' = (crossed \/ file # base[c]) /\ UNCHANGED <<lost, vec>>
        /\ put' = [put EXCEPT ![c] = "idle"] /\ next' = [next EXCEPT ![c] = 1]
        /\ base' = [base EXCEPT ![c] = Default] /\ wish' = [wish EXCEPT ![c] = Default]
        /\ put[c] = "save"
    BY <1>5 DEF Save, EndPut
  <2>3. \A r \in Rows : Tier[r] \in 1..4
    BY EmbedAssumption DEF Tiers
  <2>4. ~lost /\ ~crossed' => \A r \in Rows : OwnVector(r) => vec[r].model = wish[c]
    <3>1. CASE next[c] = 5
      <4>1. \A r \in Rows : ~OwnVector(r)
        BY <2>3, <3>1 DEF Settings
      <4> QED BY <4>1
    <3>2. CASE lost
      BY <3>2
    <3>3. CASE wish[c] = base[c]
      BY <2>2, <3>3 DEF Settings
    <3> QED BY <2>2, <3>1, <3>2, <3>3 DEF Settings
  <2>5. \A d \in Calls : \A r \in Rows : OwnVector(r) => Tier[r] >= next'[d]
    BY <2>2, <2>3 DEF Settings
  <2>6. \A d \in Calls : put'[d] = "save" /\ ~lost => next'[d] = 5 \/ wish'[d] = base'[d]
    BY <2>2 DEF Settings
  <2> QED BY <2>1, <2>2, <2>4, <2>5, <2>6 DEF Settings
<1>6. ASSUME \/ Stop
             \/ \E c \in Calls : PutFails(c)
      PROVE  Settings'
  <2>1. \A r \in Rows : OwnVector(r)' <=> OwnVector(r)
    BY <1>6 DEF Stop, PutFails, OwnVector, Active, There, rowVars
  <2>2. /\ UNCHANGED <<vec, crossed>> /\ (UNCHANGED <<file, lost>> \/ lost' = TRUE)
        /\ \A d \in Calls : \/ put'[d] = "idle" /\ next'[d] = 1
                           \/ /\ put'[d] = put[d] /\ next'[d] = next[d]
                              /\ base'[d] = base[d] /\ wish'[d] = wish[d]
    BY <1>6 DEF Stop, PutFails, EndPut
  <2>3. \A r \in Rows : Tier[r] \in 1..4
    BY EmbedAssumption DEF Tiers
  <2>4. \A d \in Calls : \A r \in Rows : OwnVector(r) => Tier[r] >= next'[d]
    BY <2>2, <2>3 DEF Settings
  <2>5. \A d \in Calls : put'[d] = "save" /\ ~lost' => next'[d] = 5 \/ wish'[d] = base'[d]
    BY <2>2 DEF Settings
  <2> QED BY <2>1, <2>2, <2>4, <2>5 DEF Settings
<1>7. CASE Start \/ BeginCycle \/ Select \/ Answered \/ Refused \/ Failed
  BY <1>7, SettingsKept
  DEF Start, BeginCycle, Select, Answered, Refused, Failed, GiveUp, Work, rowVars,
      putVars, OwnVector, Active, There
<1>8. CASE UNCHANGED vars
  BY <1>8, SettingsKept DEF vars, rowVars, putVars, OwnVector, Active, There
<1> QED BY <1>1, <1>2, <1>3, <1>4, <1>5, <1>6, <1>7, <1>8
        DEF Next, Worker, Handler, RowStep

(***************************************************************************)
(* A vector of other settings than the saved ones was stored, after a PUT  *)
(* had cleared its tier, by a daemon not restarted since; unless the file  *)
(* was lost in a save, or a PUT saved over settings it had not seen.       *)
(* (handlePutConfig clears, then saves)                                    *)
(***************************************************************************)
THEOREM NoForeignVector == Spec => []OnlyLateForeign
<1>1. Init => Texts /\ Settings
  BY DEF Init, Texts, InBatch, There, Settings, OwnVector, Active
<1>2. Settings => OnlyLateForeign
  BY DEF Settings, OnlyLateForeign, OwnVector, Active, There
<1>3. TInv /\ Texts /\ Settings /\ [Next]_vars => (Texts /\ Settings)'
  BY TextsStep, SettingsStep
<1> QED BY <1>1, <1>2, <1>3, WorkerInvariant, PTL DEF Spec
=============================================================================
