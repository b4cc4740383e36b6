------------------------------- MODULE Embed -------------------------------
(***************************************************************************)
(* The vectors of the stored rows: the embed worker fills them in, tier by *)
(* tier; the pipeline and the editor of skills add, rewrite and supersede  *)
(* rows; and PUT /api/config may change the embedding model, for which it  *)
(* clears all vectors (reembed.ClearAll) before it saves the file.         *)
(*                                                                         *)
(* A daemon keeps the model it was started with: the worker goes on with   *)
(* it until the restart that the settings page asks for.  The worker reads *)
(* a batch of texts, calls the service, and stores each vector by row id   *)
(* without looking at the row again.                                       *)
(***************************************************************************)
EXTENDS Naturals, FiniteSets

CONSTANTS
  Rows,         \* the ids of all rows
  Tier,         \* the tier of each, by its place in the cycle: see Tiers
  Poison,       \* rows whose text the service always refuses
  Calls,        \* room for PUT requests under way: nothing serialises them
  Models,       \* embedding settings (base, model, dimensions)
  Default,      \* those of config.Default
  BatchSize,    \* embed_batch_size
  Gone,         \* no embedding settings usable: the file was lost with its keys
  None,         \* no vector
  MaxWrites, MaxPuts, MaxFaults  \* (bound the model)

Tiers == 1..4
Atoms == 1
Scenes == 2
Memories == 3
Skills == 4

ASSUME EmbedAssumption ==
  /\ Tier \in [Rows -> Tiers]
  /\ Poison \subseteq Rows
  /\ Default \in Models /\ Gone \notin Models
  /\ BatchSize \in Nat \ {0}
  /\ MaxWrites \in Nat /\ MaxPuts \in Nat /\ MaxFaults \in Nat

VARIABLES
  born,     \* which of the writes inserted a row (created_at); 0: there is none
  retired,  \* those of them that are superseded
  text,     \* which of its texts a row has; 0 before the first
  vec,      \* the stored vector, by the model and the text it is of
  file,     \* the settings in the configuration file
  up, live, \* is a daemon running, and with which settings
  tier,     \* the worker's place in its cycle, 0 between cycles
  batch,    \* what it has read and not stored yet: rows, their texts and ages
  got,      \* has the service answered
  put,      \* what each PUT is at: idle, clear, save
  next,     \* the tier it clears next, 5 when it has cleared all
  base,     \* the settings it loaded
  wish,     \* the settings it is to save
  late,     \* (history) rows stored after a PUT had cleared their tier: see Late
  raced,    \* (history) scenes rewritten while the worker had their old text
  crossed,  \* (history) a PUT saved over the settings of one it had not seen
  lost,     \* (history) the file was cut short once
  writes, puts, faults

rowVars    == <<born, retired, text>>
daemonVars == <<up, live>>
workVars   == <<tier, batch, got>>
putVars    == <<put, next, base, wish>>
vars == <<rowVars, vec, file, daemonVars, workVars, putVars, late, raced, crossed, lost,
          writes, puts, faults>>

Vector == [model : Models, text : Nat]

Entry == [row : Rows, text : Nat, born : Nat]

There == {r \in Rows : born[r] # 0}

Active(r) == r \in There \ retired

Oldest(S, n) == {r \in S : Cardinality({q \in S : born[q] < born[r]}) < n}

InBatch == {b.row : b \in batch}

-----------------------------------------------------------------------------
Init ==
  /\ born = [r \in Rows |-> 0] /\ retired = {}
  /\ text = [r \in Rows |-> 0]
  /\ vec = [r \in Rows |-> None]
  /\ file \in Models
  /\ up = FALSE /\ live = file
  /\ tier = 0 /\ batch = {} /\ got = FALSE
  /\ put = [c \in Calls |-> "idle"] /\ next = [c \in Calls |-> 1]
  /\ base = [c \in Calls |-> Default] /\ wish = [c \in Calls |-> Default]
  /\ late = {} /\ raced = {} /\ crossed = FALSE /\ lost = FALSE
  /\ writes = 0 /\ puts = 0 /\ faults = 0

(***************************************************************************)
(* The rows.                                                               *)
(***************************************************************************)
Write ==
  /\ up /\ writes < MaxWrites
  /\ writes' = writes + 1
  /\ UNCHANGED <<file, daemonVars, workVars, putVars, crossed, lost, puts, faults>>

(* A new atom, version of a memory or version of a skill. *)
Insert(r) ==
  /\ Tier[r] # Scenes /\ text[r] = 0
  /\ Write
  /\ born' = [born EXCEPT ![r] = writes + 1]
  /\ text' = [text EXCEPT ![r] = 1]
  /\ UNCHANGED <<retired, vec, late, raced>>

(* The version of a memory or a skill gives way to another. *)
Supersede(r) ==
  /\ Tier[r] \in {Memories, Skills} /\ Active(r)
  /\ Write
  /\ retired' = retired \cup {r}
  /\ UNCHANGED <<born, text, vec, late, raced>>

(* Variant: the vector of the old text stays. *)
BadPutScene(r) ==
  /\ Tier[r] = Scenes
  /\ Write
  /\ born' = IF r \in There THEN born ELSE [born EXCEPT ![r] = writes + 1]
  /\ text' = [text EXCEPT ![r] = @ + 1]
  /\ raced' = IF r \in InBatch THEN raced \cup {r} ELSE raced \ {r}
  /\ UNCHANGED <<vec, late, retired>>

(* persistScenes inserts the scene or rewrites it in place, without vector. *)
PutScene(r) ==
  /\ Tier[r] = Scenes
  /\ Write
  /\ born' = IF r \in There THEN born ELSE [born EXCEPT ![r] = writes + 1]
  /\ text' = [text EXCEPT ![r] = @ + 1]
  /\ vec' = [vec EXCEPT ![r] = None]
  /\ late' = late \ {r}
  /\ raced' = IF r \in InBatch THEN raced \cup {r} ELSE raced \ {r}
  /\ UNCHANGED retired

(* The scene is not among those of its session any more. *)
DropScene(r) ==
  /\ Tier[r] = Scenes /\ r \in There
  /\ Write
  /\ born' = [born EXCEPT ![r] = 0]
  /\ vec' = [vec EXCEPT ![r] = None]
  /\ UNCHANGED <<retired, text, late, raced>>
-----------------------------------------------------------------------------
(***************************************************************************)
(* The worker.                                                             *)
(***************************************************************************)
Work == up /\ UNCHANGED <<rowVars, file, daemonVars, putVars, raced, crossed, lost, writes, puts>>

(* Variant: the cycle forgets to end. *)
BadNextTier == tier + 1

NextTier == (tier + 1) % 5

(* Variant: one tier that fails ends the cycle. *)
BadAfterFailure == 0

(* After a failure the cycle goes on with the next tier. *)
AfterFailure == NextTier

Pending(t) == {r \in There : Tier[r] = t /\ r \notin retired /\ vec[r] = None}

(* Without a key for the embedding service there is no worker. *)
BeginCycle ==
  /\ Work
  /\ live # Gone /\ tier = 0
  /\ tier' = 1
  /\ UNCHANGED <<vec, batch, got, late, faults>>

Select ==
  /\ Work
  /\ tier # 0 /\ batch = {}
  /\ batch' = {[row |-> r, text |-> text[r], born |-> born[r]] :
                  r \in Oldest(Pending(tier), BatchSize)}
  /\ tier' = IF Pending(tier) = {} THEN NextTier ELSE tier
  /\ UNCHANGED <<vec, got, late, faults>>

Answered ==
  /\ Work
  /\ batch # {} /\ ~got
  /\ InBatch \cap Poison = {}
  /\ got' = TRUE
  /\ UNCHANGED <<vec, tier, batch, late, faults>>

(* The batch is given up: it is read again in a later cycle. *)
GiveUp ==
  /\ batch' = {} /\ got' = FALSE
  /\ tier' = AfterFailure
  /\ UNCHANGED <<vec, late>>

(* The service refuses a text of the batch (400, not retried). *)
Refused ==
  /\ Work
  /\ batch # {} /\ ~got /\ InBatch \cap Poison # {}
  /\ GiveUp
  /\ UNCHANGED faults

(* The service is away or throttles beyond the retries, or a store fails. *)
Failed ==
  /\ Work
  /\ batch # {} /\ faults < MaxFaults
  /\ faults' = faults + 1
  /\ GiveUp

(* A PUT has cleared the tier of r, or saved since the daemon started. *)
Late(r) == live # file \/ \E c \in Calls : next[c] > Tier[r]

(* The vectors go in one by one, in the order the rows were read; the      *)
(* UPDATE of a row that is gone changes nothing.                           *)
Store(b) ==
  /\ Work
  /\ got /\ \A c \in batch : b.born <= c.born
  /\ vec' = IF b.row \in There
            THEN [vec EXCEPT ![b.row] = [model |-> live, text |-> b.text]] ELSE vec
  /\ late' = IF Late(b.row) THEN late \cup {b.row} ELSE late \ {b.row}
  /\ batch' = batch \ {b}
  /\ IF batch' = {} THEN got' = FALSE /\ tier' = NextTier
     ELSE UNCHANGED <<got, tier>>
  /\ UNCHANGED faults

-----------------------------------------------------------------------------
(***************************************************************************)
(* The daemon and its configuration.                                       *)
(***************************************************************************)
Start ==
  /\ ~up
  /\ up' = TRUE /\ live' = file
  /\ UNCHANGED <<rowVars, vec, file, workVars, putVars, late, raced, crossed, lost, writes, puts, faults>>

AtSave == \E c \in Calls : put[c] = "save"

(* A restart, or a crash: what was in memory is gone.  os.WriteFile empties *)
(* the file before it writes, so a crash there loses settings and keys.     *)
Stop ==
  /\ up /\ faults < MaxFaults
  /\ faults' = faults + 1
  /\ up' = FALSE
  /\ batch' = {} /\ got' = FALSE /\ tier' = 0
  /\ put' = [c \in Calls |-> "idle"] /\ next' = [c \in Calls |-> 1]
  /\ base' = [c \in Calls |-> Default] /\ wish' = [c \in Calls |-> Default]
  /\ \/ UNCHANGED <<file, lost>>
     \/ AtSave /\ file' = Gone /\ lost' = TRUE
  /\ UNCHANGED <<rowVars, vec, live, late, raced, crossed, writes, puts>>

(* SettingsChanged: a lost file reads as the defaults. *)
Changed(m) == m # (IF file = Gone THEN Default ELSE file)

(* PUT /api/config, with the embedding settings it leaves the file with.   *)
Put(c, m) ==
  /\ up /\ puts < MaxPuts
  /\ put[c] = "idle" /\ c = CHOOSE d \in Calls : put[d] = "idle"
  /\ puts' = puts + 1
  /\ base' = [base EXCEPT ![c] = file]
  /\ wish' = [wish EXCEPT ![c] = m]
  /\ put' = [put EXCEPT ![c] = IF Changed(m) THEN "clear" ELSE "save"]
  /\ UNCHANGED <<rowVars, vec, file, daemonVars, workVars, next, late, raced, crossed, lost,
                 writes, faults>>

(* Variant: a row that is not superseded keeps its vector. *)
BadCleared(t) == {r \in retired : Tier[r] = t}

(* What the UPDATE of a tier clears: superseded versions keep theirs. *)
Cleared(t) == {r \in There : Tier[r] = t /\ r \notin retired}

Clear(c) ==
  /\ put[c] = "clear"
  /\ vec' = [r \in Rows |-> IF r \in Cleared(next[c]) THEN None ELSE vec[r]]
  /\ late' = late \ Cleared(next[c])
  /\ next' = [next EXCEPT ![c] = @ + 1]
  /\ put' = IF next[c] = 4 THEN [put EXCEPT ![c] = "save"] ELSE put
  /\ UNCHANGED <<rowVars, file, daemonVars, workVars, base, wish, raced, crossed, lost,
                 writes, puts, faults>>

EndPut(c) ==
  /\ put' = [put EXCEPT ![c] = "idle"] /\ next' = [next EXCEPT ![c] = 1]
  /\ base' = [base EXCEPT ![c] = Default] /\ wish' = [wish EXCEPT ![c] = Default]

(* The whole file, as the PUT loaded and changed it. *)
Save(c) ==
  /\ put[c] = "save"
  /\ file' = wish[c]
  /\ crossed' = (crossed \/ file # base[c])
  /\ EndPut(c)
  /\ UNCHANGED <<rowVars, vec, daemonVars, workVars, late, raced, lost,
                 writes, puts, faults>>

(* A statement or the write of the file fails: the reply is an error, what *)
(* was cleared stays cleared, and the write may have emptied the file.     *)
PutFails(c) ==
  /\ put[c] # "idle" /\ faults < MaxFaults
  /\ faults' = faults + 1
  /\ EndPut(c)
  /\ \/ UNCHANGED <<file, lost>>
     \/ put[c] = "save" /\ file' = Gone /\ lost' = TRUE
  /\ UNCHANGED <<rowVars, vec, daemonVars, workVars, late, raced, crossed,
                 writes, puts>>

-----------------------------------------------------------------------------
Worker == BeginCycle \/ Select \/ Answered \/ Refused \/ \E b \in batch : Store(b)

Handler == \E c \in Calls : Clear(c) \/ Save(c)

Next ==
  \/ \E r \in Rows : Insert(r) \/ Supersede(r) \/ PutScene(r) \/ DropScene(r)
  \/ Worker \/ Failed
  \/ Start \/ Stop
  \/ Handler
  \/ \E c \in Calls : PutFails(c) \/ \E m \in Models : Put(c, m)

Spec == Init /\ [][Next]_vars

(* The scheduler runs the goroutines, a stopped daemon is started again.   *)
Fairness == WF_vars(Worker) /\ WF_vars(Handler) /\ WF_vars(Start)

FairSpec == Spec /\ Fairness

-----------------------------------------------------------------------------
(* What the variables hold. *)
TypeOK ==
  /\ born \in [Rows -> 0..MaxWrites] /\ retired \subseteq Rows
  /\ text \in [Rows -> Nat]
  /\ vec \in [Rows -> Vector \cup {None}]
  /\ file \in Models \cup {Gone} /\ live \in Models \cup {Gone}
  /\ up \in BOOLEAN /\ got \in BOOLEAN /\ crossed \in BOOLEAN /\ lost \in BOOLEAN
  /\ tier \in 0..4 /\ next \in [Calls -> 1..5]
  /\ batch \subseteq Entry
  /\ put \in [Calls -> {"idle", "clear", "save"}]
  /\ base \in [Calls -> Models \cup {Gone}] /\ wish \in [Calls -> Models]
  /\ late \subseteq Rows /\ raced \subseteq Rows
  /\ writes \in 0..MaxWrites /\ puts \in 0..MaxPuts /\ faults \in 0..MaxFaults

(* A vector of other settings than the saved ones can only come from the   *)
(* worker of a daemon that has not been restarted, stored after a PUT had  *)
(* cleared its tier: whether PUTs end, fail half way, or the daemon dies   *)
(* in one (clear first, save last), no vector is left over.  Once the file *)
(* was lost in a save, or a PUT saved settings older than the file's as    *)
(* unchanged, this no longer holds.                                        *)
OnlyLateForeign ==
  ((\A c \in Calls : put[c] = "idle") /\ ~lost /\ ~crossed) =>
    \A r \in There \ retired : vec[r] # None /\ vec[r].model # file => r \in late

(* The vector of a row is that of its text, or else the scene was rewritten *)
(* while the worker had its old text under way (persistScenes clears the    *)
(* vector, embedAndStore does not look again).                              *)
StaleOnlyIfRaced ==
  \A r \in There : vec[r] # None /\ vec[r].text # text[r] => r \in raced

(* A row of a tier without refused texts gets a vector, whatever the other *)
(* tiers do, unless the daemon has to run without settings: errors of the  *)
(* service, restarts and clears only delay it.                             *)
EveryRowEmbedded ==
  <>[](live # Gone) =>
    \A r \in Rows :
      (\A p \in Poison : Tier[p] # Tier[r]) =>
        [](Active(r) => <>(~Active(r) \/ vec[r] # None))
=============================================================================
