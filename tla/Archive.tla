------------------------------ MODULE Archive ------------------------------
(***************************************************************************)
(* What becomes of memories that are used or not: the usage statistics     *)
(* (recallstats), the archive of cold memories that the doctor proposes,   *)
(* the garbage collection of superseded versions (hygiene) and the         *)
(* backfill of missing provenance.                                         *)
(*                                                                         *)
(* A use is recorded by a goroutine that reads the heat, then writes it    *)
(* back, then looks for the search that led to it.  The doctor's calls are *)
(* requests of the console or the command line, which may overlap.  L3     *)
(* writes new versions in between, or new sources into the present one.    *)
(***************************************************************************)
EXTENDS Naturals, FiniteSets, Sequences

CONSTANTS
  Memories,     \* URIs of memories
  Profile,      \* rmb://profile among them
  Users,        \* goroutines that record a use
  ColdWindow,   \* ColdWindowDays in periods of 30 days (HeatTau)
  Histories,    \* the rows of the memories at the beginning
  KeepVersions, \* versions that the garbage collection keeps of each URI,
  KeepPeriods,  \* and the age below which it keeps any
  MaxTime,      \* (bounds the model)
  MaxEvents     \* calls, uses and writes in all (bounds the model)

ASSUME ArchiveAssumption ==
  /\ Profile \in Memories
  /\ ColdWindow \in Nat /\ KeepVersions \in Nat \ {0} /\ KeepPeriods \in Nat \ {0}
  /\ MaxTime \in 0..7 /\ MaxEvents \in Nat

VARIABLES
  now,         \* the time, in periods
  versions,    \* the rows of each URI, oldest first; the last is active
  corrected,   \* URIs that a correction not retracted targets
  heat,        \* recall_stats.heat in thousandths
  lastUse,     \* recall_stats.last_use_at, or Never
  cats, metas, \* recall_stats.cat_count, meta_count
  seen,        \* recall_stats.search_count
  use,         \* what each goroutine is recording
  queries,     \* search_queries, oldest first
  doomed,      \* versions the garbage collections have yet to delete
  began,       \* when the last of them began
  orphans,     \* backfills that have each URI on their list yet to link
  raced,       \* (history) URIs that L3 wrote last while on such a list
  events

usage == <<heat, lastUse, cats, metas, seen>>
vars == <<now, versions, corrected, usage, use, queries, doomed, began,
          orphans, raced, events>>

Never == MaxTime + 1

(* A row: when it was updated, the scenes it has as sources (its own, none,*)
(* or guessed by the backfill), and whether it was written with its own.   *)
Version == [at : 0..MaxTime, sources : {"own", "none", "guess"}, real : BOOLEAN,
            archived : BOOLEAN, deleted : BOOLEAN]

Kinds == {"cat", "meta"}

Idle == [step |-> "idle", uri |-> Profile, kind |-> "cat", at |-> 0, heat |-> 0]

Use == [step : {"idle", "write", "join"}, uri : Memories, kind : Kinds,
        at : 0..MaxTime, heat : Nat]

Query == [top : SUBSET Memories, recent : BOOLEAN, converted : BOOLEAN]

ASSUME HistoriesAssumption ==
  /\ Histories \subseteq [Memories -> Seq(Version) \ {<<>>}]
  /\ \A h \in Histories, u \in Memories : \A v \in DOMAIN h[u] :
       ~h[u][v].deleted /\ h[u][v].at = 0 /\ (h[u][v].real <=> h[u][v].sources = "own")

(* Variant: dated at the end of the period. *)
BadRow(sources) == [at |-> now + 1, sources |-> sources, real |-> sources = "own",
                    archived |-> FALSE, deleted |-> FALSE]

Row(sources) == [at |-> now, sources |-> sources, real |-> sources = "own",
                 archived |-> FALSE, deleted |-> FALSE]

Active(u) == Len(versions[u])

Superseded(u) == {v \in 1..(Active(u) - 1) : ~versions[u][v].deleted}

-----------------------------------------------------------------------------
(* Heat: e^(-n) after n periods, in thousandths. *)

Decay == <<368, 135, 50, 18, 7, 2, 1>>

Decayed(h, since) == IF now = since THEN h ELSE (h * Decay[now - since]) \div 1000

Weight(kind) == IF kind = "cat" THEN 1000 ELSE 300

HeatEpsilon == 50

DecayHeat(u, kind) ==
  Weight(kind) + IF lastUse[u] = Never THEN heat[u] ELSE Decayed(heat[u], lastUse[u])

-----------------------------------------------------------------------------
Init ==
  /\ now = 0
  /\ versions \in Histories
  /\ corrected = {}
  /\ heat = [u \in Memories |-> 0] /\ lastUse = [u \in Memories |-> Never]
  /\ cats = [u \in Memories |-> 0] /\ metas = [u \in Memories |-> 0]
  /\ seen = [u \in Memories |-> 0]
  /\ use = [g \in Users |-> Idle]
  /\ queries = <<>>
  /\ doomed = {} /\ began = 0
  /\ orphans = [u \in Memories |-> 0] /\ raced = {}
  /\ events = 0

Event == events < MaxEvents /\ events' = events + 1

Pass ==
  /\ now < MaxTime
  /\ now' = now + 1
  /\ queries' = [i \in DOMAIN queries |-> [queries[i] EXCEPT !.recent = FALSE]]
  /\ UNCHANGED <<versions, corrected, usage, use, doomed, began, orphans,
                 raced, events>>

(* SearchCatWindow passes: later uses are not the fruit of these searches. *)
QueriesAge ==
  /\ \E i \in DOMAIN queries : queries[i].recent
  /\ queries' = [i \in DOMAIN queries |-> [queries[i] EXCEPT !.recent = FALSE]]
  /\ UNCHANGED <<now, versions, corrected, usage, use, doomed, began, orphans,
                 raced, events>>

-----------------------------------------------------------------------------
(***************************************************************************)
(* Usage.                                                                  *)
(***************************************************************************)
Usage == UNCHANGED <<now, versions, corrected, doomed, began, orphans, raced>>

(* Variant: being shown in a search warms a memory. *)
BadRecordSearch(top) ==
  /\ seen' = [u \in Memories |-> IF u \in top THEN seen[u] + 1 ELSE seen[u]]
  /\ heat' = [u \in Memories |-> IF u \in top THEN heat[u] + 50 ELSE heat[u]]
  /\ UNCHANGED <<lastUse, cats, metas>>

(* A search shows some memories: counters only. *)
RecordSearch(top) ==
  /\ seen' = [u \in Memories |-> IF u \in top THEN seen[u] + 1 ELSE seen[u]]
  /\ UNCHANGED <<heat, lastUse, cats, metas>>

(* The two goroutines of a search, RecordSearch and RecordQuery, touch     *)
(* different tables.                                                       *)
Search(top) ==
  /\ Event
  /\ RecordSearch(top)
  /\ queries' = Append(queries, [top |-> top, recent |-> TRUE, converted |-> FALSE])
  /\ Usage /\ UNCHANGED use

(* cat or meta of u: its goroutine takes the time and reads the heat. *)
ReadHeat(g, u, kind) ==
  /\ use[g].step = "idle"
  /\ Event
  /\ use' = [use EXCEPT ![g] = [step |-> "write", uri |-> u, kind |-> kind, at |-> now,
                                heat |-> DecayHeat(u, kind)]]
  /\ Usage /\ UNCHANGED <<usage, queries>>

(* The heat it computed replaces the stored one, whatever was stored since; *)
(* the counters count up in the statement.                                  *)
WriteHeat(g) ==
  LET u == use[g].uri IN
  /\ use[g].step = "write"
  /\ heat' = [heat EXCEPT ![u] = use[g].heat]
  /\ lastUse' = [lastUse EXCEPT ![u] = use[g].at]
  /\ IF use[g].kind = "cat"
     THEN cats' = [cats EXCEPT ![u] = @ + 1] /\ UNCHANGED metas
     ELSE metas' = [metas EXCEPT ![u] = @ + 1] /\ UNCHANGED cats
  /\ use' = [use EXCEPT ![g].step = IF use[g].kind = "cat" THEN "join" ELSE "idle"]
  /\ Usage /\ UNCHANGED <<seen, queries, events>>

(* The latest search of the last ten minutes that showed u and led to no   *)
(* use yet.                                                                *)
Leading(u) ==
  LET Open == {i \in DOMAIN queries :
                 queries[i].recent /\ ~queries[i].converted /\ u \in queries[i].top}
  IN  {i \in Open : \A j \in Open : j <= i}

Join(g) ==
  /\ use[g].step = "join"
  /\ queries' = [i \in DOMAIN queries |->
       IF i \in Leading(use[g].uri) THEN [queries[i] EXCEPT !.converted = TRUE] ELSE queries[i]]
  /\ use' = [use EXCEPT ![g].step = "idle"]
  /\ Usage /\ UNCHANGED <<usage, events>>

-----------------------------------------------------------------------------
(***************************************************************************)
(* The archive.                                                            *)
(***************************************************************************)
Doctor ==
  /\ Event
  /\ UNCHANGED <<now, corrected, usage, use, queries, raced>>

Archived(u) == versions[u][Active(u)].archived

(* The archival policy: the stored heat is compared as it was written at   *)
(* the last use.                                                           *)
IsCold(u) ==
  /\ ~Archived(u) /\ u # Profile /\ u \notin corrected
  /\ heat[u] <= HeatEpsilon
  /\ lastUse[u] # Never => lastUse[u] + ColdWindow < now

Candidates == {u \in Memories : IsCold(u)}

SetArchived(S, b) ==
  versions' = [u \in Memories |->
    IF u \in S THEN [versions[u] EXCEPT ![Active(u)].archived = b] ELSE versions[u]]

(* Approve all candidates of the moment; or the URIs sent, most of them    *)
(* from the list that was shown before, of which nothing is looked up again. *)
Apply(S) ==
  /\ Doctor
  /\ SetArchived(S, TRUE)
  /\ UNCHANGED <<doomed, began, orphans>>

Approve ==
  \/ Apply(Candidates)
  \/ \E S \in SUBSET Memories \ {{}} : Apply(S)

Restore ==
  /\ Doctor
  /\ \/ \E S \in SUBSET Memories \ {{}} : SetArchived(S, FALSE)
     \/ versions' = [u \in Memories |->
            [v \in DOMAIN versions[u] |-> [versions[u][v] EXCEPT !.archived = FALSE]]]
  /\ UNCHANGED <<doomed, began, orphans>>

-----------------------------------------------------------------------------
(***************************************************************************)
(* Garbage collection and backfill.                                        *)
(***************************************************************************)
At(u, v) == versions[u][v].at

(* The order of the list: the newest first by updated_at, rows of the same *)
(* time as they lie in the table.                                          *)
Before(u, v, w) == At(u, v) > At(u, w) \/ (At(u, v) = At(u, w) /\ v < w)

(* The first n superseded versions of u, or all of them if they are fewer. *)
Chosen(u, n) ==
  {K \in SUBSET Superseded(u) :
     /\ Cardinality(K) = IF Cardinality(Superseded(u)) < n THEN Cardinality(Superseded(u)) ELSE n
     /\ \A v \in K, w \in Superseded(u) \ K : Before(u, v, w)}

(* Variant: the first row of a URI counts as the one that is active.       *)
BadNewest(u) == Chosen(u, KeepVersions - 1)

Newest(u) == Chosen(u, KeepVersions)

(* SupersededGC chooses the rows in one query and deletes them one by one. *)
(* Nothing keeps a second call from doing so meanwhile; but one that is    *)
(* still going a period (thirty days) after it began is not considered.    *)
StartGC ==
  /\ Doctor
  /\ doomed # {} => began = now
  /\ began' = now
  /\ \E keep \in [Memories -> UNION {Newest(u) : u \in Memories}] :
       /\ \A u \in Memories : keep[u] \in Newest(u)
       /\ doomed' = doomed \cup
            UNION {{<<u, v>> : v \in {w \in Superseded(u) \ keep[u] :
                                     At(u, w) + KeepPeriods <= now}} : u \in Memories}
  /\ UNCHANGED <<versions, orphans>>

Delete(d) ==
  /\ d \in doomed
  /\ doomed' = doomed \ {d}
  /\ versions' = [versions EXCEPT ![d[1]][d[2]].deleted = TRUE]
  /\ UNCHANGED <<now, corrected, usage, use, queries, began, orphans, raced, events>>

(* Variant: memories that have sources are scanned too. *)
BadUnlinked == Memories

(* The active versions without sources (that have a vector). *)
Unlinked == {u \in Memories : versions[u][Active(u)].sources = "none"}

(* BackfillProvenance reads the URIs first; a second call may follow.      *)
StartBackfill ==
  /\ Doctor
  /\ \E S \in SUBSET Unlinked :
       orphans' = [u \in Memories |-> IF u \in S THEN orphans[u] + 1 ELSE orphans[u]]
  /\ UNCHANGED <<versions, doomed, began>>

Listed(u) == orphans[u] > 0

(* Some scenes are similar to u: all rows with that URI get them as        *)
(* sources, and the present time.  Or none is.                             *)
Link(u) ==
  /\ Listed(u)
  /\ orphans' = [orphans EXCEPT ![u] = @ - 1]
  /\ \/ versions' = [versions EXCEPT ![u] = [v \in DOMAIN @ |->
            IF @[v].deleted THEN @[v] ELSE [@[v] EXCEPT !.sources = "guess", !.at = now]]]
     \/ UNCHANGED versions
  /\ UNCHANGED <<now, corrected, usage, use, queries, doomed, began, raced, events>>

-----------------------------------------------------------------------------
(***************************************************************************)
(* L3 and the corrections.                                                 *)
(***************************************************************************)
Writer ==
  /\ Event
  /\ UNCHANGED <<now, usage, use, queries, doomed, began, orphans>>

(* L3 writes sources to the row of u that is (now) in use. *)
Written(u) == raced' = IF Listed(u) THEN raced \cup {u} ELSE raced \ {u}

(* A new version: not archived, whatever the old one was.  A rebuild       *)
(* (Reconsolidate) hands on the sources of the old one.                    *)
Supersede(u, sources) ==
  /\ Writer
  /\ versions' = [versions EXCEPT ![u] = Append(@, Row(sources))]
  /\ Written(u)
  /\ UNCHANGED corrected

(* The body as good as unchanged: the row in use gets the sources and the  *)
(* time (refreshProvenance), and remains archived if it is.                *)
Refresh(u, sources) ==
  /\ Writer
  /\ versions' = [versions EXCEPT ![u][Active(u)] =
                    [Row(sources) EXCEPT !.archived = Archived(u)]]
  /\ Written(u)
  /\ UNCHANGED corrected

Correct(u) ==
  /\ Writer
  /\ corrected' = IF u \in corrected THEN corrected \ {u} ELSE corrected \cup {u}
  /\ UNCHANGED <<versions, raced>>

-----------------------------------------------------------------------------
Next ==
  \/ Pass \/ QueriesAge
  \/ \E top \in SUBSET Memories : Search(top)
  \/ \E g \in Users : (\E u \in Memories, kind \in Kinds : ReadHeat(g, u, kind))
                       \/ WriteHeat(g) \/ Join(g)
  \/ Approve \/ Restore
  \/ StartGC \/ (\E d \in doomed : Delete(d))
  \/ StartBackfill \/ (\E u \in Memories : Link(u))
  \/ \E u \in Memories :
       \/ Correct(u)
       \/ \E s \in {"own", "none"} : Supersede(u, s) \/ Refresh(u, s)
       \/ Supersede(u, versions[u][Active(u)].sources)

Spec == Init /\ [][Next]_vars

-----------------------------------------------------------------------------
(* What the variables hold. *)
TypeOK ==
  /\ now \in 0..MaxTime
  /\ versions \in [Memories -> Seq(Version)]
  /\ \A u \in Memories : versions[u] # <<>>
  /\ corrected \subseteq Memories
  /\ heat \in [Memories -> Nat] /\ lastUse \in [Memories -> 0..Never]
  /\ cats \in [Memories -> Nat] /\ metas \in [Memories -> Nat] /\ seen \in [Memories -> Nat]
  /\ use \in [Users -> Use]
  /\ queries \in Seq(Query)
  /\ doomed \subseteq Memories \X Nat /\ began \in 0..MaxTime
  /\ orphans \in [Memories -> Nat] /\ raced \subseteq Memories
  /\ events \in 0..MaxEvents

(* What heat a memory has was brought by its cats (1.0) and metas (0.3),   *)
(* however the goroutines that record them overlap: an overlap can lose    *)
(* heat, never make it.                                                    *)
HeatFromUse ==
  \A u \in Memories : heat[u] <= 1000 * cats[u] + 300 * metas[u]

Converted == {i \in DOMAIN queries : queries[i].converted}

(* The cats recorded: of each memory, the first, the second... *)
Catted == UNION {{u} \X (1..cats[u]) : u \in Memories}

(* No more searches count as led to a use than cats were recorded. *)
JoinsFromUse == Cardinality(Converted) <= Cardinality(Catted)

(* Only use counts: being shown in a search, however often, feeds neither  *)
(* the heat of a memory nor the share of searches that led to a use.       *)
OnlyFromUse == HeatFromUse /\ JoinsFromUse

(* Whenever a version is deleted, at least KeepVersions superseded ones    *)
(* that are not older remain, also while L3 and the backfill write between *)
(* the choice and the deletions, and a second collection chooses meanwhile. *)
KeepsNewest ==
  \A u \in Memories : \A v \in DOMAIN versions[u] :
    versions[u][v].deleted =>
      Cardinality({w \in Superseded(u) : At(u, w) >= At(u, v)}) >= KeepVersions

(* The sources that L3 wrote last, with a new version or into the one in   *)
(* use, stay in the row in use, unless a backfill had its URI on the list  *)
(* when L3 wrote: however backfills, rebuilds and refreshes follow and     *)
(* overlap, no backfill lists a row that has sources.                      *)
ActiveSourcesKept ==
  \A u \in Memories :
    LET r == versions[u][Active(u)] IN
    r.real => r.sources = "own" \/ u \in raced

=============================================================================
