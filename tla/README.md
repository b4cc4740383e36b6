# Verification of rmb-desktop

TLA+ models of rmb-desktop: a local daemon (`rmbd`) that stores conversations
of coding agents in SQLite and distills them, through an LLM, into atoms,
scenes and memories, which it embeds, searches, archives and collects; a command
line (`rmb`) that agents run as a hook and that edits their settings; and a tray
shell (`rmb-app`) that supervises and updates the daemon.  Paths are relative to
the repository, those without `src/` to `src/internal/`.

    tlc -workers 4 -config MCPipeline.cfg MCPipeline    # any pair listed below
    tlapm PipelineProofs.tla                            # any *Proofs module

## The system

### Components

| component | state | operations | interacts with |
|---|---|---|---|
| session ingest (`session/upload.go`) | `sessions`, `session_turns`, `pipeline_state` | `Upload`: append a turn, queue L1 | hooks, `rmb`, backfill call it; L1 reads it |
| L1 extract (`worker/extract`) | `atoms`, marks on turns, `l1_*` columns | select, prepare batch, LLM, persist, fail | queues L2; shares the session mutex with L2 |
| L2 scene (`worker/scene`) | `scenes`, `sessions.abstract`, `l2_*` | select, prepare, LLM (several calls), persist and prune, fail | queues L3 |
| L3 memory (`worker/memory`) | `memories`, `l3_status` | rollup over all subjects, eight in parallel; merge spellings of a subject | reads atoms, scenes, corrections |
| reconsolidation (`worker/memory/reconsolidate.go`) | one memory | rebuild from evidence on request | beside the rollup |
| corrections (`correction`) | `corrections` | create, retract, queue the sessions concerned | the next rollup applies them |
| scheduling (`worker/shared`, `worker/backpressure`) | concurrency limit, outcomes | cycle of batches, halve and raise the limit | used by L1 and L2 |
| runner (`worker/runner.go`, `pipeline/state.go`, `workerlock`) | goroutines, session mutexes | start with recovery, wait | rows left `running` go back to `pending` |
| operator console (`debug/pipeline.go`) | – | requeue, unstick | rewrites statuses under running workers |
| embed (`worker/embed`) and re-embedding (`reembed`, `httpserver/config.go`, `config`) | `embedding` columns, the settings file | poll rows without a vector, embed, store; change the model, clear four tables, save | rows change meanwhile; the daemon keeps its old settings until restarted |
| recall (`recall`) | – | embed the query, look up tier by tier, fuse, fold, boost, cut | reads while all writers write |
| usage (`recallstats`) | `recall_stats`, `search_queries` | record searches, cats and metas; decay heat; join a use to its search | recall is boosted by heat, archive goes by it |
| archive (`archive`), hygiene (`hygiene`), backfill (`backfill`) | `archived_at`, old versions, `source_scenes` | propose, apply, restore; rank and delete old versions; link scenes to memories without provenance | beside the rollup and each other |
| skills (`skill`) | `skills`, `skill_files` | replace a bundle, read | searched and embedded |
| setup (`setup`) | other programs' hook files and instructions, `.rmb.bak` | read, merge, copy, write; status | settings page and command line, the user and the agents save the same files |
| hooks (`hook`) | the parked prompt of zcode | find prompt and answer of a turn, post them | the agent's transcript, session ingest |
| desktop shell (`appshell`) | child process, latches | start, poll, update, quit | kills, spawns, probes `rmbd` |
| self update (`update`) | sidecar files | verify, swap, roll back | owned by the shell |
| manual restart (`httpserver/restart.go`) | – | spawn a replacement, exit | two daemons for a while |
| command line, web UI, inspect, LLM client | none | parse and call the daemon or a service | – |

### What is hard, and what makes each component correct

* **L1 and L2** read their input in one transaction, wait for an LLM, and write
  in another.  In between come uploads, the other stage, operators, failures, a
  crash, a second process.  Correct means: no turn extracted twice; an atom and
  the mark of its turn visible together; an idle session has scenes of all its
  newest atoms; scenes never go back to older evidence; every turn is extracted
  in the end.
* **L3** works on what it read at the start of the rollup while L1, L2, the
  correction handlers and a reconsolidation write, and its own goroutines meet on
  one URI when spellings are merged.  Correct means: a rollup writes an URI at
  most once; a subject never rests its memory on less of its evidence than before;
  sessions go idle only with their evidence in the memories; corrections are applied.
* **Scheduling**: the order of selection with a limit, and a limit that reacts to
  throttling.  Correct means: the limit keeps its bounds and no session starves as long
  as those that never work leave a place of the cycle free.
* **Embed** stores a vector by row id seconds after it read the text, beside
  writers that rewrite texts and a handler that clears all vectors.  Correct
  means: vectors of another text or of another model do not stay (but for races that
  the code has, which are named), and a text the service refuses holds up nothing but
  its own tier.
* **Search** is some ten reads without a transaction, then passes that drop
  candidates for one another.  Correct means: nothing superseded, archived or
  deleted all along is returned, and a fact is not lost in both of its tiers.
* **Usage, archive, hygiene, backfill** each read a list and act on it later, row
  by row, and a second call of each may come between.  Correct means: only use makes
  heat; the newest versions are kept; provenance that L3 wrote is replaced by a guess
  at most if L3 wrote it while the guess was being made.
* **Setup** rewrites files it does not own, in place, without a lock.  Correct
  means: what the user had is in the file or its copy, hooks of others stay, the
  rmb hook is there once, and a file that was applied is recognised.
* **Hooks** run while the transcript they read is still being written and the
  user types on, and read no further than to a row that is too long for them.  Correct
  means: a turn is stored with its own prompt, if its rows could be read.
* **Shell and update**: three threads (poller, updater, quit) and up to three
  processes, with checks of latches before slow steps.  Correct means: one
  daemon stays, it is the new build, a failed swap leaves the old files, and a
  daemon always comes back.

`PROJECT.json` lists the hazards line by line, with the properties that watch them.

## Plan

| order | module | status |
|---|---|---|
| 1 | `Distill` abstract promise of the pipeline; `Pipeline` implements it; `PipelineProofs` | done |
| 2 | `Rollup` (L3, corrections, reconsolidation), `RollupProofs` | done |
| 3 | `Scheduler` (cycle, controller, selection order); its theorem is in `PipelineProofs` | done |
| 4 | `Supervisor` (shell, poller, updater with the swap, quit, dashboard restart), `SupervisorProofs` | done |
| 5 | `Embed` (worker, re-embedding, settings file), `EmbedProofs` | done |
| 6 | `Search`, `SearchProofs` | done |
| 7 | `Archive` (usage, archive, garbage collection, provenance), `ArchiveProofs` | done |
| 8 | `Setup`, `SetupProofs`; `Capture`, `CaptureProofs` | done |
| 9 | `NeverDoubled` of `Setup`, `EvidenceFolded` of `Search`, `KeepsNewest` and `OnlyFromUse` of `Archive`, and the type invariants left, as theorems | done |
| 10 | `Remember` (abstract promise of L3) and `Upgrade` (of the sidecars); `Distill` for several processes; the refinements as theorems | done |
| 11 | a crash of the shell in mid-swap and a second launch in `Supervisor` | not done |
| 12 | paraphrase suppression across sessions, source indices, scene ids as bounded checks | not done |

The components meet in the database, and the models meet in the same places:
`Pipeline` queues L3 where `Rollup` starts; the writers in `Embed`, `Search` and
`Archive` are the writes of L1 to L3 as seen from there; the duplicated hooks that
`Setup` may leave (`slots`) are the set `Hooks` of `Capture`, whose `stored` is
`Upload` of `Pipeline`; the daemons of `Supervisor` are the processes of `Pipeline`
and the `up` of `Embed`.  They are checked apart, each with the others as an
environment that is free to do what they do, as their product is out of TLC's
reach.  Refinements relate `Pipeline` to `Distill`, `Rollup` to `Remember` and
`Supervisor` to `Upgrade`.

## Modules

### `Distill` – what the pipeline promises

For each conversation a number of captured turns, the set of turns extracted and
the set of atoms the scenes are built from.  Turns are captured one by one, each
is extracted once, and scenes are rebuilt only from evidence that is at least
as new.  No status, batch, process or failure appears in it.  `SharedSpec` is what is
left of it when several processes distill one database: turns may be extracted
again and scenes built from the evidence of an earlier moment, but nothing is lost,
only captured turns are marked, and an atom comes with the marks of its turns.

### `Pipeline` – L1 and L2, operators, several processes

A turn is its `created_at`, by which batches are ordered; a client that replays
history uploads older ones later.  An atom is the set of turns it was made from:
a batch gives one atom or none, and a turn extracted twice shows as a member of
two atoms.  Scenes are the atoms that the model was given; which of these it cites in
the scenes it returns is its own choice, and no property is about that.

| in the model | in the code |
|---|---|
| `turns`, `extracted` | `session_turns` and `l1_extracted_at` |
| `atoms`, `scenes` | rows of `atoms` in order; the atoms named by `scenes.source_atoms` |
| `l1`, `l2`, `l3`, `since`, `warm`, `advanced` | columns of `pipeline_state` |
| `sel1`, `sel2`, `l1job`, `l2job` | sessions selected by a cycle; what a goroutine in `processSession` has loaded and sent to the LLM |
| `Daemons`, `up` | `rmbd` processes on one database; `LockFree` is the session mutex of one process |
| `Upload`, `Settle`, `Tick` | a hook's upload; `L2DelayAfterL1` and the idle time going by |
| `PersistL1`, `FailL1`, `LoseL1` (and L2's) | persist committed; recorded as failed or pending; not recorded at all |
| `Requeue`, `Unstick` | the console |
| `Start`, `Stop` | recovery, stage by stage (it may fail half way, and the workers start all the same); `kill -9`, a crash, an ordinary end |

`Promise` is `INSTANCE Distill` under the mapping from these rows, and
`KeepsPromise` says that `Pipeline` implements it (`KeepsShared`: its weaker form).

### `Remember` – what the rollups promise

The evidence there is, and for each URI the evidence its memory rests on.  A memory
is written by its own subject, or, where there is one already, by another spelling of
it.  From then on it rests on evidence of that one subject: at least all of *that
subject's* it rested on before.  So a subject that writes its memory again never goes back
to less; but a merge replaces the incumbent's evidence by the merging bucket's, and the
promise allows it, as the code does so (`worker/memory/worker.go:714`).  Events are
written once, entities once enough sessions tell of them.

### `Rollup` – L3, corrections, reconsolidation

A bucket is a subject's URI.  A memory row is its version, the atoms of its
hash, the sessions of its source scenes and the corrections it names.  `pc[b]`
follows the goroutine of a bucket: `todo`, `gate` (it has or waits for the URI
mutex), `llm`, `persist`, `lookup` (the incumbent query and its embedding request
inside the transaction), `wait` (for the incumbent's mutex, inside the
transaction), `done`.  The handler of a correction (`wake`) commits it, then
looks for the sessions behind its target (`FindSessions`; those whose scenes were pruned
are not found) and queues them one by one (`EnqueueSession`), and may fail at each step.
A reconsolidation reads its evidence and the active row in two steps (`ReadEvidence`,
`ReadActive`).  `InTx` are those who hold SQLite's write lock, taken at
`BEGIN` because of `_txlock=immediate`; a write that meets it held for five
seconds fails.  The answers of the LLM are abstracted: a text is the same as the
old one, or not; a call succeeds, is throttled or fails.  `Promise` is `INSTANCE
Remember` with the `hash` of the rows as its memory; `Remembers` says that `Rollup`
implements it.

### `Scheduler` – who is worked on

One worker, its candidates in the order of its query, batches of goroutines, the
controller's limit, and for each session whether it works, fails, is throttled or
is not due.  `Pipeline` may select any candidate; `Scheduler` says when that is
fair: a session that is tried without success keeps its place in L1's order (its oldest
turn stays the oldest) and, if it was not due, in L2's (its row is not touched).  Such are
the `Keepers`, and as long as they are fewer than the `Places` of a cycle (`2 * maxC`, or
those of its first batch if throttling ends it there) each session is tried.

### `Upgrade` – what installing sidecars promises

A version of each sidecar.  A release replaces both in one step or neither, whatever
fails.  Startup, which installs the bundled ones over none or previous ones, promises
less: it may be left with the first file only.

### `Supervisor` – the shell and its daemons

| in the model | in the code |
|---|---|
| `at`, `job` of `poll`, `update`, `quit` | the goroutines `startup`/`healthPoller`, `updaterUI.watch`, and `watchMenu` or the signal handler, in which of their calls |
| `child`, `shuttingDown`, `updating`, `path` | the fields of `DaemonManager` (`path` is `rmbdPath`, resolved once) |
| `proc`, `build` | rmbd processes: `starting` (not bound yet), `serving`, `leaving` (has spawned its replacement), `stuck` (lost the bind, workers run), `dead` (a child not yet reaped) |
| `disk`, `bak`, `installed`, `moving` | the sidecars in `~/.rmb/bin`, their `.bak`, the rollback list of `swapAll`, the file aside |
| `Take`, `Kill` | the two halves of `StopManaged`: the child is forgotten under the mutex, killed outside |
| `Detach`, `Again` | `detachExternalDaemon`, and the second port kill of `StopForUpdate` and `Shutdown` (`KillListeners`); a process that does not listen is not found, and a kill may go wrong, which nobody hears of (`missed`) |
| `Start`, `Spawn` | the look at the latches, and the spawn under the mutex; others come in between |
| `Boot`, `HalfInstalled` | `EnsureInstalled`, which may fail at either file, with the call that follows |
| `Poll`, `Defer`, `Probe` | the poller's `EnsureRunning`: called, its look at the latches, its look at what runs |
| `Install`, `RestartAfterUpdate`, `Quit` | the menu items |
| `Restart`, `Bind`, `Leave` | a restart from the dashboard spawns the file its daemon was started from, and ends |
| `MoveAside`, `PutInPlace`, `SwapDone`, `SwapFails` | `swapAll` file by file, and every way `Apply` fails |

An update is installed only after `Boot`: `EnsureInstalled` copies two files
while an offer takes a feed request, a check and a click.  `waitForHealth(false)`
is not a step: it ends when nothing answers or after seconds, and what it saw is
not used; the look at `shuttingDown` after it is the one with which `Start` begins.
`Upgrades` is `INSTANCE Upgrade` with `Kept` as the version: of each sidecar
the copy, while a swap may be rolled back or after one that failed with the file
aside, and else the file in its place.

### `Embed` – vectors and the change of their model

| in the model | in the code |
|---|---|
| `born`, `retired`, `text`, `vec` | `created_at`, `superseded_at`, which of its texts a row has, `embedding` (by the settings and the text it was made of) |
| `tier`, `batch`, `got` | the cycle of `embed.Worker` over atoms, scenes, memories and skills; the rows it read; whether the service answered |
| `Select`, `Answered`, `Refused`, `Failed`, `Store` | the query of a tier, the HTTP call with its outcomes after retries, one `UPDATE ... WHERE id` |
| `Insert`, `PutScene`, `DropScene`, `Supersede` | L1, L3 and skills; `persistScenes` (rewrite in place, prune); the next version |
| `file`, `live` | the saved settings, and those the running daemon was started with |
| `put`, `next`, `base`, `wish` | for each PUT under way: what it is at, the table it clears next, the settings it loaded and those it will save; nothing serialises PUTs |
| `Put`, `Clear`, `Save`, `PutFails` | `handlePutConfig`: `SettingsChanged`, `ClearAll` one table per statement, `config.Save` (truncate, then write; a failing write may leave the file empty) |
| `Start`, `Stop` | the daemon, with the worker and a PUT in any state |

The history variables name the races the code has: `late` (stored by a daemon not
restarted after its tier was cleared), `raced` (the scene was rewritten while the
service had its text), `crossed` (a PUT saved over settings it had not read), `lost`
(the settings file was cut short by a failed save).

### `Search` – one recall request

`Ask` validates the request, `EmbedQuery` embeds it, `Look` is one of the lookups
(`words` is FTS5, `vector` is sqlite-vec, tier by tier in the code's order), `Rank`
the fusion by reciprocal rank, `Fold` the passes that drop scenes which a memory
cites or resembles and keep one skill, `Boost` heat and novelty, `Cut` the list at
k.  `Writer` changes rows between any two of them.  Scores are integers: `Unit`
is a common multiple of the ranks' denominators, so ties and orders are those of
the code.  Which rows match, in which order, which pairs are alike and how hot a
memory is are free choices, made once per search.

### `Archive` – usage, cold memories, old versions, provenance

| in the model | in the code |
|---|---|
| `versions` | rows of `memories`, oldest first: `updated_at`, `source_scenes`, `archived_at`, deleted |
| `heat`, `lastUse`, `cats`, `metas`, `seen` | `recall_stats`; heat in thousandths, decayed by periods of `HeatTau` |
| `ReadHeat`, `WriteHeat`, `Join` | the three statements of a goroutine of `RecordCat` or `RecordMeta` |
| `Search`, `QueriesAge`, `queries` | `RecordSearch`, the 10 minutes going by, `search_queries` |
| `Approve`, `Restore` | the doctor's calls of `archive.Apply` (the URIs sent, or all candidates) and `Restore` |
| `StartGC`, `Delete`; `doomed`, `began` | the ranking query of `SupersededGC`, one `DELETE` each; what all collections under way have still to delete, and when the last began |
| `StartBackfill`, `Link`; `orphans` | the list of `BackfillProvenance`, one `UPDATE` by URI each, all versions; how many backfills under way have the URI on their list |
| `Supersede` | L3's next version, or a reconsolidation's, which hands on the old sources |
| `Refresh` | `refreshProvenance`: L3 found the body as good as unchanged and writes sources and time into the row in use |
| `Correct` | a correction created or retracted |

Collections overlap, and so do backfills: the handlers do nothing against it.  A
collection that starts while another, begun a period (thirty days) earlier, is still
deleting is left out.  The history variable `raced` has the URIs whose sources L3 wrote
last while a backfill had them on its list.

### `Setup` – the files of other programs

`file` and `bak` are the hook file and the file of instructions of one agent and
their copies; a hook file is its lists of groups of hooks, each hook the user's
(a member of `Parts`) or rmb's.  An applier (settings page, command line) goes
through `Read` (with the merge), `Backup`, `Open` (truncated) and `Fill` for each
file; the user saves and a process dies in between.  The merges of the seven
agents are operators (`MergeClaude`, `MergeCodex`, ...; `Normalized` is what WorkBuddy and
ZCode do besides: each hook of rmb gets the present command), as is what `Status` looks
for.  `cmd` is the command that is written, recognised as rmb's or, if only the binary of
the desktop app is there, not.  An empty list of codex (`bare`) hides the one at the top
level from `Status`, not from the merge.  An apply writes one of the two files, or both in
either order (`Lists`).  The history variables say what the user had (`wanted`, `listed`,
`slots`) and which promises are off (`late`, `unclean`).

### `Capture` – the hook of a turn

| in the model | in the code |
|---|---|
| `typed`, `begun`, `said` | prompts the user typed (also ahead of the answer), those the agent has taken up, the answers |
| `rows`, `behind` | the agent's transcript; answers whose row is written only after the hooks began |
| `wide` | a row longer than the scan of its parser takes: 64 KiB for cursor, 8 MiB for cc, codex, pi and workbuddy |
| `Kinds` | rows in the role of the user that no user typed: without text (`tool`), with a mark that a parser may look for (`injected`), without one (`notice`) |
| `Scanned` | what a `bufio.Scanner` gives whose error is not looked at: the rows before the first wide one |
| `Prompts(S, unfiltered)` | the rows that a parser takes for prompts; which kinds it does not filter depends on the agent |
| `ParseClaude`, `ParseCodex`, `ParsePi`, `ParseWorkBuddy`, `BuildPair` (cursor), `ParseOpenCode`, `ParseZCode` | what `hook-submit` finds for each agent |
| `parked`; `Type`, `Unpark`, `UnparkFails` | zcode's sidecar file: written by `hook-capture`, read and removed by a Stop run; a removal that fails is ignored |
| `Look`, `Posted`, `PostFails`, `Die` | the run reads (or cannot open the transcript), posts, fails, is killed |

cc filters what has a command wrapper, codex has rows of another type for what was typed,
workbuddy takes reminders out, cursor and pi filter nothing that has text.  So what may be
mistaken for a prompt (`Mistakable`) differs.  Each run remembers what it met: a prompt
of a later turn (`ahead`), no sight of the row it has to find (`blind`), a row that its
parser mistakes (`noisy`).  `tardy`, `robbed` and `kept` are the histories of zcode's
sidecar: a run went on beyond the end of the next turn, a run removed the prompt of a
later turn, a removal failed.

## Runs

| run | states | shows |
|---|---|---|
| `pipeline` | 26,856 | one process: `OncePerTurn`, `ScenesCoverAtoms`, that `Pipeline` implements `Distill` (so scenes never go back to older evidence), that every turn is extracted, and that evidence reaches scenes unless a build died unrecorded |
| `pipeline_two` | 807,678 | two processes: `Pipeline` implements the weaker form of `Distill`: atoms never without the marks of their turns, nothing lost |
| `scheduler` | 158,690 | each session is tried as long as those that keep their place in the order (L1: whatever does not work; L2: what is not due) leave one of the cycle free |
| `rollup_merge` | 116,601 | two spellings in parallel: written once, idle only when taken in; `Rollup` implements `Remember`: a subject never goes back to less of its own evidence (that of an incumbent is replaced in a merge) |
| `rollup_live` | 288,090 | what is pending when a rollup starts is taken in, corrections too, also beside a reconsolidation |
| `rollup_applied` | violation | a correction made during a rollup is forgotten |
| `supervisor` | 1,000,179 | at rest one rmbd lives, of the installed build, unless a kill by port went wrong; `Supervisor` implements `Upgrade`, so an update never mixes versions; a daemon always comes back |
| `embed` | 435,452 | no vector of another text or model stays, but for the races named; a refused text delays its own tier only |
| `search` | 337,198 | nothing dead is answered; no scene beside the memory that cites it, none lost with it |
| `archive` | 699,142 | heat and conversions come from use only; the newest versions are kept by overlapping collections; the provenance L3 wrote stays, but for the race named |
| `setup` | 3,123,711 | the first apply can be undone, others' hooks stay, ours is not doubled, what was applied is recognised |
| `capture` | 2,972,569 | turns are stored with their own prompt, or one that occurred with them, and once, if the run could read the rows it needs |

**Bounds.**

* `Pipeline`: two turns with batches of one (`L1MaxTurns`) and scenes of one atom
  (`L2MaxAtoms`), so that a second batch, trimming and pruning happen; with `EveryN = 3`
  the triggers are those of the warm-up (after one turn, after two) and of a session that
  is idle: the count beyond the warm-up needs more turns; three faults let a failure follow
  a crash that follows a failure.  Sessions share only the schedule, which
  `Scheduler` models, so one suffices.  Two processes and two turns give every
  overlap of two batches.
* `Scheduler`: four sessions of which one or two work, against the first batch of three
  (L1, throttled), cycles of four (L1 failing, L2 not due) and of two (L2).  In each the
  sessions that keep their place take all places but one, so that one more would break
  the condition; the worker is chosen in the initial state.
* `Rollup`: two subjects are needed to merge and suffice, as a merge involves two
  URIs; each is told by two sessions (the bar of promotion).  `rollup_live` has the profile
  and an event told by one session, a correction that is created and retracted, a
  reconsolidation and a fault.
* `Supervisor`: an update, a dashboard restart and a fault overlap with quit and the
  poller; no reachable state needs more processes than the four there are.
* `Embed`: an atom whose text is refused, a scene (the only tier that is rewritten
  in place) and a row of the last tier, so that a PUT meets the worker in the
  first, a middle and the last tier; two PUTs that may overlap, three writes, a fault.
  With one row of each tier, rows behind a refused one in its own tier do not occur.
* `Search`: two rows of each tier that folds, k of one and two, all request shapes
  that take another path through the code; one write, which may come between any
  two reads.  The same properties hold with two writes (4,394,731 states).
* `Archive`: the profile and a memory in different stages of their history, two
  goroutines that record, three events (uses and writes), three periods: a use decays, a
  memory goes cold and the collections find old versions.
* `Setup`: six agents whose merges differ (`pi` shares that of opencode), one
  save of the user, two applies by two processes, one death.  The files to begin
  with, or saved later, hold the shapes of hook lists the merges tell apart.
* `Capture`: all seven agents, two turns, two hooks (as an earlier set-up may leave them),
  two answers that may be worded alike, one row of no user, and one fault, which a wide row
  counts as.

**Deadlock** is checked for `Pipeline`, `Scheduler` and `Search`.  Elsewhere the
bounds end the behaviour: once the uploads, corrections, saves, events or turns of
the bound are used up nothing is left to do; in `Supervisor` everything stops
after quit.

**Fairness.**  Each worker polls on a ticker for ever, transactions and LLM calls
end (HTTP timeouts), and a started goroutine runs on: weak fairness of the steps
of batches, rollups and the embed cycle.  Selection and the steps of a session
that wait for its mutex get strong fairness in `Pipeline`: a candidate can lose its
place to others in between.  `Scheduler` shows when the code keeps that assumption.
Time goes by.  A process that ended is started again (by the shell's poller or at
login), in `Embed` too.  A handler that has begun runs on (`Handler`); a correction's
sessions are queued by the handler that stored it.  In `Supervisor` goroutines run
on (every wait has a timeout), a swap goes on, a process binds or leaves.  No
upload, operator, click, correction, failure, crash or lost answer is ever forced.
Failures and crashes are bounded by `MaxFaults`, which stands for "from some time
on they stop".  `Search`, `Archive`, `Setup` and `Capture` have no liveness property:
each of their calls is a few statements long and ends, or does not, by itself.

## Proofs

Each `*Proofs` module proves theorems of its component for every value of the
constants: any number of sessions, rows, processes, agents, applies and faults.
The only assumptions are the named `ASSUME`s of the modules (ranges of settings),
and the conditions given here.

**`PipelineProofs`.**  `TypeCorrect`; `SourcesAreExtracted`, inductive by itself: the
one transaction that stores atoms marks their turns.  Under `OneDaemon` (at most
one process; with two the once-only properties fail): `ExtractedOnce`,
`ScenesComplete`, `NeverStale`, and `Implements`, the refinement of `Distill`.
`OncePerTurn` is not inductive: it does not say that the turns of a batch at the
LLM are still unextracted.  The invariant is

    IInv == TypeOK, SourcesExtracted, OncePerTurn, ScenesCoverAtoms,
            ScenesInRange,   scenes name existing atoms
            Exclusion,       a session's mutex: L1 and L2 never both hold it
            BatchesFresh,    the turns of an L1 batch are still unextracted
            BuildsCurrent    an L2 batch has the newest atoms of its session

`BatchesFresh` and `BuildsCurrent` hold because only a worker with the mutex can
extract or store atoms, and `Exclusion` says there is no other one.

`ImplementsShared` has no such condition: with any number of processes every step is
one of the weaker promise.  Its invariant, `SeveralInv`, is what a batch holds whoever
else is at work: turns that were captured, and no more atoms than there are.

The same module proves `TypeOK` of `Scheduler`, of which it has an instance, `Shared`:
by `SharedTypeCorrect` the limit stays within the configured concurrency, and a
batch never exceeds it.  The theorem has `SchedulerAssumption` as its hypothesis, as
the prover does not use the assumptions of an instance.  `SharedInv`
(`SharedInvariant`) adds that the candidates are the sessions with work, each once (`Queued`), and that those a
cycle has still to start and those started are different sessions with work
(`Started`), so that no session runs beside itself.  The lemmas before it say what taking
an element out of a list, putting one in and cutting the list in two return, for lists of
any length.

**`RollupProofs`.**  `TypeCorrect` says that a rollup knows nothing the tables do not
hold.  `AtMostOneVersion` (`WrittenOnce`) rests on `OnceInv`: what was written is on the
rollup's list or is an event whose goroutine is done (`Recorded`), a goroutine works on
its own URI until it waits for that of another spelling (`Targets`), and goroutines live
inside a rollup (`Inside`).  `TakesInWhatItRead` (`RollupComplete`) rests on
`CompleteInv`: each subject read is taken in, or its goroutine is on its way, or the
rollup will retry.  It assumes `MaxRebuilds = 0`: a reconsolidation beside the rollup
may replace a memory by one rebuilt from what it had read before.

`ImplementsRemember` maps each step to one of `Remember`.  What has to be shown is that a
bucket's write has all of its own evidence that the memory it writes over had: a goroutine
writes what the rollup has loaded of its subject, so every memory must rest on loaded
evidence while the rollup runs, whichever goroutine wrote it.  `KnowsInv` adds this to `OnceInv` (`Known`), with the bar of
promotion, which every memory and every goroutine past `todo` has passed, and with the
incumbent of a merge staying there while its mutex is waited for (`Grounded`).  It
also assumes `MaxRebuilds = 0`: a reconsolidation in mid-rollup may put in evidence
that is newer than what the rollup has loaded, which the rollup then takes out again,
and it asks for no bar.

**`SupervisorProofs`.**  `TypeCorrect` includes that one process at most listens.
`SidecarsMatch` (`NeverMixed`) follows the swap file by file (`FilesInv`): what is kept of
the old files is what startup left, one version or the first file of the bundle
(`Befores`).  `ImplementsUpgrade` says more, at every step and not only at rest: with `FoundWhole`
(startup begins with both files of one version) and `Aside` (a file aside is not in its
place), moving a file aside, putting one in place, and the rollback leave `Kept` as it
was; only the end of a swap that worked, which drops the copies, changes it, for both.  `OneDaemon`
(`OneAtRest`) rests on `OneInv`: a living process is the child, is about to be killed
by the thread that took it, or is the daemon found at startup.  `InstalledServes` rests
on `ServeInv`: whoever holds an old build is on its way to replace it.  The last two
are about shells whose daemon nobody restarted from the dashboard and whose kills by port
did not go wrong (`Undisturbed`), as are the properties themselves.

**`EmbedProofs`.**  `TypeCorrect` with `WorkerRuns` (what the worker read dies with its
daemon).  `VectorsFollowTexts` adds that a text read is the row's text until the scene
is rewritten, which marks it as raced.  `NoForeignVector` rests on `Settings`: the vectors there are, but those of late
stores, are of the saved settings; each PUT under way has left none in the tiers it went
through, however many overlap; and one that comes to save went through all of them or
saves the settings it had loaded.

**`SearchProofs`.**  `AnswersWereFit` (`NothingDead`): candidates come from lookups, each
lookup filters, and no later pass adds a row; `offered` keeps what was fit before
each write.  `TypeCorrect` and `EvidenceIsFolded` (`EvidenceFolded`) rest on

    SInv == TypeOK,
            Tiered,       a list has rows of its tier only, ranked from 1
            Planned,      lookups to come, and lists there are, were asked for
            OnePerUri,    no row is twice among the candidates
            Passed        after the fold: no scene beside a memory that cites it,
                          each folded into a candidate, none lost

`todo` is the set of lookups left, done in `LegOrder`.  It assumes finitely many rows;
`ShortLists`, by which the scores of the run are exact, is not used.

**`ArchiveProofs`.**  `TypeCorrect` with `Past` (no use lies in the future, so decay
never raises heat).  `UseCounts` (`OnlyFromUse`): heat read by a goroutine is no more
than the uses of the memory then, and counters only grow (`HInv`, the theorem
`NoHeatFromNowhere`); and a search that was converted, or is about to be, has a cat
of its own (`JInv`), as a goroutine counts its cat before it marks one search and
ends.  `NewestKept` (`KeepsNewest`): that enough newer versions are left is true when the
collection chooses its list; that it still is at each deletion needs more, namely
`KeepVersions` versions not older which are superseded, not deleted and *not on any list
themselves* (`Enough`), for each version on a list (`DoomedSafe`) and each deleted
one (`DeletedSafe`).  Writes in between do not disturb that, as they make versions
younger only (`Dated`).  Lists of collections that overlap agree, as each takes versions
in the order of one ranking (`Ahead`), or the backfill has dated all rows of the URI since
the last collection began (`Fresh`).  `SourcesKept` (`ActiveSourcesKept`) rests on
`PInv`: a row in use into which L3 wrote sources has some, so no backfill that starts
now lists it; and if one changed it or still has it on its list, L3 wrote while it was
there (`raced`).  That holds for new versions, rebuilds, and refreshes of the row in use.

**`SetupProofs`.**  `FirstApplyIsUndoable` rests on a case distinction by the number of
copies since the save (`Undoable`); `OthersAreKept` on `Kept`: as long as applies do not
overlap, whoever works on a file has the others' hooks in its text, and in the copy
when it opens the file; `AppliedIsConfigured` on `Shown`: every text on its way to a
file is one that `Status` recognises.  The lemmas before them say what each agent's
merge keeps and produces, for any configuration.  `RmbNeverDoubled` (`NeverDoubled`)
counts the places of a list where rmb is or will be put (`Places`: its hooks, and the
empty groups that some merges fill); rewriting the command in place (`Normalized`) adds
no place (`NormalizedLists`).  `FitsInv` says that every list of the file, and
of every text on its way to it, has as many at most as the user made room for, or
one: no merge makes more places than it found, but for the first, so applies that
overlap, die or work on what another has half written cannot add up.  `TypeCorrect`
follows from it, `Shape` and `Copies`.

**`CaptureProofs`.**  `TypeCorrect`.  `StoredOnce` (`ParkedOnce`): if no turn ends before
the runs of the last are over, active runs are of one turn (`OneTurn`), a prompt that is
being stored is parked no longer, but for one whose removal failed (`Removed`), and runs
that hold the same prompt are of one turn (`SharedInTurn`).  `PairsOccurred` and
`StoredWithOwnPrompt` rest on what the transcript is (`RowsInv`: in order of the talk,
complete but for the answers still `behind`, whatever else stands in it) and on what
a parser finds in the part it could read, for any rows, any place where the scan ends and
any filter: the last prompt there (`LastPromptAmong`, `LastPromptBefore`), the answer
of these words (`PairFound`).  `OwnInv` and `PairInv` say it of each run; for zcode `ParkInv`
says that the last prompt caught is parked, or was taken by a run, and who goes on to
remove it has it or comes late.

## Only model-checked

* Liveness: `EveryTurnExtracted`, `EvidenceReachesScenes`, `AtomsTakenIn`,
  `CorrectionsTakenIn`, `EveryCandidateTried`, `Recovers`, `EveryRowEmbedded`.
  Fairness is beyond the prover.

Three properties follow from a refinement and have no run of their own, but a theorem:
`SourcesExtracted` (from `KeepsShared`), `ScenesNeverStale` (from `KeepsPromise`) and
`NeverMixed` (from `AllOrNothing`).

Every safety property a passing run checks is a theorem, the refinements included,
with the conditions named above: one process (`Pipeline`, but for `KeepsShared`), no
reconsolidation (`RollupComplete`, `Remembers`).  `TypeOK` of `Scheduler` is proved of
the instance `Shared` in `PipelineProofs`.

## Where code and documentation disagree

`rollup_applied`: a correction made while a rollup runs queues a session that is
already pending, and the end of that rollup marks it idle
(`worker/memory/worker.go:784`, against `correction/enqueue.go:10`).  The trace is the
example; `PROJECT.json` quotes the lines.

Observed besides while modelling; the models contain these behaviours, and
properties that would be false are stated with the condition that leaves them out:

L1 and L2

* two `rmbd` processes on one database extract a turn twice, and the second does not
  end when it cannot bind the port (`src/cmd/rmbd/main.go:88`);
* L1 takes the oldest turns first, so sessions that fail for good keep the first
  places and starve younger ones once they fill a cycle (`worker/extract/worker.go:126`);
* so do sessions that L2 finds not due, or without atoms: it selects by `updated_at`, which
  those paths do not touch (`worker/scene/worker.go:99`, 193–199), and `2 * maxC` of
  them fill the cycle until they are due;
* a conversation that never pauses pushes its scenes away, as L2 waits for L1 to have
  been idle for a while (`worker/scene/trigger.go:25`).

L3

* a merge replaces the incumbent's text, scenes and hash by those of the merging bucket
  alone (`worker/memory/worker.go:714`): the evidence of the incumbent is no longer named,
  and both are distilled again by every rollup (against the comment at 429);
* a reconsolidation writes a text that was told of no corrections, while the memory
  goes on naming them (`worker/memory/reconsolidate.go:115`, 142–148);
* a correction whose sessions cannot be queued is only logged, and waits for other
  evidence of its target (`correction/enqueue.go:42`).

Shell

* a shell launched before anything is installed resolves `rmbdPath` to its bundle and
  serves the bundled rmbd after every update (`appshell/daemon.go:56`);
* `Start` may spawn after a latch was set behind its look at it: an old binary runs in
  mid-swap (`appshell/daemon.go:42` says it cannot) or after quit; an update's restart
  repairs it;
* if the last rename of a file fails, the rollback does not know that the old file was
  moved aside, and it stays missing (`update/apply.go:275`; line 77 says the previous
  files are restored);
* an `EnsureInstalled` that fails at the second file leaves the new `rmb` beside the old
  rmbd, or rmbd missing, until the next launch (`appshell/bootstrap.go:41`);
* a daemon that is found on the port but not killed goes on serving, as nobody's child;
  the one spawned meanwhile stays stuck;
* a replacement of a dashboard restart that loses the port lives on as nobody's child,
  so nothing ends it (`httpserver/restart.go:19`).

Embed, search

* a daemon that was not restarted after the model changed goes on storing vectors of
  the old one behind `ClearAll` (`reembed/reembed.go:27`); a failed write in
  `config.Save` leaves an empty file;
* of two overlapping `PUT /api/config` the later save takes back what the earlier one had
  saved, the embedding model too, without clearing the vectors made since
  (`httpserver/config.go:238`–264);
* a refused text at the head of a tier blocks the rest of that tier's batch for ever
  (`worker/embed/worker.go:71`);
* the skill that a search keeps is its worst match by words, as the rank is used as a
  score and sorted descending (`recall/search.go:177`, 181, 298);
* the owner a suppressed scene is folded into may rank below it and be cut at k
  (`recall/search.go:188` says "higher-ranked").

Archive

* `archive.Apply` archives the profile when its URI is sent (`archive/archive.go:125`;
  line 28 says never); stored heat is compared undecayed, so a memory read once (0.3
  and more) is never a candidate (`archive/archive.go:23`);
* the backfill links superseded versions too and sets their `updated_at`, by which the
  garbage collection ranks (`backfill/backfill.go:82`, `hygiene/hygiene.go:66`);
* the backfill overwrites sources that L3 wrote, or refreshed, after it made its list
  (`backfill/backfill.go:82`; line 53 says rows that have provenance are skipped).

Setup

* a command whose binary is named `rmb-desktop` is not recognised as rmb's hook, so each
  apply appends one more; WorkBuddy and ZCode even replace a recognised hook by it, after
  which the agent is shown as not configured (`setup/zcode.go:262`, `setup/workbuddy.go:207`);
* a file with several empty groups gets one hook in each; codex's legacy `Stop` list is
  dropped when `hooks.Stop` has entries (`setup/codex.go:176`), and an empty `hooks.Stop`
  hides from `Status` the legacy list in which rmb's hook is;
* a death with the file open, then a second apply, replaces the good copy by the empty
  file; overlapping applies can do the same (`setup/files.go:36`); one agent's file that
  cannot be parsed makes `Status` fail for all agents;
* the branch of `mergeRecallMarkdown` that replaces text between the markers is never
  reached (`setup/recall.go:66`).

Hooks

* a transcript row beyond the limit of the scan (64 KiB in `hook/cursor.go:155`, 8 MiB in the
  others) hides all that follows, for good, as `sc.Err()` is not looked at: each later
  answer of that conversation is stored with a prompt from before that row;
* texts that no user typed are stored as prompts: reminders and other injected texts by
  cursor and pi (`hook/cursor.go:161`, `hook/pi.go:132`), what is no result and no command
  wrapper by cc (`hook/claude.go:163`);
* for a turn without text, cursor and workbuddy store the answer of the turn before once
  more; a late Stop run of zcode removes the prompt of the next turn, and one whose
  removal fails leaves its prompt to the next answer (`hook/zcode.go:194`–198);
* a prompt typed ahead replaces the parked one, so the answer under way is stored with it.

## Not modelled

* Read-only views (browse, inspect, the web UI, reports of hygiene and statistics): nothing
  acts on their results.
* Argument parsing and printing of the command line, HTTP parsing and size limits, feeds,
  signatures and unpacking, migrations, log rotation, launch at login.
* The text of prompts, answers, scenes and memories, and pure functions on text
  (similarity, URIs, tokenising): their result is a free choice where it is used.
* Recall evaluation: it measures quality offline.
* What the LLM makes of what it is given: which atoms the scenes cite, what a text says.
* A crash of the shell in mid-swap and a second launch after it; the composition of all
  components in one state space.
