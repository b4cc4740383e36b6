----------------------------- MODULE Supervisor -----------------------------
(***************************************************************************)
(* The tray shell (rmb-app) and the rmbd processes it looks after.  Three  *)
(* goroutines of the shell start and stop rmbd: the startup that becomes   *)
(* the health poller, the updater that swaps the sidecar files, and quit.  *)
(* They share a child under a mutex and two latches they look at before    *)
(* their slow steps.  An rmbd that finds its port taken does not end: its  *)
(* workers keep it alive (Pipeline shows what two of them do).             *)
(*                                                                         *)
(* A process is killed as the shell's child, or because it listens on the  *)
(* port; nothing finds one that does neither.                              *)
(***************************************************************************)
EXTENDS Naturals, FiniteSets

CONSTANTS
  Procs,        \* room for rmbd processes that live at the same time
  MaxUpdates,   \* updates the user installs (bounds the model)
  MaxRestarts,  \* restarts asked for in the dashboard (bounds the model)
  MaxFaults     \* crashes, slow starts, lost probes, failed swaps (bounds the model)

NoProc == "no process"

ASSUME SupervisorAssumption ==
  /\ IsFiniteSet(Procs) /\ Procs # {} /\ NoProc \notin Procs
  /\ MaxUpdates \in Nat /\ MaxRestarts \in Nat /\ MaxFaults \in Nat

Threads == {"poll", "update", "quit"}
Files   == {"rmb", "rmbd"}
NoFile  == "no file"

(* What an earlier version left, what came with this shell, what an update *)
(* brings.                                                                 *)
Builds == {"previous", "bundled", "release"}

NoBuild == "no build"  \* of a place where no process lives

VARIABLES
  proc,          \* what each process does: none, starting, serving, leaving, stuck, dead
  build,         \* the build it runs
  child,         \* DaemonManager.child
  shuttingDown,
  updating,
  at,            \* where each goroutine is; over when the shell has ended
  job,           \* for which of its calls: restart, ensure, swap, quit, exit
  doomed,        \* the child it took to kill
  disk, bak,     \* the sidecars in ~/.rmb/bin, and their .bak
  path,          \* DaemonManager.rmbdPath: installed, or the copy in the app's bundle
  installed,     \* files swapped in by swapAll, for its rollback
  moving,        \* the file that is aside and not yet replaced
  missed,        \* history: a kill by port went wrong
  updates, restarts, faults

procs  == <<proc, build>>
files  == <<disk, bak, installed, moving>>
bounds == <<updates, restarts, faults>>
shell  == <<child, shuttingDown, updating, at, job, doomed>>
vars   == <<procs, shell, files, path, missed, bounds>>

-----------------------------------------------------------------------------
Live      == {p \in Procs : proc[p] \in {"starting", "serving", "leaving", "stuck"}}
Listeners == {p \in Procs : proc[p] \in {"serving", "leaving"}}
Free      == {p \in Procs : proc[p] = "none"}
Healthy   == Listeners # {}

(* What exec finds under rmbdPath. *)
Program == IF path = "bundle" THEN "bundled" ELSE disk["rmbd"]

(* The version that the listener reports is the shell's own. *)
RunningMatchesExpected == \E p \in Listeners : build[p] = "bundled"

ManagedRunning == child # NoProc /\ proc[child] # "dead"

(* A process the shell still holds stays a corpse until it is reaped. *)
Held == {child} \cup {doomed[t] : t \in Threads}

End(ps) ==
  /\ proc' = [p \in Procs |-> IF p \notin ps THEN proc[p] ELSE IF p \in Held THEN "dead" ELSE "none"]
  /\ build' = [p \in Procs |-> IF p \notin ps THEN build[p] ELSE NoBuild]

(* The places once ManagedRunning has consumed a finished child. *)
Reaped == [p \in Procs |-> IF p = child /\ proc[p] = "dead" THEN "none" ELSE proc[p]]

(* The place of a new process. *)
Spawned == CHOOSE p \in Free : TRUE

Go(t, label) == at' = [at EXCEPT ![t] = label]

Fault == faults < MaxFaults /\ faults' = faults + 1

-----------------------------------------------------------------------------
(* A daemon of an earlier shell or of launchd may be serving, and the      *)
(* sidecars may be missing, of an earlier version, or this shell's.        *)
Init ==
  /\ \E found \in {{}, {CHOOSE p \in Procs : TRUE}}, b \in {"previous", "bundled"} :
       /\ proc = [p \in Procs |-> IF p \in found THEN "serving" ELSE "none"]
       /\ build = [p \in Procs |-> IF p \in found THEN b ELSE NoBuild]
  /\ child = NoProc
  /\ shuttingDown = FALSE /\ updating = FALSE
  /\ at = [t \in Threads |-> IF t = "poll" THEN "boot" ELSE "rest"]
  /\ job = [t \in Threads |-> "restart"]
  /\ doomed = [t \in Threads |-> NoProc]
  /\ \E b \in {NoFile, "previous", "bundled"} : disk = [f \in Files |-> b]
  /\ bak = [f \in Files |-> NoFile]
  /\ path = IF disk["rmbd"] = NoFile THEN "bundle" ELSE "installed"
  /\ installed = {} /\ moving = NoFile /\ missed = FALSE
  /\ updates = 0 /\ restarts = 0 /\ faults = 0

-----------------------------------------------------------------------------
(* Steps that several calls share: StopManaged, detachExternalDaemon,      *)
(* Start, waitForHealth.                                                   *)

(* StopManaged takes the child under the mutex... *)
Take(t) ==
  /\ at[t] = "take"
  /\ child' = NoProc
  /\ doomed' = [doomed EXCEPT ![t] = child]
  /\ Go(t, IF child = NoProc THEN "detach" ELSE "kill")
  /\ UNCHANGED <<procs, shuttingDown, updating, job, files, path, missed, bounds>>

(* ...and then kills it and waits for its end. *)
Kill(t) ==
  /\ at[t] = "kill"
  /\ proc' = [proc EXCEPT ![doomed[t]] = "none"]
  /\ build' = [build EXCEPT ![doomed[t]] = NoBuild]
  /\ doomed' = [doomed EXCEPT ![t] = NoProc]
  /\ Go(t, "detach")
  /\ UNCHANGED <<child, shuttingDown, updating, job, files, path, missed, bounds>>

(* Whoever listens on the port is killed, if it is found and can be; a     *)
(* process that does not listen yet is not found.                          *)
KillListeners ==
  \/ End(Listeners) /\ UNCHANGED <<missed, faults>>
  \/ Listeners # {} /\ Fault /\ missed' = TRUE /\ UNCHANGED procs

Detach(t) ==
  /\ at[t] = "detach"
  /\ KillListeners
  /\ Go(t, IF job[t] \in {"swap", "quit", "exit"} THEN "again" ELSE "start")
  /\ UNCHANGED <<child, shuttingDown, updating, job, doomed, files, path, updates, restarts>>

(* The last resort of StopForUpdate and Shutdown, the port once more. *)
(* Quit then calls Shutdown again in onExit, and after that the process ends. *)
Again(t) ==
  /\ at[t] = "again"
  /\ KillListeners
  /\ job' = IF job[t] = "quit" THEN [job EXCEPT ![t] = "exit"] ELSE job
  /\ CASE job[t] = "swap" -> Go(t, "swap")
       [] job[t] = "quit" -> Go(t, "take")
       [] job[t] = "exit" -> at' = [u \in Threads |-> "over"]
  /\ UNCHANGED <<child, shuttingDown, updating, doomed, files, path, updates, restarts>>

(* Start looks at the latches and at the child... *)
Start(t) ==
  /\ at[t] = "start"
  /\ \/ /\ shuttingDown \/ updating
        /\ Go(t, "rest") /\ UNCHANGED <<proc, child>>
     \/ /\ ~shuttingDown /\ ~updating /\ ManagedRunning
        /\ Go(t, "await") /\ UNCHANGED <<proc, child>>
     \/ /\ ~shuttingDown /\ ~updating /\ ~ManagedRunning
        /\ Go(t, "spawn") /\ proc' = Reaped /\ child' = NoProc
  /\ UNCHANGED <<build, shuttingDown, updating, job, doomed, files, path, missed, bounds>>

(* Variant: without the second look. *)
BadSpawn(t) ==
  /\ at[t] = "spawn" /\ Program # NoFile /\ Free # {}
  /\ proc' = [proc EXCEPT ![Spawned] = "starting"]
  /\ build' = [build EXCEPT ![Spawned] = Program]
  /\ child' = Spawned
  /\ Go(t, "await")
  /\ UNCHANGED <<shuttingDown, updating, job, doomed, files, path, missed, bounds>>

(* ...and spawns under the mutex, where it looks at the child again but    *)
(* not at the latches.                                                     *)
Spawn(t) ==
  /\ at[t] = "spawn"
  /\ \/ /\ child # NoProc
        /\ Go(t, "await") /\ UNCHANGED <<procs, child>>
     \/ /\ child = NoProc /\ Program = NoFile
        /\ Go(t, "rest") /\ UNCHANGED <<procs, child>>
     \/ /\ child = NoProc /\ Program # NoFile /\ Free # {}
        /\ proc' = [proc EXCEPT ![Spawned] = "starting"]
        /\ build' = [build EXCEPT ![Spawned] = Program]
        /\ child' = Spawned
        /\ Go(t, "await")
  /\ UNCHANGED <<shuttingDown, updating, job, doomed, files, path, missed, bounds>>

(* The wait for health ends when the daemon answers, or after 15 s: when   *)
(* none will, or when one takes longer than that.                          *)
Await(t) ==
  /\ at[t] = "await"
  /\ Go(t, "rest")
  /\ \/ /\ Healthy \/ \A p \in Procs : proc[p] # "starting"
        /\ UNCHANGED faults
     \/ Fault
  /\ UNCHANGED <<procs, child, shuttingDown, updating, job, doomed, files, path, missed, updates, restarts>>

-----------------------------------------------------------------------------
(* Startup and the health poller. *)

NeedsRefresh == \E f \in Files : disk[f] \in {NoFile, "previous"}

(* What a failing copy leaves: the file as it was, or none that runs, and  *)
(* those after it as they were.                                            *)
HalfInstalled ==
  {[disk EXCEPT !["rmb"] = left] : left \in {disk["rmb"], NoFile}} \cup
  {[disk EXCEPT !["rmb"] = "bundled", !["rmbd"] = left] : left \in {disk["rmbd"], NoFile}}

(* EnsureInstalled copies the bundled sidecars over missing or earlier     *)
(* ones, rmb first; its failure is logged.  RestartAfterUpdate follows.    *)
(* One step: nothing that runs meanwhile looks at the files.               *)
Boot ==
  /\ at["poll"] = "boot"
  /\ \/ ~NeedsRefresh /\ UNCHANGED <<disk, faults>>
     \/ NeedsRefresh /\ disk' = [f \in Files |-> "bundled"] /\ UNCHANGED faults
     \/ NeedsRefresh /\ Fault /\ disk' \in HalfInstalled
  /\ Go("poll", IF shuttingDown THEN "rest" ELSE "take")
  /\ updating' = (updating /\ shuttingDown)
  /\ UNCHANGED <<procs, child, shuttingDown, job, doomed, bak, installed, moving, path, missed, updates, restarts>>

(* The poller calls EnsureRunning when the daemon does not answer, or when *)
(* its answer is lost... *)
Poll ==
  /\ at["poll"] = "rest"
  /\ \/ ~Healthy /\ UNCHANGED faults
     \/ Healthy /\ Fault
  /\ Go("poll", "ensure")
  /\ job' = [job EXCEPT !["poll"] = "ensure"]
  /\ UNCHANGED <<procs, child, shuttingDown, updating, doomed, files, path, missed, updates, restarts>>

(* ...which defers to the latches. *)
Defer ==
  /\ at["poll"] = "ensure"
  /\ Go("poll", IF shuttingDown \/ updating THEN "rest" ELSE "probe")
  /\ UNCHANGED <<procs, child, shuttingDown, updating, job, doomed, files, path, missed, bounds>>

(* A daemon of this shell's version stays; a child of another is killed, a *)
(* daemon that is not the child is detached.                               *)
Probe ==
  /\ at["poll"] = "probe"
  /\ \/ RunningMatchesExpected /\ Go("poll", "rest")
     \/ ~RunningMatchesExpected /\ Go("poll", IF ManagedRunning THEN "take" ELSE "detach")
  /\ proc' = Reaped
  /\ child' = IF ManagedRunning THEN child ELSE NoProc
  /\ UNCHANGED <<build, shuttingDown, updating, job, doomed, files, path, missed, bounds>>

-----------------------------------------------------------------------------
(* The updater: StopForUpdate, swapAll, RestartAfterUpdate. *)

(* The user installs an update, which was found after startup had          *)
(* installed the bundled sidecars. *)
Install ==
  /\ at["update"] = "rest" /\ at["poll"] # "boot"
  /\ updates < MaxUpdates /\ updates' = updates + 1
  /\ updating' = TRUE
  /\ job' = [job EXCEPT !["update"] = "swap"]
  /\ Go("update", "take")
  /\ UNCHANGED <<procs, child, shuttingDown, doomed, files, path, missed, restarts, faults>>

(* Files come in the order of a map, any order. *)
MoveAside(f) ==
  /\ at["update"] = "swap" /\ moving = NoFile /\ f \notin installed
  /\ moving' = f
  /\ bak' = IF disk[f] = NoFile THEN bak ELSE [bak EXCEPT ![f] = disk[f]]
  /\ disk' = [disk EXCEPT ![f] = NoFile]
  /\ UNCHANGED <<procs, shell, installed, path, missed, bounds>>

PutInPlace ==
  /\ at["update"] = "swap" /\ moving # NoFile
  /\ disk' = [disk EXCEPT ![moving] = "release"]
  /\ installed' = installed \cup {moving}
  /\ moving' = NoFile
  /\ UNCHANGED <<procs, shell, bak, path, missed, bounds>>

SwapDone ==
  /\ at["update"] = "swap" /\ installed = Files
  /\ bak' = [f \in Files |-> NoFile]
  /\ installed' = {}
  /\ Go("update", "restart")
  /\ UNCHANGED <<procs, child, shuttingDown, updating, job, doomed, disk, moving, path, missed, bounds>>

(* Variant: no rollback. *)
BadSwapFails ==
  /\ at["update"] = "swap" /\ installed # Files
  /\ Fault
  /\ installed' = {} /\ moving' = NoFile
  /\ Go("update", "restart")
  /\ UNCHANGED <<procs, child, shuttingDown, updating, job, doomed, disk, bak, path, missed, updates, restarts>>

(* The download or a file operation fails, and the rollback puts back what *)
(* was swapped in: not the file that is aside, which has no place in       *)
(* installed yet.                                                          *)
SwapFails ==
  /\ at["update"] = "swap" /\ installed # Files
  /\ Fault
  /\ disk' = [f \in Files |-> IF f \in installed THEN bak[f] ELSE disk[f]]
  /\ bak' = [f \in Files |-> IF f \in installed THEN NoFile ELSE bak[f]]
  /\ installed' = {} /\ moving' = NoFile
  /\ Go("update", "restart")
  /\ UNCHANGED <<procs, child, shuttingDown, updating, job, doomed, path, missed, updates, restarts>>

(* Variant: the latch stays (the regression that daemon.go tells of). *)
BadLatch ==
  /\ at["update"] = "restart"
  /\ Go("update", IF shuttingDown THEN "rest" ELSE "take")
  /\ job' = [job EXCEPT !["update"] = "restart"]
  /\ UNCHANGED <<procs, child, shuttingDown, updating, doomed, files, path, missed, bounds>>

(* Variant: a child that runs already is good enough. *)
BadRestart ==
  /\ at["update"] = "restart"
  /\ Go("update", IF shuttingDown THEN "rest" ELSE "start")
  /\ updating' = (updating /\ shuttingDown)
  /\ job' = [job EXCEPT !["update"] = "restart"]
  /\ UNCHANGED <<procs, child, shuttingDown, doomed, files, path, missed, bounds>>

(* RestartAfterUpdate gives the latch back. *)
RestartAfterUpdate ==
  /\ at["update"] = "restart"
  /\ Go("update", IF shuttingDown THEN "rest" ELSE "take")
  /\ updating' = (updating /\ shuttingDown)
  /\ job' = [job EXCEPT !["update"] = "restart"]
  /\ UNCHANGED <<procs, child, shuttingDown, doomed, files, path, missed, bounds>>

-----------------------------------------------------------------------------
(* Quit from the menu or a signal. *)
Quit ==
  /\ at["quit"] = "rest"
  /\ shuttingDown' = TRUE
  /\ job' = [job EXCEPT !["quit"] = "quit"]
  /\ Go("quit", "take")
  /\ UNCHANGED <<procs, child, updating, doomed, files, path, missed, bounds>>

-----------------------------------------------------------------------------
(* rmbd. *)

(* Variant: the port is shared. *)
BadBind(p) ==
  /\ proc[p] = "starting"
  /\ proc' = [proc EXCEPT ![p] = "serving"]
  /\ UNCHANGED <<build, shell, files, path, missed, bounds>>

(* It starts its workers, then binds the port.  When that fails serve      *)
(* returns, but its workers never do.                                      *)
Bind(p) ==
  /\ proc[p] = "starting"
  /\ proc' = [proc EXCEPT ![p] = IF Healthy THEN "stuck" ELSE "serving"]
  /\ UNCHANGED <<build, shell, files, path, missed, bounds>>

(* The dashboard's restart spawns a replacement first, from the file that  *)
(* the process was started from: the installed one, or the one in a bundle *)
(* (or moved aside), which is of its own build...                          *)
Restart(p) ==
  /\ proc[p] = "serving" /\ Free # {}
  /\ restarts < MaxRestarts /\ restarts' = restarts + 1
  /\ proc' = [proc EXCEPT ![p] = "leaving", ![Spawned] = "starting"]
  /\ \E b \in {disk["rmbd"], build[p]} \ {NoFile} : build' = [build EXCEPT ![Spawned] = b]
  /\ UNCHANGED <<shell, files, path, missed, updates, faults>>

(* ...and exits then. *)
Leave(p) ==
  /\ proc[p] = "leaving"
  /\ End({p})
  /\ UNCHANGED <<shell, files, path, missed, bounds>>

Crash(p) ==
  /\ p \in Live /\ Fault
  /\ End({p})
  /\ UNCHANGED <<shell, files, path, missed, updates, restarts>>

-----------------------------------------------------------------------------
Step(t) == Take(t) \/ Kill(t) \/ Detach(t) \/ Again(t) \/ Start(t) \/ Spawn(t) \/ Await(t)

Swap == (\E f \in Files : MoveAside(f)) \/ PutInPlace \/ SwapDone

(* What a goroutine does by itself, and what a process does. *)
Goroutine(t) ==
  \/ Step(t)
  \/ t = "poll" /\ (Boot \/ Poll \/ Defer \/ Probe)
  \/ t = "update" /\ (Swap \/ RestartAfterUpdate)

Process(p) == Bind(p) \/ Leave(p)

Next ==
  \/ \E t \in Threads : Goroutine(t)
  \/ Install \/ SwapFails \/ Quit
  \/ \E p \in Procs : Process(p) \/ Restart(p) \/ Crash(p)

(* Goroutines run on, file operations and requests end (they have          *)
(* timeouts), a process binds or leaves; nobody has to click or crash.     *)
Fairness ==
  /\ \A t \in Threads : WF_vars(Goroutine(t))
  /\ \A p \in Procs : WF_vars(Process(p))

Spec == Init /\ [][Next]_vars /\ Fairness

-----------------------------------------------------------------------------
(* Types, and that one process at most listens on the port. *)
TypeOK ==
  /\ proc \in [Procs -> {"none", "starting", "serving", "leaving", "stuck", "dead"}]
  /\ build \in [Procs -> Builds \cup {NoBuild}]
  /\ child \in Procs \cup {NoProc}
  /\ shuttingDown \in BOOLEAN /\ updating \in BOOLEAN
  /\ at \in [Threads -> {"boot", "rest", "ensure", "probe", "take", "kill", "detach", "again",
                         "start", "spawn", "await", "swap", "restart", "over"}]
  /\ job \in [Threads -> {"restart", "ensure", "swap", "quit", "exit"}]
  /\ doomed \in [Threads -> Procs \cup {NoProc}]
  /\ disk \in [Files -> Builds \cup {NoFile}] /\ bak \in [Files -> Builds \cup {NoFile}]
  /\ path \in {"installed", "bundle"}
  /\ installed \subseteq Files /\ moving \in Files \cup {NoFile} /\ missed \in BOOLEAN
  /\ updates \in 0..MaxUpdates /\ restarts \in 0..MaxRestarts /\ faults \in 0..MaxFaults
  /\ \A p, q \in Listeners : p = q

AtRest == \A t \in Threads : at[t] = "rest"

(* No dashboard restart, whose replacement is not the shell's child and    *)
(* may lose the port to the process it replaces, and no kill by port that  *)
(* went wrong, after which what serves is nobody's.                        *)
Undisturbed == restarts = 0 /\ ~missed

(* Whatever the poller, the updater and crashes did to each other, once    *)
(* they have come to rest at most one rmbd lives (startup, EnsureRunning,  *)
(* RestartAfterUpdate).                                                    *)
OneAtRest == AtRest /\ Undisturbed => \A p, q \in Live : p = q

(* RestartAfterUpdate "always restarts so a newly installed binary is what *)
(* serves": at rest, every rmbd is of the build that is installed, after   *)
(* an update, a failed one, or a start over an old daemon.  (Only if the   *)
(* shell found an installed rmbd when it started: on the first launch it   *)
(* keeps the path of the bundled one.)                                     *)
InstalledServesLater ==
  path = "installed" /\ AtRest /\ Undisturbed /\ disk["rmbd"] # NoFile
    => \A p \in Live : build[p] = disk["rmbd"]

(* An update is all or nothing: outside of a swap the sidecars that are    *)
(* there are of one version (swapAll and its rollback), or still those of  *)
(* a startup that could copy the first only (EnsureInstalled).             *)
NeverMixed ==
  at["update"] \notin {"swap", "over"}
    => \/ \A f, g \in Files : NoFile \in {disk[f], disk[g]} \/ disk[f] = disk[g]
       \/ disk["rmb"] = "bundled" /\ disk["rmbd"] = "previous"

(* What there is of each sidecar: while a swap may be rolled back, and     *)
(* after one that failed with a file aside, that is the copy.              *)
Kept == [f \in Files |-> IF f \in installed \/ disk[f] = NoFile THEN bak[f] ELSE disk[f]]

Upgrades == INSTANCE Upgrade WITH version <- Kept

(* The sidecars keep the promise of module Upgrade: at every step of a     *)
(* swap, its failures included, what there is of both is what there was    *)
(* before it, until it becomes the release for both in one step; only the  *)
(* startup may leave one of two (EnsureInstalled, swapAll, its rollback).  *)
AllOrNothing == Upgrades!UpgradeSpec

(* The poller brings a daemon back after crashes, stuck and slow starts,   *)
(* and whatever an update left (healthPoller, EnsureRunning): a daemon     *)
(* answers again and again, until quit or unless there is no program.      *)
Recovers == []<>(Healthy \/ shuttingDown \/ Program = NoFile)
=============================================================================
