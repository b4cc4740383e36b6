-------------------------- MODULE SupervisorProofs --------------------------
(***************************************************************************)
(* Proofs about module Supervisor, for any number of processes, updates,   *)
(* restarts and faults.                                                    *)
(***************************************************************************)
EXTENDS Supervisor, TLAPS

Labels == {"boot", "rest", "ensure", "probe", "take", "kill", "detach", "again", "start", "spawn",
           "await", "swap", "restart", "over"}

(***************************************************************************)
(* That a release is not mixed with another build rests on what the copies *)
(* hold: while an update runs, what it has not replaced, and every copy,   *)
(* is what there was before; a copy that a failed update left is no        *)
(* exception, and startup, which may install another build and stop half   *)
(* way, comes before any update.                                           *)
(***************************************************************************)
Same(v) == [f \in Files |-> v]

Half == [f \in Files |-> IF f = "rmb" THEN "bundled" ELSE "previous"]

Befores == {Same(v) : v \in Builds} \cup {Half}

Before(old) ==
  \A f \in Files :
    /\ bak[f] \in {NoFile, old[f]}
    /\ f \in installed => disk[f] = "release"
    /\ f \notin installed => disk[f] \in {NoFile, old[f]}

(* Startup finds the files of one version, as the shell before left them. *)
FoundWhole == \E v \in {NoFile, "previous", "bundled"} : disk = Same(v)

FilesInv ==
  /\ at \in [Threads -> Labels] /\ DOMAIN job = Threads
  /\ DOMAIN disk = Files /\ DOMAIN bak = Files /\ installed \subseteq Files
  /\ moving \in Files \cup {NoFile} /\ moving \notin installed
  /\ at["update"] # "over" => \E old \in Befores : Before(old)
  /\ at["update"] \notin {"swap", "over"} => installed = {} /\ moving = NoFile
  /\ at["poll"] = "boot" =>
       at["update"] = "rest" /\ FoundWhole /\ \A f \in Files : bak[f] = NoFile
  /\ \A t \in Threads : at[t] = "again" => job[t] \in {"swap", "quit", "exit"}

LEMMA FilesInit == Init => FilesInv
<1> SUFFICES ASSUME Init PROVE FilesInv
  OBVIOUS
<1>1. PICK b \in {NoFile, "previous", "bundled"} : disk = [f \in Files |-> b]
  BY DEF Init
<1>2. (\E old \in Befores : Before(old)) /\ FoundWhole
  <2>1. PICK v \in Builds : b \in {NoFile, v}
    BY <1>1 DEF Builds
  <2>2. Before(Same(v)) /\ Same(v) \in Befores
    BY <1>1, <2>1 DEF Init, Before, Same, Befores
  <2>3. FoundWhole
    BY <1>1 DEF FoundWhole, Same
  <2> QED BY <2>2, <2>3
<1>3. at \in [Threads -> Labels] /\ DOMAIN job = Threads /\ moving = NoFile /\ installed = {} /\ NoFile \notin installed
  BY DEF Init, Threads, Labels
<1>4. /\ DOMAIN disk = Files /\ DOMAIN bak = Files /\ at["update"] = "rest"
      /\ \A f \in Files : bak[f] = NoFile
      /\ \A t \in Threads : at[t] # "again"
  BY <1>1 DEF Init, Threads
<1> QED BY <1>2, <1>3, <1>4 DEF FilesInv

(* Steps that leave the files alone and the updater outside of a swap, or  *)
(* in it.                                                                  *)
LEMMA FilesKept ==
  ASSUME FilesInv, UNCHANGED <<disk, bak, installed, moving>>,
         at' \in [Threads -> Labels], DOMAIN job' = Threads,
         at["update"] = "over" => at'["update"] = "over",
         at["update"] = "swap" => at'["update"] \in {"swap", "over"},
         at'["poll"] = "boot" => at["poll"] = "boot" /\ at'["update"] = at["update"],
         \A t \in Threads : at'[t] = "again" => job'[t] \in {"swap", "quit", "exit"}
  PROVE  FilesInv'
<1>1. \A old \in Befores : Before(old) => Before(old)'
  BY DEF Before
<1>2. at'["update"] # "over" => \E old \in Befores : Before(old)'
  BY <1>1 DEF FilesInv
<1>3. FoundWhole => FoundWhole'
  BY DEF FoundWhole
<1> QED BY <1>2, <1>3 DEF FilesInv

LEMMA FilesStep ==
  ASSUME FilesInv, NEW t \in Threads, Step(t) PROVE FilesInv'
<1>1. UNCHANGED <<disk, bak, installed, moving>>
  BY DEF Step, Take, Kill, Detach, Again, Start, Spawn, Await, files
<1>2. at \in [Threads -> Labels]
  BY DEF FilesInv
<1>3. CASE Again(t)
  <2>1. job[t] \in {"swap", "quit", "exit"} /\ at[t] = "again"
    BY <1>3 DEF FilesInv, Again
  <2>2. CASE job[t] = "swap"
    <3>1. at' = [at EXCEPT ![t] = "swap"] /\ job' = job
      BY <1>3, <2>2 DEF Again, Go
    <3> QED BY <1>1, <1>2, <2>1, <3>1, FilesKept DEF FilesInv, Labels, Threads
  <2>3. CASE job[t] = "quit"
    <3>1. at' = [at EXCEPT ![t] = "take"] /\ job' = [job EXCEPT ![t] = "exit"]
      BY <1>3, <2>3 DEF Again, Go
    <3>2. \A u \in Threads : at'[u] = "again" => job'[u] \in {"swap", "quit", "exit"}
      BY <1>2, <3>1 DEF FilesInv
    <3> QED BY <1>1, <1>2, <2>1, <3>1, <3>2, FilesKept DEF FilesInv, Labels, Threads
  <2>4. CASE job[t] = "exit"
    <3>1. at' = [u \in Threads |-> "over"]
      BY <1>3, <2>4 DEF Again
    <3>2. at'["update"] = "over" /\ at'["poll"] = "over" /\ at' \in [Threads -> Labels]
          /\ \A u \in Threads : at'[u] # "again"
      BY <3>1 DEF Threads, Labels
    <3>3. DOMAIN job' = Threads
      BY <1>3, <2>4 DEF Again, FilesInv
    <3> QED BY <1>1, <3>2, <3>3, FilesKept
  <2> QED BY <2>1, <2>2, <2>3, <2>4
<1>4. CASE Detach(t)
  BY <1>1, <1>2, <1>4, FilesKept DEF Detach, Go, FilesInv, Labels, Threads
<1>5. CASE Take(t) \/ Kill(t) \/ Start(t) \/ Spawn(t) \/ Await(t)
  <2>1. job' = job /\ at[t] \in {"take", "kill", "start", "spawn", "await"}
    BY <1>5 DEF Take, Kill, Start, Spawn, Await
  <2>2. PICK l \in {"detach", "kill", "rest", "await", "spawn"} : at' = [at EXCEPT ![t] = l]
    BY <1>5 DEF Take, Kill, Start, Spawn, Await, Go
  <2> QED BY <1>1, <1>2, <2>1, <2>2, FilesKept DEF FilesInv, Labels, Threads
<1> QED BY <1>3, <1>4, <1>5 DEF Step

(* What startup leaves. *)
LEMMA BootLeaves ==
  ASSUME FoundWhole, Boot
  PROVE  \E old \in Befores : \A f \in Files : disk'[f] \in {NoFile, old[f]}
<1>1. PICK v \in {NoFile, "previous", "bundled"} : disk = Same(v)
  BY DEF FoundWhole
<1>2. PICK w \in Builds : v \in {NoFile, w}
  BY <1>1 DEF Builds
<1>3. Same(w) \in Befores /\ Same("bundled") \in Befores /\ Half \in Befores
  BY DEF Befores, Builds
<1>4. CASE disk' = disk
  BY <1>1, <1>2, <1>3, <1>4 DEF Same
<1>5. CASE disk' = [f \in Files |-> "bundled"]
  BY <1>3, <1>5 DEF Same
<1>6. CASE NeedsRefresh /\ disk' \in HalfInstalled
  <2>1. v \in {NoFile, "previous"}
    BY <1>1, <1>6 DEF NeedsRefresh, Same, NoFile
  <2>2. PICK left \in {v, NoFile} :
          \/ disk' = [disk EXCEPT !["rmb"] = left]
          \/ disk' = [disk EXCEPT !["rmb"] = "bundled", !["rmbd"] = left]
    BY <1>1, <1>6 DEF HalfInstalled, Same, Files
  <2>3. CASE disk' = [disk EXCEPT !["rmb"] = left]
    BY <1>1, <1>2, <1>3, <2>2, <2>3 DEF Same
  <2>4. CASE disk' = [disk EXCEPT !["rmb"] = "bundled", !["rmbd"] = left]
    <3>1. \A f \in Files : disk'[f] \in {NoFile, Half[f]}
      BY <1>1, <2>1, <2>2, <2>4 DEF Same, Half, Files
    <3> QED BY <1>3, <3>1
  <2> QED BY <2>2, <2>3, <2>4
<1> QED BY <1>4, <1>5, <1>6 DEF Boot

LEMMA FilesPoll == ASSUME FilesInv, Boot \/ Poll \/ Defer \/ Probe PROVE FilesInv'
<1>1. at \in [Threads -> Labels] /\ "poll" \in Threads /\ "update" \in Threads
  BY DEF FilesInv, Threads
<1>2. CASE Poll \/ Defer \/ Probe
  <2>1. PICK l \in {"ensure", "probe", "rest", "take", "detach"} : at' = [at EXCEPT !["poll"] = l]
    BY <1>2 DEF Poll, Defer, Probe, Go
  <2>2. at["poll"] \in {"rest", "ensure", "probe"} /\ UNCHANGED <<disk, bak, installed, moving>>
        /\ DOMAIN job' = Threads /\ \A t \in Threads \ {"poll"} : job'[t] = job[t]
    BY <1>2 DEF Poll, Defer, Probe, files, FilesInv
  <2> QED BY <1>1, <2>1, <2>2, FilesKept DEF FilesInv, Labels
<1>3. CASE Boot
  <2>1. PICK l \in {"rest", "take"} : at' = [at EXCEPT !["poll"] = l]
    BY <1>3 DEF Boot, Go
  <2>2. at["poll"] = "boot" /\ UNCHANGED <<bak, installed, moving, job>>
    BY <1>3 DEF Boot
  <2>3. at'["update"] = "rest" /\ installed = {} /\ moving = NoFile /\ FoundWhole
        /\ \A f \in Files : bak[f] = NoFile
    BY <1>1, <2>1, <2>2 DEF FilesInv
  <2>4. \E old \in Befores : Before(old)'
    BY <1>3, <2>2, <2>3, BootLeaves DEF Before
  <2>5. DOMAIN disk' = Files
    BY <1>3 DEF Boot, FilesInv, HalfInstalled
  <2> QED BY <1>1, <2>1, <2>2, <2>3, <2>4, <2>5 DEF FilesInv, Labels
<1> QED BY <1>2, <1>3

LEMMA FilesUpdate ==
  ASSUME FilesInv, Swap \/ SwapFails \/ RestartAfterUpdate \/ Install PROVE FilesInv'
<1>1. at \in [Threads -> Labels] /\ "poll" \in Threads /\ "update" \in Threads
  BY DEF FilesInv, Threads
<1>2. CASE RestartAfterUpdate \/ Install
  <2>1. PICK l \in {"rest", "take"} : at' = [at EXCEPT !["update"] = l]
    BY <1>2 DEF RestartAfterUpdate, Install, Go
  <2>2. at["update"] \in {"rest", "restart"} /\ at["poll"] # "boot"
        /\ UNCHANGED <<disk, bak, installed, moving>>
        /\ DOMAIN job' = Threads /\ \A t \in Threads \ {"update"} : job'[t] = job[t]
    BY <1>2 DEF RestartAfterUpdate, Install, files, FilesInv
  <2> QED BY <1>1, <2>1, <2>2, FilesKept DEF FilesInv, Labels
<1>3. ASSUME Swap \/ SwapFails
      PROVE  /\ at["update"] = "swap" /\ at["poll"] # "boot" /\ job' = job
             /\ NoFile \notin Files
             /\ \E old \in Befores : Before(old)
  BY <1>3 DEF Swap, SwapFails, MoveAside, PutInPlace, SwapDone, FilesInv, shell, Files, NoFile
<1>4. ASSUME NEW f \in Files, MoveAside(f) PROVE FilesInv'
  <2>1. PICK old \in Befores : Before(old)
    BY <1>3, <1>4 DEF Swap
  <2>2. Before(old)'
    BY <1>4, <2>1 DEF MoveAside, Before, FilesInv
  <2>3. UNCHANGED <<at, job, installed>> /\ moving' = f /\ f \notin installed
        /\ DOMAIN disk' = Files /\ DOMAIN bak' = Files
    BY <1>4 DEF MoveAside, shell, FilesInv
  <2> QED BY <1>3, <1>4, <2>2, <2>3 DEF FilesInv, Swap
<1>5. CASE PutInPlace
  <2>1. PICK old \in Befores : Before(old)
    BY <1>3, <1>5 DEF Swap
  <2>2. moving \in Files
    BY <1>5 DEF PutInPlace, FilesInv
  <2>3. Before(old)'
    BY <1>5, <2>1, <2>2 DEF PutInPlace, Before, FilesInv
  <2>4. UNCHANGED <<at, job, bak>> /\ moving' = NoFile /\ installed' = installed \cup {moving}
        /\ DOMAIN disk' = Files
    BY <1>5 DEF PutInPlace, shell, FilesInv
  <2>5. NoFile \notin installed'
    BY <1>3, <1>5, <2>2, <2>4 DEF FilesInv, Swap
  <2> QED BY <1>3, <1>5, <2>2, <2>3, <2>4, <2>5 DEF FilesInv, Swap
<1>6. CASE SwapDone
  <2>1. PICK old \in Befores : Before(old)
    BY <1>3, <1>6 DEF Swap
  <2>2. /\ at' = [at EXCEPT !["update"] = "restart"] /\ UNCHANGED <<job, disk, moving>>
        /\ bak' = [f \in Files |-> NoFile] /\ installed' = {} /\ installed = Files
    BY <1>6 DEF SwapDone, Go
  <2>3. Before(Same("release"))' /\ Same("release") \in Befores
    BY <2>1, <2>2 DEF Before, Same, Befores, Builds
  <2>4. moving = NoFile
    BY <2>2 DEF FilesInv
  <2> QED BY <1>1, <1>3, <1>6, <2>2, <2>3, <2>4 DEF FilesInv, Swap, Labels
<1>7. CASE SwapFails
  <2>1. PICK old \in Befores : Before(old)
    BY <1>3, <1>7
  <2>2. /\ at' = [at EXCEPT !["update"] = "restart"] /\ UNCHANGED job
        /\ disk' = [f \in Files |-> IF f \in installed THEN bak[f] ELSE disk[f]]
        /\ bak' = [f \in Files |-> IF f \in installed THEN NoFile ELSE bak[f]]
        /\ installed' = {} /\ moving' = NoFile
    BY <1>7 DEF SwapFails, Go
  <2>3. Before(old)'
    BY <2>1, <2>2 DEF Before
  <2> QED BY <1>1, <1>3, <1>7, <2>2, <2>3 DEF FilesInv, Labels
<1> QED BY <1>2, <1>4, <1>5, <1>6, <1>7 DEF Swap

LEMMA FilesNext == FilesInv /\ [Next]_vars => FilesInv'
<1> SUFFICES ASSUME FilesInv, [Next]_vars PROVE FilesInv'
  OBVIOUS
<1>1. CASE Quit
  <2>1. at' = [at EXCEPT !["quit"] = "take"] /\ UNCHANGED <<disk, bak, installed, moving>>
        /\ DOMAIN job' = Threads /\ \A t \in Threads \ {"quit"} : job'[t] = job[t]
    BY <1>1 DEF Quit, Go, files, FilesInv
  <2>2. "quit" \in Threads /\ at \in [Threads -> Labels] /\ at["quit"] = "rest"
    BY <1>1 DEF Quit, Threads, FilesInv
  <2> QED BY <2>1, <2>2, FilesKept DEF FilesInv, Labels
<1>2. ASSUME NEW p \in Procs, Process(p) \/ Restart(p) \/ Crash(p) PROVE FilesInv'
  BY <1>2, FilesKept DEF Process, Bind, Leave, Restart, Crash, shell, files, FilesInv
<1>3. CASE UNCHANGED vars
  BY <1>3, FilesKept DEF vars, shell, files, FilesInv
<1>4. ASSUME NEW t \in Threads, Goroutine(t) PROVE FilesInv'
  BY <1>4, FilesStep, FilesPoll, FilesUpdate DEF Goroutine
<1> QED BY <1>1, <1>2, <1>3, <1>4, FilesUpdate DEF Next

(***************************************************************************)
(* However many updates are installed, wherever they fail, outside of a    *)
(* swap the sidecars that are there are of one version, or those of a      *)
(* startup that could copy the first only.                                 *)
(***************************************************************************)
THEOREM SidecarsMatch == Spec => []NeverMixed
<1>1. FilesInv => NeverMixed
  <2> SUFFICES ASSUME FilesInv, at["update"] \notin {"swap", "over"}
               PROVE  \/ \A f, g \in Files : NoFile \in {disk[f], disk[g]} \/ disk[f] = disk[g]
                      \/ disk["rmb"] = "bundled" /\ disk["rmbd"] = "previous"
    BY DEF NeverMixed
  <2>1. PICK old \in Befores : \A f \in Files : disk[f] \in {NoFile, old[f]}
    BY DEF FilesInv, Before
  <2>2. CASE \E v \in Builds : old = Same(v)
    BY <2>1, <2>2 DEF Same
  <2>3. CASE old = Half
    BY <2>1, <2>3 DEF Half, Files
  <2> QED BY <2>2, <2>3 DEF Befores
<1> QED BY <1>1, FilesInit, FilesNext, PTL DEF Spec

-----------------------------------------------------------------------------
(* The steps as steps of module Upgrade. *)

(* A file aside has left its place. *)
Aside == moving \in Files => disk[moving] = NoFile

(* Who touches the files. *)
LEMMA FileSteps ==
  ASSUME FilesInv, [Next]_vars
  PROVE  \/ UNCHANGED <<disk, bak, installed, moving>>
         \/ Boot \/ (\E f \in Files : MoveAside(f)) \/ PutInPlace \/ SwapDone \/ SwapFails
<1>1. ASSUME NEW t \in Threads, Step(t) PROVE UNCHANGED <<disk, bak, installed, moving>>
  BY <1>1 DEF Step, Take, Kill, Detach, Again, Start, Spawn, Await, files
<1>2. ASSUME Poll \/ Defer \/ Probe \/ RestartAfterUpdate \/ Install \/ Quit
      PROVE  UNCHANGED <<disk, bak, installed, moving>>
  BY <1>2 DEF Poll, Defer, Probe, RestartAfterUpdate, Install, Quit, files
<1>3. ASSUME NEW p \in Procs, Process(p) \/ Restart(p) \/ Crash(p)
      PROVE  UNCHANGED <<disk, bak, installed, moving>>
  BY <1>3 DEF Process, Bind, Leave, Restart, Crash, files
<1>4. UNCHANGED vars => UNCHANGED <<disk, bak, installed, moving>>
  BY DEF vars, files
<1> QED BY <1>1, <1>2, <1>3, <1>4 DEF Next, Goroutine, Swap

LEMMA AsideNext == FilesInv /\ Aside /\ [Next]_vars => Aside'
<1> SUFFICES ASSUME FilesInv, Aside, [Next]_vars PROVE Aside'
  OBVIOUS
<1>1. NoFile \notin Files
  BY DEF Files, NoFile
<1>2. CASE UNCHANGED <<disk, bak, installed, moving>> \/ SwapDone
  BY <1>2 DEF Aside, SwapDone
<1>3. CASE Boot
  <2>1. moving = NoFile
    BY <1>3 DEF Boot, FilesInv
  <2> QED BY <1>1, <1>3, <2>1 DEF Boot, Aside
<1>4. ASSUME NEW f \in Files, MoveAside(f) PROVE Aside'
  BY <1>4 DEF MoveAside, FilesInv, Aside
<1>5. CASE PutInPlace \/ SwapFails
  BY <1>1, <1>5 DEF PutInPlace, SwapFails, Aside
<1> QED BY <1>2, <1>3, <1>4, <1>5, FileSteps

LEMMA KeptStep ==
  FilesInv /\ Aside /\ [Next]_vars => [Upgrades!Bundle \/ Upgrades!Release]_Kept
<1> SUFFICES ASSUME FilesInv, Aside, [Next]_vars
             PROVE  Upgrades!Bundle \/ Upgrades!Release \/ UNCHANGED Kept
  OBVIOUS
<1> DEFINE What(f) == IF f \in installed \/ disk[f] = NoFile THEN bak[f] ELSE disk[f]
<1>1. ASSUME \A f \in Files : What(f)' = What(f) PROVE UNCHANGED Kept
  BY <1>1 DEF Kept
<1>2. CASE UNCHANGED <<disk, bak, installed, moving>>
  BY <1>2 DEF Kept
<1>3. CASE Boot
  <2>1. /\ installed = {} /\ FoundWhole /\ UNCHANGED <<bak, installed, moving>>
        /\ \A f \in Files : bak[f] = NoFile
    BY <1>3 DEF Boot, FilesInv
  <2>2. PICK v \in {NoFile, "previous", "bundled"} : disk = Same(v)
    BY <2>1 DEF FoundWhole
  <2>3. CASE disk' = disk
    BY <1>2, <2>1, <2>3
  <2>4. CASE NeedsRefresh /\ (disk' = [f \in Files |-> "bundled"] \/ disk' \in HalfInstalled)
    <3>1. v \in {NoFile, "previous"}
      BY <2>2, <2>4 DEF NeedsRefresh, Same, NoFile
    <3>2. Kept = Upgrades!All(v)
      BY <2>1, <2>2 DEF Kept, Same, Upgrades!All
    <3>3. DOMAIN disk' = Files
      BY <2>2, <2>4 DEF HalfInstalled, Same
    <3>4. Kept' = [f \in Files |-> disk'[f]]
      BY <2>1, <3>3 DEF Kept
    <3>5. \E whole \in SUBSET Files : \E ruined \in (Files \ whole) \cup {NoFile} :
            \A f \in Files : disk'[f] = IF f \in whole THEN "bundled"
                                     ELSE IF f = ruined THEN NoFile ELSE Kept[f]
      <4>1. CASE disk' = [f \in Files |-> "bundled"]
        <5>1. Files \in SUBSET Files /\ NoFile \in (Files \ Files) \cup {NoFile}
          OBVIOUS
        <5> QED BY <4>1, <5>1
      <4>2. CASE \E left \in {disk["rmb"], NoFile} : disk' = [disk EXCEPT !["rmb"] = left]
        <5>1. PICK left \in {v, NoFile} : disk' = [disk EXCEPT !["rmb"] = left]
          BY <2>2, <4>2 DEF Same, Files
        <5>2. {} \in SUBSET Files /\ NoFile \in (Files \ {}) \cup {NoFile}
              /\ "rmb" \in (Files \ {}) \cup {NoFile}
          BY DEF Files
        <5>3. CASE left = v
          <6>1. \A f \in Files : disk'[f] = Kept[f] /\ f # NoFile /\ f \notin {}
            BY <2>2, <3>2, <5>1, <5>3 DEF Same, Upgrades!All, Files, NoFile
          <6>2. \A f \in Files : disk'[f] = IF f \in {} THEN "bundled"
                                         ELSE IF f = NoFile THEN NoFile ELSE Kept[f]
            BY <6>1
          <6> QED BY <5>2, <6>2
        <5>4. CASE left = NoFile
          <6>1. disk'["rmb"] = NoFile /\ disk'["rmbd"] = Kept["rmbd"]
            BY <2>2, <3>2, <5>1, <5>4 DEF Same, Upgrades!All, Files
          <6> QED BY <5>2, <6>1 DEF Files
        <5> QED BY <5>1, <5>3, <5>4
      <4>3. CASE \E left \in {disk["rmbd"], NoFile} :
                   disk' = [disk EXCEPT !["rmb"] = "bundled", !["rmbd"] = left]
        <5>1. PICK left \in {v, NoFile} :
                disk' = [disk EXCEPT !["rmb"] = "bundled", !["rmbd"] = left]
          BY <2>2, <4>3 DEF Same, Files
        <5>2. {"rmb"} \in SUBSET Files /\ NoFile \in (Files \ {"rmb"}) \cup {NoFile}
              /\ "rmbd" \in (Files \ {"rmb"}) \cup {NoFile}
          BY DEF Files
        <5>3. disk'["rmb"] = "bundled" /\ disk'["rmbd"] = left /\ Kept["rmbd"] = v
          BY <2>2, <3>2, <5>1 DEF Same, Upgrades!All, Files
        <5>4. CASE left = v
          <6>1. \A f \in Files : disk'[f] = IF f \in {"rmb"} THEN "bundled"
                                         ELSE IF f = NoFile THEN NoFile ELSE Kept[f]
            BY <5>3, <5>4 DEF Files, NoFile
          <6> QED BY <5>2, <6>1
        <5>5. CASE left = NoFile
          BY <5>2, <5>3, <5>5 DEF Files
        <5> QED BY <5>1, <5>4, <5>5
      <4> QED BY <2>4, <4>1, <4>2, <4>3 DEF HalfInstalled
    <3>6. Upgrades!Bundle
      BY <3>1, <3>2, <3>4, <3>5 DEF Upgrades!Bundle
    <3> QED BY <3>6
  <2> QED BY <1>3, <2>3, <2>4 DEF Boot
<1>4. ASSUME NEW g \in Files, MoveAside(g) PROVE UNCHANGED Kept
  <2>1. /\ g \notin installed /\ UNCHANGED installed
        /\ bak' = IF disk[g] = NoFile THEN bak ELSE [bak EXCEPT ![g] = disk[g]]
        /\ disk' = [disk EXCEPT ![g] = NoFile]
    BY <1>4 DEF MoveAside
  <2>2. \A f \in Files : What(f)' = What(f)
    BY <2>1 DEF FilesInv
  <2> QED BY <1>1, <2>2
<1>5. CASE PutInPlace
  <2>1. PICK old \in Befores : Before(old)
    BY <1>5 DEF PutInPlace, FilesInv
  <2>2. /\ moving \in Files /\ moving \notin installed /\ UNCHANGED bak
        /\ disk' = [disk EXCEPT ![moving] = "release"]
        /\ installed' = installed \cup {moving}
    BY <1>5 DEF PutInPlace, FilesInv
  <2>3. disk[moving] = NoFile
    BY <2>2 DEF Aside
  <2>4. \A f \in Files : What(f)' = What(f)
    BY <2>2, <2>3 DEF FilesInv
  <2> QED BY <1>1, <2>4
<1>6. CASE SwapDone
  <2>1. PICK old \in Befores : Before(old)
    BY <1>6 DEF SwapDone, FilesInv
  <2>2. installed = Files /\ installed' = {} /\ disk' = disk
    BY <1>6 DEF SwapDone
  <2>3. \A f \in Files : disk[f] = "release"
    BY <2>1, <2>2 DEF Before
  <2>4. Kept' = [f \in Files |-> "release"]
    BY <2>2, <2>3 DEF Kept, NoFile
  <2> QED BY <2>4 DEF Upgrades!Release, Upgrades!All
<1>7. CASE SwapFails
  <2>1. /\ disk' = [f \in Files |-> IF f \in installed THEN bak[f] ELSE disk[f]]
        /\ bak' = [f \in Files |-> IF f \in installed THEN NoFile ELSE bak[f]]
        /\ installed' = {}
    BY <1>7 DEF SwapFails
  <2>2. \A f \in Files : What(f)' = What(f)
    BY <2>1
  <2> QED BY <1>1, <2>2
<1> QED BY <1>2, <1>3, <1>4, <1>5, <1>6, <1>7, FileSteps

(***************************************************************************)
(* The shell implements the abstract specification Upgrade: at any step of *)
(* any number of updates and failures, a release is there for both         *)
(* sidecars or for neither.                                                *)
(***************************************************************************)
THEOREM ImplementsUpgrade == Spec => AllOrNothing
<1>1. Init => Upgrades!UpgradeInit
  BY DEF Init, Kept, Upgrades!UpgradeInit, Upgrades!All
<1>2. Init => Aside
  BY DEF Init, Aside, Files, NoFile
<1> QED BY <1>1, <1>2, FilesInit, FilesNext, AsideNext, KeptStep, PTL
        DEF Spec, AllOrNothing, Upgrades!UpgradeSpec

-----------------------------------------------------------------------------
(* Types; beside them, that a goroutine about to kill has a child to kill. *)
States == {"none", "starting", "serving", "leaving", "stuck", "dead"}

Shape ==
  /\ proc \in [Procs -> States] /\ build \in [Procs -> Builds \cup {NoBuild}]
  /\ child \in Procs \cup {NoProc}
  /\ shuttingDown \in BOOLEAN /\ updating \in BOOLEAN
  /\ at \in [Threads -> Labels]
  /\ job \in [Threads -> {"restart", "ensure", "swap", "quit", "exit"}]
  /\ doomed \in [Threads -> Procs \cup {NoProc}]
  /\ disk \in [Files -> Builds \cup {NoFile}] /\ bak \in [Files -> Builds \cup {NoFile}]
  /\ path \in {"installed", "bundle"} /\ missed \in BOOLEAN
  /\ installed \subseteq Files /\ moving \in Files \cup {NoFile}
  /\ updates \in 0..MaxUpdates /\ restarts \in 0..MaxRestarts /\ faults \in 0..MaxFaults

OneListener == \A p, q \in Listeners : p = q

ShapeInv ==
  /\ Shape /\ OneListener
  /\ \A t \in Threads : at[t] = "again" => job[t] \in {"swap", "quit", "exit"}

LEMMA ShapeIsType == ShapeInv => TypeOK
BY DEF ShapeInv, Shape, OneListener, TypeOK, States, Labels

LEMMA ShapeInit == Init => ShapeInv
<1> SUFFICES ASSUME Init PROVE ShapeInv
  OBVIOUS
<1>1. PICK found \in {{}, {CHOOSE p \in Procs : TRUE}}, b \in {"previous", "bundled"} :
        /\ proc = [p \in Procs |-> IF p \in found THEN "serving" ELSE "none"]
        /\ build = [p \in Procs |-> IF p \in found THEN b ELSE NoBuild]
  BY DEF Init
<1>2. proc \in [Procs -> States] /\ build \in [Procs -> Builds \cup {NoBuild}]
  BY <1>1 DEF States, Builds
<1>3. OneListener
  BY <1>1 DEF OneListener, Listeners
<1>4. /\ at \in [Threads -> Labels] /\ doomed \in [Threads -> Procs \cup {NoProc}]
      /\ job \in [Threads -> {"restart", "ensure", "swap", "quit", "exit"}]
      /\ \A t \in Threads : at[t] # "again"
  BY DEF Init, Labels
<1>5. disk \in [Files -> Builds \cup {NoFile}] /\ bak \in [Files -> Builds \cup {NoFile}]
  BY DEF Init, Builds
<1>6. updates \in 0..MaxUpdates /\ restarts \in 0..MaxRestarts /\ faults \in 0..MaxFaults
  BY SupervisorAssumption DEF Init
<1> QED BY <1>2, <1>3, <1>4, <1>5, <1>6 DEF Init, ShapeInv, Shape

LEMMA EndKeeps ==
  ASSUME ShapeInv, NEW ps \in SUBSET Procs, End(ps)
  PROVE  /\ proc' \in [Procs -> States] /\ build' \in [Procs -> Builds \cup {NoBuild}]
         /\ OneListener'
BY DEF ShapeInv, Shape, End, OneListener, Listeners, States

LEMMA KillKeeps ==
  ASSUME ShapeInv, KillListeners
  PROVE  /\ proc' \in [Procs -> States] /\ build' \in [Procs -> Builds \cup {NoBuild}]
         /\ OneListener' /\ faults' \in 0..MaxFaults /\ missed' \in BOOLEAN
<1>1. Listeners \in SUBSET Procs
  BY DEF Listeners
<1>2. CASE End(Listeners) /\ UNCHANGED <<missed, faults>>
  BY <1>1, <1>2, EndKeeps DEF ShapeInv, Shape
<1>3. CASE Fault /\ missed' = TRUE /\ UNCHANGED procs
  <2>1. OneListener'
    BY <1>3 DEF ShapeInv, OneListener, Listeners, procs
  <2> QED BY <1>3, <2>1, SupervisorAssumption DEF ShapeInv, Shape, procs, Fault
<1> QED BY <1>2, <1>3 DEF KillListeners

LEMMA SpawnedIsFree == ASSUME Free # {} PROVE Spawned \in Procs /\ proc[Spawned] = "none"
BY DEF Free, Spawned

LEMMA ReapedShape ==
  ASSUME ShapeInv
  PROVE  /\ Reaped \in [Procs -> States]
         /\ \A p \in Procs : Reaped[p] \in {"serving", "leaving"} =>
              proc[p] \in {"serving", "leaving"}
BY DEF ShapeInv, Shape, Reaped, States

LEMMA FaultShape == ASSUME Shape, Fault PROVE faults' \in 0..MaxFaults
BY SupervisorAssumption DEF Shape, Fault

LEMMA ShapeProc ==
  ASSUME ShapeInv, NEW p \in Procs, Process(p) \/ Restart(p) \/ Crash(p)
  PROVE  ShapeInv'
<1> USE DEF ShapeInv, Shape, shell, files
<1>1. CASE Bind(p)
  <2>1. proc' \in [Procs -> States]
    BY <1>1 DEF Bind, States
  <2>2. OneListener'
    BY <1>1 DEF Bind, OneListener, Listeners, Healthy
  <2> QED BY <1>1, <2>1, <2>2 DEF Bind, bounds
<1>2. CASE Leave(p)
  BY <1>2, EndKeeps DEF Leave, bounds
<1>3. CASE Crash(p)
  BY <1>3, EndKeeps, FaultShape DEF Crash
<1>4. CASE Restart(p)
  <2>1. Spawned \in Procs /\ proc[Spawned] = "none" /\ proc[p] = "serving"
    BY <1>4, SpawnedIsFree DEF Restart
  <2>2. PICK b \in {disk["rmbd"], build[p]} \ {NoFile} : build' = [build EXCEPT ![Spawned] = b]
    BY <1>4 DEF Restart
  <2>8. b \in Builds \cup {NoBuild}
    BY <2>2 DEF Files
  <2> DEFINE n == Spawned
  <2>3. proc' = [proc EXCEPT ![p] = "leaving", ![n] = "starting"]
        /\ build' = [build EXCEPT ![n] = b]
    BY <1>4, <2>2 DEF Restart
  <2> HIDE DEF n
  <2>4. n \in Procs /\ n # p
    BY <2>1 DEF n
  <2>5. proc' \in [Procs -> States] /\ build' \in [Procs -> Builds \cup {NoBuild}]
    BY <2>8, <2>3, <2>4 DEF States
  <2>6. OneListener'
    BY <2>1, <2>3, <2>4 DEF OneListener, Listeners
  <2>7. restarts' \in 0..MaxRestarts
    BY <1>4, SupervisorAssumption DEF Restart
  <2> QED BY <1>4, <2>5, <2>6, <2>7 DEF Restart
<1> QED BY <1>1, <1>2, <1>3, <1>4 DEF Process

LEMMA ShapeStep == ASSUME ShapeInv, NEW t \in Threads, Step(t) PROVE ShapeInv'
<1> USE DEF ShapeInv, Shape, Go, files, bounds
<1>0. Listeners \in SUBSET Procs
  BY DEF Listeners
<1>1. CASE Take(t)
  <2>1. PICK l \in {"detach", "kill"} : at' = [at EXCEPT ![t] = l]
    BY <1>1 DEF Take
  <2>2. UNCHANGED <<proc, build>> /\ doomed' \in [Threads -> Procs \cup {NoProc}]
        /\ child' \in Procs \cup {NoProc}
    BY <1>1 DEF Take, procs
  <2>3. OneListener'
    BY <2>2 DEF OneListener, Listeners
  <2> QED BY <1>1, <2>1, <2>2, <2>3 DEF Take, Labels
<1>2. CASE Kill(t)
  <2>1. proc' \in [Procs -> States] /\ build' \in [Procs -> Builds \cup {NoBuild}]
        /\ doomed' \in [Threads -> Procs \cup {NoProc}]
    BY <1>2 DEF Kill, States
  <2>2. OneListener'
    BY <1>2 DEF Kill, OneListener, Listeners
  <2> QED BY <1>2, <2>1, <2>2 DEF Kill, Labels
<1>3. CASE Detach(t)
  <2>1. /\ proc' \in [Procs -> States] /\ build' \in [Procs -> Builds \cup {NoBuild}]
        /\ OneListener' /\ faults' \in 0..MaxFaults /\ missed' \in BOOLEAN
    BY <1>3, KillKeeps DEF Detach
  <2>2. CASE job[t] \in {"swap", "quit", "exit"}
    BY <1>3, <2>1, <2>2 DEF Detach, Labels
  <2>3. CASE job[t] \notin {"swap", "quit", "exit"}
    BY <1>3, <2>1, <2>3 DEF Detach, Labels
  <2> QED BY <2>2, <2>3
<1>4. CASE Again(t)
  <2>1. /\ proc' \in [Procs -> States] /\ build' \in [Procs -> Builds \cup {NoBuild}]
        /\ OneListener' /\ faults' \in 0..MaxFaults /\ missed' \in BOOLEAN
    BY <1>4, KillKeeps DEF Again
  <2>2. job[t] \in {"swap", "quit", "exit"}
    BY <1>4 DEF Again
  <2>3. job' \in [Threads -> {"restart", "ensure", "swap", "quit", "exit"}]
    BY <1>4 DEF Again
  <2>4. /\ at' \in [Threads -> Labels]
        /\ \A u \in Threads : at'[u] = "again" => job'[u] \in {"swap", "quit", "exit"}
    <3>1. CASE job[t] = "swap"
      BY <1>4, <3>1 DEF Again, Labels
    <3>2. CASE job[t] = "quit"
      BY <1>4, <3>2 DEF Again, Labels
    <3>3. CASE job[t] = "exit"
      BY <1>4, <3>3 DEF Again, Labels
    <3> QED BY <2>2, <3>1, <3>2, <3>3
  <2> QED BY <1>4, <2>1, <2>3, <2>4 DEF Again
<1>5. CASE Start(t)
  <2>1. PICK l \in {"rest", "await", "spawn"} : at' = [at EXCEPT ![t] = l]
    BY <1>5 DEF Start
  <2>2. (proc' = proc \/ proc' = Reaped) /\ (child' = child \/ child' = NoProc)
    BY <1>5 DEF Start
  <2>3. proc' \in [Procs -> States] /\ OneListener'
    BY <2>2, ReapedShape DEF OneListener, Listeners
  <2> QED BY <1>5, <2>1, <2>2, <2>3 DEF Start, Labels
<1>6. CASE Spawn(t)
  <2>1. PICK l \in {"rest", "await"} : at' = [at EXCEPT ![t] = l]
    BY <1>6 DEF Spawn
  <2>2. CASE UNCHANGED <<procs, child>>
    <3>1. OneListener'
      BY <2>2 DEF procs, OneListener, Listeners
    <3> QED BY <1>6, <2>1, <2>2, <3>1 DEF Spawn, Labels, procs
  <2>3. CASE /\ Program # NoFile /\ Free # {}
             /\ proc' = [proc EXCEPT ![Spawned] = "starting"]
             /\ build' = [build EXCEPT ![Spawned] = Program]
             /\ child' = Spawned
    <3>1. Spawned \in Procs /\ Program \in Builds
      BY <2>3, SpawnedIsFree DEF Program, Builds, Files
    <3>2. proc' \in [Procs -> States] /\ build' \in [Procs -> Builds \cup {NoBuild}]
      BY <2>3, <3>1 DEF States
    <3>3. OneListener'
      BY <2>3 DEF OneListener, Listeners
    <3> QED BY <1>6, <2>1, <2>3, <3>1, <3>2, <3>3 DEF Spawn, Labels
  <2> QED BY <1>6, <2>2, <2>3 DEF Spawn
<1>7. CASE Await(t)
  <2>1. faults' \in 0..MaxFaults /\ UNCHANGED <<proc, build>>
    BY <1>7, FaultShape DEF Await, procs
  <2>2. OneListener'
    BY <2>1 DEF OneListener, Listeners
  <2> QED BY <1>7, <2>1, <2>2 DEF Await, Labels
<1> QED BY <1>1, <1>2, <1>3, <1>4, <1>5, <1>6, <1>7 DEF Step

LEMMA ShapePoll == ASSUME ShapeInv, Boot \/ Poll \/ Defer \/ Probe PROVE ShapeInv'
<1> USE DEF ShapeInv, Shape, Go, files
<1>1. CASE Boot
  <2>1. OneListener' /\ disk' \in [Files -> Builds \cup {NoFile}]
    <3>1. OneListener'
      BY <1>1 DEF Boot, procs, OneListener, Listeners
    <3>2. disk' = disk \/ disk' = [f \in Files |-> "bundled"] \/ disk' \in HalfInstalled
      BY <1>1 DEF Boot
    <3>3. "bundled" \in Builds /\ "rmb" \in Files /\ "rmbd" \in Files
      BY DEF Builds, Files
    <3>4. \A d \in HalfInstalled : d \in [Files -> Builds \cup {NoFile}]
      BY <3>3 DEF HalfInstalled
    <3> QED BY <3>1, <3>2, <3>3, <3>4
  <2>3. faults' \in 0..MaxFaults
    BY <1>1, FaultShape DEF Boot
  <2>2. PICK l \in {"rest", "take"} : at' = [at EXCEPT !["poll"] = l]
    BY <1>1 DEF Boot
  <2> QED BY <1>1, <2>1, <2>2, <2>3 DEF Boot, procs, Labels
<1>4. CASE Defer
  <2>1. OneListener'
    BY <1>4 DEF Defer, procs, OneListener, Listeners
  <2>2. PICK l \in {"rest", "probe"} : at' = [at EXCEPT !["poll"] = l]
    BY <1>4 DEF Defer
  <2> QED BY <1>4, <2>1, <2>2 DEF Defer, procs, bounds, Labels
<1>2. CASE Poll
  <2>1. OneListener' /\ faults' \in 0..MaxFaults
    BY <1>2, FaultShape DEF Poll, procs, OneListener, Listeners
  <2> QED BY <1>2, <2>1 DEF Poll, procs, Labels
<1>3. CASE Probe
  <2>1. proc' \in [Procs -> States] /\ OneListener'
    BY <1>3, ReapedShape DEF Probe, OneListener, Listeners
  <2>2. PICK l \in {"rest", "take", "detach"} : at' = [at EXCEPT !["poll"] = l]
    BY <1>3 DEF Probe
  <2> QED BY <1>3, <2>1, <2>2 DEF Probe, bounds, Labels
<1> QED BY <1>1, <1>2, <1>3, <1>4

LEMMA ShapeUpdate ==
  ASSUME ShapeInv, Swap \/ SwapFails \/ RestartAfterUpdate \/ Install \/ Quit
  PROVE  ShapeInv'
<1> USE DEF ShapeInv, Shape, Go, procs
<1>0. OneListener'
  BY DEF Swap, SwapFails, RestartAfterUpdate, Install, Quit, MoveAside, PutInPlace, SwapDone,
         OneListener, Listeners
<1>1. ASSUME NEW f \in Files, MoveAside(f) PROVE ShapeInv'
  BY <1>0, <1>1 DEF MoveAside, shell, bounds
<1>2. CASE PutInPlace
  BY <1>0, <1>2 DEF PutInPlace, shell, bounds, Builds
<1>3. CASE SwapDone
  BY <1>0, <1>3 DEF SwapDone, bounds, Labels
<1>4. CASE SwapFails
  BY <1>0, <1>4, FaultShape DEF SwapFails, Labels
<1>5. CASE RestartAfterUpdate
  <2>1. PICK l \in {"rest", "take"} : at' = [at EXCEPT !["update"] = l]
    BY <1>5 DEF RestartAfterUpdate
  <2> QED BY <1>0, <1>5, <2>1 DEF RestartAfterUpdate, files, bounds, Labels
<1>6. CASE Install
  <2>1. updates' \in 0..MaxUpdates
    BY <1>6, SupervisorAssumption DEF Install
  <2> QED BY <1>0, <1>6, <2>1 DEF Install, files, Labels
<1>7. CASE Quit
  BY <1>0, <1>7 DEF Quit, files, bounds, Labels
<1> QED BY <1>1, <1>2, <1>3, <1>4, <1>5, <1>6, <1>7 DEF Swap

LEMMA ShapeNext == ShapeInv /\ [Next]_vars => ShapeInv'
<1> SUFFICES ASSUME ShapeInv, [Next]_vars PROVE ShapeInv'
  OBVIOUS
<1>1. CASE UNCHANGED vars
  BY <1>1 DEF vars, procs, shell, files, bounds, ShapeInv, Shape, OneListener, Listeners
<1>2. ASSUME NEW t \in Threads, Goroutine(t) PROVE ShapeInv'
  BY <1>2, ShapeStep, ShapePoll, ShapeUpdate DEF Goroutine
<1> QED BY <1>1, <1>2, ShapeProc, ShapeUpdate DEF Next

(***************************************************************************)
(* Variables keep their types, and however processes are started, killed,  *)
(* restarted and crash, one at most listens on the port.                   *)
(***************************************************************************)
THEOREM TypeCorrect == Spec => []TypeOK
BY ShapeInit, ShapeNext, ShapeIsType, PTL DEF Spec

-----------------------------------------------------------------------------
(* Every rmbd that lives is the child, or was taken by a goroutine that is  *)
(* about to kill it, or was there before the shell, which has touched       *)
(* nothing yet.                                                             *)
Untouched ==
  child = NoProc /\ \A t \in Threads : doomed[t] = NoProc /\ at[t] \notin {"start", "spawn"}

Known(p) ==
  \/ p = child
  \/ \E t \in Threads : p = doomed[t]
  \/ proc[p] = "serving" /\ Untouched

OneInv ==
  /\ \A p \in Live : proc[p] # "leaving" /\ Known(p)
  /\ \A t \in Threads : doomed[t] # NoProc => at[t] \in {"kill", "over"}

(* A dashboard restart leaves a replacement that nobody holds, a kill that *)
(* went wrong leaves a process that nobody does.                           *)
Unhurt == Undisturbed => OneInv

(* What was disturbed stays so, and how it comes to be. *)
LEMMA DisturbedStays ==
  ASSUME ShapeInv, [Next]_vars, Undisturbed'
  PROVE  Undisturbed /\ ~missed' /\ \A p \in Procs : ~Restart(p)
<1>1. ASSUME NEW p \in Procs PROVE ~Restart(p)
  BY <1>1 DEF Restart, ShapeInv, Shape, Undisturbed
<1>2. ASSUME NEW t \in Threads, Step(t) PROVE UNCHANGED restarts /\ (missed => missed')
  <2>1. CASE Detach(t) \/ Again(t)
    <3>1. UNCHANGED restarts /\ (missed' = missed \/ missed' = TRUE)
      BY <2>1 DEF Detach, Again, KillListeners
    <3> QED BY <3>1
  <2>2. CASE Take(t) \/ Kill(t) \/ Start(t) \/ Spawn(t) \/ Await(t)
    BY <2>2 DEF Take, Kill, Start, Spawn, Await, bounds
  <2> QED BY <1>2, <2>1, <2>2 DEF Step
<1>3. ASSUME Boot \/ Poll \/ Defer \/ Probe \/ Swap \/ SwapFails \/ RestartAfterUpdate \/ Install \/ Quit
      PROVE  UNCHANGED <<restarts, missed>>
  BY <1>3 DEF Boot, Poll, Defer, Probe, Swap, MoveAside, PutInPlace, SwapDone, SwapFails,
     RestartAfterUpdate, Install, Quit, bounds
<1>4. ASSUME NEW p \in Procs, Process(p) \/ Crash(p) PROVE UNCHANGED <<restarts, missed>>
  BY <1>4 DEF Process, Bind, Leave, Crash, bounds
<1>5. UNCHANGED vars => UNCHANGED <<restarts, missed>>
  BY DEF vars, bounds
<1> QED BY <1>1, <1>2, <1>3, <1>4, <1>5 DEF Next, Goroutine, Undisturbed

LEMMA OneInit == Init => OneInv
<1> SUFFICES ASSUME Init PROVE OneInv
  OBVIOUS
<1>1. \A p \in Procs : proc[p] \in {"serving", "none"}
  BY DEF Init
<1>2. Untouched /\ \A t \in Threads : doomed[t] = NoProc
  BY DEF Init, Untouched
<1> QED BY <1>1, <1>2 DEF OneInv, Known, Live

(* Processes end, and nothing else happens. *)
LEMMA OneEnds ==
  ASSUME ShapeInv, ShapeInv', OneInv, UNCHANGED <<child, doomed, at>>,
         \A p \in Procs : proc'[p] \in {proc[p], "none", "dead"}
  PROVE  OneInv'
BY DEF OneInv, Known, Live, Untouched

LEMMA EndEnds ==
  ASSUME ShapeInv, NEW ps \in SUBSET Procs, End(ps)
  PROVE  \A p \in Procs : /\ proc'[p] \in {proc[p], "none", "dead"}
                          /\ p \in ps => proc'[p] \in {"none", "dead"}
BY DEF End, ShapeInv, Shape

LEMMA OneProc ==
  ASSUME ShapeInv, ShapeInv', OneInv, NEW p \in Procs, Process(p) \/ Crash(p)
  PROVE  OneInv'
<1>1. UNCHANGED <<child, doomed, at>>
  BY DEF Process, Bind, Leave, Crash, shell
<1>2. CASE Bind(p)
  <2>1. ~(proc[p] = "serving") /\ p \in Live
    BY <1>2 DEF Bind, Live
  <2>2. p = child \/ \E t \in Threads : p = doomed[t]
    BY <2>1 DEF OneInv, Known
  <2>3. proc'[p] \in {"stuck", "serving"} /\ \A q \in Procs \ {p} : proc'[q] = proc[q]
    BY <1>2 DEF Bind, ShapeInv, Shape
  <2> QED BY <1>1, <2>1, <2>2, <2>3 DEF OneInv, Known, Live, Untouched
<1>3. CASE Leave(p) \/ Crash(p)
  BY <1>1, <1>3, EndEnds, OneEnds DEF Leave, Crash
<1> QED BY <1>2, <1>3 DEF Process

LEMMA OneStep ==
  ASSUME ShapeInv, ShapeInv', OneInv, NEW t \in Threads, Step(t), ~missed' PROVE OneInv'
<1>1. /\ at \in [Threads -> Labels] /\ doomed \in [Threads -> Procs \cup {NoProc}]
      /\ proc \in [Procs -> States] /\ NoProc \notin Procs /\ Listeners \in SUBSET Procs
  BY SupervisorAssumption DEF ShapeInv, Shape, Listeners
<1>2. CASE Take(t)
  <2>1. doomed[t] = NoProc
    BY <1>2 DEF Take, OneInv
  <2>2. /\ UNCHANGED proc /\ child' = NoProc /\ doomed' = [doomed EXCEPT ![t] = child]
        /\ at' = [at EXCEPT ![t] = IF child = NoProc THEN "detach" ELSE "kill"]
    BY <1>2 DEF Take, Go, procs
  <2>3. CASE child = NoProc
    BY <1>1, <2>1, <2>2, <2>3 DEF OneInv, Known, Live, Untouched
  <2>4. CASE child # NoProc
    <3>1. doomed'[t] = child /\ \A u \in Threads : doomed[u] # NoProc => doomed'[u] = doomed[u]
      BY <1>1, <2>1, <2>2
    <3>2. \A p \in Live : p = child \/ \E u \in Threads : p = doomed[u]
      BY <2>4 DEF OneInv, Known, Untouched
    <3>3. \A p \in Live : \E u \in Threads : p = doomed'[u]
      BY <1>1, <3>1, <3>2 DEF Live
    <3> QED BY <1>1, <2>2, <2>4, <3>3 DEF OneInv, Known, Live
  <2> QED BY <2>3, <2>4
<1>3. CASE Kill(t)
  <2>1. /\ proc' = [proc EXCEPT ![doomed[t]] = "none"] /\ UNCHANGED child
        /\ doomed' = [doomed EXCEPT ![t] = NoProc] /\ at' = [at EXCEPT ![t] = "detach"]
    BY <1>3 DEF Kill, Go
  <2>2. ASSUME NEW p \in Procs, p \in Live' PROVE proc'[p] # "leaving" /\ Known(p)'
    <3>1. p \in Live /\ proc'[p] = proc[p] /\ p # doomed[t]
      BY <1>1, <2>1, <2>2 DEF Live
    <3> QED BY <1>1, <2>1, <3>1 DEF OneInv, Known, Untouched
  <2> QED BY <1>1, <2>1, <2>2 DEF OneInv, Live
<1>4. CASE Detach(t) \/ Again(t)
  <2>1. \A p \in Procs : /\ proc'[p] \in {proc[p], "none", "dead"}
                         /\ p \in Listeners => proc'[p] \in {"none", "dead"}
    BY <1>1, <1>4, EndEnds DEF Detach, Again, KillListeners
  <2>2. UNCHANGED <<child, doomed>> /\ doomed[t] = NoProc
    BY <1>4 DEF Detach, Again, OneInv
  <2>3. \A u \in Threads : doomed[u] # NoProc => at'[u] \in {"kill", "over"}
    <3>1. CASE at' = [u \in Threads |-> "over"]
      BY <3>1
    <3>2. ASSUME NEW l, at' = [at EXCEPT ![t] = l]
          PROVE \A u \in Threads : doomed[u] # NoProc => at'[u] \in {"kill", "over"}
      BY <1>1, <2>2, <3>2 DEF OneInv
    <3>3. job[t] \in {"swap", "quit", "exit"} \/ Detach(t)
      BY <1>4 DEF Again, ShapeInv
    <3> QED BY <1>4, <3>1, <3>2, <3>3 DEF Detach, Again, Go
  <2>4. ASSUME NEW p \in Live' PROVE proc'[p] # "leaving" /\ Known(p)'
    <3>1. p \in Live /\ proc[p] # "serving" /\ proc'[p] = proc[p]
      BY <2>1, <2>4 DEF Live, Listeners
    <3> QED BY <2>2, <3>1 DEF OneInv, Known
  <2> QED BY <2>2, <2>3, <2>4 DEF OneInv
<1>5. CASE Start(t)
  <2>1. PICK l \in {"rest", "await", "spawn"} : at' = [at EXCEPT ![t] = l]
    BY <1>5 DEF Start, Go
  <2>2. ~Untouched /\ UNCHANGED doomed /\ doomed[t] = NoProc
    BY <1>5 DEF Start, Untouched, OneInv
  <2>3. UNCHANGED <<proc, child>> \/ (proc' = Reaped /\ child' = NoProc /\ ~ManagedRunning)
    BY <1>5 DEF Start
  <2>4. ASSUME NEW p \in Live' PROVE proc'[p] # "leaving" /\ Known(p)'
    <3>1. p \in Live /\ proc'[p] = proc[p]
      BY <1>1, <2>3, <2>4 DEF Live, Reaped
    <3>2. p # child \/ UNCHANGED child
      BY <2>3, <3>1 DEF ManagedRunning, Live
    <3> QED BY <2>2, <3>1, <3>2 DEF OneInv, Known
  <2> QED BY <1>1, <2>1, <2>2, <2>4 DEF OneInv
<1>6. CASE Spawn(t)
  <2>1. PICK l \in {"rest", "await"} : at' = [at EXCEPT ![t] = l]
    BY <1>6 DEF Spawn, Go
  <2>2. ~Untouched /\ UNCHANGED doomed /\ doomed[t] = NoProc
    BY <1>6 DEF Spawn, Untouched, OneInv
  <2>3. \A p \in Live : p = child \/ \E u \in Threads : p = doomed[u]
    BY <2>2 DEF OneInv, Known
  <2>4. \/ UNCHANGED <<proc, child>>
        \/ /\ child = NoProc /\ child' = Spawned /\ Free # {}
           /\ proc' = [proc EXCEPT ![Spawned] = "starting"]
    BY <1>6 DEF Spawn, procs
  <2>5. ASSUME NEW p \in Live' PROVE proc'[p] # "leaving" /\ Known(p)'
    <3>1. CASE UNCHANGED <<proc, child>>
      BY <2>2, <2>3, <2>5, <3>1 DEF OneInv, Known, Live
    <3>2. CASE child = NoProc /\ child' = Spawned /\ proc' = [proc EXCEPT ![Spawned] = "starting"]
      <4>1. CASE p = child'
        BY <1>1, <3>2, <4>1, <2>5 DEF Known, Live
      <4>2. CASE p # child'
        <5>1. p \in Live /\ proc'[p] = proc[p] /\ p # NoProc
          BY <1>1, <2>5, <3>2, <4>2 DEF Live
        <5> QED BY <2>2, <2>3, <3>2, <5>1 DEF OneInv, Known
      <4> QED BY <4>1, <4>2
    <3> QED BY <2>4, <3>1, <3>2
  <2> QED BY <1>1, <2>1, <2>2, <2>5 DEF OneInv
<1>7. CASE Await(t)
  <2>1. UNCHANGED <<proc, child, doomed>> /\ at' = [at EXCEPT ![t] = "rest"] /\ doomed[t] = NoProc
    BY <1>7 DEF Await, Go, procs, OneInv
  <2> QED BY <1>1, <2>1 DEF OneInv, Known, Live, Untouched
<1> QED BY <1>2, <1>3, <1>4, <1>5, <1>6, <1>7 DEF Step

LEMMA OneOther ==
  ASSUME ShapeInv, ShapeInv', OneInv,
         Boot \/ Poll \/ Defer \/ Probe \/ Swap \/ SwapFails \/ RestartAfterUpdate \/ Install \/ Quit
  PROVE  OneInv'
<1>1. /\ at \in [Threads -> Labels] /\ proc \in [Procs -> States] /\ NoProc \notin Procs
      /\ "poll" \in Threads /\ "update" \in Threads /\ "quit" \in Threads
  BY SupervisorAssumption DEF ShapeInv, Shape, Threads
<1>2. UNCHANGED doomed
  BY DEF Boot, Poll, Defer, Probe, Swap, SwapFails, RestartAfterUpdate, Install, Quit, MoveAside,
         PutInPlace, SwapDone, shell
<1>3. /\ \A u \in Threads : at'[u] = at[u] \/ (at[u] \notin {"kill", "over"} /\ at'[u] \notin {"start", "spawn"})
  BY <1>1 DEF Boot, Poll, Defer, Probe, Swap, SwapFails, RestartAfterUpdate, Install, Quit, MoveAside,
         PutInPlace, SwapDone, Go, shell
<1>4. CASE Probe
  <2>1. proc' = Reaped /\ child' = IF ManagedRunning THEN child ELSE NoProc
    BY <1>4 DEF Probe
  <2>2. ASSUME NEW p \in Live' PROVE proc'[p] # "leaving" /\ Known(p)'
    <3>1. p \in Live /\ proc'[p] = proc[p]
      BY <1>1, <2>1, <2>2 DEF Live, Reaped
    <3>2. p # child \/ UNCHANGED child
      BY <2>1, <3>1 DEF ManagedRunning, Live
    <3>3. child = NoProc => child' = NoProc
      BY <2>1
    <3> QED BY <1>2, <1>3, <3>1, <3>2, <3>3 DEF OneInv, Known, Untouched
  <2> QED BY <1>2, <1>3, <2>2 DEF OneInv
<1>5. CASE UNCHANGED <<proc, child>>
  BY <1>2, <1>3, <1>5 DEF OneInv, Known, Untouched, Live
<1> QED BY <1>4, <1>5 DEF Boot, Poll, Defer, Swap, SwapFails, RestartAfterUpdate, Install, Quit,
         MoveAside, PutInPlace, SwapDone, procs, shell

LEMMA OneNext ==
  ShapeInv /\ ShapeInv' /\ Unhurt /\ [Next]_vars => Unhurt'
<1> SUFFICES ASSUME ShapeInv, ShapeInv', Undisturbed => OneInv, [Next]_vars, Undisturbed'
             PROVE  OneInv'
  BY DEF Unhurt
<1>1. OneInv /\ ~missed' /\ \A p \in Procs : ~Restart(p)
  BY DisturbedStays
<1>2. CASE UNCHANGED vars
  BY <1>1, <1>2, OneEnds DEF vars, procs, shell
<1> QED BY <1>1, <1>2, OneProc, OneStep, OneOther DEF Next, Goroutine

(***************************************************************************)
(* Whatever startup, poller, updater, quit and crashes do to each other,   *)
(* once they have come to rest at most one rmbd lives (as long as nobody   *)
(* restarts it from the dashboard and kills by port go well).              *)
(***************************************************************************)
THEOREM OneDaemon == Spec => []OneAtRest
<1>1. ShapeInv /\ Unhurt => OneAtRest
  <2> SUFFICES ASSUME ShapeInv, OneInv, AtRest PROVE \A p, q \in Live : p = q
    BY DEF OneAtRest, Unhurt
  <2>1. \A t \in Threads : doomed[t] = NoProc
    BY DEF AtRest, OneInv
  <2>2. \A p \in Live : p # NoProc
    BY SupervisorAssumption DEF Live
  <2>3. \A p \in Live : p = child \/ (child = NoProc /\ p \in Listeners)
    BY <2>1, <2>2 DEF OneInv, Known, Untouched, Live, Listeners
  <2> QED BY <2>2, <2>3 DEF ShapeInv, OneListener
<1>2. Init => ShapeInv /\ Unhurt
  BY ShapeInit, OneInit DEF Unhurt
<1> QED BY <1>1, <1>2, ShapeNext, OneNext, PTL DEF Spec

-----------------------------------------------------------------------------
(* That the installed build serves rests on the order of the shell's own    *)
(* steps: quit never starts anything and never rests again, startup comes   *)
(* before any child, an orphan is gone once startup has looked at the port, *)
(* and a child of another build is about to be taken.                       *)
Control ==
  /\ shuttingDown <=> at["quit"] # "rest"
  /\ \A t \in Threads : at[t] = "over" => shuttingDown
  /\ job["poll"] \in {"restart", "ensure"} /\ job["update"] \in {"restart", "swap"}
  /\ at["quit"] \notin {"rest", "over"} =>
       job["quit"] \in {"quit", "exit"} /\ at["quit"] \in {"take", "kill", "detach", "again"}
  /\ at["poll"] = "boot" => at["update"] = "rest" /\ child = NoProc

Replacing ==
  \/ shuttingDown
  \/ at["update"] \in {"swap", "restart"}
  \/ at["update"] = "take" /\ job["update"] = "restart"

Looking == at["poll"] \in {"boot", "take", "kill", "detach"}

ServeInv ==
  /\ Control
  /\ \A p \in Live :
       /\ p = child /\ path = "installed" => build[p] = disk["rmbd"] \/ Replacing
       /\ p = child \/ (\E t \in Threads : p = doomed[t]) \/ Looking \/ shuttingDown

LEMMA ThreadNames == Threads = {"poll", "update", "quit"}
BY DEF Threads

LEMMA ServeInit == Init => ServeInv
<1> SUFFICES ASSUME Init PROVE ServeInv
  OBVIOUS
<1>1. /\ at["poll"] = "boot" /\ at["quit"] = "rest" /\ at["update"] = "rest"
      /\ \A t \in Threads : at[t] # "over" /\ job[t] = "restart"
      /\ child = NoProc /\ shuttingDown = FALSE
  BY DEF Init, Threads
<1>2. \A p \in Live : p # child
  BY <1>1, SupervisorAssumption DEF Live
<1> QED BY <1>1, <1>2, ThreadNames DEF ServeInv, Control, Looking

(* Where a step of a call leads. *)
LEMMA StepLeads ==
  ASSUME ShapeInv, NEW t \in Threads, Step(t)
  PROVE  /\ UNCHANGED <<shuttingDown, disk, path>> /\ at[t] \notin {"boot", "rest", "over", "swap", "restart"}
         /\ \/ UNCHANGED job
            \/ job[t] = "quit" /\ job' = [job EXCEPT ![t] = "exit"]
         /\ \/ job[t] = "exit" /\ at' = [u \in Threads |-> "over"]
            \/ /\ at[t] \in {"take", "kill", "detach"} /\ UNCHANGED job
               /\ \E l \in {"kill", "detach"} : at' = [at EXCEPT ![t] = l]
            \/ at[t] = "detach" /\ job[t] \in {"swap", "quit", "exit"} /\ UNCHANGED job
               /\ at' = [at EXCEPT ![t] = "again"]
            \/ at[t] = "detach" /\ job[t] \notin {"swap", "quit", "exit"} /\ UNCHANGED job
               /\ at' = [at EXCEPT ![t] = "start"]
            \/ at[t] = "again" /\ job[t] = "swap" /\ UNCHANGED job
               /\ at' = [at EXCEPT ![t] = "swap"]
            \/ at[t] = "again" /\ job[t] = "quit" /\ at' = [at EXCEPT ![t] = "take"]
            \/ /\ at[t] \in {"start", "spawn", "await"} /\ UNCHANGED job
               /\ \E l \in {"rest", "await", "spawn"} : at' = [at EXCEPT ![t] = l]
         /\ at[t] # "spawn" => child' \in {child, NoProc}
<1> USE DEF Go, files
<1>1. CASE Take(t)
  BY <1>1 DEF Take
<1>2. CASE Kill(t)
  BY <1>2 DEF Kill
<1>3. CASE Detach(t)
  <2>1. CASE job[t] \in {"swap", "quit", "exit"}
    BY <1>3, <2>1 DEF Detach
  <2>2. CASE job[t] \notin {"swap", "quit", "exit"}
    BY <1>3, <2>2 DEF Detach
  <2> QED BY <2>1, <2>2
<1>4. CASE Again(t)
  <2>1. job[t] \in {"swap", "quit", "exit"}
    BY <1>4 DEF Again, ShapeInv
  <2>2. CASE job[t] = "swap"
    BY <1>4, <2>2 DEF Again
  <2>3. CASE job[t] = "quit"
    BY <1>4, <2>3 DEF Again
  <2>4. CASE job[t] = "exit"
    BY <1>4, <2>4 DEF Again
  <2> QED BY <2>1, <2>2, <2>3, <2>4
<1>5. CASE Start(t)
  BY <1>5 DEF Start
<1>6. CASE Spawn(t)
  BY <1>6 DEF Spawn
<1>7. CASE Await(t)
  BY <1>7 DEF Await
<1> QED BY <1>1, <1>2, <1>3, <1>4, <1>5, <1>6, <1>7 DEF Step

LEMMA ControlStep ==
  ASSUME ShapeInv, Control, NEW t \in Threads, Step(t) PROVE Control'
<1>1. /\ at \in [Threads -> Labels] /\ UNCHANGED shuttingDown
      /\ job \in [Threads -> {"restart", "ensure", "swap", "quit", "exit"}]
  BY StepLeads DEF ShapeInv, Shape
<1>2. CASE at' = [u \in Threads |-> "over"] /\ job[t] = "exit"
  <2>1. t = "quit" /\ shuttingDown
    BY <1>2, StepLeads, ThreadNames DEF Control
  <2>2. /\ at'["quit"] = "over" /\ at'["poll"] = "over"
        /\ job'["poll"] = job["poll"] /\ job'["update"] = job["update"]
    BY <1>1, <1>2, StepLeads, ThreadNames
  <2> QED BY <1>1, <2>1, <2>2 DEF Control
<1>3. CASE t = "quit" /\ ~(at' = [u \in Threads |-> "over"] /\ job[t] = "exit")
  <2>1. /\ at["quit"] \in {"take", "kill", "detach", "again"} /\ job["quit"] \in {"quit", "exit"}
        /\ shuttingDown
    BY <1>3, StepLeads, ThreadNames DEF Control
  <2>2. /\ at'["quit"] \in {"take", "kill", "detach", "again"} /\ job'["quit"] \in {"quit", "exit"}
        /\ \A u \in {"poll", "update"} : at'[u] = at[u] /\ job'[u] = job[u]
    BY <1>1, <1>3, <2>1, StepLeads, ThreadNames
  <2>3. child' \in {child, NoProc}
    BY <1>3, <2>1, StepLeads
  <2> QED BY <1>1, <2>1, <2>2, <2>3, ThreadNames DEF Control
<1>4. CASE t # "quit"
  <2>1. job[t] \notin {"quit", "exit"}
    BY <1>4, ThreadNames DEF Control
  <2>2. /\ UNCHANGED job /\ at'["quit"] = at["quit"] /\ at'[t] # "over" /\ at'[t] # "boot"
        /\ \A u \in Threads \ {t} : at'[u] = at[u]
    BY <1>1, <1>4, <2>1, StepLeads, ThreadNames
  <2>3. at'["poll"] = "boot" => FALSE
    <3>1. ASSUME at'["poll"] = "boot" PROVE FALSE
      <4>1. t # "poll"
        BY <2>2, <3>1
      <4>2. at["poll"] = "boot" /\ t = "update"
        BY <1>4, <2>2, <3>1, <4>1, ThreadNames
      <4> QED BY <4>2, StepLeads DEF Control
    <3> QED BY <3>1
  <2> QED BY <1>1, <2>2, <2>3 DEF Control
<1> QED BY <1>2, <1>3, <1>4

LEMMA ControlOther ==
  ASSUME ShapeInv, Control,
         Boot \/ Poll \/ Defer \/ Probe \/ Swap \/ SwapFails \/ RestartAfterUpdate \/ Install \/ Quit
  PROVE  Control'
<1>1. /\ at \in [Threads -> Labels]
      /\ job \in [Threads -> {"restart", "ensure", "swap", "quit", "exit"}]
  BY DEF ShapeInv, Shape
<1>2. CASE Quit
  <2>1. /\ at' = [at EXCEPT !["quit"] = "take"] /\ job' = [job EXCEPT !["quit"] = "quit"]
        /\ shuttingDown' = TRUE /\ UNCHANGED child
    BY <1>2 DEF Quit, Go
  <2> QED BY <1>1, <2>1, ThreadNames DEF Control
<1>3. CASE Boot \/ Poll \/ Defer \/ Probe
  <2>1. PICK l \in {"rest", "take", "ensure", "probe", "detach"} :
        at' = [at EXCEPT !["poll"] = l]
    BY <1>3 DEF Boot, Poll, Defer, Probe, Go
  <2>2. /\ UNCHANGED shuttingDown /\ job'["poll"] \in {"restart", "ensure"}
        /\ \A u \in {"update", "quit"} : job'[u] = job[u]
    BY <1>1, <1>3, ThreadNames DEF Boot, Poll, Defer, Probe, Control
  <2> QED BY <1>1, <2>1, <2>2, ThreadNames DEF Control
<1>4. CASE Swap \/ SwapFails \/ RestartAfterUpdate \/ Install
  <2>1. UNCHANGED at \/ \E l \in {"rest", "take", "restart"} : at' = [at EXCEPT !["update"] = l]
    BY <1>4 DEF Swap, MoveAside, PutInPlace, SwapDone, SwapFails, RestartAfterUpdate, Install,
       shell, Go
  <2>2. /\ UNCHANGED shuttingDown /\ job'["update"] \in {"restart", "swap"}
        /\ \A u \in {"poll", "quit"} : job'[u] = job[u]
        /\ at["poll"] # "boot"
    BY <1>1, <1>4, ThreadNames DEF Swap, MoveAside, PutInPlace, SwapDone, SwapFails,
       RestartAfterUpdate, Install, shell, Control
  <2> QED BY <1>1, <2>1, <2>2, ThreadNames DEF Control
<1> QED BY <1>2, <1>3, <1>4

(* Steps after which what lives lived before, of the same build. *)
LEMMA ServeKept ==
  ASSUME ShapeInv, ServeInv, Control',
         \A p \in Live' : p \in Live /\ build'[p] = build[p],
         \A p \in Live' : p = child' => p = child,
         UNCHANGED path, disk'["rmbd"] = disk["rmbd"] \/ Replacing' \/ child' = NoProc,
         Replacing => Replacing' \/ child' = NoProc,
         \A p \in Live' : p = child' \/ (\E t \in Threads : p = doomed'[t]) \/ Looking'
                            \/ shuttingDown'
  PROVE  ServeInv'
<1>1. NoProc \notin Procs
  BY SupervisorAssumption
<1>2. \A p \in Live' : p = child' /\ path' = "installed" => build'[p] = disk'["rmbd"] \/ Replacing'
  BY <1>1 DEF ServeInv, Live
<1> QED BY <1>2 DEF ServeInv

(* A step of a call moves one goroutine only. *)
LEMMA ReplacingStep ==
  ASSUME ShapeInv, Control, Control', NEW t \in Threads, Step(t), ~Take(t)
  PROVE  /\ Replacing => Replacing'
         /\ ~Detach(t) /\ Looking => Looking' \/ shuttingDown'
<1>1. /\ at \in [Threads -> Labels]
      /\ job \in [Threads -> {"restart", "ensure", "swap", "quit", "exit"}]
  BY DEF ShapeInv, Shape
<1>2. UNCHANGED shuttingDown
  BY StepLeads
<1>3. CASE at' = [u \in Threads |-> "over"]
  <2>1. at'["poll"] = "over"
    BY <1>3, ThreadNames
  <2>2. shuttingDown'
    BY <2>1, ThreadNames DEF Control
  <2> QED BY <2>2 DEF Replacing
<1>4. CASE at' # [u \in Threads |-> "over"]
  <2>1. at[t] \notin {"take", "swap", "restart", "boot"}
    BY StepLeads DEF Step, Take, Kill, Detach, Again, Start, Spawn, Await
  <2>2. PICK l \in Labels : at' = [at EXCEPT ![t] = l]
    BY <1>4, StepLeads DEF Labels
  <2>3. \A u \in Threads \ {t} : at'[u] = at[u] /\ job'[u] = job[u]
    BY <1>1, <2>2, StepLeads
  <2>4. Replacing => Replacing'
    BY <1>2, <2>1, <2>3, ThreadNames DEF Replacing
  <2>5. ASSUME ~Detach(t), Looking PROVE Looking'
    <3>1. CASE t = "poll"
      <4>1. Kill(t)
        BY <2>1, <2>5, <3>1 DEF Looking, Step, Take, Kill, Detach, Again, Start, Spawn, Await
      <4> QED BY <1>1, <3>1, <4>1, ThreadNames DEF Kill, Go, Looking
    <3>2. CASE t # "poll"
      BY <2>3, <2>5, <3>2, ThreadNames DEF Looking
    <3> QED BY <3>1, <3>2
  <2> QED BY <2>4, <2>5
<1> QED BY <1>3, <1>4

LEMMA ServeStep ==
  ASSUME ShapeInv, ShapeInv', OneInv, OneInv', ServeInv, Control', NEW t \in Threads, Step(t),
         ~missed'
  PROVE  ServeInv'
<1>1. /\ at \in [Threads -> Labels] /\ doomed \in [Threads -> Procs \cup {NoProc}]
      /\ proc \in [Procs -> States] /\ NoProc \notin Procs /\ Listeners \in SUBSET Procs
      /\ build \in [Procs -> Builds \cup {NoBuild}]
  BY SupervisorAssumption DEF ShapeInv, Shape, Listeners
<1>2. UNCHANGED <<shuttingDown, disk, path>> /\ Control
  BY StepLeads DEF ServeInv
<1>3. CASE Take(t)
  <2>1. /\ UNCHANGED <<proc, build>> /\ child' = NoProc
        /\ doomed' = [doomed EXCEPT ![t] = child]
        /\ at' = [at EXCEPT ![t] = IF child = NoProc THEN "detach" ELSE "kill"]
    BY <1>3 DEF Take, Go, procs
  <2>2. doomed[t] = NoProc
    BY <1>3 DEF Take, OneInv
  <2>3. Looking => Looking'
    BY <1>1, <2>1, ThreadNames DEF Looking
  <2>4. ASSUME NEW p \in Live' PROVE (\E u \in Threads : p = doomed'[u]) \/ Looking' \/ shuttingDown'
    <3>1. p \in Live /\ p # NoProc
      BY <1>1, <2>1, <2>4 DEF Live
    <3>2. CASE p = child
      BY <1>1, <2>1, <3>2
    <3>3. CASE \E u \in Threads : p = doomed[u]
      <4>1. PICK u \in Threads : p = doomed[u]
        BY <3>3
      <4>2. u # t
        BY <2>2, <3>1, <4>1
      <4>3. doomed'[u] = p
        BY <1>1, <2>1, <4>1, <4>2
      <4> QED BY <4>3
    <3> QED BY <1>2, <2>3, <3>1, <3>2, <3>3 DEF ServeInv
  <2>5. \A p \in Live' : p \in Live /\ p # child'
    BY <1>1, <2>1 DEF Live
  <2> QED BY <1>2, <2>1, <2>4, <2>5, ServeKept
<1>4. CASE Kill(t)
  <2>1. /\ proc' = [proc EXCEPT ![doomed[t]] = "none"] /\ UNCHANGED child
        /\ build' = [build EXCEPT ![doomed[t]] = NoBuild]
        /\ doomed' = [doomed EXCEPT ![t] = NoProc]
    BY <1>4 DEF Kill
  <2>2. ASSUME NEW p \in Live' PROVE p \in Live /\ p # doomed[t] /\ build'[p] = build[p] /\ p # NoProc
    BY <1>1, <2>1, <2>2 DEF Live
  <2>3. ~Take(t) /\ ~Detach(t)
    BY <1>4 DEF Take, Kill, Detach
  <2>4. ASSUME NEW p \in Live'
        PROVE p = child' \/ (\E u \in Threads : p = doomed'[u]) \/ Looking' \/ shuttingDown'
    BY <1>1, <1>2, <2>1, <2>2, <2>3, <2>4, ReplacingStep DEF ServeInv
  <2> QED BY <1>2, <2>1, <2>2, <2>3, <2>4, ServeKept, ReplacingStep
<1>5. CASE Detach(t) \/ Again(t)
  <2>1. /\ \A p \in Procs : /\ proc'[p] \in {proc[p], "none", "dead"}
                            /\ p \in Listeners => proc'[p] \in {"none", "dead"}
        /\ \A p \in Procs \ Listeners : build'[p] = build[p]
        /\ UNCHANGED <<child, doomed>>
    BY <1>1, <1>5, EndEnds DEF Detach, Again, End, KillListeners
  <2>2. ASSUME NEW p \in Live' PROVE p \in Live /\ p \notin Listeners /\ build'[p] = build[p]
    BY <1>1, <2>1, <2>2 DEF Live
  <2>3. ASSUME NEW p \in Live' PROVE p = child \/ \E u \in Threads : p = doomed[u]
    BY <2>2, <2>3 DEF OneInv, Known, Listeners, Live
  <2>4. ~Take(t)
    BY <1>5 DEF Take, Detach, Again
  <2> QED BY <1>2, <2>1, <2>2, <2>3, <2>4, ServeKept, ReplacingStep
<1>6. CASE Start(t) \/ Await(t)
  <2>1. \/ UNCHANGED <<proc, child>>
        \/ proc' = Reaped /\ child' = NoProc /\ ~ManagedRunning
    BY <1>6 DEF Start, Await, procs
  <2>2. UNCHANGED <<build, doomed>> /\ ~Take(t) /\ ~Detach(t)
    BY <1>6 DEF Start, Await, procs, Take, Detach
  <2>3. ASSUME NEW p \in Live' PROVE p \in Live /\ p # NoProc /\ (p # child \/ UNCHANGED child)
    BY <1>1, <2>1, <2>3 DEF Live, Reaped, ManagedRunning
  <2>4. ASSUME NEW p \in Live'
        PROVE p = child' \/ (\E u \in Threads : p = doomed'[u]) \/ Looking' \/ shuttingDown'
    BY <1>2, <2>2, <2>3, <2>4, ReplacingStep DEF ServeInv
  <2>5. child' = child \/ child' = NoProc
    BY <2>1
  <2> QED BY <1>2, <2>2, <2>3, <2>4, <2>5, ServeKept, ReplacingStep
<1>7. CASE Spawn(t)
  <2>1. UNCHANGED doomed /\ ~Take(t) /\ ~Detach(t)
    BY <1>7 DEF Spawn, Take, Detach
  <2>2. CASE UNCHANGED <<procs, child>>
    <3>1. \A p \in Live' : p \in Live
      BY <2>2 DEF Live, procs
    <3>2. ASSUME NEW p \in Live'
          PROVE p = child' \/ (\E u \in Threads : p = doomed'[u]) \/ Looking' \/ shuttingDown'
      BY <1>2, <2>1, <2>2, <3>1, <3>2, ReplacingStep DEF ServeInv
    <3> QED BY <1>2, <2>1, <2>2, <3>1, <3>2, ServeKept, ReplacingStep DEF procs
  <2>3. CASE /\ Free # {} /\ child = NoProc /\ child' = Spawned
             /\ proc' = [proc EXCEPT ![Spawned] = "starting"]
             /\ build' = [build EXCEPT ![Spawned] = Program]
    <3>1. Spawned \in Procs
      BY <2>3, SpawnedIsFree
    <3>2. build'[child'] = Program
      BY <1>1, <2>3, <3>1
    <3>3. path' = "installed" => build'[child'] = disk'["rmbd"]
      BY <1>2, <3>2 DEF Program
    <3>4. ASSUME NEW p \in Live', p # child' PROVE p \in Live /\ p # NoProc
      BY <1>1, <2>3, <3>1, <3>4 DEF Live
    <3>5. ASSUME NEW p \in Live', p # child'
          PROVE (\E u \in Threads : p = doomed'[u]) \/ Looking' \/ shuttingDown'
      BY <1>2, <2>1, <2>3, <3>4, <3>5, ReplacingStep DEF ServeInv
    <3> QED BY <3>3, <3>5 DEF ServeInv
  <2> QED BY <1>7, <2>2, <2>3 DEF Spawn
<1> QED BY <1>3, <1>4, <1>5, <1>6, <1>7 DEF Step

LEMMA ServeProc ==
  ASSUME ShapeInv, ServeInv, Control', NEW p \in Procs, Process(p) \/ Crash(p)
  PROVE  ServeInv'
<1>1. /\ UNCHANGED <<at, job, child, shuttingDown, doomed, disk, path>>
  BY DEF Process, Bind, Leave, Crash, shell, files
<1>2. \A q \in Live' : q \in Live /\ build'[q] = build[q]
  <2>1. CASE Bind(p)
    BY <2>1 DEF Bind, Live, ShapeInv, Shape
  <2>2. CASE End({p})
    BY <2>2, EndEnds DEF End, Live
  <2> QED BY <2>1, <2>2 DEF Process, Leave, Crash
<1>3. (Replacing => Replacing') /\ (Looking => Looking')
  BY <1>1 DEF Replacing, Looking
<1>4. ASSUME NEW q \in Live'
      PROVE q = child' \/ (\E t \in Threads : q = doomed'[t]) \/ Looking' \/ shuttingDown'
  BY <1>1, <1>2, <1>3, <1>4 DEF ServeInv
<1> QED BY <1>1, <1>2, <1>3, <1>4, ServeKept

LEMMA ServeOther ==
  ASSUME ShapeInv, ServeInv, Control',
         Boot \/ Poll \/ Defer \/ Probe \/ Swap \/ SwapFails \/ RestartAfterUpdate \/ Install \/ Quit
  PROVE  ServeInv'
<1>1. /\ at \in [Threads -> Labels] /\ NoProc \notin Procs /\ proc \in [Procs -> States]
      /\ job \in [Threads -> {"restart", "ensure", "swap", "quit", "exit"}]
  BY SupervisorAssumption DEF ShapeInv, Shape
<1>2. UNCHANGED <<build, doomed, path>>
  BY DEF Boot, Poll, Defer, Probe, Swap, SwapFails, RestartAfterUpdate, Install, Quit, MoveAside,
         PutInPlace, SwapDone, shell, procs
<1>3. CASE Boot \/ Poll \/ Defer \/ Probe
  <2>1. /\ UNCHANGED shuttingDown /\ job'["update"] = job["update"]
        /\ at'["update"] = at["update"]
    BY <1>1, <1>3, ThreadNames DEF Boot, Poll, Defer, Probe, Go
  <2>2. Replacing => Replacing'
    BY <2>1 DEF Replacing
  <2>3. Looking => Looking' \/ shuttingDown'
    BY <1>1, <1>3, ThreadNames DEF Boot, Poll, Defer, Probe, Go, Looking
  <2>4. \/ UNCHANGED <<proc, child>>
        \/ proc' = Reaped /\ child' = IF ManagedRunning THEN child ELSE NoProc
    BY <1>3 DEF Boot, Poll, Defer, Probe, procs
  <2>5. disk' = disk \/ child' = NoProc
    BY <1>3 DEF Boot, Poll, Defer, Probe, files, ServeInv, Control
  <2>6. ASSUME NEW p \in Live' PROVE p \in Live /\ p # NoProc /\ (p # child \/ UNCHANGED child)
    BY <1>1, <2>4, <2>6 DEF Live, Reaped, ManagedRunning
  <2>7. ASSUME NEW p \in Live'
        PROVE p = child' \/ (\E t \in Threads : p = doomed'[t]) \/ Looking' \/ shuttingDown'
    BY <1>2, <2>1, <2>3, <2>6, <2>7 DEF ServeInv
  <2>8. child' = child \/ child' = NoProc
    BY <2>4
  <2> QED BY <1>2, <2>2, <2>5, <2>6, <2>7, <2>8, ServeKept
<1>4. CASE Swap \/ SwapFails \/ RestartAfterUpdate \/ Install \/ Quit
  <2>1. UNCHANGED <<proc, child>> /\ at'["poll"] = at["poll"] /\ (shuttingDown => shuttingDown')
    BY <1>1, <1>4, ThreadNames DEF Swap, SwapFails, RestartAfterUpdate, Install, Quit, MoveAside,
       PutInPlace, SwapDone, shell, procs, Go
  <2>2. \A p \in Live' : p \in Live
    BY <2>1 DEF Live
  <2>3. Looking => Looking'
    BY <2>1 DEF Looking
  <2>4. ASSUME NEW p \in Live'
        PROVE p = child' \/ (\E t \in Threads : p = doomed'[t]) \/ Looking' \/ shuttingDown'
    BY <1>2, <2>1, <2>2, <2>3, <2>4 DEF ServeInv
  <2>5. /\ Replacing => Replacing'
        /\ disk' = disk \/ Replacing'
    <3>1. CASE Swap \/ SwapFails
      <4>1. at'["update"] \in {"swap", "restart"}
        BY <1>1, <3>1, ThreadNames DEF Swap, SwapFails, MoveAside, PutInPlace, SwapDone, shell, Go
      <4> QED BY <4>1 DEF Replacing
    <3>2. CASE RestartAfterUpdate
      <4>1. /\ UNCHANGED <<shuttingDown, disk>>
            /\ at'["update"] = IF shuttingDown THEN "rest" ELSE "take"
            /\ job'["update"] = "restart"
        BY <1>1, <3>2, ThreadNames DEF RestartAfterUpdate, Go, files
      <4> QED BY <4>1 DEF Replacing
    <3>3. CASE Install
      BY <3>3 DEF Install, Replacing, files
    <3>4. CASE Quit
      BY <3>4 DEF Quit, Replacing, files
    <3> QED BY <1>4, <3>1, <3>2, <3>3, <3>4
  <2> QED BY <1>2, <2>1, <2>2, <2>4, <2>5, ServeKept
<1> QED BY <1>3, <1>4

(* As long as nobody restarts from the dashboard and kills go well. *)
ServeUnhurt == Undisturbed => ServeInv

LEMMA ServeNext ==
  ShapeInv /\ ShapeInv' /\ Unhurt /\ Unhurt' /\ ServeUnhurt /\ [Next]_vars
    => ServeUnhurt'
<1> SUFFICES ASSUME ShapeInv, ShapeInv', Unhurt, Unhurt', Undisturbed => ServeInv,
                    [Next]_vars, Undisturbed'
             PROVE  ServeInv'
  BY DEF ServeUnhurt
<1>1. Undisturbed /\ ~missed' /\ \A p \in Procs : ~Restart(p)
  BY DisturbedStays
<1>3. ServeInv /\ Control /\ OneInv /\ OneInv'
  BY <1>1 DEF ServeInv, Unhurt
<1>4. CASE UNCHANGED vars
  BY <1>3, <1>4 DEF vars, procs, shell, files, ServeInv, Control, Live, Replacing, Looking
<1>5. ASSUME NEW t \in Threads, Step(t) PROVE ServeInv'
  BY <1>1, <1>3, <1>5, ControlStep, ServeStep
<1>6. ASSUME Boot \/ Poll \/ Defer \/ Probe \/ Swap \/ SwapFails \/ RestartAfterUpdate \/ Install \/ Quit
      PROVE  ServeInv'
  BY <1>3, <1>6, ControlOther, ServeOther
<1>7. ASSUME NEW p \in Procs, Process(p) \/ Crash(p) PROVE ServeInv'
  <2>1. UNCHANGED <<at, job, child, shuttingDown>>
    BY <1>7 DEF Process, Bind, Leave, Crash, shell
  <2>2. Control'
    BY <1>3, <2>1 DEF Control
  <2> QED BY <1>3, <1>7, <2>2, ServeProc
<1> QED BY <1>1, <1>4, <1>5, <1>6, <1>7 DEF Next, Goroutine

(***************************************************************************)
(* Unless the dashboard restarted it or a kill by port went wrong,         *)
(* whatever rmbd lives when startup,                                       *)
(* poller and updater have come to rest is of the build that is installed. *)
(***************************************************************************)
THEOREM InstalledServes == Spec => []InstalledServesLater
<1>1. ShapeInv /\ Unhurt /\ ServeUnhurt => InstalledServesLater
  <2> SUFFICES ASSUME ShapeInv, OneInv, ServeInv, AtRest, path = "installed", NEW p \in Live
               PROVE  build[p] = disk["rmbd"]
    BY DEF InstalledServesLater, Unhurt, ServeUnhurt
  <2>1. /\ at["poll"] = "rest" /\ at["update"] = "rest" /\ at["quit"] = "rest"
        /\ \A t \in Threads : doomed[t] = NoProc
    BY ThreadNames DEF AtRest, OneInv
  <2>2. ~shuttingDown /\ ~Looking /\ ~Replacing /\ p # NoProc
    BY <2>1, SupervisorAssumption DEF ServeInv, Control, Looking, Replacing, Live
  <2> QED BY <2>1, <2>2 DEF ServeInv
<1>2. Init => ShapeInv /\ Unhurt /\ ServeUnhurt
  BY ShapeInit, OneInit, ServeInit DEF Unhurt, ServeUnhurt
<1> QED BY <1>1, <1>2, ShapeNext, OneNext, ServeNext, PTL DEF Spec
=============================================================================
