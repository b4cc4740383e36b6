------------------------------- MODULE Setup -------------------------------
(***************************************************************************)
(* Integration with a coding agent (package setup): the settings page of   *)
(* rmbd and the command line, two processes, merge the rmb hook into the   *)
(* agent's own configuration file and a recall block into its file of      *)
(* instructions.  Each reads the file, computes the merged text, copies    *)
(* the file to .rmb.bak and writes it in place (os.WriteFile truncates,    *)
(* then writes).  Nothing locks the files: the user and the agent save     *)
(* them too, and a process may die between any two of these steps.         *)
(***************************************************************************)
EXTENDS Naturals, Sequences, FiniteSets, SequencesExt

CONSTANTS
  Agents,     \* the agents the run looks at
  Parts,      \* hooks and texts that belong to the user
  Configs,    \* for each agent, what the user may save as its hook file
  Notes,      \* what the user may save as its file of instructions
  Appliers,   \* processes that apply
  MaxApplies, MaxSaves, MaxFaults   \* (bound the model)

AllAgents == {"cursor", "claude", "codex", "workbuddy", "zcode", "opencode", "pi"}

(* The agents whose hook is a file of rmb's own, not a list in theirs. *)
Plugged == {"opencode", "pi"}

Files == {"hooks", "recall"}

(* The rmb hook as the merge recognises it, and as it is when only a binary *)
(* named rmb-desktop is there, which isRMBHookCommand does not recognise.  *)
Commands == {"rmb", "rmb-desktop"}

Groups == Seq(Seq(Parts \cup Commands))

(* A hook file: the groups of the Stop event and of UserPromptSubmit, those *)
(* at the top level of an old codex file, and whether its Stop event has a  *)
(* list with nothing in it; what stands under the same keys in a shape that *)
(* is no list, and whether hooks are enabled (zcode).                       *)
Config == [form : {"absent", "blank", "bad", "config"}, stop : Groups, prompt : Groups,
           legacy : Groups, bare : BOOLEAN, odd : SUBSET Parts, on : BOOLEAN]

(* A file of instructions: the user's text, and the recall block: the old  *)
(* wording, the one between markers, or the present one.                   *)
Note == [form : {"absent", "blank", "config"}, text : SUBSET Parts,
         block : {"none", "old", "marked", "new"}]

NoConfig(form) == [form |-> form, stop |-> <<>>, prompt |-> <<>>, legacy |-> <<>>,
                   bare |-> FALSE, odd |-> {}, on |-> FALSE]

NoNote(form) == [form |-> form, text |-> {}, block |-> "none"]

ASSUME SetupAssumption ==
  /\ Agents \subseteq AllAgents
  /\ Configs \in [Agents -> SUBSET Config] /\ Notes \subseteq Note
  /\ \A a \in Agents : \A c \in Configs[a] : c.form = "absent" => c = NoConfig("absent")
  /\ \A n \in Notes : n.form = "absent" => n = NoNote("absent")
  /\ MaxApplies \in Nat /\ MaxSaves \in Nat /\ MaxFaults \in Nat

Empty(f, form) == IF f = "hooks" THEN NoConfig(form) ELSE NoNote(form)

VARIABLES
  agent,    \* the agent that is set up
  cmd,      \* the command of the binary that RMBPath finds
  file,     \* the two files
  bak,      \* and their copies
  todo,     \* the artifacts each applier has still to write
  step,     \* idle, read, backup, open, fill
  text,     \* what it is going to write
  mixed,    \* another wrote while it had the file open
  wanted,   \* (history) the user's parts at the last save of the user,
  listed,   \* those of them the merge promises to keep,
  slots,    \* and the most rmb hooks and empty groups ever saved in one list
  backups,  \* copies made since then
  late,     \* the last save came after an applier had made its copy
  unclean,  \* since then applies overlapped or one died
  fresh,    \* an apply was the last to touch the file, and ended
  applies, saves, faults

diskVars == <<file, bak>>
applyVars == <<todo, step, text, mixed>>
histVars == <<wanted, listed, slots, backups, late, unclean, fresh>>
vars == <<agent, cmd, diskVars, applyVars, histVars, applies, saves, faults>>

-----------------------------------------------------------------------------
(* The merges. *)

HooksIn(gs) == UNION {ToSet(gs[i]) : i \in DOMAIN gs}

(* Variant: the hook is appended whether it is there or not. *)
BadMerged(gs) ==
  [i \in DOMAIN gs |-> IF gs[i] = <<>> THEN <<cmd>> ELSE gs[i]] \o << <<cmd>> >>

(* Every group without hooks gets one; if there was none, and no hook of   *)
(* rmb either, a group is appended.                                        *)
Merged(gs) ==
  [i \in DOMAIN gs |-> IF gs[i] = <<>> THEN <<cmd>> ELSE gs[i]]
    \o IF <<>> \in ToSet(gs) \/ "rmb" \in HooksIn(gs) THEN <<>> ELSE << <<cmd>> >>

MergeClaude(c) == [c EXCEPT !.form = "config", !.odd = {}, !.stop = Merged(@)]

(* WorkBuddy and ZCode: and each hook of rmb gets the present command. *)
Normalized(gs) ==
  LET ms == Merged(gs) IN
  [i \in DOMAIN ms |-> [j \in DOMAIN ms[i] |-> IF ms[i][j] = "rmb" THEN cmd ELSE ms[i][j]]]

MergeWorkBuddy(c) == [c EXCEPT !.form = "config", !.odd = {}, !.stop = Normalized(@)]

(* A flat list: its items are groups of one. *)
MergeCursor(c) ==
  [c EXCEPT !.form = "config", !.odd = {},
            !.stop = @ \o IF "rmb" \in HooksIn(@) THEN <<>> ELSE << <<cmd>> >>]

(* Variant: the top-level list wins. *)
BadMergeCodex(c) ==
  [c EXCEPT !.form = "config", !.odd = {}, !.legacy = <<>>, !.bare = FALSE,
            !.stop = Merged(IF c.legacy # <<>> THEN c.legacy ELSE @)]

(* The top-level list becomes the list of the event, if that is empty; and *)
(* goes away in either case.                                               *)
MergeCodex(c) ==
  [c EXCEPT !.form = "config", !.odd = {}, !.legacy = <<>>, !.bare = FALSE,
            !.stop = Merged(IF @ = <<>> THEN c.legacy ELSE @)]

(* Variant: hooks stay disabled. *)
BadMergeZCode(c) ==
  [c EXCEPT !.form = "config", !.odd = {}, !.stop = Normalized(@), !.prompt = Normalized(@)]

MergeZCode(c) ==
  [c EXCEPT !.form = "config", !.odd = {}, !.on = TRUE,
            !.stop = Normalized(@), !.prompt = Normalized(@)]

(* The plugin of OpenCode or the extension of Pi replaces what is there, *)
(* and is recognised by a mark of its own, whatever command it runs.     *)
OpenCodePlugin == [NoConfig("config") EXCEPT !.stop = << <<"rmb">> >>]

PiExtension == OpenCodePlugin

(* Variant: the new block is added below the old one. *)
BadMergeRecallMarkdown(n) ==
  [n EXCEPT !.form = "config", !.block = IF @ = "old" THEN "both" ELSE "new"]

(* Only the old wording is replaced; a block of any kind is not repeated. *)
MergeRecallMarkdown(n) ==
  [n EXCEPT !.form = "config", !.block = IF @ = "marked" THEN @ ELSE "new"]

MergeHooks(c) ==
  CASE agent = "cursor" -> MergeCursor(c)
    [] agent = "claude" -> MergeClaude(c)
    [] agent = "workbuddy" -> MergeWorkBuddy(c)
    [] agent = "codex" -> MergeCodex(c)
    [] agent = "zcode" -> MergeZCode(c)
    [] agent = "opencode" -> OpenCodePlugin
    [] agent = "pi" -> PiExtension

Merge(f, c) == IF f = "hooks" THEN MergeHooks(c) ELSE MergeRecallMarkdown(c)

(* The rules of cursor can only be copied by hand. *)
Writable == IF agent = "cursor" THEN {"hooks"} ELSE Files

(* What the settings page shows as configured. *)
StopConfigured(c) == "rmb" \in HooksIn(c.stop)

WorkBuddyConfigured(c) == StopConfigured(c)

CursorConfigured(c) == StopConfigured(c)

(* An empty list hides the one at the top level, though the merge takes it. *)
CodexConfigured(c) ==
  "rmb" \in HooksIn(IF c.stop = <<>> /\ ~c.bare THEN c.legacy ELSE c.stop)

ZCodeConfigured(c) == c.on /\ StopConfigured(c) /\ "rmb" \in HooksIn(c.prompt)

(* A plugin or extension is known by its mark. *)
OpenCodeConfigured(c) == StopConfigured(c)

PiConfigured(c) == StopConfigured(c)

HookConfigured(c) ==
  CASE agent = "codex" -> CodexConfigured(c)
    [] agent = "workbuddy" -> WorkBuddyConfigured(c)
    [] agent = "cursor" -> CursorConfigured(c)
    [] agent = "zcode" -> ZCodeConfigured(c)
    [] agent = "opencode" -> OpenCodeConfigured(c)
    [] agent = "pi" -> PiConfigured(c)
    [] OTHER -> StopConfigured(c)

HasRecallBlock(n) == n.block # "none"

(* The page shows the merge of the hook file, so that it shows nothing of  *)
(* an agent, and not even the others, when that file is no JSON.           *)
Status(f) ==
  IF file["hooks"].form = "bad" /\ agent \notin Plugged THEN "error"
  ELSE IF IF f = "hooks" THEN HookConfigured(file[f])
          ELSE agent # "cursor" /\ HasRecallBlock(file[f])
       THEN "configured" ELSE "none"

-----------------------------------------------------------------------------
(* What of a content is the user's, and how often rmb is or will be in it. *)
PartsIn(f, c) ==
  IF f = "recall" THEN c.text
  ELSE (HooksIn(c.stop) \cup HooksIn(c.prompt) \cup HooksIn(c.legacy) \cup c.odd) \ Commands

ListedIn(f, c) ==
  IF f = "recall" THEN c.text ELSE (HooksIn(c.stop) \cup HooksIn(c.prompt)) \ Commands

(* Where hooks of rmb stand. *)
RMBHooks(gs) == UNION {{i} \X {j \in DOMAIN gs[i] : gs[i][j] = "rmb"} : i \in DOMAIN gs}

(* And where the merge will put one: in the empty groups. *)
Places(gs) ==
  UNION {{i} \X (IF gs[i] = <<>> THEN {1} ELSE {j \in DOMAIN gs[i] : gs[i][j] = "rmb"}) :
           i \in DOMAIN gs}

Slots(c) == {Cardinality(Places(gs)) : gs \in {c.stop, c.prompt, c.legacy}}

Busy(f) == {a \in Appliers : step[a] # "idle" /\ Head(todo[a]) = f}

Init ==
  /\ agent \in Agents /\ cmd \in Commands
  /\ \E c \in Configs[agent], n \in Notes :
       /\ file = [f \in Files |-> IF f = "hooks" THEN c ELSE n]
       /\ slots = Max(Slots(c))
  /\ bak = [f \in Files |-> Empty(f, "absent")]
  /\ todo = [a \in Appliers |-> <<>>] /\ step = [a \in Appliers |-> "idle"]
  /\ text = [a \in Appliers |-> NoConfig("absent")] /\ mixed = [a \in Appliers |-> FALSE]
  /\ wanted = [f \in Files |-> PartsIn(f, file[f])]
  /\ listed = [f \in Files |-> ListedIn(f, file[f])]
  /\ backups = [f \in Files |-> 0]
  /\ late = [f \in Files |-> FALSE] /\ unclean = [f \in Files |-> FALSE]
  /\ fresh = [f \in Files |-> FALSE]
  /\ applies = 0 /\ saves = 0 /\ faults = 0

(* POST /setup/{agent}/apply or rmb setup --apply, with a list of artifacts. *)
Apply(a, list) ==
  /\ step[a] = "idle" /\ applies < MaxApplies
  /\ applies' = applies + 1
  /\ todo' = [todo EXCEPT ![a] = list]
  /\ step' = [step EXCEPT ![a] = "read"]
  /\ UNCHANGED <<agent, cmd, diskVars, text, mixed, histVars, saves, faults>>

(* An artifact that is not written, or a file that is no JSON, ends the     *)
(* apply; what was written before it stays.                                 *)
Read(a) ==
  LET f == Head(todo[a]) IN
  /\ step[a] = "read"
  /\ IF f \notin Writable \/ (f = "hooks" /\ file[f].form = "bad" /\ agent \notin Plugged)
     THEN /\ step' = [step EXCEPT ![a] = "idle"]
          /\ todo' = [todo EXCEPT ![a] = <<>>]
          /\ UNCHANGED <<text, unclean>>
     ELSE /\ step' = [step EXCEPT ![a] = "backup"]
          /\ text' = [text EXCEPT ![a] = Merge(f, file[f])]
          /\ unclean' = [unclean EXCEPT ![f] = @ \/ Busy(f) # {a}]
          /\ UNCHANGED todo
  /\ UNCHANGED <<agent, cmd, diskVars, mixed, wanted, listed, slots, backups, late, fresh,
                 applies, saves, faults>>

(* Variant: an existing copy is kept. *)
BadBackup(a) ==
  LET f == Head(todo[a]) IN
  /\ step[a] = "backup"
  /\ step' = [step EXCEPT ![a] = "open"]
  /\ IF file[f].form = "absent" \/ bak[f].form # "absent" THEN UNCHANGED <<bak, backups>>
     ELSE /\ bak' = [bak EXCEPT ![f] = file[f]]
          /\ backups' = [backups EXCEPT ![f] = @ + 1]
  /\ UNCHANGED <<agent, cmd, file, todo, text, mixed, wanted, listed, slots, late, unclean,
                 fresh, applies, saves, faults>>

(* The file is read again and copied as it is now. *)
Backup(a) ==
  LET f == Head(todo[a]) IN
  /\ step[a] = "backup"
  /\ step' = [step EXCEPT ![a] = "open"]
  /\ IF file[f].form = "absent" THEN UNCHANGED <<bak, backups>>
     ELSE /\ bak' = [bak EXCEPT ![f] = file[f]]
          /\ backups' = [backups EXCEPT ![f] = @ + 1]
  /\ UNCHANGED <<agent, cmd, file, todo, text, mixed, wanted, listed, slots, late, unclean,
                 fresh, applies, saves, faults>>

Open(a) ==
  LET f == Head(todo[a]) IN
  /\ step[a] = "open"
  /\ step' = [step EXCEPT ![a] = "fill"]
  /\ file' = [file EXCEPT ![f] = Empty(f, "blank")]
  /\ mixed' = [mixed EXCEPT ![a] = FALSE]
  /\ fresh' = [fresh EXCEPT ![f] = FALSE]
  /\ UNCHANGED <<agent, cmd, bak, todo, text, wanted, listed, slots, backups, late, unclean,
                 applies, saves, faults>>

(* Over what another wrote since, a shorter text leaves the rest of it. *)
Fill(a) ==
  LET f == Head(todo[a]) IN
  /\ step[a] = "fill"
  /\ \/ /\ file' = [file EXCEPT ![f] = text[a]]
        /\ fresh' = [fresh EXCEPT ![f] = TRUE]
     \/ /\ mixed[a] /\ f = "hooks"
        /\ file' = [file EXCEPT ![f] = NoConfig("bad")]
        /\ fresh' = [fresh EXCEPT ![f] = FALSE]
  /\ mixed' = [b \in Appliers |-> b # a /\ (mixed[b] \/ (step[b] = "fill" /\ b \in Busy(f)))]
  /\ text' = [text EXCEPT ![a] = NoConfig("absent")]
  /\ todo' = [todo EXCEPT ![a] = Tail(@)]
  /\ step' = [step EXCEPT ![a] = IF Tail(todo[a]) = <<>> THEN "idle" ELSE "read"]
  /\ UNCHANGED <<agent, cmd, bak, wanted, listed, slots, backups, late, unclean,
                 applies, saves, faults>>

(* The process dies, or a read or write fails.  In mid-copy the copy may be *)
(* left empty, in mid-write the file.                                      *)
Die(a) ==
  LET f == Head(todo[a]) IN
  /\ step[a] # "idle" /\ faults < MaxFaults
  /\ faults' = faults + 1
  /\ step' = [step EXCEPT ![a] = "idle"]
  /\ todo' = [todo EXCEPT ![a] = <<>>]
  /\ text' = [text EXCEPT ![a] = NoConfig("absent")]
  /\ mixed' = [mixed EXCEPT ![a] = FALSE]
  /\ unclean' = [unclean EXCEPT ![f] = @ \/ step[a] = "fill"]
  /\ \/ UNCHANGED <<bak, backups>>
     \/ /\ step[a] = "backup" /\ file[f].form # "absent"
        /\ bak' = [bak EXCEPT ![f] = Empty(f, "blank")]
        /\ backups' = [backups EXCEPT ![f] = @ + 1]
  /\ UNCHANGED <<agent, cmd, file, wanted, listed, slots, late, fresh, applies, saves>>

(* The user's editor, or the agent, saves the file. *)
Save(f, c) ==
  /\ saves < MaxSaves
  /\ saves' = saves + 1
  /\ file' = [file EXCEPT ![f] = c]
  /\ mixed' = [b \in Appliers |-> mixed[b] \/ (step[b] = "fill" /\ b \in Busy(f))]
  /\ wanted' = [wanted EXCEPT ![f] = PartsIn(f, c)]
  /\ listed' = [listed EXCEPT ![f] = ListedIn(f, c)]
  /\ slots' = IF f = "recall" THEN slots
              ELSE Max({slots} \cup Slots(c))
  /\ backups' = [backups EXCEPT ![f] = 0]
  /\ late' = [late EXCEPT ![f] = \E b \in Busy(f) : step[b] \in {"open", "fill"}]
  /\ unclean' = [unclean EXCEPT ![f] = Busy(f) # {}]
  /\ fresh' = [fresh EXCEPT ![f] = FALSE]
  /\ UNCHANGED <<agent, cmd, bak, todo, step, text, applies, faults>>

Lists == { <<"hooks">>, <<"recall">>, <<"hooks", "recall">>, <<"recall", "hooks">> }

Next ==
  \/ \E a \in Appliers :
       \/ \E list \in Lists : Apply(a, list)
       \/ Read(a) \/ Backup(a) \/ Open(a) \/ Fill(a) \/ Die(a)
  \/ \E c \in Configs[agent] : Save("hooks", c)
  \/ \E n \in Notes : Save("recall", n)

Spec == Init /\ [][Next]_vars

-----------------------------------------------------------------------------
Content(f) == IF f = "hooks" THEN Config ELSE Note

(* What the variables hold. *)
TypeOK ==
  /\ agent \in Agents /\ cmd \in Commands
  /\ \A f \in Files : file[f] \in Content(f) /\ bak[f] \in Content(f)
  /\ \A a \in Appliers :
       /\ todo[a] \in Seq(Files) /\ mixed[a] \in BOOLEAN
       /\ step[a] \in {"idle", "read", "backup", "open", "fill"}
       /\ step[a] # "idle" => todo[a] # <<>>
       /\ step[a] \in {"backup", "open", "fill"} => text[a] \in Content(Head(todo[a]))
  /\ wanted \in [Files -> SUBSET Parts] /\ listed \in [Files -> SUBSET Parts]
  /\ slots \in Nat /\ backups \in [Files -> Nat]
  /\ late \in [Files -> BOOLEAN] /\ unclean \in [Files -> BOOLEAN]
  /\ fresh \in [Files -> BOOLEAN]
  /\ applies \in 0..MaxApplies /\ saves \in 0..MaxSaves /\ faults \in 0..MaxFaults

Stored(f) == PartsIn(f, file[f]) \cup PartsIn(f, bak[f])

(* The first apply after a save can always be undone: whatever it drops,   *)
(* however it dies, and also when the save came while it was computing,    *)
(* all that the user had is in the file or in its copy.  Not so if the     *)
(* save came between its copy and its write.                               *)
FirstApplyUndoable ==
  \A f \in Files : backups[f] <= 1 /\ ~late[f] => wanted[f] \subseteq Stored(f)

(* Any number of applies, one after the other, keep the hooks of others in *)
(* the lists and the user's text: in the file, or in the copy while the    *)
(* file is open.  (Not so when two overlap, or one dies with the file open: *)
(* the next then copies the empty file over the good copy.)                *)
OthersKept ==
  \A f \in Files :
    ~unclean[f] /\ (f = "recall" \/ agent \notin Plugged) =>
      listed[f] \subseteq PartsIn(f, IF \E a \in Busy(f) : step[a] = "fill" THEN bak[f]
                                     ELSE file[f])

(* No order of applies, overlapping, interrupted or repeated, gives an     *)
(* event more rmb hooks than the user made room for, or one: each further  *)
(* one would upload every turn once more, and Upload tells no copies apart. *)
NeverDoubled ==
  cmd = "rmb" =>
    \A gs \in {file["hooks"].stop, file["hooks"].prompt} :
      Cardinality(RMBHooks(gs)) <= IF slots = 0 THEN 1 ELSE slots

(* A file that an apply was the last to write is shown as configured, all  *)
(* that the agent needs being in it (two events and the switch for zcode): *)
(* for the recall block, unless the hook file beside it is no JSON.        *)
ConfiguredByApply ==
  \A f \in Files :
    /\ fresh[f] /\ (f = "recall" \/ cmd = "rmb" \/ agent \in Plugged)
    /\ f = "recall" => file["hooks"].form # "bad"
    => Status(f) = "configured"
=============================================================================
