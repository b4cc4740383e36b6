---------------------------- MODULE SetupProofs ----------------------------
(***************************************************************************)
(* Proofs about module Setup, for any agents, hooks, configurations,       *)
(* appliers and faults.                                                    *)
(***************************************************************************)
EXTENDS Setup, TLAPS, FiniteSetTheorems

(***************************************************************************)
(* What the merges do to lists of hooks.                                   *)
(***************************************************************************)
LEMMA InHooks ==
  ASSUME NEW gs, NEW h
  PROVE  h \in HooksIn(gs) <=> \E i \in DOMAIN gs : \E j \in DOMAIN gs[i] : gs[i][j] = h
BY DEF HooksIn, ToSet

LEMMA ConcatHooks ==
  ASSUME NEW S, NEW g1 \in Seq(S), NEW g2 \in Seq(S)
  PROVE  HooksIn(g1 \o g2) = HooksIn(g1) \cup HooksIn(g2)
<1>1. /\ DOMAIN (g1 \o g2) = 1..(Len(g1) + Len(g2))
      /\ DOMAIN g1 = 1..Len(g1) /\ DOMAIN g2 = 1..Len(g2)
      /\ \A i \in 1..Len(g1) : (g1 \o g2)[i] = g1[i]
      /\ \A i \in (Len(g1) + 1)..(Len(g1) + Len(g2)) : (g1 \o g2)[i] = g2[i - Len(g1)]
      /\ Len(g1) \in Nat /\ Len(g2) \in Nat
  OBVIOUS
<1> DEFINE g == g1 \o g2
<1>2. ASSUME NEW h \in HooksIn(g) PROVE h \in HooksIn(g1) \cup HooksIn(g2)
  <2>1. PICK i \in DOMAIN g : \E j \in DOMAIN g[i] : g[i][j] = h
    BY <1>2, InHooks
  <2>2. CASE i \in 1..Len(g1)
    BY <1>1, <2>1, <2>2, InHooks
  <2>3. CASE i \notin 1..Len(g1)
    <3>1. i - Len(g1) \in DOMAIN g2 /\ g[i] = g2[i - Len(g1)]
      BY <1>1, <2>3
    <3> QED BY <2>1, <3>1, InHooks
  <2> QED BY <2>2, <2>3
<1>3. ASSUME NEW h \in HooksIn(g1) PROVE h \in HooksIn(g)
  <2>1. PICK i \in DOMAIN g1 : \E j \in DOMAIN g1[i] : g1[i][j] = h
    BY <1>3, InHooks
  <2>2. i \in DOMAIN g /\ g[i] = g1[i]
    BY <1>1
  <2> QED BY <2>1, <2>2, InHooks
<1>4. ASSUME NEW h \in HooksIn(g2) PROVE h \in HooksIn(g)
  <2>1. PICK i \in DOMAIN g2 : \E j \in DOMAIN g2[i] : g2[i][j] = h
    BY <1>4, InHooks
  <2>2. i + Len(g1) \in DOMAIN g /\ g[i + Len(g1)] = g2[i]
    BY <1>1
  <2> QED BY <2>1, <2>2, InHooks
<1> QED BY <1>2, <1>3, <1>4

LEMMA Single ==
  ASSUME NEW h PROVE HooksIn(<< <<h>> >>) = {h} /\ HooksIn(<<>>) = {}
<1>1. DOMAIN << <<h>> >> = {1} /\ DOMAIN <<h>> = {1} /\ << <<h>> >>[1] = <<h>> /\ <<h>>[1] = h
  OBVIOUS
<1>2. HooksIn(<<>>) = {}
  BY DEF HooksIn
<1> QED BY <1>1, <1>2, InHooks

(* Merged keeps the hooks there are, and leaves one of rmb. *)
LEMMA MergedLists ==
  ASSUME NEW gs \in Groups, cmd \in Commands
  PROVE  /\ Merged(gs) \in Groups
         /\ HooksIn(gs) \subseteq HooksIn(Merged(gs))
         /\ cmd = "rmb" => "rmb" \in HooksIn(Merged(gs))
<1> DEFINE filled == [i \in DOMAIN gs |-> IF gs[i] = <<>> THEN <<cmd>> ELSE gs[i]]
           more == IF <<>> \in ToSet(gs) \/ "rmb" \in HooksIn(gs) THEN <<>> ELSE << <<cmd>> >>
           S == Seq(Parts \cup Commands)
<1>1. gs \in Seq(S) /\ <<cmd>> \in S
  BY DEF Groups
<1>2. filled \in Seq(S) /\ DOMAIN filled = DOMAIN gs
  <2>1. gs \in [1..Len(gs) -> S] /\ Len(gs) \in Nat /\ DOMAIN gs = 1..Len(gs)
    BY <1>1
  <2>2. filled \in [1..Len(gs) -> S]
    BY <1>1, <2>1
  <2> QED BY <2>1, <2>2
<1>3. more \in Seq(S)
  <2>1. <<>> \in Seq(S) /\ << <<cmd>> >> \in Seq(S)
    BY <1>1
  <2> HIDE DEF S
  <2> QED BY <2>1
<1>4. Merged(gs) = filled \o more
  BY DEF Merged
<1>5. HooksIn(Merged(gs)) = HooksIn(filled) \cup HooksIn(more)
  <2> HIDE DEF filled, more, S
  <2> QED BY <1>2, <1>3, <1>4, ConcatHooks
<1>6. HooksIn(gs) \subseteq HooksIn(filled)
  <2> SUFFICES ASSUME NEW h \in HooksIn(gs) PROVE h \in HooksIn(filled)
    OBVIOUS
  <2>1. PICK i \in DOMAIN gs : \E j \in DOMAIN gs[i] : gs[i][j] = h
    BY InHooks
  <2>2. gs[i] # <<>>
    BY <2>1
  <2>3. filled[i] = gs[i] /\ i \in DOMAIN filled
    BY <1>2, <2>2
  <2> QED BY <2>1, <2>3, InHooks
<1>7. ASSUME cmd = "rmb" PROVE "rmb" \in HooksIn(filled) \cup HooksIn(more)
  <2>1. CASE <<>> \in ToSet(gs)
    <3>1. PICK i \in DOMAIN gs : gs[i] = <<>>
      BY <2>1 DEF ToSet
    <3>2. filled[i] = <<cmd>> /\ i \in DOMAIN filled
      BY <1>2, <3>1
    <3>3. 1 \in DOMAIN <<cmd>> /\ <<cmd>>[1] = cmd
      OBVIOUS
    <3> QED BY <1>7, <3>2, <3>3, InHooks
  <2>2. CASE "rmb" \in HooksIn(gs)
    BY <1>6, <2>2
  <2>3. CASE more = << <<cmd>> >>
    BY <1>7, <2>3, Single
  <2> QED BY <2>1, <2>2, <2>3
<1>8. Merged(gs) \in Groups
  BY <1>2, <1>3, <1>4 DEF Groups
<1> QED BY <1>5, <1>6, <1>7, <1>8

(* Normalized keeps the hooks of others, and changes nothing when the       *)
(* present command is the one that stands there.                           *)
LEMMA NormalizedLists ==
  ASSUME NEW gs \in Groups, cmd \in Commands
  PROVE  /\ Normalized(gs) \in Groups
         /\ HooksIn(gs) \ Commands \subseteq HooksIn(Normalized(gs)) \ Commands
         /\ cmd = "rmb" => Normalized(gs) = Merged(gs)
<1> DEFINE S == Parts \cup Commands
           ms == Merged(gs)
           ns == [i \in DOMAIN ms |->
                    [j \in DOMAIN ms[i] |-> IF ms[i][j] = "rmb" THEN cmd ELSE ms[i][j]]]
<1>1. ms \in Seq(Seq(S)) /\ HooksIn(gs) \subseteq HooksIn(ms) /\ ns = Normalized(gs)
  BY MergedLists DEF Groups, Normalized
<1>7. Groups = Seq(Seq(S)) /\ cmd \in S
  BY DEF Groups
<1> HIDE DEF ms, S
<1>2. ASSUME NEW i \in DOMAIN ms
      PROVE  /\ ms[i] \in Seq(S) /\ ms[i] \in [1..Len(ms[i]) -> S]
             /\ Len(ms[i]) \in Nat /\ DOMAIN ms[i] = 1..Len(ms[i])
  <2>1. ms[i] \in Seq(S)
    BY <1>1
  <2> QED BY <2>1
<1>3. ASSUME NEW i \in DOMAIN ms PROVE ns[i] \in Seq(S)
  <2>1. \A j \in 1..Len(ms[i]) : (IF ms[i][j] = "rmb" THEN cmd ELSE ms[i][j]) \in S
    BY <1>2, <1>7
  <2>2. ns[i] \in [1..Len(ms[i]) -> S]
    BY <1>2, <2>1
  <2> QED BY <1>2, <2>2
<1>4. ns \in Seq(Seq(S))
  <2>1. ms \in [1..Len(ms) -> Seq(S)] /\ Len(ms) \in Nat /\ DOMAIN ms = 1..Len(ms)
    BY <1>1
  <2>2. DOMAIN ns = DOMAIN ms /\ ns = [i \in DOMAIN ms |-> ns[i]]
    OBVIOUS
  <2> HIDE DEF ns
  <2>3. ns \in [1..Len(ms) -> Seq(S)]
    BY <1>3, <2>1, <2>2
  <2> QED BY <2>1, <2>3
<1>5. ASSUME NEW h \in HooksIn(gs) \ Commands PROVE h \in HooksIn(ns)
  <2>1. PICK i \in DOMAIN ms : \E j \in DOMAIN ms[i] : ms[i][j] = h
    BY <1>1, InHooks
  <2>2. PICK j \in DOMAIN ms[i] : ms[i][j] = h
    BY <2>1
  <2>3. i \in DOMAIN ns /\ j \in DOMAIN ns[i] /\ ns[i][j] = h
    BY <2>2 DEF Commands
  <2> HIDE DEF ns
  <2> QED BY <2>3, InHooks
<1>6. ASSUME cmd = "rmb" PROVE ns = ms
  <2>1. ASSUME NEW i \in DOMAIN ms PROVE ns[i] = ms[i]
    <3>1. ms[i] = [j \in DOMAIN ms[i] |-> ms[i][j]]
      BY <1>2
    <3> QED BY <1>6, <3>1
  <2>2. ms = [i \in DOMAIN ms |-> ms[i]]
    BY <1>1
  <2> QED BY <2>1, <2>2
<1> HIDE DEF ns
<1> QED BY <1>1, <1>4, <1>5, <1>6, <1>7 DEF ms

(* What each merge gives: the lists, and the promise the settings page shows. *)
Good(c, d) ==
  /\ d \in Config /\ d.form = "config"
  /\ agent \notin Plugged => ListedIn("hooks", c) \subseteq ListedIn("hooks", d)
  /\ cmd = "rmb" \/ agent \in Plugged => HookConfigured(d)

LEMMA FlatList ==
  ASSUME NEW gs \in Groups, cmd \in Commands
  PROVE  LET ns == gs \o IF "rmb" \in HooksIn(gs) THEN <<>> ELSE << <<cmd>> >>
         IN  /\ ns \in Groups /\ HooksIn(gs) \subseteq HooksIn(ns)
             /\ cmd = "rmb" => "rmb" \in HooksIn(ns)
<1> DEFINE S == Seq(Parts \cup Commands)
           more == IF "rmb" \in HooksIn(gs) THEN <<>> ELSE << <<cmd>> >>
<1>1. gs \in Seq(S) /\ <<>> \in Seq(S) /\ << <<cmd>> >> \in Seq(S)
  BY DEF Groups
<1>2. Groups = Seq(S)
  BY DEF Groups
<1>3. cmd = "rmb" => "rmb" \in HooksIn(gs) \cup HooksIn(more)
  BY Single
<1> HIDE DEF S
<1>4. more \in Seq(S)
  BY <1>1
<1> HIDE DEF more
<1>5. HooksIn(gs \o more) = HooksIn(gs) \cup HooksIn(more) /\ gs \o more \in Seq(S)
  BY <1>1, <1>4, ConcatHooks
<1> QED BY <1>2, <1>3, <1>5 DEF more

LEMMA GoodMerge ==
  ASSUME agent \in AllAgents, cmd \in Commands, NEW c \in Config
  PROVE  Good(c, MergeHooks(c))
<1> DEFINE d == MergeHooks(c)
<1>1. c.stop \in Groups /\ c.prompt \in Groups /\ c.legacy \in Groups
  BY DEF Config
<1>2. CASE agent = "claude"
  <2>1. d = [c EXCEPT !.form = "config", !.odd = {}, !.stop = Merged(c.stop)]
    BY <1>2 DEF MergeHooks, MergeClaude
  <2>2. /\ d \in Config /\ d.form = "config" /\ d.stop = Merged(c.stop)
        /\ d.prompt = c.prompt
    BY <1>1, <2>1, MergedLists DEF Config
  <2> HIDE DEF d
  <2>3. ListedIn("hooks", c) \subseteq ListedIn("hooks", d)
    BY <1>1, <2>2, MergedLists DEF ListedIn
  <2>4. cmd = "rmb" => HookConfigured(d)
    BY <1>1, <1>2, <2>2, MergedLists DEF HookConfigured, StopConfigured
  <2>5. Good(c, d)
    BY <1>2, <2>2, <2>3, <2>4 DEF Good, Plugged
  <2> QED BY <2>5 DEF d
<1>7. CASE agent = "workbuddy"
  <2>1. d = [c EXCEPT !.form = "config", !.odd = {}, !.stop = Normalized(c.stop)]
    BY <1>7 DEF MergeHooks, MergeWorkBuddy
  <2>2. /\ d \in Config /\ d.form = "config" /\ d.stop = Normalized(c.stop)
        /\ d.prompt = c.prompt
    BY <1>1, <2>1, NormalizedLists DEF Config
  <2> HIDE DEF d
  <2>3. ListedIn("hooks", c) \subseteq ListedIn("hooks", d)
    BY <1>1, <2>2, NormalizedLists DEF ListedIn
  <2>4. cmd = "rmb" => HookConfigured(d)
    BY <1>1, <1>7, <2>2, NormalizedLists, MergedLists
       DEF HookConfigured, StopConfigured, WorkBuddyConfigured
  <2>5. Good(c, d)
    BY <1>7, <2>2, <2>3, <2>4 DEF Good, Plugged
  <2> QED BY <2>5 DEF d
<1>3. CASE agent = "cursor"
  <2> DEFINE more == IF "rmb" \in HooksIn(c.stop) THEN <<>> ELSE << <<cmd>> >>
  <2>1. d = [c EXCEPT !.form = "config", !.odd = {}, !.stop = c.stop \o more]
    BY <1>3 DEF MergeHooks, MergeCursor
  <2>2. /\ c.stop \o more \in Groups /\ HooksIn(c.stop) \subseteq HooksIn(c.stop \o more)
        /\ cmd = "rmb" => "rmb" \in HooksIn(c.stop \o more)
    BY <1>1, FlatList
  <2> HIDE DEF more
  <2>3. /\ d \in Config /\ d.form = "config" /\ d.stop = c.stop \o more
        /\ d.prompt = c.prompt
    BY <1>1, <2>1, <2>2 DEF Config
  <2> HIDE DEF d
  <2>4. ListedIn("hooks", c) \subseteq ListedIn("hooks", d)
    BY <2>2, <2>3 DEF ListedIn
  <2>5. cmd = "rmb" => HookConfigured(d)
    BY <1>3, <2>2, <2>3 DEF HookConfigured, StopConfigured, CursorConfigured
  <2>6. Good(c, d)
    BY <1>3, <2>3, <2>4, <2>5 DEF Good, Plugged
  <2> QED BY <2>6 DEF d
<1>4. CASE agent = "codex"
  <2> DEFINE list == IF c.stop = <<>> THEN c.legacy ELSE c.stop
  <2>1. d = [c EXCEPT !.form = "config", !.odd = {}, !.legacy = <<>>, !.bare = FALSE,
                      !.stop = Merged(list)]
    BY <1>4 DEF MergeHooks, MergeCodex
  <2>2. list \in Groups /\ <<>> \in Groups /\ HooksIn(c.stop) \subseteq HooksIn(list)
    <3>1. HooksIn(<<>>) = {}
      BY Single
    <3>2. list \in Groups /\ <<>> \in Groups
      BY <1>1 DEF Groups
    <3> QED BY <3>1, <3>2
  <2> HIDE DEF list
  <2>7. Merged(list) \in Groups
    BY <2>2, MergedLists
  <2>3. /\ d \in Config /\ d.form = "config" /\ d.stop = Merged(list)
        /\ d.prompt = c.prompt /\ d.legacy = <<>>
    <3> HIDE DEF Groups
    <3>1. d = [form |-> "config", stop |-> Merged(list), prompt |-> c.prompt, legacy |-> <<>>,
               bare |-> FALSE, odd |-> {}, on |-> c.on]
      BY <2>1 DEF Config
    <3>2. c.on \in BOOLEAN /\ {} \in SUBSET Parts
      BY DEF Config
    <3> HIDE DEF d
    <3> QED BY <1>1, <2>2, <2>7, <3>1, <3>2 DEF Config
  <2> HIDE DEF d
  <2>4. ListedIn("hooks", c) \subseteq ListedIn("hooks", d)
    BY <2>2, <2>3, MergedLists DEF ListedIn
  <2>5. cmd = "rmb" => HookConfigured(d)
    <3>1. cmd = "rmb" => "rmb" \in HooksIn(d.stop)
      BY <2>2, <2>3, MergedLists
    <3>2. "rmb" \in HooksIn(d.stop) => d.stop # <<>>
      BY Single
    <3> QED BY <1>4, <3>1, <3>2 DEF HookConfigured, CodexConfigured
  <2>6. Good(c, d)
    BY <1>4, <2>3, <2>4, <2>5 DEF Good, Plugged
  <2> QED BY <2>6 DEF d
<1>5. CASE agent = "zcode"
  <2>1. d = [c EXCEPT !.form = "config", !.odd = {}, !.on = TRUE,
                      !.stop = Normalized(c.stop), !.prompt = Normalized(c.prompt)]
    BY <1>5 DEF MergeHooks, MergeZCode
  <2>6. Normalized(c.stop) \in Groups /\ Normalized(c.prompt) \in Groups
    BY <1>1, NormalizedLists
  <2>2. /\ d \in Config /\ d.form = "config" /\ d.stop = Normalized(c.stop)
        /\ d.prompt = Normalized(c.prompt) /\ d.on = TRUE
    <3>1. d = [form |-> "config", stop |-> Normalized(c.stop), prompt |-> Normalized(c.prompt),
               legacy |-> c.legacy, bare |-> c.bare, odd |-> {}, on |-> TRUE]
      BY <2>1 DEF Config
    <3>2. c.bare \in BOOLEAN /\ {} \in SUBSET Parts
      BY DEF Config
    <3> HIDE DEF d
    <3> QED BY <1>1, <2>6, <3>1, <3>2 DEF Config
  <2> HIDE DEF d
  <2>3. ListedIn("hooks", c) \subseteq ListedIn("hooks", d)
    BY <1>1, <2>2, NormalizedLists DEF ListedIn
  <2>4. cmd = "rmb" => HookConfigured(d)
    BY <1>1, <1>5, <2>2, NormalizedLists, MergedLists
       DEF HookConfigured, StopConfigured, ZCodeConfigured
  <2>5. Good(c, d)
    BY <1>5, <2>2, <2>3, <2>4 DEF Good, Plugged
  <2> QED BY <2>5 DEF d
<1>6. CASE agent \in Plugged
  <2>1. d = [NoConfig("config") EXCEPT !.stop = << <<"rmb">> >>]
    BY <1>6 DEF MergeHooks, OpenCodePlugin, PiExtension, Plugged
  <2>2. d = [form |-> "config", stop |-> << <<"rmb">> >>, prompt |-> <<>>, legacy |-> <<>>,
             bare |-> FALSE, odd |-> {}, on |-> FALSE]
    BY <2>1 DEF NoConfig
  <2>3. /\ d \in Config /\ d.form = "config" /\ d.stop = << <<"rmb">> >>
    BY <2>2 DEF Config, Groups, Commands
  <2> HIDE DEF d
  <2>4. HookConfigured(d)
    BY <1>6, <2>3, Single DEF HookConfigured, OpenCodeConfigured, PiConfigured, StopConfigured,
       Plugged
  <2>5. Good(c, d)
    BY <1>6, <2>3, <2>4 DEF Good
  <2> QED BY <2>5 DEF d
<1> QED BY <1>2, <1>3, <1>4, <1>5, <1>6, <1>7 DEF AllAgents, Plugged

LEMMA GoodRecall ==
  ASSUME NEW n \in Note
  PROVE  LET d == MergeRecallMarkdown(n)
         IN  d \in Note /\ d.form = "config" /\ d.text = n.text /\ HasRecallBlock(d)
BY DEF MergeRecallMarkdown, Note, HasRecallBlock

-----------------------------------------------------------------------------
(* What is in the files and in the hands of the appliers. *)
Working == {"backup", "open", "fill"}

FileOf(a) == Head(todo[a])

Shape ==
  /\ agent \in Agents /\ cmd \in Commands
  /\ DOMAIN file = Files /\ DOMAIN bak = Files
  /\ \A f \in Files : /\ file[f] \in Content(f)
                      /\ file[f].form = "absent" => ListedIn(f, file[f]) = {} /\ PartsIn(f, file[f]) = {}
  /\ step \in [Appliers -> {"idle", "read", "backup", "open", "fill"}]
  /\ todo \in [Appliers -> Seq(Files)]
  /\ DOMAIN text = Appliers /\ mixed \in [Appliers -> BOOLEAN]
  /\ \A a \in Appliers :
       /\ step[a] # "idle" => todo[a] # <<>>
       /\ step[a] \in Working => text[a] \in Content(FileOf(a)) /\ text[a].form = "config"
  /\ backups \in [Files -> Nat]
  /\ late \in [Files -> BOOLEAN] /\ unclean \in [Files -> BOOLEAN]
  /\ DOMAIN wanted = Files /\ DOMAIN listed = Files /\ DOMAIN fresh = Files

LEMMA EmptyHolds ==
  ASSUME NEW f \in Files, NEW form \in {"absent", "blank", "bad"}
  PROVE  /\ PartsIn(f, NoConfig(form)) = {} \/ f = "recall"
         /\ f = "recall" => PartsIn(f, NoNote(form)) = {} /\ ListedIn(f, NoNote(form)) = {}
         /\ f = "hooks" => PartsIn(f, NoConfig(form)) = {} /\ ListedIn(f, NoConfig(form)) = {}
BY Single DEF PartsIn, ListedIn, NoConfig, NoNote

LEMMA EmptyContent ==
  ASSUME NEW f \in Files, NEW form \in {"absent", "blank"}
  PROVE  /\ Empty(f, form) \in Content(f) /\ Empty(f, form).form = form
         /\ PartsIn(f, Empty(f, form)) = {} /\ ListedIn(f, Empty(f, form)) = {}
<1>1. NoConfig(form) \in Config /\ NoNote(form) \in Note
  BY DEF Config, Groups, Note, NoConfig, NoNote
<1> QED BY <1>1, EmptyHolds DEF Empty, Content, Files, NoConfig, NoNote

LEMMA SavedContent ==
  ASSUME NEW f \in Files, NEW a \in Agents, NEW c,
         IF f = "hooks" THEN c \in Configs[a] ELSE c \in Notes
  PROVE  /\ c \in Content(f)
         /\ c.form = "absent" => ListedIn(f, c) = {} /\ PartsIn(f, c) = {}
<1>1. CASE f = "hooks"
  <2>1. c \in Config /\ (c.form = "absent" => c = NoConfig("absent"))
    BY <1>1, SetupAssumption
  <2> QED BY <1>1, <2>1, EmptyHolds DEF Content
<1>2. CASE f = "recall"
  <2>1. c \in Note /\ (c.form = "absent" => c = NoNote("absent"))
    BY <1>2, SetupAssumption
  <2> QED BY <1>2, <2>1, EmptyHolds DEF Content
<1> QED BY <1>1, <1>2 DEF Files

LEMMA InitSaved ==
  ASSUME Init, NEW f \in Files
  PROVE  IF f = "hooks" THEN file[f] \in Configs[agent] ELSE file[f] \in Notes
BY DEF Init, Files

LEMMA ShapeInit == Init => Shape
<1> SUFFICES ASSUME Init PROVE Shape
  OBVIOUS
<1>1. \A f \in Files : /\ file[f] \in Content(f)
                       /\ file[f].form = "absent" => ListedIn(f, file[f]) = {} /\ PartsIn(f, file[f]) = {}
  BY InitSaved, SavedContent DEF Init
<1>2. DOMAIN file = Files /\ DOMAIN bak = Files /\ DOMAIN wanted = Files /\ DOMAIN listed = Files
      /\ DOMAIN fresh = Files
  BY DEF Init
<1>3. /\ step \in [Appliers -> {"idle", "read", "backup", "open", "fill"}]
      /\ todo \in [Appliers -> Seq(Files)] /\ DOMAIN text = Appliers
      /\ mixed \in [Appliers -> BOOLEAN] /\ \A a \in Appliers : step[a] = "idle"
  BY DEF Init
<1>4. /\ backups \in [Files -> Nat] /\ late \in [Files -> BOOLEAN]
      /\ unclean \in [Files -> BOOLEAN] /\ agent \in Agents /\ cmd \in Commands
  BY DEF Init
<1> QED BY <1>1, <1>2, <1>3, <1>4 DEF Shape, Working

(* Steps that write no file and move one applier. *)
LEMMA MergeShape ==
  ASSUME Shape, NEW f \in Files
  PROVE  /\ Merge(f, file[f]) \in Content(f) /\ Merge(f, file[f]).form = "config"
         /\ f = "recall" \/ agent \notin Plugged =>
              ListedIn(f, file[f]) \subseteq ListedIn(f, Merge(f, file[f]))
         /\ f = "recall" => HasRecallBlock(Merge(f, file[f]))
         /\ f = "hooks" /\ (cmd = "rmb" \/ agent \in Plugged) =>
              HookConfigured(Merge(f, file[f]))
<1>1. agent \in AllAgents /\ cmd \in Commands
  BY SetupAssumption DEF Shape
<1>2. CASE f = "hooks"
  <2>1. Good(file[f], MergeHooks(file[f]))
    BY <1>1, <1>2, GoodMerge DEF Shape, Content
  <2> QED BY <1>2, <2>1 DEF Good, Merge, Content
<1>3. CASE f = "recall"
  BY <1>3, GoodRecall DEF Shape, Content, Merge, ListedIn
<1> QED BY <1>2, <1>3 DEF Files

LEMMA ShapeApply ==
  ASSUME Shape, NEW a \in Appliers, NEW list \in Lists, Apply(a, list) PROVE Shape'
<1>1. list \in Seq(Files) /\ list # <<>>
  <2>1. "hooks" \in Files /\ "recall" \in Files
    BY DEF Files
  <2>2. /\ <<"hooks">> \in Seq(Files) /\ <<"recall">> \in Seq(Files)
        /\ <<"recall", "hooks">> \in Seq(Files) /\ <<"hooks", "recall">> \in Seq(Files)
    BY <2>1
  <2>3. \/ list = <<"hooks">> \/ list = <<"recall">>
        \/ list = <<"recall", "hooks">> \/ list = <<"hooks", "recall">>
    BY DEF Lists
  <2>4. /\ <<"hooks">> # <<>> /\ <<"recall">> # <<>>
        /\ <<"recall", "hooks">> # <<>> /\ <<"hooks", "recall">> # <<>>
    OBVIOUS
  <2> QED BY <2>2, <2>3, <2>4
<1>2. /\ todo' = [todo EXCEPT ![a] = list] /\ step' = [step EXCEPT ![a] = "read"]
      /\ UNCHANGED <<agent, cmd, file, bak, text, mixed, wanted, listed, backups, late, unclean, fresh>>
  BY DEF Apply, diskVars, histVars
<1>3. \A b \in Appliers : /\ step'[b] # "idle" => todo'[b] # <<>>
                          /\ step'[b] \in Working => text'[b] \in Content(FileOf(b)') /\ text'[b].form = "config"
  BY <1>1, <1>2 DEF Shape, Working, FileOf
<1> QED BY <1>1, <1>2, <1>3 DEF Shape

LEMMA ShapeRead == ASSUME Shape, NEW a \in Appliers, Read(a) PROVE Shape'
<1> DEFINE f == FileOf(a)
<1>1. f \in Files /\ step[a] = "read" /\ todo[a] # <<>>
  BY DEF Read, Shape, FileOf
<1>2. UNCHANGED <<agent, cmd, file, bak, mixed, wanted, listed, backups, late, fresh>>
  BY DEF Read, diskVars
<1>3. CASE /\ step' = [step EXCEPT ![a] = "idle"] /\ todo' = [todo EXCEPT ![a] = <<>>]
           /\ UNCHANGED <<text, unclean>>
  <2>1. todo' \in [Appliers -> Seq(Files)]
    BY <1>3 DEF Shape
  <2>2. \A b \in Appliers : /\ step'[b] # "idle" => todo'[b] # <<>>
                            /\ step'[b] \in Working => text'[b] \in Content(FileOf(b)') /\ text'[b].form = "config"
    BY <1>3 DEF Shape, Working, FileOf
  <2> QED BY <1>2, <1>3, <2>1, <2>2 DEF Shape
<1>4. CASE /\ step' = [step EXCEPT ![a] = "backup"] /\ text' = [text EXCEPT ![a] = Merge(f, file[f])]
           /\ unclean' = [unclean EXCEPT ![f] = @ \/ Busy(f) # {a}] /\ UNCHANGED todo
  <2>1. Merge(f, file[f]) \in Content(f) /\ Merge(f, file[f]).form = "config"
    BY <1>1, MergeShape
  <2>2. FileOf(a)' = f /\ \A b \in Appliers : FileOf(b)' = FileOf(b)
    BY <1>4 DEF FileOf
  <2>3. unclean' \in [Files -> BOOLEAN]
    BY <1>1, <1>4 DEF Shape
  <2> HIDE DEF f
  <2>4. text'[a] = Merge(f, file[f]) /\ \A b \in Appliers \ {a} : text'[b] = text[b] /\ step'[b] = step[b]
    BY <1>4 DEF Shape
  <2>5. \A b \in Appliers : /\ step'[b] # "idle" => todo'[b] # <<>>
                            /\ step'[b] \in Working => text'[b] \in Content(FileOf(b)') /\ text'[b].form = "config"
    BY <1>1, <1>4, <2>1, <2>2, <2>4 DEF Shape
  <2> QED BY <1>2, <1>4, <2>3, <2>5 DEF Shape
<1> QED BY <1>3, <1>4 DEF Read, FileOf

(* An applier past its read is about a file that the merge can give. *)
LEMMA Current ==
  ASSUME Shape, NEW a \in Appliers, step[a] # "idle"
  PROVE  /\ FileOf(a) \in Files /\ Tail(todo[a]) \in Seq(Files)
         /\ step[a] \in Working => text[a] \in Content(FileOf(a)) /\ text[a].form = "config"
BY DEF Shape, FileOf

LEMMA ShapeBackup == ASSUME Shape, NEW a \in Appliers, Backup(a) PROVE Shape'
<1> DEFINE f == FileOf(a)
<1>1. f \in Files /\ step[a] = "backup"
  BY Current DEF Backup
<1>2. /\ UNCHANGED <<agent, cmd, file, todo, text, mixed, wanted, listed, late, unclean, fresh>>
      /\ step' = [step EXCEPT ![a] = "open"]
  BY DEF Backup
<1>3. DOMAIN bak' = Files /\ backups' \in [Files -> Nat]
  <2>1. \/ UNCHANGED <<bak, backups>>
        \/ /\ bak' = [bak EXCEPT ![f] = file[f]]
           /\ backups' = [backups EXCEPT ![f] = @ + 1]
    BY DEF Backup, FileOf
  <2>2. DOMAIN bak = Files /\ backups \in [Files -> Nat]
    BY DEF Shape
  <2> HIDE DEF f
  <2> QED BY <1>1, <2>1, <2>2
<1>4. \A b \in Appliers : /\ step'[b] # "idle" => todo'[b] # <<>>
                          /\ step'[b] \in Working => text'[b] \in Content(FileOf(b)') /\ text'[b].form = "config"
  BY <1>1, <1>2 DEF Shape, Working, FileOf
<1> QED BY <1>2, <1>3, <1>4 DEF Shape

LEMMA ShapeOpen == ASSUME Shape, NEW a \in Appliers, Open(a) PROVE Shape'
<1> DEFINE f == FileOf(a)
<1>1. f \in Files /\ step[a] = "open"
  BY Current DEF Open
<1>2. /\ UNCHANGED <<agent, cmd, bak, todo, text, wanted, listed, backups, late, unclean>>
      /\ step' = [step EXCEPT ![a] = "fill"] /\ mixed' = [mixed EXCEPT ![a] = FALSE]
      /\ file' = [file EXCEPT ![f] = Empty(f, "blank")] /\ fresh' = [fresh EXCEPT ![f] = FALSE]
  BY DEF Open, FileOf
<1>3. \A g \in Files : /\ file'[g] \in Content(g)
                       /\ file'[g].form = "absent" => ListedIn(g, file'[g]) = {} /\ PartsIn(g, file'[g]) = {}
  BY <1>1, <1>2, EmptyContent DEF Shape
<1>4. \A b \in Appliers : /\ step'[b] # "idle" => todo'[b] # <<>>
                          /\ step'[b] \in Working => text'[b] \in Content(FileOf(b)') /\ text'[b].form = "config"
  BY <1>1, <1>2 DEF Shape, Working, FileOf
<1> QED BY <1>2, <1>3, <1>4 DEF Shape

(* What a write leaves in the file. *)
LEMMA Filled ==
  ASSUME Shape, NEW a \in Appliers, Fill(a)
  PROVE  LET f == FileOf(a) IN
         /\ f \in Files /\ text[a] \in Content(f) /\ text[a].form = "config"
         /\ \/ file' = [file EXCEPT ![f] = text[a]] /\ fresh' = [fresh EXCEPT ![f] = TRUE]
            \/ /\ mixed[a] /\ f = "hooks" /\ file' = [file EXCEPT ![f] = NoConfig("bad")]
               /\ fresh' = [fresh EXCEPT ![f] = FALSE]
         /\ UNCHANGED <<agent, cmd, bak, wanted, listed, backups, late, unclean>>
         /\ text' = [text EXCEPT ![a] = NoConfig("absent")]
         /\ todo' = [todo EXCEPT ![a] = Tail(@)] /\ Tail(todo[a]) \in Seq(Files)
         /\ step[a] = "fill"
         /\ step' = [step EXCEPT ![a] = IF Tail(todo[a]) = <<>> THEN "idle" ELSE "read"]
         /\ mixed' = [b \in Appliers |-> b # a /\ (mixed[b] \/ (step[b] = "fill" /\ b \in Busy(f)))]
<1>1. step[a] = "fill"
  BY DEF Fill
<1> QED BY <1>1, Current DEF Fill, FileOf, Working

LEMMA ShapeFill == ASSUME Shape, NEW a \in Appliers, Fill(a) PROVE Shape'
<1> DEFINE f == FileOf(a)
<1>1. \A g \in Files : /\ file'[g] \in Content(g)
                       /\ file'[g].form = "absent" => ListedIn(g, file'[g]) = {} /\ PartsIn(g, file'[g]) = {}
  <2>1. NoConfig("bad") \in Config /\ NoConfig("bad").form = "bad"
    BY DEF NoConfig, Config, Groups
  <2> HIDE DEF f
  <2>2. CASE file' = [file EXCEPT ![f] = text[a]]
    BY <2>2, Filled DEF Shape, f
  <2>3. CASE f = "hooks" /\ file' = [file EXCEPT ![f] = NoConfig("bad")]
    BY <2>1, <2>3 DEF Shape, Content
  <2> QED BY <2>2, <2>3, Filled DEF f
<1>2. \A b \in Appliers : /\ step'[b] # "idle" => todo'[b] # <<>>
                          /\ step'[b] \in Working => text'[b] \in Content(FileOf(b)') /\ text'[b].form = "config"
  <2>0. /\ DOMAIN text = Appliers /\ DOMAIN todo = Appliers /\ DOMAIN step = Appliers
        /\ todo' = [todo EXCEPT ![a] = Tail(@)] /\ text' = [text EXCEPT ![a] = NoConfig("absent")]
        /\ step' = [step EXCEPT ![a] = IF Tail(todo[a]) = <<>> THEN "idle" ELSE "read"]
    BY Filled DEF Shape
  <2>1. step'[a] \in {"idle", "read"} /\ (step'[a] # "idle" => todo'[a] # <<>>)
    BY <2>0
  <2>2. \A b \in Appliers \ {a} : /\ step'[b] = step[b] /\ text'[b] = text[b] /\ todo'[b] = todo[b]
                                  /\ FileOf(b)' = FileOf(b)
    BY <2>0 DEF FileOf
  <2> QED BY <2>1, <2>2 DEF Shape, Working
<1>3. DOMAIN file' = Files /\ DOMAIN fresh' = Files /\ todo' \in [Appliers -> Seq(Files)]
      /\ step' \in [Appliers -> {"idle", "read", "backup", "open", "fill"}]
      /\ DOMAIN text' = Appliers
  <2>1. /\ DOMAIN file = Files /\ DOMAIN fresh = Files /\ DOMAIN text = Appliers
        /\ step \in [Appliers -> {"idle", "read", "backup", "open", "fill"}]
        /\ todo \in [Appliers -> Seq(Files)]
    BY DEF Shape
  <2>2. DOMAIN file' = DOMAIN file /\ DOMAIN fresh' = DOMAIN fresh
    BY Filled
  <2>3. /\ todo' = [todo EXCEPT ![a] = Tail(@)] /\ Tail(todo[a]) \in Seq(Files)
        /\ text' = [text EXCEPT ![a] = NoConfig("absent")]
        /\ step' = [step EXCEPT ![a] = IF Tail(todo[a]) = <<>> THEN "idle" ELSE "read"]
    BY Filled
  <2> QED BY <2>1, <2>2, <2>3
<1>4. mixed' \in [Appliers -> BOOLEAN]
  <2>1. \A b \in Appliers : (b # a /\ (mixed[b] \/ (step[b] = "fill" /\ b \in Busy(f)))) \in BOOLEAN
    OBVIOUS
  <2> QED BY <2>1, Filled
<1> QED BY <1>1, <1>2, <1>3, <1>4, Filled DEF Shape

LEMMA Died ==
  ASSUME Shape, NEW a \in Appliers, Die(a)
  PROVE  LET f == FileOf(a) IN
         /\ f \in Files /\ UNCHANGED <<agent, cmd, file, wanted, listed, late, fresh>>
         /\ step[a] # "idle" /\ step' = [step EXCEPT ![a] = "idle"]
         /\ todo' = [todo EXCEPT ![a] = <<>>] /\ text' = [text EXCEPT ![a] = NoConfig("absent")]
         /\ mixed' = [mixed EXCEPT ![a] = FALSE]
         /\ unclean' = [unclean EXCEPT ![f] = @ \/ step[a] = "fill"]
         /\ \/ UNCHANGED <<bak, backups>>
            \/ /\ step[a] = "backup" /\ file[f].form # "absent"
               /\ bak' = [bak EXCEPT ![f] = Empty(f, "blank")]
               /\ backups' = [backups EXCEPT ![f] = @ + 1]
<1>1. step[a] # "idle"
  BY DEF Die
<1> QED BY <1>1, Current DEF Die, FileOf

LEMMA ShapeDie == ASSUME Shape, NEW a \in Appliers, Die(a) PROVE Shape'
<1> DEFINE f == FileOf(a)
<1>1. DOMAIN bak' = Files /\ backups' \in [Files -> Nat] /\ unclean' \in [Files -> BOOLEAN]
  <2>1. DOMAIN bak = Files /\ backups \in [Files -> Nat] /\ unclean \in [Files -> BOOLEAN]
    BY DEF Shape
  <2>2. /\ f \in Files /\ unclean' = [unclean EXCEPT ![f] = @ \/ step[a] = "fill"]
        /\ \/ UNCHANGED <<bak, backups>>
           \/ /\ bak' = [bak EXCEPT ![f] = Empty(f, "blank")]
              /\ backups' = [backups EXCEPT ![f] = @ + 1]
    BY Died
  <2> HIDE DEF f
  <2>3. DOMAIN bak' = Files /\ backups' \in [Files -> Nat]
    BY <2>1, <2>2
  <2>4. unclean' \in [Files -> BOOLEAN]
    BY <2>1, <2>2
  <2> QED BY <2>3, <2>4
<1>2. /\ step' = [step EXCEPT ![a] = "idle"] /\ todo' = [todo EXCEPT ![a] = <<>>]
      /\ text' = [text EXCEPT ![a] = NoConfig("absent")] /\ mixed' = [mixed EXCEPT ![a] = FALSE]
  BY Died
<1>3. /\ step' \in [Appliers -> {"idle", "read", "backup", "open", "fill"}]
      /\ todo' \in [Appliers -> Seq(Files)] /\ DOMAIN text' = Appliers
      /\ mixed' \in [Appliers -> BOOLEAN]
  BY <1>2 DEF Shape
<1>4. \A b \in Appliers : /\ step'[b] # "idle" => todo'[b] # <<>>
                          /\ step'[b] \in Working => text'[b] \in Content(FileOf(b)') /\ text'[b].form = "config"
  BY <1>2 DEF Shape, Working, FileOf
<1> QED BY <1>1, <1>3, <1>4, Died DEF Shape

LEMMA Saved ==
  ASSUME Shape, NEW f \in Files, NEW c,
         IF f = "hooks" THEN c \in Configs[agent] ELSE c \in Notes, Save(f, c)
  PROVE  /\ c \in Content(f) /\ (c.form = "absent" => ListedIn(f, c) = {} /\ PartsIn(f, c) = {})
         /\ file' = [file EXCEPT ![f] = c] /\ UNCHANGED <<agent, cmd, bak, todo, step, text>>
         /\ wanted' = [wanted EXCEPT ![f] = PartsIn(f, c)]
         /\ listed' = [listed EXCEPT ![f] = ListedIn(f, c)]
         /\ backups' = [backups EXCEPT ![f] = 0]
         /\ late' = [late EXCEPT ![f] = \E b \in Busy(f) : step[b] \in {"open", "fill"}]
         /\ unclean' = [unclean EXCEPT ![f] = Busy(f) # {}]
         /\ fresh' = [fresh EXCEPT ![f] = FALSE]
         /\ mixed' = [b \in Appliers |-> mixed[b] \/ (step[b] = "fill" /\ b \in Busy(f))]
BY SavedContent DEF Save, Shape

LEMMA ShapeSave ==
  ASSUME Shape, NEW f \in Files, NEW c,
         IF f = "hooks" THEN c \in Configs[agent] ELSE c \in Notes, Save(f, c)
  PROVE  Shape'
<1>1. \A g \in Files : /\ file'[g] \in Content(g)
                       /\ file'[g].form = "absent" => ListedIn(g, file'[g]) = {} /\ PartsIn(g, file'[g]) = {}
  <2>1. c \in Content(f) /\ (c.form = "absent" => ListedIn(f, c) = {} /\ PartsIn(f, c) = {})
    BY Saved
  <2>2. file' = [file EXCEPT ![f] = c]
    BY Saved
  <2> QED BY <2>1, <2>2 DEF Shape
<1>2. mixed' \in [Appliers -> BOOLEAN]
  <2>1. \A b \in Appliers : (mixed[b] \/ (step[b] = "fill" /\ b \in Busy(f))) \in BOOLEAN
    OBVIOUS
  <2> QED BY <2>1, Saved
<1>3. /\ DOMAIN file' = Files /\ DOMAIN wanted' = Files /\ DOMAIN listed' = Files
      /\ DOMAIN fresh' = Files /\ backups' \in [Files -> Nat]
  BY Saved DEF Shape
<1>4. late' \in [Files -> BOOLEAN] /\ unclean' \in [Files -> BOOLEAN]
  BY Saved DEF Shape
<1>5. \A b \in Appliers : /\ step'[b] # "idle" => todo'[b] # <<>>
                          /\ step'[b] \in Working => text'[b] \in Content(FileOf(b)') /\ text'[b].form = "config"
  BY Saved DEF Shape, FileOf
<1> QED BY <1>1, <1>2, <1>3, <1>4, <1>5, Saved DEF Shape

LEMMA ShapeSame == ASSUME Shape, UNCHANGED vars PROVE Shape'
BY DEF vars, diskVars, applyVars, histVars, Shape, FileOf

LEMMA ShapeNext == Shape /\ [Next]_vars => Shape'
<1>1. ASSUME Shape, NEW c \in Configs[agent], Save("hooks", c) PROVE Shape'
  BY <1>1, ShapeSave DEF Files
<1>2. ASSUME Shape, NEW n \in Notes, Save("recall", n) PROVE Shape'
  BY <1>2, ShapeSave DEF Files
<1> QED BY <1>1, <1>2, ShapeApply, ShapeRead, ShapeBackup, ShapeOpen, ShapeFill, ShapeDie,
           ShapeSame DEF Next

(* Files, copies and texts under way are of the shapes the merges expect. *)
THEOREM ShapeInvariant == Spec => []Shape
BY ShapeInit, ShapeNext, PTL DEF Spec

(* Two steps are alike to what follows: one applier moves, or a file is saved. *)
LEMMA OneMoves ==
  ASSUME Shape, NEW a \in Appliers,
         (\E list \in Lists : Apply(a, list)) \/ Read(a) \/ Backup(a) \/ Open(a) \/ Fill(a) \/ Die(a)
  PROVE  /\ UNCHANGED <<agent, cmd, wanted, listed, late>>
         /\ \A b \in Appliers \ {a} : step'[b] = step[b] /\ FileOf(b)' = FileOf(b) /\ todo'[b] = todo[b]
<1>1. step \in [Appliers -> {"idle", "read", "backup", "open", "fill"}] /\ DOMAIN todo = Appliers
  BY DEF Shape
<1>2. UNCHANGED <<agent, cmd, wanted, listed, late>>
  BY DEF Apply, Read, Backup, Open, Fill, Die, histVars
<1>3. /\ todo' = todo \/ \E t : todo' = [todo EXCEPT ![a] = t]
      /\ step' = step \/ \E l : step' = [step EXCEPT ![a] = l]
  BY DEF Apply, Read, Backup, Open, Fill, Die
<1> QED BY <1>1, <1>2, <1>3 DEF FileOf

-----------------------------------------------------------------------------
(* FirstApplyUndoable: before the first copy the file holds what was saved; *)
(* the copy then does, unless there was nothing to copy, or the copy itself *)
(* was interrupted and the file is not yet touched.                        *)
Opened(f) == \E a \in Busy(f) : step[a] \in {"open", "fill"}

Undoable(f) ==
  ~late[f] =>
    /\ backups[f] = 0 =>
         wanted[f] \subseteq PartsIn(f, file[f]) /\ (Opened(f) => wanted[f] = {})
    /\ backups[f] = 1 =>
         \/ wanted[f] = {}
         \/ wanted[f] \subseteq PartsIn(f, bak[f])
         \/ wanted[f] \subseteq PartsIn(f, file[f]) /\ ~Opened(f)

UndoInv == \A f \in Files : Undoable(f)

LEMMA UndoInit == Init => UndoInv
<1> SUFFICES ASSUME Init, NEW f \in Files PROVE Undoable(f)
  BY DEF UndoInv
<1>1. wanted[f] = PartsIn(f, file[f]) /\ backups[f] = 0 /\ ~Opened(f)
  BY DEF Init, Opened, Busy
<1> QED BY <1>1 DEF Undoable

(* A step of an applier that does not go on to open the file. *)
LEMMA UndoKept ==
  ASSUME Shape, NEW f \in Files, Undoable(f), UNCHANGED <<wanted, late>>,
         file'[f] = file[f], bak'[f] = bak[f], backups'[f] = backups[f],
         Opened(f)' => Opened(f)
  PROVE  Undoable(f)'
BY DEF Undoable, Shape, PartsIn

LEMMA UndoStep ==
  ASSUME Shape, Shape', UndoInv, NEW a \in Appliers, NEW g \in Files,
         (\E list \in Lists : Apply(a, list)) \/ Read(a) \/ Backup(a) \/ Open(a) \/ Fill(a) \/ Die(a)
  PROVE  Undoable(g)'
<1>1. /\ UNCHANGED <<wanted, late>>
      /\ \A b \in Appliers \ {a} : step'[b] = step[b] /\ FileOf(b)' = FileOf(b)
  BY OneMoves
<1>2. Undoable(g) /\ backups[g] \in Nat
  BY DEF UndoInv, Shape
<1>3. step'[a] \notin {"open", "fill"} => (Opened(g)' => Opened(g))
  BY <1>1 DEF Opened, Busy, FileOf
<1> DEFINE f == FileOf(a)
<1>4. CASE (\E list \in Lists : Apply(a, list)) \/ Read(a)
  <2>1. step'[a] \notin {"open", "fill"}
    BY <1>4 DEF Apply, Read, Shape
  <2>2. UNCHANGED <<file, bak, backups>>
    BY <1>4 DEF Apply, Read, diskVars, histVars
  <2> QED BY <1>1, <1>2, <1>3, <2>1, <2>2, UndoKept
<1>5. CASE Backup(a)
  <2>1. /\ UNCHANGED <<file, todo>> /\ step[a] = "backup"
        /\ \/ file[f].form = "absent" /\ UNCHANGED <<bak, backups>>
           \/ /\ bak' = [bak EXCEPT ![f] = file[f]]
              /\ backups' = [backups EXCEPT ![f] = @ + 1]
    BY <1>5 DEF Backup, FileOf
  <2>2. DOMAIN bak = Files /\ backups \in [Files -> Nat] /\ f \in Files /\ FileOf(a)' = f
    BY <2>1, Current DEF Shape, FileOf
  <2> HIDE DEF f
  <2>3. CASE g # f
    <3>1. bak'[g] = bak[g] /\ backups'[g] = backups[g] /\ file'[g] = file[g]
      BY <2>1, <2>2, <2>3
    <3>2. Opened(g)' => Opened(g)
      BY <1>1, <2>2, <2>3 DEF Opened, Busy, FileOf
    <3> QED BY <1>1, <1>2, <3>1, <3>2, UndoKept
  <2>4. CASE g = f /\ file[f].form = "absent" /\ UNCHANGED <<bak, backups>>
    <3>1. PartsIn(g, file[g]) = {}
      BY <2>2, <2>4 DEF Shape
    <3> QED BY <1>1, <1>2, <2>1, <2>4, <3>1 DEF Undoable
  <2>5. CASE g = f /\ bak' = [bak EXCEPT ![f] = file[f]] /\ backups' = [backups EXCEPT ![f] = @ + 1]
    <3>1. bak'[g] = file[g] /\ backups'[g] = backups[g] + 1
      BY <2>2, <2>5
    <3>2. backups'[g] # 0 /\ (backups'[g] = 1 => backups[g] = 0)
      BY <1>2, <3>1
    <3> QED BY <1>1, <1>2, <3>1, <3>2 DEF Undoable
  <2> QED BY <2>1, <2>3, <2>4, <2>5
<1>6. CASE Open(a)
  <2>1. /\ UNCHANGED <<bak, backups, todo>> /\ step[a] = "open" /\ step'[a] = "fill"
        /\ file' = [file EXCEPT ![f] = Empty(f, "blank")]
    BY <1>6 DEF Open, FileOf, Shape
  <2>2. f \in Files /\ DOMAIN file = Files /\ Opened(f) /\ (Opened(g)' => Opened(g))
    <3>1. f \in Files /\ DOMAIN file = Files
      BY <2>1, Current DEF Shape
    <3>2. Opened(f)
      BY <2>1 DEF Opened, Busy, FileOf
    <3>3. Opened(g)' => Opened(g)
      BY <1>1, <2>1 DEF Opened, Busy, FileOf
    <3> QED BY <3>1, <3>2, <3>3
  <2> HIDE DEF f
  <2>3. CASE g # f
    <3>1. file'[g] = file[g]
      BY <2>1, <2>2, <2>3
    <3> QED BY <1>1, <1>2, <2>1, <2>2, <3>1, UndoKept
  <2>4. CASE g = f
    BY <1>1, <1>2, <2>1, <2>2, <2>4 DEF Undoable
  <2> QED BY <2>3, <2>4
<1>7. CASE Fill(a)
  <2>1. /\ UNCHANGED <<bak, backups>> /\ step[a] = "fill" /\ step'[a] \notin {"open", "fill"}
        /\ f \in Files
    <3>1. /\ UNCHANGED <<bak, backups>> /\ step[a] = "fill" /\ f \in Files
          /\ step' = [step EXCEPT ![a] = IF Tail(todo[a]) = <<>> THEN "idle" ELSE "read"]
      BY <1>7, Filled
    <3>2. DOMAIN step = Appliers
      BY DEF Shape
    <3> QED BY <3>1, <3>2
  <2>2. \A h \in Files \ {f} : file'[h] = file[h]
    <3>1. \E t : file' = [file EXCEPT ![f] = t]
      BY <1>7, Filled
    <3>2. DOMAIN file = Files
      BY DEF Shape
    <3> QED BY <3>1, <3>2
  <2>3. Opened(f)
    BY <2>1 DEF Opened, Busy, FileOf
  <2> HIDE DEF f
  <2>4. CASE g # f
    BY <1>1, <1>2, <1>3, <2>1, <2>2, <2>4, UndoKept
  <2>5. CASE g = f
    BY <1>1, <1>2, <2>1, <2>3, <2>5 DEF Undoable
  <2> QED BY <2>4, <2>5
<1>8. CASE Die(a)
  <2>1. /\ UNCHANGED file /\ step'[a] = "idle" /\ f \in Files
        /\ \/ UNCHANGED <<bak, backups>>
           \/ /\ bak' = [bak EXCEPT ![f] = Empty(f, "blank")]
              /\ backups' = [backups EXCEPT ![f] = @ + 1]
    BY <1>8, Died DEF Shape
  <2>2. DOMAIN bak = Files /\ backups \in [Files -> Nat]
    BY DEF Shape
  <2> HIDE DEF f
  <2>3. CASE bak'[g] = bak[g] /\ backups'[g] = backups[g]
    BY <1>1, <1>2, <1>3, <2>1, <2>3, UndoKept
  <2>4. CASE backups'[g] = backups[g] + 1
    <3>1. backups'[g] # 0 /\ (backups'[g] = 1 => backups[g] = 0)
      BY <1>2, <2>4
    <3> QED BY <1>1, <1>2, <1>3, <2>1, <3>1 DEF Undoable
  <2> QED BY <2>1, <2>2, <2>3, <2>4
<1> QED BY <1>4, <1>5, <1>6, <1>7, <1>8

LEMMA UndoSave ==
  ASSUME Shape, UndoInv, NEW f \in Files, NEW g \in Files, NEW c,
         IF f = "hooks" THEN c \in Configs[agent] ELSE c \in Notes, Save(f, c)
  PROVE  Undoable(g)'
<1>1. UNCHANGED <<bak, todo, step>>
  BY Saved
<1>2. Opened(g)' <=> Opened(g)
  BY <1>1 DEF Opened, Busy
<1>3. CASE g # f
  <2>1. file'[g] = file[g] /\ wanted'[g] = wanted[g] /\ backups'[g] = backups[g] /\ late'[g] = late[g]
    BY <1>3, Saved DEF Shape
  <2> QED BY <1>1, <1>2, <2>1 DEF UndoInv, Undoable
<1>4. CASE g = f
  <2>1. /\ file'[g] = c /\ wanted'[g] = PartsIn(g, c) /\ backups'[g] = 0
        /\ late'[g] = Opened(g)
    <3>1. /\ file' = [file EXCEPT ![g] = c] /\ wanted' = [wanted EXCEPT ![g] = PartsIn(g, c)]
          /\ backups' = [backups EXCEPT ![g] = 0] /\ late' = [late EXCEPT ![g] = Opened(g)]
      BY <1>4, Saved DEF Opened
    <3>2. DOMAIN file = Files /\ DOMAIN wanted = Files /\ DOMAIN backups = Files /\ DOMAIN late = Files
      BY DEF Shape
    <3> QED BY <3>1, <3>2
  <2> QED BY <1>2, <2>1 DEF Undoable
<1> QED BY <1>3, <1>4

LEMMA UndoNext == Shape /\ Shape' /\ UndoInv /\ [Next]_vars => UndoInv'
<1> SUFFICES ASSUME Shape, Shape', UndoInv, [Next]_vars, NEW g \in Files PROVE Undoable(g)'
  BY DEF UndoInv
<1>1. CASE UNCHANGED vars
  BY <1>1 DEF vars, diskVars, applyVars, histVars, UndoInv, Undoable, Opened, Busy
<1>2. ASSUME NEW c \in Configs[agent], Save("hooks", c) PROVE Undoable(g)'
  BY <1>2, UndoSave DEF Files
<1>3. ASSUME NEW n \in Notes, Save("recall", n) PROVE Undoable(g)'
  BY <1>3, UndoSave DEF Files
<1> QED BY <1>1, <1>2, <1>3, UndoStep DEF Next

(***************************************************************************)
(* Whatever the first apply after a save drops, and wherever it dies, all  *)
(* the user had is in the file or in its copy, unless the save came        *)
(* between the copy and the write.                                         *)
(***************************************************************************)
THEOREM FirstApplyIsUndoable == Spec => []FirstApplyUndoable
<1>1. Shape /\ UndoInv => FirstApplyUndoable
  <2> SUFFICES ASSUME Shape, UndoInv, NEW f \in Files, backups[f] <= 1, ~late[f]
               PROVE  wanted[f] \subseteq Stored(f)
    BY DEF FirstApplyUndoable
  <2>1. backups[f] = 0 \/ backups[f] = 1
    BY DEF Shape
  <2> QED BY <2>1 DEF UndoInv, Undoable, Stored
<1> QED BY <1>1, ShapeInit, ShapeNext, UndoInit, UndoNext, PTL DEF Spec

-----------------------------------------------------------------------------
(* OthersKept: unless applies overlapped, at most one works on a file; what *)
(* it holds, and the copy once it goes on to write, keep what is listed.    *)
Workers(f) == {a \in Busy(f) : step[a] \in Working}

Kept(f) ==
  ~unclean[f] /\ (f = "recall" \/ agent \notin Plugged) =>
    /\ \A a, b \in Workers(f) : a = b
    /\ \A a \in Workers(f) :
         /\ listed[f] \subseteq ListedIn(f, text[a])
         /\ step[a] \in {"open", "fill"} => listed[f] \subseteq ListedIn(f, bak[f])
         /\ step[a] = "fill" => ~mixed[a]
    /\ (\A a \in Workers(f) : step[a] # "fill") => listed[f] \subseteq ListedIn(f, file[f])

KeptInv == \A f \in Files : Kept(f)

LEMMA KeptInit == Init => KeptInv
<1> SUFFICES ASSUME Init, NEW f \in Files PROVE Kept(f)
  BY DEF KeptInv
<1>1. listed[f] = ListedIn(f, file[f]) /\ Workers(f) = {}
  BY DEF Init, Workers, Busy
<1> QED BY <1>1 DEF Kept

(* What an applier does to the workers on a file. *)
LEMMA WorkersMove ==
  ASSUME Shape, Shape', NEW a \in Appliers, NEW g \in Files,
         (\E list \in Lists : Apply(a, list)) \/ Read(a) \/ Backup(a) \/ Open(a) \/ Fill(a) \/ Die(a)
  PROVE  /\ Workers(g)' = Workers(g) \ {a} \/ (Workers(g)' = Workers(g) \cup {a} /\ g = FileOf(a))
         /\ g # FileOf(a) => a \notin Workers(g) /\ Workers(g)' = Workers(g)
         /\ step'[a] \in Working /\ g = FileOf(a) => a \in Workers(g)'
         /\ step'[a] \notin Working => a \notin Workers(g)'
         /\ \A b \in Workers(g)' : b # a => step'[b] = step[b] /\ text'[b] = text[b]
<1>1. \A b \in Appliers \ {a} : step'[b] = step[b] /\ FileOf(b)' = FileOf(b) /\ todo'[b] = todo[b]
  BY OneMoves
<1>2. step'[a] \in Working => FileOf(a)' = FileOf(a)
  <2>1. CASE (\E list \in Lists : Apply(a, list)) \/ Fill(a) \/ Die(a)
    <3>1. step' = [step EXCEPT ![a] = "read"] \/ step' = [step EXCEPT ![a] = "idle"]
      BY <2>1, Filled, Died DEF Apply
    <3> QED BY <3>1 DEF Shape, Working
  <2>2. CASE Backup(a) \/ Open(a)
    BY <2>2 DEF Backup, Open, FileOf
  <2>3. CASE Read(a)
    <3>1. step' = [step EXCEPT ![a] = "idle"] \/ UNCHANGED todo
      BY <2>3 DEF Read
    <3> QED BY <3>1 DEF Shape, Working, FileOf
  <2> QED BY <2>1, <2>2, <2>3
<1>3. \A b \in Appliers \ {a} : text'[b] = text[b]
  <2>1. text' = text \/ \E t : text' = [text EXCEPT ![a] = t]
    BY DEF Apply, Read, Backup, Open, Fill, Die
  <2> QED BY <2>1 DEF Shape
<1>4. \A b \in Appliers : b \in Workers(g) <=> step[b] \in Working /\ FileOf(b) = g
  BY DEF Workers, Busy, Working, FileOf
<1>5. \A b \in Appliers : b \in Workers(g)' <=> step'[b] \in Working /\ FileOf(b)' = g
  BY DEF Workers, Busy, Working, FileOf
<1>6. Workers(g) \subseteq Appliers /\ Workers(g)' \subseteq Appliers
  BY DEF Workers, Busy
<1> QED BY <1>1, <1>2, <1>3, <1>4, <1>5, <1>6

LEMMA KeptStep ==
  ASSUME Shape, Shape', KeptInv, NEW a \in Appliers, NEW g \in Files,
         (\E list \in Lists : Apply(a, list)) \/ Read(a) \/ Backup(a) \/ Open(a) \/ Fill(a) \/ Die(a)
  PROVE  Kept(g)'
<1> SUFFICES ASSUME ~unclean'[g], g = "recall" \/ agent' \notin Plugged PROVE Kept(g)'
  BY DEF Kept
<1> DEFINE f == FileOf(a)
<1>1. UNCHANGED <<agent, listed>>
  BY OneMoves
<1>2. ~unclean[g]
  <2>1. unclean' = unclean \/ \E x : unclean' = [unclean EXCEPT ![f] = @ \/ x]
    BY Filled, Died DEF Apply, Read, Backup, Open, histVars, FileOf
  <2> HIDE DEF f
  <2> QED BY <2>1 DEF Shape
<1>3. /\ \A b, c \in Workers(g) : b = c
      /\ \A b \in Workers(g) :
           /\ listed[g] \subseteq ListedIn(g, text[b])
           /\ step[b] \in {"open", "fill"} => listed[g] \subseteq ListedIn(g, bak[g])
           /\ step[b] = "fill" => ~mixed[b]
      /\ (\A b \in Workers(g) : step[b] # "fill") => listed[g] \subseteq ListedIn(g, file[g])
  BY <1>1, <1>2 DEF KeptInv, Kept
<1>4. a \in Workers(g) => \A b \in Workers(g)' : b = a
  BY <1>3, WorkersMove
<1>5. CASE (\E list \in Lists : Apply(a, list))
  <2>1. step[a] = "idle" /\ step'[a] = "read" /\ UNCHANGED <<file, bak, text, mixed>>
    BY <1>5 DEF Apply, diskVars, Shape
  <2>2. Workers(g)' = Workers(g)
    BY <2>1, WorkersMove DEF Workers, Busy, Working
  <2>3. \A b \in Workers(g)' : step'[b] = step[b]
    BY <2>1, WorkersMove DEF Workers, Working
  <2> QED BY <1>1, <1>3, <2>1, <2>2, <2>3 DEF Kept
<1>6. CASE Read(a)
  <2>1. /\ UNCHANGED <<file, bak, mixed>> /\ step[a] = "read" /\ f \in Files
        /\ step'[a] \in {"idle", "backup"} /\ a \notin Workers(g)
    BY <1>6, Current DEF Read, diskVars, Shape, Workers, Working
  <2>2. CASE step'[a] = "backup" /\ g = f
    <3>1. unclean' = [unclean EXCEPT ![f] = @ \/ Busy(f) # {a}]
          /\ text' = [text EXCEPT ![a] = Merge(f, file[f])]
      BY <1>6, <2>2 DEF Read, FileOf, Shape
    <3>2. Busy(g) = {a}
      <4>1. unclean'[g] = (unclean[g] \/ Busy(f) # {a})
        BY <2>1, <2>2, <3>1 DEF Shape
      <4> QED BY <2>2, <4>1
    <3>3. Workers(g) = {} /\ Workers(g)' = {a}
      <4>1. Workers(g) = {}
        BY <2>1, <3>2 DEF Workers
      <4>2. a \in Workers(g)'
        BY <2>2, WorkersMove DEF Working
      <4> QED BY <4>1, <4>2, WorkersMove
    <3>4. text'[a] = Merge(g, file[g])
      BY <2>2, <3>1 DEF Shape
    <3>5. listed[g] \subseteq ListedIn(g, file[g])
      BY <1>3, <3>3
    <3>6. ListedIn(g, file[g]) \subseteq ListedIn(g, Merge(g, file[g]))
      BY <1>1, MergeShape
    <3> QED BY <1>1, <2>1, <2>2, <3>3, <3>4, <3>5, <3>6 DEF Kept
  <2>3. CASE ~(step'[a] = "backup" /\ g = f)
    <3>1. Workers(g)' = Workers(g)
      BY <2>1, <2>3, WorkersMove DEF Working
    <3>2. \A b \in Workers(g)' : step'[b] = step[b] /\ text'[b] = text[b]
      BY <2>1, <3>1, WorkersMove
    <3> QED BY <1>1, <1>3, <2>1, <3>1, <3>2 DEF Kept
  <2> QED BY <2>2, <2>3
<1>7. CASE Backup(a)
  <2>1. /\ UNCHANGED <<file, text, mixed>> /\ step[a] = "backup" /\ step'[a] = "open" /\ f \in Files
        /\ \/ file[f].form = "absent" /\ UNCHANGED bak
           \/ bak' = [bak EXCEPT ![f] = file[f]]
    BY <1>7, Current DEF Backup, FileOf, Shape
  <2>2. CASE g = f
    <3>1. a \in Workers(g) /\ a \in Workers(g)'
      BY <2>1, <2>2, WorkersMove DEF Workers, Busy, Working, FileOf
    <3>2. listed[g] \subseteq ListedIn(g, file[g])
      BY <1>3, <2>1, <3>1
    <3>3. listed[g] \subseteq ListedIn(g, bak'[g])
      <4>1. CASE file[f].form = "absent" /\ UNCHANGED bak
        BY <2>2, <3>2, <4>1 DEF Shape
      <4>2. CASE bak' = [bak EXCEPT ![f] = file[f]]
        BY <2>2, <3>2, <4>2 DEF Shape
      <4> QED BY <2>1, <4>1, <4>2
    <3> QED BY <1>1, <1>3, <1>4, <2>1, <3>1, <3>2, <3>3 DEF Kept
  <2>3. CASE g # f
    <3>1. bak'[g] = bak[g]
      BY <2>1, <2>3 DEF Shape
    <3>2. Workers(g)' = Workers(g) /\ \A b \in Workers(g)' : step'[b] = step[b]
      BY <2>3, WorkersMove
    <3> QED BY <1>1, <1>3, <2>1, <3>1, <3>2 DEF Kept
  <2> QED BY <2>2, <2>3
<1>8. CASE Open(a)
  <2>1. /\ UNCHANGED <<bak, text>> /\ step[a] = "open" /\ step'[a] = "fill" /\ f \in Files
        /\ file' = [file EXCEPT ![f] = Empty(f, "blank")] /\ mixed' = [mixed EXCEPT ![a] = FALSE]
    BY <1>8, Current DEF Open, FileOf, Shape
  <2>2. CASE g = f
    <3>1. a \in Workers(g) /\ a \in Workers(g)'
      BY <2>1, <2>2, WorkersMove DEF Workers, Busy, Working, FileOf
    <3>2. ~mixed'[a]
      BY <2>1 DEF Shape
    <3> QED BY <1>1, <1>3, <1>4, <2>1, <3>1, <3>2 DEF Kept
  <2>3. CASE g # f
    <3>1. file'[g] = file[g]
      BY <2>1, <2>3 DEF Shape
    <3>2. Workers(g)' = Workers(g) /\ \A b \in Workers(g)' : step'[b] = step[b] /\ b # a
      BY <2>3, WorkersMove
    <3>3. \A b \in Workers(g)' : mixed'[b] = mixed[b]
      BY <2>1, <3>2 DEF Shape, Workers, Busy
    <3> QED BY <1>1, <1>3, <2>1, <3>1, <3>2, <3>3 DEF Kept
  <2> QED BY <2>2, <2>3
<1>9. CASE Fill(a)
  <2>1. /\ UNCHANGED bak /\ step[a] = "fill" /\ f \in Files
        /\ \/ file' = [file EXCEPT ![f] = text[a]]
           \/ mixed[a] /\ file' = [file EXCEPT ![f] = NoConfig("bad")]
        /\ mixed' = [b \in Appliers |-> b # a /\ (mixed[b] \/ (step[b] = "fill" /\ b \in Busy(f)))]
    BY <1>9, Filled
  <2>2. step'[a] \notin Working
    <3>1. step' = [step EXCEPT ![a] = IF Tail(todo[a]) = <<>> THEN "idle" ELSE "read"]
      BY <1>9, Filled
    <3> QED BY <3>1 DEF Shape, Working
  <2>3. CASE g = f
    <3>1. a \in Workers(g) /\ a \notin Workers(g)'
      BY <2>1, <2>2, <2>3, WorkersMove DEF Workers, Busy, Working, FileOf
    <3>2. Workers(g)' = {}
      BY <1>4, <3>1
    <3>3. ~mixed[a] /\ listed[g] \subseteq ListedIn(g, text[a])
      BY <1>3, <2>1, <3>1
    <3>4. file'[g] = text[a]
      BY <2>1, <2>3, <3>3 DEF Shape
    <3> QED BY <1>1, <3>2, <3>3, <3>4 DEF Kept
  <2>4. CASE g # f
    <3>1. file'[g] = file[g]
      BY <2>1, <2>4 DEF Shape
    <3>2. Workers(g)' = Workers(g) /\ a \notin Workers(g)
          /\ \A b \in Workers(g)' : step'[b] = step[b] /\ text'[b] = text[b]
      BY <2>4, WorkersMove
    <3>3. \A b \in Workers(g)' : mixed'[b] = mixed[b]
      <4>1. \A b \in Workers(g) : b \in Appliers /\ b \notin Busy(f) /\ b # a /\ mixed[b] \in BOOLEAN
        BY <2>4, <3>2 DEF Workers, Busy, Shape
      <4> HIDE DEF f
      <4>2. \A b \in Workers(g) : mixed'[b] <=> mixed[b]
        BY <2>1, <4>1
      <4>3. \A b \in Workers(g) : mixed'[b] \in BOOLEAN
        BY <4>1 DEF Shape
      <4> QED BY <3>2, <4>1, <4>2, <4>3
    <3> QED BY <1>1, <1>3, <2>1, <3>1, <3>2, <3>3 DEF Kept
  <2> QED BY <2>3, <2>4
<1>10. CASE Die(a)
  <2>1. /\ UNCHANGED file /\ step[a] # "idle" /\ f \in Files
        /\ \/ UNCHANGED bak
           \/ step[a] = "backup" /\ bak' = [bak EXCEPT ![f] = Empty(f, "blank")]
        /\ mixed' = [mixed EXCEPT ![a] = FALSE]
    BY <1>10, Died
  <2>2. step'[a] \notin Working
    <3>1. step' = [step EXCEPT ![a] = "idle"]
      BY <1>10, Died
    <3> QED BY <3>1 DEF Shape, Working
  <2>3. Workers(g)' = Workers(g) \ {a} /\ a \notin Workers(g)'
        /\ \A b \in Workers(g)' : step'[b] = step[b] /\ text'[b] = text[b]
    BY <2>2, WorkersMove
  <2>4. \A b \in Workers(g)' : mixed'[b] = mixed[b]
    BY <2>1, <2>3 DEF Shape, Workers, Busy
  <2>5. CASE a \in Workers(g)
    <3>1. g = f /\ Workers(g)' = {}
      BY <1>4, <2>3, <2>5 DEF Workers, Busy, FileOf
    <3>2. step[a] # "fill"
      <4>1. unclean' = [unclean EXCEPT ![f] = @ \/ step[a] = "fill"]
        BY <1>10, Died
      <4>2. unclean'[g] = (unclean[g] \/ step[a] = "fill")
        BY <2>1, <3>1, <4>1 DEF Shape
      <4> QED BY <4>2
    <3>3. listed[g] \subseteq ListedIn(g, file[g])
      BY <1>3, <2>5, <3>2
    <3> QED BY <1>1, <2>1, <3>1, <3>3 DEF Kept
  <2>6. CASE a \notin Workers(g)
    <3>1. bak'[g] = bak[g]
      <4>1. step[a] = "backup" => g # f
        BY <2>1, <2>6 DEF Workers, Busy, Working, FileOf
      <4> QED BY <2>1, <4>1 DEF Shape
    <3> QED BY <1>1, <1>3, <2>1, <2>3, <2>4, <2>6, <3>1 DEF Kept
  <2> QED BY <2>5, <2>6
<1> QED BY <1>5, <1>6, <1>7, <1>8, <1>9, <1>10

LEMMA KeptSave ==
  ASSUME Shape, Shape', KeptInv, NEW f \in Files, NEW g \in Files, NEW c,
         IF f = "hooks" THEN c \in Configs[agent] ELSE c \in Notes, Save(f, c)
  PROVE  Kept(g)'
<1> SUFFICES ASSUME ~unclean'[g], g = "recall" \/ agent' \notin Plugged PROVE Kept(g)'
  BY DEF Kept
<1>1. UNCHANGED <<agent, bak, todo, step, text>>
  BY Saved
<1>2. Workers(g)' = Workers(g) /\ Workers(g) \subseteq Busy(g)
  BY <1>1 DEF Workers, Busy
<1>3. CASE g # f
  <2>1. file'[g] = file[g] /\ listed'[g] = listed[g] /\ unclean'[g] = unclean[g]
    <3>1. /\ file' = [file EXCEPT ![f] = c] /\ listed' = [listed EXCEPT ![f] = ListedIn(f, c)]
          /\ unclean' = [unclean EXCEPT ![f] = Busy(f) # {}]
      BY Saved
    <3> QED BY <1>3, <3>1 DEF Shape
  <2>2. \A b \in Workers(g) : ~mixed[b] => ~mixed'[b]
    <3>1. mixed' = [b \in Appliers |-> mixed[b] \/ (step[b] = "fill" /\ b \in Busy(f))]
      BY Saved
    <3>2. \A b \in Workers(g) : b \in Appliers /\ b \notin Busy(f)
      BY <1>3 DEF Workers, Busy
    <3> QED BY <3>1, <3>2
  <2> QED BY <1>1, <1>2, <2>1, <2>2 DEF KeptInv, Kept
<1>4. CASE g = f
  <2>1. /\ file' = [file EXCEPT ![g] = c] /\ listed' = [listed EXCEPT ![g] = ListedIn(g, c)]
        /\ unclean' = [unclean EXCEPT ![g] = Busy(g) # {}]
    BY <1>4, Saved
  <2>2. file'[g] = c /\ listed'[g] = ListedIn(g, c) /\ Busy(g) = {}
    BY <2>1 DEF Shape
  <2> QED BY <1>2, <2>2 DEF Kept
<1> QED BY <1>3, <1>4

LEMMA KeptNext == Shape /\ Shape' /\ KeptInv /\ [Next]_vars => KeptInv'
<1> SUFFICES ASSUME Shape, Shape', KeptInv, [Next]_vars, NEW g \in Files PROVE Kept(g)'
  BY DEF KeptInv
<1>1. CASE UNCHANGED vars
  <2>1. Workers(g)' = Workers(g)
    BY <1>1 DEF vars, diskVars, applyVars, Workers, Busy
  <2> QED BY <1>1, <2>1 DEF vars, diskVars, applyVars, histVars, KeptInv, Kept
<1>2. ASSUME NEW c \in Configs[agent], Save("hooks", c) PROVE Kept(g)'
  BY <1>2, KeptSave DEF Files
<1>3. ASSUME NEW n \in Notes, Save("recall", n) PROVE Kept(g)'
  BY <1>3, KeptSave DEF Files
<1> QED BY <1>1, <1>2, <1>3, KeptStep DEF Next

LEMMA ListedAreParts ==
  ASSUME NEW f, NEW c PROVE ListedIn(f, c) \subseteq PartsIn(f, c)
BY DEF ListedIn, PartsIn

(***************************************************************************)
(* Any number of applies one after the other keep the hooks of others in   *)
(* the lists and the user's text: in the file, or in the copy while the    *)
(* file is being written.                                                  *)
(***************************************************************************)
THEOREM OthersAreKept == Spec => []OthersKept
<1>1. Shape /\ KeptInv => OthersKept
  <2> SUFFICES ASSUME Shape, KeptInv, NEW f \in Files, ~unclean[f],
                      f = "recall" \/ agent \notin Plugged
               PROVE  listed[f] \subseteq PartsIn(f, IF \E a \in Busy(f) : step[a] = "fill"
                                                   THEN bak[f] ELSE file[f])
    BY DEF OthersKept
  <2>1. CASE \E a \in Busy(f) : step[a] = "fill"
    <3>1. PICK a \in Workers(f) : step[a] = "fill"
      BY <2>1 DEF Workers, Working
    <3>2. listed[f] \subseteq ListedIn(f, bak[f])
      BY <3>1 DEF KeptInv, Kept
    <3> QED BY <2>1, <3>2, ListedAreParts
  <2>2. CASE ~\E a \in Busy(f) : step[a] = "fill"
    <3>1. listed[f] \subseteq ListedIn(f, file[f])
      BY <2>2 DEF KeptInv, Kept, Workers
    <3> QED BY <2>2, <3>1, ListedAreParts
  <2> QED BY <2>1, <2>2
<1> QED BY <1>1, ShapeInit, ShapeNext, KeptInit, KeptNext, PTL DEF Spec

-----------------------------------------------------------------------------
(* ConfiguredByApply: what an applier holds is configured, and so is a file *)
(* that an apply was the last to write.                                    *)
Right(f, c) ==
  /\ f = "hooks" => c.form = "config" /\ (cmd = "rmb" \/ agent \in Plugged => HookConfigured(c))
  /\ f = "recall" => agent # "cursor" /\ HasRecallBlock(c)

Shown(f) ==
  /\ fresh[f] => Right(f, file[f])
  /\ \A a \in Workers(f) : Right(f, text[a])

ShownInv == \A f \in Files : Shown(f)

LEMMA ShownInit == Init => ShownInv
BY DEF Init, ShownInv, Shown, Workers, Busy

LEMMA RightSame ==
  ASSUME NEW f, NEW c, UNCHANGED <<agent, cmd>>
  PROVE  Right(f, c)' <=> Right(f, c)
BY DEF Right, HookConfigured, StopConfigured, WorkBuddyConfigured, CursorConfigured,
       CodexConfigured, ZCodeConfigured, OpenCodeConfigured, PiConfigured, HasRecallBlock

LEMMA ShownStep ==
  ASSUME Shape, Shape', ShownInv, NEW a \in Appliers, NEW g \in Files,
         (\E list \in Lists : Apply(a, list)) \/ Read(a) \/ Backup(a) \/ Open(a) \/ Fill(a) \/ Die(a)
  PROVE  Shown(g)'
<1> DEFINE f == FileOf(a)
<1>1. UNCHANGED <<agent, cmd>>
  BY OneMoves
<1>2. \A b \in Workers(g)' : b # a => b \in Workers(g) /\ text'[b] = text[b]
  BY WorkersMove
<1>3. \A b \in Workers(g)' : Right(g, text'[b])
  <2> SUFFICES ASSUME NEW b \in Workers(g)', b = a PROVE Right(g, text'[a])
    BY <1>2 DEF ShownInv, Shown
  <2>1. step'[a] \in Working /\ FileOf(a)' = g
    BY DEF Workers, Busy, FileOf
  <2>2. CASE (\E list \in Lists : Apply(a, list)) \/ Fill(a) \/ Die(a)
    <3>1. step' = [step EXCEPT ![a] = "read"] \/ step' = [step EXCEPT ![a] = "idle"]
      BY <2>2, Filled, Died DEF Apply
    <3> QED BY <2>1, <3>1 DEF Shape, Working
  <2>3. CASE Backup(a) \/ Open(a)
    <3>1. UNCHANGED <<todo, text>> /\ step[a] \in {"backup", "open"}
      BY <2>3 DEF Backup, Open
    <3>2. a \in Workers(g)
      BY <2>1, <3>1 DEF Workers, Busy, Working, FileOf
    <3> QED BY <3>1, <3>2 DEF ShownInv, Shown
  <2>4. CASE Read(a)
    <3>1. /\ UNCHANGED todo /\ f \in Writable /\ text' = [text EXCEPT ![a] = Merge(f, file[f])]
      <4>1. step' # [step EXCEPT ![a] = "idle"]
        BY <2>1 DEF Shape, Working
      <4> QED BY <2>4, <4>1 DEF Read, FileOf
    <3>2. f = g /\ text'[a] = Merge(g, file[g])
      BY <2>1, <3>1 DEF FileOf, Shape
    <3>3. Right(g, Merge(g, file[g]))
      BY <3>1, <3>2, MergeShape DEF Right, Writable, Files
    <3> QED BY <3>2, <3>3
  <2> QED BY <2>2, <2>3, <2>4
<1>4. fresh'[g] => Right(g, file'[g])
  <2>1. CASE (\E list \in Lists : Apply(a, list)) \/ Read(a) \/ Backup(a) \/ Die(a)
    <3>1. UNCHANGED <<file, fresh>>
      BY <2>1, Died DEF Apply, Read, Backup, diskVars, histVars
    <3> QED BY <3>1 DEF ShownInv, Shown
  <2>2. CASE Open(a)
    <3>1. /\ file' = [file EXCEPT ![f] = Empty(f, "blank")] /\ fresh' = [fresh EXCEPT ![f] = FALSE]
      BY <2>2 DEF Open, FileOf
    <3>2. DOMAIN file = Files /\ DOMAIN fresh = Files
      BY DEF Shape
    <3> HIDE DEF f
    <3>3. (g = f => ~fresh'[g]) /\ (g # f => file'[g] = file[g] /\ fresh'[g] = fresh[g])
      BY <3>1, <3>2
    <3> QED BY <3>3 DEF ShownInv, Shown
  <2>3. CASE Fill(a)
    <3>1. /\ \/ file' = [file EXCEPT ![f] = text[a]] /\ fresh' = [fresh EXCEPT ![f] = TRUE]
             \/ /\ file' = [file EXCEPT ![f] = NoConfig("bad")]
                /\ fresh' = [fresh EXCEPT ![f] = FALSE]
          /\ step[a] = "fill"
      BY <2>3, Filled
    <3>2. DOMAIN file = Files /\ DOMAIN fresh = Files
      BY DEF Shape
    <3>3. g = f => Right(g, text[a])
      BY <3>1 DEF ShownInv, Shown, Workers, Busy, Working, FileOf
    <3> HIDE DEF f
    <3>4. g = f => ~fresh'[g] \/ file'[g] = text[a]
      BY <3>1, <3>2
    <3>5. g # f => file'[g] = file[g] /\ fresh'[g] = fresh[g]
      BY <3>1, <3>2
    <3> QED BY <3>3, <3>4, <3>5 DEF ShownInv, Shown
  <2> QED BY <2>1, <2>2, <2>3
<1>5. /\ \A b \in Workers(g)' : Right(g, text[b])'
      /\ fresh'[g] => Right(g, file[g])'
  BY <1>1, <1>3, <1>4, RightSame
<1> QED BY <1>5 DEF Shown

LEMMA ShownSave ==
  ASSUME Shape, Shape', ShownInv, NEW f \in Files, NEW g \in Files, NEW c,
         IF f = "hooks" THEN c \in Configs[agent] ELSE c \in Notes, Save(f, c)
  PROVE  Shown(g)'
<1>1. UNCHANGED <<agent, cmd, bak, todo, step, text>>
  BY Saved DEF Save
<1>2. Workers(g)' = Workers(g)
  BY <1>1 DEF Workers, Busy
<1>3. (g = f => ~fresh'[g]) /\ (g # f => file'[g] = file[g] /\ fresh'[g] = fresh[g])
  <2>1. file' = [file EXCEPT ![f] = c] /\ fresh' = [fresh EXCEPT ![f] = FALSE]
    BY Saved
  <2> QED BY <2>1 DEF Shape
<1>4. /\ \A b \in Workers(g) : Right(g, text'[b])
      /\ fresh'[g] => Right(g, file'[g])
  BY <1>1, <1>3 DEF ShownInv, Shown
<1>5. /\ \A b \in Workers(g)' : Right(g, text[b])'
      /\ fresh'[g] => Right(g, file[g])'
  BY <1>1, <1>2, <1>4, RightSame
<1> QED BY <1>5 DEF Shown

LEMMA ShownNext == Shape /\ Shape' /\ ShownInv /\ [Next]_vars => ShownInv'
<1> SUFFICES ASSUME Shape, Shape', ShownInv, [Next]_vars, NEW g \in Files PROVE Shown(g)'
  BY DEF ShownInv
<1>1. CASE UNCHANGED vars
  <2>1. Workers(g)' = Workers(g) /\ UNCHANGED <<agent, cmd, file, text, fresh>>
    BY <1>1 DEF vars, diskVars, applyVars, histVars, Workers, Busy
  <2>2. /\ \A b \in Workers(g)' : Right(g, text[b])'
        /\ fresh'[g] => Right(g, file[g])'
    BY <2>1, RightSame DEF ShownInv, Shown
  <2> QED BY <2>2 DEF Shown
<1>2. ASSUME NEW c \in Configs[agent], Save("hooks", c) PROVE Shown(g)'
  BY <1>2, ShownSave DEF Files
<1>3. ASSUME NEW n \in Notes, Save("recall", n) PROVE Shown(g)'
  BY <1>3, ShownSave DEF Files
<1> QED BY <1>1, <1>2, <1>3, ShownStep DEF Next

(***************************************************************************)
(* A file that an apply was the last to write is shown as configured,      *)
(* whatever the user's file held, and whichever applies overlapped or died. *)
(***************************************************************************)
THEOREM AppliedIsConfigured == Spec => []ConfiguredByApply
<1>1. Shape /\ ShownInv => ConfiguredByApply
  <2> SUFFICES ASSUME Shape, ShownInv, NEW f \in Files, fresh[f],
                      f = "recall" \/ cmd = "rmb" \/ agent \in Plugged,
                      f = "recall" => file["hooks"].form # "bad"
               PROVE  Status(f) = "configured"
    BY DEF ConfiguredByApply
  <2>1. Right(f, file[f])
    BY DEF ShownInv, Shown
  <2>2. CASE f = "hooks"
    <3>1. file["hooks"].form # "bad"
      BY <2>1, <2>2 DEF Right
    <3> QED BY <2>1, <2>2, <3>1 DEF Right, Status
  <2>3. CASE f = "recall"
    BY <2>1, <2>3 DEF Right, Status
  <2> QED BY <2>2, <2>3 DEF Files
<1> QED BY <1>1, ShapeInit, ShapeNext, ShownInit, ShownNext, PTL DEF Spec

-----------------------------------------------------------------------------
(* NeverDoubled: how many places a list has for hooks of rmb, and that no   *)
(* merge makes one more, but the first.                                    *)
At(gs, i) == IF gs[i] = <<>> THEN {1} ELSE {j \in DOMAIN gs[i] : gs[i][j] = "rmb"}

LEMMA PlacesAt == ASSUME NEW gs PROVE Places(gs) = UNION {{i} \X At(gs, i) : i \in DOMAIN gs}
BY DEF Places, At

LEMMA PlacesFinite == ASSUME NEW gs \in Groups PROVE IsFiniteSet(Places(gs))
<1> DEFINE X == [i \in DOMAIN gs |-> {i} \X At(gs, i)]
           XS == {{i} \X At(gs, i) : i \in DOMAIN gs}
<1>1. Len(gs) \in Nat /\ DOMAIN gs = 1..Len(gs)
  BY DEF Groups
<1>2. IsFiniteSet(DOMAIN gs)
  BY <1>1, FS_Interval
<1>3. X \in Surjection(DOMAIN gs, XS)
  BY DEF Surjection
<1>4. IsFiniteSet(XS)
  <2> HIDE DEF X, XS
  <2> QED BY <1>2, <1>3, FS_Surjection
<1>5. ASSUME NEW i \in DOMAIN gs PROVE IsFiniteSet({i} \X At(gs, i))
  <2>1. IsFiniteSet(At(gs, i))
    <3>1. CASE gs[i] = <<>>
      BY <3>1, FS_Singleton DEF At
    <3>2. CASE gs[i] # <<>>
      <4>1. gs[i] \in Seq(Parts \cup Commands)
        BY DEF Groups
      <4>2. Len(gs[i]) \in Nat /\ DOMAIN gs[i] = 1..Len(gs[i])
        BY <4>1
      <4>3. IsFiniteSet(DOMAIN gs[i])
        BY <4>2, FS_Interval
      <4>4. At(gs, i) \in SUBSET DOMAIN gs[i]
        BY <3>2 DEF At
      <4> QED BY <4>3, <4>4, FS_Subset
    <3> QED BY <3>1, <3>2
  <2>2. IsFiniteSet({i})
    BY FS_Singleton
  <2> QED BY <2>1, <2>2, FS_Product
<1>6. IsFiniteSet(UNION XS)
  <2>1. \A T \in XS : IsFiniteSet(T)
    BY <1>5
  <2> HIDE DEF XS
  <2> QED BY <1>4, <2>1, FS_UNION
<1> QED BY <1>6, PlacesAt

LEMMA HooksInPlaces ==
  ASSUME NEW gs \in Groups
  PROVE  /\ IsFiniteSet(RMBHooks(gs)) /\ Cardinality(RMBHooks(gs)) \in Nat
         /\ Cardinality(Places(gs)) \in Nat
         /\ Cardinality(RMBHooks(gs)) <= Cardinality(Places(gs))
<1>1. RMBHooks(gs) \subseteq Places(gs)
  <2> SUFFICES ASSUME NEW p \in RMBHooks(gs) PROVE p \in Places(gs)
    OBVIOUS
  <2>1. PICK i \in DOMAIN gs : p \in {i} \X {j \in DOMAIN gs[i] : gs[i][j] = "rmb"}
    BY DEF RMBHooks
  <2>2. gs[i] # <<>>
    BY <2>1
  <2> QED BY <2>1, <2>2 DEF Places
<1>2. IsFiniteSet(Places(gs)) /\ IsFiniteSet(RMBHooks(gs))
  BY <1>1, PlacesFinite, FS_Subset
<1> QED BY <1>1, <1>2, FS_Subset, FS_CardinalityType

LEMMA NoPlaces ==
  /\ Places(<<>>) = {} /\ RMBHooks(<<>>) = {}
  /\ Cardinality(Places(<<>>)) = 0 /\ Cardinality(RMBHooks(<<>>)) = 0
<1>1. Places(<<>>) = {} /\ RMBHooks(<<>>) = {}
  BY DEF Places, RMBHooks
<1> QED BY <1>1, FS_EmptySet

(* What a group of one hook at the end adds. *)
LEMMA OnePlace ==
  ASSUME NEW gs \in Groups, NEW h \in Commands
  PROVE  /\ Places(gs) = {} => Cardinality(Places(gs \o << <<h>> >>)) <= 1
         /\ RMBHooks(gs) = {} => Cardinality(RMBHooks(gs \o << <<h>> >>)) <= 1
<1> DEFINE S == Seq(Parts \cup Commands)
           one == << <<h>> >>
           ns == gs \o one
           n == Len(gs) + 1
<1>1. gs \in Seq(S) /\ one \in Seq(S) /\ Groups = Seq(S)
  BY DEF Groups
<1>2. ns \in Groups
  <2> HIDE DEF S, one
  <2>1. gs \o one \in Seq(S)
    BY <1>1
  <2> QED BY <1>1, <2>1
<1>3. /\ DOMAIN ns = 1..n /\ DOMAIN gs = 1..Len(gs) /\ Len(gs) \in Nat
      /\ \A i \in DOMAIN gs : ns[i] = gs[i]
      /\ ns[n] = <<h>>
  <2>1. Len(one) = 1 /\ one[1] = <<h>>
    OBVIOUS
  <2> HIDE DEF S, one
  <2>2. DOMAIN gs = 1..Len(gs) /\ Len(gs) \in Nat /\ Len(one) \in Nat /\ DOMAIN one = 1..Len(one)
    BY <1>1
  <2>3. DOMAIN ns = 1..(Len(gs) + Len(one)) /\ \A i \in 1..Len(gs) : ns[i] = gs[i]
    BY <1>1
  <2>4. \A i \in (Len(gs) + 1)..(Len(gs) + Len(one)) : ns[i] = one[i - Len(gs)]
    BY <1>1
  <2>5. ns[n] = one[1]
    BY <2>1, <2>2, <2>4
  <2> QED BY <2>1, <2>2, <2>3, <2>5
<1> HIDE DEF ns, n
<1>4. ASSUME NEW i \in DOMAIN ns PROVE i \in DOMAIN gs \/ i = n
  BY <1>3 DEF n
<1>5. \A j \in DOMAIN <<h>> : j = 1
  OBVIOUS
<1>6. <<h>> # <<>>
  OBVIOUS
<1>7. ASSUME Places(gs) = {} PROVE Places(ns) \subseteq {<<n, 1>>}
  <2> SUFFICES ASSUME NEW p \in Places(ns) PROVE p = <<n, 1>>
    OBVIOUS
  <2>1. PICK i \in DOMAIN ns : p \in {i} \X At(ns, i)
    BY PlacesAt
  <2>2. i \notin DOMAIN gs
    <3> SUFFICES ASSUME i \in DOMAIN gs PROVE FALSE
      OBVIOUS
    <3>1. At(ns, i) = At(gs, i)
      BY <1>3 DEF At
    <3>2. p \in Places(gs)
      BY <2>1, <3>1, PlacesAt
    <3> QED BY <1>7, <3>2
  <2>3. i = n /\ ns[i] = <<h>>
    BY <1>3, <1>4, <2>2
  <2>4. At(ns, i) \subseteq {1}
    BY <1>5, <1>6, <2>3 DEF At
  <2> QED BY <2>1, <2>3, <2>4
<1>8. ASSUME RMBHooks(gs) = {} PROVE RMBHooks(ns) \subseteq {<<n, 1>>}
  <2> SUFFICES ASSUME NEW p \in RMBHooks(ns) PROVE p = <<n, 1>>
    OBVIOUS
  <2>1. PICK i \in DOMAIN ns : p \in {i} \X {j \in DOMAIN ns[i] : ns[i][j] = "rmb"}
    BY DEF RMBHooks
  <2>2. i \notin DOMAIN gs
    <3> SUFFICES ASSUME i \in DOMAIN gs PROVE FALSE
      OBVIOUS
    <3>1. p \in RMBHooks(gs)
      BY <1>3, <2>1 DEF RMBHooks
    <3> QED BY <1>8, <3>1
  <2>3. i = n /\ ns[i] = <<h>>
    BY <1>3, <1>4, <2>2
  <2> QED BY <1>5, <2>1, <2>3
<1>9. IsFiniteSet({<<n, 1>>}) /\ Cardinality({<<n, 1>>}) = 1
  BY FS_Singleton
<1>10. (Places(gs) = {} => Cardinality(Places(ns)) <= 1)
       /\ (RMBHooks(gs) = {} => Cardinality(RMBHooks(ns)) <= 1)
  BY <1>7, <1>8, <1>9, FS_Subset
<1> QED BY <1>10 DEF ns

(* The rmb hook that Merged puts in an empty group takes the place it had. *)
LEMMA MergedPlaces ==
  ASSUME NEW gs \in Groups, cmd = "rmb"
  PROVE  \/ Cardinality(Places(Merged(gs))) = Cardinality(Places(gs))
         \/ Cardinality(Places(Merged(gs))) <= 1
<1> DEFINE filled == [i \in DOMAIN gs |-> IF gs[i] = <<>> THEN <<cmd>> ELSE gs[i]]
           none == ~(<<>> \in ToSet(gs) \/ "rmb" \in HooksIn(gs))
           S == Seq(Parts \cup Commands)
<1>1. gs \in Seq(S) /\ <<cmd>> \in S
  BY DEF Groups, Commands
<1>2. filled \in Groups /\ DOMAIN filled = DOMAIN gs
  <2>1. gs \in [1..Len(gs) -> S] /\ Len(gs) \in Nat /\ DOMAIN gs = 1..Len(gs)
    BY <1>1
  <2>2. filled \in [1..Len(gs) -> S]
    BY <1>1, <2>1
  <2> QED BY <2>1, <2>2 DEF Groups
<1>3. Places(filled) = Places(gs)
  <2>1. ASSUME NEW i \in DOMAIN gs PROVE At(filled, i) = At(gs, i)
    <3>1. CASE gs[i] = <<>>
      <4>1. filled[i] = <<"rmb">> /\ <<"rmb">> # <<>>
        BY <3>1
      <4>2. {j \in DOMAIN <<"rmb">> : <<"rmb">>[j] = "rmb"} = {1}
        OBVIOUS
      <4> QED BY <3>1, <4>1, <4>2 DEF At
    <3>2. CASE gs[i] # <<>>
      <4>1. filled[i] = gs[i]
        BY <3>2
      <4> QED BY <4>1 DEF At
    <3> QED BY <3>1, <3>2
  <2> HIDE DEF filled
  <2> QED BY <1>2, <2>1, PlacesAt
<1>4. CASE ~none
  <2>1. Merged(gs) = filled \o <<>>
    BY <1>4 DEF Merged
  <2>2. filled \o <<>> = filled
    <3> HIDE DEF filled
    <3> QED BY <1>2 DEF Groups
  <2> QED BY <1>3, <2>1, <2>2
<1>5. CASE none
  <2>1. Merged(gs) = filled \o << <<cmd>> >>
    BY <1>5 DEF Merged
  <2>2. Places(gs) = {}
    <3> SUFFICES ASSUME NEW p \in Places(gs) PROVE FALSE
      OBVIOUS
    <3>1. PICK i \in DOMAIN gs : p \in {i} \X At(gs, i)
      BY PlacesAt
    <3>2. gs[i] # <<>>
      BY <1>5 DEF ToSet
    <3>3. \E j \in DOMAIN gs[i] : gs[i][j] = "rmb"
      BY <3>1, <3>2 DEF At
    <3> QED BY <1>5, <3>3, InHooks
  <2> HIDE DEF filled
  <2> QED BY <1>2, <1>3, <2>1, <2>2, OnePlace DEF Commands
<1> QED BY <1>4, <1>5

(* What a list of the hook file, or of a text under way, may hold. *)
Most == IF slots = 0 THEN 1 ELSE slots

(* The places of a list where rmb is or will be put (cursor: where it is). *)
Fits(gs) ==
  IF agent = "cursor" THEN Cardinality(RMBHooks(gs)) <= Most
  ELSE Cardinality(Places(gs)) <= Most

FitsConfig(c) == Fits(c.stop) /\ Fits(c.prompt) /\ Fits(c.legacy)

(* So they do in the file and in every text on its way to it. *)
FitsInv ==
  cmd = "rmb" => FitsConfig(file["hooks"]) /\ \A a \in Workers("hooks") : FitsConfig(text[a])

LEMMA EmptyFits == ASSUME slots \in Nat PROVE Fits(<<>>)
BY NoPlaces DEF Fits, Most

LEMMA OneFits == ASSUME slots \in Nat, NEW h \in Commands PROVE Fits(<< <<h>> >>)
<1>1. <<>> \in Groups /\ <<>> \o << <<h>> >> = << <<h>> >>
  BY DEF Groups
<1>2. Cardinality(Places(<< <<h>> >>)) <= 1 /\ Cardinality(RMBHooks(<< <<h>> >>)) <= 1
  BY <1>1, NoPlaces, OnePlace
<1>3. << <<h>> >> \in Groups
  BY DEF Groups
<1>4. Cardinality(Places(<< <<h>> >>)) \in Nat /\ Cardinality(RMBHooks(<< <<h>> >>)) \in Nat
  BY <1>3, HooksInPlaces
<1> QED BY <1>2, <1>4 DEF Fits, Most

LEMMA MergedFits ==
  ASSUME slots \in Nat, cmd = "rmb", agent # "cursor", NEW gs \in Groups, Fits(gs)
  PROVE  Fits(Merged(gs))
<1>1. Merged(gs) \in Groups
  BY MergedLists DEF Commands
<1>2. Cardinality(Places(Merged(gs))) \in Nat /\ Cardinality(Places(gs)) \in Nat
  BY <1>1, HooksInPlaces
<1> QED BY <1>2, MergedPlaces DEF Fits, Most

LEMMA FlatFits ==
  ASSUME slots \in Nat, cmd = "rmb", agent = "cursor", NEW gs \in Groups, Fits(gs)
  PROVE  Fits(gs \o IF "rmb" \in HooksIn(gs) THEN <<>> ELSE << <<cmd>> >>)
<1>1. CASE "rmb" \in HooksIn(gs)
  <2>1. gs \o <<>> = gs
    BY DEF Groups
  <2> QED BY <1>1, <2>1
<1>2. CASE "rmb" \notin HooksIn(gs)
  <2>1. RMBHooks(gs) = {}
    BY <1>2, InHooks DEF RMBHooks
  <2>2. Cardinality(RMBHooks(gs \o << <<cmd>> >>)) <= 1
    BY <2>1, OnePlace DEF Commands
  <2>3. gs \o << <<cmd>> >> \in Groups
    BY <1>2, FlatList DEF Commands
  <2>4. Cardinality(RMBHooks(gs \o << <<cmd>> >>)) \in Nat
    BY <2>3, HooksInPlaces
  <2> QED BY <1>2, <2>2, <2>4 DEF Fits, Most
<1> QED BY <1>1, <1>2

LEMMA MergeFits ==
  ASSUME agent \in AllAgents, cmd = "rmb", slots \in Nat, NEW c \in Config, FitsConfig(c)
  PROVE  FitsConfig(MergeHooks(c))
<1> DEFINE d == MergeHooks(c)
<1>1. /\ c.stop \in Groups /\ c.prompt \in Groups /\ c.legacy \in Groups
      /\ Fits(c.stop) /\ Fits(c.prompt) /\ Fits(c.legacy)
  BY DEF Config, FitsConfig
<1>7. /\ Normalized(c.stop) = Merged(c.stop) /\ Normalized(c.prompt) = Merged(c.prompt)
  BY <1>1, NormalizedLists DEF Commands
<1>2. CASE agent \in {"claude", "workbuddy"}
  <2>1. d = [c EXCEPT !.form = "config", !.odd = {}, !.stop = Merged(c.stop)]
    BY <1>2, <1>7 DEF MergeHooks, MergeClaude, MergeWorkBuddy
  <2>2. d.stop = Merged(c.stop) /\ d.prompt = c.prompt /\ d.legacy = c.legacy
    BY <2>1 DEF Config
  <2> HIDE DEF d
  <2>3. FitsConfig(d)
    BY <1>1, <1>2, <2>2, MergedFits DEF FitsConfig
  <2> QED BY <2>3 DEF d
<1>3. CASE agent = "cursor"
  <2> DEFINE ns == c.stop \o IF "rmb" \in HooksIn(c.stop) THEN <<>> ELSE << <<cmd>> >>
  <2>1. d = [c EXCEPT !.form = "config", !.odd = {}, !.stop = ns]
    BY <1>3 DEF MergeHooks, MergeCursor
  <2>2. Fits(ns)
    BY <1>1, <1>3, FlatFits
  <2> HIDE DEF ns
  <2>3. d.stop = ns /\ d.prompt = c.prompt /\ d.legacy = c.legacy
    BY <2>1 DEF Config
  <2> HIDE DEF d
  <2>4. FitsConfig(d)
    BY <1>1, <2>2, <2>3 DEF FitsConfig
  <2> QED BY <2>4 DEF d
<1>4. CASE agent = "codex"
  <2> DEFINE list == IF c.stop = <<>> THEN c.legacy ELSE c.stop
  <2>1. d = [c EXCEPT !.form = "config", !.odd = {}, !.legacy = <<>>, !.bare = FALSE,
                      !.stop = Merged(list)]
    BY <1>4 DEF MergeHooks, MergeCodex
  <2>2. list \in Groups /\ Fits(list)
    BY <1>1
  <2> HIDE DEF list
  <2>3. d.stop = Merged(list) /\ d.prompt = c.prompt /\ d.legacy = <<>>
    BY <2>1 DEF Config
  <2> HIDE DEF d
  <2>4. FitsConfig(d)
    BY <1>1, <1>4, <2>2, <2>3, EmptyFits, MergedFits DEF FitsConfig
  <2> QED BY <2>4 DEF d
<1>5. CASE agent = "zcode"
  <2>1. d = [c EXCEPT !.form = "config", !.odd = {}, !.on = TRUE,
                      !.stop = Merged(c.stop), !.prompt = Merged(c.prompt)]
    BY <1>5, <1>7 DEF MergeHooks, MergeZCode
  <2>2. d.stop = Merged(c.stop) /\ d.prompt = Merged(c.prompt) /\ d.legacy = c.legacy
    BY <2>1 DEF Config
  <2> HIDE DEF d
  <2>3. FitsConfig(d)
    BY <1>1, <1>5, <2>2, MergedFits DEF FitsConfig
  <2> QED BY <2>3 DEF d
<1>6. CASE agent \in Plugged
  <2>1. d = [NoConfig("config") EXCEPT !.stop = << <<"rmb">> >>]
    BY <1>6 DEF MergeHooks, OpenCodePlugin, PiExtension, Plugged
  <2>2. d.stop = << <<"rmb">> >> /\ d.prompt = <<>> /\ d.legacy = <<>>
    BY <2>1 DEF NoConfig
  <2> HIDE DEF d
  <2>3. FitsConfig(d)
    BY <2>2, EmptyFits, OneFits DEF FitsConfig, Commands
  <2> QED BY <2>3 DEF d
<1> QED BY <1>2, <1>3, <1>4, <1>5, <1>6 DEF AllAgents, Plugged

LEMMA NoConfigFits ==
  ASSUME slots \in Nat, NEW form PROVE FitsConfig(NoConfig(form))
BY EmptyFits DEF FitsConfig, NoConfig

(* The slots of a saved file, and those there were. *)
LEMMA MaxOf ==
  ASSUME NEW m \in Nat, NEW n \in Nat, NEW k \in Nat, NEW l \in Nat
  PROVE  /\ Max({m, n, k, l}) \in Nat /\ m <= Max({m, n, k, l}) /\ n <= Max({m, n, k, l})
         /\ k <= Max({m, n, k, l}) /\ l <= Max({m, n, k, l})
<1>1. \E x \in {m, n, k, l} : \A y \in {m, n, k, l} : x >= y
  OBVIOUS
<1>2. Max({m, n, k, l}) \in {m, n, k, l} /\ \A y \in {m, n, k, l} : Max({m, n, k, l}) >= y
  BY <1>1 DEF Max
<1> QED BY <1>2

LEMMA SlotsOf ==
  ASSUME NEW c \in Config, NEW m \in Nat
  PROVE  LET n == Max({m} \cup Slots(c)) IN
         /\ n \in Nat /\ m <= n
         /\ \A gs \in {c.stop, c.prompt, c.legacy} : gs \in Groups /\ Cardinality(Places(gs)) <= n
<1> DEFINE P(gs) == Cardinality(Places(gs))
<1>1. c.stop \in Groups /\ c.prompt \in Groups /\ c.legacy \in Groups
  BY DEF Config
<1>2. P(c.stop) \in Nat /\ P(c.prompt) \in Nat /\ P(c.legacy) \in Nat
  BY <1>1, HooksInPlaces
<1>3. {m} \cup Slots(c) = {m, P(c.stop), P(c.prompt), P(c.legacy)}
  BY DEF Slots
<1> HIDE DEF P
<1> DEFINE n == Max({m, P(c.stop), P(c.prompt), P(c.legacy)})
<1>4. n \in Nat /\ m <= n /\ P(c.stop) <= n /\ P(c.prompt) <= n /\ P(c.legacy) <= n
  BY <1>2, MaxOf
<1> HIDE DEF n
<1>5. \A gs \in {c.stop, c.prompt, c.legacy} : gs \in Groups /\ P(gs) <= n
  BY <1>1, <1>4
<1> QED BY <1>3, <1>4, <1>5 DEF n, P

(* More slots fit as well. *)
LEMMA FitsGrow ==
  ASSUME NEW gs, UNCHANGED agent, slots \in Nat, slots' \in Nat, slots <= slots', Fits(gs)
  PROVE  (gs \in Groups => Fits(gs)')
<1> SUFFICES ASSUME gs \in Groups PROVE Fits(gs)'
  OBVIOUS
<1>1. Cardinality(RMBHooks(gs)) \in Nat /\ Cardinality(Places(gs)) \in Nat
  BY HooksInPlaces
<1>2. Most <= Most' /\ Most \in Nat /\ Most' \in Nat
  BY DEF Most
<1> QED BY <1>1, <1>2 DEF Fits, RMBHooks, Places

LEMMA FitsConfigGrow ==
  ASSUME NEW c \in Config, UNCHANGED agent, slots \in Nat, slots' \in Nat, slots <= slots',
         FitsConfig(c)
  PROVE  FitsConfig(c)'
<1>1. c.stop \in Groups /\ c.prompt \in Groups /\ c.legacy \in Groups
  BY DEF Config
<1>2. Fits(c.stop)' /\ Fits(c.prompt)' /\ Fits(c.legacy)'
  BY <1>1, FitsGrow DEF FitsConfig
<1> QED BY <1>2 DEF FitsConfig

LEMMA FitsSlots ==
  ASSUME NEW gs \in Groups, slots \in Nat, Cardinality(Places(gs)) <= slots PROVE Fits(gs)
<1>1. Cardinality(RMBHooks(gs)) \in Nat /\ Cardinality(Places(gs)) \in Nat
      /\ Cardinality(RMBHooks(gs)) <= Cardinality(Places(gs))
  BY HooksInPlaces
<1> QED BY <1>1 DEF Fits, Most

LEMMA FitsInit == Init => slots \in Nat /\ FitsInv
<1> SUFFICES ASSUME Init PROVE slots \in Nat /\ FitsInv
  OBVIOUS
<1>1. PICK c \in Configs[agent] : file["hooks"] = c /\ slots = Max(Slots(c))
  BY DEF Init, Files
<1>2. c \in Config
  BY <1>1, SetupAssumption DEF Init
<1>3. \A gs \in {c.stop, c.prompt, c.legacy} : gs \in Groups /\ Cardinality(Places(gs)) \in Nat
  BY <1>2, HooksInPlaces DEF Config
<1>4. Slots(c) = {Cardinality(Places(c.stop))} \cup Slots(c)
  BY DEF Slots
<1>5. slots \in Nat /\ \A gs \in {c.stop, c.prompt, c.legacy} : Cardinality(Places(gs)) <= slots
  BY <1>1, <1>2, <1>3, <1>4, SlotsOf
<1>6. FitsConfig(c)
  BY <1>3, <1>5, FitsSlots DEF FitsConfig
<1>7. Workers("hooks") = {}
  BY DEF Init, Workers, Busy
<1> QED BY <1>1, <1>5, <1>6, <1>7 DEF FitsInv

LEMMA FitsStep ==
  ASSUME Shape, Shape', slots \in Nat, FitsInv, NEW a \in Appliers,
         (\E list \in Lists : Apply(a, list)) \/ Read(a) \/ Backup(a) \/ Open(a) \/ Fill(a) \/ Die(a)
  PROVE  slots' \in Nat /\ FitsInv'
<1> DEFINE f == FileOf(a)
           g == "hooks"
<1>1. UNCHANGED <<agent, cmd, slots>>
  <2>1. UNCHANGED slots
    BY DEF Apply, Read, Backup, Open, Fill, Die, histVars
  <2> QED BY <2>1, OneMoves
<1>2. SUFFICES ASSUME cmd = "rmb"
               PROVE  FitsConfig(file'[g]) /\ \A b \in Workers(g)' : FitsConfig(text'[b])
  <2>1. file'[g] \in Config /\ \A b \in Workers(g)' : text'[b] \in Config
    BY DEF Shape, Workers, Busy, Content, FileOf, Files
  <2>2. ASSUME NEW c \in Config, FitsConfig(c) PROVE FitsConfig(c)'
    <3>1. slots <= slots' /\ slots' \in Nat
      BY <1>1
    <3> QED BY <1>1, <2>2, <3>1, FitsConfigGrow
  <2>3. cmd = "rmb" => FitsConfig(file[g])' /\ \A b \in Workers(g)' : FitsConfig(text[b])'
    BY <1>2, <2>1, <2>2
  <2> QED BY <1>1, <2>3 DEF FitsInv
<1>3. FitsConfig(file[g]) /\ \A b \in Workers(g) : FitsConfig(text[b])
  BY <1>2 DEF FitsInv
<1>4. \A b \in Workers(g)' : b # a => b \in Workers(g) /\ text'[b] = text[b]
  BY WorkersMove DEF Files
<1>5. \A b \in Workers(g)' : FitsConfig(text'[b])
  <2> SUFFICES ASSUME NEW b \in Workers(g)', b = a PROVE FitsConfig(text'[a])
    BY <1>3, <1>4
  <2>1. step'[a] \in Working /\ FileOf(a)' = g
    BY DEF Workers, Busy, FileOf
  <2>2. CASE (\E list \in Lists : Apply(a, list)) \/ Fill(a) \/ Die(a)
    <3>1. step' = [step EXCEPT ![a] = "read"] \/ step' = [step EXCEPT ![a] = "idle"]
      BY <2>2, Filled, Died DEF Apply
    <3> QED BY <2>1, <3>1 DEF Shape, Working
  <2>3. CASE Backup(a) \/ Open(a)
    <3>1. UNCHANGED <<todo, text>> /\ step[a] \in {"backup", "open"}
      BY <2>3 DEF Backup, Open
    <3>2. a \in Workers(g)
      BY <2>1, <3>1 DEF Workers, Busy, Working, FileOf
    <3> QED BY <1>3, <3>1, <3>2
  <2>4. CASE Read(a)
    <3>1. UNCHANGED todo /\ text' = [text EXCEPT ![a] = Merge(f, file[f])]
      <4>1. step' # [step EXCEPT ![a] = "idle"]
        BY <2>1 DEF Shape, Working
      <4> QED BY <2>4, <4>1 DEF Read, FileOf
    <3>2. text'[a] = MergeHooks(file[g])
      BY <2>1, <3>1 DEF FileOf, Shape, Merge
    <3>3. agent \in AllAgents /\ file[g] \in Config
      BY SetupAssumption DEF Shape, Content, Files
    <3> QED BY <1>2, <1>3, <3>2, <3>3, MergeFits
  <2> QED BY <2>2, <2>3, <2>4
<1>6. FitsConfig(file'[g])
  <2>1. CASE (\E list \in Lists : Apply(a, list)) \/ Read(a) \/ Backup(a) \/ Die(a)
    <3>1. UNCHANGED file
      BY <2>1, Died DEF Apply, Read, Backup, diskVars
    <3> QED BY <1>3, <3>1
  <2>2. CASE Open(a)
    <3>1. file' = [file EXCEPT ![f] = Empty(f, "blank")]
      BY <2>2 DEF Open, FileOf
    <3>2. file'[g] = file[g] \/ file'[g] = NoConfig("blank")
      BY <3>1 DEF Shape, Empty, Files
    <3> QED BY <1>3, <3>2, NoConfigFits
  <2>3. CASE Fill(a)
    <3>1. /\ file' = [file EXCEPT ![f] = text[a]] \/ file' = [file EXCEPT ![f] = NoConfig("bad")]
          /\ step[a] = "fill"
      BY <2>3, Filled
    <3>2. DOMAIN file = Files /\ g \in Files
      BY DEF Shape, Files
    <3>3. g = f => FitsConfig(text[a])
      BY <1>3, <3>1 DEF Workers, Busy, Working, FileOf
    <3>4. FitsConfig(NoConfig("bad"))
      BY NoConfigFits
    <3> HIDE DEF f
    <3>5. file'[g] = file[g] \/ (g = f /\ file'[g] = text[a]) \/ file'[g] = NoConfig("bad")
      BY <3>1, <3>2
    <3> QED BY <1>3, <3>3, <3>4, <3>5
  <2> QED BY <2>1, <2>2, <2>3
<1> QED BY <1>5, <1>6

LEMMA FitsSave ==
  ASSUME Shape, Shape', slots \in Nat, FitsInv, NEW f \in Files, NEW c,
         IF f = "hooks" THEN c \in Configs[agent] ELSE c \in Notes, Save(f, c)
  PROVE  slots' \in Nat /\ FitsInv'
<1> DEFINE g == "hooks"
<1>1. UNCHANGED <<agent, cmd, todo, step, text>> /\ file' = [file EXCEPT ![f] = c]
      /\ c \in Content(f)
  BY Saved
<1>2. slots' = IF f = "recall" THEN slots ELSE Max({slots} \cup Slots(c))
  BY DEF Save
<1>3. slots' \in Nat /\ slots <= slots'
  <2>1. CASE f = "recall"
    BY <1>2, <2>1
  <2>2. CASE f = "hooks"
    <3>1. c \in Config
      BY <1>1, <2>2 DEF Content
    <3> QED BY <1>2, <2>2, <3>1, SlotsOf
  <2> QED BY <2>1, <2>2 DEF Files
<1>4. ASSUME NEW d \in Config, FitsConfig(d) PROVE FitsConfig(d)'
  BY <1>1, <1>3, <1>4, FitsConfigGrow
<1>5. ASSUME cmd = "rmb" PROVE FitsConfig(file[g])'
  <2>1. CASE f = "recall"
    <3>1. file'[g] = file[g] /\ file[g] \in Config /\ FitsConfig(file[g])
      BY <1>1, <1>5, <2>1 DEF Shape, Content, Files, FitsInv
    <3> QED BY <1>4, <3>1
  <2>2. CASE f = "hooks"
    <3>1. file'[g] = c /\ c \in Config
      BY <1>1, <2>2 DEF Shape, Content
    <3>2. slots' = Max({slots} \cup Slots(c))
      BY <1>2, <2>2
    <3>3. \A gs \in {c.stop, c.prompt, c.legacy} : gs \in Groups /\ Cardinality(Places(gs)) <= slots'
      BY <3>1, <3>2, SlotsOf
    <3>4. ASSUME NEW gs \in Groups, Cardinality(Places(gs)) <= slots' PROVE Fits(gs)'
      <4>1. Cardinality(RMBHooks(gs)) \in Nat /\ Cardinality(Places(gs)) \in Nat
            /\ Cardinality(RMBHooks(gs)) <= Cardinality(Places(gs))
        BY HooksInPlaces
      <4> QED BY <1>3, <3>4, <4>1 DEF Fits, Most, RMBHooks, Places
    <3>5. FitsConfig(c)'
      BY <3>3, <3>4 DEF FitsConfig
    <3> QED BY <3>1, <3>5
  <2> QED BY <2>1, <2>2 DEF Files
<1>6. ASSUME cmd = "rmb", NEW b \in Workers(g)' PROVE FitsConfig(text[b])'
  <2>1. b \in Workers(g) /\ text'[b] = text[b]
    BY <1>1 DEF Workers, Busy
  <2>2. text[b] \in Config
    BY <2>1 DEF Shape, Workers, Busy, Content, FileOf
  <2>3. FitsConfig(text[b])
    BY <1>6, <2>1 DEF FitsInv
  <2> QED BY <1>4, <2>1, <2>2, <2>3
<1>7. cmd = "rmb" => FitsConfig(file[g])' /\ \A b \in Workers(g)' : FitsConfig(text[b])'
  BY <1>5, <1>6
<1> QED BY <1>1, <1>3, <1>7 DEF FitsInv

LEMMA FitsNext ==
  Shape /\ Shape' /\ slots \in Nat /\ FitsInv /\ [Next]_vars => slots' \in Nat /\ FitsInv'
<1> SUFFICES ASSUME Shape, Shape', slots \in Nat, FitsInv, [Next]_vars
             PROVE  slots' \in Nat /\ FitsInv'
  OBVIOUS
<1>1. CASE UNCHANGED vars
  <2>1. UNCHANGED <<agent, cmd, file, text, slots>> /\ Workers("hooks")' = Workers("hooks")
    BY <1>1 DEF vars, diskVars, applyVars, histVars, Workers, Busy
  <2>2. file["hooks"] \in Config /\ \A b \in Workers("hooks") : text[b] \in Config
    BY DEF Shape, Workers, Busy, Content, FileOf, Files
  <2>3. ASSUME NEW c \in Config, FitsConfig(c) PROVE FitsConfig(c)'
    BY <2>1, <2>3, FitsConfigGrow
  <2>4. cmd = "rmb" => FitsConfig(file["hooks"])' /\ \A b \in Workers("hooks")' : FitsConfig(text[b])'
    BY <2>1, <2>2, <2>3 DEF FitsInv
  <2> QED BY <2>1, <2>4 DEF FitsInv
<1>2. ASSUME NEW c \in Configs[agent], Save("hooks", c) PROVE slots' \in Nat /\ FitsInv'
  BY <1>2, FitsSave DEF Files
<1>3. ASSUME NEW n \in Notes, Save("recall", n) PROVE slots' \in Nat /\ FitsInv'
  BY <1>3, FitsSave DEF Files
<1> QED BY <1>1, <1>2, <1>3, FitsStep DEF Next

(***************************************************************************)
(* Whatever the applies do to each other, an event has no more rmb hooks   *)
(* than the user made room for in one list of a saved file, or one.        *)
(***************************************************************************)
THEOREM RmbNeverDoubled == Spec => []NeverDoubled
<1> DEFINE Inv == slots \in Nat /\ FitsInv
<1>1. Shape /\ Inv => NeverDoubled
  <2> SUFFICES ASSUME Shape, slots \in Nat, FitsInv, cmd = "rmb",
                      NEW gs \in {file["hooks"].stop, file["hooks"].prompt}
               PROVE  Cardinality(RMBHooks(gs)) <= Most
    BY DEF NeverDoubled, Most
  <2>1. Fits(gs)
    BY DEF FitsInv, FitsConfig
  <2>2. gs \in Groups
    BY DEF Shape, Content, Config, Files
  <2>3. Cardinality(RMBHooks(gs)) \in Nat /\ Cardinality(Places(gs)) \in Nat
        /\ Cardinality(RMBHooks(gs)) <= Cardinality(Places(gs))
    BY <2>2, HooksInPlaces
  <2> QED BY <2>1, <2>3 DEF Fits, Most
<1>2. Init => Inv
  BY FitsInit
<1>3. Shape /\ Shape' /\ Inv /\ [Next]_vars => Inv'
  BY FitsNext
<1> QED BY <1>1, <1>2, <1>3, ShapeInit, ShapeNext, PTL DEF Spec

-----------------------------------------------------------------------------
(* TypeOK: the rest of it, next to Shape and the slots. *)
LEMMA PartsOf ==
  ASSUME NEW f \in Files, NEW c \in Content(f)
  PROVE  PartsIn(f, c) \subseteq Parts /\ ListedIn(f, c) \subseteq Parts
<1>1. ASSUME NEW gs \in Groups PROVE HooksIn(gs) \subseteq Parts \cup Commands
  <2> SUFFICES ASSUME NEW h \in HooksIn(gs) PROVE h \in Parts \cup Commands
    OBVIOUS
  <2>1. PICK i \in DOMAIN gs : \E j \in DOMAIN gs[i] : gs[i][j] = h
    BY InHooks
  <2>2. gs[i] \in Seq(Parts \cup Commands)
    BY <2>1 DEF Groups
  <2> QED BY <2>1, <2>2
<1>2. CASE f = "hooks"
  <2>1. /\ HooksIn(c.stop) \subseteq Parts \cup Commands
        /\ HooksIn(c.prompt) \subseteq Parts \cup Commands
        /\ HooksIn(c.legacy) \subseteq Parts \cup Commands
        /\ c.odd \subseteq Parts
    BY <1>1, <1>2 DEF Content, Config
  <2> QED BY <1>2, <2>1 DEF PartsIn, ListedIn
<1>3. CASE f = "recall"
  BY <1>3 DEF Content, Note, PartsIn, ListedIn
<1> QED BY <1>2, <1>3 DEF Files

(* The copies, and what is noted of the user's files. *)
Copies ==
  /\ \A f \in Files : bak[f] \in Content(f)
  /\ wanted \in [Files -> SUBSET Parts] /\ listed \in [Files -> SUBSET Parts]
  /\ fresh \in [Files -> BOOLEAN]
  /\ applies \in 0..MaxApplies /\ saves \in 0..MaxSaves /\ faults \in 0..MaxFaults

LEMMA CopiesInit == Init => Copies
<1> SUFFICES ASSUME Init PROVE Copies
  OBVIOUS
<1>1. Shape
  BY ShapeInit
<1>2. \A f \in Files : bak[f] \in Content(f)
  BY EmptyContent DEF Init
<1>3. wanted \in [Files -> SUBSET Parts] /\ listed \in [Files -> SUBSET Parts]
  <2>1. \A f \in Files : PartsIn(f, file[f]) \subseteq Parts /\ ListedIn(f, file[f]) \subseteq Parts
    BY <1>1, PartsOf DEF Shape
  <2> QED BY <2>1 DEF Init
<1>4. fresh \in [Files -> BOOLEAN]
  BY DEF Init
<1>5. applies \in 0..MaxApplies /\ saves \in 0..MaxSaves /\ faults \in 0..MaxFaults
  BY SetupAssumption DEF Init
<1> QED BY <1>2, <1>3, <1>4, <1>5 DEF Copies

LEMMA CopiesStep ==
  ASSUME Shape, Shape', Copies, NEW a \in Appliers,
         (\E list \in Lists : Apply(a, list)) \/ Read(a) \/ Backup(a) \/ Open(a) \/ Fill(a) \/ Die(a)
  PROVE  Copies'
<1> DEFINE f == FileOf(a)
<1>1. UNCHANGED <<wanted, listed>>
  BY OneMoves
<1>2. applies' \in 0..MaxApplies /\ saves' \in 0..MaxSaves /\ faults' \in 0..MaxFaults
  <2>1. /\ UNCHANGED saves
        /\ UNCHANGED applies \/ (applies < MaxApplies /\ applies' = applies + 1)
        /\ UNCHANGED faults \/ (faults < MaxFaults /\ faults' = faults + 1)
    BY DEF Apply, Read, Backup, Open, Fill, Die
  <2> QED BY <2>1, SetupAssumption DEF Copies
<1>3. fresh' \in [Files -> BOOLEAN]
  <2>1. UNCHANGED fresh \/ \E v \in BOOLEAN : fresh' = [fresh EXCEPT ![f] = v]
    <3>1. CASE (\E list \in Lists : Apply(a, list)) \/ Read(a) \/ Backup(a) \/ Die(a)
      BY <3>1, Died DEF Apply, Read, Backup, histVars
    <3>2. CASE Open(a)
      BY <3>2 DEF Open, FileOf
    <3>3. CASE Fill(a)
      BY <3>3, Filled
    <3> QED BY <3>1, <3>2, <3>3
  <2> HIDE DEF f
  <2> QED BY <2>1 DEF Copies
<1>4. \A g \in Files : bak'[g] \in Content(g)
  <2>1. \/ UNCHANGED bak
        \/ f \in Files /\ bak' = [bak EXCEPT ![f] = file[f]]
        \/ f \in Files /\ bak' = [bak EXCEPT ![f] = Empty(f, "blank")]
    <3>1. CASE (\E list \in Lists : Apply(a, list)) \/ Read(a) \/ Open(a) \/ Fill(a)
      BY <3>1 DEF Apply, Read, Open, Fill, diskVars
    <3>2. CASE Backup(a)
      <4>1. step[a] # "idle"
        BY <3>2 DEF Backup
      <4> QED BY <3>2, <4>1, Current DEF Backup, FileOf
    <3>3. CASE Die(a)
      BY <3>3, Died
    <3> QED BY <3>1, <3>2, <3>3
  <2>2. f \in Files => file[f] \in Content(f) /\ Empty(f, "blank") \in Content(f)
    BY EmptyContent DEF Shape
  <2>3. \A g \in Files : bak[g] \in Content(g)
    BY DEF Copies
  <2>4. DOMAIN bak = Files
    BY DEF Shape
  <2> HIDE DEF f
  <2> QED BY <2>1, <2>2, <2>3, <2>4
<1> QED BY <1>1, <1>2, <1>3, <1>4 DEF Copies

LEMMA CopiesSave ==
  ASSUME Shape, Copies, NEW f \in Files, NEW c,
         IF f = "hooks" THEN c \in Configs[agent] ELSE c \in Notes, Save(f, c)
  PROVE  Copies'
<1>1. c \in Content(f) /\ UNCHANGED bak
  BY Saved
<1>2. /\ wanted' = [wanted EXCEPT ![f] = PartsIn(f, c)]
      /\ listed' = [listed EXCEPT ![f] = ListedIn(f, c)]
      /\ fresh' = [fresh EXCEPT ![f] = FALSE]
  BY Saved
<1>3. PartsIn(f, c) \in SUBSET Parts /\ ListedIn(f, c) \in SUBSET Parts
  BY <1>1, PartsOf
<1>4. applies' \in 0..MaxApplies /\ saves' \in 0..MaxSaves /\ faults' \in 0..MaxFaults
  BY SetupAssumption DEF Save, Copies
<1>5. wanted' \in [Files -> SUBSET Parts] /\ listed' \in [Files -> SUBSET Parts]
  BY <1>2, <1>3 DEF Copies
<1>6. fresh' \in [Files -> BOOLEAN]
  BY <1>2 DEF Copies
<1> QED BY <1>1, <1>4, <1>5, <1>6 DEF Copies, Content

LEMMA CopiesNext == Shape /\ Shape' /\ Copies /\ [Next]_vars => Copies'
<1> SUFFICES ASSUME Shape, Shape', Copies, [Next]_vars PROVE Copies'
  OBVIOUS
<1>1. CASE UNCHANGED vars
  BY <1>1 DEF vars, diskVars, applyVars, histVars, Copies, Content
<1>2. ASSUME NEW c \in Configs[agent], Save("hooks", c) PROVE Copies'
  BY <1>2, CopiesSave DEF Files
<1>3. ASSUME NEW n \in Notes, Save("recall", n) PROVE Copies'
  BY <1>3, CopiesSave DEF Files
<1> QED BY <1>1, <1>2, <1>3, CopiesStep DEF Next

(* What the variables hold, whatever the bounds. *)
THEOREM TypeCorrect == Spec => []TypeOK
<1> DEFINE Inv == slots \in Nat /\ FitsInv
<1>1. Shape /\ Inv /\ Copies => TypeOK
  <2> SUFFICES ASSUME Shape, Inv, Copies PROVE TypeOK
    OBVIOUS
  <2>1. agent \in Agents /\ cmd \in Commands /\ backups \in [Files -> Nat]
        /\ late \in [Files -> BOOLEAN] /\ unclean \in [Files -> BOOLEAN]
        /\ \A f \in Files : file[f] \in Content(f)
    BY DEF Shape
  <2>2. \A a \in Appliers :
          /\ todo[a] \in Seq(Files) /\ mixed[a] \in BOOLEAN
          /\ step[a] \in {"idle", "read", "backup", "open", "fill"}
          /\ step[a] # "idle" => todo[a] # <<>>
          /\ step[a] \in {"backup", "open", "fill"} => text[a] \in Content(Head(todo[a]))
    BY DEF Shape, Working, FileOf
  <2> QED BY <2>1, <2>2 DEF Copies, TypeOK
<1>2. Init => Inv
  BY FitsInit
<1>3. Shape /\ Shape' /\ Inv /\ [Next]_vars => Inv'
  BY FitsNext
<1> QED BY <1>1, <1>2, <1>3, ShapeInit, ShapeNext, CopiesInit, CopiesNext, PTL DEF Spec
=============================================================================
