------------------------------ MODULE Capture ------------------------------
(***************************************************************************)
(* Capture of turns (package hook): when an agent has answered, it runs    *)
(* rmb hook-submit once for each of its Stop hooks.  The process gets the  *)
(* answer, finds the prompt that belongs to it, and posts both to rmbd.    *)
(* Where the prompt is looked for depends on the agent: in the transcript  *)
(* that the agent goes on writing, in the payload, or (zcode) in a file    *)
(* that the UserPromptSubmit hook wrote when the prompt was typed.         *)
(*                                                                         *)
(* The agent is external: it appends rows to its transcript, an answer     *)
(* maybe only after its hooks have begun, and the user may type the next   *)
(* prompts while it answers or while a hook of the last answer still runs. *)
(***************************************************************************)
EXTENDS Naturals, Sequences, FiniteSets, SequencesExt

CONSTANTS
  Agents,    \* the agents the run looks at
  Turns,     \* the number of turns of the conversation
  Texts,     \* what an answer may say
  Hooks,     \* Stop hooks of rmb in the agent's configuration
  MaxFaults  \* (bounds the model)

AllAgents == {"cursor", "cc", "codex", "pi", "workbuddy", "opencode", "zcode"}

None == 0

(* A row of the role user whose text no user typed. *)
Junk == Turns + 1

(* Such rows, by what a parser can tell of them: "tool" has no text or is  *)
(* marked as a result; "injected" has the marks that a parser may look for *)
(* (a command wrapper of cc, a reminder of workbuddy); "notice" has none.  *)
Kinds == {"tool", "injected", "notice"}

(* A prompt is a text, or has none (an image, a command); an answer has    *)
(* none when the turn was interrupted or ended in a tool call.             *)
Silent == "silent"

ASSUME CaptureAssumption ==
  /\ Agents \subseteq AllAgents
  /\ Turns \in Nat /\ MaxFaults \in Nat
  /\ Silent \notin Texts

VARIABLES
  agent,   \* the agent
  typed,   \* prompts so far,
  begun,   \* and how many of them the agent has taken up
  worded,  \* which of them have text,
  caught,  \* and of those which the hook can find later
  told,    \* does the payload name the answer (cursor and workbuddy may not)
  said,    \* the text of each answer, or Silent
  rows,    \* the transcript; a wide row is longer than the parser's limit
  behind,  \* answers whose row is not written yet
  parked,  \* the prompt in the sidecar file of zcode
  run,     \* the hook runs
  stored,  \* turns in the database of rmbd: [prompt, answer, by]
  tardy,   \* (history) a turn ended while the run of an earlier one went on
  robbed,  \* (history) prompts of zcode that the run of another turn removed
  kept,    \* (history) and those whose removal failed
  faults

talkVars == <<typed, begun, worded, caught, said, rows, behind>>
historyVars == <<tardy, robbed, kept>>
vars == <<agent, told, talkVars, parked, run, stored, historyVars, faults>>

Row == [role : {"user", "assistant"} \cup Kinds, turn : 1..Turns, wide : BOOLEAN]

(* The agents whose hook reads the transcript. *)
Reads == agent \in AllAgents \ {"opencode", "zcode"}

Runs == (1..Turns) \X Hooks

(* ahead: when the run looked for its prompt, a later one was there;       *)
(* blind: it could not read the row that it has to find;                   *)
(* noisy: what no user typed, and no mark tells so, stood after the prompt.*)
Run == [step : {"none", "look", "unpark", "post", "done"}, prompt : 0..Junk,
        answer : 0..Turns, ahead : BOOLEAN, blind : BOOLEAN, noisy : BOOLEAN]

Fresh == [step |-> "none", prompt |-> None, answer |-> None, ahead |-> FALSE,
          blind |-> FALSE, noisy |-> FALSE]

Init ==
  /\ agent \in Agents
  /\ told \in IF agent \in {"cursor", "workbuddy"} THEN BOOLEAN ELSE {TRUE}
  /\ typed = 0 /\ begun = 0 /\ worded = {} /\ caught = {} /\ said = <<>>
  /\ rows = <<>> /\ behind = {}
  /\ parked = None
  /\ run = [r \in Runs |-> Fresh]
  /\ stored = {} /\ tardy = FALSE /\ robbed = {} /\ kept = {}
  /\ faults = 0

-----------------------------------------------------------------------------
(* The conversation. *)

(* A row is appended; a wide one counts as a fault. *)
WriteRow(role, n) ==
  \E wide \in {FALSE} \cup (IF faults < MaxFaults THEN {TRUE} ELSE {}) :
    /\ rows' = Append(rows, [role |-> role, turn |-> n, wide |-> wide])
    /\ faults' = faults + (IF wide THEN 1 ELSE 0)

(* hook-capture writes a temporary file and renames it; a prompt without   *)
(* text leaves the file of the last one.                                   *)
ParkPrompt(n, text) == IF text THEN n ELSE parked

(* The user types the next prompt, maybe before the last is answered.      *)
(* Capture is best effort: it may miss the prompt.                         *)
Type(text) ==
  LET n == typed + 1 IN
  /\ n <= Turns
  /\ typed' = n
  /\ worded' = IF text THEN worded \cup {n} ELSE worded
  /\ \/ /\ parked' = IF agent = "zcode" THEN ParkPrompt(n, text) ELSE parked
        /\ caught' = IF text THEN caught \cup {n} ELSE caught
        /\ UNCHANGED faults
     \/ /\ agent = "zcode" /\ faults < MaxFaults
        /\ faults' = faults + 1
        /\ UNCHANGED <<parked, caught>>
  /\ UNCHANGED <<agent, told, begun, said, rows, behind, run, stored, historyVars>>

(* The agent takes up the next prompt when it is done with the last; the   *)
(* rows are written in order.                                              *)
Begin ==
  LET n == begun + 1 IN
  /\ n <= typed /\ Len(said) = begun /\ behind = {}
  /\ begun' = n
  /\ IF Reads /\ n \in worded THEN WriteRow("user", n) ELSE UNCHANGED <<rows, faults>>
  /\ UNCHANGED <<agent, told, typed, worded, caught, said, behind, parked, run, stored,
                 historyVars>>

(* A row of the role user that no user typed, at most one in all (bounds   *)
(* the model).                                                             *)
MachineRow(kind) ==
  /\ Reads /\ Len(said) < begun
  /\ \A i \in DOMAIN rows : rows[i].role \notin Kinds
  /\ WriteRow(kind, begun)
  /\ UNCHANGED <<agent, told, typed, begun, worded, caught, said, behind, parked, run,
                 stored, historyVars>>

(* The agent answers and starts its Stop hooks. *)
Answer(text) ==
  LET n == begun IN
  /\ Len(said) < begun
  /\ said' = Append(said, text)
  /\ IF text = Silent \/ ~Reads THEN UNCHANGED <<rows, behind, faults>>
     ELSE \/ WriteRow("assistant", n) /\ UNCHANGED behind
          \/ behind' = behind \cup {n} /\ UNCHANGED <<rows, faults>>
  /\ run' = [r \in Runs |-> IF r[1] = n THEN [run[r] EXCEPT !.step = "look"] ELSE run[r]]
  /\ tardy' = (tardy \/ \E r \in Runs : run[r].step \notin {"none", "done"})
  /\ UNCHANGED <<agent, told, typed, begun, worded, caught, parked, stored, robbed, kept>>

(* No hook runs for this prompt: the turn is interrupted (cursor's hook    *)
(* skips a status other than completed), or goes on with the next prompt.  *)
Interrupt ==
  /\ Len(said) < begun
  /\ said' = Append(said, Silent)
  /\ UNCHANGED <<agent, told, typed, begun, worded, caught, rows, behind, parked, run,
                 stored, historyVars, faults>>

Flush(n) ==
  /\ n \in behind
  /\ behind' = behind \ {n}
  /\ WriteRow("assistant", n)
  /\ UNCHANGED <<agent, told, typed, begun, worded, caught, said, parked, run, stored,
                 historyVars>>

-----------------------------------------------------------------------------
(* Where the prompt and the answer come from.  Each is the number of the   *)
(* turn, or None.  S is the rows that the run could read.                  *)

(* A scan ends, without an error, before the first row that is too long.   *)
Scanned == {i \in DOMAIN rows : \A j \in 1..i : ~rows[j].wide}

Named(row) == IF row.role \in Kinds THEN Junk ELSE row.turn

LastOf(S) == CHOOSE i \in S : \A j \in S : j <= i

LastNamed(S) == IF S = {} THEN None ELSE Named(rows[LastOf(S)])

(* The rows that a parser takes for prompts: which kinds of machine rows   *)
(* it does not filter depends on the agent.                                *)
Prompts(S, unfiltered) == {i \in S : rows[i].role \in {"user"} \cup unfiltered}

AnswerRows(S) == {i \in S : rows[i].role = "assistant"}

Payload(n) == IF said[n] = Silent \/ ~told THEN None ELSE n

(* The answer of the payload and the last user message.  cc filters tool   *)
(* results and command wrappers,                                           *)
ParseClaude(n, S) ==
  [prompt |-> LastNamed(Prompts(S, {"notice"})), answer |-> Payload(n)]

(* codex has rows of another type for what was typed,                      *)
ParseCodex(n, S) == [prompt |-> LastNamed(Prompts(S, {})), answer |-> Payload(n)]

(* pi takes every text.                                                    *)
ParsePi(n, S) ==
  [prompt |-> LastNamed(Prompts(S, {"injected", "notice"})), answer |-> Payload(n)]

(* Variant: system reminders are not filtered. *)
BadParseWorkBuddy(n, S) ==
  [prompt |-> LastNamed(Prompts(S, {"injected", "notice"})),
   answer |-> IF AnswerRows(S) # {} THEN LastNamed(AnswerRows(S)) ELSE Payload(n)]

(* workbuddy: the last answer of the transcript goes before the payload's. *)
ParseWorkBuddy(n, S) ==
  [prompt |-> LastNamed(Prompts(S, {"notice"})),
   answer |-> IF AnswerRows(S) # {} THEN LastNamed(AnswerRows(S)) ELSE Payload(n)]

(* opencode: both from the payload. *)
ParseOpenCode(n) ==
  [prompt |-> IF n \in worded THEN n ELSE None, answer |-> Payload(n)]

(* Variant: the prompt is the last of the transcript, as for the others. *)
BadBuildPair(n, S) ==
  [prompt |-> LastNamed(Prompts(S, {"injected", "notice"})),
   answer |-> IF Payload(n) # None THEN n ELSE LastNamed(AnswerRows(S))]

(* cursor: the last row with the text of the answer, or else the last      *)
(* answer there; the prompt is the last text of the role user before it.   *)
(* The text of the payload goes before that of the row.                    *)
BuildPair(n, S) ==
  LET Equal == {i \in AnswerRows(S) : Payload(n) # None /\ said[rows[i].turn] = said[n]}
      at    == LastOf(IF Equal # {} THEN Equal ELSE AnswerRows(S))
  IN  [prompt |-> IF AnswerRows(S) = {} THEN None
                  ELSE LastNamed({i \in Prompts(S, {"injected", "notice"}) : i < at}),
       answer |-> IF Payload(n) # None THEN n ELSE LastNamed(AnswerRows(S))]

(* zcode: the sidecar is read, then removed. *)
ParseZCode(n) == [prompt |-> parked, answer |-> Payload(n)]

Parsed(n, S) ==
  CASE agent = "cursor" -> BuildPair(n, S)
    [] agent = "workbuddy" -> ParseWorkBuddy(n, S)
    [] agent = "opencode" -> ParseOpenCode(n)
    [] agent = "zcode" -> ParseZCode(n)
    [] agent = "codex" -> ParseCodex(n, S)
    [] agent = "pi" -> ParsePi(n, S)
    [] OTHER -> ParseClaude(n, S)

(* Variant: a turn without answer is posted. *)
BadThen(answer) == IF agent = "zcode" /\ parked # None THEN "unpark" ELSE "post"

(* Without an answer the run is over: nothing is posted, nothing removed. *)
Then(answer) ==
  IF answer = None THEN "done" ELSE IF agent = "zcode" /\ parked # None THEN "unpark" ELSE "post"

(* What the run has to find in the transcript, *)
Sought == IF agent \in {"cursor", "workbuddy"} THEN "assistant" ELSE "user"

(* and what it may mistake for a prompt. *)
Mistakable ==
  CASE agent = "codex" -> {}
    [] agent \in {"cc", "workbuddy"} -> {"notice"}
    [] OTHER -> {"injected", "notice"}

(* The transcript may be impossible to open. *)
Look(r) ==
  LET n == r[1] IN
  /\ run[r].step = "look"
  /\ \E S \in {Scanned} \cup (IF Reads /\ faults < MaxFaults THEN {{}} ELSE {}) :
       LET p == Parsed(n, S) IN
       /\ faults' = faults + (IF S = Scanned THEN 0 ELSE 1)
       /\ run' = [run EXCEPT ![r] =
            [@ EXCEPT !.step = Then(p.answer), !.prompt = p.prompt, !.answer = p.answer,
                      !.ahead = IF agent = "zcode" THEN typed > n ELSE begun > n,
                      !.blind = /\ Reads /\ said[n] # Silent
                                /\ \A i \in S : rows[i].turn = n => rows[i].role # Sought,
                      !.noisy = \E i \in S : rows[i].turn = n /\ rows[i].role \in Mistakable]]
  /\ UNCHANGED <<agent, told, talkVars, parked, stored, historyVars>>

(* Variant: the sidecar stays. *)
BadTake == parked

Take == None

Unpark(r) ==
  /\ run[r].step = "unpark"
  /\ run' = [run EXCEPT ![r].step = "post"]
  /\ parked' = Take
  /\ robbed' = IF parked > r[1] THEN robbed \cup {parked} ELSE robbed
  /\ UNCHANGED <<agent, told, talkVars, stored, tardy, kept, faults>>

(* The file cannot be removed, which nobody hears of. *)
UnparkFails(r) ==
  /\ run[r].step = "unpark" /\ faults < MaxFaults
  /\ faults' = faults + 1
  /\ run' = [run EXCEPT ![r].step = "post"]
  /\ kept' = kept \cup {run[r].prompt}
  /\ UNCHANGED <<agent, told, talkVars, parked, stored, tardy, robbed>>

Turn(r) == [prompt |-> run[r].prompt, answer |-> run[r].answer, by |-> r]

Posted(r) ==
  /\ run[r].step = "post"
  /\ stored' = stored \cup {Turn(r)}
  /\ run' = [run EXCEPT ![r].step = "done"]
  /\ UNCHANGED <<agent, told, talkVars, parked, historyVars, faults>>

(* rmbd is away, or answers too late: the turn may be stored or not, and   *)
(* there is no second try.                                                 *)
PostFails(r) ==
  /\ run[r].step = "post" /\ faults < MaxFaults
  /\ faults' = faults + 1
  /\ stored' \in {stored, stored \cup {Turn(r)}}
  /\ run' = [run EXCEPT ![r].step = "done"]
  /\ UNCHANGED <<agent, told, talkVars, parked, historyVars>>

(* The process is killed with its agent. *)
Die(r) ==
  /\ run[r].step \in {"look", "unpark", "post"} /\ faults < MaxFaults
  /\ faults' = faults + 1
  /\ run' = [run EXCEPT ![r].step = "done"]
  /\ UNCHANGED <<agent, told, talkVars, parked, stored, historyVars>>

Next ==
  \/ \E text \in BOOLEAN : Type(text)
  \/ \E kind \in Kinds : MachineRow(kind)
  \/ Begin \/ Interrupt
  \/ \E text \in Texts \cup {Silent} : Answer(text)
  \/ \E n \in behind : Flush(n)
  \/ \E r \in Runs : \/ Look(r) \/ Unpark(r) \/ UnparkFails(r)
                     \/ Posted(r) \/ PostFails(r) \/ Die(r)

Spec == Init /\ [][Next]_vars

-----------------------------------------------------------------------------
(* What the variables hold. *)
TypeOK ==
  /\ agent \in Agents /\ told \in BOOLEAN
  /\ typed \in 0..Turns /\ begun \in 0..typed
  /\ worded \subseteq 1..typed /\ caught \subseteq worded
  /\ said \in Seq(Texts \cup {Silent}) /\ Len(said) <= begun
  /\ rows \in Seq(Row) /\ behind \subseteq 1..Turns
  /\ parked \in 0..Turns
  /\ run \in [Runs -> Run]
  /\ stored \subseteq [prompt : 0..Junk, answer : 1..Turns, by : Runs]
  /\ robbed \subseteq 1..Turns /\ kept \subseteq 0..Junk /\ tardy \in BOOLEAN
  /\ faults \in 0..MaxFaults

(* A turn is stored with the prompt that was answered, never with that of  *)
(* another turn or a row that the parser's filter knows: provided that     *)
(*   - the prompt and the answer have text, and no later prompt was there  *)
(*     when the run looked;                                                *)
(*   - the run could read the row of the prompt (cursor and workbuddy: of  *)
(*     the answer), no row too long for the scan stood before it;          *)
(*   - the filter knows all else that was written in the role of the user. *)
(* (zcode: unless another run took the prompt first.)  Where a condition   *)
(* fails, the code does pair the answer with something else.               *)
OwnPrompt ==
  \A t \in stored :
    LET n == t.by[1]  r == run[t.by] IN
    ~r.ahead /\ ~r.blind /\ ~r.noisy /\ n \in caught /\ said[n] # Silent =>
      \/ t.prompt = n /\ t.answer = n
      \/ /\ agent = "zcode" /\ t.prompt = None
         /\ n \in robbed \/ \E q \in Runs \ {t.by} : run[q].prompt = n

(* Also when the conversation has gone on, cursor stores an answer whose   *)
(* row it could read with the last prompt that came before an answer of    *)
(* these words (or with a text that no user typed, when there is one), and *)
(* opencode with its own prompt or none.                                   *)
PairOccurred ==
  \A t \in stored :
    /\ agent = "cursor" /\ ~run[t.by].blind =>
         \/ t.prompt = Junk /\ \E i \in DOMAIN rows : rows[i].role \in {"injected", "notice"}
         \/ \E m \in DOMAIN said :
              /\ said[m] = said[t.answer]
              /\ t.prompt = LET S == {k \in worded : k <= m} IN IF S = {} THEN None ELSE LastOf(S)
    /\ agent = "opencode" => t.answer = t.by[1] /\ t.prompt \in {None, t.by[1]}

(* A prompt that zcode parked is stored with one answer only, also if the  *)
(* next prompts could not be caught or came early: it is removed before    *)
(* the post, and neither a failed post nor a killed run brings it back.    *)
(* (Not so if it cannot be removed, or if a run goes on beyond the end of  *)
(* the next turn.)                                                         *)
ParkedOnce ==
  agent = "zcode" /\ ~tardy =>
    \A t, u \in stored :
      t.prompt \notin kept \cup {None} /\ t.prompt = u.prompt => t.answer = u.answer
=============================================================================
