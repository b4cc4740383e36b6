--------------------------- MODULE CaptureProofs ---------------------------
(***************************************************************************)
(* Proofs about module Capture, for any agents, conversations, hooks and   *)
(* faults.                                                                 *)
(***************************************************************************)
EXTENDS Capture, WellFoundedInduction, TLAPS

USE DEF historyVars

(***************************************************************************)
(* The last of some rows, or of some turns: it exists.                     *)
(***************************************************************************)
LEMMA Lowest ==
  ASSUME NEW T \in SUBSET Nat, T # {}
  PROVE  \E x \in T : \A y \in T : x <= y
<1>1. IsWellFoundedOn(OpToRel(<, Nat), Nat)
  BY NatLessThanWellFounded
<1>2. PICK x \in T : \A y \in T : ~(<<y, x>> \in OpToRel(<, Nat))
  BY <1>1, WFMin
<1>3. \A y, z \in Nat : <<y, z>> \in OpToRel(<, Nat) <=> y < z
  BY DEF OpToRel
<1>4. ASSUME NEW y \in T PROVE x <= y
  <2>1. ~(y < x)
    BY <1>2, <1>3
  <2>2. x \in Nat /\ y \in Nat
    OBVIOUS
  <2> HIDE <1>2
  <2> QED BY <2>1, <2>2, SMT
<1> QED BY <1>4

LEMMA Highest ==
  ASSUME NEW n \in Nat, NEW S \in SUBSET (1..n), S # {}
  PROVE  LastOf(S) \in S /\ \A j \in S : j <= LastOf(S)
<1> DEFINE T == {n - i : i \in S}
<1>1. T \in SUBSET Nat
  <2>1. \A i \in S : i \in 1..n
    OBVIOUS
  <2>2. \A i \in S : n - i \in Nat
    BY <2>1
  <2> QED BY <2>2
<1>2. T # {}
  OBVIOUS
<1>3. PICK t \in T : \A u \in T : t <= u
  <2> HIDE DEF T
  <2> QED BY <1>1, <1>2, Lowest
<1>4. PICK i \in S : t = n - i
  OBVIOUS
<1>5. ASSUME NEW j \in S PROVE j <= i
  <2>1. n - i <= n - j
    BY <1>3, <1>4
  <2>2. i \in 1..n /\ j \in 1..n
    OBVIOUS
  <2> QED BY <2>1, <2>2, SMT
<1>6. \E k \in S : \A j \in S : j <= k
  BY <1>5
<1> QED BY <1>6 DEF LastOf

-----------------------------------------------------------------------------
(* TypeOK: only a run that has an answer goes on to post. *)
Posting(r) == run[r].step \in {"unpark", "post"}

TypeInv ==
  /\ TypeOK
  /\ \A r \in Runs : Posting(r) => run[r].answer # None

LEMMA TypeInit == Init => TypeInv
<1> SUFFICES ASSUME Init PROVE TypeInv
  OBVIOUS
<1>1. Fresh \in Run
  BY CaptureAssumption DEF Fresh, Run, None, Junk
<1>2. \A r \in Runs : run[r].step = "none"
  BY DEF Init, Fresh
<1>3. run \in [Runs -> Run]
  BY <1>1 DEF Init
<1>4. agent \in Agents /\ told \in BOOLEAN
  BY DEF Init
<1>5. /\ typed = 0 /\ begun = 0 /\ worded = {} /\ caught = {} /\ said = <<>> /\ rows = <<>> /\ behind = {}
      /\ parked = 0 /\ stored = {} /\ tardy = FALSE /\ robbed = {} /\ kept = {} /\ faults = 0
  BY DEF Init, None
<1>6. Turns \in Nat /\ MaxFaults \in Nat
  BY CaptureAssumption
<1>7. <<>> \in Seq(Texts \cup {Silent}) /\ <<>> \in Seq(Row) /\ Len(<<>>) = 0
  OBVIOUS
<1>8. /\ typed \in 0..Turns /\ begun \in 0..typed /\ worded \subseteq 1..typed /\ caught \subseteq worded
      /\ parked \in 0..Turns /\ faults \in 0..MaxFaults
  BY <1>5, <1>6
<1>9. /\ said \in Seq(Texts \cup {Silent}) /\ Len(said) <= begun /\ rows \in Seq(Row)
  BY <1>5, <1>7
<1>10. behind \subseteq 1..Turns /\ robbed \subseteq 1..Turns /\ tardy \in BOOLEAN /\ kept \subseteq 0..Junk
       /\ stored \subseteq [prompt : 0..Junk, answer : 1..Turns, by : Runs]
  BY <1>5
<1>11. TypeOK
  BY <1>3, <1>4, <1>8, <1>9, <1>10 DEF TypeOK
<1> QED BY <1>2, <1>11 DEF TypeInv, Posting

(* A run that looks reads the rows up to the first that is too long, or,   *)
(* if it cannot open the transcript, none.                                 *)
Readable(S) == S = Scanned \/ S = {}

LEMMA ReadSets ==
  ASSUME TypeOK, NEW S, Readable(S)
  PROVE  /\ S \in SUBSET DOMAIN rows
         /\ \A i \in S, j \in DOMAIN rows : j < i => j \in S
<1>1. rows \in Seq(Row)
  BY DEF TypeOK
<1>2. DOMAIN rows = 1..Len(rows) /\ Len(rows) \in Nat
  BY <1>1
<1>3. ASSUME NEW i \in Scanned, NEW j \in DOMAIN rows, j < i PROVE j \in Scanned
  <2>1. i \in Nat /\ j \in Nat
    BY <1>2 DEF Scanned
  <2>2. 1..j \subseteq 1..i
    BY <1>3, <2>1
  <2> QED BY <1>3, <2>2 DEF Scanned
<1> QED BY <1>3 DEF Readable, Scanned

LEMMA ParsedType ==
  ASSUME TypeOK, NEW n \in 1..Turns, NEW S, Readable(S)
  PROVE  Parsed(n, S).prompt \in 0..Junk /\ Parsed(n, S).answer \in 0..Turns
<1>1. /\ Turns \in Nat /\ rows \in Seq(Row) /\ parked \in 0..Turns
      /\ \A i \in DOMAIN rows : rows[i].turn \in 1..Turns
  <2>1. Turns \in Nat /\ rows \in Seq(Row) /\ parked \in 0..Turns
    BY CaptureAssumption DEF TypeOK
  <2>2. \A i \in DOMAIN rows : rows[i] \in Row
    BY <2>1
  <2> QED BY <2>1, <2>2 DEF Row
<1>2. DOMAIN rows = 1..Len(rows) /\ Len(rows) \in Nat
  BY <1>1
<1>3. ASSUME NEW T \in SUBSET DOMAIN rows
      PROVE  /\ LastNamed(T) \in 0..Junk
             /\ (\A i \in T : rows[i].role = "assistant") => LastNamed(T) \in 0..Turns
  <2>1. CASE T = {}
    BY <1>1, <2>1 DEF LastNamed, None, Junk
  <2>2. CASE T # {}
    <3>1. LastOf(T) \in T
      BY <1>2, <2>2, Highest
    <3> QED BY <1>1, <2>2, <3>1 DEF LastNamed, Named, Junk, Kinds
  <2> QED BY <2>1, <2>2
<1>4. Payload(n) \in 0..Turns
  BY <1>1 DEF Payload, None
<1>5. /\ \A U : Prompts(S, U) \in SUBSET DOMAIN rows
      /\ AnswerRows(S) \in SUBSET DOMAIN rows /\ \A i \in AnswerRows(S) : rows[i].role = "assistant"
  BY ReadSets DEF Prompts, AnswerRows
<1>6. /\ LastNamed(AnswerRows(S)) \in 0..Turns
      /\ \A U : LastNamed(Prompts(S, U)) \in 0..Junk
      /\ \A k, U : LastNamed({i \in Prompts(S, U) : i < k}) \in 0..Junk
  BY <1>3, <1>5
<1>7. None \in 0..Turns /\ None \in 0..Junk /\ n \in 0..Turns /\ n \in 0..Junk /\ parked \in 0..Junk
  BY <1>1 DEF None, Junk
<1>8. CASE agent = "cursor"
  BY <1>4, <1>6, <1>7, <1>8 DEF Parsed, BuildPair
<1>9. CASE agent # "cursor"
  BY <1>4, <1>6, <1>7, <1>9 DEF Parsed, ParseWorkBuddy, ParseOpenCode, ParseZCode, ParseCodex,
     ParsePi, ParseClaude
<1> QED BY <1>8, <1>9

(* What a run of the hook changes. *)
Onward(r) == Unpark(r) \/ UnparkFails(r) \/ Posted(r) \/ PostFails(r) \/ Die(r)

HookStep(r) == Look(r) \/ Onward(r)

LEMMA RunMoves ==
  ASSUME TypeOK, NEW r \in Runs, HookStep(r)
  PROVE  /\ UNCHANGED <<agent, told, talkVars, tardy>>
         /\ DOMAIN run' = Runs /\ \A q \in Runs \ {r} : run'[q] = run[q]
<1>1. UNCHANGED <<agent, told, talkVars, tardy>>
  BY DEF HookStep, Onward, Look, Unpark, UnparkFails, Posted, PostFails, Die
<1>2. \E x : run' = [run EXCEPT ![r] = x]
  BY DEF HookStep, Onward, Look, Unpark, UnparkFails, Posted, PostFails, Die
<1> QED BY <1>1, <1>2 DEF TypeOK

(* The histories of a run that looks: what it could not know. *)
Ahead(n) == IF agent = "zcode" THEN typed > n ELSE begun > n

Blind(n, S) == Reads /\ said[n] # Silent /\ \A i \in S : rows[i].turn = n => rows[i].role # Sought

Noisy(n, S) == \E i \in S : rows[i].turn = n /\ rows[i].role \in Mistakable

Finds(r, S) ==
  /\ run[r].step = "look" /\ UNCHANGED <<parked, stored, robbed, kept>>
  /\ run'[r].step = Then(run'[r].answer) /\ run'[r].prompt = Parsed(r[1], S).prompt
  /\ run'[r].answer = Parsed(r[1], S).answer
  /\ run'[r].ahead = Ahead(r[1]) /\ run'[r].blind = Blind(r[1], S)
  /\ run'[r].noisy = Noisy(r[1], S)

LEMMA LookMoves ==
  ASSUME TypeOK, NEW r \in Runs, Look(r)
  PROVE  /\ run'[r] \in Run /\ r[1] \in 1..Turns
         /\ \E S : Readable(S) /\ Finds(r, S)
         /\ faults' = faults \/ (faults < MaxFaults /\ faults' = faults + 1)
<1>1. PICK S \in {Scanned} \cup (IF Reads /\ faults < MaxFaults THEN {{}} ELSE {}) :
        /\ faults' = faults + (IF S = Scanned THEN 0 ELSE 1)
        /\ run' = [run EXCEPT ![r] =
             [@ EXCEPT !.step = Then(Parsed(r[1], S).answer), !.prompt = Parsed(r[1], S).prompt,
                       !.answer = Parsed(r[1], S).answer, !.ahead = Ahead(r[1]),
                       !.blind = Blind(r[1], S), !.noisy = Noisy(r[1], S)]]
  BY DEF Look, Ahead, Blind, Noisy
<1>2. Readable(S)
  BY <1>1 DEF Readable
<1>3. faults' = faults \/ (faults < MaxFaults /\ faults' = faults + 1)
  <2>1. S = Scanned \/ faults < MaxFaults
    BY <1>1
  <2>2. faults \in Nat
    BY CaptureAssumption DEF TypeOK
  <2> QED BY <1>1, <2>1, <2>2
<1>4. PICK over \in BOOLEAN, lost \in BOOLEAN, loud \in BOOLEAN :
        over = Ahead(r[1]) /\ lost = Blind(r[1], S) /\ loud = Noisy(r[1], S)
  <2>1. Ahead(r[1]) \in BOOLEAN
    <3>1. (typed > r[1]) \in BOOLEAN /\ (begun > r[1]) \in BOOLEAN
      OBVIOUS
    <3> QED BY <3>1, Zenon DEF Ahead
  <2>2. Blind(r[1], S) \in BOOLEAN
    BY Zenon DEF Blind
  <2>3. Noisy(r[1], S) \in BOOLEAN
    BY Zenon DEF Noisy
  <2> QED BY <2>1, <2>2, <2>3, Zenon
<1> DEFINE p == Parsed(r[1], S)
           new == [run[r] EXCEPT !.step = Then(p.answer), !.prompt = p.prompt,
                                 !.answer = p.answer, !.ahead = over, !.blind = lost, !.noisy = loud]
<1>5. run' = [run EXCEPT ![r] = new]
  BY <1>1, <1>4
<1>6. run[r].step = "look" /\ UNCHANGED <<parked, stored, robbed, kept>>
  BY DEF Look
<1>7. run \in [Runs -> Run] /\ run[r] \in Run
  BY DEF TypeOK
<1>8. r[1] \in 1..Turns
  BY DEF Runs
<1>9. p.prompt \in 0..Junk /\ p.answer \in 0..Turns
  BY <1>2, <1>8, ParsedType
<1>10. Then(p.answer) \in {"none", "look", "unpark", "post", "done"}
  BY DEF Then
<1> HIDE DEF p
<1>11. /\ new.step = Then(p.answer) /\ new.prompt = p.prompt /\ new.answer = p.answer
       /\ new.ahead = over /\ new.blind = lost /\ new.noisy = loud /\ new \in Run
  BY <1>7, <1>9, <1>10 DEF Run
<1> HIDE DEF new
<1>12. run'[r] = new
  BY <1>5, <1>7
<1>13. Finds(r, S)
  BY <1>4, <1>6, <1>11, <1>12 DEF Finds, p
<1> QED BY <1>2, <1>3, <1>8, <1>11, <1>12, <1>13

(* A run that does not look keeps what it found. *)
LEMMA StepMoves ==
  ASSUME TypeOK, NEW r \in Runs, Onward(r)
  PROVE  /\ run'[r] \in Run /\ run'[r].step \in {"post", "done"}
         /\ run'[r].step = "post" => run[r].step = "unpark" /\ (Unpark(r) \/ UnparkFails(r))
         /\ run'[r].prompt = run[r].prompt /\ run'[r].answer = run[r].answer
         /\ run'[r].ahead = run[r].ahead /\ run'[r].blind = run[r].blind
         /\ run'[r].noisy = run[r].noisy
         /\ stored' = stored \/ (stored' = stored \cup {Turn(r)} /\ run[r].step = "post"
                                 /\ run'[r].step = "done")
         /\ run[r].step \in {"look", "unpark", "post"}
         /\ r[1] \in 1..Turns
<1> DEFINE Frees == Unpark(r) \/ UnparkFails(r)
<1>1. run \in [Runs -> Run] /\ run[r] \in Run /\ r[1] \in 1..Turns
  BY DEF TypeOK, Runs
<1>2. \/ Frees /\ run' = [run EXCEPT ![r] = [run[r] EXCEPT !.step = "post"]]
      \/ ~Frees /\ run' = [run EXCEPT ![r] = [run[r] EXCEPT !.step = "done"]]
  BY <1>1 DEF Onward, Unpark, UnparkFails, Posted, PostFails, Die, Run
<1>3. /\ stored' = stored \/ (stored' = stored \cup {Turn(r)} /\ run[r].step = "post" /\ ~Frees)
      /\ run[r].step \in {"look", "unpark", "post"} /\ (Frees => run[r].step = "unpark")
  BY DEF Onward, Unpark, UnparkFails, Posted, PostFails, Die
<1>4. \/ Frees /\ run'[r] = [run[r] EXCEPT !.step = "post"]
      \/ ~Frees /\ run'[r] = [run[r] EXCEPT !.step = "done"]
  BY <1>1, <1>2
<1> HIDE DEF Frees
<1>5. run'[r] \in Run /\ run'[r].step \in {"post", "done"}
      /\ run'[r].prompt = run[r].prompt /\ run'[r].answer = run[r].answer
      /\ run'[r].ahead = run[r].ahead /\ run'[r].blind = run[r].blind
      /\ run'[r].noisy = run[r].noisy
      /\ (run'[r].step = "post" <=> Frees)
  BY <1>1, <1>4 DEF Run
<1> QED BY <1>1, <1>3, <1>5 DEF Frees

LEMMA TypeStep ==
  ASSUME TypeInv, NEW r \in Runs, HookStep(r)
  PROVE  TypeInv'
<1>1. UNCHANGED <<agent, told, talkVars, tardy>>
  BY RunMoves DEF TypeInv
<1>2. run'[r] \in Run /\ (Posting(r)' => run'[r].answer # None)
  <2>1. CASE Look(r)
    <3>1. run'[r].step = Then(run'[r].answer) /\ run'[r] \in Run
      BY <2>1, LookMoves DEF TypeInv, Finds
    <3> QED BY <3>1 DEF Posting, Then
  <2>2. CASE Onward(r)
    BY <2>2, StepMoves DEF TypeInv, Posting
  <2> QED BY <2>1, <2>2 DEF HookStep
<1>3. run' \in [Runs -> Run] /\ \A q \in Runs : Posting(q)' => run'[q].answer # None
  <2>1. \A q \in Runs : run'[q] \in Run
    BY <1>2, RunMoves DEF TypeInv, TypeOK
  <2>2. \E f : run' = [q \in Runs |-> f[q]]
    <3>1. \E x : run' = [run EXCEPT ![r] = x]
      BY DEF HookStep, Onward, Look, Unpark, UnparkFails, Posted, PostFails, Die
    <3>2. run \in [Runs -> Run]
      BY DEF TypeInv, TypeOK
    <3>3. run' = [q \in Runs |-> run'[q]]
      BY <3>1, <3>2
    <3> QED BY <3>3
  <2>3. \A q \in Runs : Posting(q)' => run'[q].answer # None
    BY <1>2, RunMoves DEF TypeInv, Posting
  <2> QED BY <2>1, <2>2, <2>3
<1>4. run[r].prompt \in 0..Junk /\ (Posting(r) => run[r].answer \in 1..Turns)
  <2>1. run[r] \in Run /\ (Posting(r) => run[r].answer # None) /\ Turns \in Nat
    BY CaptureAssumption DEF TypeInv, TypeOK
  <2> QED BY <2>1 DEF Run, None
<1>5. stored' \subseteq [prompt : 0..Junk, answer : 1..Turns, by : Runs]
  <2>1. Posting(r) => Turn(r) \in [prompt : 0..Junk, answer : 1..Turns, by : Runs]
    BY <1>4 DEF Turn
  <2>2. stored' = stored \/ (stored' = stored \cup {Turn(r)} /\ run[r].step = "post")
    BY LookMoves, StepMoves DEF TypeInv, HookStep, Finds
  <2> QED BY <2>1, <2>2 DEF TypeInv, TypeOK, Posting
<1>6. parked' \in 0..Turns /\ robbed' \subseteq 1..Turns /\ kept' \subseteq 0..Junk
  <2>1. parked' = parked \/ parked' = None
    BY DEF HookStep, Onward, Look, Unpark, UnparkFails, Posted, PostFails, Die, Take
  <2>2. robbed' = robbed \/ (robbed' = robbed \cup {parked} /\ parked > r[1])
    BY DEF HookStep, Onward, Look, Unpark, UnparkFails, Posted, PostFails, Die
  <2>3. kept' = kept \/ kept' = kept \cup {run[r].prompt}
    BY DEF HookStep, Onward, Look, Unpark, UnparkFails, Posted, PostFails, Die
  <2>4. r[1] \in 1..Turns /\ parked \in 0..Turns /\ robbed \subseteq 1..Turns /\ Turns \in Nat
        /\ kept \subseteq 0..Junk
    BY CaptureAssumption DEF TypeInv, TypeOK, Runs
  <2>5. parked > r[1] => parked \in 1..Turns
    BY <2>4
  <2>6. robbed' \subseteq 1..Turns
    BY <2>2, <2>4, <2>5
  <2>7. kept' \subseteq 0..Junk
    BY <1>4, <2>3, <2>4
  <2> QED BY <2>1, <2>4, <2>6, <2>7 DEF None
<1>7. faults' \in 0..MaxFaults
  <2>1. faults' = faults \/ (faults < MaxFaults /\ faults' = faults + 1)
    BY LookMoves DEF HookStep, Onward, Unpark, UnparkFails, Posted, PostFails, Die, TypeInv
  <2> QED BY <2>1, CaptureAssumption DEF TypeInv, TypeOK
<1>8. TypeOK'
  BY <1>1, <1>3, <1>5, <1>6, <1>7 DEF TypeInv, TypeOK, talkVars
<1> QED BY <1>3, <1>8 DEF TypeInv

LEMMA TypeType ==
  ASSUME TypeInv, NEW text \in BOOLEAN, Type(text) PROVE TypeInv'
<1>1. /\ typed' = typed + 1 /\ typed' \in 1..Turns
      /\ UNCHANGED <<agent, told, begun, said, rows, behind, run, stored, tardy, robbed, kept>>
  BY DEF Type, TypeInv, TypeOK
<1>2. worded' \subseteq 1..typed' /\ caught' \subseteq worded'
  <2>1. typed \in Nat /\ worded \subseteq 1..typed /\ caught \subseteq worded
    BY DEF TypeInv, TypeOK
  <2>2. \/ worded' = worded /\ caught' = caught
        \/ worded' = worded \cup {typed + 1} /\ caught' \in {caught, caught \cup {typed + 1}}
    BY DEF Type
  <2>3. typed' = typed + 1 /\ 1..typed \subseteq 1..(typed + 1) /\ typed + 1 \in 1..(typed + 1)
    BY <1>1, <2>1
  <2> QED BY <2>1, <2>2, <2>3
<1>3. parked' \in 0..Turns
  <2>1. parked' = parked \/ parked' = typed + 1
    BY DEF Type, ParkPrompt
  <2> QED BY <1>1, <2>1 DEF TypeInv, TypeOK
<1>4. faults' \in 0..MaxFaults
  <2>1. faults' = faults \/ (faults < MaxFaults /\ faults' = faults + 1)
    BY DEF Type
  <2> QED BY <2>1, CaptureAssumption DEF TypeInv, TypeOK
<1>5. begun' \in 0..typed'
  <2>1. begun \in 0..typed /\ typed \in Nat
    BY DEF TypeInv, TypeOK
  <2> QED BY <1>1, <2>1
<1>6. TypeOK'
  BY <1>1, <1>2, <1>3, <1>4, <1>5 DEF TypeInv, TypeOK
<1> QED BY <1>1, <1>6 DEF TypeInv, Posting

(* A row that is written. *)
LEMMA Wrote ==
  ASSUME TypeOK, NEW role \in {"user", "assistant"} \cup Kinds, NEW n \in 1..Turns, WriteRow(role, n)
  PROVE  /\ \E x \in Row : x.role = role /\ x.turn = n /\ rows' = Append(rows, x)
         /\ rows' \in Seq(Row) /\ faults' \in 0..MaxFaults
<1>1. PICK wide \in {FALSE} \cup (IF faults < MaxFaults THEN {TRUE} ELSE {}) :
        /\ rows' = Append(rows, [role |-> role, turn |-> n, wide |-> wide])
        /\ faults' = faults + (IF wide THEN 1 ELSE 0)
  BY DEF WriteRow
<1> DEFINE x == [role |-> role, turn |-> n, wide |-> wide]
<1>2. x \in Row /\ x.role = role /\ x.turn = n /\ rows' = Append(rows, x)
  BY <1>1 DEF Row
<1>3. faults' \in 0..MaxFaults
  <2>1. ~wide \/ faults < MaxFaults
    BY <1>1
  <2>2. faults \in 0..MaxFaults /\ MaxFaults \in Nat
    BY CaptureAssumption DEF TypeOK
  <2> QED BY <1>1, <2>1, <2>2
<1>4. rows' \in Seq(Row)
  <2> HIDE DEF x
  <2> QED BY <1>2 DEF TypeOK
<1> QED BY <1>2, <1>3, <1>4

(* What the agent does when a turn ends. *)
LEMMA Ended ==
  ASSUME TypeOK, NEW text \in Texts \cup {Silent}, Answer(text) \/ (Interrupt /\ text = Silent)
  PROVE  /\ said' = Append(said, text) /\ Len(said') = Len(said) + 1 /\ Len(said) < begun
         /\ said' \in Seq(Texts \cup {Silent}) /\ said'[Len(said) + 1] = text
         /\ \A k \in DOMAIN said : said'[k] = said[k]
         /\ DOMAIN said = 1..Len(said) /\ DOMAIN said' = 1..(Len(said) + 1) /\ Len(said) \in Nat
         /\ UNCHANGED <<agent, told, typed, begun, worded, caught, parked, stored, robbed, kept>>
<1>1. said' = Append(said, text) /\ Len(said) < begun
      /\ UNCHANGED <<agent, told, typed, begun, worded, caught, parked, stored, robbed, kept>>
  BY DEF Answer, Interrupt
<1>2. said \in Seq(Texts \cup {Silent})
  BY DEF TypeOK
<1> QED BY <1>1, <1>2

Talks ==
  \/ Begin \/ Interrupt \/ (\E kind \in Kinds : MachineRow(kind))
  \/ \E text \in Texts \cup {Silent} : Answer(text)
  \/ \E n \in behind : Flush(n)

(* What these do with the transcript: a row of the turn the agent is at. *)
LEMMA TalkRows ==
  ASSUME TypeOK, Talks
  PROVE  /\ \/ UNCHANGED <<rows, faults>>
            \/ \E role \in {"user", "assistant"} \cup Kinds, n \in 1..Turns : WriteRow(role, n)
         /\ begun \in Nat /\ begun <= Turns /\ Turns \in Nat /\ Len(said) \in Nat
<1>1. /\ Turns \in Nat /\ typed \in 0..Turns /\ begun \in 0..typed /\ behind \subseteq 1..Turns
      /\ said \in Seq(Texts \cup {Silent})
  BY CaptureAssumption DEF TypeOK
<1>2. begun \in Nat /\ begun <= Turns /\ Len(said) \in Nat
  BY <1>1
<1>3. CASE Begin
  <2>1. begun + 1 <= typed
    BY <1>3 DEF Begin
  <2>2. begun + 1 \in 1..Turns
    BY <1>1, <1>2, <2>1
  <2> QED BY <1>1, <1>2, <1>3, <2>2 DEF Begin
<1>4. CASE Interrupt
  BY <1>1, <1>2, <1>4 DEF Interrupt
<1>5. CASE \E kind \in Kinds : MachineRow(kind)
  <2>1. Len(said) < begun
    BY <1>5 DEF MachineRow
  <2>2. begun \in 1..Turns
    BY <1>2, <1>1, <2>1
  <2> QED BY <1>1, <1>2, <1>5, <2>2 DEF MachineRow
<1>6. CASE \E text \in Texts \cup {Silent} : Answer(text)
  <2>1. Len(said) < begun
    BY <1>6 DEF Answer
  <2>2. begun \in 1..Turns
    BY <1>2, <1>1, <2>1
  <2> QED BY <1>1, <1>2, <1>6, <2>2 DEF Answer
<1>7. CASE \E n \in behind : Flush(n)
  BY <1>1, <1>2, <1>7 DEF Flush
<1> QED BY <1>3, <1>4, <1>5, <1>6, <1>7 DEF Talks

LEMMA TypeTalk ==
  ASSUME TypeInv, Talks
  PROVE  TypeInv'
<1>1. begun \in Nat /\ begun <= Turns /\ Turns \in Nat /\ Len(said) \in Nat /\ Len(said) <= begun
  BY TalkRows DEF TypeInv, TypeOK
<1>2. /\ said' \in Seq(Texts \cup {Silent}) /\ Len(said') <= begun' /\ begun' \in 0..typed
      /\ UNCHANGED <<agent, told, typed, worded, caught, parked, stored, robbed, kept>>
  <2>1. CASE (\E kind \in Kinds : MachineRow(kind)) \/ \E n \in behind : Flush(n)
    BY <2>1 DEF MachineRow, Flush, TypeInv, TypeOK
  <2>2. CASE Interrupt \/ \E text \in Texts \cup {Silent} : Answer(text)
    <3>1. PICK text \in Texts \cup {Silent} : Answer(text) \/ (Interrupt /\ text = Silent)
      BY <2>2
    <3>2. TypeOK /\ begun \in 0..typed /\ begun \in Nat
      BY <1>1 DEF TypeInv, TypeOK
    <3>3. /\ said' \in Seq(Texts \cup {Silent}) /\ Len(said') = Len(said) + 1 /\ Len(said) < begun
          /\ UNCHANGED <<agent, told, typed, begun, worded, caught, parked, stored, robbed, kept>>
      BY <3>1, <3>2, Ended
    <3> QED BY <1>1, <3>2, <3>3
  <2>3. CASE Begin
    <3>1. /\ begun' = begun + 1 /\ begun + 1 <= typed
          /\ UNCHANGED <<agent, told, typed, worded, caught, said, parked, stored, robbed, kept>>
      BY <2>3 DEF Begin
    <3>2. typed \in Nat /\ said \in Seq(Texts \cup {Silent})
      BY DEF TypeInv, TypeOK
    <3> QED BY <1>1, <3>1, <3>2
  <2> QED BY <2>1, <2>2, <2>3 DEF Talks
<1>3. rows' \in Seq(Row) /\ faults' \in 0..MaxFaults
  BY TalkRows, Wrote DEF TypeInv, TypeOK
<1>4. behind' \subseteq 1..Turns
  <2>1. behind \subseteq 1..Turns
    BY DEF TypeInv, TypeOK
  <2>2. CASE \E text \in Texts \cup {Silent} : Answer(text)
    <3>1. begun \in 1..Turns /\ behind' \subseteq behind \cup {begun}
      BY <1>1, <2>2 DEF Answer
    <3> QED BY <2>1, <3>1
  <2>3. CASE behind' \subseteq behind
    BY <2>1, <2>3
  <2> QED BY <2>2, <2>3 DEF Talks, Begin, Interrupt, MachineRow, Flush
<1>5. run' \in [Runs -> Run] /\ \A q \in Runs : Posting(q)' => run'[q].answer # None
  <2>1. CASE UNCHANGED run
    BY <2>1 DEF TypeInv, TypeOK, Posting
  <2>2. CASE run' = [q \in Runs |-> IF q[1] = begun THEN [run[q] EXCEPT !.step = "look"] ELSE run[q]]
    <3>1. \A q \in Runs : run[q] \in Run /\ [run[q] EXCEPT !.step = "look"] \in Run
                           /\ [run[q] EXCEPT !.step = "look"].step = "look"
      BY DEF TypeInv, TypeOK, Run
    <3>2. run' \in [Runs -> Run]
      BY <2>2, <3>1
    <3>3. \A q \in Runs : run'[q] = run[q] \/ run'[q].step = "look"
      BY <2>2, <3>1
    <3> QED BY <3>2, <3>3 DEF TypeInv, Posting
  <2> QED BY <2>1, <2>2 DEF Talks, Begin, MachineRow, Interrupt, Answer, Flush
<1>6. tardy' \in BOOLEAN
  <2>1. tardy' = tardy \/ tardy' = (tardy \/ \E q \in Runs : run[q].step \notin {"none", "done"})
    BY DEF Talks, Begin, MachineRow, Interrupt, Answer, Flush
  <2> QED BY <2>1 DEF TypeInv, TypeOK
<1>7. TypeOK'
  BY <1>2, <1>3, <1>4, <1>5, <1>6 DEF TypeInv, TypeOK
<1> QED BY <1>5, <1>7 DEF TypeInv

LEMMA TypeNext == TypeInv /\ [Next]_vars => TypeInv'
<1>1. ASSUME TypeInv, UNCHANGED vars PROVE TypeInv'
  BY <1>1 DEF vars, talkVars, TypeInv, TypeOK, Posting
<1> QED BY <1>1, TypeStep, TypeType, TypeTalk DEF Next, Talks, HookStep, Onward

(* Every variable keeps its type. *)
THEOREM TypeCorrect == Spec => []TypeOK
<1>1. TypeInv => TypeOK
  BY DEF TypeInv
<1> QED BY <1>1, TypeInit, TypeNext, PTL DEF Spec

-----------------------------------------------------------------------------
(* The conversation goes on turn by turn; a run begins when its turn has   *)
(* ended, and what is stored is what a run found that is over now.         *)
Kept(r) == \E t \in stored : t.by = r

InTurn ==
  /\ begun <= Len(said) + 1
  /\ behind \subseteq {begun} /\ (behind # {} => Len(said) = begun)
  /\ agent \notin {"cursor", "workbuddy"} => told

RunsAfter ==
  \A r \in Runs : /\ r[1] > Len(said) => run[r].step = "none"
                  /\ run[r].step \in {"none", "look"} => run[r].answer = None /\ run[r].prompt = None

StoredFound ==
  \A t \in stored : /\ run[t.by].step = "done"
                    /\ t.prompt = run[t.by].prompt /\ t.answer = run[t.by].answer

TalkInv == InTurn /\ RunsAfter /\ StoredFound

LEMMA TalkInit == Init => TalkInv
<1> SUFFICES ASSUME Init PROVE TalkInv
  OBVIOUS
<1>1. \A r \in Runs : run[r].step = "none" /\ run[r].answer = None /\ run[r].prompt = None
  BY DEF Init, Fresh
<1>2. begun = 0 /\ said = <<>> /\ behind = {} /\ stored = {} /\ Len(<<>>) = 0
  BY DEF Init
<1>3. agent \notin {"cursor", "workbuddy"} => told
  BY DEF Init
<1> QED BY <1>1, <1>2, <1>3 DEF TalkInv, InTurn, RunsAfter, StoredFound

Speak == (\E text \in BOOLEAN : Type(text)) \/ Talks

(* What the conversation does to the runs. *)
LEMMA Spoken ==
  ASSUME TypeInv, TalkInv, Speak
  PROVE  /\ UNCHANGED <<agent, told, stored, robbed, kept>>
         /\ Len(said') \in Nat /\ Len(said) \in Nat /\ Len(said) <= Len(said')
         /\ typed \in Nat /\ typed' \in Nat /\ typed <= typed'
         /\ begun \in Nat /\ begun' \in Nat /\ begun <= begun' /\ begun <= typed
         /\ \/ UNCHANGED run
            \/ /\ Len(said') = begun /\ begun' = begun /\ Len(said) < begun
               /\ \A r \in Runs : /\ r[1] # begun => run'[r] = run[r]
                                  /\ r[1] = begun => run'[r] = [run[r] EXCEPT !.step = "look"]
                                                    /\ run[r].step = "none"
               /\ tardy' = (tardy \/ \E r \in Runs : run[r].step \notin {"none", "done"})
         /\ tardy => tardy'
<1>1. /\ Len(said) \in Nat /\ typed \in Nat /\ begun \in Nat /\ begun <= typed /\ Len(said) <= begun
      /\ said \in Seq(Texts \cup {Silent})
  <2>1. typed \in Nat /\ begun \in 0..typed /\ Len(said) <= begun /\ said \in Seq(Texts \cup {Silent})
    BY DEF TypeInv, TypeOK
  <2> QED BY <2>1
<1>2. begun <= Len(said) + 1
  BY DEF TalkInv, InTurn, RunsAfter, StoredFound
<1>3. CASE \/ (\E text \in BOOLEAN : Type(text)) \/ Begin
           \/ (\E kind \in Kinds : MachineRow(kind)) \/ \E n \in behind : Flush(n)
  <2>1. /\ UNCHANGED <<agent, told, stored, robbed, kept, run, said, tardy>>
        /\ typed' = typed \/ typed' = typed + 1
        /\ begun' = begun \/ begun' = begun + 1
    BY <1>3 DEF Type, Begin, MachineRow, Flush
  <2> QED BY <1>1, <2>1
<1>4. CASE Interrupt
  <2>1. UNCHANGED <<agent, told, stored, robbed, kept, run, typed, begun, tardy>>
    BY <1>4 DEF Interrupt
  <2>2. Len(said') = Len(said) + 1
    BY <1>4, Ended DEF TypeInv
  <2> QED BY <1>1, <2>1, <2>2
<1>5. CASE \E text \in Texts \cup {Silent} : Answer(text)
  <2>1. PICK text \in Texts \cup {Silent} : Answer(text)
    BY <1>5
  <2>2. /\ UNCHANGED <<agent, told, stored, robbed, kept, typed, begun>> /\ Len(said) < begun
        /\ Len(said') = Len(said) + 1
    BY <2>1, Ended DEF TypeInv
  <2>3. /\ run' = [r \in Runs |-> IF r[1] = begun THEN [run[r] EXCEPT !.step = "look"] ELSE run[r]]
        /\ tardy' = (tardy \/ \E r \in Runs : run[r].step \notin {"none", "done"})
    BY <2>1 DEF Answer
  <2>4. \A r \in Runs : r[1] = begun => run[r].step = "none"
    BY <1>1, <2>2 DEF TalkInv, InTurn, RunsAfter, StoredFound
  <2>5. \A r \in Runs : /\ r[1] # begun => run'[r] = run[r]
                        /\ r[1] = begun => run'[r] = [run[r] EXCEPT !.step = "look"]
    BY <2>3
  <2>6. tardy => tardy'
    BY <2>3
  <2> QED BY <1>1, <1>2, <2>2, <2>3, <2>4, <2>5, <2>6
<1> QED BY <1>3, <1>4, <1>5 DEF Speak, Talks

LEMMA TalkSpoken ==
  ASSUME TypeInv, TalkInv, Speak
  PROVE  TalkInv'
<1>1. Len(said) \in Nat /\ begun \in Nat /\ Len(said) <= begun
  <2>1. Len(said) <= begun
    BY DEF TypeInv, TypeOK
  <2> QED BY <2>1, Spoken
<1>2. /\ begun' <= Len(said') + 1
      /\ behind' \subseteq {begun'} /\ (behind' # {} => Len(said') = begun')
  <2>1. CASE Begin
    <3>1. begun' = begun + 1 /\ said' = said /\ Len(said) = begun /\ behind' = {}
      BY <2>1 DEF Begin
    <3> QED BY <1>1, <3>1
  <2>2. CASE \/ (\E text \in BOOLEAN : Type(text))
             \/ (\E kind \in Kinds : MachineRow(kind)) \/ \E n \in behind : Flush(n)
    <3>1. begun' = begun /\ said' = said /\ behind' \subseteq behind
      BY <2>2 DEF Type, MachineRow, Flush
    <3> QED BY <3>1 DEF TalkInv, InTurn, RunsAfter, StoredFound
  <2>3. CASE Interrupt \/ \E text \in Texts \cup {Silent} : Answer(text)
    <3>1. PICK text \in Texts \cup {Silent} : Answer(text) \/ (Interrupt /\ text = Silent)
      BY <2>3
    <3>2. Len(said') = Len(said) + 1 /\ begun' = begun /\ Len(said) < begun
      BY <3>1, Ended DEF TypeInv
    <3>3. behind = {}
      BY <1>1, <3>2 DEF TalkInv, InTurn, RunsAfter, StoredFound
    <3>4. behind' \subseteq {begun}
      BY <3>1, <3>3 DEF Answer, Interrupt
    <3> QED BY <1>1, <3>2, <3>4 DEF TalkInv, InTurn, RunsAfter, StoredFound
  <2> QED BY <2>1, <2>2, <2>3 DEF Speak, Talks
<1>3. agent' \notin {"cursor", "workbuddy"} => told'
  BY Spoken DEF TalkInv, InTurn, RunsAfter, StoredFound
<1>4. \A r \in Runs : /\ r[1] > Len(said') => run'[r].step = "none"
                      /\ run'[r].step \in {"none", "look"} => run'[r].answer = None /\ run'[r].prompt = None
  <2> SUFFICES ASSUME NEW r \in Runs
               PROVE  /\ r[1] > Len(said') => run'[r].step = "none"
                      /\ run'[r].step \in {"none", "look"} => run'[r].answer = None /\ run'[r].prompt = None
    OBVIOUS
  <2>1. r[1] \in Nat /\ run[r] \in Run
    BY CaptureAssumption DEF Runs, TypeInv, TypeOK
  <2>2. CASE run'[r] = run[r]
    BY <2>1, <2>2, Spoken DEF TalkInv, InTurn, RunsAfter, StoredFound
  <2>3. CASE run'[r] # run[r]
    <3>1. /\ run'[r] = [run[r] EXCEPT !.step = "look"] /\ run[r].step = "none" /\ r[1] = begun
          /\ Len(said') = begun
      BY <2>3, Spoken
    <3>2. run'[r].answer = run[r].answer /\ run'[r].prompt = run[r].prompt
      BY <2>1, <3>1 DEF Run
    <3> QED BY <2>1, <3>1, <3>2 DEF TalkInv, InTurn, RunsAfter, StoredFound
  <2> QED BY <2>2, <2>3
<1>5. \A t \in stored' : /\ run'[t.by].step = "done"
                         /\ t.prompt = run'[t.by].prompt /\ t.answer = run'[t.by].answer
  <2> SUFFICES ASSUME NEW t \in stored PROVE run'[t.by] = run[t.by]
    BY Spoken DEF TalkInv, InTurn, RunsAfter, StoredFound
  <2>1. t.by \in Runs /\ run[t.by].step = "done"
    BY DEF TypeInv, TypeOK, TalkInv, InTurn, RunsAfter, StoredFound
  <2> QED BY <2>1, Spoken
<1>6. InTurn'
  BY <1>2, <1>3 DEF InTurn
<1>7. RunsAfter'
  BY <1>4 DEF RunsAfter
<1>8. StoredFound'
  BY <1>5 DEF StoredFound
<1> QED BY <1>6, <1>7, <1>8 DEF TalkInv

LEMMA TalkStep ==
  ASSUME TypeInv, TalkInv, NEW r \in Runs, HookStep(r)
  PROVE  TalkInv'
<1>1. UNCHANGED <<agent, told, begun, said, behind>> /\ \A q \in Runs \ {r} : run'[q] = run[q]
  BY RunMoves DEF TypeInv, talkVars
<1>2. /\ run[r].step # "none" /\ run[r].step # "done"
      /\ run'[r].step \in {"none", "look"} => run'[r].answer = None /\ run'[r].prompt = None
  <2>1. CASE Look(r)
    <3>1. run[r].step = "look" /\ run'[r].step = Then(run'[r].answer)
      BY <2>1, LookMoves DEF TypeInv, Finds
    <3> QED BY <3>1 DEF Then
  <2>2. CASE Onward(r)
    BY <2>2, StepMoves DEF TypeInv
  <2> QED BY <2>1, <2>2 DEF HookStep
<1>3. \A t \in stored : t.by \in Runs /\ t.by # r
  BY <1>2 DEF TalkInv, InTurn, RunsAfter, StoredFound, TypeInv, TypeOK
<1>4. \A t \in stored' : /\ run'[t.by].step = "done"
                         /\ t.prompt = run'[t.by].prompt /\ t.answer = run'[t.by].answer
  <2>1. CASE stored' = stored
    BY <1>1, <1>3, <2>1 DEF TalkInv, InTurn, RunsAfter, StoredFound
  <2>2. CASE stored' # stored
    <3>1. /\ stored' = stored \cup {Turn(r)} /\ run'[r].step = "done"
          /\ run'[r].prompt = run[r].prompt /\ run'[r].answer = run[r].answer
      BY <2>2, LookMoves, StepMoves DEF TypeInv, HookStep, Finds
    <3>2. Turn(r).by = r /\ Turn(r).prompt = run[r].prompt /\ Turn(r).answer = run[r].answer
      BY DEF Turn
    <3> QED BY <1>1, <1>3, <3>1, <3>2 DEF TalkInv, InTurn, RunsAfter, StoredFound
  <2> QED BY <2>1, <2>2
<1> QED BY <1>1, <1>2, <1>4 DEF TalkInv, InTurn, RunsAfter, StoredFound

LEMMA TalkNext == TypeInv /\ TalkInv /\ [Next]_vars => TalkInv'
<1>1. ASSUME TalkInv, UNCHANGED vars PROVE TalkInv'
  BY <1>1 DEF vars, talkVars, TalkInv, InTurn, RunsAfter, StoredFound
<1> QED BY <1>1, TalkSpoken, TalkStep DEF Next, Speak, Talks, HookStep, Onward

-----------------------------------------------------------------------------
(* ParkedOnce: while no turn ends before the runs of the last are over, the *)
(* runs at work are those of one turn; what they found in the sidecar is    *)
(* stored after it was removed, so no later run finds it again; unless its *)
(* removal failed.                                                         *)
Active(r) == run[r].step \notin {"none", "done"}

TypedPrompts == parked <= typed /\ \A r \in Runs : run[r].prompt <= typed

OwnAnswers == \A r \in Runs : run[r].answer \in {None, r[1]}

OneTurn == \A r, q \in Runs : Active(r) /\ Active(q) => r[1] = q[1]

Removed ==
  \A r \in Runs : run[r].step = "post" \/ Kept(r) =>
                  run[r].prompt \in kept \cup {None} \/ run[r].prompt # parked

Shared(r, q) ==
  /\ Kept(q) /\ (Kept(r) \/ Posting(r))
  /\ run[r].prompt \notin kept \cup {None} /\ run[r].prompt = run[q].prompt

SharedInTurn == \A r, q \in Runs : Shared(r, q) => r[1] = q[1]

Once == TypedPrompts /\ OwnAnswers /\ OneTurn /\ Removed /\ SharedInTurn

OnceInv == agent = "zcode" /\ ~tardy => Once

LEMMA OnceInit == Init => OnceInv
<1> SUFFICES ASSUME Init PROVE Once
  BY DEF OnceInv
<1>1. \A r \in Runs : run[r].prompt = 0 /\ run[r].answer = None /\ run[r].step = "none" /\ ~Kept(r)
  BY DEF Init, Fresh, None, Kept
<1>2. parked = 0 /\ typed = 0
  BY DEF Init, None
<1> QED BY <1>1, <1>2 DEF Once, TypedPrompts, OwnAnswers, OneTurn, Removed, SharedInTurn, Shared, Active, Posting

LEMMA OnceSpoken ==
  ASSUME TypeInv, TalkInv, OnceInv, Speak
  PROVE  OnceInv'
<1> SUFFICES ASSUME agent' = "zcode", ~tardy' PROVE Once'
  BY DEF OnceInv
<1>1. Once
  BY Spoken DEF OnceInv
<1>2. /\ typed \in Nat /\ typed' \in Nat /\ typed <= typed' /\ stored' = stored /\ kept' = kept
      /\ \A r \in Runs : run[r].prompt \in Nat /\ run[r] \in Run
      /\ parked \in Nat
  <2>1. \A r \in Runs : run[r] \in Run
    BY DEF TypeInv, TypeOK
  <2>2. parked \in Nat
    BY DEF TypeInv, TypeOK
  <2> QED BY <2>1, <2>2, Spoken DEF Run
<1>3. parked' = parked \/ (parked' = typed + 1 /\ typed' = typed + 1)
  BY DEF Speak, Talks, Type, ParkPrompt, Begin, MachineRow, Interrupt, Answer, Flush
<1>4. \A r \in Runs : /\ run'[r].prompt = run[r].prompt /\ run'[r].answer = run[r].answer
                      /\ run'[r].step = run[r].step \/ (run'[r].step = "look" /\ run[r].step = "none")
  <2> SUFFICES ASSUME NEW r \in Runs
               PROVE  /\ run'[r].prompt = run[r].prompt /\ run'[r].answer = run[r].answer
                      /\ run'[r].step = run[r].step \/ (run'[r].step = "look" /\ run[r].step = "none")
    OBVIOUS
  <2>1. run'[r] = run[r] \/ (run'[r] = [run[r] EXCEPT !.step = "look"] /\ run[r].step = "none")
    BY Spoken
  <2> QED BY <1>2, <2>1 DEF Run
<1>5. \A r \in Runs : (Kept(r)' <=> Kept(r)) /\ (Posting(r)' => Posting(r))
                     /\ (run'[r].step = "post" => run[r].step = "post")
  BY <1>2, <1>4 DEF Kept, Posting
<1>6. \A r, q \in Runs : Active(r)' /\ Active(q)' => r[1] = q[1]
  <2>1. CASE UNCHANGED run
    BY <1>1, <2>1 DEF Once, OneTurn, Active
  <2>2. CASE ~UNCHANGED run
    <3>1. \A r \in Runs : r[1] # begun => run'[r] = run[r]
      BY <2>2, Spoken
    <3>2. \A r \in Runs : ~Active(r)
      <4>1. tardy' = (tardy \/ \E r \in Runs : run[r].step \notin {"none", "done"})
        BY <2>2, Spoken
      <4> QED BY <4>1 DEF Active
    <3> QED BY <3>1, <3>2 DEF Active
  <2> QED BY <2>1, <2>2
<1>7. TypedPrompts'
  <2>1. parked' <= typed'
    BY <1>1, <1>2, <1>3 DEF Once, TypedPrompts
  <2>2. ASSUME NEW r \in Runs PROVE run'[r].prompt <= typed'
    <3>1. run[r].prompt <= typed /\ run'[r].prompt = run[r].prompt
      BY <1>1, <1>4 DEF Once, TypedPrompts
    <3> QED BY <1>2, <3>1
  <2> QED BY <2>1, <2>2 DEF TypedPrompts
<1>8. OwnAnswers'
  BY <1>1, <1>4 DEF Once, OwnAnswers
<1>9. Removed'
  <2> SUFFICES ASSUME NEW r \in Runs, run'[r].step = "post" \/ Kept(r)'
               PROVE  run'[r].prompt \in kept \cup {None} \/ run'[r].prompt # parked'
    BY <1>2 DEF Removed
  <2>1. run[r].prompt \in kept \cup {None} \/ run[r].prompt # parked
    BY <1>1, <1>5 DEF Once, Removed
  <2>2. run[r].prompt <= typed /\ run'[r].prompt = run[r].prompt
    BY <1>1, <1>4 DEF Once, TypedPrompts
  <2> QED BY <1>2, <1>3, <2>1, <2>2
<1>10. SharedInTurn'
  <2> SUFFICES ASSUME NEW r \in Runs, NEW q \in Runs, Shared(r, q)' PROVE r[1] = q[1]
    BY DEF SharedInTurn
  <2>1. Shared(r, q)
    BY <1>2, <1>4, <1>5 DEF Shared
  <2> QED BY <1>1, <2>1 DEF Once, SharedInTurn
<1>11. OneTurn'
  BY <1>6 DEF OneTurn
<1> QED BY <1>7, <1>8, <1>9, <1>10, <1>11 DEF Once

LEMMA OnceStep ==
  ASSUME TypeInv, TalkInv, OnceInv, NEW r \in Runs, HookStep(r)
  PROVE  OnceInv'
<1> SUFFICES ASSUME agent' = "zcode", ~tardy' PROVE Once'
  BY DEF OnceInv
<1>1. /\ UNCHANGED <<agent, told, typed, tardy>> /\ \A q \in Runs \ {r} : run'[q] = run[q]
  BY RunMoves DEF TypeInv, talkVars
<1>2. Once /\ agent = "zcode" /\ TypeOK
  BY <1>1 DEF OnceInv, TypeInv
<1>3. typed \in Nat /\ parked \in Nat
  BY <1>2 DEF TypeOK
<1>4. CASE Look(r)
  <2>0. PICK S : Finds(r, S)
    BY <1>2, <1>4, LookMoves
  <2>1. /\ run[r].step = "look" /\ UNCHANGED <<parked, stored, kept>>
        /\ run'[r].step = Then(run'[r].answer) /\ run'[r].prompt = Parsed(r[1], S).prompt
        /\ run'[r].answer = Parsed(r[1], S).answer
    BY <2>0 DEF Finds
  <2>2. Parsed(r[1], S) = ParseZCode(r[1])
    BY <1>2 DEF Parsed
  <2>3. run'[r].prompt = parked /\ run'[r].answer = Payload(r[1])
    BY <2>1, <2>2 DEF ParseZCode
  <2>4. run'[r].answer \in {None, r[1]}
    BY <2>3 DEF Payload
  <2>5. run'[r].step = "post" => run'[r].prompt = None
    BY <1>2, <2>1, <2>3 DEF Then
  <2>6. ~Kept(r) /\ \A q \in Runs : Kept(q)' <=> Kept(q)
    BY <2>1 DEF Kept, TalkInv, StoredFound
  <2>7. Active(r) /\ \A q \in Runs : Active(q)' => Active(q)
    BY <1>1, <2>1 DEF Active
  <2>8. \A q \in Runs : Posting(q)' /\ q # r => Posting(q)
    BY <1>1 DEF Posting
  <2>9. TypedPrompts' /\ OwnAnswers'
    BY <1>1, <1>2, <2>1, <2>3, <2>4 DEF Once, TypedPrompts, OwnAnswers
  <2>10. Removed'
    BY <1>1, <1>2, <2>1, <2>5, <2>6 DEF Once, Removed
  <2>11. SharedInTurn'
    <3> SUFFICES ASSUME NEW p \in Runs, NEW q \in Runs, Shared(p, q)' PROVE p[1] = q[1]
      BY DEF SharedInTurn
    <3>1. Kept(q) /\ q # r /\ run'[q] = run[q]
      BY <1>1, <2>6 DEF Shared
    <3>2. CASE p = r
      BY <1>2, <2>1, <2>3, <3>1, <3>2 DEF Once, Removed, Shared
    <3>3. CASE p # r
      <4>1. Shared(p, q)
        BY <1>1, <2>1, <2>6, <2>8, <3>1, <3>3 DEF Shared
      <4> QED BY <1>2, <4>1 DEF Once, SharedInTurn
    <3> QED BY <3>2, <3>3
  <2>12. OneTurn'
    BY <1>2, <2>7 DEF Once, OneTurn
  <2> QED BY <2>9, <2>10, <2>11, <2>12 DEF Once
<1>5. CASE Onward(r)
  <2>1. /\ run'[r].prompt = run[r].prompt /\ run'[r].answer = run[r].answer
        /\ run'[r].step \in {"post", "done"}
        /\ run'[r].step = "post" => run[r].step = "unpark" /\ (Unpark(r) \/ UnparkFails(r))
        /\ stored' = stored \/ (stored' = stored \cup {Turn(r)} /\ run[r].step = "post")
        /\ run[r].step \in {"look", "unpark", "post"}
    BY <1>2, <1>5, StepMoves
  <2>2. (parked' = parked \/ parked' = None) /\ kept \subseteq kept'
    BY <1>5 DEF Onward, Unpark, UnparkFails, Posted, PostFails, Die, Take
  <2>3. \A q \in Runs : run'[q].prompt = run[q].prompt /\ run'[q].answer = run[q].answer
    BY <1>1, <2>1
  <2>4. Turn(r).by = r
    BY DEF Turn
  <2>5. \A q \in Runs : Kept(q)' => Kept(q) \/ (q = r /\ run[r].step = "post")
    BY <2>1, <2>4 DEF Kept
  <2>6. \A q \in Runs : (Active(q)' => Active(q)) /\ (Posting(q)' => Posting(q))
    BY <1>1, <2>1 DEF Active, Posting
  <2>7. run'[r].step = "post" => parked' = None \/ run[r].prompt \in kept'
    BY <2>1 DEF Unpark, UnparkFails, Take
  <2>8. \A q \in Runs : run'[q].step = "post" =>
                        run[q].step = "post" \/ parked' = None \/ run[q].prompt \in kept'
    BY <1>1, <2>7
  <2>9. Removed'
    BY <1>2, <2>2, <2>3, <2>5, <2>8 DEF Once, Removed
  <2>10. SharedInTurn'
    <3> SUFFICES ASSUME NEW p \in Runs, NEW q \in Runs, Shared(p, q)' PROVE p[1] = q[1]
      BY DEF SharedInTurn
    <3>0. run[p].prompt \notin kept \cup {None} /\ run[p].prompt = run[q].prompt
      BY <2>2, <2>3 DEF Shared
    <3>1. Kept(p) \/ Posting(p)
      BY <2>5, <2>6 DEF Shared, Posting
    <3>2. Kept(q) \/ (q = r /\ run[q].step = "post")
      BY <2>5 DEF Shared
    <3>3. CASE Kept(q)
      BY <1>2, <3>0, <3>1, <3>3 DEF Once, SharedInTurn, Shared
    <3>4. CASE Kept(p) /\ q = r /\ run[q].step = "post"
      BY <1>2, <3>0, <3>4 DEF Once, SharedInTurn, Shared, Posting
    <3>5. CASE Posting(p) /\ q = r /\ run[q].step = "post"
      BY <1>2, <3>5 DEF Once, OneTurn, Posting, Active
    <3> QED BY <3>1, <3>2, <3>3, <3>4, <3>5
  <2>11. TypedPrompts' /\ OwnAnswers'
    BY <1>1, <1>2, <1>3, <2>2, <2>3 DEF Once, TypedPrompts, OwnAnswers, None
  <2>12. OneTurn'
    BY <1>2, <2>6 DEF Once, OneTurn
  <2> QED BY <2>9, <2>10, <2>11, <2>12 DEF Once
<1> QED BY <1>4, <1>5 DEF HookStep

LEMMA OnceNext == TypeInv /\ TalkInv /\ OnceInv /\ [Next]_vars => OnceInv'
<1>1. ASSUME OnceInv, UNCHANGED vars PROVE OnceInv'
  BY <1>1 DEF vars, talkVars, OnceInv, Once, TypedPrompts, OwnAnswers, OneTurn, Removed, SharedInTurn, Shared, Active, Kept, Posting
<1> QED BY <1>1, OnceSpoken, OnceStep DEF Next, Speak, Talks, HookStep, Onward

(***************************************************************************)
(* A prompt that zcode parked is stored with one answer only, if no turn   *)
(* ends before the runs of the last are over and its file can be removed:  *)
(* however the posts fail, the runs die, and prompts are not caught.       *)
(***************************************************************************)
THEOREM StoredOnce == Spec => []ParkedOnce
<1>1. TypeInv /\ TalkInv /\ OnceInv => ParkedOnce
  <2> SUFFICES ASSUME TypeInv, TalkInv, Once, NEW t \in stored, NEW u \in stored,
                      t.prompt \notin kept \cup {None}, t.prompt = u.prompt
               PROVE  t.answer = u.answer
    BY DEF OnceInv, ParkedOnce
  <2>1. t.by \in Runs /\ u.by \in Runs /\ t.answer # None /\ u.answer # None
    BY CaptureAssumption DEF TypeInv, TypeOK, None
  <2>2. /\ t.prompt = run[t.by].prompt /\ t.answer = run[t.by].answer
        /\ u.prompt = run[u.by].prompt /\ u.answer = run[u.by].answer
    BY DEF TalkInv, InTurn, RunsAfter, StoredFound
  <2>3. t.by[1] = u.by[1]
    BY <2>1, <2>2 DEF Once, SharedInTurn, Shared, Kept
  <2> QED BY <2>1, <2>2, <2>3 DEF Once, OwnAnswers
<1> QED BY <1>1, TypeInit, TypeNext, TalkInit, TalkNext, OnceInit, OnceNext, PTL DEF Spec

-----------------------------------------------------------------------------
(* The transcript: its rows stand in the order of the turns, the prompt of *)
(* a turn before its answer, and all are there but an answer that is still *)
(* behind.                                                                 *)
Talk(i) == rows[i].role \notin Kinds

Before(x, y) ==
  x.turn < y.turn \/ (x.turn = y.turn /\ x.role = "user" /\ y.role = "assistant")

Written == {n \in DOMAIN said : said[n] # Silent /\ n \notin behind}

Asked == {n \in worded : n <= begun}

RowsOrdered ==
  \A i, j \in DOMAIN rows :
    i < j => /\ rows[i].turn <= rows[j].turn
             /\ Talk(i) /\ Talk(j) => Before(rows[i], rows[j])

RowsTrue ==
  \A i \in DOMAIN rows : /\ rows[i].turn <= begun
                         /\ rows[i].role = "user" => rows[i].turn \in Asked
                         /\ rows[i].role = "assistant" => rows[i].turn \in Written

AllUserRows == \A n \in Asked : \E i \in DOMAIN rows : rows[i].role = "user" /\ rows[i].turn = n

AllAnswerRows ==
  \A n \in Written : \E i \in DOMAIN rows : rows[i].role = "assistant" /\ rows[i].turn = n

BehindSaid == \A n \in behind : n \in DOMAIN said /\ said[n] # Silent

RowsHold == RowsOrdered /\ RowsTrue /\ AllUserRows /\ AllAnswerRows

RowsInv == BehindSaid /\ (Reads => RowsHold)

LEMMA RowsInit == Init => RowsInv
<1> SUFFICES ASSUME Init PROVE RowsInv
  OBVIOUS
<1>1. rows = <<>> /\ said = <<>> /\ worded = {} /\ behind = {}
  BY DEF Init
<1>2. DOMAIN rows = {} /\ DOMAIN said = {}
  BY <1>1
<1> QED BY <1>1, <1>2 DEF RowsInv, RowsHold, RowsOrdered, RowsTrue, AllUserRows, AllAnswerRows,
           BehindSaid, Written, Asked

(* The turns of the rows are past or present. *)
LEMMA RowTurns ==
  ASSUME TypeOK, NEW i \in DOMAIN rows
  PROVE  /\ rows[i].turn \in Nat /\ rows[i].role \in {"user", "assistant"} \cup Kinds
         /\ Talk(i) <=> rows[i].role \in {"user", "assistant"}
<1>1. rows \in Seq(Row) /\ Turns \in Nat
  BY CaptureAssumption DEF TypeOK
<1>2. rows[i] \in Row
  BY <1>1
<1>3. rows[i].turn \in 1..Turns /\ rows[i].role \in {"user", "assistant"} \cup Kinds
  BY <1>2 DEF Row
<1>4. rows[i].turn \in Nat
  BY <1>1, <1>3
<1> QED BY <1>3, <1>4 DEF Talk, Kinds

(* One row more: its place among the others, and what it adds. *)
LEMMA RowsGrow ==
  ASSUME TypeInv, RowsHold, NEW x \in Row, rows' = Append(rows, x),
         \A i \in DOMAIN rows :
           /\ rows[i].turn <= x.turn
           /\ Talk(i) /\ x.role \notin Kinds => Before(rows[i], x),
         begun \in Nat, begun' \in Nat, begun <= begun', x.turn <= begun',
         Asked' = IF x.role = "user" THEN Asked \cup {x.turn} ELSE Asked,
         Written' = IF x.role = "assistant" THEN Written \cup {x.turn} ELSE Written
  PROVE  RowsHold'
<1> DEFINE l == Len(rows) + 1
<1>1. /\ rows \in Seq(Row) /\ Len(rows) \in Nat /\ DOMAIN rows = 1..Len(rows)
  BY DEF TypeInv, TypeOK
<1>2. /\ DOMAIN rows' = DOMAIN rows \cup {l} /\ rows'[l] = x /\ l \notin DOMAIN rows
      /\ \A i \in DOMAIN rows : rows'[i] = rows[i] /\ i < l /\ ~(l < i)
  BY <1>1
<1>3. ~(l < l)
  BY <1>1
<1> HIDE DEF l
<1>4. RowsOrdered'
  <2> SUFFICES ASSUME NEW i \in DOMAIN rows', NEW j \in DOMAIN rows', i < j
               PROVE  /\ rows'[i].turn <= rows'[j].turn
                      /\ rows'[i].role \notin Kinds /\ rows'[j].role \notin Kinds =>
                           Before(rows'[i], rows'[j])
    BY DEF RowsOrdered, Talk, Before
  <2>1. i # l
    BY <1>2, <1>3
  <2>2. i \in DOMAIN rows /\ rows'[i] = rows[i]
    BY <1>2, <2>1
  <2>3. CASE j = l
    BY <1>2, <2>2, <2>3 DEF Talk
  <2>4. CASE j # l
    BY <1>2, <2>2, <2>4 DEF RowsHold, RowsOrdered, Talk
  <2> QED BY <2>3, <2>4
<1>5. RowsTrue'
  <2> SUFFICES ASSUME NEW i \in DOMAIN rows'
               PROVE  /\ rows'[i].turn <= begun'
                      /\ rows'[i].role = "user" => rows'[i].turn \in Asked'
                      /\ rows'[i].role = "assistant" => rows'[i].turn \in Written'
    BY DEF RowsTrue
  <2>1. CASE i = l
    BY <1>2, <2>1
  <2>2. CASE i # l
    <3>1. i \in DOMAIN rows /\ rows'[i] = rows[i] /\ rows[i].turn \in Nat
      BY <1>2, <2>2, RowTurns DEF TypeInv
    <3>2. Asked \subseteq Asked' /\ Written \subseteq Written'
      OBVIOUS
    <3>3. rows[i].turn <= begun
      BY <3>1 DEF RowsHold, RowsTrue
    <3>4. rows[i].turn <= begun'
      BY <3>1, <3>3
    <3> QED BY <3>1, <3>2, <3>4 DEF RowsHold, RowsTrue
  <2> QED BY <2>1, <2>2
<1>6. AllUserRows'
  <2> SUFFICES ASSUME NEW n \in Asked'
               PROVE  \E i \in DOMAIN rows' : rows'[i].role = "user" /\ rows'[i].turn = n
    BY DEF AllUserRows
  <2>1. CASE n \in Asked
    BY <1>2, <2>1 DEF RowsHold, AllUserRows
  <2>2. CASE n \notin Asked
    <3>1. x.role = "user" /\ x.turn = n
      BY <2>2
    <3> QED BY <1>2, <3>1
  <2> QED BY <2>1, <2>2
<1>7. AllAnswerRows'
  <2> SUFFICES ASSUME NEW n \in Written'
               PROVE  \E i \in DOMAIN rows' : rows'[i].role = "assistant" /\ rows'[i].turn = n
    BY DEF AllAnswerRows
  <2>1. CASE n \in Written
    BY <1>2, <2>1 DEF RowsHold, AllAnswerRows
  <2>2. CASE n \notin Written
    <3>1. x.role = "assistant" /\ x.turn = n
      BY <2>2
    <3> QED BY <1>2, <3>1
  <2> QED BY <2>1, <2>2
<1> QED BY <1>4, <1>5, <1>6, <1>7 DEF RowsHold

LEMMA RowsSame ==
  ASSUME TypeInv, RowsHold, UNCHANGED rows, Asked' = Asked, Written' = Written,
         begun \in Nat, begun' \in Nat, begun <= begun'
  PROVE  RowsHold'
<1>1. RowsOrdered' /\ AllUserRows' /\ AllAnswerRows'
  BY DEF RowsHold, RowsOrdered, AllUserRows, AllAnswerRows, Talk, Before
<1>2. ASSUME NEW i \in DOMAIN rows PROVE rows[i].turn <= begun'
  <2>1. rows[i].turn \in Nat /\ rows[i].turn <= begun
    BY RowTurns DEF TypeInv, RowsHold, RowsTrue
  <2> QED BY <2>1
<1>3. RowsTrue'
  BY <1>2 DEF RowsHold, RowsTrue
<1> QED BY <1>1, <1>3 DEF RowsHold

LEMMA RowsSpoken ==
  ASSUME TypeInv, TalkInv, RowsInv, Speak
  PROVE  RowsInv'
<1>1. /\ typed \in Nat /\ begun \in Nat /\ begun' \in Nat /\ begun <= begun' /\ begun <= typed
      /\ Turns \in Nat /\ begun <= Turns /\ said \in Seq(Texts \cup {Silent}) /\ Len(said) \in Nat
      /\ DOMAIN said = 1..Len(said) /\ Len(said) <= begun /\ begun <= Len(said) + 1
      /\ behind \subseteq {begun} /\ (behind # {} => Len(said) = begun) /\ UNCHANGED agent
  <2>1. /\ Turns \in Nat /\ typed \in 0..Turns /\ said \in Seq(Texts \cup {Silent})
        /\ Len(said) <= begun /\ begun <= Len(said) + 1
        /\ behind \subseteq {begun} /\ (behind # {} => Len(said) = begun)
    BY CaptureAssumption DEF TypeInv, TypeOK, TalkInv, InTurn
  <2>2. /\ typed \in Nat /\ begun \in Nat /\ begun' \in Nat /\ begun <= begun' /\ begun <= typed
        /\ UNCHANGED agent
    BY Spoken
  <2> QED BY <2>1, <2>2
<1>0. /\ typed \in Nat /\ begun \in Nat /\ Turns \in Nat /\ begun <= typed /\ begun <= Turns
      /\ Len(said) \in Nat /\ Len(said) <= begun /\ begun <= Len(said) + 1
  BY <1>1
<1>2. Reads' = Reads
  BY <1>1 DEF Reads
<1>3. \A k \in worded : k \in Nat /\ k <= typed
  <2>1. worded \subseteq 1..typed
    BY DEF TypeInv, TypeOK
  <2> QED BY <1>0, <2>1
<1>4. ASSUME UNCHANGED <<rows, begun>>, Asked' = Asked, UNCHANGED <<said, behind>>
      PROVE  RowsInv'
  <2>1. Written' = Written /\ BehindSaid'
    BY <1>4 DEF Written, BehindSaid, RowsInv
  <2> QED BY <1>1, <1>2, <1>4, <2>1, RowsSame DEF RowsInv
<1>5. CASE \E text \in BOOLEAN : Type(text)
  <2>1. /\ UNCHANGED <<rows, begun, said, behind>>
        /\ worded' = worded \/ worded' = worded \cup {typed + 1}
    BY <1>5 DEF Type
  <2>2. ~(typed + 1 <= begun)
    BY <1>0
  <2>3. Asked' = Asked
    BY <2>1, <2>2 DEF Asked
  <2> QED BY <1>4, <2>1, <2>3
<1>6. CASE Begin
  <2> DEFINE n == begun + 1
  <2>1. /\ begun' = n /\ n <= typed /\ UNCHANGED <<said, behind, worded>>
        /\ IF Reads /\ n \in worded THEN WriteRow("user", n) ELSE UNCHANGED rows
    BY <1>6 DEF Begin
  <2>2. n \in 1..Turns
    <3>1. typed \in 0..Turns /\ n <= typed
      BY <2>1 DEF TypeInv, TypeOK
    <3> QED BY <1>0, <3>1
  <2>3. Written' = Written /\ BehindSaid'
    BY <2>1 DEF Written, BehindSaid, RowsInv
  <2>4. Asked' = IF n \in worded THEN Asked \cup {n} ELSE Asked
    <3>1. \A k \in worded : k <= n <=> k <= begun \/ k = n
      BY <1>0, <1>3
    <3> QED BY <2>1, <3>1 DEF Asked
  <2>5. CASE ~Reads
    BY <1>2, <2>3, <2>5 DEF RowsInv
  <2>6. CASE Reads /\ n \notin worded
    BY <1>1, <1>2, <2>1, <2>3, <2>4, <2>6, RowsSame DEF RowsInv
  <2>7. CASE Reads /\ n \in worded
    <3>1. PICK x \in Row : x.role = "user" /\ x.turn = n /\ rows' = Append(rows, x)
      BY <2>1, <2>2, <2>7, Wrote DEF TypeInv
    <3>2. ASSUME NEW i \in DOMAIN rows PROVE rows[i].turn <= n /\ rows[i].turn < n
      <4>1. rows[i].turn \in Nat /\ rows[i].turn <= begun
        BY <2>7, RowTurns DEF TypeInv, RowsInv, RowsHold, RowsTrue
      <4> QED BY <1>0, <4>1
    <3>0. n \in Nat /\ n <= n
      BY <1>0
    <3> HIDE DEF n
    <3>3. \A i \in DOMAIN rows : rows[i].turn <= x.turn /\ Before(rows[i], x)
      BY <3>1, <3>2 DEF Before
    <3>4. x.turn <= begun'
      BY <2>1, <3>0, <3>1
    <3>5. RowsHold'
      BY <1>1, <2>3, <2>4, <2>7, <3>1, <3>3, <3>4, RowsGrow DEF RowsInv
    <3> QED BY <1>2, <2>3, <3>5 DEF RowsInv
  <2> QED BY <2>5, <2>6, <2>7
<1>7. CASE \E kind \in Kinds : MachineRow(kind)
  <2>1. PICK kind \in Kinds : MachineRow(kind)
    BY <1>7
  <2>2. /\ WriteRow(kind, begun) /\ UNCHANGED <<said, behind, worded, begun>> /\ begun \in 1..Turns
        /\ Reads
    <3>1. Len(said) < begun
      BY <2>1 DEF MachineRow
    <3>2. begun \in 1..Turns
      BY <1>0, <3>1
    <3> QED BY <2>1, <3>2 DEF MachineRow
  <2>3. PICK x \in Row : x.role = kind /\ x.turn = begun /\ rows' = Append(rows, x)
    BY <2>2, Wrote DEF TypeInv
  <2>4. Written' = Written /\ BehindSaid' /\ Asked' = Asked
    BY <2>2 DEF Written, BehindSaid, RowsInv, Asked
  <2>5. kind \notin {"user", "assistant"}
    BY DEF Kinds
  <2>6. \A i \in DOMAIN rows : rows[i].turn <= x.turn
    BY <2>2, <2>3 DEF RowsInv, RowsHold, RowsTrue
  <2>7. RowsHold'
    BY <1>1, <2>2, <2>3, <2>4, <2>5, <2>6, RowsGrow DEF RowsInv
  <2> QED BY <1>2, <2>4, <2>7 DEF RowsInv
(* The answer of turn begun comes after all rows there are. *)
<1>8. ASSUME begun \notin Written, begun \in 1..Turns, UNCHANGED <<worded, begun>>,
             WriteRow("assistant", begun), Written' = Written \cup {begun}, Reads
      PROVE  RowsHold'
  <2>1. PICK x \in Row : x.role = "assistant" /\ x.turn = begun /\ rows' = Append(rows, x)
    BY <1>8, Wrote DEF TypeInv
  <2>2. \A i \in DOMAIN rows : rows[i].turn <= x.turn /\ (Talk(i) => Before(rows[i], x))
    <3> SUFFICES ASSUME NEW i \in DOMAIN rows
                 PROVE  rows[i].turn <= x.turn /\ (Talk(i) => Before(rows[i], x))
      OBVIOUS
    <3>1. rows[i].turn \in Nat /\ rows[i].turn <= begun
          /\ (Talk(i) => rows[i].role \in {"user", "assistant"})
      BY <1>8, RowTurns DEF TypeInv, RowsInv, RowsHold, RowsTrue
    <3>2. rows[i].role = "assistant" => rows[i].turn # begun
      BY <1>8 DEF RowsInv, RowsHold, RowsTrue
    <3>3. CASE rows[i].turn = begun
      BY <2>1, <3>1, <3>2, <3>3 DEF Before
    <3>4. CASE rows[i].turn # begun
      <4>1. rows[i].turn < begun
        BY <1>0, <3>1, <3>4
      <4> QED BY <2>1, <3>1, <4>1 DEF Before
    <3> QED BY <3>3, <3>4
  <2>3. Asked' = Asked
    BY <1>8 DEF Asked
  <2> QED BY <1>1, <1>8, <2>1, <2>2, <2>3, RowsGrow DEF RowsInv
<1>9. CASE Interrupt \/ \E text \in Texts \cup {Silent} : Answer(text)
  <2>1. PICK text \in Texts \cup {Silent} : Answer(text) \/ (Interrupt /\ text = Silent)
    BY <1>9
  <2>2. /\ Len(said) < begun /\ said'[Len(said) + 1] = text /\ UNCHANGED <<worded, begun>>
        /\ \A k \in DOMAIN said : said'[k] = said[k]
        /\ DOMAIN said' = 1..(Len(said) + 1)
    BY <2>1, Ended DEF TypeInv
  <2>3. /\ begun = Len(said) + 1 /\ behind = {} /\ begun \in 1..Turns
        /\ DOMAIN said' = DOMAIN said \cup {begun} /\ begun \notin DOMAIN said
    <3>1. begun = Len(said) + 1 /\ Len(said) # begun
      <4>1. Len(said) < begun
        BY <2>2
      <4> QED BY <1>0, <4>1
    <3>2. behind = {}
      BY <1>1, <3>1
    <3>3. /\ begun \in 1..Turns /\ 1..(Len(said) + 1) = 1..Len(said) \cup {begun}
          /\ begun \notin 1..Len(said)
      BY <1>0, <3>1
    <3> QED BY <1>1, <2>2, <3>1, <3>2, <3>3
  <2>4. said'[begun] = text /\ begun \notin Written /\ Asked' = Asked
    BY <2>2, <2>3 DEF Written, Asked
  <2>5. CASE UNCHANGED <<rows, behind>> /\ (text = Silent \/ ~Reads)
    <3>1. BehindSaid' /\ (text = Silent => Written' = Written)
      BY <2>2, <2>3, <2>4, <2>5 DEF Written, BehindSaid
    <3> QED BY <1>1, <1>2, <2>2, <2>4, <2>5, <3>1, RowsSame DEF RowsInv
  <2>6. CASE text # Silent /\ Reads /\ WriteRow("assistant", begun) /\ UNCHANGED behind
    <3>1. Written' = Written \cup {begun} /\ BehindSaid'
      BY <2>2, <2>3, <2>4, <2>6 DEF Written, BehindSaid
    <3> QED BY <1>8, <2>2, <2>3, <2>4, <2>6, <3>1 DEF RowsInv
  <2>7. CASE text # Silent /\ behind' = behind \cup {begun} /\ UNCHANGED rows
    <3>1. Written' = Written /\ BehindSaid'
      BY <2>2, <2>3, <2>4, <2>7 DEF Written, BehindSaid
    <3> QED BY <1>1, <1>2, <2>2, <2>4, <2>7, <3>1, RowsSame DEF RowsInv
  <2> QED BY <2>1, <2>5, <2>6, <2>7 DEF Answer, Interrupt
<1>10. CASE \E n \in behind : Flush(n)
  <2>1. PICK n \in behind : Flush(n)
    BY <1>10
  <2>2. n = begun /\ Len(said) = begun /\ begun \in 1..Turns
    <3>1. n = begun /\ Len(said) = begun
      BY <1>1
    <3>2. n \in 1..Turns
      BY DEF TypeInv, TypeOK
    <3> QED BY <3>1, <3>2
  <2>3. /\ WriteRow("assistant", begun) /\ UNCHANGED <<said, worded, begun>>
        /\ behind' = behind \ {begun}
    BY <2>1, <2>2 DEF Flush
  <2>4. begun \notin Written /\ begun \in DOMAIN said /\ said[begun] # Silent
    BY <2>2 DEF Written, RowsInv, BehindSaid
  <2>5. Written' = Written \cup {begun} /\ BehindSaid'
    BY <2>3, <2>4 DEF Written, RowsInv, BehindSaid
  <2> QED BY <1>2, <1>8, <2>2, <2>3, <2>4, <2>5 DEF RowsInv
<1> QED BY <1>5, <1>6, <1>7, <1>9, <1>10 DEF Speak, Talks

LEMMA RowsNext == TypeInv /\ TalkInv /\ RowsInv /\ [Next]_vars => RowsInv'
<1>1. ASSUME TypeInv, RowsInv, UNCHANGED <<agent, rows, worded, begun, said, behind>> PROVE RowsInv'
  <2>1. Written' = Written /\ BehindSaid' /\ Asked' = Asked /\ Reads' = Reads
    BY <1>1 DEF Written, BehindSaid, RowsInv, Asked, Reads
  <2>2. begun \in Nat
    BY <1>1 DEF TypeInv, TypeOK
  <2> QED BY <1>1, <2>1, <2>2, RowsSame DEF RowsInv
<1>2. ASSUME UNCHANGED vars PROVE UNCHANGED <<agent, rows, worded, begun, said, behind>>
  BY <1>2 DEF vars, talkVars
<1>3. ASSUME TypeInv, NEW r \in Runs, HookStep(r)
      PROVE  UNCHANGED <<agent, rows, worded, begun, said, behind>>
  BY <1>3, RunMoves DEF TypeInv, talkVars
<1> QED BY <1>1, <1>2, <1>3, RowsSpoken DEF Next, Speak, Talks, HookStep, Onward

-----------------------------------------------------------------------------
(* What the hook finds in the transcript. *)

(* The last prompt with text up to turn m. *)
LastWorded(m) == LET S == {k \in worded : k <= m} IN IF S = {} THEN None ELSE LastOf(S)

LEMMA LookSets ==
  ASSUME TypeInv, RowsHold, NEW S, Readable(S)
  PROVE  /\ DOMAIN rows = 1..Len(rows) /\ Len(rows) \in Nat /\ typed \in Nat /\ begun \in Nat
         /\ S \subseteq DOMAIN rows /\ AnswerRows(S) \subseteq S /\ \A U : Prompts(S, U) \subseteq S
         /\ worded \subseteq 1..typed /\ (\A k \in worded : k \in Nat /\ k <= typed)
         /\ DOMAIN said = 1..Len(said) /\ Len(said) \in Nat /\ Len(said) <= begun /\ begun <= typed
         /\ \A i \in DOMAIN rows :
              /\ i \in Nat /\ rows[i].turn \in Nat /\ rows[i].turn <= begun
              /\ rows[i].role = "user" => Talk(i) /\ rows[i].turn \in Asked
              /\ rows[i].role = "assistant" => Talk(i) /\ rows[i].turn \in Written
         /\ \A i \in AnswerRows(S) : rows[i].role = "assistant"
<1>1. /\ rows \in Seq(Row) /\ said \in Seq(Texts \cup {Silent}) /\ worded \subseteq 1..typed
      /\ typed \in Nat /\ begun \in 0..typed /\ Len(said) <= begun
  BY DEF TypeInv, TypeOK
<1>2. /\ DOMAIN rows = 1..Len(rows) /\ Len(rows) \in Nat
      /\ DOMAIN said = 1..Len(said) /\ Len(said) \in Nat
  BY <1>1
<1>3. (\A k \in worded : k \in Nat /\ k <= typed) /\ begun \in Nat /\ begun <= typed
  BY <1>1
<1>4. /\ S \subseteq DOMAIN rows /\ AnswerRows(S) \subseteq S /\ \A U : Prompts(S, U) \subseteq S
  BY ReadSets DEF Prompts, AnswerRows, TypeInv
<1>5. ASSUME NEW i \in DOMAIN rows
      PROVE  /\ i \in Nat /\ rows[i].turn \in Nat /\ rows[i].turn <= begun
             /\ rows[i].role = "user" => Talk(i) /\ rows[i].turn \in Asked
             /\ rows[i].role = "assistant" => Talk(i) /\ rows[i].turn \in Written
  <2>1. i \in Nat
    BY <1>2
  <2>2. /\ rows[i].turn \in Nat /\ (Talk(i) <=> rows[i].role \in {"user", "assistant"})
    BY RowTurns DEF TypeInv
  <2> QED BY <2>1, <2>2 DEF RowsHold, RowsTrue
<1>6. \A i \in AnswerRows(S) : rows[i].role = "assistant"
  BY DEF AnswerRows
<1> QED BY <1>1, <1>2, <1>3, <1>4, <1>5, <1>6

LEMMA LastRow ==
  ASSUME TypeInv, RowsHold, NEW T \in SUBSET DOMAIN rows, T # {}
  PROVE  LastOf(T) \in T /\ LastOf(T) \in Nat /\ \A j \in T : j \in Nat /\ j <= LastOf(T)
<1>1. rows \in Seq(Row)
  BY DEF TypeInv, TypeOK
<1>2. Len(rows) \in Nat /\ T \in SUBSET (1..Len(rows))
  BY <1>1
<1>3. LastOf(T) \in T /\ \A j \in T : j <= LastOf(T)
  BY <1>2, Highest
<1> QED BY <1>2, <1>3

(* An answer that was read has its prompt before it, which was read too. *)
LEMMA PromptRead ==
  ASSUME TypeInv, RowsHold, NEW S, Readable(S), NEW at \in S, rows[at].role = "assistant",
         NEW k \in Asked, k <= rows[at].turn
  PROVE  \E i \in S : i < at /\ rows[i].role = "user" /\ rows[i].turn = k
<1>1. PICK i \in DOMAIN rows : rows[i].role = "user" /\ rows[i].turn = k
  BY DEF RowsHold, AllUserRows
<1>2. /\ i \in Nat /\ at \in Nat /\ at \in DOMAIN rows /\ Talk(i) /\ Talk(at)
      /\ rows[i].turn \in Nat /\ rows[at].turn \in Nat
  BY <1>1, LookSets
<1>3. i # at
  BY <1>1
<1>4. ~(at < i)
  <2> SUFFICES ASSUME at < i PROVE FALSE
    OBVIOUS
  <2>1. Before(rows[at], rows[i])
    BY <1>2 DEF RowsHold, RowsOrdered
  <2>2. rows[at].turn < k
    BY <1>1, <2>1 DEF Before
  <2> QED BY <1>1, <1>2, <2>2
<1>5. i < at
  BY <1>2, <1>3, <1>4
<1>6. i \in S
  BY <1>5, ReadSets DEF TypeInv
<1> QED BY <1>1, <1>5, <1>6

(* The last prompt that a parser takes is that of the turn the agent is    *)
(* at, if its row was read and no row of a machine passes for one.         *)
LEMMA LastPromptAmong ==
  ASSUME TypeInv, RowsHold, NEW S, Readable(S), NEW U \in SUBSET Kinds,
         NEW T \in SUBSET Prompts(S, U), NEW i \in T, rows[i].role = "user", rows[i].turn = begun,
         \A j \in S : rows[j].turn = begun => rows[j].role \notin U
  PROVE  LastNamed(T) = begun
<1> DEFINE k == LastOf(T)
<1>1. T \in SUBSET DOMAIN rows /\ T # {} /\ T \subseteq S
  BY LookSets
<1>2. k \in T /\ k \in Nat /\ i \in Nat /\ i <= k
  BY <1>1, LastRow
<1> HIDE DEF k
<1>3. rows[k].turn \in Nat /\ rows[k].turn <= begun /\ begun \in Nat /\ k \in DOMAIN rows /\ i \in DOMAIN rows
  BY <1>1, <1>2, LookSets
<1>4. begun <= rows[k].turn
  <2>1. CASE i = k
    BY <1>3, <2>1
  <2>2. CASE i # k
    <3>1. i < k
      BY <1>2, <2>2
    <3> QED BY <1>3, <3>1 DEF RowsHold, RowsOrdered
  <2> QED BY <2>1, <2>2
<1>5. rows[k].turn = begun
  BY <1>3, <1>4
<1>6. rows[k].role \in {"user"} \cup U
  BY <1>2 DEF Prompts
<1>7. rows[k].role = "user"
  BY <1>1, <1>2, <1>5, <1>6
<1>8. LastNamed(T) = Named(rows[k])
  BY <1>1 DEF LastNamed, k
<1> QED BY <1>5, <1>7, <1>8 DEF Named, Kinds

(* Also the last answer is the one just given, if its row was read. *)
LEMMA LastAnswerAmong ==
  ASSUME TypeInv, RowsHold, NEW S, Readable(S), NEW T \in SUBSET AnswerRows(S),
         NEW i \in T, rows[i].turn = begun
  PROVE  T # {} /\ LastOf(T) \in T /\ rows[LastOf(T)].turn = begun
<1> DEFINE k == LastOf(T)
<1>1. T \in SUBSET DOMAIN rows /\ T # {}
  BY LookSets
<1>2. k \in T /\ k \in Nat /\ i \in Nat /\ i <= k
  BY <1>1, LastRow
<1> HIDE DEF k
<1>3. rows[k].turn \in Nat /\ rows[k].turn <= begun /\ begun \in Nat
  BY <1>1, <1>2, LookSets
<1>4. begun <= rows[k].turn
  <2>1. CASE i = k
    BY <1>3, <2>1
  <2>2. CASE i # k
    <3>1. i < k
      BY <1>2, <2>2
    <3> QED BY <1>1, <1>2, <1>3, <3>1 DEF RowsHold, RowsOrdered
  <2> QED BY <2>1, <2>2
<1>5. rows[k].turn = begun
  BY <1>3, <1>4
<1> QED BY <1>1, <1>2, <1>5 DEF k

(* What stands last before an answer: the last prompt with text up to that *)
(* turn, or what no user typed.                                            *)
LEMMA LastPromptBefore ==
  ASSUME TypeInv, RowsHold, NEW S, Readable(S), NEW at \in AnswerRows(S), NEW U \in SUBSET Kinds
  PROVE  LET T == {i \in Prompts(S, U) : i < at} IN
           \/ LastNamed(T) = LastWorded(rows[at].turn)
           \/ LastNamed(T) = Junk /\ \E i \in DOMAIN rows : rows[i].role \in U
<1> DEFINE m == rows[at].turn
           T == {i \in Prompts(S, U) : i < at}
           W == {k \in worded : k <= m}
<1>1. /\ at \in DOMAIN rows /\ at \in S /\ at \in Nat /\ rows[at].role = "assistant" /\ Talk(at)
      /\ m \in Nat /\ m <= begun /\ begun \in Nat
  <2>1. at \in DOMAIN rows /\ at \in S /\ rows[at].role = "assistant"
    BY LookSets
  <2> QED BY <2>1, LookSets
<1>2. \A k \in W : k \in Asked
  <2> SUFFICES ASSUME NEW k \in W PROVE k <= begun
    BY DEF Asked
  <2>1. k \in Nat /\ k <= m
    BY LookSets
  <2> HIDE DEF m
  <2> QED BY <1>1, <2>1
<1>3. \A i \in T : i \in S /\ i \in DOMAIN rows /\ i < at /\ rows[i].role \in {"user"} \cup U
  <2>1. T \subseteq S /\ S \subseteq DOMAIN rows
    BY LookSets
  <2> QED BY <2>1 DEF Prompts
<1>4. ASSUME NEW i \in T, rows[i].role = "user" PROVE rows[i].turn \in W
  <2>1. Talk(i) /\ rows[i].turn \in worded /\ rows[i].turn \in Nat
    BY <1>3, <1>4, LookSets DEF Asked
  <2>2. rows[i].turn <= m
    BY <1>1, <1>3 DEF RowsHold, RowsOrdered
  <2> QED BY <2>1, <2>2
<1>5. ASSUME NEW k \in W PROVE \E i \in T : rows[i].role = "user" /\ rows[i].turn = k
  <2>1. PICK i \in S : i < at /\ rows[i].role = "user" /\ rows[i].turn = k
    BY <1>1, <1>2, PromptRead
  <2>2. i \in T
    BY <2>1 DEF Prompts
  <2> QED BY <2>1, <2>2
<1>6. CASE T = {}
  <2>1. W = {}
    BY <1>5, <1>6
  <2> QED BY <1>6, <2>1 DEF LastNamed, LastWorded
<1>7. CASE T # {}
  <2> DEFINE l == LastOf(T)
  <2>1. l \in T /\ l \in Nat /\ \A j \in T : j \in Nat /\ j <= l
    <3>1. T \in SUBSET DOMAIN rows
      BY <1>3
    <3> HIDE DEF T
    <3> QED BY <1>7, <3>1, LastRow
  <2>2. LastNamed(T) = Named(rows[l])
    BY <1>7 DEF LastNamed
  <2> HIDE DEF l
  <2>3. l \in DOMAIN rows /\ l \in S /\ rows[l].role \in {"user"} \cup U
    BY <1>3, <2>1
  <2>4. CASE rows[l].role \in U
    BY <2>2, <2>3, <2>4 DEF Named
  <2>5. CASE rows[l].role = "user"
    <3> DEFINE w == LastOf(W)
    <3>1. rows[l].turn \in W /\ rows[l].turn \in Nat /\ Talk(l)
      BY <1>4, <2>1, <2>3, <2>5, LookSets
    <3>2. w \in W /\ \A j \in W : j <= w
      <4>1. W \in SUBSET (1..typed) /\ typed \in Nat /\ W # {}
        BY <3>1, LookSets
      <4> HIDE DEF W
      <4> QED BY <4>1, Highest
    <3>3. w \in Nat
      BY <3>2, LookSets
    <3>4. PICK i \in T : rows[i].role = "user" /\ rows[i].turn = w
      BY <1>5, <3>2
    <3> HIDE DEF w
    <3>5. rows[l].turn <= w
      BY <3>1, <3>2
    <3>6. w <= rows[l].turn
      <4>1. CASE i = l
        BY <3>3, <3>4, <4>1
      <4>2. CASE i # l
        <5>1. i < l /\ i \in DOMAIN rows
          <6>1. i <= l /\ i \in Nat /\ i \in DOMAIN rows
            BY <1>3, <2>1
          <6> QED BY <2>1, <4>2, <6>1
        <5> QED BY <2>3, <3>4, <5>1 DEF RowsHold, RowsOrdered
      <4> QED BY <4>1, <4>2
    <3>7. rows[l].turn = w
      BY <3>1, <3>3, <3>5, <3>6
    <3>8. LastNamed(T) = w
      BY <2>2, <2>5, <3>7 DEF Named, Kinds
    <3>9. LastWorded(m) = w
      <4>1. W # {}
        BY <3>1
      <4> QED BY <4>1 DEF LastWorded, w
    <3> QED BY <3>8, <3>9
  <2> QED BY <2>3, <2>4, <2>5
<1> QED BY <1>6, <1>7

(* What cursor finds for an answer, if it has none in the payload or could *)
(* read its row.                                                           *)
LEMMA PairFound ==
  ASSUME TypeInv, RowsHold, NEW S, Readable(S), NEW n \in DOMAIN said,
         said[n] # Silent => \E i \in AnswerRows(S) : rows[i].turn = n,
         BuildPair(n, S).answer # None
  PROVE  /\ BuildPair(n, S).answer \in DOMAIN said
         /\ \/ BuildPair(n, S).prompt = Junk
               /\ \E i \in DOMAIN rows : rows[i].role \in {"injected", "notice"}
            \/ \E m \in DOMAIN said : /\ said[m] = said[BuildPair(n, S).answer]
                                      /\ BuildPair(n, S).prompt = LastWorded(m)
         /\ n = begun /\ n \in worded /\ said[n] # Silent
              /\ (\A i \in S : rows[i].turn = n => rows[i].role \notin {"injected", "notice"}) =>
                BuildPair(n, S).prompt = n /\ BuildPair(n, S).answer = n
<1> DEFINE U == {"injected", "notice"}
           Equal == {i \in AnswerRows(S) : Payload(n) # None /\ said[rows[i].turn] = said[n]}
           at == LastOf(IF Equal # {} THEN Equal ELSE AnswerRows(S))
           m == rows[at].turn
           p == BuildPair(n, S)
           T == {i \in Prompts(S, U) : i < at}
<1>1. /\ p.prompt = IF AnswerRows(S) = {} THEN None ELSE LastNamed(T)
      /\ p.answer = IF Payload(n) # None THEN n ELSE LastNamed(AnswerRows(S))
  BY DEF BuildPair
<1>2. Payload(n) # None => said[n] # Silent /\ Payload(n) = n
  BY DEF Payload
<1>3. ASSUME Payload(n) # None PROVE Equal # {}
  <2>1. PICK i \in AnswerRows(S) : rows[i].turn = n
    BY <1>2, <1>3
  <2>2. i \in Equal
    BY <1>3, <2>1
  <2> QED BY <2>2
<1>4. AnswerRows(S) # {}
  <2>1. CASE Payload(n) # None
    BY <1>3, <2>1
  <2>2. CASE Payload(n) = None
    BY <1>1, <2>2 DEF LastNamed
  <2> QED BY <2>1, <2>2
<1>5. Equal \subseteq AnswerRows(S) /\ (Payload(n) = None => Equal = {})
  OBVIOUS
<1>6. AnswerRows(S) \in SUBSET DOMAIN rows /\ U \in SUBSET Kinds
  BY LookSets DEF Kinds
<1>7. at \in AnswerRows(S) /\ (Equal # {} => at \in Equal)
  <2>1. CASE Equal # {}
    <3>1. LastOf(Equal) \in Equal
      <4> HIDE DEF Equal
      <4> QED BY <1>5, <1>6, <2>1, LastRow
    <3> QED BY <1>5, <2>1, <3>1
  <2>2. CASE Equal = {}
    <3>1. LastOf(AnswerRows(S)) \in AnswerRows(S)
      BY <1>4, <1>6, LastRow
    <3> QED BY <2>2, <3>1
  <2> QED BY <2>1, <2>2
<1>8. rows[at].role = "assistant" /\ m \in Written /\ m \in DOMAIN said
  <2> HIDE DEF at
  <2> QED BY <1>6, <1>7, LookSets DEF Written
<1>9. \/ p.prompt = LastWorded(m)
      \/ p.prompt = Junk /\ \E i \in DOMAIN rows : rows[i].role \in U
  <2>1. \/ LastNamed(T) = LastWorded(m)
        \/ LastNamed(T) = Junk /\ \E i \in DOMAIN rows : rows[i].role \in U
    <3> HIDE DEF at, U
    <3> QED BY <1>6, <1>7, LastPromptBefore
  <2> HIDE DEF at, p, T, U
  <2> QED BY <1>1, <1>4, <2>1
<1>10. p.answer \in DOMAIN said /\ said[m] = said[p.answer]
  <2>1. CASE Payload(n) # None
    <3>1. at \in Equal
      BY <1>3, <1>7, <2>1
    <3>2. said[m] = said[n]
      <4> HIDE DEF at
      <4> QED BY <3>1
    <3> QED BY <1>1, <2>1, <3>2
  <2>2. CASE Payload(n) = None
    <3>1. Equal = {}
      BY <1>5, <2>2
    <3>2. at = LastOf(AnswerRows(S))
      BY <3>1
    <3>3. LastNamed(AnswerRows(S)) = m
      <4>1. LastNamed(AnswerRows(S)) = Named(rows[at])
        BY <1>4, <3>2 DEF LastNamed
      <4> HIDE DEF at
      <4> QED BY <1>8, <4>1 DEF Named, Kinds
    <3> QED BY <1>1, <1>8, <2>2, <3>3
  <2> QED BY <2>1, <2>2
<1>11. ASSUME n = begun, n \in worded, said[n] # Silent,
              \A i \in S : rows[i].turn = n => rows[i].role \notin U
       PROVE  p.prompt = n /\ p.answer = n
  <2>1. PICK i \in AnswerRows(S) : rows[i].turn = n
    BY <1>11
  <2>2. m = n /\ p.answer = n
    <3>1. CASE Payload(n) # None
      <4>1. i \in Equal
        BY <2>1, <3>1
      <4>2. rows[LastOf(Equal)].turn = begun
        <5> HIDE DEF Equal
        <5> QED BY <1>5, <1>11, <2>1, <4>1, LastAnswerAmong
      <4>3. at = LastOf(Equal)
        BY <1>3, <3>1
      <4> QED BY <1>1, <1>11, <3>1, <4>2, <4>3
    <3>2. CASE Payload(n) = None
      <4>1. Equal = {}
        BY <1>5, <3>2
      <4>2. at = LastOf(AnswerRows(S))
        BY <4>1
      <4>3. rows[LastOf(AnswerRows(S))].turn = begun
        BY <1>11, <2>1, LastAnswerAmong
      <4>4. LastNamed(AnswerRows(S)) = Named(rows[at])
        BY <1>4, <4>2 DEF LastNamed
      <4>5. LastNamed(AnswerRows(S)) = m
        <5> HIDE DEF at
        <5> QED BY <1>8, <4>4 DEF Named, Kinds
      <4> QED BY <1>1, <1>11, <3>2, <4>2, <4>3, <4>5
    <3> QED BY <3>1, <3>2
  <2>3. at \in S /\ n \in Asked /\ n <= m
    <3>1. begun \in Nat /\ at \in S
      <4> HIDE DEF at
      <4> QED BY <1>7, LookSets
    <3> QED BY <1>11, <2>2, <3>1 DEF Asked
  <2>4. PICK j \in S : j < at /\ rows[j].role = "user" /\ rows[j].turn = n
    <3> HIDE DEF at
    <3> QED BY <1>8, <2>3, PromptRead
  <2>5. j \in T /\ T \in SUBSET Prompts(S, U)
    BY <2>4 DEF Prompts
  <2>6. LastNamed(T) = begun
    <3> HIDE DEF T, U
    <3> QED BY <1>6, <1>11, <2>4, <2>5, LastPromptAmong
  <2> HIDE DEF T, at
  <2> QED BY <1>1, <1>4, <1>11, <2>2, <2>6
<1> HIDE DEF m, p
<1> QED BY <1>8, <1>9, <1>10, <1>11 DEF p

-----------------------------------------------------------------------------
(* What was found stays true while the conversation goes on. *)
LEMMA Widened ==
  ASSUME TypeInv, TalkInv, Speak
  PROVE  /\ UNCHANGED <<agent, robbed, kept>>
         /\ \A r \in Runs : /\ run'[r].prompt = run[r].prompt /\ run'[r].answer = run[r].answer
                            /\ run'[r].ahead = run[r].ahead /\ run'[r].blind = run[r].blind
                            /\ run'[r].noisy = run[r].noisy
                            /\ run'[r].step = run[r].step
                               \/ (run'[r].step = "look" /\ run[r].step = "none")
         /\ DOMAIN said \subseteq DOMAIN said' /\ \A k \in DOMAIN said : said'[k] = said[k]
         /\ DOMAIN rows \subseteq DOMAIN rows' /\ \A i \in DOMAIN rows : rows'[i] = rows[i]
         /\ worded' = worded \/ worded' = worded \cup {typed + 1}
         /\ caught' = caught \/ caught' = caught \cup {typed + 1}
         /\ \A k \in DOMAIN said : k \in Nat /\ k <= typed
         /\ \A r \in Runs : run[r].answer # None => r[1] \in DOMAIN said
<1>1. UNCHANGED <<agent, robbed, kept>>
  BY Spoken
<1>2. ASSUME NEW r \in Runs
      PROVE  /\ run'[r].prompt = run[r].prompt /\ run'[r].answer = run[r].answer
             /\ run'[r].ahead = run[r].ahead /\ run'[r].blind = run[r].blind
             /\ run'[r].noisy = run[r].noisy
             /\ run'[r].step = run[r].step \/ (run'[r].step = "look" /\ run[r].step = "none")
  <2>1. run'[r] = run[r] \/ (run'[r] = [run[r] EXCEPT !.step = "look"] /\ run[r].step = "none")
    BY Spoken
  <2>2. run[r] \in Run
    BY DEF TypeInv, TypeOK
  <2> QED BY <2>1, <2>2 DEF Run
<1>3. said \in Seq(Texts \cup {Silent}) /\ typed \in Nat /\ begun \in Nat /\ begun <= typed
      /\ Len(said) <= begun /\ rows \in Seq(Row)
  BY Spoken DEF TypeInv, TypeOK
<1>4. DOMAIN said = 1..Len(said) /\ Len(said) \in Nat
  BY <1>3
<1>5. DOMAIN said \subseteq DOMAIN said' /\ \A k \in DOMAIN said : said'[k] = said[k]
  <2>1. CASE Interrupt \/ \E text \in Texts \cup {Silent} : Answer(text)
    <3>1. PICK text \in Texts \cup {Silent} : Answer(text) \/ (Interrupt /\ text = Silent)
      BY <2>1
    <3>2. /\ DOMAIN said' = 1..(Len(said) + 1) /\ \A k \in DOMAIN said : said'[k] = said[k]
      BY <3>1, Ended DEF TypeInv
    <3> QED BY <1>4, <3>2
  <2>2. CASE UNCHANGED said
    BY <2>2
  <2> QED BY <2>1, <2>2 DEF Speak, Talks, Type, Begin, MachineRow, Flush
<1>6. DOMAIN rows \subseteq DOMAIN rows' /\ \A i \in DOMAIN rows : rows'[i] = rows[i]
  <2>1. UNCHANGED rows \/ \E x \in Row : rows' = Append(rows, x)
    <3>1. CASE \E text \in BOOLEAN : Type(text)
      BY <3>1 DEF Type
    <3>2. CASE Talks
      BY <3>2, TalkRows, Wrote DEF TypeInv
    <3> QED BY <3>1, <3>2 DEF Speak
  <2> QED BY <1>3, <2>1
<1>7. /\ worded' = worded \/ worded' = worded \cup {typed + 1}
      /\ caught' = caught \/ caught' = caught \cup {typed + 1}
  BY DEF Speak, Talks, Type, Begin, MachineRow, Interrupt, Answer, Flush
<1>8. \A k \in DOMAIN said : k \in Nat /\ k <= typed
  BY <1>3, <1>4
<1>9. ASSUME NEW r \in Runs, run[r].answer # None PROVE r[1] \in DOMAIN said
  <2>1. run[r].step # "none"
    BY <1>9 DEF TalkInv, RunsAfter
  <2>2. r[1] \in 1..Turns /\ Turns \in Nat /\ ~(r[1] > Len(said))
    BY <2>1, CaptureAssumption DEF Runs, TalkInv, RunsAfter
  <2> QED BY <1>4, <2>2
<1> QED BY <1>1, <1>2, <1>5, <1>6, <1>7, <1>8, <1>9

(* The turn of a run that looks is one that has ended. *)
LEMMA LookedAt ==
  ASSUME TypeInv, TalkInv, NEW r \in Runs, run[r].step = "look"
  PROVE  r[1] \in DOMAIN said /\ r[1] \in 1..Turns /\ r[1] \in Nat /\ r[1] <= begun /\ begun <= typed
         /\ begun \in Nat /\ typed \in Nat
<1>1. /\ said \in Seq(Texts \cup {Silent}) /\ begun \in 0..typed /\ typed \in Nat
      /\ Len(said) <= begun
  BY DEF TypeInv, TypeOK
<1>2. DOMAIN said = 1..Len(said) /\ Len(said) \in Nat /\ begun \in Nat /\ begun <= typed
  BY <1>1
<1>3. r[1] \in 1..Turns /\ Turns \in Nat /\ ~(r[1] > Len(said))
  BY CaptureAssumption DEF Runs, TalkInv, RunsAfter
<1>4. r[1] \in Nat /\ 1 <= r[1] /\ r[1] <= Len(said)
  BY <1>2, <1>3
<1> QED BY <1>1, <1>2, <1>3, <1>4

(* PairOccurred, of each run that has found an answer. *)
PairRun(r) ==
  /\ agent = "cursor" /\ ~run[r].blind /\ run[r].answer # None =>
       /\ run[r].answer \in DOMAIN said
       /\ \/ run[r].prompt = Junk /\ \E i \in DOMAIN rows : rows[i].role \in {"injected", "notice"}
          \/ \E m \in DOMAIN said : said[m] = said[run[r].answer] /\ run[r].prompt = LastWorded(m)
  /\ agent = "opencode" => run[r].answer \in {None, r[1]} /\ run[r].prompt \in {None, r[1]}

PairInv == \A r \in Runs : PairRun(r)

LEMMA PairInit == Init => PairInv
<1> SUFFICES ASSUME Init PROVE PairInv
  OBVIOUS
<1>1. \A r \in Runs : run[r].answer = None /\ run[r].prompt = None
  BY DEF Init, Fresh
<1> QED BY <1>1 DEF PairInv, PairRun

LEMMA PairSpoken ==
  ASSUME TypeInv, TalkInv, PairInv, Speak, NEW r \in Runs
  PROVE  PairRun(r)'
<1>1. PairRun(r) /\ UNCHANGED agent
  BY Widened DEF PairInv
<1>2. /\ run'[r].prompt = run[r].prompt /\ run'[r].answer = run[r].answer
      /\ run'[r].blind = run[r].blind
  BY Widened
<1>3. CASE agent = "opencode"
  BY <1>1, <1>2, <1>3 DEF PairRun
<1>4. ASSUME agent = "cursor", ~run[r].blind, run[r].answer # None
      PROVE  /\ run[r].answer \in DOMAIN said'
             /\ \/ /\ run[r].prompt = Junk
                   /\ \E i \in DOMAIN rows' : rows'[i].role \in {"injected", "notice"}
                \/ \E m \in DOMAIN said' : /\ said'[m] = said'[run[r].answer]
                                           /\ run[r].prompt = LastWorded(m)'
  <2>1. run[r].answer \in DOMAIN said /\ run[r].answer \in DOMAIN said'
    BY <1>1, <1>4, Widened DEF PairRun
  <2>2. CASE run[r].prompt = Junk /\ \E i \in DOMAIN rows : rows[i].role \in {"injected", "notice"}
    BY <2>1, <2>2, Widened
  <2>3. CASE \E m \in DOMAIN said : said[m] = said[run[r].answer] /\ run[r].prompt = LastWorded(m)
    <3>1. PICK m \in DOMAIN said : said[m] = said[run[r].answer] /\ run[r].prompt = LastWorded(m)
      BY <2>3
    <3>2. m \in DOMAIN said' /\ said'[m] = said'[run[r].answer]
      BY <2>1, <3>1, Widened
    <3>3. {k \in worded' : k <= m} = {k \in worded : k <= m}
      <4>1. m \in Nat /\ m <= typed /\ typed \in Nat
        BY Widened DEF TypeInv, TypeOK
      <4>2. ~(typed + 1 <= m)
        BY <4>1
      <4> QED BY <4>2, Widened
    <3>4. LastWorded(m)' = LastWorded(m)
      BY <3>3 DEF LastWorded
    <3> QED BY <2>1, <3>1, <3>2, <3>4
  <2> QED BY <1>1, <1>4, <2>2, <2>3 DEF PairRun
<1> QED BY <1>1, <1>2, <1>3, <1>4 DEF PairRun

LEMMA PairStep ==
  ASSUME TypeInv, TalkInv, RowsInv, PairInv, NEW r \in Runs, NEW q \in Runs, HookStep(r)
  PROVE  PairRun(q)'
<1>1. UNCHANGED <<agent, said, worded, rows>> /\ \A p \in Runs \ {r} : run'[p] = run[p]
  BY RunMoves DEF TypeInv, talkVars
<1>2. PairRun(q)
  BY DEF PairInv
<1>3. \A m : LastWorded(m)' = LastWorded(m)
  BY <1>1 DEF LastWorded
<1>4. CASE /\ run'[q].prompt = run[q].prompt /\ run'[q].answer = run[q].answer
           /\ run'[q].blind = run[q].blind
  BY <1>1, <1>2, <1>3, <1>4 DEF PairRun
<1>5. CASE q = r /\ Look(r)
  <2>0. PICK S : Readable(S) /\ Finds(r, S)
    BY <1>5, LookMoves DEF TypeInv
  <2>1. /\ run[r].step = "look" /\ run'[r].prompt = Parsed(r[1], S).prompt
        /\ run'[r].answer = Parsed(r[1], S).answer /\ run'[r].blind = Blind(r[1], S)
    BY <2>0 DEF Finds
  <2>2. r[1] \in DOMAIN said
    BY <2>1, LookedAt
  <2>3. CASE agent = "cursor"
    <3>1. Parsed(r[1], S) = BuildPair(r[1], S) /\ Reads /\ RowsHold
      BY <2>3 DEF Parsed, Reads, AllAgents, RowsInv
    <3>2. ASSUME ~run'[r].blind, run'[r].answer # None
          PROVE  /\ run'[r].answer \in DOMAIN said
                 /\ \/ /\ run'[r].prompt = Junk
                       /\ \E i \in DOMAIN rows : rows[i].role \in {"injected", "notice"}
                    \/ \E m \in DOMAIN said : /\ said[m] = said[run'[r].answer]
                                              /\ run'[r].prompt = LastWorded(m)
      <4>1. said[r[1]] # Silent => \E i \in AnswerRows(S) : rows[i].turn = r[1]
        BY <2>1, <2>3, <3>1, <3>2 DEF Blind, Sought, AnswerRows
      <4>2. BuildPair(r[1], S).answer # None
        BY <2>1, <3>1, <3>2
      <4> QED BY <2>0, <2>1, <2>2, <3>1, <4>1, <4>2, PairFound
    <3> QED BY <1>1, <1>3, <1>5, <2>3, <3>2 DEF PairRun
  <2>4. CASE agent = "opencode"
    <3>1. Parsed(r[1], S) = ParseOpenCode(r[1])
      BY <2>4 DEF Parsed
    <3>2. run'[r].answer \in {None, r[1]} /\ run'[r].prompt \in {None, r[1]}
      BY <2>1, <3>1 DEF ParseOpenCode, Payload
    <3> QED BY <1>1, <1>5, <2>4, <3>2 DEF PairRun
  <2>5. CASE agent \notin {"cursor", "opencode"}
    BY <1>1, <2>5 DEF PairRun
  <2> QED BY <2>3, <2>4, <2>5
<1> QED BY <1>1, <1>4, <1>5, StepMoves DEF TypeInv, HookStep

LEMMA PairNext == TypeInv /\ TalkInv /\ RowsInv /\ PairInv /\ [Next]_vars => PairInv'
<1>1. ASSUME PairInv, UNCHANGED vars PROVE PairInv'
  BY <1>1 DEF vars, talkVars, PairInv, PairRun, LastWorded
<1>2. ASSUME TypeInv, TalkInv, RowsInv, PairInv, Speak PROVE PairInv'
  BY <1>2, PairSpoken DEF PairInv
<1>3. ASSUME TypeInv, TalkInv, RowsInv, PairInv, NEW r \in Runs, HookStep(r)
      PROVE  PairInv'
  BY <1>3, PairStep DEF PairInv
<1> QED BY <1>1, <1>2, <1>3 DEF Next, Speak, Talks, HookStep, Onward

(***************************************************************************)
(* Whatever is typed meanwhile, cursor stores an answer whose row it could *)
(* read with the last prompt that came before an answer of these words, or *)
(* with a text that no user typed, and opencode with its own or none.      *)
(***************************************************************************)
THEOREM PairsOccurred == Spec => []PairOccurred
<1>1. TypeInv /\ TalkInv /\ PairInv => PairOccurred
  <2> SUFFICES ASSUME TypeInv, TalkInv, PairInv, NEW t \in stored
               PROVE  /\ agent = "cursor" /\ ~run[t.by].blind =>
                           \/ /\ t.prompt = Junk
                              /\ \E i \in DOMAIN rows : rows[i].role \in {"injected", "notice"}
                           \/ \E m \in DOMAIN said : /\ said[m] = said[t.answer]
                                                     /\ t.prompt = LastWorded(m)
                      /\ agent = "opencode" => t.answer = t.by[1] /\ t.prompt \in {None, t.by[1]}
    BY DEF PairOccurred, LastWorded
  <2>1. t.by \in Runs /\ t.answer # None
    BY CaptureAssumption DEF TypeInv, TypeOK, None
  <2>2. t.prompt = run[t.by].prompt /\ t.answer = run[t.by].answer
    BY DEF TalkInv, StoredFound
  <2>3. PairRun(t.by)
    BY <2>1 DEF PairInv
  <2> QED BY <2>1, <2>2, <2>3 DEF PairRun
<1> QED BY <1>1, TypeInit, TypeNext, TalkInit, TalkNext, RowsInit, RowsNext, PairInit, PairNext,
           PTL DEF Spec

-----------------------------------------------------------------------------
(* OwnPrompt.  zcode: the prompt of the turn, once caught, is parked until  *)
(* a run takes it; who goes on to remove it has it, or comes late.         *)
Taken(n) == n \in robbed \/ \E q \in Runs : run[q].prompt = n

Sidecar == typed \in caught => parked = typed \/ (parked = None /\ Taken(typed))

Removers ==
  \A r \in Runs : run[r].step = "unpark" =>
                    parked = run[r].prompt \/ parked = None \/ parked > r[1]

ParkInv == agent = "zcode" => Sidecar /\ Removers

LEMMA ParkInit == Init => ParkInv
BY DEF Init, ParkInv, Sidecar, Removers, Fresh

LEMMA ParkSpoken ==
  ASSUME TypeInv, TalkInv, ParkInv, Speak
  PROVE  ParkInv'
<1> SUFFICES ASSUME agent' = "zcode" PROVE Sidecar' /\ Removers'
  BY DEF ParkInv
<1>1. agent = "zcode" /\ Sidecar /\ Removers /\ typed \in Nat /\ parked \in Nat
      /\ caught \subseteq 1..typed
  <2>1. agent = "zcode"
    BY Widened
  <2>2. typed \in Nat /\ parked \in Nat /\ caught \subseteq 1..typed
    BY DEF TypeInv, TypeOK
  <2> QED BY <2>1, <2>2 DEF ParkInv
<1>2. CASE UNCHANGED <<typed, caught, parked>>
  <2>1. Taken(typed) => Taken(typed)'
    BY <1>2, Widened DEF Taken
  <2>2. Sidecar'
    BY <1>1, <1>2, <2>1 DEF Sidecar
  <2>3. Removers'
    <3> SUFFICES ASSUME NEW r \in Runs, run'[r].step = "unpark"
                 PROVE  parked = run'[r].prompt \/ parked = None \/ parked > r[1]
      BY <1>2 DEF Removers
    <3>1. run[r].step = "unpark" /\ run'[r].prompt = run[r].prompt
      BY Widened
    <3> QED BY <1>1, <3>1 DEF Removers
  <2> QED BY <2>2, <2>3
<1>3. CASE \E text \in BOOLEAN : Type(text)
  <2>1. PICK text \in BOOLEAN : Type(text)
    BY <1>3
  <2>2. /\ typed' = typed + 1 /\ Len(said) <= typed /\ Len(said) \in Nat /\ UNCHANGED run
        /\ \/ parked' = typed + 1
           \/ parked' = parked /\ caught' = caught
    <3>1. /\ typed' = typed + 1 /\ UNCHANGED run
          /\ \/ parked' = typed + 1
             \/ parked' = parked /\ caught' = caught
      BY <1>1, <2>1 DEF Type, ParkPrompt
    <3>2. Len(said) <= begun /\ Len(said) \in Nat /\ begun \in Nat /\ begun <= typed
      BY Spoken DEF TypeInv, TypeOK
    <3> QED BY <1>1, <3>1, <3>2
  <2>3. Sidecar'
    <3>1. typed + 1 \notin caught
      BY <1>1
    <3> QED BY <2>2, <3>1 DEF Sidecar
  <2>4. Removers'
    <3> SUFFICES ASSUME NEW r \in Runs, run[r].step = "unpark"
                 PROVE  parked' = run[r].prompt \/ parked' = None \/ parked' > r[1]
      BY <2>2 DEF Removers
    <3>1. r[1] \in Nat /\ ~(r[1] > Len(said))
      BY CaptureAssumption DEF Runs, TalkInv, RunsAfter
    <3>2. typed + 1 > r[1]
      BY <1>1, <2>2, <3>1
    <3> QED BY <1>1, <2>2, <3>2 DEF Removers
  <2> QED BY <2>3, <2>4
<1> QED BY <1>2, <1>3 DEF Speak, Talks, Begin, MachineRow, Interrupt, Answer, Flush

LEMMA ParkStep ==
  ASSUME TypeInv, TalkInv, ParkInv, NEW r \in Runs, HookStep(r)
  PROVE  ParkInv'
<1> SUFFICES ASSUME agent' = "zcode" PROVE Sidecar' /\ Removers'
  BY DEF ParkInv
<1>1. UNCHANGED <<agent, typed, caught, said>> /\ \A p \in Runs \ {r} : run'[p] = run[p]
  BY RunMoves DEF TypeInv, talkVars
<1>2. Sidecar /\ Removers /\ agent = "zcode"
  BY <1>1 DEF ParkInv
<1>3. typed \in Nat /\ parked \in Nat /\ caught \subseteq 1..typed /\ r[1] \in Nat
  BY CaptureAssumption DEF TypeInv, TypeOK, Runs
<1>4. robbed \subseteq robbed'
  BY DEF HookStep, Onward, Look, Unpark, UnparkFails, Posted, PostFails, Die
<1>5. \A n \in Nat : n # 0 /\ Taken(n) => Taken(n)'
  <2> SUFFICES ASSUME NEW n \in Nat, n # 0, NEW q \in Runs, run[q].prompt = n PROVE run'[q].prompt = n
    BY <1>4 DEF Taken
  <2>1. CASE q # r
    BY <1>1, <2>1
  <2>2. CASE q = r /\ Look(r)
    <3>1. run[r].step = "look"
      BY <2>2 DEF Look
    <3> QED BY <2>2, <3>1 DEF TalkInv, RunsAfter, None
  <2>3. CASE q = r /\ ~Look(r)
    BY <2>3, StepMoves DEF TypeInv, HookStep
  <2> QED BY <2>1, <2>2, <2>3
<1>6. typed \in caught => typed # 0
  BY <1>3
<1>7. CASE Unpark(r)
  <2>1. /\ parked' = None /\ robbed' = IF parked > r[1] THEN robbed \cup {parked} ELSE robbed
        /\ run[r].step = "unpark"
    BY <1>7 DEF Unpark, Take
  <2>2. ASSUME NEW n \in Nat, n = typed, n \in caught PROVE Taken(n)'
    <3>1. CASE Taken(n)
      BY <1>3, <1>5, <1>6, <2>2, <3>1
    <3>2. CASE parked = n /\ parked > r[1]
      BY <2>1, <3>2 DEF Taken
    <3>3. CASE parked = n /\ ~(parked > r[1])
      <4>1. parked = run[r].prompt
        BY <1>2, <1>6, <2>1, <2>2, <3>3 DEF Removers, None
      <4>2. Taken(n)
        BY <3>3, <4>1 DEF Taken
      <4> QED BY <1>3, <1>5, <1>6, <2>2, <4>2
    <3>4. parked = n \/ Taken(n)
      BY <1>2, <2>2 DEF Sidecar, Taken
    <3> QED BY <3>1, <3>2, <3>3, <3>4
  <2>3. Sidecar'
    BY <1>1, <1>3, <2>1, <2>2 DEF Sidecar, Taken
  <2>4. Removers'
    BY <2>1 DEF Removers
  <2> QED BY <2>3, <2>4
<1>8. CASE ~Unpark(r)
  <2>1. UNCHANGED parked
    BY <1>8 DEF HookStep, Onward, Look, UnparkFails, Posted, PostFails, Die
  <2>2. Sidecar'
    BY <1>1, <1>2, <1>3, <1>5, <1>6, <2>1 DEF Sidecar
  <2>3. run'[r].step = "unpark" => run'[r].prompt = parked
    <3>1. CASE Look(r)
      <4>1. PICK S : Readable(S) /\ Finds(r, S)
        BY <3>1, LookMoves DEF TypeInv
      <4>2. Parsed(r[1], S) = ParseZCode(r[1])
        BY <1>2 DEF Parsed
      <4> QED BY <4>1, <4>2 DEF Finds, ParseZCode
    <3>2. CASE ~Look(r)
      <4>1. run'[r].step = "post" \/ run'[r].step = "done"
        BY <3>2, StepMoves DEF TypeInv, HookStep
      <4> QED BY <4>1
    <3> QED BY <3>1, <3>2
  <2>4. Removers'
    BY <1>1, <1>2, <2>1, <2>3 DEF Removers
  <2> QED BY <2>2, <2>4
<1> QED BY <1>7, <1>8

LEMMA ParkNext == TypeInv /\ TalkInv /\ ParkInv /\ [Next]_vars => ParkInv'
<1>1. ASSUME ParkInv, UNCHANGED vars PROVE ParkInv'
  BY <1>1 DEF vars, talkVars, ParkInv, Sidecar, Removers, Taken
<1> QED BY <1>1, ParkSpoken, ParkStep DEF Next, Speak, Talks, HookStep, Onward

(* OwnPrompt, of each run that has found an answer. *)
InTime(r) ==
  /\ run[r].answer # None /\ ~run[r].ahead /\ ~run[r].blind /\ ~run[r].noisy
  /\ r[1] \in caught /\ said[r[1]] # Silent

OwnRun(r) ==
  InTime(r) =>
    \/ run[r].prompt = r[1] /\ run[r].answer = r[1]
    \/ /\ agent = "zcode" /\ run[r].prompt = None
       /\ r[1] \in robbed \/ \E q \in Runs \ {r} : run[q].prompt = r[1]

OwnInv == \A r \in Runs : OwnRun(r)

LEMMA OwnInit == Init => OwnInv
<1> SUFFICES ASSUME Init, NEW r \in Runs PROVE run[r].answer = None
  BY DEF OwnInv, OwnRun, InTime
<1> QED BY DEF Init, Fresh

(* What a run finds that looks in time, reads the row it has to find, and  *)
(* meets nothing that it may mistake for a prompt.                         *)
LEMMA FoundInTime ==
  ASSUME TypeInv, TalkInv, RowsInv, ParkInv, NEW r \in Runs, run[r].step = "look",
         NEW S, Readable(S), ~Ahead(r[1]), ~Blind(r[1], S), ~Noisy(r[1], S),
         r[1] \in caught, said[r[1]] # Silent, Parsed(r[1], S).answer # None
  PROVE  \/ Parsed(r[1], S).prompt = r[1] /\ Parsed(r[1], S).answer = r[1]
         \/ agent = "zcode" /\ Parsed(r[1], S).prompt = None /\ Taken(r[1])
<1> DEFINE n == r[1]
<1>1. /\ n \in DOMAIN said /\ n \in Nat /\ n <= begun /\ begun <= typed /\ begun \in Nat /\ typed \in Nat
      /\ n \in caught /\ n \in worded /\ said[n] # Silent
  BY LookedAt DEF TypeInv, TypeOK
<1>2. /\ ~Ahead(n) /\ ~Blind(n, S) /\ ~Noisy(n, S)
      /\ told => Payload(n) = n
  BY DEF Payload
<1>3. agent \notin {"cursor", "workbuddy"} => told
  BY DEF TalkInv, InTurn
<1> HIDE DEF n
<1>4. CASE Reads
  <2>1. RowsHold /\ agent \notin {"opencode", "zcode"}
    BY <1>4 DEF RowsInv, Reads
  <2>2. n = begun /\ n \in Asked
    <3>1. ~(begun > n)
      BY <1>2, <2>1 DEF Ahead
    <3>2. n = begun
      BY <1>1, <3>1
    <3> QED BY <1>1, <3>2 DEF Asked
  <2>3. \A i \in S : rows[i].turn = n => rows[i].role \notin Mistakable
    BY <1>2 DEF Noisy
  <2>4. PICK i \in S : rows[i].turn = n /\ rows[i].role = Sought
    BY <1>1, <1>2, <1>4 DEF Blind
  <2>5. CASE agent = "cursor"
    <3>1. i \in AnswerRows(S) /\ Parsed(n, S) = BuildPair(n, S)
      BY <2>4, <2>5 DEF AnswerRows, Sought, Parsed
    <3>2. BuildPair(n, S).answer # None
      BY <3>1 DEF n
    <3>3. \A j \in S : rows[j].turn = n => rows[j].role \notin {"injected", "notice"}
      BY <2>3, <2>5 DEF Mistakable
    <3> QED BY <1>1, <2>1, <2>2, <2>4, <3>1, <3>2, <3>3, PairFound DEF n
  <2>6. CASE agent = "workbuddy"
    <3>1. i \in AnswerRows(S) /\ Parsed(n, S) = ParseWorkBuddy(n, S) /\ rows[i].role = "assistant"
      BY <2>4, <2>6 DEF AnswerRows, Sought, Parsed
    <3>2. PICK j \in S : rows[j].role = "user" /\ rows[j].turn = n
      BY <1>1, <2>1, <2>2, <2>4, <3>1, PromptRead
    <3>3. j \in Prompts(S, {"notice"}) /\ {"notice"} \in SUBSET Kinds
          /\ \A h \in S : rows[h].turn = n => rows[h].role \notin {"notice"}
      BY <2>3, <2>6, <3>2 DEF Prompts, Kinds, Mistakable
    <3>4. LastNamed(Prompts(S, {"notice"})) = n
      BY <2>1, <2>2, <3>2, <3>3, LastPromptAmong
    <3>5. /\ AnswerRows(S) # {} /\ LastOf(AnswerRows(S)) \in AnswerRows(S)
          /\ rows[LastOf(AnswerRows(S))].turn = n
      BY <2>1, <2>2, <2>4, <3>1, LastAnswerAmong
    <3>6. LastNamed(AnswerRows(S)) = n
      BY <2>1, <3>5, LookSets DEF LastNamed, Named, Kinds
    <3> QED BY <3>1, <3>4, <3>5, <3>6 DEF ParseWorkBuddy, n
  <2>7. CASE agent \notin {"cursor", "workbuddy"}
    <3>1. told /\ rows[i].role = "user" /\ Payload(n) = n
      BY <1>2, <1>3, <2>4, <2>7 DEF Sought
    <3>2. ASSUME NEW U \in SUBSET Kinds, U = Mistakable PROVE LastNamed(Prompts(S, U)) = n
      <4>1. i \in Prompts(S, U) /\ Prompts(S, U) \in SUBSET Prompts(S, U)
        BY <3>1 DEF Prompts
      <4>2. \A h \in S : rows[h].turn = n => rows[h].role \notin U
        BY <2>3, <3>2
      <4> QED BY <2>1, <2>2, <2>4, <3>1, <4>1, <4>2, LastPromptAmong
    <3>3. CASE agent = "codex"
      <4>1. Parsed(n, S) = ParseCodex(n, S) /\ {} = Mistakable /\ {} \in SUBSET Kinds
        BY <3>3 DEF Parsed, Mistakable
      <4> QED BY <3>1, <3>2, <4>1 DEF ParseCodex, n
    <3>4. CASE agent = "pi"
      <4>1. /\ Parsed(n, S) = ParsePi(n, S) /\ {"injected", "notice"} = Mistakable
            /\ {"injected", "notice"} \in SUBSET Kinds
        BY <3>4 DEF Parsed, Mistakable, Kinds
      <4> QED BY <3>1, <3>2, <4>1 DEF ParsePi, n
    <3>5. CASE agent = "cc"
      <4>1. Parsed(n, S) = ParseClaude(n, S) /\ {"notice"} = Mistakable /\ {"notice"} \in SUBSET Kinds
        BY <3>5 DEF Parsed, Mistakable, Kinds
      <4> QED BY <3>1, <3>2, <4>1 DEF ParseClaude, n
    <3> QED BY <1>4, <2>7, <3>3, <3>4, <3>5 DEF Reads, AllAgents
  <2> QED BY <2>5, <2>6, <2>7
<1>5. CASE agent = "opencode"
  <2>1. Parsed(n, S) = ParseOpenCode(n)
    BY <1>5 DEF Parsed
  <2> QED BY <1>1, <1>2, <1>3, <1>5, <2>1 DEF ParseOpenCode, n
<1>6. CASE agent = "zcode"
  <2>1. Parsed(n, S).prompt = parked /\ Parsed(n, S).answer = n
    BY <1>2, <1>3, <1>6 DEF Parsed, ParseZCode
  <2>2. n = typed
    <3>1. ~(typed > n)
      BY <1>2, <1>6 DEF Ahead
    <3> QED BY <1>1, <3>1
  <2>3. parked = n \/ (parked = None /\ Taken(n))
    BY <1>1, <1>6, <2>2 DEF ParkInv, Sidecar
  <2> QED BY <1>6, <2>1, <2>3 DEF n
<1>7. agent \in AllAgents
  BY CaptureAssumption DEF TypeInv, TypeOK
<1> QED BY <1>4, <1>5, <1>6, <1>7 DEF Reads

LEMMA OwnSpoken ==
  ASSUME TypeInv, TalkInv, OwnInv, Speak, NEW r \in Runs
  PROVE  OwnRun(r)'
<1>1. /\ run'[r].prompt = run[r].prompt /\ run'[r].answer = run[r].answer
      /\ run'[r].ahead = run[r].ahead /\ run'[r].blind = run[r].blind
      /\ run'[r].noisy = run[r].noisy
      /\ \A q \in Runs : run'[q].prompt = run[q].prompt
      /\ UNCHANGED <<agent, robbed>>
  BY Widened
<1>2. InTime(r)' => InTime(r)
  <2> SUFFICES ASSUME InTime(r)' PROVE InTime(r)
    OBVIOUS
  <2>1. run[r].answer # None /\ r[1] \in DOMAIN said
    BY <1>1, Widened DEF InTime
  <2>2. r[1] # typed + 1 /\ said'[r[1]] = said[r[1]]
    <3>1. r[1] \in Nat /\ r[1] <= typed /\ typed \in Nat
      BY <2>1, Widened DEF TypeInv, TypeOK
    <3>2. r[1] # typed + 1
      BY <3>1
    <3> QED BY <2>1, <3>2, Widened
  <2>3. r[1] \in caught
    BY <2>2, Widened DEF InTime
  <2> QED BY <1>1, <2>1, <2>2, <2>3 DEF InTime
<1> QED BY <1>1, <1>2 DEF OwnInv, OwnRun

LEMMA OwnStep ==
  ASSUME TypeInv, TalkInv, RowsInv, ParkInv, OwnInv, NEW r \in Runs, NEW p \in Runs, HookStep(r)
  PROVE  OwnRun(p)'
<1>1. /\ UNCHANGED <<agent, said, caught, typed>>
      /\ \A q \in Runs \ {r} : run'[q] = run[q]
  BY RunMoves DEF TypeInv, talkVars
<1>2. robbed \subseteq robbed'
  BY DEF HookStep, Onward, Look, Unpark, UnparkFails, Posted, PostFails, Die
<1>3. p[1] \in Nat /\ p[1] # 0
  BY CaptureAssumption DEF Runs
<1>4. \A q \in Runs : run[q].prompt = p[1] => run'[q].prompt = p[1]
  <2> SUFFICES ASSUME NEW q \in Runs, run[q].prompt = p[1] PROVE run'[q].prompt = p[1]
    OBVIOUS
  <2>1. CASE q # r
    BY <1>1, <2>1
  <2>2. CASE q = r /\ Look(r)
    <3>1. run[r].step = "look"
      BY <2>2 DEF Look
    <3> QED BY <1>3, <2>2, <3>1 DEF TalkInv, RunsAfter, None
  <2>3. CASE q = r /\ ~Look(r)
    BY <2>3, StepMoves DEF TypeInv, HookStep
  <2> QED BY <2>1, <2>2, <2>3
<1>5. CASE /\ run'[p].prompt = run[p].prompt /\ run'[p].answer = run[p].answer
           /\ run'[p].ahead = run[p].ahead /\ run'[p].blind = run[p].blind
           /\ run'[p].noisy = run[p].noisy
  <2>1. InTime(p)' => InTime(p)
    BY <1>1, <1>5 DEF InTime
  <2> QED BY <1>1, <1>2, <1>4, <1>5, <2>1 DEF OwnInv, OwnRun
<1>6. CASE p = r /\ Look(r)
  <2> SUFFICES ASSUME InTime(r)'
               PROVE  \/ run'[r].prompt = r[1] /\ run'[r].answer = r[1]
                      \/ /\ agent = "zcode" /\ run'[r].prompt = None
                         /\ r[1] \in robbed' \/ \E q \in Runs \ {r} : run'[q].prompt = r[1]
    BY <1>1, <1>6 DEF OwnRun
  <2>0. PICK S : Readable(S) /\ Finds(r, S)
    BY <1>6, LookMoves DEF TypeInv
  <2>1. /\ run[r].step = "look" /\ run'[r].prompt = Parsed(r[1], S).prompt
        /\ run'[r].answer = Parsed(r[1], S).answer
        /\ run'[r].ahead = Ahead(r[1]) /\ run'[r].blind = Blind(r[1], S)
        /\ run'[r].noisy = Noisy(r[1], S)
    BY <2>0 DEF Finds
  <2>2. /\ run'[r].answer # None /\ ~run'[r].ahead /\ ~run'[r].blind /\ ~run'[r].noisy
        /\ r[1] \in caught /\ said[r[1]] # Silent
    BY <1>1 DEF InTime
  <2>3. \/ Parsed(r[1], S).prompt = r[1] /\ Parsed(r[1], S).answer = r[1]
        \/ agent = "zcode" /\ Parsed(r[1], S).prompt = None /\ Taken(r[1])
    <3>1. ~Ahead(r[1]) /\ ~Blind(r[1], S) /\ ~Noisy(r[1], S) /\ Parsed(r[1], S).answer # None
      BY <2>1, <2>2
    <3> QED BY <2>0, <2>1, <2>2, <3>1, FoundInTime
  <2>4. Taken(r[1]) => r[1] \in robbed' \/ \E q \in Runs \ {r} : run'[q].prompt = r[1]
    <3>1. run[r].prompt # r[1]
      BY <1>3, <1>6, <2>1 DEF TalkInv, RunsAfter, None
    <3> QED BY <1>2, <1>4, <1>6, <3>1 DEF Taken
  <2> QED BY <2>1, <2>3, <2>4
<1> QED BY <1>1, <1>5, <1>6, StepMoves DEF TypeInv, HookStep

LEMMA OwnNext == TypeInv /\ TalkInv /\ RowsInv /\ ParkInv /\ OwnInv /\ [Next]_vars => OwnInv'
<1>1. ASSUME OwnInv, UNCHANGED vars PROVE OwnInv'
  BY <1>1 DEF vars, talkVars, OwnInv, OwnRun, InTime
<1>2. ASSUME TypeInv, TalkInv, OwnInv, Speak PROVE OwnInv'
  BY <1>2, OwnSpoken DEF OwnInv
<1>3. ASSUME TypeInv, TalkInv, RowsInv, ParkInv, OwnInv, NEW r \in Runs, HookStep(r)
      PROVE  OwnInv'
  BY <1>3, OwnStep DEF OwnInv
<1> QED BY <1>1, <1>2, <1>3 DEF Next, Speak, Talks, HookStep, Onward

(***************************************************************************)
(* A turn is stored with the prompt that was answered, for each agent, if  *)
(* no later prompt was there when the run looked, it could read the row it *)
(* has to find, and nothing stood there that its parser takes for a prompt *)
(* though no user typed it (zcode: unless another run took the prompt).    *)
(***************************************************************************)
THEOREM StoredWithOwnPrompt == Spec => []OwnPrompt
<1>1. TypeInv /\ TalkInv /\ OwnInv => OwnPrompt
  <2> SUFFICES ASSUME TypeInv, TalkInv, OwnInv, NEW t \in stored,
                      ~run[t.by].ahead, ~run[t.by].blind, ~run[t.by].noisy,
                      t.by[1] \in caught, said[t.by[1]] # Silent
               PROVE  \/ t.prompt = t.by[1] /\ t.answer = t.by[1]
                      \/ /\ agent = "zcode" /\ t.prompt = None
                         /\ \/ t.by[1] \in robbed
                            \/ \E q \in Runs \ {t.by} : run[q].prompt = t.by[1]
    BY DEF OwnPrompt
  <2>1. t.by \in Runs /\ t.answer # None
    BY CaptureAssumption DEF TypeInv, TypeOK, None
  <2>2. t.prompt = run[t.by].prompt /\ t.answer = run[t.by].answer
    BY DEF TalkInv, StoredFound
  <2>3. OwnRun(t.by) /\ InTime(t.by)
    BY <2>1, <2>2 DEF OwnInv, InTime
  <2> QED BY <2>2, <2>3 DEF OwnRun
<1> QED BY <1>1, TypeInit, TypeNext, TalkInit, TalkNext, RowsInit, RowsNext, ParkInit, ParkNext,
           OwnInit, OwnNext, PTL DEF Spec
=============================================================================
