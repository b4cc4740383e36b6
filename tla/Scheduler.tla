------------------------------ MODULE Scheduler ------------------------------
(***************************************************************************)
(* How the L1 and the L2 worker of rmbd share their LLM calls among the    *)
(* sessions that have work (RunBackpressuredCycle): a cycle fetches the    *)
(* first 2 * MaxC candidates, runs them in parallel batches as large as    *)
(* the concurrency controller allows, and ends early when that limit       *)
(* drops.  The workers differ in the order of the candidates: L1 takes the *)
(* session with the oldest turn first (byAge), L2 the one whose pipeline   *)
(* row was touched least recently.                                         *)
(*                                                                         *)
(* Pipeline has the same workers but selects a candidate at any time; here *)
(* is what that selection does when some sessions can not be processed.    *)
(***************************************************************************)
EXTENDS Naturals, FiniteSets, Sequences, SequencesExt

CONSTANTS
  Sessions,
  Settings,     \* the workers to look at, one at a time: see Worker
  MaxArrivals,  \* turns, or queued builds (bounds the model)
  MaxFaults     \* failures that do not repeat for ever (bounds the model)

(* A session works; or its call fails for good (an answer that never       *)
(* parses) or as a rate limit or timeout does, each time; or it waits: its *)
(* prepare finds that it is not due.                                       *)
Fates == {"works", "fails", "throttled", "waits"}

(* Is it the L1 worker (else L2), its l1_min_concurrency and               *)
(* l1_max_concurrency (or l2), and what becomes of each session.           *)
Worker == [byAge : BOOLEAN, minC : Nat, maxC : Nat, fate : [Sessions -> Fates]]

ASSUME SchedulerAssumption ==
  /\ Settings \subseteq Worker
  /\ \A w \in Settings : 1 <= w.minC /\ w.minC <= w.maxC
  /\ MaxArrivals \in Nat /\ MaxFaults \in Nat

VARIABLES
  worker,    \* the worker looked at
  queue,     \* the sessions that have work, in the order of the candidate query
  work,      \* how much of it each has
  phase,     \* of the worker: rest, cycle, batch (goroutines are running)
  todo,      \* the candidates of this cycle not yet started
  busy,      \* the sessions of the batch whose goroutine has not returned
  limit,     \* Controller.current
  pressure,  \* an outcome in Controller.window had pressure
  arrivals, faults

vars == <<worker, queue, work, phase, todo, busy, limit, pressure, arrivals, faults>>

-----------------------------------------------------------------------------
ByAge == worker.byAge
MinC  == worker.minC
MaxC  == worker.maxC
Fate  == worker.fate

Waiting == ToSet(queue)

Position(s) == CHOOSE i \in DOMAIN queue : queue[i] = s

Without(s) == IF s \in Waiting THEN RemoveAt(queue, Position(s)) ELSE queue

(* s takes the i-th place of the candidate order. *)
PutAt(s, i) == InsertAt(Without(s), i, s)

PutLast(s) == Append(Without(s), s)

First(seq, n) == SubSeq(seq, 1, IF n < Len(seq) THEN n ELSE Len(seq))

(* Variant: the limit follows a large backlog. *)
BadClamp(n) == IF n < MinC THEN MinC ELSE n

Clamp(n) == IF n < MinC THEN MinC ELSE IF n > MaxC THEN MaxC ELSE n

Halved == IF limit \div 2 < MinC THEN MinC ELSE limit \div 2

Candidates == First(queue, 2 * MaxC)

-----------------------------------------------------------------------------
Init ==
  /\ worker \in Settings
  /\ queue = <<>>
  /\ work = [s \in Sessions |-> 0]
  /\ phase = "rest" /\ todo = <<>> /\ busy = {}
  /\ limit = MinC /\ pressure = FALSE
  /\ arrivals = 0 /\ faults = 0

(* Session s gets a turn, whose created_at may be older than any (replayed *)
(* history); or for L2, its row is touched, queueing a build.              *)
Arrive(s) ==
  /\ arrivals < MaxArrivals
  /\ arrivals' = arrivals + 1
  /\ IF ByAge
     THEN /\ \E i \in 1..(IF s \in Waiting THEN Position(s) ELSE Len(queue) + 1) :
               queue' = PutAt(s, i)
          /\ work' = [work EXCEPT ![s] = @ + 1]
     ELSE /\ queue' = PutLast(s)
          /\ work' = [work EXCEPT ![s] = 1]
  /\ UNCHANGED <<worker, phase, todo, busy, limit, pressure, faults>>

(* The backlog is counted; if that fails, guess stands for it. *)
Counted(n, guess) ==
  \/ n = Len(queue) /\ UNCHANGED faults
  \/ n = guess /\ faults < MaxFaults /\ faults' = faults + 1

(* The ticker fires: candidates are read, and counted to seed the limit    *)
(* (which is left alone if the count fails).                               *)
Select ==
  /\ phase = "rest"
  /\ IF queue = <<>>
     THEN /\ limit' = Clamp(0)
          /\ UNCHANGED <<phase, todo, faults>>
     ELSE /\ phase' = "cycle"
          /\ todo' = Candidates
          /\ \E n \in {Len(queue), limit} : Counted(n, limit) /\ limit' = Clamp(n)
  /\ UNCHANGED <<worker, queue, work, busy, pressure, arrivals>>

StartBatch ==
  /\ phase = "cycle"
  /\ phase' = "batch"
  /\ busy' = ToSet(First(todo, limit))
  /\ todo' = SubSeq(todo, limit + 1, Len(todo))
  /\ UNCHANGED <<worker, queue, work, limit, pressure, arrivals, faults>>

(* The goroutine of s returns. *)
Return(s) ==
  /\ s \in busy
  /\ busy' = busy \ {s}
  /\ UNCHANGED <<worker, phase, todo, limit, arrivals>>

(* Some of its work is done; the turns that are left are younger. *)
Succeed(s) ==
  /\ Return(s)
  /\ Fate[s] = "works"
  /\ work' = [work EXCEPT ![s] = @ - 1]
  /\ IF work[s] = 1
     THEN queue' = Without(s)
     ELSE \E i \in Position(s)..Len(queue) : queue' = PutAt(s, i)
  /\ UNCHANGED <<pressure, faults>>

(* Variant: the failure does not touch the row. *)
BadFail(s) ==
  /\ Return(s)
  /\ \/ Fate[s] \in {"fails", "throttled"} /\ UNCHANGED faults
     \/ Fate[s] = "works" /\ faults < MaxFaults /\ faults' = faults + 1
  /\ \/ Fate[s] # "fails" /\ pressure' = TRUE
     \/ Fate[s] # "throttled" /\ UNCHANGED pressure
  /\ UNCHANGED <<queue, work>>

(* MarkPending or MarkFailed: still a candidate, but the row is touched.   *)
(* Rate limits and timeouts are pressure, other failures are not.          *)
Fail(s) ==
  /\ Return(s)
  /\ \/ Fate[s] \in {"fails", "throttled"} /\ UNCHANGED faults
     \/ Fate[s] = "works" /\ faults < MaxFaults /\ faults' = faults + 1
  /\ \/ Fate[s] # "fails" /\ pressure' = TRUE
     \/ Fate[s] # "throttled" /\ UNCHANGED pressure
  /\ queue' = IF ByAge THEN queue ELSE PutLast(s)
  /\ UNCHANGED work

(* The prepare finds that the session is not due: nothing changes. *)
NotDue(s) ==
  /\ Return(s)
  /\ Fate[s] = "waits"
  /\ UNCHANGED <<queue, work, pressure, faults>>

(* The backlog is counted again (or estimated, if that fails) and the      *)
(* limit follows it, halved instead on pressure; a drop ends the cycle.    *)
EndBatch ==
  /\ phase = "batch" /\ busy = {}
  /\ \E hint \in {Len(queue), Len(todo)} :
       /\ Counted(hint, Len(todo))
       /\ limit' = IF pressure THEN Halved ELSE Clamp(hint)
  /\ pressure' = FALSE
  /\ IF limit' < limit \/ todo = <<>>
     THEN phase' = "rest" /\ todo' = <<>>
     ELSE phase' = "cycle" /\ UNCHANGED todo
  /\ UNCHANGED <<worker, queue, work, busy, arrivals>>

Next ==
  \/ \E s \in Sessions : Arrive(s) \/ Succeed(s) \/ Fail(s) \/ NotDue(s)
  \/ Select \/ StartBatch \/ EndBatch

Spec == Init /\ [][Next]_vars

(* The ticker fires again and again, and every call ends (timeouts). *)
Fairness ==
  /\ WF_vars(Select) /\ WF_vars(StartBatch) /\ WF_vars(EndBatch)
  /\ \A s \in Sessions : WF_vars(Succeed(s) \/ Fail(s) \/ NotDue(s))

FairSpec == Spec /\ Fairness

-----------------------------------------------------------------------------
(* Properties *)

(* What the worker holds; it never runs more calls than configured.        *)
TypeOK ==
  /\ worker \in Settings
  /\ queue \in Seq(Sessions) /\ work \in [Sessions -> 0..MaxArrivals]
  /\ phase \in {"rest", "cycle", "batch"}
  /\ todo \in Seq(Sessions) /\ busy \subseteq Sessions
  /\ limit \in MinC..MaxC
  /\ Cardinality(busy) <= limit
  /\ pressure \in BOOLEAN
  /\ arrivals \in 0..MaxArrivals /\ faults \in 0..MaxFaults

(* The sessions that keep their place in the order when they are tried: L1 *)
(* does not touch created_at, and L2 no row that is not due.               *)
Keepers == {s \in Sessions : IF ByAge THEN Fate[s] # "works" ELSE Fate[s] = "waits"}

(* So many places has a cycle, but only those of its first batch if its    *)
(* candidates are throttled there again and again.                         *)
Places == IF \E s \in Keepers : Fate[s] = "throttled" THEN MaxC ELSE 2 * MaxC

(***************************************************************************)
(* As long as the sessions that keep their places leave one of them free,  *)
(* each session that has work is tried in the end, whatever fails or is    *)
(* throttled: no order of candidates, early end of a cycle or limit leaves *)
(* it behind.  (When they fill the places, the others do starve.)          *)
(***************************************************************************)
EveryCandidateTried ==
  Cardinality(Keepers) < Places => \A s \in Sessions : s \in Waiting ~> s \in busy
=============================================================================
