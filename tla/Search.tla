------------------------------- MODULE Search -------------------------------
(***************************************************************************)
(* Hybrid recall (recall.Service.Search behind GET /search): the query is  *)
(* embedded, each wanted tier is looked up by words (FTS5) and by vector   *)
(* (sqlite-vec), the two lists of a tier are fused by reciprocal rank, and *)
(* the merged candidates go through the passes that fold a scene into the  *)
(* memory it is the evidence of, keep one skill, add usage heat, and cut   *)
(* the list at k.                                                          *)
(*                                                                         *)
(* Each lookup is a read of the database of its own, with no transaction   *)
(* around them, while the workers, the archive and the editor of skills    *)
(* write: a row that one lookup found may be gone or rewritten at the next.*)
(*                                                                         *)
(* Which rows match the words, and in which order bm25 or the distance put *)
(* them, is chosen at the lookup: a search does each lookup once.  A URI   *)
(* is its place in the order of URIs, which breaks ties of score.          *)
(***************************************************************************)
EXTENDS Integers, FiniteSets, Sequences, Functions

CONSTANTS
  Uris,      \* the URIs of all rows
  Tier,      \* the tier of each
  Requests,  \* what the client may ask
  Starts,    \* the databases to begin with
  MaxPairs,  \* maxCrossTierPairs
  MaxWrites  \* writes in all (bounds the model)

Tiers == {"memory", "scene", "atom", "skill"}

Legs == {"words", "vector"}

Windows == {"always", "since", "until"}

Request == [k : Nat, scopes : SUBSET (Tiers \cup {"other"}),
            vector : BOOLEAN, window : Windows, boost : BOOLEAN]

Scenes == {u \in Uris : Tier[u] = "scene"}

(* An active row: fresh means updated_at lies after the bound of the       *)
(* window; aged, that superseded versions of it lie before it.  A row that *)
(* is not live does not exist, or all its versions are superseded.         *)
Row == [live : BOOLEAN, archived : BOOLEAN, vec : BOOLEAN, fresh : BOOLEAN,
        aged : BOOLEAN, scenes : SUBSET Scenes]

ASSUME SearchAssumption ==
  /\ Uris \subseteq Nat /\ IsFiniteSet(Uris)
  /\ Tier \in [Uris -> Tiers]
  /\ Requests \subseteq Request
  /\ Starts \subseteq [Uris -> Row]
  /\ MaxPairs \in Nat /\ MaxWrites \in Nat

VARIABLES
  row,      \* the database
  pc,       \* idle, embed, look, fold, boost, cut, done
  ask,      \* the request
  todo,     \* the lookups still to do
  found,    \* what the lookups returned: sequences of [uri, scenes]
  kept,     \* the candidates that remain, a set of [uri, scenes, score]
  folded,   \* the scenes left out, each with the memory annotated for it
  answer,   \* the candidates returned; their order is Before
  offered,  \* (history) what was fit to be returned at some time of this search
  writes

vars == <<row, pc, ask, todo, found, kept, folded, answer, offered, writes>>

-----------------------------------------------------------------------------
(* The request as Search reads it. *)

K == IF ask.k = 0 THEN 5 ELSE ask.k

Want == IF ask.scopes = {} THEN {"memory", "skill"} ELSE ask.scopes

SkillOnly == Want = {"skill"}

(* The order of the lookups.  The skill tier has none by vector. *)
LegOrder == << <<"memory", "words">>, <<"memory", "vector">>, <<"scene", "words">>,
               <<"scene", "vector">>, <<"atom", "words">>, <<"atom", "vector">>,
               <<"skill", "words">> >>

Plan == {l \in Range(LegOrder) : l[1] \in Want /\ (l[2] = "vector" => ask.vector)}

-----------------------------------------------------------------------------
(* The lookups. *)

InWindow(r, window) ==
  \/ window = "always"
  \/ window = "since" /\ r.fresh
  \/ window = "until" /\ ~r.fresh

(* The rows of database d fit for an answer in that window. *)
Fit(d, window) == {u \in Uris : d[u].live /\ ~d[u].archived /\ InWindow(d[u], window)}

(* Variant: the vector lookup forgets that memories are archived. *)
BadEligible(t, leg) ==
  {u \in Uris : /\ Tier[u] = t /\ row[u].live /\ InWindow(row[u], ask.window)
                /\ leg = "words" => ~row[u].archived
                /\ leg = "vector" => row[u].vec}

Eligible(t, leg) ==
  {u \in Fit(row, ask.window) : Tier[u] = t /\ (leg = "vector" => row[u].vec)}

(* At most 2k rows.  Words may match any of the eligible rows, the vector  *)
(* is at some distance from each.                                          *)
Results(t, leg) ==
  LET E    == Eligible(t, leg)
      most == IF Cardinality(E) < 2 * K THEN Cardinality(E) ELSE 2 * K
  IN  UNION {Injection(1..n, E) : n \in IF leg = "vector" THEN {most} ELSE 0..most}

Hit(u) == [uri |-> u, scenes |-> row[u].scenes]

-----------------------------------------------------------------------------
(* Ranking.  Scores are exact integers: 1.0 is 10 * Unit, and 60 + i       *)
(* divides Unit for i in 1..4.                                             *)

Unit == 7624512

ASSUME ShortLists ==
  \A t \in Tiers : \A S \in SUBSET {u \in Uris : Tier[u] = t} : Cardinality(S) <= 4

At(t, leg) == found[<<t, leg>>]

In(t, leg) == {At(t, leg)[i].uri : i \in DOMAIN At(t, leg)}

PlaceIn(t, leg, u) == CHOOSE i \in DOMAIN At(t, leg) : At(t, leg)[i].uri = u

Share(weight, t, leg, u) ==
  IF u \in In(t, leg) THEN weight * (Unit \div (60 + PlaceIn(t, leg, u))) ELSE 0

Fused(u) == Share(7, Tier[u], "vector", u) + Share(3, Tier[u], "words", u)

(* Variant: the score of a lookup by words falls below zero, as bm25 does. *)
BadScore(u) == IF ask.vector /\ Tier[u] # "skill" THEN Fused(u)
               ELSE 0 - PlaceIn(Tier[u], "words", u)

(* A tier with one list keeps the place in that list as its score. *)
Score(u) == IF ask.vector /\ Tier[u] # "skill" THEN Fused(u)
            ELSE 10 * Unit * PlaceIn(Tier[u], "words", u)

(* The scenes of a memory are those the vector lookup read, if it found it. *)
ScenesRead(u) ==
  LET leg == IF u \in In(Tier[u], "vector") THEN "vector" ELSE "words"
  IN  At(Tier[u], leg)[PlaceIn(Tier[u], leg, u)].scenes

Candidates == {[uri |-> u, scenes |-> ScenesRead(u), score |-> Score(u)] :
                 u \in UNION {In(t, leg) : t \in Tiers, leg \in Legs}}

Before(a, b) == a.score > b.score \/ (a.score = b.score /\ a.uri < b.uri)

FirstOf(S) == CHOOSE a \in S : \A b \in S \ {a} : Before(a, b)

UrisOf(S) == {a.uri : a \in S}

OfTier(S, t) == {a \in S : Tier[a.uri] = t}

(* Variant: a scene ranked above the memories that cite it stays. *)
BadOwners(S, s) == {m \in OfTier(S, "memory") : s.uri \in m.scenes /\ Before(m, s)}

(* The memories whose evidence a candidate scene is, of any rank. *)
Owners(S, s) == {m \in OfTier(S, "memory") : s.uri \in m.scenes}

Evidence(S) == {s \in OfTier(S, "scene") : Owners(S, s) # {}}

Capped(S) ==
  {a \in S : Tier[a.uri] = "skill" /\ ~SkillOnly =>
               \A b \in OfTier(S, "skill") : ~Before(b, a)}

Top(S) == {a \in S : Cardinality({b \in S : Before(b, a)}) < K}

-----------------------------------------------------------------------------
Init ==
  /\ row \in Starts
  /\ pc = "idle"
  /\ ask \in Requests
  /\ todo = {}
  /\ found = [x \in Tiers \X Legs |-> <<>>]
  /\ kept = {} /\ folded = {} /\ answer = {} /\ offered = {}
  /\ writes = 0

(* Only a scope that exists is accepted. *)
Ask(r) ==
  /\ pc = "idle"
  /\ "other" \notin r.scopes
  /\ ask' = r
  /\ pc' = "embed"
  /\ found' = [x \in Tiers \X Legs |-> <<>>]
  /\ kept' = {} /\ folded' = {} /\ answer' = {}
  /\ offered' = Fit(row, r.window)
  /\ UNCHANGED <<row, todo, writes>>

(* The call of the embedding service, when there is one. *)
EmbedQuery ==
  /\ pc = "embed"
  /\ pc' = "look"
  /\ todo' = Plan
  /\ UNCHANGED <<row, ask, found, kept, folded, answer, offered, writes>>

(* The embedding call or any read fails: so does the search. *)
Fail ==
  /\ pc \in {"embed", "look", "fold", "boost"}
  /\ pc' = "idle"
  /\ kept' = {} /\ folded' = {} /\ todo' = {}
  /\ UNCHANGED <<row, ask, found, answer, offered, writes>>

Look ==
  /\ pc = "look"
  /\ \E i \in DOMAIN LegOrder :
       LET l == LegOrder[i] IN
       /\ l \in todo /\ \A j \in 1..(i - 1) : LegOrder[j] \notin todo
       /\ \E list \in Results(l[1], l[2]) :
            found' = [found EXCEPT ![l] = [n \in DOMAIN list |-> Hit(list[n])]]
       /\ todo' = todo \ {l}
  /\ UNCHANGED <<row, pc, ask, kept, folded, answer, offered, writes>>

(* Merge the tiers and fold the scenes that a candidate memory cites. *)
Rank ==
  /\ pc = "look" /\ todo = {}
  /\ LET C == Candidates IN
     /\ kept' = C \ Evidence(C)
     /\ folded' = {<<s.uri, FirstOf(Owners(C, s)).uri>> : s \in Evidence(C)}
  /\ pc' = "fold"
  /\ UNCHANGED <<row, ask, todo, found, answer, offered, writes>>

(* The pairs whose stored vectors can be compared now. *)
Comparable ==
  {p \in OfTier(kept, "memory") \X OfTier(kept, "scene") :
     /\ row[p[1].uri].live /\ row[p[1].uri].vec
     /\ row[p[2].uri].live /\ row[p[2].uri].vec}

FewPairs ==
  Cardinality(OfTier(kept, "memory")) * Cardinality(OfTier(kept, "scene")) <= MaxPairs

(* Fold the scenes whose stored vector is that of a memory (cosine above   *)
(* 0.98), then keep the first skill.                                       *)
Fold ==
  /\ pc = "fold"
  /\ \E twins \in SUBSET IF FewPairs THEN Comparable ELSE {} :
       LET dup == {p[2] : p \in twins} IN
       /\ kept' = Capped(kept \ dup)
       /\ folded' = folded \cup
            {<<s.uri, FirstOf({p[1] : p \in {q \in twins : q[2] = s}}).uri>> : s \in dup}
  /\ pc' = "boost"
  /\ UNCHANGED <<row, ask, todo, found, answer, offered, writes>>

(* Heat adds up to about a tenth of the best fused score, and so does the  *)
(* newness of the row; all versions of a memory are read, the last one     *)
(* decides which age it has.                                               *)
Bonus == 121992

Bonuses(u) == {heat + novelty :
  heat \in {0, Bonus},
  novelty \in {IF row[u].live /\ row[u].fresh THEN Bonus ELSE 0}
                \cup (IF row[u].aged THEN {0} ELSE {})}

Boost ==
  /\ pc = "boost"
  /\ \E bonus \in [UrisOf(OfTier(kept, "memory")) -> {0, Bonus, 2 * Bonus}] :
       /\ \A u \in DOMAIN bonus : bonus[u] \in IF ask.boost THEN Bonuses(u) ELSE {0}
       /\ kept' = {[a EXCEPT !.score =
                      @ + IF Tier[a.uri] = "memory" THEN bonus[a.uri] ELSE 0] : a \in kept}
  /\ pc' = "cut"
  /\ UNCHANGED <<row, ask, todo, found, folded, answer, offered, writes>>

Cut ==
  /\ pc = "cut"
  /\ answer' = Top(kept)
  /\ pc' = "done"
  /\ UNCHANGED <<row, ask, todo, found, kept, folded, offered, writes>>

Finish ==
  /\ pc = "done"
  /\ pc' = "idle"
  /\ UNCHANGED <<row, ask, todo, found, kept, folded, answer, offered, writes>>

-----------------------------------------------------------------------------
(* The writers, between any two steps of the search. *)

Write(u, r) ==
  /\ writes < MaxWrites
  /\ writes' = writes + 1
  /\ row' = [row EXCEPT ![u] = r]
  /\ offered' = offered \cup Fit(row', ask.window)
  /\ UNCHANGED <<pc, ask, todo, found, kept, folded, answer>>

(* A new version of a memory or a skill, not yet embedded, not archived;   *)
(* or a scene rewritten in place, or a new atom.                           *)
Rewrite(u, scenes) ==
  /\ Tier[u] # "memory" => scenes = {}
  /\ Tier[u] = "atom" => ~row[u].live
  /\ Write(u, [live |-> TRUE, archived |-> FALSE, vec |-> FALSE, fresh |-> TRUE,
               aged |-> Tier[u] = "memory" /\ (row[u].aged \/ (row[u].live /\ ~row[u].fresh)),
               scenes |-> scenes])

(* A memory merged into another, or a scene no longer in its session's set. *)
Drop(u) ==
  /\ Tier[u] \in {"memory", "scene"} /\ row[u].live
  /\ Write(u, [row[u] EXCEPT !.live = FALSE, !.aged = Tier[u] = "memory" /\ (@ \/ ~row[u].fresh)])

SetArchived(u, b) ==
  /\ Tier[u] = "memory" /\ row[u].live
  /\ Write(u, [row[u] EXCEPT !.archived = b])

SetVector(u) ==
  /\ row[u].live /\ ~row[u].vec
  /\ Write(u, [row[u] EXCEPT !.vec = TRUE])

Writer == \E u \in Uris :
  \/ \E scenes \in SUBSET Scenes : Rewrite(u, scenes)
  \/ Drop(u)
  \/ \E b \in BOOLEAN : SetArchived(u, b)
  \/ SetVector(u)

Next ==
  \/ \E r \in Requests : Ask(r)
  \/ EmbedQuery \/ Fail \/ Look \/ Rank \/ Fold \/ Boost \/ Cut \/ Finish
  \/ Writer

Spec == Init /\ [][Next]_vars

-----------------------------------------------------------------------------
Found == [uri : Uris, scenes : SUBSET Scenes]

Candidate == [uri : Uris, scenes : SUBSET Scenes, score : Nat]

(* What the variables hold. *)
TypeOK ==
  /\ row \in [Uris -> Row]
  /\ pc \in {"idle", "embed", "look", "fold", "boost", "cut", "done"}
  /\ ask \in Request
  /\ todo \subseteq Tiers \X Legs
  /\ found \in [Tiers \X Legs -> Seq(Found)]
  /\ kept \subseteq Candidate /\ answer \subseteq Candidate
  /\ folded \subseteq Uris \X Uris
  /\ offered \subseteq Uris
  /\ writes \in 0..MaxWrites

(* Whatever is written between the reads of a search, a row it returns was *)
(* at one moment of the search active, not archived and inside the window  *)
(* of time asked for (every lookup filters; the later passes add nothing). *)
NothingDead == pc = "done" => UrisOf(answer) \subseteq offered

(* A scene never stands beside a memory that cites it, whichever of them   *)
(* ranks higher and however they changed since they were read; and a scene *)
(* left out is folded into a memory that stays a candidate: the two passes *)
(* never lose a fact in both tiers.                                        *)
EvidenceFolded ==
  pc \in {"cut", "done"} =>
    /\ \A m \in OfTier(kept, "memory") : m.scenes \cap UrisOf(kept) = {}
    /\ \A p \in folded : p[1] \notin UrisOf(kept) /\ p[2] \in UrisOf(kept)
    /\ \A s \in In("scene", "words") \cup In("scene", "vector") :
         s \in UrisOf(kept) \/ \E p \in folded : p[1] = s

=============================================================================
