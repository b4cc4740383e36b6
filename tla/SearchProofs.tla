---------------------------- MODULE SearchProofs ----------------------------
(***************************************************************************)
(* Proofs about module Search: whatever is written between its reads, a    *)
(* search returns nothing that was never fit to be returned, and shows no  *)
(* scene beside a memory that it is the evidence of.                       *)
(***************************************************************************)
EXTENDS Search, SequenceTheorems, FiniteSetTheorems, WellFoundedInduction, TLAPS

(* What is fit now has been noted, and every stage holds noted rows only. *)
Noted ==
  /\ pc # "idle" => Fit(row, ask.window) \subseteq offered
  /\ pc \in {"embed", "look"} => \A t \in Tiers, leg \in Legs : In(t, leg) \subseteq offered
  /\ pc \in {"fold", "boost", "cut"} => UrisOf(kept) \subseteq offered
  /\ pc = "done" => UrisOf(answer) \subseteq offered

(* The candidates have the URIs that the lookups found. *)
LEMMA CandidatesFound ==
  UrisOf(Candidates) \subseteq UNION {In(t, leg) : t \in Tiers, leg \in Legs}
<1> SUFFICES ASSUME NEW a \in Candidates
             PROVE  a.uri \in UNION {In(t, leg) : t \in Tiers, leg \in Legs}
  BY DEF UrisOf
<1>1. PICK u \in UNION {In(t, leg) : t \in Tiers, leg \in Legs} :
        a = [uri |-> u, scenes |-> ScenesRead(u), score |-> Score(u)]
  BY DEF Candidates
<1> QED BY <1>1

(* A lookup returns rows fit at its moment. *)
LEMMA ResultsFit ==
  ASSUME NEW t, NEW leg, NEW list \in Results(t, leg), NEW i \in DOMAIN list
  PROVE  list[i] \in Fit(row, ask.window)
<1> DEFINE E == Eligible(t, leg)
<1>1. PICK n : list \in Injection(1..n, E)
  BY DEF Results
<1>2. list \in [1..n -> E]
  BY <1>1 DEF Injection
<1> QED BY <1>2 DEF Eligible

LEMMA NotedInit == Init => Noted
BY DEF Init, Noted

LEMMA NotedWrite == ASSUME Noted, Writer PROVE Noted'
<1>0. PICK u \in Uris : \E r : Write(u, r)
  BY DEF Writer, Rewrite, Drop, SetArchived, SetVector
<1>1. PICK r : Write(u, r)
  BY <1>0
<1>2. /\ offered' = offered \cup Fit(row, ask.window)'
      /\ UNCHANGED <<pc, ask, found, kept, answer>>
  BY <1>1 DEF Write, Fit, InWindow
<1>3. \A t, leg : In(t, leg)' = In(t, leg)
  BY <1>2 DEF In, At
<1> QED BY <1>2, <1>3 DEF Noted, UrisOf

LEMMA NotedStep == Noted /\ [Next]_vars => Noted'
<1> SUFFICES ASSUME Noted, [Next]_vars PROVE Noted'
  OBVIOUS
<1>1. ASSUME NEW r \in Requests, Ask(r) PROVE Noted'
  <2>1. \A t \in Tiers, leg \in Legs : In(t, leg)' = {}
    BY <1>1 DEF Ask, In, At
  <2> QED BY <1>1, <2>1 DEF Ask, Noted, Fit, InWindow
<1>2. CASE Look
  <2>0. PICK l : \E list \in Results(l[1], l[2]) :
          found' = [found EXCEPT ![l] = [i \in DOMAIN list |-> Hit(list[i])]]
    BY <1>2 DEF Look
  <2>1. PICK list \in Results(l[1], l[2]) :
          found' = [found EXCEPT ![l] = [i \in DOMAIN list |-> Hit(list[i])]]
    BY <2>0
  <2>2. /\ Fit(row, ask.window) \subseteq offered /\ pc' = "look"
        /\ UNCHANGED <<row, ask, offered>> /\ pc = "look"
    BY <1>2 DEF Look, Noted
  <2>3. ASSUME NEW t \in Tiers, NEW leg \in Legs PROVE In(t, leg)' \subseteq offered
    <3>1. CASE <<t, leg>> = l /\ <<t, leg>> \in DOMAIN found
      <4>1. At(t, leg)' = [i \in DOMAIN list |-> Hit(list[i])]
        BY <2>1, <3>1 DEF At
      <4>2. \A i \in DOMAIN list : list[i] \in offered
        BY <2>2, ResultsFit
      <4> QED BY <4>1, <4>2 DEF In, Hit
    <3>2. CASE ~(<<t, leg>> = l /\ <<t, leg>> \in DOMAIN found)
      <4>1. At(t, leg)' = At(t, leg)
        BY <2>1, <3>2 DEF At
      <4> QED BY <2>2, <4>1 DEF Noted, In
    <3> QED BY <3>1, <3>2
  <2> QED BY <2>2, <2>3 DEF Noted, Fit, InWindow
<1>3. CASE Rank
  <2>1. UrisOf(kept') \subseteq UrisOf(Candidates)
    BY <1>3 DEF Rank, UrisOf
  <2> QED BY <1>3, <2>1, CandidatesFound DEF Rank, Noted, UrisOf, Fit, InWindow
<1>4. CASE Fold
  <2>1. kept' \subseteq kept
    BY <1>4 DEF Fold, Capped
  <2> QED BY <1>4, <2>1 DEF Fold, Noted, UrisOf, Fit, InWindow
<1>5. CASE Boost
  <2>1. UrisOf(kept') \subseteq UrisOf(kept)
    <3> SUFFICES ASSUME NEW b \in kept' PROVE b.uri \in UrisOf(kept)
      BY DEF UrisOf
    <3>1. PICK a \in kept : \E n : b = [a EXCEPT !.score = n]
      BY <1>5 DEF Boost
    <3>2. b.uri = a.uri
      BY <3>1
    <3> QED BY <3>2 DEF UrisOf
  <2> QED BY <1>5, <2>1 DEF Boost, Noted, UrisOf, Fit, InWindow
<1>6. CASE Cut
  BY <1>6 DEF Cut, Top, Noted, UrisOf, Fit, InWindow
<1>7. CASE EmbedQuery
  BY <1>7 DEF EmbedQuery, Noted, UrisOf, Fit, InWindow, In, At
<1>8. CASE Fail \/ Finish
  BY <1>8 DEF Fail, Finish, Noted
<1>9. CASE UNCHANGED vars
  BY <1>9 DEF vars, Noted, UrisOf, Fit, InWindow, In, At
<1> QED BY <1>1, <1>2, <1>3, <1>4, <1>5, <1>6, <1>7, <1>8, <1>9, NotedWrite DEF Next

(***************************************************************************)
(* Every row of an answer was active, not archived and inside the window   *)
(* at one moment of the search (the filters of the tiers' lookups).        *)
(***************************************************************************)
THEOREM AnswersWereFit == Spec => []NothingDead
<1>1. Noted => NothingDead
  BY DEF Noted, NothingDead
<1> QED BY NotedInit, NotedStep, <1>1, PTL DEF Spec
-----------------------------------------------------------------------------
(***************************************************************************)
(* The candidates: one for each row found, with a score that is a number   *)
(* because only a lookup by words ranks by its place alone; and the first  *)
(* of any of them exists.                                                  *)
(***************************************************************************)
(* A tier's list holds rows of that tier. *)
Tiered == \A t \in Tiers, leg \in Legs : \A u \in In(t, leg) : Tier[u] = t

(* Lookups of skills, or without a request for vectors, use no vectors. *)
Planned ==
  /\ pc # "look" => todo = {}
  /\ \A l \in todo : l[2] = "vector" => ask.vector /\ l[1] # "skill"
  /\ \A t \in Tiers : In(t, "vector") # {} => ask.vector /\ t # "skill"

(* No two candidates of S are the same row. *)
OnePerUri(S) == \A a, b \in S : a.uri = b.uri => a = b

(* Every request is for some number of rows. *)
LEMMA KType == ASSUME TypeOK PROVE K \in Nat
BY DEF TypeOK, Request, K

(* The rows are typed; the lists hold what was found at their places. *)
LEMMA Lists ==
  ASSUME TypeOK, NEW t \in Tiers, NEW leg \in Legs
  PROVE  /\ In(t, leg) \subseteq Uris
         /\ \A u \in In(t, leg) :
              /\ PlaceIn(t, leg, u) \in Nat \ {0} /\ PlaceIn(t, leg, u) \in DOMAIN At(t, leg)
              /\ At(t, leg)[PlaceIn(t, leg, u)] \in Found
              /\ At(t, leg)[PlaceIn(t, leg, u)].uri = u
<1>1. At(t, leg) \in Seq(Found)
  BY DEF TypeOK, At
<1>2. DOMAIN At(t, leg) = 1..Len(At(t, leg)) /\ Len(At(t, leg)) \in Nat
  BY <1>1, LenProperties
<1>3. \A i \in DOMAIN At(t, leg) : At(t, leg)[i] \in Found
  BY <1>1, <1>2, ElementOfSeq
<1>4. ASSUME NEW u \in In(t, leg)
      PROVE  /\ PlaceIn(t, leg, u) \in DOMAIN At(t, leg)
             /\ At(t, leg)[PlaceIn(t, leg, u)].uri = u
  <2>1. \E i \in DOMAIN At(t, leg) : At(t, leg)[i].uri = u
    BY DEF In
  <2> QED BY <2>1 DEF PlaceIn
<1>5. In(t, leg) \subseteq Uris
  BY <1>3 DEF In, Found
<1> QED BY <1>2, <1>3, <1>4, <1>5

LEMMA ShareType ==
  ASSUME TypeOK, NEW weight \in Nat, NEW t \in Tiers, NEW leg \in Legs, NEW u
  PROVE  Share(weight, t, leg, u) \in Nat
<1>1. CASE u \in In(t, leg)
  <2>1. PICK i \in Nat \ {0} : i = PlaceIn(t, leg, u)
    BY <1>1, Lists
  <2>2. Unit \div (60 + i) \in Nat
    BY DEF Unit
  <2>3. weight * (Unit \div (60 + i)) \in Nat
    BY <2>2
  <2> QED BY <1>1, <2>1, <2>3 DEF Share
<1>2. CASE u \notin In(t, leg)
  BY <1>2 DEF Share
<1> QED BY <1>1, <1>2

LEMMA CandidateType ==
  ASSUME TypeOK, Tiered, Planned,
         NEW t \in Tiers, NEW leg \in Legs, NEW u \in In(t, leg)
  PROVE  /\ u \in Uris /\ Tier[u] = t
         /\ [uri |-> u, scenes |-> ScenesRead(u), score |-> Score(u)] \in Candidate
<1>1. u \in Uris /\ Tier[u] = t
  BY Lists DEF Tiered
<1>2. PICK far \in Legs : far = IF u \in In(t, "vector") THEN "vector" ELSE "words"
  BY DEF Legs
<1>3. u \in In(t, far)
  BY <1>2 DEF Legs
<1>4. ScenesRead(u) = At(t, far)[PlaceIn(t, far, u)].scenes
  BY <1>1, <1>2 DEF ScenesRead
<1>5. ScenesRead(u) \in SUBSET Scenes
  BY <1>3, <1>4, Lists DEF Found
<1>6. Score(u) \in Nat
  <2>1. CASE ask.vector /\ Tier[u] # "skill"
    <3>1. "vector" \in Legs /\ "words" \in Legs
      BY DEF Legs
    <3>2. Share(7, t, "vector", u) \in Nat /\ Share(3, t, "words", u) \in Nat
      BY <3>1, ShareType
    <3>3. Fused(u) \in Nat
      BY <1>1, <3>2 DEF Fused
    <3> QED BY <2>1, <3>3 DEF Score
  <2>2. CASE ~(ask.vector /\ Tier[u] # "skill")
    <3>1. u \in In(t, "words")
      BY <1>1, <2>2 DEF Planned, Legs
    <3>2. PICK i \in Nat : i = PlaceIn(t, "words", u)
      BY <3>1, Lists DEF Legs
    <3>3. 10 * Unit * i \in Nat
      BY DEF Unit
    <3> QED BY <1>1, <2>2, <3>2, <3>3 DEF Score
  <2> QED BY <2>1, <2>2
<1> QED BY <1>1, <1>5, <1>6 DEF Candidate

LEMMA CandidatesType ==
  ASSUME TypeOK, Tiered, Planned
  PROVE  /\ Candidates \subseteq Candidate
         /\ OnePerUri(Candidates)
         /\ UrisOf(Candidates) = UNION {In(t, leg) : t \in Tiers, leg \in Legs}
<1> DEFINE U == UNION {In(t, leg) : t \in Tiers, leg \in Legs}
           C(u) == [uri |-> u, scenes |-> ScenesRead(u), score |-> Score(u)]
<1>1. Candidates = {C(u) : u \in U}
  BY DEF Candidates
<1>2. \A u \in U : C(u) \in Candidate
  BY CandidateType
<1>3. \A u : C(u).uri = u
  OBVIOUS
<1> HIDE DEF U, C
<1>4. Candidates \subseteq Candidate /\ OnePerUri(Candidates) /\ UrisOf(Candidates) = U
  BY <1>1, <1>2, <1>3 DEF OnePerUri, UrisOf
<1> QED BY <1>4 DEF U

(* Candidates with one row each are finitely many: there are as many rows. *)
LEMMA FinitelyMany ==
  ASSUME NEW S \in SUBSET Candidate, OnePerUri(S)
  PROVE  IsFiniteSet(S)
<1> DEFINE f == [a \in S |-> a.uri]
<1>1. f \in [S -> Uris] /\ \A a, b \in S : f[a] = f[b] => a = b
  BY DEF Candidate, OnePerUri
<1>2. f \in Injection(S, Uris)
  BY <1>1 DEF Injection, IsInjective
<1> QED BY <1>2, SearchAssumption, FS_Injection

(* The first of some candidates: one with the fewest before it. *)
LEMMA First ==
  ASSUME NEW S \in SUBSET Candidate, OnePerUri(S), S # {}
  PROVE  FirstOf(S) \in S /\ \A b \in S \ {FirstOf(S)} : Before(FirstOf(S), b)
<1> DEFINE Ahead(a) == {b \in S : Before(b, a)}
           N == {Cardinality(Ahead(a)) : a \in S}
<1>1. \A a, b, c \in S : /\ ~Before(a, a)
                         /\ Before(a, b) /\ Before(b, c) => Before(a, c)
                         /\ a # b => Before(a, b) \/ Before(b, a)
  <2>1. \A a \in S : a.uri \in Nat /\ a.score \in Nat
    BY SearchAssumption DEF Candidate
  <2> QED BY <2>1 DEF Before, OnePerUri
<1>2. \A a \in S : IsFiniteSet(Ahead(a)) /\ Cardinality(Ahead(a)) \in Nat
  <2>1. \A a \in S : Ahead(a) \in SUBSET S
    OBVIOUS
  <2> HIDE DEF Ahead
  <2> QED BY <2>1, FinitelyMany, FS_Subset, FS_CardinalityType
<1>3. PICK n \in N : \A k \in N : ~(k < n)
  <2>1. IsWellFoundedOn(OpToRel(<, Nat), Nat)
    BY NatLessThanWellFounded
  <2>2. N \subseteq Nat /\ N # {}
    BY <1>2
  <2> HIDE DEF N
  <2>3. PICK n \in N : \A k \in N : ~(<<k, n>> \in OpToRel(<, Nat))
    BY <2>1, <2>2, WFMin
  <2>4. \A k, m \in Nat : k < m => <<k, m>> \in OpToRel(<, Nat)
    BY DEF OpToRel
  <2> QED BY <2>2, <2>3, <2>4
<1>4. PICK a \in S : Cardinality(Ahead(a)) = n
  OBVIOUS
<1>5. ASSUME NEW b \in Ahead(a) PROVE FALSE
  <2>1. b \in S /\ Ahead(b) \subseteq Ahead(a) \ {b}
    BY <1>1, <1>4, <1>5
  <2> HIDE DEF Ahead
  <2>2. /\ IsFiniteSet(Ahead(a) \ {b})
        /\ Cardinality(Ahead(a) \ {b}) = Cardinality(Ahead(a)) - 1
    BY <1>2, <1>4, <1>5, FS_RemoveElement
  <2>3. Cardinality(Ahead(b)) <= Cardinality(Ahead(a) \ {b})
    BY <2>1, <2>2, FS_Subset
  <2>4. Cardinality(Ahead(b)) < n
    BY <1>2, <1>4, <2>1, <2>2, <2>3
  <2> QED BY <1>3, <2>1, <2>4
<1>6. \A b \in S \ {a} : Before(a, b)
  BY <1>1, <1>4, <1>5
<1> QED BY <1>4, <1>6 DEF FirstOf
-----------------------------------------------------------------------------
(***************************************************************************)
(* The passes.  From the ranking on, no memory stands beside a scene it    *)
(* cites, and each scene that was found is a candidate or was folded into  *)
(* a memory that is one.                                                   *)
(***************************************************************************)
NoneBeside(S) == \A m \in OfTier(S, "memory") : m.scenes \cap UrisOf(S) = {}

IntoKept(F, S) == \A p \in F : /\ p[1] \notin UrisOf(S)
                               /\ p[2] \in UrisOf(OfTier(S, "memory"))

FoundScenes == In("scene", "words") \cup In("scene", "vector")

NoneLost(F, S) == \A s \in FoundScenes : s \in UrisOf(S) \/ \E p \in F : p[1] = s

(* What the fold leaves behind stays true of the passes after it. *)
Passed == pc \in {"fold", "boost", "cut", "done"} =>
            NoneBeside(kept) /\ IntoKept(folded, kept) /\ NoneLost(folded, kept)

(* The inductive invariant of a search. *)
SInv == TypeOK /\ Tiered /\ Planned /\ OnePerUri(kept) /\ Passed

LEMMA OfTierUris ==
  ASSUME NEW S, NEW t
  PROVE  UrisOf(OfTier(S, t)) \subseteq UrisOf(S) /\ OfTier(S, t) \subseteq S
BY DEF UrisOf, OfTier

LEMMA FewerPerUri ==
  ASSUME NEW S, OnePerUri(S), NEW T \in SUBSET S
  PROVE  /\ OnePerUri(T)
         /\ \A a \in S \ T : a.uri \notin UrisOf(T)
BY DEF OnePerUri, UrisOf

LEMMA InitS == Init => SInv
<1> SUFFICES ASSUME Init PROVE SInv
  OBVIOUS
<1>1. \A x \in Tiers \X Legs : found[x] = <<>> /\ found[x] \in Seq(Found)
  BY EmptySeq DEF Init
<1>2. \A t \in Tiers, leg \in Legs : In(t, leg) = {}
  <2> SUFFICES ASSUME NEW t \in Tiers, NEW leg \in Legs PROVE In(t, leg) = {}
    OBVIOUS
  <2>1. At(t, leg) = <<>>
    BY <1>1 DEF At
  <2> QED BY <2>1 DEF In
<1>3. found \in [Tiers \X Legs -> Seq(Found)]
  BY <1>1 DEF Init
<1>4. TypeOK
  BY <1>3, SearchAssumption DEF Init, TypeOK
<1>5. "vector" \in Legs
  BY DEF Legs
<1>6. Tiered /\ Planned /\ OnePerUri(kept) /\ Passed
  BY <1>2, <1>5 DEF Init, Tiered, Planned, OnePerUri, Passed
<1> QED BY <1>4, <1>6 DEF SInv

(* What a writer leaves in a row is a row. *)
LEMMA WriteRow ==
  ASSUME TypeOK, Writer
  PROVE  /\ row' \in [Uris -> Row]
         /\ UNCHANGED <<pc, ask, todo, found, kept, folded, answer>>
         /\ offered' \subseteq Uris /\ writes' \in 0..MaxWrites
<1>1. PICK u \in Uris : \/ \E scenes \in SUBSET Scenes : Rewrite(u, scenes)
                        \/ Drop(u)
                        \/ \E b \in BOOLEAN : SetArchived(u, b)
                        \/ SetVector(u)
  BY DEF Writer
<1>2. row \in [Uris -> Row] /\ row[u] \in Row
  BY DEF TypeOK
<1>3. \E r \in Row : Write(u, r)
  <2>1. ASSUME NEW scenes \in SUBSET Scenes, Rewrite(u, scenes) PROVE \E r \in Row : Write(u, r)
    <3> DEFINE aged == Tier[u] = "memory" /\ (row[u].aged \/ (row[u].live /\ ~row[u].fresh))
               r == [live |-> TRUE, archived |-> FALSE, vec |-> FALSE, fresh |-> TRUE,
                     aged |-> aged, scenes |-> scenes]
    <3>1. aged \in BOOLEAN
      BY <1>2 DEF Row
    <3>2. Write(u, r)
      BY <2>1 DEF Rewrite
    <3> HIDE DEF aged
    <3>3. r \in Row
      BY <3>1 DEF Row
    <3> QED BY <3>2, <3>3
  <2>2. CASE Drop(u)
    <3> DEFINE aged == Tier[u] = "memory" /\ (row[u].aged \/ ~row[u].fresh)
               r == [row[u] EXCEPT !.live = FALSE, !.aged = aged]
    <3>1. aged \in BOOLEAN
      BY <1>2 DEF Row
    <3>2. Write(u, r)
      BY <2>2 DEF Drop
    <3> HIDE DEF aged
    <3>3. r \in Row
      BY <1>2, <3>1 DEF Row
    <3> QED BY <3>2, <3>3
  <2>3. ASSUME NEW b \in BOOLEAN, SetArchived(u, b) PROVE \E r \in Row : Write(u, r)
    <3>1. [row[u] EXCEPT !.archived = b] \in Row
      BY <1>2 DEF Row
    <3> QED BY <2>3, <3>1 DEF SetArchived
  <2>4. CASE SetVector(u)
    <3>1. [row[u] EXCEPT !.vec = TRUE] \in Row
      BY <1>2 DEF Row
    <3> QED BY <2>4, <3>1 DEF SetVector
  <2> QED BY <1>1, <2>1, <2>2, <2>3, <2>4
<1>4. PICK r \in Row : Write(u, r)
  BY <1>3
<1>5. row' \in [Uris -> Row] /\ UNCHANGED <<pc, ask, todo, found, kept, folded, answer>>
  BY <1>2, <1>4 DEF Write
<1>6. offered' \subseteq Uris
  BY <1>4 DEF Write, Fit, TypeOK
<1>7. writes' \in 0..MaxWrites
  BY <1>4, SearchAssumption DEF Write, TypeOK
<1> QED BY <1>5, <1>6, <1>7

(* The plan asks for lookups that exist, by vector when the query has one. *)
LEMMA PlanType ==
  Plan \subseteq {l \in Tiers \X Legs : l[2] = "vector" => ask.vector /\ l[1] # "skill"}
<1>1. \A l \in Range(LegOrder) : l \in Tiers \X Legs /\ l # <<"skill", "vector">>
  <2>1. DOMAIN LegOrder = 1..7
    BY DEF LegOrder
  <2>2. \A i \in 1..7 : LegOrder[i] \in Tiers \X Legs /\ LegOrder[i] # <<"skill", "vector">>
    BY DEF LegOrder, Tiers, Legs
  <2> QED BY <2>1, <2>2 DEF Range
<1> QED BY <1>1 DEF Plan

(* The lists stay as they are and no lookup is left. *)
LEMMA NoneLeft ==
  ASSUME Tiered, Planned, UNCHANGED <<found, ask>>, todo' = {}
  PROVE  Tiered' /\ Planned'
<1>1. \A t \in Tiers, leg \in Legs : In(t, leg)' = In(t, leg)
  BY DEF In, At
<1>2. "vector" \in Legs
  BY DEF Legs
<1> QED BY <1>1, <1>2 DEF Tiered, Planned

(* A lookup returns a list of rows of its tier. *)
LEMMA ResultsType ==
  ASSUME TypeOK, NEW t \in Tiers, NEW leg \in Legs, NEW list \in Results(t, leg)
  PROVE  /\ [n \in DOMAIN list |-> Hit(list[n])] \in Seq(Found)
         /\ \A n \in DOMAIN list : list[n] \in Uris /\ Tier[list[n]] = t
<1> DEFINE E == Eligible(t, leg)
           most == IF Cardinality(E) < 2 * K THEN Cardinality(E) ELSE 2 * K
<1>1. E \subseteq Uris /\ \A u \in E : Tier[u] = t
  BY DEF Eligible, Fit
<1>2. Cardinality(E) \in Nat
  BY <1>1, SearchAssumption, FS_Subset, FS_CardinalityType
<1>3. PICK n \in Nat : list \in Injection(1..n, E)
  <2>1. most \in Nat
    BY <1>2, KType
  <2>2. PICK n \in IF leg = "vector" THEN {most} ELSE 0..most : list \in Injection(1..n, E)
    BY DEF Results
  <2> HIDE DEF most
  <2>3. n \in Nat
    BY <2>1
  <2> QED BY <2>2, <2>3
<1>4. list \in [1..n -> E]
  BY <1>3 DEF Injection
<1> HIDE DEF E
<1>5. \A i \in 1..n : Hit(list[i]) \in Found
  <2> SUFFICES ASSUME NEW i \in 1..n PROVE Hit(list[i]) \in Found
    OBVIOUS
  <2>1. list[i] \in Uris
    BY <1>1, <1>4
  <2>2. row[list[i]].scenes \in SUBSET Scenes
    BY <2>1 DEF TypeOK, Row
  <2> QED BY <2>1, <2>2 DEF Hit, Found
<1>6. [i \in 1..n |-> Hit(list[i])] \in [1..n -> Found]
  BY <1>5
<1>7. DOMAIN list = 1..n
  BY <1>4
<1>8. [i \in DOMAIN list |-> Hit(list[i])] \in Seq(Found)
  BY <1>6, <1>7, SeqDef
<1> QED BY <1>1, <1>4, <1>8

LEMMA LookStep == ASSUME SInv, Look PROVE SInv'
<1>1. PICK l \in todo :
        /\ \E list \in Results(l[1], l[2]) :
             found' = [found EXCEPT ![l] = [n \in DOMAIN list |-> Hit(list[n])]]
        /\ todo' = todo \ {l}
  BY DEF Look
<1>2. PICK t \in Tiers, leg \in Legs : l = <<t, leg>>
  <2>1. l \in Tiers \X Legs
    BY DEF SInv, TypeOK
  <2> QED BY <2>1
<1>3. PICK list \in Results(t, leg) : found' = [found EXCEPT ![<<t, leg>>] = [n \in DOMAIN list |-> Hit(list[n])]]
  <2>1. l[1] = t /\ l[2] = leg
    BY <1>2
  <2> QED BY <1>1, <1>2, <2>1
<1>4. UNCHANGED <<row, pc, ask, kept, folded, answer, offered, writes>> /\ pc = "look" /\ todo' \subseteq todo
  BY <1>1 DEF Look
<1>5. found \in [Tiers \X Legs -> Seq(Found)]
  BY DEF SInv, TypeOK
<1> DEFINE hits == [n \in DOMAIN list |-> Hit(list[n])]
<1>6. hits \in Seq(Found) /\ \A n \in DOMAIN list : list[n] \in Uris /\ Tier[list[n]] = t
  BY ResultsType DEF SInv
<1>7. DOMAIN hits = DOMAIN list /\ \A n \in DOMAIN hits : hits[n].uri = list[n]
  BY DEF Hit
<1> HIDE DEF hits
<1>8. found' \in [Tiers \X Legs -> Seq(Found)]
  BY <1>3, <1>5, <1>6 DEF hits
<1>9. \A t2 \in Tiers, leg2 \in Legs :
        At(t2, leg2)' = IF t2 = t /\ leg2 = leg THEN hits ELSE At(t2, leg2)
  BY <1>3, <1>5 DEF At, hits
<1>10. TypeOK'
  BY <1>4, <1>8 DEF SInv, TypeOK
<1>11. Tiered'
  <2> SUFFICES ASSUME NEW t2 \in Tiers, NEW leg2 \in Legs, NEW u \in In(t2, leg2)'
               PROVE  Tier[u] = t2
    BY DEF Tiered
  <2>1. CASE t2 = t /\ leg2 = leg
    BY <1>6, <1>7, <1>9, <2>1 DEF In
  <2>2. CASE ~(t2 = t /\ leg2 = leg)
    <3>1. u \in In(t2, leg2)
      BY <1>9, <2>2 DEF In
    <3> QED BY <3>1 DEF SInv, Tiered
  <2> QED BY <2>1, <2>2
<1>12. Planned'
  <2>1. \A x \in todo : x[2] = "vector" => ask.vector /\ x[1] # "skill"
    BY DEF SInv, Planned
  <2>2. leg = "vector" => ask.vector /\ t # "skill"
    <3>1. <<t, leg>> \in todo
      BY <1>1, <1>2
    <3>2. <<t, leg>>[2] = leg /\ <<t, leg>>[1] = t
      OBVIOUS
    <3> QED BY <2>1, <3>1, <3>2
  <2>3. ASSUME NEW t2 \in Tiers, In(t2, "vector")' # {} PROVE ask.vector /\ t2 # "skill"
    <3>1. CASE t2 = t /\ leg = "vector"
      BY <2>2, <3>1
    <3>2. CASE ~(t2 = t /\ leg = "vector")
      <4>1. At(t2, "vector")' = At(t2, "vector")
        BY <1>9, <3>2 DEF Legs
      <4>2. In(t2, "vector") # {}
        BY <2>3, <4>1 DEF In
      <4> QED BY <4>2 DEF SInv, Planned
    <3> QED BY <3>1, <3>2
  <2> QED BY <1>4, <2>1, <2>3 DEF Planned
<1>13. OnePerUri(kept)' /\ Passed'
  BY <1>4 DEF SInv, OnePerUri, Passed
<1> QED BY <1>10, <1>11, <1>12, <1>13 DEF SInv
LEMMA RankStep == ASSUME SInv, Rank PROVE SInv'
<1> DEFINE C == Candidates
<1>1. /\ kept' = C \ Evidence(C)
      /\ folded' = {<<s.uri, FirstOf(Owners(C, s)).uri>> : s \in Evidence(C)}
      /\ UNCHANGED <<row, ask, todo, found, answer, offered, writes>>
      /\ pc' = "fold" /\ todo = {}
  BY DEF Rank
<1>2. C \subseteq Candidate /\ OnePerUri(C)
  BY CandidatesType DEF SInv
<1>3. FoundScenes \subseteq UrisOf(C)
  <2>1. UrisOf(C) = UNION {In(t, leg) : t \in Tiers, leg \in Legs}
    BY CandidatesType DEF SInv
  <2> HIDE DEF C
  <2> QED BY <2>1 DEF FoundScenes, Tiers, Legs
<1> HIDE DEF C
<1>4. Evidence(C) \subseteq C /\ \A s \in Evidence(C) : Tier[s.uri] = "scene"
  BY DEF Evidence, OfTier
<1>5. ASSUME NEW s \in Evidence(C)
      PROVE  FirstOf(Owners(C, s)) \in OfTier(kept', "memory")
  <2>1. Owners(C, s) \subseteq C /\ Owners(C, s) # {}
    BY DEF Evidence, Owners, OfTier
  <2>2. OnePerUri(Owners(C, s)) /\ Owners(C, s) \in SUBSET Candidate
    BY <1>2, <2>1, FewerPerUri
  <2>3. FirstOf(Owners(C, s)) \in Owners(C, s)
    BY <2>1, <2>2, First
  <2>4. \A m \in Owners(C, s) : Tier[m.uri] = "memory" /\ m \in C
    BY DEF Owners, OfTier
  <2>5. \A m \in Owners(C, s) : m \notin Evidence(C)
    BY <1>4, <2>4
  <2> QED BY <1>1, <2>3, <2>4, <2>5 DEF OfTier
<1>6. kept' \subseteq C /\ kept' \subseteq Candidate /\ OnePerUri(kept')
  BY <1>1, <1>2, FewerPerUri
<1>7. folded' \subseteq Uris \X Uris
  <2> SUFFICES ASSUME NEW s \in Evidence(C)
               PROVE  s.uri \in Uris /\ FirstOf(Owners(C, s)).uri \in Uris
    BY <1>1
  <2>1. s \in Candidate /\ FirstOf(Owners(C, s)) \in Candidate
    BY <1>2, <1>4, <1>5, <1>6, OfTierUris
  <2> QED BY <2>1 DEF Candidate
<1>8. TypeOK'
  BY <1>1, <1>6, <1>7 DEF SInv, TypeOK
<1>9. NoneBeside(kept')
  <2> SUFFICES ASSUME NEW m \in OfTier(kept', "memory"), NEW s \in kept', s.uri \in m.scenes
               PROVE  FALSE
    BY DEF NoneBeside, UrisOf
  <2>1. m \in C /\ m \in Candidate /\ Tier[m.uri] = "memory" /\ s \in C
    BY <1>6 DEF OfTier
  <2>2. Tier[s.uri] = "scene"
    BY <2>1 DEF Candidate, Scenes
  <2>3. m \in Owners(C, s)
    BY <2>1 DEF Owners, OfTier
  <2>4. s \in Evidence(C)
    BY <2>1, <2>2, <2>3 DEF Evidence, OfTier
  <2> QED BY <1>1, <2>4
<1>10. IntoKept(folded', kept')
  <2>1. \A s \in Evidence(C) : s.uri \notin UrisOf(kept')
    BY <1>1, <1>2, <1>4, <1>6, FewerPerUri
  <2>2. \A s \in Evidence(C) : FirstOf(Owners(C, s)).uri \in UrisOf(OfTier(kept', "memory"))
    BY <1>5 DEF UrisOf
  <2> SUFFICES ASSUME NEW p \in folded'
               PROVE  p[1] \notin UrisOf(kept') /\ p[2] \in UrisOf(OfTier(kept', "memory"))
    BY DEF IntoKept
  <2>3. PICK s \in Evidence(C) : p = <<s.uri, FirstOf(Owners(C, s)).uri>>
    BY <1>1
  <2>4. p[1] = s.uri /\ p[2] = FirstOf(Owners(C, s)).uri
    BY <2>3
  <2> QED BY <2>1, <2>2, <2>4
<1>11. \A s \in FoundScenes : s \in UrisOf(kept') \/ \E p \in folded' : p[1] = s
  <2> SUFFICES ASSUME NEW s \in FoundScenes
               PROVE  s \in UrisOf(kept') \/ \E p \in folded' : p[1] = s
    OBVIOUS
  <2>1. PICK a \in C : a.uri = s
    BY <1>3 DEF UrisOf
  <2>2. CASE a \in Evidence(C)
    <3>1. <<a.uri, FirstOf(Owners(C, a)).uri>> \in folded'
      BY <1>1, <2>2
    <3> QED BY <2>1, <3>1
  <2>3. CASE a \notin Evidence(C)
    BY <1>1, <2>1, <2>3 DEF UrisOf
  <2> QED BY <2>2, <2>3
<1>12. FoundScenes' = FoundScenes
  BY <1>1 DEF FoundScenes, In, At
<1>13. Passed'
  BY <1>9, <1>10, <1>11, <1>12 DEF Passed, NoneLost, NoneBeside, IntoKept, OfTier, UrisOf
<1>14. Tiered' /\ Planned'
  BY <1>1, NoneLeft DEF SInv
<1> QED BY <1>6, <1>8, <1>13, <1>14 DEF SInv, OnePerUri

LEMMA FoldStep == ASSUME SInv, Fold PROVE SInv'
<1>0. todo = {}
  BY DEF SInv, Planned, Fold
<1>1. PICK twins \in SUBSET (OfTier(kept, "memory") \X OfTier(kept, "scene")) :
        LET dup == {p[2] : p \in twins} IN
        /\ kept' = Capped(kept \ dup)
        /\ folded' = folded \cup
             {<<s.uri, FirstOf({p[1] : p \in {q \in twins : q[2] = s}}).uri>> : s \in dup}
  <2>1. (IF FewPairs THEN Comparable ELSE {}) \subseteq OfTier(kept, "memory") \X OfTier(kept, "scene")
    BY DEF Comparable
  <2> QED BY <2>1 DEF Fold
<1> DEFINE dup == {p[2] : p \in twins}
           With(s) == {p[1] : p \in {q \in twins : q[2] = s}}
<1>2. /\ kept' = Capped(kept \ dup)
      /\ folded' = folded \cup {<<s.uri, FirstOf(With(s)).uri>> : s \in dup}
  BY <1>1
<1>3. /\ UNCHANGED <<row, ask, todo, found, answer, offered, writes>>
      /\ pc = "fold" /\ pc' = "boost"
  BY DEF Fold
<1>4. dup \subseteq OfTier(kept, "scene")
  OBVIOUS
<1>5. \A s \in dup : With(s) # {} /\ With(s) \subseteq OfTier(kept, "memory")
  OBVIOUS
<1> HIDE DEF dup, With
<1>6. kept \in SUBSET Candidate /\ OnePerUri(kept) /\ OfTier(kept, "memory") \subseteq kept
  BY OfTierUris DEF SInv, TypeOK
<1>7. ASSUME NEW s \in dup PROVE FirstOf(With(s)) \in OfTier(kept, "memory")
  <2>1. With(s) \in SUBSET Candidate /\ OnePerUri(With(s)) /\ With(s) # {}
    BY <1>5, <1>6, FewerPerUri
  <2> QED BY <1>5, <2>1, First
<1>8. /\ kept' \subseteq kept \ dup
      /\ \A a \in kept \ dup : Tier[a.uri] # "skill" => a \in kept'
  BY <1>2 DEF Capped
<1>9. OfTier(kept', "memory") = OfTier(kept, "memory")
  BY <1>4, <1>8 DEF OfTier
<1>10. OnePerUri(kept')
  BY <1>6, <1>8, FewerPerUri
<1>11. TypeOK'
  <2>1. \A s \in dup : s \in Candidate /\ FirstOf(With(s)) \in Candidate
    BY <1>4, <1>6, <1>7 DEF OfTier
  <2>2. folded' \subseteq Uris \X Uris
    BY <1>2, <2>1 DEF SInv, TypeOK, Candidate
  <2> QED BY <1>3, <1>6, <1>8, <2>2 DEF SInv, TypeOK
<1>12. NoneBeside(kept) /\ IntoKept(folded, kept) /\ NoneLost(folded, kept)
  BY <1>3 DEF SInv, Passed
<1>13. UrisOf(kept') \subseteq UrisOf(kept)
  BY <1>8 DEF UrisOf
<1>14. NoneBeside(kept')
  BY <1>9, <1>12, <1>13 DEF NoneBeside
<1>15. IntoKept(folded', kept')
  <2>1. \A p \in folded : p[1] \notin UrisOf(kept') /\ p[2] \in UrisOf(OfTier(kept', "memory"))
    BY <1>9, <1>12, <1>13 DEF IntoKept
  <2>2. ASSUME NEW s \in dup
        PROVE  s.uri \notin UrisOf(kept') /\ FirstOf(With(s)).uri \in UrisOf(OfTier(kept', "memory"))
    <3>1. s \in kept \ kept'
      BY <1>4, <1>8 DEF OfTier
    <3>2. kept' \in SUBSET kept
      BY <1>8
    <3>3. s.uri \notin UrisOf(kept')
      BY <1>6, <3>1, <3>2, FewerPerUri
    <3> QED BY <1>7, <1>9, <3>3 DEF UrisOf
  <2> SUFFICES ASSUME NEW p \in folded'
               PROVE  p[1] \notin UrisOf(kept') /\ p[2] \in UrisOf(OfTier(kept', "memory"))
    BY DEF IntoKept
  <2>3. CASE p \in folded
    BY <2>1, <2>3
  <2>4. CASE p \notin folded
    <3>1. PICK s \in dup : p = <<s.uri, FirstOf(With(s)).uri>>
      BY <1>2, <2>4
    <3>2. p[1] = s.uri /\ p[2] = FirstOf(With(s)).uri
      BY <3>1
    <3> QED BY <2>2, <3>2
  <2> QED BY <2>3, <2>4
<1>16. ASSUME NEW s \in FoundScenes
       PROVE  s \in UrisOf(kept') \/ \E p \in folded' : p[1] = s
  <2>1. Tier[s] = "scene"
    BY DEF FoundScenes, SInv, Tiered, Tiers, Legs
  <2>2. s \in UrisOf(kept) \/ \E p \in folded : p[1] = s
    BY <1>12 DEF NoneLost
  <2>3. ASSUME NEW a \in kept, a.uri = s
        PROVE  s \in UrisOf(kept') \/ \E p \in folded' : p[1] = s
    <3>1. CASE a \in dup
      <4>1. <<a.uri, FirstOf(With(a)).uri>> \in folded'
        BY <1>2, <3>1
      <4> QED BY <2>3, <4>1
    <3>2. CASE a \notin dup
      BY <1>8, <2>1, <2>3, <3>2 DEF UrisOf
    <3> QED BY <3>1, <3>2
  <2> QED BY <1>2, <2>2, <2>3 DEF UrisOf
<1>17. FoundScenes' = FoundScenes
  BY <1>3 DEF FoundScenes, In, At
<1>18. Passed'
  BY <1>14, <1>15, <1>16, <1>17 DEF Passed, NoneLost, NoneBeside, IntoKept, OfTier, UrisOf
<1>19. Tiered' /\ Planned'
  BY <1>0, <1>3, NoneLeft DEF SInv
<1> QED BY <1>10, <1>11, <1>18, <1>19 DEF SInv, OnePerUri

LEMMA BoostStep == ASSUME SInv, Boost PROVE SInv'
<1>0. todo = {}
  BY DEF SInv, Planned, Boost
<1>1. PICK bonus \in [UrisOf(OfTier(kept, "memory")) -> {0, Bonus, 2 * Bonus}] :
        kept' = {[a EXCEPT !.score = @ + IF Tier[a.uri] = "memory" THEN bonus[a.uri] ELSE 0] :
                   a \in kept}
  BY DEF Boost
<1>2. /\ UNCHANGED <<row, ask, todo, found, folded, answer, offered, writes>>
      /\ pc = "boost" /\ pc' = "cut"
  BY DEF Boost
<1>3. kept \subseteq Candidate /\ OnePerUri(kept)
  BY DEF SInv, TypeOK
<1> DEFINE More(a) == IF Tier[a.uri] = "memory" THEN bonus[a.uri] ELSE 0
           New(a) == [a EXCEPT !.score = a.score + More(a)]
<1>4. kept' = {New(a) : a \in kept}
  BY <1>1
<1>5. \A a \in kept : More(a) \in Nat
  <2>1. \A n \in {0, Bonus, 2 * Bonus} : n \in Nat
    BY DEF Bonus
  <2>2. \A a \in kept : Tier[a.uri] = "memory" => a.uri \in UrisOf(OfTier(kept, "memory"))
    BY DEF UrisOf, OfTier
  <2> QED BY <1>1, <2>1, <2>2
<1> HIDE DEF More
<1>6. \A a \in kept : New(a) \in Candidate /\ New(a).uri = a.uri /\ New(a).scenes = a.scenes
  BY <1>3, <1>5 DEF Candidate
<1> HIDE DEF New
<1>7. kept' \subseteq Candidate /\ OnePerUri(kept')
  BY <1>3, <1>4, <1>6 DEF OnePerUri
<1>8. /\ UrisOf(kept') = UrisOf(kept)
      /\ UrisOf(OfTier(kept', "memory")) = UrisOf(OfTier(kept, "memory"))
      /\ \A m \in OfTier(kept', "memory") : \E a \in OfTier(kept, "memory") : m.scenes = a.scenes
  BY <1>4, <1>6 DEF UrisOf, OfTier
<1>9. TypeOK'
  BY <1>2, <1>7 DEF SInv, TypeOK
<1>10. NoneBeside(kept) /\ IntoKept(folded, kept) /\ NoneLost(folded, kept)
  BY <1>2 DEF SInv, Passed
<1>11. /\ NoneBeside(kept') /\ IntoKept(folded, kept')
       /\ \A s \in FoundScenes : s \in UrisOf(kept') \/ \E p \in folded : p[1] = s
  BY <1>8, <1>10 DEF NoneBeside, IntoKept, NoneLost
<1>12. FoundScenes' = FoundScenes
  BY <1>2 DEF FoundScenes, In, At
<1>13. Passed'
  BY <1>2, <1>11, <1>12 DEF Passed, NoneLost, NoneBeside, IntoKept, OfTier, UrisOf
<1>14. Tiered' /\ Planned'
  BY <1>0, <1>2, NoneLeft DEF SInv
<1> QED BY <1>7, <1>9, <1>13, <1>14 DEF SInv, OnePerUri

LEMMA AskStep == ASSUME SInv, NEW r \in Requests, Ask(r) PROVE SInv'
<1>1. /\ pc = "idle" /\ pc' = "embed" /\ ask' = r /\ found' = [x \in Tiers \X Legs |-> <<>>]
      /\ kept' = {} /\ folded' = {} /\ answer' = {} /\ offered' = Fit(row, r.window)
      /\ UNCHANGED <<row, todo, writes>>
  BY DEF Ask
<1>2. found' \in [Tiers \X Legs -> Seq(Found)]
  BY <1>1, EmptySeq
<1>3. \A t \in Tiers, leg \in Legs : In(t, leg)' = {}
  <2> SUFFICES ASSUME NEW t \in Tiers, NEW leg \in Legs PROVE In(t, leg)' = {}
    OBVIOUS
  <2>1. At(t, leg)' = <<>>
    BY <1>1 DEF At
  <2> QED BY <2>1 DEF In
<1>4. TypeOK'
  BY <1>1, <1>2, SearchAssumption DEF SInv, TypeOK, Fit
<1>5. "vector" \in Legs
  BY DEF Legs
<1>6. todo' = {}
  BY <1>1 DEF SInv, Planned
<1> QED BY <1>1, <1>3, <1>4, <1>5, <1>6 DEF SInv, Tiered, Planned, OnePerUri, Passed

(* The steps that change neither lists nor candidates.                     *)
LEMMA SameLists ==
  ASSUME SInv, UNCHANGED <<ask, found, kept, folded>>, TypeOK',
         pc' \in {"fold", "boost", "cut", "done"} => pc \in {"fold", "boost", "cut", "done"},
         pc' # "look" => todo' = {},
         \A l \in todo' : l[2] = "vector" => ask.vector /\ l[1] # "skill"
  PROVE  SInv'
<1>1. \A t \in Tiers, leg \in Legs : In(t, leg)' = In(t, leg)
  BY DEF In, At
<1>2. FoundScenes' = FoundScenes
  BY DEF FoundScenes, In, At
<1>3. Tiered' /\ Planned' /\ OnePerUri(kept)'
  BY <1>1 DEF SInv, Tiered, Planned, OnePerUri, Legs
<1>4. Passed'
  BY <1>2 DEF SInv, Passed, NoneBeside, IntoKept, NoneLost, OfTier, UrisOf
<1> QED BY <1>3, <1>4 DEF SInv

LEMMA SStep == ASSUME SInv, [Next]_vars PROVE SInv'
<1>0. TypeOK /\ (pc # "look" => todo = {}) /\ \A l \in todo : l[2] = "vector" => ask.vector /\ l[1] # "skill"
  BY DEF SInv, Planned
<1>1. CASE EmbedQuery
  <2>1. /\ UNCHANGED <<row, ask, found, kept, folded, answer, offered, writes>>
        /\ pc' = "look" /\ todo' = Plan
    BY <1>1 DEF EmbedQuery
  <2>2. TypeOK'
    BY <1>0, <2>1, PlanType DEF TypeOK
  <2> QED BY <2>1, <2>2, PlanType, SameLists
<1>2. CASE Fail
  <2>1. /\ UNCHANGED <<row, ask, found, answer, offered, writes>>
        /\ pc' = "idle" /\ kept' = {} /\ folded' = {} /\ todo' = {}
    BY <1>2 DEF Fail
  <2>2. TypeOK'
    BY <1>0, <2>1 DEF TypeOK
  <2>3. Tiered' /\ Planned'
    BY <2>1, NoneLeft DEF SInv
  <2> QED BY <2>1, <2>2, <2>3 DEF SInv, OnePerUri, Passed
<1>3. CASE Cut
  <2>1. /\ UNCHANGED <<row, ask, todo, found, kept, folded, offered, writes>>
        /\ pc = "cut" /\ pc' = "done" /\ answer' \subseteq kept
    BY <1>3 DEF Cut, Top
  <2>2. TypeOK'
    BY <1>0, <2>1 DEF TypeOK
  <2> QED BY <1>0, <2>1, <2>2, SameLists
<1>4. CASE Finish
  <2>1. /\ UNCHANGED <<row, ask, todo, found, kept, folded, answer, offered, writes>>
        /\ pc = "done" /\ pc' = "idle"
    BY <1>4 DEF Finish
  <2>2. TypeOK'
    BY <1>0, <2>1 DEF TypeOK
  <2> QED BY <1>0, <2>1, <2>2, SameLists
<1>5. CASE Writer
  <2>1. /\ row' \in [Uris -> Row] /\ UNCHANGED <<pc, ask, todo, found, kept, folded, answer>>
        /\ offered' \subseteq Uris /\ writes' \in 0..MaxWrites
    BY <1>0, <1>5, WriteRow
  <2>2. TypeOK'
    BY <1>0, <2>1 DEF TypeOK
  <2> QED BY <1>0, <2>1, <2>2, SameLists
<1>6. CASE UNCHANGED vars
  <2>1. UNCHANGED <<row, pc, ask, todo, found, kept, folded, answer, offered, writes>>
    BY <1>6 DEF vars
  <2>2. TypeOK'
    BY <1>0, <2>1 DEF TypeOK
  <2> QED BY <1>0, <2>1, <2>2, SameLists
<1> QED BY <1>1, <1>2, <1>3, <1>4, <1>5, <1>6, AskStep, LookStep, RankStep, FoldStep, BoostStep DEF Next

(* The lists, the candidates and what is left of them, in every state.     *)
THEOREM SearchInvariant == Spec => []SInv
<1>1. SInv /\ [Next]_vars => SInv'
  BY SStep
<1> QED BY InitS, <1>1, PTL DEF Spec

(***************************************************************************)
(* The lists and candidates are what the passes take them to be: every     *)
(* score is a number and every fold names a memory that exists.            *)
(***************************************************************************)
THEOREM TypeCorrect == Spec => []TypeOK
<1>1. SInv => TypeOK
  BY DEF SInv
<1> QED BY SearchInvariant, <1>1, PTL

(***************************************************************************)
(* When a search has passed its candidates, no memory stands beside a      *)
(* scene that it cites, every scene left out was folded into a memory that *)
(* is still a candidate, and no scene that was found is missing for any    *)
(* other reason.  (Service.Search: evidence folding, cross-tier dedup)     *)
(***************************************************************************)
THEOREM EvidenceIsFolded == Spec => []EvidenceFolded
<1>1. SInv => EvidenceFolded
  <2> SUFFICES ASSUME SInv, pc \in {"cut", "done"}
               PROVE  NoneBeside(kept) /\ IntoKept(folded, kept) /\ NoneLost(folded, kept)
    BY OfTierUris DEF EvidenceFolded, NoneBeside, IntoKept, NoneLost, FoundScenes
  <2> QED BY DEF SInv, Passed
<1> QED BY SearchInvariant, <1>1, PTL
=============================================================================
