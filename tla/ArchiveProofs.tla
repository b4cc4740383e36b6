--------------------------- MODULE ArchiveProofs ---------------------------
(***************************************************************************)
(* Proofs about module Archive, for any memories, goroutines, histories    *)
(* and settings.                                                           *)
(***************************************************************************)
EXTENDS Archive, SequenceTheorems, FiniteSetTheorems, TLAPS

-----------------------------------------------------------------------------
(* Heat only decays: what is left of it is a number, and no more than it   *)
(* was.                                                                    *)
LEMMA DecayedType ==
  ASSUME now \in 0..MaxTime, NEW h \in Nat, NEW since \in 0..MaxTime, since <= now
  PROVE  Decayed(h, since) \in Nat /\ Decayed(h, since) <= h
<1> DEFINE n == now - since
<1>1. MaxTime \in 0..7
  BY ArchiveAssumption
<1>2. n \in 0..7
  BY <1>1
<1>3. CASE n = 0
  BY <1>3 DEF Decayed
<1>4. ASSUME n # 0, NEW d \in {368, 135, 50, 18, 7, 2, 1}, Decay[n] = d
      PROVE  Decayed(h, since) \in Nat /\ Decayed(h, since) <= h
  <2>1. Decayed(h, since) = (h * d) \div 1000
    BY <1>4 DEF Decayed
  <2>2. (h * d) \div 1000 \in Nat /\ (h * d) \div 1000 <= h
    BY <1>4, SMTT(30)
  <2> QED BY <2>1, <2>2
<1>5. n # 0 => Decay[n] \in {368, 135, 50, 18, 7, 2, 1}
  BY <1>2 DEF Decay
<1> QED BY <1>3, <1>4, <1>5

(* A row of a sequence replaced, or all of them. *)
LEMMA Replaced ==
  ASSUME NEW S, NEW s \in Seq(S), NEW i, NEW e, i \in 1..Len(s) => e \in S
  PROVE  /\ [s EXCEPT ![i] = e] \in Seq(S)
         /\ Len([s EXCEPT ![i] = e]) = Len(s)
         /\ \A j \in 1..Len(s) : [s EXCEPT ![i] = e][j] = IF j = i THEN e ELSE s[j]
<1>1. CASE i \in 1..Len(s)
  BY <1>1, ExceptSeq
<1>2. CASE i \notin 1..Len(s)
  <2>1. s \in [1..Len(s) -> S]
    BY LenProperties
  <2>2. [s EXCEPT ![i] = e] = s
    BY <1>2, <2>1
  <2> QED BY <1>2, <2>2
<1> QED BY <1>1, <1>2

LEMMA Mapped ==
  ASSUME NEW R, NEW S, NEW s \in Seq(R), NEW t \in [DOMAIN s -> S]
  PROVE  t \in Seq(S) /\ Len(t) = Len(s) /\ DOMAIN t = 1..Len(s)
<1>1. Len(s) \in Nat /\ DOMAIN s = 1..Len(s)
  BY LenProperties
<1>2. t \in [1..Len(s) -> S]
  BY <1>1
<1>3. t \in Seq(S)
  BY <1>1, <1>2, SeqDef
<1>4. DOMAIN t = 1..Len(t) /\ Len(t) \in Nat
  BY <1>3, LenProperties
<1>5. DOMAIN t = 1..Len(s)
  BY <1>2
<1> QED BY <1>1, <1>3, <1>4, <1>5

-----------------------------------------------------------------------------
(* Rows of the tables with one column written. *)
LEMMA RowTypes ==
  /\ \A q \in Query : /\ [q EXCEPT !.recent = FALSE] \in Query
                      /\ [q EXCEPT !.converted = TRUE] \in Query
  /\ \A v \in Version : /\ [v EXCEPT !.deleted = TRUE] \in Version
                        /\ \A b \in BOOLEAN : [v EXCEPT !.archived = b] \in Version
                        /\ \A t \in 0..MaxTime : [v EXCEPT !.sources = "guess", !.at = t] \in Version
  /\ \A u \in Use, s \in {"idle", "join"} :
       [u EXCEPT !.step = s] \in Use /\ [u EXCEPT !.step = s].at = u.at
<1>1. ASSUME NEW q \in Query
      PROVE  [q EXCEPT !.recent = FALSE] \in Query /\ [q EXCEPT !.converted = TRUE] \in Query
  BY DEF Query
<1>2. ASSUME NEW v \in Version, NEW b \in BOOLEAN, NEW t \in 0..MaxTime
      PROVE  /\ [v EXCEPT !.deleted = TRUE] \in Version
             /\ [v EXCEPT !.archived = b] \in Version
             /\ [v EXCEPT !.sources = "guess", !.at = t] \in Version
  BY DEF Version
<1>3. ASSUME NEW u \in Use, NEW s \in {"idle", "join"}
      PROVE  [u EXCEPT !.step = s] \in Use /\ [u EXCEPT !.step = s].at = u.at
  BY DEF Use
<1>4. 0 \in 0..MaxTime
  BY ArchiveAssumption
<1> QED BY <1>1, <1>2, <1>3, <1>4

(* Nothing was used in the future. *)
Past ==
  /\ \A u \in Memories : lastUse[u] # Never => lastUse[u] <= now
  /\ \A g \in Users : use[g].at <= now

TInv == TypeOK /\ Past

Untouched(u) == versions'[u] = versions[u]

LEMMA TypeInit == Init => TInv
<1> SUFFICES ASSUME Init PROVE TInv
  OBVIOUS
<1> USE ArchiveAssumption DEF Init
<1>1. MaxTime \in Nat /\ Never \in Nat /\ Never = MaxTime + 1
  BY DEF Never
<1>2. versions \in [Memories -> Seq(Version)] /\ \A u \in Memories : versions[u] # <<>>
  BY HistoriesAssumption
<1>3. Idle \in Use
  BY <1>1 DEF Idle, Use, Kinds
<1>4. use \in [Users -> Use]
  BY <1>3
<1>5. queries \in Seq(Query)
  BY EmptySeq
<1>6. lastUse \in [Memories -> 0..Never]
  BY <1>1
<1>7. Past
  BY <1>1 DEF Past, Idle
<1>8. orphans \in [Memories -> Nat]
  OBVIOUS
<1> QED BY <1>1, <1>2, <1>4, <1>5, <1>6, <1>7, <1>8 DEF TInv, TypeOK, Use

(* The writes of L3: new versions, with sources that may be those of the   *)
(* old one, and refreshed rows.                                            *)
Sources == {"own", "none", "guess"}

Writes == \E u \in Memories, s \in Sources : Supersede(u, s) \/ Refresh(u, s)

(* The row of u that is in use.                                            *)
LEMMA InUse ==
  ASSUME TInv, NEW u \in Memories
  PROVE  /\ versions[u] \in Seq(Version) /\ Len(versions[u]) \in Nat \ {0}
         /\ Active(u) = Len(versions[u]) /\ Active(u) \in 1..Len(versions[u])
         /\ versions[u][Active(u)] \in Version
<1>1. versions[u] \in Seq(Version) /\ versions[u] # <<>>
  BY DEF TInv, TypeOK
<1>2. Len(versions[u]) \in Nat \ {0} /\ Active(u) \in 1..Len(versions[u])
  BY <1>1, EmptySeq, LenProperties DEF Active
<1> QED BY <1>1, <1>2, ElementOfSeq DEF Active

(* What a step can be.                                                     *)
LEMMA Steps ==
  ASSUME TInv, [Next]_vars
  PROVE  \/ Pass \/ QueriesAge
         \/ \E top \in SUBSET Memories : Search(top)
         \/ \E g \in Users : (\E u \in Memories, kind \in Kinds : ReadHeat(g, u, kind))
                              \/ WriteHeat(g) \/ Join(g)
         \/ Approve \/ Restore \/ StartGC \/ StartBackfill
         \/ \E d \in doomed : Delete(d)
         \/ \E u \in Memories : Link(u)
         \/ \E u \in Memories : Correct(u)
         \/ Writes
         \/ UNCHANGED vars
<1>1. \A u \in Memories : versions[u][Active(u)].sources \in Sources
  BY InUse DEF Version, Sources
<1>2. {"own", "none"} \subseteq Sources
  BY DEF Sources
<1> QED BY <1>1, <1>2 DEF Next, Writes

(* A row in use that L3 refreshes.                                         *)
LEMMA Refreshed ==
  ASSUME TInv, NEW u \in Memories, NEW w \in Memories, NEW s \in Sources, Refresh(w, s)
  PROVE  \E e \in Version :
           /\ e.at = now /\ ~e.deleted /\ e.sources = s /\ (e.real <=> s = "own")
           /\ versions'[u] \in Seq(Version) /\ Len(versions'[u]) = Len(versions[u])
           /\ \A v \in 1..Len(versions[u]) :
                versions'[u][v] = IF u = w /\ v = Active(u) THEN e ELSE versions[u][v]
<1> DEFINE e == [Row(s) EXCEPT !.archived = Archived(w)]
<1>1. now \in 0..MaxTime /\ versions \in [Memories -> Seq(Version)]
  BY DEF TInv, TypeOK
<1>2. Archived(w) \in BOOLEAN
  BY InUse DEF Archived, Version
<1>3. /\ e \in Version /\ e.at = now /\ ~e.deleted /\ e.sources = s
      /\ (e.real <=> s = "own")
  BY <1>1, <1>2 DEF Row, Version, Sources
<1>4. versions' = [versions EXCEPT ![w] = [versions[w] EXCEPT ![Active(w)] = e]]
  BY DEF Refresh
<1> HIDE DEF e
<1>5. CASE u = w
  <2>1. versions'[u] = [versions[u] EXCEPT ![Active(u)] = e]
    BY <1>1, <1>4, <1>5
  <2> QED BY <1>3, <1>5, <2>1, InUse, Replaced
<1>6. CASE u # w
  <2>1. versions'[u] = versions[u]
    BY <1>1, <1>4, <1>6
  <2> QED BY <1>3, <1>6, <2>1, InUse
<1> QED BY <1>5, <1>6

LEMMA EventType == ASSUME TInv, Event PROVE events' \in 0..MaxEvents
BY ArchiveAssumption DEF TInv, TypeOK, Event

LEMMA UsageType ==
  ASSUME TInv,
         \/ Pass \/ QueriesAge
         \/ \E top \in SUBSET Memories : Search(top)
         \/ \E g \in Users : (\E u \in Memories, kind \in Kinds : ReadHeat(g, u, kind))
                              \/ WriteHeat(g) \/ Join(g)
  PROVE  TInv'
<1> USE DEF TInv, TypeOK, Past, Usage, usage
<1>0. MaxTime \in Nat /\ Never = MaxTime + 1
  BY ArchiveAssumption DEF Never
<1> DEFINE Aged == [i \in DOMAIN queries |-> [queries[i] EXCEPT !.recent = FALSE]]
<1>1. Aged \in Seq(Query)
  <2>1. queries \in Seq(Query) /\ DOMAIN queries = 1..Len(queries)
    BY LenProperties
  <2>2. \A i \in 1..Len(queries) : Aged[i] \in Query
    BY <2>1, ElementOfSeq, RowTypes
  <2>3. Aged \in [DOMAIN queries -> Query]
    BY <2>1, <2>2
  <2> HIDE DEF TInv, TypeOK, Aged
  <2> QED BY <2>1, <2>3, Mapped
<1>2. CASE Pass
  <2>1. now' \in 0..MaxTime /\ now' = now + 1
    BY <1>0, <1>2 DEF Pass
  <2>2. queries' \in Seq(Query)
    BY <1>1, <1>2 DEF Pass
  <2>3. Past'
    <3>1. \A g \in Users : use[g].at \in 0..MaxTime
      BY DEF Use
    <3>2. UNCHANGED <<use, lastUse>>
      BY <1>2 DEF Pass
    <3> QED BY <1>0, <2>1, <3>1, <3>2
  <2> QED BY <1>2, <2>1, <2>2, <2>3 DEF Pass
<1>3. CASE QueriesAge
  BY <1>1, <1>3 DEF QueriesAge
<1>4. ASSUME NEW top \in SUBSET Memories, Search(top) PROVE TInv'
  <2>1. seen' \in [Memories -> Nat]
    <3>1. seen \in [Memories -> Nat]
      OBVIOUS
    <3> HIDE DEF TInv, TypeOK, Past
    <3> QED BY <1>4, <3>1 DEF Search, RecordSearch
  <2>2. queries' \in Seq(Query)
    <3>1. [top |-> top, recent |-> TRUE, converted |-> FALSE] \in Query
      BY DEF Query
    <3> QED BY <1>4, <3>1, AppendProperties DEF Search
  <2>3. events' \in 0..MaxEvents
    BY <1>4, EventType DEF Search
  <2> QED BY <1>4, <2>1, <2>2, <2>3 DEF Search, RecordSearch
<1>5. ASSUME NEW g \in Users, NEW u \in Memories, NEW kind \in Kinds, ReadHeat(g, u, kind)
      PROVE  TInv'
  <2>1. DecayHeat(u, kind) \in Nat
    <3>1. lastUse[u] # Never => lastUse[u] \in 0..MaxTime /\ lastUse[u] <= now
      BY <1>0
    <3>2. lastUse[u] # Never => Decayed(heat[u], lastUse[u]) \in Nat
      BY <3>1, DecayedType
    <3>3. heat[u] \in Nat
      OBVIOUS
    <3> HIDE DEF TInv, TypeOK, Past
    <3> QED BY <3>2, <3>3 DEF DecayHeat, Weight
  <2> DEFINE new == [step |-> "write", uri |-> u, kind |-> kind, at |-> now,
                     heat |-> DecayHeat(u, kind)]
  <2>2. new \in Use /\ new.at = now
    BY <2>1 DEF Use
  <2>3. use' = [use EXCEPT ![g] = new] /\ UNCHANGED <<now, lastUse>>
    BY <1>5 DEF ReadHeat
  <2> HIDE DEF new
  <2>4. use' \in [Users -> Use] /\ \A h \in Users : use'[h].at <= now
    BY <2>2, <2>3
  <2>5. events' \in 0..MaxEvents
    BY <1>5, EventType DEF ReadHeat
  <2> QED BY <1>5, <2>4, <2>5 DEF ReadHeat
<1>6. ASSUME NEW g \in Users, WriteHeat(g) PROVE TInv'
  <2>1. use[g].uri \in Memories /\ use[g].heat \in Nat /\ use[g].at \in 0..MaxTime
    BY DEF Use
  <2>2. heat' \in [Memories -> Nat]
    BY <1>6, <2>1 DEF WriteHeat
  <2>3. lastUse' \in [Memories -> 0..Never]
    BY <1>0, <1>6, <2>1 DEF WriteHeat
  <2>4. cats' \in [Memories -> Nat] /\ metas' \in [Memories -> Nat]
    <3>1. \/ cats' = [cats EXCEPT ![use[g].uri] = @ + 1] /\ metas' = metas
          \/ metas' = [metas EXCEPT ![use[g].uri] = @ + 1] /\ cats' = cats
      BY <1>6 DEF WriteHeat
    <3>2. cats \in [Memories -> Nat] /\ metas \in [Memories -> Nat]
      OBVIOUS
    <3> HIDE DEF TInv, TypeOK, Past
    <3>3. \A u \in Memories : cats[u] + 1 \in Nat /\ metas[u] + 1 \in Nat
      BY <3>2
    <3> QED BY <2>1, <3>1, <3>2, <3>3
  <2>5. PICK step \in {"idle", "join"} : use' = [use EXCEPT ![g] = [use[g] EXCEPT !.step = step]]
    BY <1>6 DEF WriteHeat
  <2>6. use' \in [Users -> Use] /\ \A h \in Users : use'[h].at = use[h].at
    BY <2>5, RowTypes
  <2>7. \A u \in Memories : lastUse'[u] # Never => lastUse'[u] <= now
    BY <1>6, <2>1 DEF WriteHeat
  <2>8. UNCHANGED <<now, versions, corrected, doomed, began, orphans, raced, seen, queries, events>>
    BY <1>6 DEF WriteHeat
  <2>9. TypeOK'
    BY <2>2, <2>3, <2>4, <2>6, <2>8
  <2>10. Past'
    BY <2>6, <2>7, <2>8
  <2> HIDE DEF TInv
  <2> QED BY <2>9, <2>10 DEF TInv
<1>7. ASSUME NEW g \in Users, Join(g) PROVE TInv'
  <2>0. queries \in Seq(Query) /\ DOMAIN queries = 1..Len(queries)
    BY LenProperties
  <2>1. \A i \in 1..Len(queries) : queries'[i] \in Query
    BY <1>7, <2>0, ElementOfSeq, RowTypes DEF Join
  <2>2. queries' \in [DOMAIN queries -> Query]
    BY <1>7, <2>0, <2>1 DEF Join
  <2>3. queries' \in Seq(Query)
    BY <2>0, <2>2, Mapped
  <2>4. use' = [use EXCEPT ![g] = [use[g] EXCEPT !.step = "idle"]]
    BY <1>7 DEF Join
  <2>5. use' \in [Users -> Use] /\ \A h \in Users : use'[h].at = use[h].at
    BY <2>4, RowTypes
  <2> QED BY <1>7, <2>3, <2>5 DEF Join
<1> QED BY <1>2, <1>3, <1>4, <1>5, <1>6, <1>7

(* The calls of the doctor, the deletions, the links and the writers keep  *)
(* the rows as they should be; none removes one.                           *)
LEMMA VersionsType ==
  ASSUME TInv,
         \/ \E S \in SUBSET Memories, b \in BOOLEAN : SetArchived(S, b)
         \/ versions' = [u \in Memories |->
               [v \in DOMAIN versions[u] |-> [versions[u][v] EXCEPT !.archived = FALSE]]]
         \/ \E d \in doomed : Delete(d)
         \/ \E u \in Memories : Link(u)
         \/ Writes
         \/ UNCHANGED versions
  PROVE  /\ versions' \in [Memories -> Seq(Version)]
         /\ \A u \in Memories : versions'[u] # <<>>
<1>0. /\ versions \in [Memories -> Seq(Version)] /\ now \in 0..MaxTime
      /\ \A u \in Memories : Active(u) \in 1..Len(versions[u]) /\ Len(versions[u]) \in Nat \ {0}
  BY EmptySeq, LenProperties DEF TInv, TypeOK, Active
<1>00. \A s \in Seq(Version) : Len(s) \in Nat \ {0} => s # <<>>
  BY EmptySeq
<1>1. ASSUME NEW S \in SUBSET Memories, NEW b \in BOOLEAN, SetArchived(S, b), NEW u \in Memories
      PROVE  versions'[u] \in Seq(Version) /\ Len(versions'[u]) = Len(versions[u])
  <2>1. [versions[u][Active(u)] EXCEPT !.archived = b] \in Version
    BY <1>0, ElementOfSeq, RowTypes
  <2>2. versions'[u] = IF u \in S
           THEN [versions[u] EXCEPT ![Active(u)] = [versions[u][Active(u)] EXCEPT !.archived = b]]
           ELSE versions[u]
    BY <1>1 DEF SetArchived
  <2> QED BY <1>0, <2>1, <2>2, Replaced
<1>2. ASSUME versions' = [u \in Memories |->
               [v \in DOMAIN versions[u] |-> [versions[u][v] EXCEPT !.archived = FALSE]]],
             NEW u \in Memories
      PROVE  versions'[u] \in Seq(Version) /\ Len(versions'[u]) = Len(versions[u])
  <2>1. \A v \in 1..Len(versions[u]) : versions'[u][v] \in Version
    BY <1>0, <1>2, LenProperties, ElementOfSeq, RowTypes
  <2>3. versions[u] \in Seq(Version) /\ DOMAIN versions[u] = 1..Len(versions[u])
    BY <1>0, LenProperties
  <2>2. versions'[u] \in [DOMAIN versions[u] -> Version]
    BY <1>2, <2>1, <2>3
  <2> QED BY <2>2, <2>3, Mapped
<1>3. ASSUME NEW d \in doomed, Delete(d), NEW u \in Memories
      PROVE  versions'[u] \in Seq(Version) /\ Len(versions'[u]) = Len(versions[u])
  <2>1. versions'[u] = IF u = d[1]
           THEN [versions[u] EXCEPT ![d[2]] = [versions[u][d[2]] EXCEPT !.deleted = TRUE]]
           ELSE versions[u]
    BY <1>0, <1>3 DEF Delete
  <2>2. d[2] \in 1..Len(versions[u]) =>
           [versions[u][d[2]] EXCEPT !.deleted = TRUE] \in Version
    BY <1>0, ElementOfSeq, RowTypes
  <2> QED BY <1>0, <2>1, <2>2, Replaced
<1>4. ASSUME NEW w \in Memories, Link(w), NEW u \in Memories
      PROVE  versions'[u] \in Seq(Version) /\ Len(versions'[u]) = Len(versions[u])
  <2>1. CASE versions'[u] = versions[u]
    BY <1>0, <2>1
  <2>2. CASE versions'[u] = [v \in DOMAIN versions[u] |->
               IF versions[u][v].deleted THEN versions[u][v]
               ELSE [versions[u][v] EXCEPT !.sources = "guess", !.at = now]]
    <3>0. versions[u] \in Seq(Version) /\ DOMAIN versions[u] = 1..Len(versions[u])
      BY <1>0, LenProperties
    <3>1. ASSUME NEW v \in 1..Len(versions[u]) PROVE versions'[u][v] \in Version
      <4>1. versions[u][v] \in Version
        BY <3>0, ElementOfSeq
      <4>2. versions'[u][v] = IF versions[u][v].deleted THEN versions[u][v]
               ELSE [versions[u][v] EXCEPT !.sources = "guess", !.at = now]
        BY <2>2, <3>0
      <4> QED BY <1>0, <4>1, <4>2, RowTypes
    <3>2. versions'[u] \in [DOMAIN versions[u] -> Version]
      BY <2>2, <3>0, <3>1
    <3> QED BY <3>0, <3>2, Mapped
  <2> QED BY <1>0, <1>4, <2>1, <2>2 DEF Link
<1>5. ASSUME NEW w \in Memories, NEW s \in Sources, Supersede(w, s), NEW u \in Memories
      PROVE  versions'[u] \in Seq(Version) /\ Len(versions'[u]) \in Nat \ {0}
  <2>1. Row(s) \in Version
    BY <1>0 DEF Row, Version, Sources
  <2>2. versions'[u] = IF u = w THEN Append(versions[u], Row(s)) ELSE versions[u]
    BY <1>0, <1>5 DEF Supersede
  <2> QED BY <1>0, <2>1, <2>2, AppendProperties
<1>8. ASSUME NEW w \in Memories, NEW s \in Sources, Refresh(w, s), NEW u \in Memories
       PROVE  versions'[u] \in Seq(Version) /\ Len(versions'[u]) \in Nat \ {0}
  BY <1>0, <1>8, Refreshed
<1>6. versions' = [u \in Memories |-> versions'[u]]
  BY <1>0 DEF SetArchived, Delete, Link, Writes, Supersede, Refresh
<1>7. \A u \in Memories : versions'[u] \in Seq(Version) /\ Len(versions'[u]) \in Nat \ {0}
  BY <1>0, <1>1, <1>2, <1>3, <1>4, <1>5, <1>8 DEF Writes
<1> QED BY <1>00, <1>6, <1>7

LEMMA TypeStep == TInv /\ [Next]_vars => TInv'
<1> SUFFICES ASSUME TInv, [Next]_vars PROVE TInv'
  OBVIOUS
<1> DEFINE Calls == \/ Approve \/ Restore \/ StartGC \/ StartBackfill
                    \/ \E d \in doomed : Delete(d)
                    \/ \E u \in Memories : Link(u)
                    \/ \E u \in Memories : Correct(u)
                    \/ Writes
<1>1. CASE Calls
  <2>1. /\ versions' \in [Memories -> Seq(Version)]
        /\ \A u \in Memories : versions'[u] # <<>>
    <3>1. \/ \E S \in SUBSET Memories, b \in BOOLEAN : SetArchived(S, b)
          \/ versions' = [u \in Memories |->
                [v \in DOMAIN versions[u] |-> [versions[u][v] EXCEPT !.archived = FALSE]]]
          \/ \E d \in doomed : Delete(d)
          \/ \E u \in Memories : Link(u)
          \/ Writes
          \/ UNCHANGED versions
      <4>1. CASE Approve
        <5>1. Candidates \in SUBSET Memories
          BY DEF Candidates
        <5> QED BY <4>1, <5>1 DEF Approve, Apply
      <4>2. CASE Restore
        BY <4>2 DEF Restore
      <4>3. CASE StartGC \/ StartBackfill \/ \E u \in Memories : Correct(u)
        BY <4>3 DEF StartGC, StartBackfill, Correct
      <4> QED BY <1>1, <4>1, <4>2, <4>3
    <3> QED BY <3>1, VersionsType
  <2>2. UNCHANGED <<now, heat, lastUse, cats, metas, seen, use, queries>>
    BY <1>1 DEF Approve, Apply, Restore, StartGC, StartBackfill, Delete, Link, Correct,
                Writes, Supersede, Refresh, Doctor, Writer, usage
  <2>3. events' \in 0..MaxEvents
    <3>1. Event \/ UNCHANGED events
      BY <1>1 DEF Approve, Apply, Restore, StartGC, StartBackfill, Delete, Link, Correct,
                  Writes, Supersede, Refresh, Doctor, Writer
    <3> QED BY <3>1, EventType DEF TInv, TypeOK
  <2>4. doomed' \subseteq Memories \X Nat /\ began' \in 0..MaxTime
    <3>1. CASE StartGC
      <4>1. \A d \in doomed' : d \in doomed \/ \E u \in Memories : \E v \in Superseded(u) : d = <<u, v>>
        BY <3>1 DEF StartGC
      <4>2. \A u \in Memories : Superseded(u) \subseteq Nat
        BY DEF Superseded
      <4> QED BY <3>1, <4>1, <4>2 DEF StartGC, TInv, TypeOK
    <3>2. CASE ~StartGC
      <4>1. doomed' \subseteq doomed /\ began' = began
        BY <1>1, <3>2 DEF Approve, Apply, Restore, StartBackfill, Delete, Link, Correct,
                          Writes, Supersede, Refresh, Doctor, Writer
      <4> QED BY <4>1 DEF TInv, TypeOK
    <3> QED BY <3>1, <3>2
  <2>5. orphans' \in [Memories -> Nat]
    <3>0. orphans \in [Memories -> Nat]
      BY DEF TInv, TypeOK
    <3>1. ASSUME NEW S \in SUBSET Memories,
                 orphans' = [u \in Memories |-> IF u \in S THEN orphans[u] + 1 ELSE orphans[u]]
          PROVE  orphans' \in [Memories -> Nat]
      BY <3>0, <3>1
    <3>2. ASSUME NEW u \in Memories, orphans[u] > 0, orphans' = [orphans EXCEPT ![u] = @ - 1]
          PROVE  orphans' \in [Memories -> Nat]
      BY <3>0, <3>2
    <3>3. CASE StartBackfill
      <4>1. Unlinked \subseteq Memories
        BY DEF Unlinked
      <4> QED BY <3>1, <3>3, <4>1 DEF StartBackfill
    <3>4. CASE \E u \in Memories : Link(u)
      BY <3>2, <3>4 DEF Link, Listed
    <3>5. CASE UNCHANGED orphans
      BY <3>0, <3>5
    <3> QED BY <1>1, <3>3, <3>4, <3>5
      DEF Approve, Apply, Restore, StartGC, Delete, Correct, Writes, Supersede, Refresh,
          Doctor, Writer
  <2>6. raced' \subseteq Memories /\ corrected' \subseteq Memories
    <3>1. CASE Writes
      <4>1. PICK u \in Memories : Written(u) /\ UNCHANGED corrected
        BY <3>1 DEF Writes, Supersede, Refresh
      <4> QED BY <4>1 DEF Written, TInv, TypeOK
    <3>2. CASE ~Writes
      <4>1. UNCHANGED raced /\ (UNCHANGED corrected \/ \E u \in Memories : Correct(u))
        BY <1>1, <3>2 DEF Approve, Apply, Restore, StartGC, StartBackfill, Delete, Link,
                          Correct, Doctor, Writer
      <4>2. \A u \in Memories : Correct(u) => corrected' \subseteq corrected \cup {u}
        BY DEF Correct
      <4> QED BY <4>1, <4>2 DEF TInv, TypeOK
    <3> QED BY <3>1, <3>2
  <2>7. TypeOK'
    BY <2>1, <2>2, <2>3, <2>4, <2>5, <2>6 DEF TInv, TypeOK
  <2>8. Past'
    BY <2>2 DEF TInv, Past
  <2> QED BY <2>7, <2>8 DEF TInv
<1>2. CASE UNCHANGED vars
  BY <1>2 DEF vars, usage, TInv, TypeOK, Past
<1> QED BY <1>1, <1>2, UsageType, Steps

(***************************************************************************)
(* The tables keep their shape: a memory never loses its last version, no  *)
(* use lies in the future and no heat falls below zero.                    *)
(***************************************************************************)
THEOREM TypeCorrect == Spec => []TypeOK
<1>1. TInv => TypeOK
  BY DEF TInv
<1> QED BY TypeInit, TypeStep, <1>1, PTL DEF Spec

(* The tables keep their shape, and uses lie in the past. *)
THEOREM TypeInvariant == Spec => []TInv
BY TypeInit, TypeStep, PTL DEF Spec
-----------------------------------------------------------------------------
(***************************************************************************)
(* Heat.  A goroutine that has read the heat carries no more than what the *)
(* uses counted so far can have brought, and its own.                      *)
(***************************************************************************)
Earned(c, m, u) == 1000 * c[u] + 300 * m[u]

HInv ==
  /\ HeatFromUse
  /\ \A g \in Users : use[g].step = "write" =>
       use[g].heat <= Earned(cats, metas, use[g].uri) + Weight(use[g].kind)

LEMMA HeatStep == ASSUME TInv, HInv, [Next]_vars PROVE HInv'
<1>0. /\ heat \in [Memories -> Nat] /\ cats \in [Memories -> Nat] /\ metas \in [Memories -> Nat]
      /\ lastUse \in [Memories -> 0..Never] /\ use \in [Users -> Use] /\ now \in 0..MaxTime
      /\ MaxTime \in Nat /\ Never = MaxTime + 1
  BY ArchiveAssumption DEF TInv, TypeOK, Never
<1>1. \A g \in Users : /\ use[g].uri \in Memories /\ use[g].heat \in Nat
                       /\ use[g].kind \in {"cat", "meta"}
  BY <1>0 DEF Use, Kinds
<1>2. \A u \in Memories : Earned(cats, metas, u) \in Nat
  BY <1>0 DEF Earned
<1>3. ASSUME NEW g \in Users, NEW u \in Memories, NEW kind \in Kinds, ReadHeat(g, u, kind)
      PROVE  HInv'
  <2>1. lastUse[u] # Never => Decayed(heat[u], lastUse[u]) \in Nat /\ Decayed(heat[u], lastUse[u]) <= heat[u]
    BY <1>0, DecayedType DEF TInv, Past
  <2>2. heat[u] <= Earned(cats, metas, u)
    BY DEF HInv, HeatFromUse, Earned
  <2>3. DecayHeat(u, kind) <= Earned(cats, metas, u) + Weight(kind)
    BY <1>0, <1>2, <2>1, <2>2 DEF DecayHeat, Weight
  <2> DEFINE new == [step |-> "write", uri |-> u, kind |-> kind, at |-> now,
                     heat |-> DecayHeat(u, kind)]
  <2>4. new.uri = u /\ new.kind = kind /\ new.heat = DecayHeat(u, kind)
    OBVIOUS
  <2>5. use' = [use EXCEPT ![g] = new] /\ UNCHANGED <<heat, cats, metas>>
    BY <1>3 DEF ReadHeat, usage
  <2> HIDE DEF new
  <2>6. \A h \in Users : use'[h] = IF h = g THEN new ELSE use[h]
    BY <1>0, <2>5
  <2> QED BY <2>3, <2>4, <2>5, <2>6 DEF HInv, HeatFromUse, Earned
<1>4. ASSUME NEW g \in Users, WriteHeat(g) PROVE HInv'
  <2> DEFINE u == use[g].uri
  <2>1. u \in Memories /\ use[g].heat <= Earned(cats, metas, u) + Weight(use[g].kind)
    BY <1>1, <1>4 DEF WriteHeat, HInv
  <2>2. \A w \in Memories :
          /\ Earned(cats', metas', w) \in Nat
          /\ Earned(cats', metas', w) >= Earned(cats, metas, w)
          /\ w = u => Earned(cats', metas', w) = Earned(cats, metas, w) + Weight(use[g].kind)
    <3>1. CASE use[g].kind = "cat"
      <4>1. cats' = [cats EXCEPT ![u] = @ + 1] /\ metas' = metas
        BY <1>4, <3>1 DEF WriteHeat
      <4> QED BY <1>0, <2>1, <3>1, <4>1 DEF Earned, Weight
    <3>2. CASE use[g].kind = "meta"
      <4>1. metas' = [metas EXCEPT ![u] = @ + 1] /\ cats' = cats
        BY <1>4, <3>2 DEF WriteHeat
      <4> QED BY <1>0, <2>1, <3>2, <4>1 DEF Earned, Weight
    <3> QED BY <1>1, <3>1, <3>2
  <2>3. \A w \in Memories : heat'[w] = IF w = u THEN use[g].heat ELSE heat[w]
    BY <1>0, <1>4 DEF WriteHeat
  <2>4. \A w \in Memories : heat[w] <= Earned(cats, metas, w)
    BY DEF HInv, HeatFromUse, Earned
  <2>5. \A w \in Memories : heat'[w] <= Earned(cats', metas', w)
    <3> SUFFICES ASSUME NEW w \in Memories PROVE heat'[w] <= Earned(cats', metas', w)
      OBVIOUS
    <3>1. /\ heat[w] \in Nat /\ Earned(cats, metas, w) \in Nat
          /\ Earned(cats', metas', w) \in Nat
      BY <1>0, <1>2, <2>2
    <3>2. CASE w = u
      BY <2>1, <2>2, <2>3, <3>2
    <3>3. CASE w # u
      <4>1. heat'[w] = heat[w] /\ heat[w] <= Earned(cats, metas, w) /\ Earned(cats, metas, w) <= Earned(cats', metas', w)
        BY <2>2, <2>3, <2>4, <3>3
      <4> QED BY <3>1, <4>1
    <3> QED BY <3>2, <3>3
  <2>6. ASSUME NEW h \in Users, use'[h].step = "write"
        PROVE  use'[h].heat <= Earned(cats', metas', use'[h].uri) + Weight(use'[h].kind)
    <3>1. PICK step \in {"idle", "join"} : use' = [use EXCEPT ![g] = [use[g] EXCEPT !.step = step]]
      BY <1>4 DEF WriteHeat
    <3>2. h # g /\ use'[h] = use[h]
      BY <1>0, <2>6, <3>1 DEF Use
    <3>3. use[h].heat <= Earned(cats, metas, use[h].uri) + Weight(use[h].kind)
      BY <2>6, <3>2 DEF HInv
    <3>4. Weight(use[h].kind) \in Nat
      BY DEF Weight
    <3>5. PICK w \in Memories : w = use[h].uri
      BY <1>1
    <3>6. Earned(cats, metas, w) \in Nat /\ Earned(cats', metas', w) \in Nat /\ Earned(cats, metas, w) <= Earned(cats', metas', w)
      BY <1>2, <2>2
    <3>7. Earned(cats', metas', use'[h].uri) = Earned(cats', metas', w)
      BY <3>2, <3>5 DEF Earned
    <3>8. use[h].heat \in Nat /\ use[h].heat <= Earned(cats, metas, w) + Weight(use[h].kind)
      BY <1>1, <3>3, <3>5
    <3> QED BY <3>2, <3>4, <3>6, <3>7, <3>8
  <2>7. HeatFromUse'
    BY <2>5 DEF HeatFromUse, Earned
  <2>8. \A h \in Users : use'[h].step = "write" =>
          use'[h].heat <= Earned(cats', metas', use'[h].uri) + Weight(use'[h].kind)
    BY <2>6 DEF Earned, Weight
  <2> QED BY <2>7, <2>8 DEF HInv, Earned, Weight
<1>5. ASSUME NEW g \in Users, Join(g) PROVE HInv'
  <2>1. use' = [use EXCEPT ![g] = [use[g] EXCEPT !.step = "idle"]] /\ UNCHANGED <<heat, cats, metas>>
    BY <1>5 DEF Join, usage
  <2>2. \A h \in Users : use'[h].step = "write" => use'[h] = use[h]
    BY <1>0, <2>1 DEF Use
  <2> QED BY <2>1, <2>2 DEF HInv, HeatFromUse, Earned
<1>6. ASSUME UNCHANGED <<heat, cats, metas, use>> PROVE HInv'
  BY <1>6 DEF HInv, HeatFromUse, Earned
<1>7. CASE Pass \/ QueriesAge \/ (\E top \in SUBSET Memories : Search(top)) \/ UNCHANGED vars
  BY <1>6, <1>7 DEF Pass, QueriesAge, Search, RecordSearch, vars, usage
<1>8. CASE Approve \/ Restore \/ StartGC \/ StartBackfill
  BY <1>6, <1>8 DEF Approve, Apply, Restore, StartGC, StartBackfill, Doctor, usage
<1>9. CASE \/ (\E d \in doomed : Delete(d)) \/ (\E u \in Memories : Link(u))
           \/ (\E u \in Memories : Correct(u)) \/ Writes
  BY <1>6, <1>9 DEF Delete, Link, Correct, Writes, Supersede, Refresh, Writer, usage
<1> QED BY <1>3, <1>4, <1>5, <1>7, <1>8, <1>9, Steps

(***************************************************************************)
(* However the goroutines that record uses overlap, the heat of a memory   *)
(* is no more than its cats and metas brought.  (RecordCat, RecordMeta)    *)
(***************************************************************************)
THEOREM NoHeatFromNowhere == Spec => []HeatFromUse
<1>1. Init => HInv
  BY DEF Init, HInv, HeatFromUse, Idle
<1>2. HInv => HeatFromUse
  BY DEF HInv
<1> QED BY <1>1, <1>2, HeatStep, TypeInvariant, PTL DEF Spec
-----------------------------------------------------------------------------
(***************************************************************************)
(* Provenance.  A row in use to which L3 wrote sources has some; and if   *)
(* it has been changed, or a backfill is about to change it, then L3 wrote *)
(* while the URI was on a list.                                            *)
(***************************************************************************)
Kept(u, r) ==
  r.real => /\ r.sources # "none"
            /\ r.sources = "own" \/ u \in raced
            /\ Listed(u) => u \in raced

PInv == \A u \in Memories : Kept(u, versions[u][Active(u)])

(* The columns at hand, as the calls leave them. *)
LEMMA RowColumns ==
  \A r \in Version :
    /\ [r EXCEPT !.deleted = TRUE].real = r.real
    /\ [r EXCEPT !.deleted = TRUE].sources = r.sources
    /\ \A b : /\ [r EXCEPT !.archived = b].real = r.real
              /\ [r EXCEPT !.archived = b].sources = r.sources
    /\ \A t : /\ [r EXCEPT !.sources = "guess", !.at = t].real = r.real
              /\ [r EXCEPT !.sources = "guess", !.at = t].sources = "guess"
BY DEF Version

(* A step keeps the provenance of u when it leaves the last row where it   *)
(* is, its two columns alone, and starts no backfill of u.                 *)
LEMMA SameRow ==
  ASSUME PInv, NEW u \in Memories, Len(versions'[u]) = Len(versions[u]),
         versions'[u][Active(u)].real = versions[u][Active(u)].real,
         versions'[u][Active(u)].sources = versions[u][Active(u)].sources,
         Listed(u)' => Listed(u), raced' = raced
  PROVE  Kept(u, versions[u][Active(u)])'
<1>1. Active(u)' = Active(u)
  BY DEF Active
<1> QED BY <1>1 DEF PInv, Kept

LEMMA ProvenanceStep == ASSUME TInv, PInv, [Next]_vars PROVE PInv'
<1> SUFFICES ASSUME NEW u \in Memories
             PROVE  Kept(u, versions[u][Active(u)])'
  BY DEF PInv
<1>0. /\ versions \in [Memories -> Seq(Version)] /\ versions[u] \in Seq(Version)
      /\ Active(u) \in 1..Len(versions[u]) /\ Len(versions[u]) \in Nat
      /\ DOMAIN versions[u] = 1..Len(versions[u])
      /\ versions[u][Active(u)] \in Version
  BY EmptySeq, LenProperties, ElementOfSeq DEF TInv, TypeOK, Active
<1> DEFINE last == versions[u][Active(u)]
<1>1. ASSUME NEW S \in SUBSET Memories, NEW b \in BOOLEAN, SetArchived(S, b),
             UNCHANGED <<orphans, raced>>
      PROVE  Kept(u, versions[u][Active(u)])'
  <2>1. versions'[u] = IF u \in S THEN [versions[u] EXCEPT ![Active(u)] = [last EXCEPT !.archived = b]]
                       ELSE versions[u]
    BY <1>1 DEF SetArchived
  <2>2. [last EXCEPT !.archived = b] \in Version
    BY <1>0, RowTypes
  <2>3. /\ Len(versions'[u]) = Len(versions[u])
        /\ versions'[u][Active(u)] = last \/ versions'[u][Active(u)] = [last EXCEPT !.archived = b]
    BY <1>0, <2>1, <2>2, Replaced
  <2>4. [last EXCEPT !.archived = b].real = last.real /\ [last EXCEPT !.archived = b].sources = last.sources
    BY <1>0, RowColumns
  <2> QED BY <1>1, <2>3, <2>4, SameRow DEF Listed
<1>2. CASE Approve
  <2>1. PICK S \in SUBSET Memories : Apply(S)
    BY <1>2 DEF Approve, Candidates
  <2> QED BY <1>1, <2>1 DEF Apply, Doctor
<1>3. CASE Restore
  <2>1. CASE \E S \in SUBSET Memories : SetArchived(S, FALSE)
    BY <1>1, <1>3, <2>1 DEF Restore, Doctor
  <2>2. CASE versions' = [w \in Memories |->
               [v \in DOMAIN versions[w] |-> [versions[w][v] EXCEPT !.archived = FALSE]]]
    <3>1. versions'[u] \in [DOMAIN versions[u] -> Version]
      <4>1. \A v \in DOMAIN versions[u] : [versions[u][v] EXCEPT !.archived = FALSE] \in Version
        BY <1>0, ElementOfSeq, RowTypes
      <4> QED BY <2>2, <4>1
    <3>2. Len(versions'[u]) = Len(versions[u])
      BY <1>0, <3>1, Mapped
    <3>3. versions'[u][Active(u)] = [last EXCEPT !.archived = FALSE]
      BY <1>0, <2>2
    <3>4. [last EXCEPT !.archived = FALSE].real = last.real /\ [last EXCEPT !.archived = FALSE].sources = last.sources
      BY <1>0, RowColumns
    <3> QED BY <1>3, <3>2, <3>3, <3>4, SameRow DEF Restore, Doctor, Listed
  <2> QED BY <1>3, <2>1, <2>2 DEF Restore
<1>4. ASSUME NEW d \in doomed, Delete(d) PROVE Kept(u, versions[u][Active(u)])'
  <2> DEFINE e == [versions[u][d[2]] EXCEPT !.deleted = TRUE]
  <2>1. versions'[u] = IF u = d[1] THEN [versions[u] EXCEPT ![d[2]] = e] ELSE versions[u]
    BY <1>0, <1>4 DEF Delete
  <2>2. d[2] \in 1..Len(versions[u]) => e \in Version
    BY <1>0, ElementOfSeq, RowTypes
  <2>3. d[2] = Active(u) => e.real = last.real /\ e.sources = last.sources
    BY <1>0, RowColumns
  <2> HIDE DEF e
  <2>4. /\ Len(versions'[u]) = Len(versions[u])
        /\ versions'[u][Active(u)] = last \/ (d[2] = Active(u) /\ versions'[u][Active(u)] = e)
    BY <1>0, <2>1, <2>2, Replaced
  <2> QED BY <1>4, <2>3, <2>4, SameRow DEF Delete, Listed
<1>5. CASE StartBackfill
  <2>1. UNCHANGED <<versions, raced>>
    BY <1>5 DEF StartBackfill, Doctor
  <2>2. Listed(u)' => Listed(u) \/ u \in Unlinked
    BY <1>5 DEF StartBackfill, Listed
  <2>3. Listed(u)' => Listed(u) \/ last.sources = "none"
    BY <2>2 DEF Unlinked
  <2> QED BY <2>1, <2>3 DEF PInv, Kept, Active
<1>6. ASSUME NEW w \in Memories, Link(w) PROVE Kept(u, versions[u][Active(u)])'
  <2>1. (Listed(u)' => Listed(u)) /\ raced' = raced
    <3>1. orphans \in [Memories -> Nat] /\ orphans' = [orphans EXCEPT ![w] = @ - 1]
      BY <1>6 DEF Link, TInv, TypeOK
    <3>2. orphans'[u] = orphans[u] \/ (w = u /\ Listed(w))
      BY <1>6, <3>1 DEF Link
    <3> QED BY <1>6, <3>2 DEF Link, Listed
  <2>2. CASE versions'[u] = versions[u]
    BY <2>1, <2>2, SameRow
  <2>3. CASE versions'[u] # versions[u]
    <3>1. w = u /\ versions'[u] = [v \in DOMAIN versions[u] |->
               IF versions[u][v].deleted THEN versions[u][v]
               ELSE [versions[u][v] EXCEPT !.sources = "guess", !.at = now]]
      BY <1>0, <1>6, <2>3 DEF Link
    <3>2. now \in 0..MaxTime
      BY DEF TInv, TypeOK
    <3>3. versions'[u] \in [DOMAIN versions[u] -> Version]
      <4>1. \A v \in DOMAIN versions[u] :
              versions[u][v] \in Version /\ [versions[u][v] EXCEPT !.sources = "guess", !.at = now] \in Version
        BY <1>0, <3>2, ElementOfSeq, RowTypes
      <4> QED BY <3>1, <4>1
    <3>4. Len(versions'[u]) = Len(versions[u]) /\ Active(u)' = Active(u)
      BY <1>0, <3>3, Mapped DEF Active
    <3> DEFINE e == [last EXCEPT !.sources = "guess", !.at = now]
    <3>5. versions'[u][Active(u)] = IF last.deleted THEN last ELSE e
      BY <1>0, <3>1
    <3>6. e.real = last.real /\ e.sources = "guess"
      BY <1>0, RowColumns
    <3> HIDE DEF e
    <3>7. last.real => u \in raced /\ last.sources # "none"
      BY <1>6, <3>1 DEF PInv, Kept, Link
    <3> QED BY <2>1, <3>4, <3>5, <3>6, <3>7 DEF Kept
  <2> QED BY <2>2, <2>3
<1>7. ASSUME NEW w \in Memories, NEW s \in Sources, Supersede(w, s) \/ Refresh(w, s)
      PROVE  Kept(u, versions[u][Active(u)])'
  <2>1. /\ Listed(u)' = Listed(u)
        /\ raced' = IF Listed(w) THEN raced \cup {w} ELSE raced \ {w}
    BY <1>7 DEF Supersede, Refresh, Writer, Written, Listed
  <2>2. CASE u = w
    <3>1. ASSUME NEW e, e.real => e.sources = "own", versions'[u][Active(u)'] = e
          PROVE  Kept(u, versions[u][Active(u)])'
      BY <2>1, <2>2, <3>1 DEF Kept
    <3>2. CASE Supersede(w, s)
      <4>1. versions'[u] = Append(versions[u], Row(s))
        BY <1>0, <2>2, <3>2 DEF Supersede
      <4>2. Row(s) \in Version
        BY DEF Row, Version, Sources, TInv, TypeOK
      <4>3. Active(u)' = Active(u) + 1 /\ versions'[u][Active(u) + 1] = Row(s)
        BY <1>0, <4>1, <4>2, AppendProperties DEF Active
      <4>4. Row(s).real => Row(s).sources = "own"
        BY DEF Row
      <4> QED BY <3>1, <4>3, <4>4
    <3>3. CASE Refresh(w, s)
      <4>1. PICK e \in Version :
              /\ e.sources = s /\ (e.real <=> s = "own")
              /\ Len(versions'[u]) = Len(versions[u]) /\ versions'[u][Active(u)] = e
        BY <1>0, <2>2, <3>3, Refreshed
      <4> QED BY <3>1, <4>1 DEF Active
    <3> QED BY <1>7, <3>2, <3>3
  <2>3. CASE u # w
    <3>1. versions'[u] = versions[u] /\ Active(u)' = Active(u)
      BY <1>0, <1>7, <2>3 DEF Supersede, Refresh, Active
    <3>2. u \in raced' <=> u \in raced
      BY <2>1, <2>3
    <3> QED BY <2>1, <3>1, <3>2 DEF PInv, Kept
  <2> QED BY <2>2, <2>3
<1>8. ASSUME UNCHANGED <<versions, orphans, raced>>
      PROVE  Kept(u, versions[u][Active(u)])'
  BY <1>8, SameRow DEF Listed
<1>9. CASE \/ Pass \/ QueriesAge \/ StartGC \/ UNCHANGED vars
           \/ \E top \in SUBSET Memories : Search(top)
           \/ \E g \in Users : (\E w \in Memories, kind \in Kinds : ReadHeat(g, w, kind))
                                \/ WriteHeat(g) \/ Join(g)
           \/ \E w \in Memories : Correct(w)
  BY <1>8, <1>9 DEF Pass, QueriesAge, StartGC, Doctor, vars, Search, Usage, ReadHeat,
                    WriteHeat, Join, Correct, Writer
<1> QED BY <1>2, <1>3, <1>4, <1>5, <1>6, <1>7, <1>9, Steps DEF Writes

(***************************************************************************)
(* No backfill replaces the sources that L3 wrote last, be it with a new   *)
(* version or into the row in use, but when L3 wrote them while a backfill *)
(* had the URI on its list.  (BackfillProvenance, refreshProvenance,       *)
(* Reconsolidate)                                                          *)
(***************************************************************************)
THEOREM SourcesKept == Spec => []ActiveSourcesKept
<1>1. Init => PInv
  <2> SUFFICES ASSUME Init, NEW u \in Memories
               PROVE  Kept(u, versions[u][Active(u)])
    BY DEF PInv
  <2>1. versions[u] \in Seq(Version) /\ versions[u] # <<>>
    BY HistoriesAssumption DEF Init
  <2>2. Active(u) \in DOMAIN versions[u]
    BY <2>1, EmptySeq, LenProperties DEF Active
  <2>3. versions[u][Active(u)].real <=> versions[u][Active(u)].sources = "own"
    BY <2>2, HistoriesAssumption DEF Init
  <2>4. ~Listed(u)
    BY DEF Init, Listed
  <2> QED BY <2>3, <2>4 DEF Kept
<1>2. PInv => ActiveSourcesKept
  BY DEF PInv, Kept, ActiveSourcesKept
<1> QED BY <1>1, <1>2, ProvenanceStep, TypeInvariant, PTL DEF Spec
-----------------------------------------------------------------------------
(***************************************************************************)
(* The garbage collection.  What makes it safe to delete a version later   *)
(* than it was chosen: KeepVersions superseded versions of its URI that    *)
(* are not older are not deleted and not chosen either, whatever has been  *)
(* written since, and whichever collections overlap.                       *)
(***************************************************************************)
Spared(u, t) == {w \in Superseded(u) : <<u, w>> \notin doomed /\ At(u, w) >= t}

Enough(u, t) == \E K \in SUBSET Spared(u, t) : Cardinality(K) = KeepVersions

(* Where collections overlap: as many come before v in the order of the    *)
(* list, so that no later list keeps v and drops them; or the backfill has *)
(* dated all rows of u since, so that none is old enough for a later list. *)
Ahead(u, v) ==
  \E K \in SUBSET {w \in Superseded(u) : <<u, w>> \notin doomed /\ Before(u, w, v)} :
    Cardinality(K) = KeepVersions

Fresh(u) == \A v \in DOMAIN versions[u] : ~versions[u][v].deleted => At(u, v) >= began

(* No version is written in the future, no collection began there.         *)
Dated ==
  /\ began <= now
  /\ \A u \in Memories : \A v \in DOMAIN versions[u] : At(u, v) <= now

(* Of every deleted version enough that are not older are left. *)
DeletedSafe == \A u \in Memories : \A v \in DOMAIN versions[u] :
                 versions[u][v].deleted => v # Active(u) /\ Enough(u, At(u, v))

(* The same of the versions chosen for deletion, all of them superseded. *)
DoomedSafe == \A u \in Memories, v \in Nat :
                <<u, v>> \in doomed =>
                  /\ v \in Superseded(u)
                  /\ Enough(u, At(u, v))
                  /\ Fresh(u) \/ Ahead(u, v)

(* The inductive invariant of the garbage collection. *)
GInv == Dated /\ DeletedSafe /\ DoomedSafe

(* The rows of u are at the places 1 to Len, and so are the times.         *)
LEMMA Rows ==
  ASSUME TInv, NEW u \in Memories
  PROVE  /\ versions[u] \in Seq(Version) /\ Len(versions[u]) \in Nat /\ now \in Nat
         /\ DOMAIN versions[u] = 1..Len(versions[u])
         /\ Superseded(u) \subseteq 1..Len(versions[u])
         /\ \A v \in DOMAIN versions[u] :
              versions[u][v] \in Version /\ At(u, v) \in Nat /\ versions[u][v].deleted \in BOOLEAN
<1>1. versions[u] \in Seq(Version) /\ now \in Nat
  BY ArchiveAssumption DEF TInv, TypeOK
<1>2. Len(versions[u]) \in Nat /\ DOMAIN versions[u] = 1..Len(versions[u])
  BY <1>1, LenProperties
<1>3. \A v \in DOMAIN versions[u] : versions[u][v] \in Version
  BY <1>1, <1>2, ElementOfSeq
<1>4. \A v \in DOMAIN versions[u] : At(u, v) \in Nat /\ versions[u][v].deleted \in BOOLEAN
  BY <1>3, ArchiveAssumption DEF At, Version
<1>5. Superseded(u) \subseteq 1..Len(versions[u])
  BY <1>2 DEF Superseded, Active
<1> QED BY <1>1, <1>2, <1>3, <1>4, <1>5

LEMMA SupersededFinite ==
  ASSUME TInv, NEW u \in Memories
  PROVE  IsFiniteSet(Superseded(u)) /\ Cardinality(Superseded(u)) \in Nat
<1>1. IsFiniteSet(1..Len(versions[u]))
  BY Rows, FS_Interval
<1> QED BY <1>1, Rows, FS_Subset, FS_CardinalityType

(* Where the rows that were spared for t are spared for t2, enough remain. *)
LEMMA StillEnough ==
  ASSUME NEW u, NEW t, NEW t2, Enough(u, t),
         \A w \in Spared(u, t) : w \in Superseded(u)' /\ <<u, w>> \notin doomed'
                                 /\ versions'[u][w].at >= t2
  PROVE  \E K \in SUBSET {w \in Superseded(u)' : <<u, w>> \notin doomed' /\ versions'[u][w].at >= t2} :
           Cardinality(K) = KeepVersions
BY DEF Enough

(* The versions the garbage collection keeps: if any is left out, or if    *)
(* KeepVersions of them are dated t or later, then KeepVersions kept ones  *)
(* are.                                                                    *)
LEMMA KeptOnes ==
  ASSUME TInv, NEW u \in Memories, NEW keep \in Newest(u), NEW t \in Nat,
         \/ \E v \in Superseded(u) \ keep : At(u, v) >= t
         \/ Enough(u, t)
  PROVE  /\ keep \subseteq Superseded(u) /\ Cardinality(keep) = KeepVersions
         /\ \A w \in keep : At(u, w) >= t
<1> DEFINE S == Superseded(u)
<1>1. /\ keep \subseteq S
      /\ Cardinality(keep) = IF Cardinality(S) < KeepVersions THEN Cardinality(S) ELSE KeepVersions
      /\ \A v \in keep, w \in S \ keep : Before(u, v, w)
  BY DEF Newest, Chosen
<1>2. /\ IsFiniteSet(S) /\ Cardinality(S) \in Nat /\ KeepVersions \in Nat
      /\ \A v \in S : At(u, v) \in Nat
  BY SupersededFinite, Rows, ArchiveAssumption
<1> HIDE DEF S
<1>3. /\ IsFiniteSet(keep) /\ (Cardinality(S) = Cardinality(keep) => S = keep)
      /\ \A v \in keep, w \in S \ keep : At(u, v) >= At(u, w)
  <2>1. \A v, w \in S : Before(u, v, w) => At(u, v) >= At(u, w)
    BY <1>2 DEF Before
  <2> QED BY <1>1, <1>2, <2>1, FS_Subset
<1>4. ASSUME NEW v \in S \ keep, At(u, v) >= t
      PROVE  Cardinality(keep) = KeepVersions /\ \A w \in keep : At(u, w) >= t
  BY <1>1, <1>2, <1>3, <1>4
<1>5. ASSUME NEW K \in SUBSET S, Cardinality(K) = KeepVersions, \A w \in K : At(u, w) >= t
      PROVE  Cardinality(keep) = KeepVersions /\ \A w \in keep : At(u, w) >= t
  <2>1. Cardinality(K) <= Cardinality(S)
    BY <1>2, <1>5, FS_Subset
  <2>2. Cardinality(keep) = KeepVersions
    BY <1>1, <1>2, <1>5, <2>1
  <2>3. CASE K \subseteq keep
    <3>1. K = keep
      BY <1>3, <1>5, <2>2, <2>3, FS_Subset
    <3> QED BY <1>5, <2>2, <3>1
  <2>4. CASE ~(K \subseteq keep)
    <3>1. PICK v \in K : v \in S \ keep
      BY <2>4
    <3> QED BY <1>4, <1>5, <3>1
  <2> QED BY <2>3, <2>4
<1>6. Enough(u, t) => \E K \in SUBSET S : Cardinality(K) = KeepVersions /\ \A w \in K : At(u, w) >= t
  BY DEF Enough, Spared, S
<1> QED BY <1>1, <1>4, <1>5, <1>6 DEF S

(* A list keeps no version that KeepVersions others come before.           *)
LEMMA NotKept ==
  ASSUME TInv, NEW u \in Memories, NEW keep \in Newest(u), NEW v \in Superseded(u), Ahead(u, v)
  PROVE  v \notin keep
<1> SUFFICES ASSUME v \in keep PROVE FALSE
  OBVIOUS
<1> DEFINE S == Superseded(u)
<1>1. /\ keep \subseteq S
      /\ Cardinality(keep) = IF Cardinality(S) < KeepVersions THEN Cardinality(S) ELSE KeepVersions
      /\ \A x \in keep, w \in S \ keep : Before(u, x, w)
  BY DEF Newest, Chosen
<1>2. /\ IsFiniteSet(S) /\ Cardinality(S) \in Nat /\ KeepVersions \in Nat
      /\ \A x \in S : At(u, x) \in Nat /\ x \in Nat
  <2>1. \A x \in S : At(u, x) \in Nat
    BY Rows
  <2>2. S \subseteq Nat
    BY DEF Superseded
  <2> QED BY <2>1, <2>2, SupersededFinite, ArchiveAssumption
<1>3. PICK K \in SUBSET S : Cardinality(K) = KeepVersions /\ \A w \in K : Before(u, w, v)
  BY DEF Ahead
<1> HIDE DEF S
<1>4. IsFiniteSet(keep) /\ IsFiniteSet(K) /\ Cardinality(keep) \in Nat
  BY <1>1, <1>2, <1>3, FS_Subset, FS_CardinalityType
<1>5. \A x, w \in S : ~(Before(u, x, w) /\ Before(u, w, x))
  BY <1>2 DEF Before
<1>6. K \subseteq keep
  BY <1>1, <1>3, <1>5
<1>7. v \notin K
  BY <1>1, <1>3, <1>5
<1>8. Cardinality(K \cup {v}) = KeepVersions + 1
  BY <1>3, <1>4, <1>7, FS_AddElement
<1>9. Cardinality(K \cup {v}) <= Cardinality(keep)
  BY <1>4, <1>6, FS_Subset
<1> QED BY <1>1, <1>2, <1>4, <1>8, <1>9

(* What a step other than StartGC does to the rows: new ones are dated now *)
(* and not deleted, those deleted had been chosen, and all superseded rows *)
(* of a URI keep their times, or all rows that are left get the present    *)
(* one.                                                                    *)
Tidy(u) ==
  /\ Len(versions'[u]) \in Nat /\ Len(versions'[u]) >= Len(versions[u])
  /\ DOMAIN versions'[u] = 1..Len(versions'[u])
  /\ \A v \in 1..Len(versions'[u]) :
       v \notin 1..Len(versions[u]) => versions'[u][v].at = now /\ ~versions'[u][v].deleted
  /\ \A v \in 1..Len(versions[u]) :
       versions'[u][v].deleted <=> versions[u][v].deleted \/ <<u, v>> \in doomed \ doomed'
  /\ \/ \A v \in 1..Len(versions[u]) :
          versions'[u][v].at = versions[u][v].at \/ (v = Active(u) /\ versions'[u][v].at = now)
     \/ \A v \in 1..Len(versions[u]) :
          versions'[u][v].at = IF versions[u][v].deleted THEN versions[u][v].at ELSE now

LEMMA TidyStep ==
  ASSUME TInv, GInv, doomed' \subseteq doomed, began' = began, now' \in Nat, now' >= now,
         \A u \in Memories : Tidy(u)
  PROVE  GInv'
<1>0. now \in Nat /\ began \in Nat /\ began <= now
  BY ArchiveAssumption DEF TInv, TypeOK, GInv, Dated
<1>1. ASSUME NEW u \in Memories, NEW v \in 1..Len(versions'[u])
      PROVE  versions'[u][v].at <= now'
  <2>1. now \in Nat /\ \A x \in 1..Len(versions[u]) : versions[u][x].at \in Nat /\ versions[u][x].at <= now
    BY Rows DEF GInv, Dated, At
  <2>2. versions'[u][v].at = now \/ (v \in 1..Len(versions[u]) /\ versions'[u][v].at = versions[u][v].at)
    BY <1>1 DEF Tidy
  <2> QED BY <2>1, <2>2
<1>2. ASSUME NEW u \in Memories, NEW v \in 1..(Len(versions[u]) - 1), Enough(u, At(u, v))
      PROVE  \E K \in SUBSET {w \in Superseded(u)' : <<u, w>> \notin doomed'
                                   /\ versions'[u][w].at >= versions'[u][v].at} :
               Cardinality(K) = KeepVersions
  <2>1. /\ now \in Nat /\ Len(versions[u]) \in Nat /\ Active(u) = Len(versions[u])
        /\ \A x \in 1..Len(versions[u]) : versions[u][x].at \in Nat /\ versions[u][x].at <= now
    BY Rows DEF GInv, Dated, At, Active
  <2>2. ASSUME NEW w \in Spared(u, At(u, v))
        PROVE  w \in Superseded(u)' /\ <<u, w>> \notin doomed'
               /\ versions'[u][w].at >= versions'[u][v].at
    <3>1. /\ w \in 1..(Len(versions[u]) - 1) /\ ~versions[u][w].deleted
          /\ <<u, w>> \notin doomed /\ versions[u][w].at >= versions[u][v].at
      BY <2>2 DEF Spared, Superseded, Active, At
    <3>2. w \in 1..Len(versions[u]) /\ ~versions'[u][w].deleted
      BY <1>2, <2>1, <3>1 DEF Tidy
    <3>3. w \in 1..(Len(versions'[u]) - 1)
      BY <1>2, <2>1, <3>1 DEF Tidy
    <3>4. w \in Superseded(u)'
      BY <3>2, <3>3 DEF Superseded, Active
    <3>5. \/ versions'[u][w].at = versions[u][w].at /\ versions'[u][v].at = versions[u][v].at
          \/ versions'[u][w].at = now /\ versions'[u][v].at \in {versions[u][v].at, now}
      <4>1. v \in 1..Len(versions[u]) /\ v # Active(u) /\ w # Active(u)
        BY <2>1, <3>1
      <4> QED BY <1>2, <3>1, <3>2, <4>1 DEF Tidy
    <3>6. v \in 1..Len(versions[u])
      BY <2>1
    <3>7. versions'[u][w].at >= versions'[u][v].at
      BY <2>1, <3>1, <3>2, <3>5, <3>6
    <3> QED BY <3>1, <3>4, <3>7
  <2> QED BY <1>2, <2>2, StillEnough
<1>3. Dated'
  <2>1. began' <= now'
    BY <1>0
  <2> QED BY <1>1, <2>1 DEF Dated, At, Tidy
<1>4. DeletedSafe'
  <2> SUFFICES ASSUME NEW u \in Memories, NEW v \in DOMAIN versions'[u], versions'[u][v].deleted
               PROVE  (v # Active(u) /\ Enough(u, At(u, v)))'
    BY DEF DeletedSafe
  <2>1. v \in 1..Len(versions[u]) /\ (versions[u][v].deleted \/ <<u, v>> \in doomed)
    BY DEF Tidy
  <2>2. v \in Nat /\ v \in DOMAIN versions[u] /\ Len(versions[u]) \in Nat
    BY <2>1, Rows
  <2>3. Enough(u, At(u, v)) /\ v # Len(versions[u])
    BY <2>1, <2>2 DEF GInv, DeletedSafe, DoomedSafe, Superseded, Active
  <2>4. v \in 1..(Len(versions[u]) - 1)
    BY <2>1, <2>2, <2>3
  <2>5. v # Len(versions'[u])
    BY <2>2, <2>4 DEF Tidy
  <2> QED BY <1>2, <2>3, <2>4, <2>5 DEF Enough, Spared, At, Active
<1>5. ASSUME NEW u \in Memories, NEW v \in Superseded(u), Fresh(u) \/ Ahead(u, v)
      PROVE  (Fresh(u) \/ Ahead(u, v))'
  <2>1. /\ Len(versions[u]) \in Nat /\ Active(u) = Len(versions[u])
        /\ DOMAIN versions[u] = 1..Len(versions[u]) /\ v \in 1..(Len(versions[u]) - 1)
        /\ \A x \in 1..Len(versions[u]) : versions[u][x].at \in Nat
    BY Rows DEF At, Active, Superseded
  <2>2. ASSUME Fresh(u) \/ \A x \in 1..Len(versions[u]) :
                 versions'[u][x].at = IF versions[u][x].deleted THEN versions[u][x].at ELSE now
        PROVE  Fresh(u)'
    <3> SUFFICES ASSUME NEW x \in DOMAIN versions'[u], ~versions'[u][x].deleted
                 PROVE  versions'[u][x].at >= began'
      BY DEF Fresh, At
    <3>1. CASE x \notin 1..Len(versions[u])
      <4>1. versions'[u][x].at = now
        BY <3>1 DEF Tidy
      <4> QED BY <1>0, <4>1
    <3>2. CASE x \in 1..Len(versions[u])
      <4>1. ~versions[u][x].deleted
        BY <3>2 DEF Tidy
      <4>2. versions'[u][x].at = now \/ (Fresh(u) /\ versions'[u][x].at = versions[u][x].at)
        BY <2>2, <3>2, <4>1 DEF Tidy
      <4>3. Fresh(u) => versions[u][x].at >= began
        BY <2>1, <3>2, <4>1 DEF Fresh, At
      <4> QED BY <1>0, <2>1, <3>2, <4>2, <4>3
    <3> QED BY <3>1, <3>2
  <2>3. ASSUME Ahead(u, v),
               \A x \in 1..Len(versions[u]) :
                 versions'[u][x].at = versions[u][x].at \/ (x = Active(u) /\ versions'[u][x].at = now)
        PROVE  Ahead(u, v)'
    <3>1. PICK K \in SUBSET {w \in Superseded(u) : <<u, w>> \notin doomed /\ Before(u, w, v)} :
            Cardinality(K) = KeepVersions
      BY <2>3 DEF Ahead
    <3>2. ASSUME NEW w \in K
          PROVE  w \in Superseded(u)' /\ <<u, w>> \notin doomed' /\ Before(u, w, v)'
      <4>1. /\ w \in 1..(Len(versions[u]) - 1) /\ ~versions[u][w].deleted
            /\ <<u, w>> \notin doomed /\ Before(u, w, v)
        BY <3>1, <3>2 DEF Superseded, Active
      <4>2. w \in 1..Len(versions[u]) /\ v \in 1..Len(versions[u]) /\ w # Active(u) /\ v # Active(u)
        BY <2>1, <4>1
      <4>3. ~versions'[u][w].deleted
        BY <4>1, <4>2 DEF Tidy
      <4>4. w \in 1..(Len(versions'[u]) - 1)
        BY <2>1, <4>1 DEF Tidy
      <4>5. versions'[u][w].at = versions[u][w].at /\ versions'[u][v].at = versions[u][v].at
        BY <2>3, <4>2
      <4>6. Before(u, w, v)'
        BY <4>1, <4>5 DEF Before, At
      <4> QED BY <4>1, <4>3, <4>4, <4>6 DEF Superseded, Active
    <3> QED BY <3>1, <3>2 DEF Ahead
  <2>4. Tidy(u)
    OBVIOUS
  <2> QED BY <1>5, <2>2, <2>3, <2>4 DEF Tidy
<1>6. DoomedSafe'
  <2> SUFFICES ASSUME NEW u \in Memories, NEW v \in Nat, <<u, v>> \in doomed'
               PROVE  /\ v \in Superseded(u)' /\ Enough(u, At(u, v))'
                      /\ (Fresh(u) \/ Ahead(u, v))'
    BY DEF DoomedSafe
  <2>1. v \in Superseded(u) /\ Enough(u, At(u, v)) /\ (Fresh(u) \/ Ahead(u, v))
    BY DEF GInv, DoomedSafe
  <2>2. v \in 1..(Len(versions[u]) - 1) /\ v \in 1..Len(versions[u]) /\ Len(versions[u]) \in Nat
    BY <2>1, Rows DEF Superseded, Active
  <2>3. ~versions'[u][v].deleted
    BY <2>1, <2>2 DEF Tidy, Superseded
  <2>4. v \in 1..(Len(versions'[u]) - 1)
    BY <2>1, <2>2 DEF Tidy
  <2>5. v \in Superseded(u)'
    BY <2>3, <2>4 DEF Superseded, Active
  <2>6. Enough(u, At(u, v))'
    BY <1>2, <2>1, <2>2 DEF Enough, Spared, At
  <2>7. (Fresh(u) \/ Ahead(u, v))'
    BY <1>5, <2>1
  <2> QED BY <2>5, <2>6, <2>7
<1> QED BY <1>3, <1>4, <1>6 DEF GInv

(* The choice: what was safe by versions that are now chosen is safe by    *)
(* those that are kept, and none of these is on the list of a collection   *)
(* still going.                                                            *)
LEMMA StartGCStep == ASSUME TInv, GInv, StartGC PROVE GInv'
<1>1. /\ UNCHANGED <<versions, now>> /\ began' = now
      /\ (doomed # {} => began = now) /\ now \in Nat
  BY ArchiveAssumption DEF StartGC, Doctor, TInv, TypeOK
<1>2. PICK keep \in [Memories -> UNION {Newest(u) : u \in Memories}] :
        /\ \A u \in Memories : keep[u] \in Newest(u)
        /\ doomed' = doomed \cup
             UNION {{<<u, v>> : v \in {w \in Superseded(u) \ keep[u] :
                                      At(u, w) + KeepPeriods <= now}} : u \in Memories}
  BY DEF StartGC
<1>3. /\ doomed \subseteq doomed'
      /\ \A u \in Memories : \A v : <<u, v>> \in doomed' \ doomed =>
           v \in Superseded(u) \ keep[u] /\ At(u, v) + KeepPeriods <= now
  BY <1>2
<1> HIDE DEF StartGC
<1>4. \A u : Superseded(u)' = Superseded(u) /\ Active(u)' = Active(u) /\ \A v : At(u, v)' = At(u, v)
  BY <1>1 DEF Superseded, Active, At
(* Nothing of a memory dated since is old enough. *)
<1>5. ASSUME NEW u \in Memories, Fresh(u), doomed # {}
      PROVE  /\ \A v : <<u, v>> \in doomed' <=> <<u, v>> \in doomed
             /\ Fresh(u)' /\ \A t : Enough(u, t) => Enough(u, t)'
  <2>1. \A v \in Superseded(u) : At(u, v) >= now /\ At(u, v) \in Nat
    BY <1>1, <1>5, Rows DEF Fresh, Superseded
  <2>2. \A v : <<u, v>> \in doomed' <=> <<u, v>> \in doomed
    BY <1>1, <1>3, <2>1, ArchiveAssumption
  <2>3. Fresh(u)'
    BY <1>1, <1>4, <1>5 DEF Fresh
  <2>4. ASSUME NEW t, Enough(u, t) PROVE Enough(u, t)'
    BY <1>4, <2>2, <2>4 DEF Enough, Spared
  <2> QED BY <2>2, <2>3, <2>4
(* Of the others, those kept are on no list. *)
<1>6. ASSUME NEW u \in Memories, ~(Fresh(u) /\ doomed # {})
      PROVE  /\ \A w \in keep[u] : <<u, w>> \notin doomed'
             /\ \A v : <<u, v>> \in doomed' => v \in Superseded(u) \ keep[u]
  <2>0. keep[u] \in Newest(u) /\ keep[u] \subseteq Superseded(u)
    BY <1>2 DEF Newest, Chosen
  <2>1. \A v : <<u, v>> \in doomed => v \in Superseded(u) \ keep[u]
    <3> SUFFICES ASSUME NEW v, <<u, v>> \in doomed PROVE v \in Superseded(u) \ keep[u]
      OBVIOUS
    <3>1. v \in Nat
      BY DEF TInv, TypeOK
    <3>2. v \in Superseded(u) /\ Ahead(u, v)
      BY <1>6, <3>1 DEF GInv, DoomedSafe
    <3> QED BY <2>0, <3>2, NotKept
  <2> QED BY <1>3, <2>1
<1>7. ASSUME NEW u \in Memories, ~(Fresh(u) /\ doomed # {}), NEW t \in Nat,
             Enough(u, t) \/ \E v \in Superseded(u) \ keep[u] : At(u, v) >= t
      PROVE  Enough(u, t)'
  <2>1. keep[u] \in Newest(u)
    BY <1>2
  <2>2. /\ keep[u] \subseteq Superseded(u) /\ Cardinality(keep[u]) = KeepVersions
        /\ \A w \in keep[u] : At(u, w) >= t
    BY <1>7, <2>1, KeptOnes
  <2>3. \A w \in keep[u] : <<u, w>> \notin doomed'
    BY <1>6, <1>7
  <2>4. keep[u] \in SUBSET Spared(u, t)'
    BY <1>4, <2>2, <2>3 DEF Spared
  <2> QED BY <2>2, <2>4 DEF Enough
<1>8. ASSUME NEW u \in Memories, ~(Fresh(u) /\ doomed # {}), NEW v \in Superseded(u) \ keep[u]
      PROVE  Ahead(u, v)'
  <2>1. keep[u] \in Newest(u) /\ At(u, v) \in Nat /\ At(u, v) >= At(u, v)
    BY <1>2, Rows
  <2>2. keep[u] \subseteq Superseded(u) /\ Cardinality(keep[u]) = KeepVersions
    BY <1>8, <2>1, KeptOnes
  <2>3. \A w \in keep[u] : Before(u, w, v)
    BY <1>8, <2>1 DEF Newest, Chosen
  <2>4. \A w \in keep[u] : <<u, w>> \notin doomed' /\ Before(u, w, v)'
    BY <1>4, <1>6, <1>8, <2>3 DEF Before
  <2> QED BY <1>4, <2>2, <2>4 DEF Ahead
<1>9. Dated'
  BY <1>1 DEF GInv, Dated, At
<1>10. DeletedSafe'
  <2> SUFFICES ASSUME NEW u \in Memories, NEW v \in DOMAIN versions[u], versions[u][v].deleted
               PROVE  v # Active(u)' /\ Enough(u, At(u, v))'
    BY <1>1 DEF DeletedSafe
  <2>1. v # Active(u) /\ Enough(u, At(u, v)) /\ At(u, v) \in Nat
    BY Rows DEF GInv, DeletedSafe
  <2>2. \A t \in Nat : Enough(u, t) => Enough(u, t)'
    BY <1>5, <1>7
  <2> QED BY <1>4, <2>1, <2>2 DEF Enough, Spared
<1>11. DoomedSafe'
  <2> SUFFICES ASSUME NEW u \in Memories, NEW v \in Nat, <<u, v>> \in doomed'
               PROVE  /\ v \in Superseded(u)' /\ Enough(u, At(u, v))'
                      /\ (Fresh(u) \/ Ahead(u, v))'
    BY DEF DoomedSafe
  <2>1. CASE Fresh(u) /\ doomed # {}
    <3>1. v \in Superseded(u) /\ Enough(u, At(u, v))
      BY <1>5, <2>1 DEF GInv, DoomedSafe
    <3>2. \A t : Enough(u, t) => Enough(u, t)'
      BY <1>5, <2>1
    <3> QED BY <1>4, <1>5, <2>1, <3>1, <3>2 DEF Enough, Spared
  <2>2. CASE ~(Fresh(u) /\ doomed # {})
    <3>1. v \in Superseded(u) \ keep[u] /\ At(u, v) \in Nat /\ At(u, v) >= At(u, v)
      BY <1>6, <2>2, Rows
    <3>2. \A t \in Nat : (\E w \in Superseded(u) \ keep[u] : At(u, w) >= t) => Enough(u, t)'
      BY <1>7, <2>2
    <3>3. Ahead(u, v)'
      BY <1>8, <2>2, <3>1
    <3> QED BY <1>4, <3>1, <3>2, <3>3 DEF Enough, Spared
  <2> QED BY <2>1, <2>2
<1> QED BY <1>9, <1>10, <1>11 DEF GInv

LEMMA SameLen ==
  ASSUME NEW m \in Nat, NEW n \in Nat, 1..m = 1..n
  PROVE  m = n
<1>1. CASE m > n
  <2>1. m \in 1..m /\ m \notin 1..n
    BY <1>1
  <2> QED BY <2>1
<1>2. CASE m < n
  <2>1. n \in 1..n /\ n \notin 1..m
    BY <1>2
  <2> QED BY <2>1
<1> QED BY <1>1, <1>2

LEMMA TidyDoomed ==
  ASSUME TInv, TInv', [Next]_vars, ~StartGC
  PROVE  doomed' \subseteq doomed /\ began' = began /\ now' \in Nat /\ now' >= now
<1>1. now \in Nat /\ now' \in Nat
  BY ArchiveAssumption DEF TInv, TypeOK
<1>2. doomed' \subseteq doomed /\ began' = began /\ now' \in {now, now + 1}
  <2>1. CASE \/ Pass \/ QueriesAge \/ StartBackfill
             \/ \E top \in SUBSET Memories : Search(top)
             \/ \E g \in Users : (\E w \in Memories, kind \in Kinds : ReadHeat(g, w, kind))
                                  \/ WriteHeat(g) \/ Join(g)
             \/ \E w \in Memories : Correct(w)
    BY <2>1 DEF Pass, QueriesAge, StartBackfill, Doctor, Search, Usage, ReadHeat, WriteHeat,
                Join, Correct, Writer
  <2>2. CASE \/ Approve \/ Restore
             \/ (\E d \in doomed : Delete(d)) \/ (\E w \in Memories : Link(w))
             \/ Writes
    BY <2>2 DEF Approve, Apply, Restore, Delete, Link, Writes, Supersede, Refresh, Doctor, Writer
  <2>3. CASE UNCHANGED vars
    BY <2>3 DEF vars
  <2> QED BY <2>1, <2>2, <2>3, Steps
<1> QED BY <1>1, <1>2

(* Every other step tidies.                                                *)
LEMMA TidySteps ==
  ASSUME TInv, TInv', GInv, [Next]_vars, ~StartGC, NEW u \in Memories
  PROVE  Tidy(u)
<1>0. /\ versions \in [Memories -> Seq(Version)] /\ versions[u] \in Seq(Version)
      /\ Len(versions[u]) \in Nat /\ DOMAIN versions[u] = 1..Len(versions[u])
      /\ now \in Nat /\ now' \in Nat /\ now \in 0..MaxTime
      /\ \A v \in 1..Len(versions[u]) :
           versions[u][v] \in Version /\ versions[u][v].deleted \in BOOLEAN
  <2>1. versions \in [Memories -> Seq(Version)] /\ now \in 0..MaxTime /\ now' \in Nat
    BY ArchiveAssumption DEF TInv, TypeOK
  <2> QED BY <2>1, Rows
<1>00. DOMAIN versions'[u] = 1..Len(versions'[u]) /\ Len(versions'[u]) \in Nat
  BY LenProperties DEF TInv, TypeOK
<1>1. ASSUME Len(versions'[u]) = Len(versions[u]), doomed' = doomed,
             \A v \in 1..Len(versions[u]) : /\ versions'[u][v].deleted = versions[u][v].deleted
                                            /\ versions'[u][v].at = versions[u][v].at
      PROVE  Tidy(u)
  BY <1>0, <1>00, <1>1 DEF Tidy
<1>2. ASSUME NEW S \in SUBSET Memories, NEW b \in BOOLEAN, SetArchived(S, b), UNCHANGED <<now, doomed>>
      PROVE  Tidy(u)
  <2> DEFINE e == [versions[u][Active(u)] EXCEPT !.archived = b]
  <2>1. versions'[u] = IF u \in S THEN [versions[u] EXCEPT ![Active(u)] = e] ELSE versions[u]
    BY <1>2 DEF SetArchived
  <2>2. Active(u) \in 1..Len(versions[u])
    BY <1>0, EmptySeq DEF Active, TInv, TypeOK
  <2>3. e \in Version /\ e.deleted = versions[u][Active(u)].deleted /\ e.at = versions[u][Active(u)].at
    BY <1>0, <2>2 DEF Version
  <2> HIDE DEF e
  <2>4. /\ Len(versions'[u]) = Len(versions[u])
        /\ \A v \in 1..Len(versions[u]) :
             versions'[u][v] = versions[u][v] \/ (v = Active(u) /\ versions'[u][v] = e)
    BY <1>0, <2>1, <2>3, Replaced
  <2> QED BY <1>1, <1>2, <2>3, <2>4
<1>3. ASSUME versions' = [w \in Memories |->
               [v \in DOMAIN versions[w] |-> [versions[w][v] EXCEPT !.archived = FALSE]]],
             UNCHANGED <<now, doomed>>
      PROVE  Tidy(u)
  <2>1. \A v \in 1..Len(versions[u]) : versions'[u][v] = [versions[u][v] EXCEPT !.archived = FALSE]
    BY <1>0, <1>3
  <2>2. DOMAIN versions'[u] = DOMAIN versions[u]
    BY <1>3
  <2>3. Len(versions'[u]) = Len(versions[u])
    BY <1>0, <1>00, <2>2, SameLen
  <2>4. \A v \in 1..Len(versions[u]) : /\ versions'[u][v].deleted = versions[u][v].deleted
                                       /\ versions'[u][v].at = versions[u][v].at
    BY <1>0, <2>1 DEF Version
  <2> QED BY <1>1, <1>3, <2>3, <2>4
<1>4. ASSUME NEW d \in doomed, Delete(d) PROVE Tidy(u)
  <2>1. d \in Memories \X Nat
    BY DEF TInv, TypeOK
  <2> DEFINE e == [versions[u][d[2]] EXCEPT !.deleted = TRUE]
  <2>2. versions'[u] = IF u = d[1] THEN [versions[u] EXCEPT ![d[2]] = e] ELSE versions[u]
    BY <1>0, <1>4 DEF Delete
  <2>3. d[2] \in 1..Len(versions[u]) => e \in Version /\ e.deleted /\ e.at = versions[u][d[2]].at
    BY <1>0 DEF Version
  <2>4. doomed \ doomed' = {d} /\ now' = now
    BY <1>4 DEF Delete
  <2> HIDE DEF e
  <2>5. \A v : <<u, v>> \in doomed \ doomed' <=> u = d[1] /\ v = d[2]
    BY <2>1, <2>4
  <2>6. /\ Len(versions'[u]) = Len(versions[u])
        /\ \A v \in 1..Len(versions[u]) :
             versions'[u][v] = IF u = d[1] /\ v = d[2] THEN e ELSE versions[u][v]
    BY <1>0, <2>2, <2>3, Replaced
  <2>7. \A v \in 1..Len(versions[u]) :
          /\ versions'[u][v].deleted <=> versions[u][v].deleted \/ <<u, v>> \in doomed \ doomed'
          /\ versions'[u][v].at = versions[u][v].at
    BY <2>3, <2>5, <2>6
  <2>8. \A v \in 1..Len(versions'[u]) : v \in 1..Len(versions[u])
    BY <2>6
  <2>9. Len(versions'[u]) >= Len(versions[u])
    BY <1>0, <2>6
  <2> QED BY <1>00, <2>7, <2>8, <2>9 DEF Tidy
<1>5. ASSUME NEW w \in Memories, Link(w) PROVE Tidy(u)
  <2>1. UNCHANGED <<now, doomed>>
    BY <1>5 DEF Link
  <2>2. CASE versions'[u] = versions[u]
    BY <1>0, <1>1, <2>1, <2>2
  <2>3. CASE versions'[u] # versions[u]
    <3>1. versions'[u] = [v \in DOMAIN versions[u] |->
               IF versions[u][v].deleted THEN versions[u][v]
               ELSE [versions[u][v] EXCEPT !.sources = "guess", !.at = now]]
      BY <1>0, <1>5, <2>3 DEF Link
    <3>2. Len(versions'[u]) = Len(versions[u])
      <4>1. DOMAIN versions'[u] = DOMAIN versions[u]
        BY <3>1
      <4> QED BY <1>0, <1>00, <4>1, SameLen
    <3>3. ASSUME NEW v \in 1..Len(versions[u])
          PROVE  /\ versions'[u][v].deleted = versions[u][v].deleted
                 /\ versions'[u][v].at = IF versions[u][v].deleted THEN versions[u][v].at ELSE now
      <4>1. versions'[u][v] = IF versions[u][v].deleted THEN versions[u][v]
                              ELSE [versions[u][v] EXCEPT !.sources = "guess", !.at = now]
        BY <1>0, <3>1
      <4>2. /\ [versions[u][v] EXCEPT !.sources = "guess", !.at = now].at = now
            /\ [versions[u][v] EXCEPT !.sources = "guess", !.at = now].deleted = versions[u][v].deleted
        BY <1>0 DEF Version
      <4> QED BY <4>1, <4>2
    <3> QED BY <1>0, <1>00, <2>1, <3>2, <3>3 DEF Tidy
  <2> QED BY <2>2, <2>3
<1>6. ASSUME NEW w \in Memories, NEW s \in Sources, Supersede(w, s) PROVE Tidy(u)
  <2>1. versions'[u] = IF u = w THEN Append(versions[u], Row(s)) ELSE versions[u]
    BY <1>0, <1>6 DEF Supersede
  <2>2. Row(s) \in Version /\ Row(s).at = now /\ ~Row(s).deleted
    BY <1>0 DEF Row, Version, Sources
  <2>3. doomed' = doomed
    BY <1>6 DEF Supersede, Writer
  <2>4. CASE u = w
    <3>1. /\ Len(versions'[u]) = Len(versions[u]) + 1
          /\ versions'[u][Len(versions[u]) + 1] = Row(s)
          /\ \A v \in 1..Len(versions[u]) : versions'[u][v] = versions[u][v]
      BY <1>0, <2>1, <2>2, <2>4, AppendProperties
    <3>2. \A v \in 1..Len(versions'[u]) :
            v \notin 1..Len(versions[u]) => v = Len(versions[u]) + 1
      BY <1>0, <3>1
    <3> QED BY <1>0, <1>00, <2>2, <2>3, <3>1, <3>2 DEF Tidy
  <2>5. CASE u # w
    BY <1>1, <2>1, <2>3, <2>5
  <2> QED BY <2>4, <2>5
<1>13. ASSUME GInv, NEW w \in Memories, NEW s \in Sources, Refresh(w, s) PROVE Tidy(u)
  <2>1. PICK e \in Version :
          /\ e.at = now /\ ~e.deleted /\ Len(versions'[u]) = Len(versions[u])
          /\ \A v \in 1..Len(versions[u]) :
               versions'[u][v] = IF u = w /\ v = Active(u) THEN e ELSE versions[u][v]
    BY <1>13, Refreshed
  <2>2. doomed' = doomed
    BY <1>13 DEF Refresh, Writer
  <2>3. ~versions[u][Active(u)].deleted
    BY InUse, Rows DEF GInv, DeletedSafe
  <2> QED BY <1>0, <1>00, <2>1, <2>2, <2>3 DEF Tidy
<1>7. CASE Approve
  <2>1. PICK S \in SUBSET Memories : Apply(S)
    BY <1>7 DEF Approve, Candidates
  <2> QED BY <1>2, <2>1 DEF Apply, Doctor
<1>8. CASE Restore
  <2>1. UNCHANGED <<now, doomed>>
    BY <1>8 DEF Restore, Doctor
  <2> QED BY <1>2, <1>3, <1>8, <2>1 DEF Restore
<1>9. CASE UNCHANGED versions /\ doomed' = doomed
  BY <1>1, <1>9
<1>10. CASE \/ Approve \/ Restore
            \/ (\E d \in doomed : Delete(d)) \/ (\E w \in Memories : Link(w))
            \/ Writes
  BY <1>4, <1>5, <1>6, <1>13, <1>7, <1>8, <1>10 DEF Writes
<1>11. CASE \/ Pass \/ QueriesAge \/ StartBackfill
            \/ \E top \in SUBSET Memories : Search(top)
            \/ \E g \in Users : (\E w \in Memories, kind \in Kinds : ReadHeat(g, w, kind))
                                 \/ WriteHeat(g) \/ Join(g)
            \/ \E w \in Memories : Correct(w)
  <2>1. UNCHANGED <<versions, doomed>>
    BY <1>11 DEF Pass, QueriesAge, StartBackfill, Doctor, Search, Usage, ReadHeat, WriteHeat,
                 Join, Correct, Writer
  <2> QED BY <1>9, <2>1
<1>12. CASE UNCHANGED vars
  BY <1>9, <1>12 DEF vars
<1> QED BY <1>10, <1>11, <1>12, Steps

(***************************************************************************)
(* Whenever a superseded version is deleted, at least KeepVersions that    *)
(* are not older are left of its memory, whatever other collections, L3    *)
(* and the backfill did between the choice of the rows and their deletion. *)
(* (SupersededGC)                                                          *)
(***************************************************************************)
THEOREM NewestKept == Spec => []KeepsNewest
<1>1. Init => GInv
  <2> SUFFICES ASSUME Init PROVE GInv
    OBVIOUS
  <2>1. \A u \in Memories : \A v \in DOMAIN versions[u] : ~versions[u][v].deleted /\ versions[u][v].at = 0
    BY HistoriesAssumption DEF Init
  <2>2. doomed = {} /\ now = 0 /\ began = 0
    BY DEF Init
  <2> QED BY <2>1, <2>2 DEF GInv, Dated, DeletedSafe, DoomedSafe, At
<1>2. TInv /\ TInv' /\ GInv /\ [Next]_vars => GInv'
  <2> SUFFICES ASSUME TInv, TInv', GInv, [Next]_vars PROVE GInv'
    OBVIOUS
  <2>1. CASE StartGC
    BY <2>1, StartGCStep
  <2>2. CASE ~StartGC
    <3>1. doomed' \subseteq doomed /\ began' = began /\ now' \in Nat /\ now' >= now
      BY <2>2, TidyDoomed
    <3> QED BY <2>2, <3>1, TidySteps, TidyStep
  <2> QED BY <2>1, <2>2
<1>3. TInv /\ GInv => KeepsNewest
  <2> SUFFICES ASSUME TInv, GInv, NEW u \in Memories, NEW v \in DOMAIN versions[u], versions[u][v].deleted
               PROVE  Cardinality({w \in Superseded(u) : At(u, w) >= At(u, v)}) >= KeepVersions
    BY DEF KeepsNewest
  <2> DEFINE R == {w \in Superseded(u) : At(u, w) >= At(u, v)}
  <2>1. PICK K \in SUBSET Spared(u, At(u, v)) : Cardinality(K) = KeepVersions
    BY DEF GInv, DeletedSafe, Enough
  <2>2. K \subseteq R /\ R \subseteq Superseded(u)
    BY <2>1 DEF Spared
  <2> HIDE DEF R
  <2>3. IsFiniteSet(R)
    BY <2>2, SupersededFinite, FS_Subset
  <2>4. Cardinality(K) <= Cardinality(R) /\ Cardinality(R) \in Nat
    BY <2>2, <2>3, FS_Subset, FS_CardinalityType
  <2> QED BY <2>1, <2>4, ArchiveAssumption DEF R
<1> QED BY <1>1, <1>2, <1>3, TypeInvariant, PTL DEF Spec
-----------------------------------------------------------------------------
(***************************************************************************)
(* Searches that led to a use.  Each is marked by a goroutine that counted *)
(* a cat before, and that marks no other for it.                           *)
(***************************************************************************)
Joining == {g \in Users : use[g].step = "join"}

(* Every search converted, or about to be, has a cat of its own. *)
JInv ==
  /\ IsFiniteSet(Converted) /\ IsFiniteSet(Joining) /\ IsFiniteSet(Catted)
  /\ Cardinality(Converted) + Cardinality(Joining) <= Cardinality(Catted)

LEMMA SameCounts ==
  ASSUME JInv, Converted' = Converted, Joining' = Joining, Catted' = Catted
  PROVE  JInv'
BY DEF JInv

(* The marks survive the passing of time, and a new search has none.       *)
LEMMA SameMarks ==
  ASSUME TInv,
         \/ UNCHANGED queries
         \/ queries' = [i \in DOMAIN queries |-> [queries[i] EXCEPT !.recent = FALSE]]
         \/ \E top \in SUBSET Memories :
              queries' = Append(queries, [top |-> top, recent |-> TRUE, converted |-> FALSE])
  PROVE  Converted' = Converted
<1>0. /\ queries \in Seq(Query) /\ DOMAIN queries = 1..Len(queries) /\ Len(queries) \in Nat
      /\ \A i \in DOMAIN queries : queries[i] \in Query
  BY LenProperties, ElementOfSeq DEF TInv, TypeOK
<1>1. CASE UNCHANGED queries
  BY <1>1 DEF Converted
<1>2. CASE queries' = [i \in DOMAIN queries |-> [queries[i] EXCEPT !.recent = FALSE]]
  <2>1. /\ DOMAIN queries' = DOMAIN queries
        /\ \A i \in DOMAIN queries : queries'[i].converted = queries[i].converted
    BY <1>0, <1>2 DEF Query
  <2> QED BY <2>1 DEF Converted
<1>3. ASSUME NEW top \in SUBSET Memories,
             queries' = Append(queries, [top |-> top, recent |-> TRUE, converted |-> FALSE])
      PROVE  Converted' = Converted
  <2> DEFINE q == [top |-> top, recent |-> TRUE, converted |-> FALSE]
  <2>1. q \in Query /\ ~q.converted
    BY DEF Query
  <2> HIDE DEF q
  <2>2. queries' = Append(queries, q)
    BY <1>3 DEF q
  <2>3. queries' \in Seq(Query)
    BY <1>0, <2>1, <2>2, AppendProperties
  <2>4. /\ Len(queries') = Len(queries) + 1 /\ queries'[Len(queries) + 1] = q
        /\ \A i \in 1..Len(queries) : queries'[i] = queries[i]
    <3>1. queries \in Seq(Query) /\ q \in Query
      BY <1>0, <2>1
    <3>2. /\ Len(Append(queries, q)) = Len(queries) + 1
          /\ Append(queries, q)[Len(queries) + 1] = q
          /\ \A i \in 1..Len(queries) : Append(queries, q)[i] = queries[i]
      BY <3>1, AppendProperties
    <3> QED BY <2>2, <3>2
  <2>5. DOMAIN queries' = 1..(Len(queries) + 1)
    BY <2>3, <2>4, LenProperties
  <2>6. \A i : i \in DOMAIN queries' <=> i \in DOMAIN queries \/ i = Len(queries) + 1
    <3>1. \A n \in Nat : 1..(n + 1) = (1..n) \cup {n + 1}
      OBVIOUS
    <3> QED BY <1>0, <2>5, <3>1
  <2>7. Len(queries) + 1 \notin DOMAIN queries
    BY <1>0
  <2>8. \A i : i \in Converted' <=> i \in Converted
    BY <1>0, <2>1, <2>4, <2>6, <2>7 DEF Converted
  <2> QED BY <2>8 DEF Converted
<1> QED BY <1>1, <1>2, <1>3

(* A cat counted is one more; its goroutine will mark at most one search.  *)
LEMMA CatCounted ==
  ASSUME TInv, JInv, NEW g \in Users, WriteHeat(g)
  PROVE  JInv'
<1>0. /\ cats \in [Memories -> Nat] /\ use \in [Users -> Use]
      /\ use[g].uri \in Memories /\ use[g].step = "write" /\ use[g].kind \in {"cat", "meta"}
  BY DEF TInv, TypeOK, Use, Kinds, WriteHeat
<1>1. Converted' = Converted
  BY DEF WriteHeat, Converted
<1> DEFINE step == IF use[g].kind = "cat" THEN "join" ELSE "idle"
<1>2. use' = [use EXCEPT ![g] = [use[g] EXCEPT !.step = step]]
  BY DEF WriteHeat
<1>3. use'[g].step = step /\ \A h \in Users : h # g => use'[h] = use[h]
  BY <1>0, <1>2 DEF Use
<1>4. g \notin Joining
  BY <1>0 DEF Joining
<1>5. CASE use[g].kind = "meta"
  <2>1. Joining' = Joining
    BY <1>3, <1>4, <1>5 DEF Joining
  <2>2. Catted' = Catted
    BY <1>5 DEF WriteHeat, Catted
  <2> QED BY <1>1, <2>1, <2>2, SameCounts
<1>6. CASE use[g].kind = "cat"
  <2> DEFINE new == <<use[g].uri, cats[use[g].uri] + 1>>
  <2>1. Joining' = Joining \cup {g}
    BY <1>3, <1>4, <1>6 DEF Joining
  <2>2. cats' = [cats EXCEPT ![use[g].uri] = @ + 1]
    BY <1>6 DEF WriteHeat
  <2>3. \A u \in Memories : cats'[u] = IF u = use[g].uri THEN cats[u] + 1 ELSE cats[u]
    BY <1>0, <2>2
  <2>4. \A u \in Memories : \A n :
          n \in 1..cats'[u] <=> n \in 1..cats[u] \/ (u = use[g].uri /\ n = cats[u] + 1)
    <3> SUFFICES ASSUME NEW u \in Memories, NEW n
                 PROVE  n \in 1..cats'[u] <=> n \in 1..cats[u] \/ (u = use[g].uri /\ n = cats[u] + 1)
      OBVIOUS
    <3>1. cats[u] \in Nat
      BY <1>0
    <3> QED BY <2>3, <3>1
  <2>5. Catted' = Catted \cup {new}
    <3>1. \A x : x \in Catted <=> \E u \in Memories : \E n \in 1..cats[u] : x = <<u, n>>
      BY DEF Catted
    <3>2. \A x : x \in Catted' <=> \E u \in Memories : \E n \in 1..cats'[u] : x = <<u, n>>
      BY DEF Catted
    <3>3. \A x : x \in Catted' <=> x \in Catted \/ x = new
      BY <1>0, <2>4, <3>1, <3>2
    <3> QED BY <3>3
  <2>6. new \notin Catted
    <3>1. cats[use[g].uri] \in Nat
      BY <1>0
    <3>2. cats[use[g].uri] + 1 \notin 1..cats[use[g].uri]
      BY <3>1
    <3> QED BY <3>2 DEF Catted
  <2> HIDE DEF new, step
  <2>7. /\ IsFiniteSet(Joining') /\ Cardinality(Joining') = Cardinality(Joining) + 1
        /\ IsFiniteSet(Catted') /\ Cardinality(Catted') = Cardinality(Catted) + 1
    BY <1>4, <2>1, <2>5, <2>6, FS_AddElement DEF JInv
  <2>8. Cardinality(Converted) \in Nat /\ Cardinality(Joining) \in Nat /\ Cardinality(Catted) \in Nat
    BY FS_CardinalityType DEF JInv
  <2> QED BY <1>1, <2>7, <2>8 DEF JInv
<1> QED BY <1>0, <1>5, <1>6

(* The goroutine marks at most one search and is done.                     *)
LEMMA Joined ==
  ASSUME TInv, JInv, NEW g \in Users, Join(g)
  PROVE  JInv'
<1>0. /\ queries \in Seq(Query) /\ DOMAIN queries = 1..Len(queries) /\ Len(queries) \in Nat
      /\ \A i \in DOMAIN queries : queries[i] \in Query
      /\ use \in [Users -> Use] /\ use[g].step = "join"
  BY LenProperties, ElementOfSeq DEF TInv, TypeOK, Join
<1>1. Catted' = Catted
  BY DEF Join, usage, Catted
<1> DEFINE L == Leading(use[g].uri)
<1>2. L \subseteq DOMAIN queries /\ \A i, j \in L : i = j
  BY <1>0 DEF Leading
<1>3. Converted' = Converted \cup L
  <2>1. queries' = [i \in DOMAIN queries |->
          IF i \in L THEN [queries[i] EXCEPT !.converted = TRUE] ELSE queries[i]]
    BY DEF Join
  <2>2. /\ DOMAIN queries' = DOMAIN queries
        /\ \A i \in DOMAIN queries :
             queries'[i].converted = IF i \in L THEN TRUE ELSE queries[i].converted
    BY <1>0, <2>1 DEF Query
  <2> HIDE DEF L
  <2> QED BY <1>2, <2>2 DEF Converted
<1> HIDE DEF L
<1>4. IsFiniteSet(Converted') /\ Cardinality(Converted') <= Cardinality(Converted) + 1
  <2>1. IsFiniteSet(Converted) /\ Cardinality(Converted) \in Nat
    BY FS_CardinalityType DEF JInv
  <2>2. CASE L = {}
    BY <1>3, <2>1, <2>2
  <2>3. CASE L # {}
    <3>1. PICK i : L = {i}
      BY <1>2, <2>3
    <3>2. /\ IsFiniteSet(Converted \cup {i})
          /\ Cardinality(Converted \cup {i}) \in {Cardinality(Converted), Cardinality(Converted) + 1}
      BY <2>1, FS_AddElement
    <3> QED BY <1>3, <2>1, <3>1, <3>2
  <2> QED BY <2>2, <2>3
<1>5. IsFiniteSet(Joining') /\ Cardinality(Joining') = Cardinality(Joining) - 1
  <2>1. use' = [use EXCEPT ![g] = [use[g] EXCEPT !.step = "idle"]]
    BY DEF Join
  <2>2. use'[g].step = "idle" /\ \A h \in Users : h # g => use'[h] = use[h]
    BY <1>0, <2>1 DEF Use
  <2>3. Joining' = Joining \ {g} /\ g \in Joining
    BY <1>0, <2>2 DEF Joining
  <2> QED BY <2>3, FS_RemoveElement DEF JInv
<1>6. /\ Cardinality(Converted) \in Nat /\ Cardinality(Joining) \in Nat /\ Cardinality(Catted) \in Nat
      /\ Cardinality(Converted') \in Nat
  BY <1>4, FS_CardinalityType DEF JInv
<1> QED BY <1>1, <1>4, <1>5, <1>6 DEF JInv

LEMMA JoinStep == ASSUME TInv, JInv, [Next]_vars PROVE JInv'
<1>1. ASSUME NEW g \in Users, NEW u \in Memories, NEW kind \in Kinds, ReadHeat(g, u, kind)
      PROVE  JInv'
  <2> DEFINE new == [step |-> "write", uri |-> u, kind |-> kind, at |-> now,
                     heat |-> DecayHeat(u, kind)]
  <2>1. use[g].step = "idle" /\ use' = [use EXCEPT ![g] = new] /\ UNCHANGED <<queries, cats>>
    BY <1>1 DEF ReadHeat, usage
  <2>2. new.step = "write"
    OBVIOUS
  <2> HIDE DEF new
  <2>3. use \in [Users -> Use]
    BY DEF TInv, TypeOK
  <2>4. \A h \in Users : use'[h].step = "join" <=> use[h].step = "join"
    BY <2>1, <2>2, <2>3
  <2>5. Converted' = Converted /\ Joining' = Joining /\ Catted' = Catted
    BY <2>1, <2>4 DEF Converted, Joining, Catted
  <2> QED BY <2>5, SameCounts
<1>2. CASE Pass \/ QueriesAge \/ \E top \in SUBSET Memories : Search(top)
  <2>1. Converted' = Converted
    BY <1>2, SameMarks DEF Pass, QueriesAge, Search
  <2>2. UNCHANGED <<use, cats>>
    BY <1>2 DEF Pass, QueriesAge, Search, RecordSearch, usage
  <2> QED BY <2>1, <2>2, SameCounts DEF Joining, Catted
<1>3. CASE \/ Approve \/ Restore \/ StartGC \/ StartBackfill \/ UNCHANGED vars
           \/ (\E d \in doomed : Delete(d)) \/ (\E u \in Memories : Link(u))
           \/ (\E u \in Memories : Correct(u)) \/ Writes
  <2>1. UNCHANGED <<use, cats, queries>>
    BY <1>3 DEF Approve, Apply, Restore, StartGC, StartBackfill, Delete, Link, Correct,
                Writes, Supersede, Refresh, Doctor, Writer, usage, vars
  <2> QED BY <2>1, SameCounts DEF Converted, Joining, Catted
<1> QED BY <1>1, <1>2, <1>3, CatCounted, Joined, Steps

(***************************************************************************)
(* Only use counts: however searches, cats and metas overlap, the heat of  *)
(* a memory is no more than its cats and metas brought, and no more        *)
(* searches count as led to a use than cats were recorded.  (RecordCat,    *)
(* RecordMeta, joinSearchToCat)                                            *)
(***************************************************************************)
THEOREM UseCounts == Spec => []OnlyFromUse
<1>1. Init => JInv
  <2> SUFFICES ASSUME Init PROVE JInv
    OBVIOUS
  <2>1. Converted = {} /\ Joining = {}
    BY DEF Init, Converted, Joining, Idle
  <2>2. Catted = {}
    BY DEF Init, Catted
  <2> QED BY <2>1, <2>2, FS_EmptySet DEF JInv
<1>2. JInv => JoinsFromUse
  <2> SUFFICES ASSUME JInv PROVE JoinsFromUse
    OBVIOUS
  <2>1. Cardinality(Converted) \in Nat /\ Cardinality(Joining) \in Nat /\ Cardinality(Catted) \in Nat
    BY FS_CardinalityType DEF JInv
  <2> QED BY <2>1 DEF JInv, JoinsFromUse
<1>3. TInv /\ JInv /\ [Next]_vars => JInv'
  BY JoinStep
<1>4. HeatFromUse /\ JoinsFromUse => OnlyFromUse
  BY DEF OnlyFromUse
<1> QED BY <1>1, <1>2, <1>3, <1>4, TypeInvariant, NoHeatFromNowhere, PTL DEF Spec
=============================================================================
