----------------------------- MODULE SqlSetProofs -----------------------------
(***************************************************************************)
(* Proofs about SqlSet, for any set of databases, any order of the enum    *)
(* that puts the generic kind first, and any number of elements.           *)
(***************************************************************************)
EXTENDS SqlSet, TLAPS

\* What a step knows about the sequence it extends
LEMMA LoadFacts ==
  ASSUME TypeOK, NEW k \in RDBMS, Load(k)
  PROVE  /\ seen \in Seq(RDBMS) /\ Len(seen) \in Nat
         /\ Len(seen') = Len(seen) + 1
         /\ seen'[Len(seen) + 1] = k
         /\ \A i \in 1..Len(seen) : seen'[i] = seen[i] /\ seen[i] \in RDBMS
         /\ Len(seen) < MaxElements
         /\ seen' \in Seq(RDBMS)
         /\ outcome = "loading"
  BY DEF TypeOK, Load

LEMMA LoadType == ASSUME TypeOK, NEW k \in RDBMS, Load(k) PROVE TypeOK'
<1>1. kept' \in 0..Len(seen')
  BY LoadFacts DEF Load, Put, TypeOK
<1>2. outcome' \in {"loading", "ambiguous"}
  BY DEF Load, TypeOK
<1> QED BY <1>1, <1>2, LoadFacts, BoundAssumption DEF TypeOK

\* The type invariant of the sql set (gsql_sql_set.hpp:46-48)
THEOREM TypeCorrect == Spec => []TypeOK
<1>1. Init => TypeOK
  BY BoundAssumption DEF Init, TypeOK
<1>2. TypeOK /\ [Next]_sqlVars => TypeOK'
  BY LoadType DEF Next, TypeOK, sqlVars
<1> QED BY <1>1, <1>2, PTL DEF Spec

\* A new element adds its own position to those of its kind
LEMMA LoadPositions ==
  ASSUME TypeOK, NEW k \in RDBMS, Load(k), NEW t \in RDBMS
  PROVE  Positions(t)' = Positions(t) \cup (IF t = k THEN {Len(seen) + 1} ELSE {})
  BY LoadFacts DEF Positions

\* A set that is not empty keeps the first element of its kind, and that
\* kind is the target as soon as there is an element for the target
KeepsBest ==
  outcome = "loading" =>
    /\ kept = 0 => Positions(Target) = {} /\ Positions(Sql) = {}
    /\ kept # 0 => \/ FirstOf(Target, kept)
                   \/ Positions(Target) = {} /\ FirstOf(Sql, kept)

LEMMA NextKeepsBest ==
  ASSUME TypeOK, KeepsBest, NEW k \in RDBMS, Load(k), outcome' = "loading"
  PROVE  KeepsBest'
<1> DEFINE n == Len(seen) + 1
<1> USE TargetAssumption, RankAssumption
<1>1. /\ Positions(Target)' = Positions(Target) \cup (IF Target = k THEN {n} ELSE {})
      /\ Positions(Sql)' = Positions(Sql) \cup (IF Sql = k THEN {n} ELSE {})
  BY LoadPositions
<1>2. n \in Nat /\ \A t : Positions(t) \subseteq 1..(n - 1)
  BY LoadFacts DEF Positions
<1>3. kept \in 0..(n - 1) /\ (kept # 0 => seen[kept] \in RDBMS)
  BY LoadFacts DEF TypeOK
<1>4. \A t \in {Target, Sql} : FirstOf(t, kept) => FirstOf(t, kept)'
                                                   \/ kept' # kept
  <2> SUFFICES ASSUME NEW t \in {Target, Sql}, FirstOf(t, kept), kept' = kept
               PROVE  FirstOf(t, kept)'
    OBVIOUS
  <2> QED BY <1>1, <1>2 DEF FirstOf
<1>5. CASE ~Relevant(k)
  <2>1. kept' = kept
    BY <1>5, LoadFacts DEF Load
  <2> QED BY <1>1, <1>4, <1>5, <2>1, LoadFacts DEF Relevant, KeepsBest
<1>6. CASE Relevant(k) /\ kept = 0
  <2>1. kept' = n
    BY <1>6 DEF Load, Put, Ambiguous
  <2>2. Positions(k)' = {n}
    BY <1>1, <1>6, LoadFacts DEF Relevant, KeepsBest
  <2>3. FirstOf(k, kept)'
    BY <1>2, <2>1, <2>2 DEF FirstOf
  <2> QED BY <1>1, <1>2, <1>6, <2>1, <2>3, LoadFacts DEF Relevant, KeepsBest
<1>7. CASE Relevant(k) /\ kept # 0
  <2>1. seen[kept] # k /\ Put(k)
    BY <1>7, LoadFacts DEF Load, Ambiguous
  <2>2. CASE FirstOf(Target, kept)
    <3>1. seen[kept] = Target /\ k = Sql
      BY <1>7, <2>1, <2>2 DEF FirstOf, Positions, Relevant
    <3>2. kept' = kept
      BY <1>3, <1>7, <2>1, <3>1 DEF Put
    <3> QED BY <1>3, <1>4, <1>7, <2>2, <3>2 DEF KeepsBest
  <2>3. CASE Positions(Target) = {} /\ FirstOf(Sql, kept)
    <3>1. seen[kept] = Sql /\ k = Target
      BY <1>7, <2>1, <2>3 DEF FirstOf, Positions, Relevant
    <3>2. kept' = n
      BY <1>3, <1>7, <2>1, <3>1 DEF Put
    <3>3. FirstOf(Target, kept)'
      BY <1>1, <1>2, <2>3, <3>1, <3>2 DEF FirstOf
    <3> QED BY <1>2, <3>2, <3>3 DEF KeepsBest
  <2> QED BY <1>7, <2>2, <2>3, LoadFacts DEF KeepsBest
<1> QED BY <1>5, <1>6, <1>7

\* The statement kept is the best one of the document (gsql_sql_set.cpp:44-61)
THEOREM BestStatementKept == Spec => []BestKept
<1>1. Init => KeepsBest
  BY DEF Init, KeepsBest, Positions
<1>2. TypeOK /\ KeepsBest /\ [Next]_sqlVars => KeepsBest'
  <2> SUFFICES ASSUME TypeOK, KeepsBest, [Next]_sqlVars PROVE KeepsBest'
    OBVIOUS
  <2>1. CASE UNCHANGED sqlVars
    BY <2>1 DEF KeepsBest, sqlVars, Positions, FirstOf
  <2>2. CASE Next
    <3>1. PICK k \in RDBMS : Load(k)
      BY <2>2 DEF Next
    <3>2. CASE outcome' = "loading"
      BY <3>1, <3>2, NextKeepsBest
    <3>3. CASE outcome' # "loading"
      BY <3>3 DEF KeepsBest
    <3> QED BY <3>2, <3>3
  <2> QED BY <2>1, <2>2
<1>3. KeepsBest => BestKept
  BY DEF KeepsBest, BestKept, FirstOf
<1> QED BY <1>1, <1>2, <1>3, TypeCorrect, PTL DEF Spec

-----------------------------------------------------------------------------

\* No accepted query has two statements for the target, and only duplicates
\* are refused (core_parser.cpp:161-171)
THEOREM DuplicatesOfTarget == Spec => [](TargetUnique /\ RefusalJustified)
<1> DEFINE Inv == TargetUnique /\ RefusalJustified
<1>1. Init => Inv
  BY DEF Init, TargetUnique, RefusalJustified, Positions
<1>2. TypeOK /\ BestKept /\ Inv /\ [Next]_sqlVars => Inv'
  <2> SUFFICES ASSUME TypeOK, BestKept, Inv, [Next]_sqlVars PROVE Inv'
    OBVIOUS
  <2>1. CASE UNCHANGED sqlVars
    BY <2>1 DEF TargetUnique, RefusalJustified, Positions, sqlVars
  <2>2. CASE Next
    <3>1. PICK k \in RDBMS : Load(k)
      BY <2>2 DEF Next
    <3>2. TargetUnique'
      <4> SUFFICES ASSUME outcome' = "loading"
                   PROVE  \A i, j \in Positions(Target)' : i = j
        BY DEF TargetUnique
      <4>1. CASE k = Target
        <5>1. ~Ambiguous(k)
          BY <3>1, <4>1 DEF Load, Relevant
        <5>2. Positions(Target) = {}
          BY <3>1, <4>1, <5>1, LoadFacts
             DEF BestKept, FirstOf, Positions, Ambiguous, TypeOK
        <5> QED BY <3>1, <4>1, <5>2, LoadPositions
      <4>2. CASE k # Target
        BY <3>1, <4>2, LoadPositions, LoadFacts, TargetAssumption DEF TargetUnique
      <4> QED BY <4>1, <4>2
    <3>3. RefusalJustified'
      <4> SUFFICES ASSUME outcome' = "ambiguous"
                   PROVE  RefusalJustified'
        BY DEF RefusalJustified
      <4>1. Relevant(k) /\ Ambiguous(k)
        BY <3>1, LoadFacts DEF Load
      <4>2. kept \in 1..Len(seen) /\ seen'[kept] = k
        BY <3>1, <4>1, LoadFacts DEF Ambiguous, TypeOK
      <4> QED BY <3>1, <4>1, <4>2, LoadFacts DEF Relevant, RefusalJustified
    <3> QED BY <3>2, <3>3
  <2> QED BY <2>1, <2>2
<1> QED BY <1>1, <1>2, TypeCorrect, BestStatementKept, PTL DEF Spec

\* A query is refused only for two statements of one kind, the second of which
\* would not have been skipped (gsql_sql_set.cpp:46-50, core_parser.cpp:154-171)
THEOREM RefusalIsJustified == Spec => []RefusalJustified
BY DuplicatesOfTarget, PTL

=============================================================================
