-------------------------------- MODULE SqlSet --------------------------------
(***************************************************************************)
(* Which of the <sql> elements of a query the generator keeps.  A query    *)
(* may hold a generic statement and one for each database; the generator   *)
(* works for one database, Target, and keeps one statement:                *)
(* core_parser::load_sql_set_sql (core_parser.cpp) drops the elements of   *)
(* other databases and hands the rest, in document order, to               *)
(* gsql_sql_set::put (gsql_sql_set.cpp), which compares kinds by their     *)
(* position in enum RDBMS.                                                 *)
(***************************************************************************)
EXTENDS Naturals, Sequences

CONSTANTS
  RDBMS,        \* values of enum RDBMS: the kinds of <sql> elements
  Sql,          \* RDBMS::sql, the generic kind and the default of the attribute
  Target,       \* database the code is generated for
  Rank,         \* position of each kind in the enum
  MaxElements   \* bound: <sql> elements of a query (unbounded in the grammar)

\* check_parameters refuses RDBMS::sql as the database of a run, and
\* RDBMS::sql is the first value of the enum
ASSUME TargetAssumption == Sql \in RDBMS /\ Target \in RDBMS \ {Sql}
ASSUME RankAssumption ==
  Rank \in [RDBMS -> Nat] /\ \A k \in RDBMS \ {Sql} : Rank[Sql] < Rank[k]
ASSUME BoundAssumption == MaxElements \in Nat

VARIABLES
  seen,     \* kinds of the elements read so far, in document order
  kept,     \* position in seen of sql_dscr_, 0 while empty_
  outcome   \* "loading", or "ambiguous" once duplicate_sql_buf_def is thrown

sqlVars == <<seen, kept, outcome>>

TypeOK ==
  /\ seen \in Seq(RDBMS)
  /\ Len(seen) <= MaxElements
  /\ kept \in 0..Len(seen)
  /\ outcome \in {"loading", "ambiguous"}

Init == seen = <<>> /\ kept = 0 /\ outcome = "loading"

\* a later element always replaces the kept one
DefectPut(k) ==
  kept' = IF kept = 0 \/ seen[kept] # k THEN Len(seen) + 1 ELSE kept

\* the statement put leaves in the set, when it does not find an ambiguity
Put(k) ==
  kept' = IF kept = 0 \/ Rank[k] > Rank[seen[kept]] THEN Len(seen) + 1 ELSE kept

\* a second statement for the target counts as less specific
DefectAmbiguous(k) == kept # 0 /\ seen[kept] = k /\ k = Sql

\* put met the kind it already keeps
Ambiguous(k) == kept # 0 /\ seen[kept] = k

\* every statement is taken, whatever its database
DefectRelevant(k) == TRUE

Relevant(k) == k \in {Sql, Target}

\* load_sql_set_sql for the next <sql> element, of kind k
Load(k) ==
  /\ outcome = "loading"
  /\ Len(seen) < MaxElements
  /\ seen' = Append(seen, k)
  /\ \/ ~Relevant(k) /\ UNCHANGED <<kept, outcome>>
     \/ Relevant(k) /\ Ambiguous(k) /\ outcome' = "ambiguous" /\ UNCHANGED kept
     \/ Relevant(k) /\ ~Ambiguous(k) /\ Put(k) /\ UNCHANGED outcome

Next == \E k \in RDBMS : Load(k)

Spec == Init /\ [][Next]_sqlVars

-----------------------------------------------------------------------------
(* Properties *)

Positions(k) == {i \in 1..Len(seen) : seen[i] = k}

FirstOf(k, i) == i \in Positions(k) /\ \A j \in Positions(k) : i <= j

\* The statement a query keeps is the first one written for the target and,
\* when there is none, the first generic one, in whatever order the document
\* mixes them with statements for other databases (gsql_sql_set.cpp:44-61)
BestKept ==
  outcome = "loading" =>
    IF Positions(Target) # {} THEN FirstOf(Target, kept)
    ELSE IF Positions(Sql) # {} THEN FirstOf(Sql, kept)
    ELSE kept = 0

\* A query accepted so far has at most one statement for the target: the
\* second one is always an ambiguity (core_parser.cpp:161-171)
TargetUnique ==
  outcome = "loading" => \A i, j \in Positions(Target) : i = j

\* Only a real duplicate is refused: the element that was refused has the
\* kind of an earlier one, and is not for another database
RefusalJustified ==
  outcome = "ambiguous" =>
    LET k == seen[Len(seen)] IN
      k \in {Sql, Target} /\ \E i \in 1..Len(seen) - 1 : seen[i] = k

=============================================================================
