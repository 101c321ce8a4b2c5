--------------------------------- MODULE Attr ---------------------------------
(***************************************************************************)
(* The values of an attribute: attr_root and its kinds atomic, string and  *)
(* bstring (src/src/runtime/runtime/dbgen3_templ.hpp).  An attribute is an *)
(* array of cells of a fixed size and an array of lengths, one of each per *)
(* row of its buffer; the driver reads and writes both behind the back of  *)
(* the object.                                                             *)
(*                                                                         *)
(* A client fills the rows of a parameter buffer, inserts them into a      *)
(* table of one column, selects the table and reads the result buffer in   *)
(* the loop of the examples and tests.  Every insert is the first          *)
(* execution of its query object: Utl is about the later ones.             *)
(***************************************************************************)
EXTENDS Integers, Sequences, FiniteSets

CONSTANTS
  Kinds,         \* kinds of columns to consider
  Value,         \* values clients and other programs pass
  Null,          \* no value
  W,             \* width that the database reports for the column
  N_par, N_res,  \* rows of the two buffers
  SizeT,         \* number of values of a size_t
  Usage,         \* what clients do beyond the examples and tests
  MaxRows        \* bound: rows of the table

ASSUME KindAssumption == Kinds \subseteq {"atomic", "string", "decimal", "bstring"}
ASSUME ValueAssumption ==
  /\ \A v \in Value : v \in Seq({"a", "b"}) /\ \A n \in 0..Len(v) : SubSeq(v, 1, n) \in Value
  /\ Null \notin Seq({"a", "b", "0", "?"})
ASSUME SizeAssumption ==
  /\ W \in Nat \ {0} /\ N_par \in Nat \ {0} /\ N_res \in Nat \ {0} /\ MaxRows \in Nat
  /\ SizeT \in Nat /\ SizeT > W + 2
ASSUME UsageAssumption == Usage \subseteq {"fullDecimal", "partOfItself"}

VARIABLES
  kind,               \* the column's kind; decimals are handled as text
  parData, parLen,    \* data_ and len_ of the parameter attribute
  resData, resLen,    \* data_ and len_ of the result attribute
  rowsRead,           \* occupied_ of the result buffer, which the driver writes
  rc,                 \* what the last call on the select returned or threw
  table, left,        \* the column; the rows of the result set not yet fetched
  asked,              \* what the client last set in each row (history)
  moved,              \* what the driver last moved into each row (history)
  seen, reading       \* the client's loop: rows read, and whether it runs

parVars == <<parData, parLen, asked>>
resVars == <<resData, resLen, moved, rowsRead, rc, left, seen, reading>>
vars == <<kind, parVars, resVars, table>>

ParRow == 1..N_par
ResRow == 1..N_res

SQL_NULL_DATA == -1
NUL == "0"

\* sizeof(T), in characters: a string has room for a terminating NUL
width == CASE kind = "atomic" -> 1 [] kind = "bstring" -> W [] OTHER -> W + 1

\* The longest value of the column.  W is the precision of a decimal, whose
\* text also has a sign and a point
LongestOf == [k \in Kinds |-> CASE k = "atomic" -> 1 [] k = "decimal" -> W + 2 [] OTHER -> W]
Longest == LongestOf[kind]

Values == {v \in Value : kind = "atomic" => Len(v) = 1}

\* A decimal with a sign, a point and all its digits does not fit the array of
\* a parameter: s_cstr cuts it, without a word (dbgen3_templ.hpp:129)
ClientValues ==
  {v \in Values : kind = "decimal" /\ "fullDecimal" \notin Usage => Len(v) <= width}

Cell == [1..width -> {"a", "b", NUL}]

TypeOK ==
  /\ kind \in Kinds
  /\ parData \in [ParRow -> Cell] /\ parLen \in [ParRow -> SQL_NULL_DATA..width]
  /\ resData \in [ResRow -> Cell] /\ resLen \in [ResRow -> SQL_NULL_DATA..Longest]
  /\ rowsRead \in 0..N_res
  /\ rc \in {"executed", "success", "noData", "allowed", "thrown"}
  /\ table \in Seq(Values \cup {Null}) /\ left \in Seq(Values \cup {Null})
  /\ asked \in [ParRow -> Values \cup {Null}] /\ moved \in [ResRow -> Values \cup {Null}]
  /\ seen \in Seq(Values \cup {Null}) /\ reading \in BOOLEAN
  /\ ~reading => left = <<>> /\ seen = <<>>

Init ==
  /\ kind \in Kinds
  /\ parData = [i \in ParRow |-> [k \in 1..width |-> NUL]]
  /\ parLen = [i \in ParRow |-> SQL_NULL_DATA]
  /\ resData = [i \in ResRow |-> [k \in 1..width |-> NUL]]
  /\ resLen = [i \in ResRow |-> SQL_NULL_DATA]
  /\ rowsRead = 0 /\ rc = "executed"
  /\ table = <<>> /\ left = <<>> /\ seen = <<>> /\ reading = FALSE
  /\ asked = [i \in ParRow |-> Null] /\ moved = [i \in ResRow |-> Null]

-----------------------------------------------------------------------------
(* Getters and setters *)

Min2(x, y) == IF x < y THEN x ELSE y

is_null(len, i) == len[i] = SQL_NULL_DATA

\* (Operators named Defect... are faulty variants of the definition that
\* follows them: the mutant runs of PROJECT.json put them in its place.)

\* a view is as long as the array, and ends where a client finds a NUL
Defectel_size(len, i) == width

\* el_size: the length as a size_t, whose value for SQL_NULL_DATA is the largest
el_size(len, i) == IF len[i] < 0 THEN len[i] + SizeT ELSE len[i]

\* value, by v_T, v_cstr and v_bstr: the array of an atomic, a view of el_size
\* characters of any other one.  None of them asks whether the row is null, and
\* nothing keeps a view inside the array.
Outside == "?"
value(data, len, i) ==
  IF kind = "atomic" THEN data[i]
  ELSE [k \in 1..el_size(len, i) |-> IF k <= width THEN data[i][k] ELSE Outside]

\* What the driver takes from a row, and a client that asks is_null first
row(data, len, i) == IF is_null(len, i) THEN Null ELSE value(data, len, i)

\* the length of the argument is taken over uncut
Defectmax_len(v) == Len(v)

\* s_T, s_cstr and s_bstr copy at most sizeof(T) characters of the argument
max_len(v) == Min2(width, Len(v))

\* a length once set is kept until the row is set to null
Defectset_value(i, v) ==
  /\ parData' = [parData EXCEPT ![i] =
                   [k \in 1..width |-> IF k <= max_len(v) THEN v[k] ELSE @[k]]]
  /\ parLen' = [parLen EXCEPT ![i] = IF @ = SQL_NULL_DATA THEN max_len(v) ELSE @]
  /\ asked' = [asked EXCEPT ![i] = v]

set_value(i, v) ==
  /\ parData' = [parData EXCEPT ![i] =
                   [k \in 1..width |-> IF k <= max_len(v) THEN v[k] ELSE @[k]]]
  /\ parLen' = [parLen EXCEPT ![i] = max_len(v)]
  /\ asked' = [asked EXCEPT ![i] = v]

Set(i) ==
  /\ \E v \in ClientValues : set_value(i, v)
  /\ UNCHANGED <<kind, resVars, table>>

\* A beginning of the value of another row, or of a row just read, by a client
\* that asks is_null first, and reads rows after SQL_SUCCESS only
Views(i) ==
  LET OtherRows == {row(parData, parLen, j) : j \in ParRow \ {i}}
      RowsJustRead == IF rc = "success"
                        THEN {row(resData, resLen, j) : j \in 1..rowsRead} ELSE {}
  IN UNION {{SubSeq(s, 1, n) : n \in {m \in 0..Len(s) : kind = "atomic" => m = 1}} :
              s \in (OtherRows \cup RowsJustRead) \ {Null}}

SetFromView(i) ==
  /\ \E v \in Views(i) : set_value(i, v)
  /\ UNCHANGED <<kind, resVars, table>>

\* src == dst: a value set from a view of the row itself changes neither array
SetFromItself(i) ==
  LET view == value(parData, parLen, i) IN
  /\ ~is_null(parLen, i)
  /\ \E n \in IF kind # "atomic" /\ "partOfItself" \in Usage THEN 0..Len(view) ELSE {Len(view)} :
       asked' = [asked EXCEPT ![i] = SubSeq(view, 1, n)]
  /\ UNCHANGED <<kind, parData, parLen, resVars, table>>

set_null(i) ==
  /\ parLen' = [parLen EXCEPT ![i] = SQL_NULL_DATA]
  /\ asked' = [asked EXCEPT ![i] = Null]
  /\ UNCHANGED <<kind, parData, resVars, table>>

-----------------------------------------------------------------------------
(* exec of an insert: what bind_par tells the driver to read *)

\* the rows of the parameter buffer, one when the client did not say how many
Requested(occupied) == IF occupied = 0 THEN 1 ELSE occupied

\* the values the driver takes from the arrays
Read(occupied) == [i \in 1..Requested(occupied) |-> row(parData, parLen, i)]

\* the column size that bind_par declares: one less than a binary column has
declared == width - 1

\* The driver refuses all rows when one is longer than the column, and may do
\* so when one is longer than declared
Longer(rows, n) == kind # "atomic" /\ \E i \in DOMAIN rows : rows[i] # Null /\ Len(rows[i]) > n

\* set_occupied and exec
Insert(occupied) ==
  LET rows == Read(occupied) IN
    /\ Len(table) + Len(rows) <= MaxRows
    /\ \/ ~Longer(rows, Longest) /\ table' = table \o rows
       \/ (Longer(rows, Longest) \/ Longer(rows, declared)) /\ UNCHANGED table
    /\ UNCHANGED <<kind, parVars, resVars>>

\* Another program stores a row
StoreOther ==
  /\ Len(table) < MaxRows
  /\ \E v \in Values : Len(v) <= Longest /\ table' = Append(table, v)
  /\ UNCHANGED <<kind, parVars, resVars>>

-----------------------------------------------------------------------------
(* exec of a select, by a query object without an open cursor, and the loop *)
(* around fetch                                                             *)

Select ==
  /\ ~reading
  /\ left' = table /\ seen' = <<>> /\ reading' = TRUE
  /\ rc' = "executed"
  /\ UNCHANGED <<kind, parVars, resData, resLen, moved, rowsRead, table>>

\* What fits into a cell that bind_col gave the driver: a string is always
\* terminated, and so cut earlier than a binary one
capacity == IF kind \in {"string", "decimal"} THEN width - 1 ELSE width
Truncated(v) == v # Null /\ Len(v) > capacity

CellAfter(cell, v) ==
  IF v = Null THEN cell
  ELSE [k \in 1..width |->
          IF k <= Min2(capacity, Len(v)) THEN v[k]
          ELSE IF k = Min2(capacity, Len(v)) + 1 /\ kind # "bstring" THEN NUL ELSE cell[k]]

\* the indicator of a value that does not fit tells its full length
LenAfter(v) == IF v = Null THEN SQL_NULL_DATA ELSE Len(v)

Block == SubSeq(left, 1, Min2(N_res, Len(left)))

\* a warning counts as success
DefectAnswers == {"success", "thrown"}

\* handle_return_code: a warning of the driver, that a value did not fit or
\* another one, is treated like an error, which throws or returns a code the
\* document allows
Answers ==
  {"allowed", "thrown"} \cup
    IF \E i \in DOMAIN Block : Truncated(Block[i]) THEN {} ELSE {"success"}

\* the client forgets what it read when its loop is over
Leave == reading' = FALSE /\ left' = <<>> /\ seen' = <<>>

\* One turn of the loop, while (fetch() == SQL_SUCCESS): after a successful
\* fetch the client reads rows_read rows
FetchBlock ==
  /\ reading /\ left # <<>>
  /\ resData' = [i \in ResRow |-> IF i \in DOMAIN Block THEN CellAfter(resData[i], Block[i])
                                                        ELSE resData[i]]
  /\ resLen' = [i \in ResRow |-> IF i \in DOMAIN Block THEN LenAfter(Block[i]) ELSE resLen[i]]
  /\ moved' = [i \in ResRow |-> IF i \in DOMAIN Block THEN Block[i] ELSE moved[i]]
  /\ rowsRead' = Len(Block)
  /\ rc' \in Answers
  /\ IF rc' = "success"
       THEN /\ seen' = seen \o [i \in 1..rowsRead' |-> row(resData', resLen', i)]
            /\ left' = SubSeq(left, Len(Block) + 1, Len(left))
            /\ UNCHANGED reading
       ELSE Leave
  /\ UNCHANGED <<kind, parVars, table>>

\* SQL_NO_DATA is taken for a success
DefectFetchEnd ==
  /\ reading /\ left = <<>>
  /\ rc' = "success" /\ rowsRead' = 0
  /\ UNCHANGED <<kind, parVars, resData, resLen, moved, left, seen, reading, table>>

\* the end of the result set; the arrays keep the rows of the last block
FetchEnd ==
  /\ reading /\ left = <<>>
  /\ rc' = "noData" /\ rowsRead' = 0 /\ Leave
  /\ UNCHANGED <<kind, parVars, resData, resLen, moved, table>>

\* the client need not fetch again after a block that is not full
LeaveEarly ==
  /\ reading /\ rc = "success" /\ rowsRead < N_res
  /\ Leave
  /\ UNCHANGED <<kind, parVars, resData, resLen, moved, rowsRead, rc, table>>

\* any other failure
FetchFails ==
  /\ reading
  /\ rc' \in {"allowed", "thrown"} /\ Leave
  /\ UNCHANGED <<kind, parVars, resData, resLen, moved, rowsRead, table>>

-----------------------------------------------------------------------------

\* Inside its loop the client copies what it reads; the rest it does before
Fill == \E i \in ParRow : Set(i) \/ SetFromItself(i) \/ set_null(i)
Copy == \E i \in ParRow : SetFromView(i)

Next ==
  \/ ~reading /\ (Fill \/ (\E n \in 0..N_par : Insert(n)) \/ StoreOther)
  \/ Copy
  \/ Select \/ FetchBlock \/ FetchEnd \/ LeaveEarly \/ FetchFails

Spec == Init /\ [][Next]_vars

\* The loop goes on: the driver answers every fetch
FairSpec == Spec /\ WF_vars(FetchBlock \/ FetchEnd)

-----------------------------------------------------------------------------
(* Properties *)

Inside(v) == \A k \in DOMAIN v : v[k] # Outside

\* The getters do not protect a client: the view of a null row, and of a row
\* whose value did not fit, reaches beyond the array.  What a client can rely on
\* is that no other row has such a view, at any time and after any answer of
\* fetch, that is_null tells the null rows, and that SQL_SUCCESS means that all
\* rows fit (dbgen3_templ.hpp:82-111, 587-588)
ViewsInside ==
  /\ \A i \in ParRow : /\ is_null(parLen, i) <=> asked[i] = Null
                       /\ Inside(value(parData, parLen, i)) \/ asked[i] = Null
  /\ \A i \in ResRow : /\ is_null(resLen, i) <=> moved[i] = Null
                       /\ \/ Inside(value(resData, resLen, i))
                          \/ moved[i] = Null \/ Truncated(moved[i])
  /\ rc = "success" => \A i \in 1..rowsRead : ~Truncated(moved[i])

\* A row of the result buffer reads as what the driver last moved into it, if
\* that fitted: also beside a row that did not, and when the loop is over, as
\* the tests read it (dbgen3_templ.hpp:91-111, tests/test_1.cpp:231-242)
LastRowsReadable ==
  \A i \in ResRow : Truncated(moved[i]) \/ row(resData, resLen, i) = moved[i]

loop == IF reading THEN "reading" ELSE IF rc \in {"allowed", "thrown"} THEN "failed" ELSE "ended"
Store == INSTANCE RowStore WITH Row <- ParRow, Kind <- Kinds, Longest <- LongestOf

\* Rows are stored as set, and read in order, as stored, each once
\* (dbgen3_templ.hpp:118-153, 213-242)
ImplementsRowStore == Store!SafeSpec

\* The loop of the examples ends: no block is read twice for ever
\* (dbgen3_templ.hpp:560-589)
LoopEnds == Store!LoopEnds

=============================================================================
