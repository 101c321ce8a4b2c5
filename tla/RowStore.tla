------------------------------- MODULE RowStore -------------------------------
(***************************************************************************)
(* What a client may expect of a parameter buffer, a table and the result  *)
(* buffer of a query on that table: rows are stored as the client set      *)
(* them, cut at the earliest where the column ends, and a loop that reads  *)
(* the table sees its rows in order, each once, and ends.  Neither arrays  *)
(* nor lengths nor blocks of rows appear here; Attr implements this.       *)
(***************************************************************************)
EXTENDS Integers, Sequences, SequencesExt

CONSTANTS
  Row,      \* rows of the parameter buffer
  Value,    \* sequences a client or another program stores
  Null,     \* the value of a column that has none
  Kind,     \* kinds of columns
  Longest   \* for each kind, the length of the longest value a column holds

VARIABLES
  kind,     \* the column's kind, which never changes
  asked,    \* what the client last set for each row
  table,    \* the column, row after row
  left,     \* rows the reading loop has still to read
  seen,     \* rows the reading loop has read
  loop      \* the loop is "reading", has "ended" or "failed"

vars == <<kind, asked, table, left, seen, loop>>

Init ==
  /\ kind \in Kind
  /\ asked = [i \in Row |-> Null]
  /\ table = <<>> /\ left = <<>> /\ seen = <<>>
  /\ loop = "ended"

Ask ==
  /\ \E i \in Row, v \in Value \cup {Null} : asked' = [asked EXCEPT ![i] = v]
  /\ UNCHANGED <<kind, table, left, seen, loop>>

\* s is what v was stored as: v itself, or as much of it as the column holds
Keeps(v, s) ==
  \/ s = v
  \/ v # Null /\ s # Null /\ Len(s) = Longest[kind] /\ IsStrictPrefix(s, v)

Store ==
  /\ IsStrictPrefix(table, table')
  /\ \A i \in 1..Len(table') - Len(table) :
       i \in Row /\ Keeps(asked[i], table'[Len(table) + i])
  /\ UNCHANGED <<kind, asked, left, seen, loop>>

\* another program stores a row
StoreOther ==
  /\ \E v \in Value : table' = Append(table, v)
  /\ UNCHANGED <<kind, asked, left, seen, loop>>

Select ==
  /\ left' = table /\ seen' = <<>> /\ loop' = "reading"
  /\ UNCHANGED <<kind, asked, table>>

\* The loop reads some rows
Read ==
  /\ loop = "reading"
  /\ \E n \in 1..Len(left) :
       /\ seen' = seen \o SubSeq(left, 1, n)
       /\ left' = SubSeq(left, n + 1, Len(left))
  /\ UNCHANGED <<kind, asked, table, loop>>

\* It ends when it has read all rows, or fails; what it read is its own affair
Over(how) ==
  /\ loop = "reading" /\ loop' = how
  /\ left' = <<>> /\ seen' = <<>>
  /\ UNCHANGED <<kind, asked, table>>
End == left = <<>> /\ Over("ended")
Fail == Over("failed")

Next == Ask \/ Store \/ StoreOther \/ Select \/ Read \/ End \/ Fail

SafeSpec == Init /\ [][Next]_vars

\* A loop ends, unless the client starts it again and again
LoopEnds == WF_vars(Read \/ End)

Spec == SafeSpec /\ LoopEnds

=============================================================================
