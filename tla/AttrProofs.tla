------------------------------ MODULE AttrProofs ------------------------------
(***************************************************************************)
(* Proofs about Attr, for columns of every kind and width, buffers of      *)
(* every size and whatever values clients and other programs store: the    *)
(* rows whose views stay inside their array, what a row of a result buffer *)
(* reads as, and that Attr implements RowStore for clients that pass a     *)
(* decimal its array holds and no part of a row to the row itself.         *)
(***************************************************************************)
EXTENDS Attr, SequenceTheorems, TLAPS

\* What a column can hold, what an array can hold, and what of a value gets
\* into the array
Column == {v \in Values : Len(v) <= Longest} \cup {Null}
Fitting == {v \in Values : Len(v) <= width} \cup {Null}
Cut(v) == IF v = Null THEN Null ELSE SubSeq(v, 1, max_len(v))

-----------------------------------------------------------------------------
(* Sizes and values *)

LEMMA Sizes ==
  ASSUME kind \in Kinds
  PROVE  width \in Nat \ {0} /\ capacity \in Nat /\ capacity <= width /\ Longest \in Nat
BY SizeAssumption, KindAssumption DEF width, capacity, Longest, LongestOf

LEMMA NullApart == \A s \in Seq({"a", "b", "0", "?"}) : s # Null
BY ValueAssumption

LEMMA ValuesAreTexts ==
  ASSUME NEW v \in Values
  PROVE  /\ v \in Value /\ v \in Seq({"a", "b"}) /\ v # Null
         /\ Len(v) \in Nat /\ DOMAIN v = 1..Len(v) /\ \A k \in 1..Len(v) : v[k] \in {"a", "b"}
         /\ kind = "atomic" => Len(v) = 1
<1>1. v \in Value /\ v \in Seq({"a", "b"})
  BY ValueAssumption DEF Values
<1>2. v \in Seq({"a", "b", "0", "?"})
  BY <1>1
<1>3. v # Null
  BY <1>2, NullApart
<1> QED BY <1>1, <1>3 DEF Values

\* A prefix of a value is a value
LEMMA PrefixIsValue ==
  ASSUME NEW v \in Values, NEW n \in 0..Len(v), kind = "atomic" => n = 1
  PROVE  /\ SubSeq(v, 1, n) \in Values /\ Len(SubSeq(v, 1, n)) = n
         /\ \A k \in 1..n : SubSeq(v, 1, n)[k] = v[k]
<1>1. v \in Value /\ v \in Seq({"a", "b"}) /\ Len(v) \in Nat
  BY ValuesAreTexts
<1>2. /\ Len(SubSeq(v, 1, n)) = n
      /\ \A k \in 1..n : SubSeq(v, 1, n)[k] = v[k]
  BY <1>1
<1>3. SubSeq(v, 1, n) \in Value
  BY <1>1, ValueAssumption
<1> QED BY <1>2, <1>3 DEF Values

\* What the array takes of a value is a value of the column's kind
LEMMA CutValue ==
  ASSUME kind \in Kinds, NEW v \in Values
  PROVE  /\ Cut(v) \in Values /\ Len(Cut(v)) = max_len(v)
         /\ max_len(v) \in 0..width /\ max_len(v) <= Len(v)
         /\ \A k \in 1..max_len(v) : Cut(v)[k] = v[k]
         /\ kind = "atomic" => Len(Cut(v)) <= Longest
<1>1. v # Null /\ Len(v) \in Nat /\ (kind = "atomic" => Len(v) = 1)
  BY ValuesAreTexts
<1>2. max_len(v) \in 0..width /\ max_len(v) <= Len(v)
  BY <1>1, Sizes DEF max_len, Min2
<1>3. kind = "atomic" => max_len(v) = 1
  BY <1>1 DEF max_len, Min2, width
<1>4. Cut(v) = SubSeq(v, 1, max_len(v))
  BY <1>1 DEF Cut
<1>5. max_len(v) \in 0..Len(v)
  BY <1>1, <1>2, Sizes
<1>6. /\ Cut(v) \in Values /\ Len(Cut(v)) = max_len(v)
      /\ \A k \in 1..max_len(v) : Cut(v)[k] = v[k]
  BY <1>3, <1>4, <1>5, PrefixIsValue
<1> QED BY <1>2, <1>3, <1>6 DEF Longest, LongestOf

\* A value that fits is not cut
LEMMA CutFitting ==
  ASSUME kind \in Kinds, NEW v \in Fitting
  PROVE  Cut(v) = v
<1>1. CASE v = Null
  BY <1>1 DEF Cut
<1>2. CASE v # Null
  <2>1. v \in Values /\ v \in Seq({"a", "b"}) /\ Len(v) \in Nat /\ Len(v) <= width
    BY <1>2, ValuesAreTexts DEF Fitting
  <2>2. max_len(v) = Len(v)
    BY <2>1, Sizes DEF max_len, Min2
  <2> QED BY <1>2, <2>1, <2>2, SubSeqFull DEF Cut
<1> QED BY <1>1, <1>2

\* What is cut fits
LEMMA CutFits ==
  ASSUME kind \in Kinds, NEW v \in Values \cup {Null}
  PROVE  Cut(v) \in Fitting
<1>1. CASE v = Null
  BY <1>1 DEF Cut, Fitting
<1>2. CASE v \in Values
  BY <1>2, CutValue, Sizes DEF Fitting
<1> QED BY <1>1, <1>2

\* A value of the column that a client passes is stored as it is, or cut where
\* the column ends
LEMMA CutKeeps ==
  ASSUME kind \in Kinds, NEW v \in Values \cup {Null},
         v # Null => Len(Cut(v)) <= Longest,
         v # Null /\ kind = "decimal" => Len(v) <= width
  PROVE  Store!Keeps(v, Cut(v))
<1>1. CASE v \in Fitting
  BY <1>1, CutFitting DEF Store!Keeps
<1>2. CASE v \notin Fitting
  <2>1. v \in Values /\ v # Null /\ Len(v) \in Nat /\ width \in Nat \ {0} /\ width < Len(v)
    BY <1>2, ValuesAreTexts, Sizes DEF Fitting
  <2>2. max_len(v) = width
    BY <2>1 DEF max_len, Min2
  <2>3. Cut(v) \in Values /\ Len(Cut(v)) = width /\ Cut(v) = SubSeq(v, 1, width)
    BY <2>1, <2>2, CutValue DEF Cut
  <2>4. width = Longest
    <3>1. kind \in {"atomic", "string", "decimal", "bstring"} /\ width <= Longest
      BY <2>1, <2>3, KindAssumption
    <3>2. kind # "atomic" /\ kind # "decimal"
      <4>1. kind = "atomic" => Len(v) = 1 /\ width = 1
        BY <2>1, ValuesAreTexts DEF width
      <4>2. ~(Len(v) <= width) /\ ~(width < width)
        BY <2>1
      <4>3. kind # "decimal"
        BY <2>1, <4>2
      <4>4. kind # "atomic"
        BY <2>1, <4>1, <4>2
      <4> QED BY <4>3, <4>4
    <3>3. kind = "string" => width = W + 1 /\ Longest = W
      BY DEF width, Longest, LongestOf
    <3>4. kind = "bstring" => width = W /\ Longest = W
      BY DEF width, Longest, LongestOf
    <3> QED BY <3>1, <3>2, <3>3, <3>4, SizeAssumption
  <2>5. SubSeq(Cut(v), 1, width) = Cut(v) /\ Cut(v) # Null
    BY <2>3, ValuesAreTexts, SubSeqFull
  <2>6. Store!IsPrefix(Cut(v), v) /\ Cut(v) # v
    BY <2>1, <2>3, <2>5 DEF Store!IsPrefix
  <2> QED BY <2>1, <2>3, <2>4, <2>5, <2>6 DEF Store!Keeps, Store!IsStrictPrefix, Longest
<1> QED BY <1>1, <1>2

\* As long as the column keeps its kind, its operators keep their values
LEMMA SameKind ==
  ASSUME kind' = kind
  PROVE  /\ width' = width /\ Longest' = Longest /\ Values' = Values /\ Cell' = Cell
         /\ Column' = Column /\ Fitting' = Fitting /\ capacity' = capacity
         /\ \A v : Cut(v)' = Cut(v)
         /\ \A v : Truncated(v)' = Truncated(v)
         /\ \A i : row(parData, parLen, i)' = row(parData', parLen', i)
<1>1. width' = width /\ Longest' = Longest
  BY DEF width, Longest
<1>2. capacity' = capacity
  BY <1>1 DEF capacity
<1>3. /\ Values' = Values /\ Cell' = Cell
      /\ \A v : Cut(v)' = Cut(v)
      /\ \A v : Truncated(v)' = Truncated(v)
  BY <1>1, <1>2 DEF Values, Cell, Cut, max_len, Min2, Truncated
<1>4. \A i : row(parData, parLen, i)' = row(parData', parLen', i)
  BY <1>1 DEF row, is_null, value, el_size
<1> QED BY <1>1, <1>2, <1>3, <1>4 DEF Column, Fitting

LEMMA ColumnInValues ==
  /\ Column \subseteq Values \cup {Null}
  /\ Seq(Column) \subseteq Seq(Values \cup {Null})
<1>1. Column \subseteq Values \cup {Null}
  BY DEF Column
<1> QED BY <1>1, SeqMonotonic

\* An array and a length that hold a value read as that value
LEMMA RowReads ==
  ASSUME kind \in Kinds, NEW data, NEW len, NEW i, data[i] \in Cell,
         NEW v \in Values, Len(v) <= width, len[i] = Len(v),
         \A k \in 1..Len(v) : data[i][k] = v[k]
  PROVE  /\ ~is_null(len, i) /\ value(data, len, i) = v
         /\ row(data, len, i) = v /\ Inside(v)
<1>1. /\ v \in Seq({"a", "b"}) /\ Len(v) \in Nat /\ DOMAIN v = 1..Len(v)
      /\ \A k \in 1..Len(v) : v[k] \in {"a", "b"}
      /\ kind = "atomic" => Len(v) = 1
  BY ValuesAreTexts
<1>2. ~is_null(len, i) /\ el_size(len, i) = Len(v)
  BY <1>1 DEF is_null, SQL_NULL_DATA, el_size
<1>3. value(data, len, i) = v
  <2>1. v = [k \in 1..Len(v) |-> v[k]]
    BY <1>1
  <2>2. CASE kind = "atomic"
    <3>1. data[i] = [k \in 1..1 |-> data[i][k]] /\ Len(v) = 1
      BY <1>1, <2>2 DEF Cell, width
    <3>2. data[i] = v
      BY <2>1, <3>1
    <3> QED BY <2>2, <3>2 DEF value
  <2>3. CASE kind # "atomic"
    <3>1. value(data, len, i)
            = [k \in 1..Len(v) |-> IF k <= width THEN data[i][k] ELSE Outside]
      BY <1>2, <2>3 DEF value
    <3>2. \A k \in 1..Len(v) : (IF k <= width THEN data[i][k] ELSE Outside) = v[k]
      BY <1>1, Sizes
    <3> QED BY <2>1, <3>1, <3>2
  <2> QED BY <2>2, <2>3
<1>4. Inside(v)
  BY <1>1 DEF Inside, Outside
<1> QED BY <1>2, <1>3, <1>4 DEF row

-----------------------------------------------------------------------------
(* Parameter rows.  A row reads as a value that fits its array, and as none *)
(* when the client set none.  It reads as what the array takes of the last *)
(* value set, unless that was a part of the row itself, and the value      *)
(* itself fitted when it was a decimal, unless clients set longer ones.    *)

KeptRow(i) ==
  /\ row(parData, parLen, i) \in Fitting
  /\ row(parData, parLen, i) = Null <=> asked[i] = Null
  /\ is_null(parLen, i) <=> asked[i] = Null
  /\ "partOfItself" \notin Usage => row(parData, parLen, i) = Cut(asked[i])
  /\ asked[i] # Null /\ kind = "decimal" /\ "fullDecimal" \notin Usage => Len(asked[i]) <= width

Params ==
  /\ parData \in [ParRow -> Cell] /\ parLen \in [ParRow -> SQL_NULL_DATA..width]
  /\ asked \in [ParRow -> Values \cup {Null}]
  /\ \A i \in ParRow : KeptRow(i)

\* What is known of a row stays known while the row and what was asked do
LEMMA SameRow ==
  ASSUME kind' = kind, NEW i \in ParRow, KeptRow(i),
         parData'[i] = parData[i], parLen'[i] = parLen[i], asked'[i] = asked[i]
  PROVE  KeptRow(i)'
<1>1. width' = width /\ Fitting' = Fitting /\ Cut(asked[i])' = Cut(asked'[i])
  BY SameKind DEF Cut, max_len
<1>2. /\ row(parData, parLen, i)' = row(parData', parLen', i)
      /\ is_null(parLen, i)' = is_null(parLen', i)
  BY SameKind DEF is_null
<1>3. /\ row(parData', parLen', i) = row(parData, parLen, i)
      /\ is_null(parLen', i) = is_null(parLen, i)
  BY DEF row, is_null, value, el_size
<1> QED BY <1>1, <1>2, <1>3 DEF KeptRow

\* The rows other than the one that a setter changes
LEMMA OtherParams ==
  ASSUME kind' = kind, Params, NEW i \in ParRow, KeptRow(i)',
         parData' \in [ParRow -> Cell], parLen' \in [ParRow -> SQL_NULL_DATA..width],
         asked' \in [ParRow -> Values \cup {Null}],
         \A j \in ParRow \ {i} :
           parData'[j] = parData[j] /\ parLen'[j] = parLen[j] /\ asked'[j] = asked[j]
  PROVE  Params'
<1>1. ASSUME NEW j \in ParRow PROVE KeptRow(j)'
  BY SameRow DEF Params
<1>2. \A j \in ParRow : KeptRow(j)'
  BY <1>1
<1>3. (\A j \in ParRow : KeptRow(j))'
  BY <1>2 DEF ParRow
<1> QED BY <1>3, SameKind DEF Params, ParRow

LEMMA SetParams ==
  ASSUME kind \in Kinds, kind' = kind, Params, NEW i \in ParRow, NEW v \in Values,
         kind = "decimal" /\ "fullDecimal" \notin Usage => Len(v) <= width,
         set_value(i, v)
  PROVE  Params'
<1>1. /\ v # Null /\ Len(v) \in Nat /\ \A k \in 1..Len(v) : v[k] \in {"a", "b"}
      /\ max_len(v) \in 0..width /\ max_len(v) <= Len(v) /\ width \in Nat \ {0}
  BY ValuesAreTexts, CutValue, Sizes
<1> DEFINE cell == [k \in 1..width |-> IF k <= max_len(v) THEN v[k] ELSE parData[i][k]]
<1>2. cell \in Cell
  <2>1. \A k \in 1..width : parData[i][k] \in {"a", "b", NUL}
    BY DEF Params, Cell
  <2>2. ASSUME NEW k \in 1..width, k <= max_len(v) PROVE v[k] \in {"a", "b", NUL}
    BY <1>1, <2>2
  <2> QED BY <2>1, <2>2 DEF Cell
<1>3. /\ parData' = [parData EXCEPT ![i] = cell]
      /\ parLen' = [parLen EXCEPT ![i] = max_len(v)]
      /\ asked' = [asked EXCEPT ![i] = v]
  BY DEF set_value, Params
<1>4. \A k \in 1..max_len(v) : k <= width /\ cell[k] = v[k]
  BY <1>1
<1> HIDE DEF cell
<1>5. /\ parData' \in [ParRow -> Cell] /\ parLen' \in [ParRow -> SQL_NULL_DATA..width]
      /\ asked' \in [ParRow -> Values \cup {Null}]
  <2>1. max_len(v) \in SQL_NULL_DATA..width
    BY <1>1 DEF SQL_NULL_DATA
  <2> QED BY <1>2, <1>3, <2>1 DEF Params
<1>6. /\ parData'[i] = cell /\ parLen'[i] = max_len(v) /\ asked'[i] = v
      /\ \A j \in ParRow \ {i} :
           parData'[j] = parData[j] /\ parLen'[j] = parLen[j] /\ asked'[j] = asked[j]
  BY <1>3 DEF Params
<1>7. KeptRow(i)'
  <2>1. PICK w : w = Cut(v)
    OBVIOUS
  <2>2. /\ w \in Values /\ Len(w) = max_len(v) /\ w \in Fitting /\ w # Null
        /\ \A k \in 1..max_len(v) : w[k] = v[k]
    BY <2>1, CutValue, CutFits, ValuesAreTexts
  <2>3. \A k \in 1..Len(w) : parData'[i][k] = w[k]
    BY <1>4, <1>6, <2>2
  <2>4. row(parData', parLen', i) = w /\ ~is_null(parLen', i)
    BY <1>1, <1>2, <1>6, <2>2, <2>3, RowReads
  <2>5. row(parData, parLen, i)' = w /\ is_null(parLen, i)' = is_null(parLen', i)
    BY <2>4, SameKind DEF is_null
  <2>6. Cut(asked[i])' = w /\ Fitting' = Fitting /\ width' = width
    BY <1>6, <2>1, SameKind DEF Cut, max_len
  <2> QED BY <1>1, <1>6, <2>2, <2>4, <2>5, <2>6 DEF KeptRow
<1> QED BY <1>5, <1>6, <1>7, OtherParams

LEMMA NullParams ==
  ASSUME kind \in Kinds, Params, NEW i \in ParRow, set_null(i)
  PROVE  Params'
<1>1. /\ kind' = kind /\ parData' = parData
      /\ parLen' = [parLen EXCEPT ![i] = SQL_NULL_DATA] /\ asked' = [asked EXCEPT ![i] = Null]
  BY DEF set_null
<1>2. SQL_NULL_DATA \in SQL_NULL_DATA..width
  BY Sizes DEF SQL_NULL_DATA
<1>3. /\ parData' \in [ParRow -> Cell] /\ parLen' \in [ParRow -> SQL_NULL_DATA..width]
      /\ asked' \in [ParRow -> Values \cup {Null}]
      /\ parLen'[i] = SQL_NULL_DATA /\ asked'[i] = Null
      /\ \A j \in ParRow \ {i} :
           parData'[j] = parData[j] /\ parLen'[j] = parLen[j] /\ asked'[j] = asked[j]
  BY <1>1, <1>2 DEF Params
<1>4. KeptRow(i)'
  BY <1>1, <1>3, SameKind DEF KeptRow, row, is_null, Cut, Fitting
<1> QED BY <1>1, <1>3, <1>4, OtherParams

LEMMA ParamsKept ==
  ASSUME Params, UNCHANGED <<kind, parVars>>
  PROVE  Params'
<1>1. ASSUME NEW j \in ParRow PROVE KeptRow(j)'
  BY SameRow DEF Params, parVars
<1>2. (\A j \in ParRow : KeptRow(j))'
  BY <1>1 DEF ParRow
<1> QED BY <1>2, SameKind DEF Params, ParRow, parVars

\* The view of a row that is not null is the value the row reads as
LEMMA ViewIsRow ==
  ASSUME Params, NEW i \in ParRow, ~is_null(parLen, i)
  PROVE  /\ value(parData, parLen, i) = row(parData, parLen, i)
         /\ value(parData, parLen, i) \in Values /\ value(parData, parLen, i) \in Fitting
BY DEF Params, KeptRow, row, Fitting

LEMMA ItselfParams ==
  ASSUME kind \in Kinds, Params, NEW i \in ParRow, SetFromItself(i)
  PROVE  /\ Params'
         /\ \E v \in Values : asked' = [asked EXCEPT ![i] = v]
<1>1. PICK view : view = value(parData, parLen, i)
  OBVIOUS
<1>2. /\ view \in Values /\ view \in Fitting /\ view = row(parData, parLen, i)
      /\ ~is_null(parLen, i) /\ view # Null
  BY <1>1, ViewIsRow, ValuesAreTexts DEF SetFromItself
<1>3. PICK n \in 0..Len(view) :
        /\ asked' = [asked EXCEPT ![i] = SubSeq(view, 1, n)]
        /\ n = Len(view) \/ (kind # "atomic" /\ "partOfItself" \in Usage)
  <2> DEFINE lengths == IF kind # "atomic" /\ "partOfItself" \in Usage THEN 0..Len(view)
                                                                     ELSE {Len(view)}
  <2>1. \E n \in lengths : asked' = [asked EXCEPT ![i] = SubSeq(view, 1, n)]
    BY <1>1 DEF SetFromItself
  <2>2. Len(view) \in 0..Len(view)
    BY <1>2, ValuesAreTexts
  <2>3. \A n \in lengths :
          n \in 0..Len(view) /\ (n = Len(view) \/ (kind # "atomic" /\ "partOfItself" \in Usage))
    BY <2>2
  <2> QED BY <2>1, <2>3
<1>4. PICK part : part = SubSeq(view, 1, n)
  OBVIOUS
<1>5. /\ part \in Values /\ Len(part) = n /\ part # Null /\ n \in Nat /\ n <= width
      /\ n = Len(view) => part = view
  <2>1. /\ view \in Seq({"a", "b"}) /\ Len(view) \in Nat /\ (kind = "atomic" => Len(view) = 1)
        /\ Len(view) <= width
    BY <1>2, ValuesAreTexts DEF Fitting
  <2>2. kind = "atomic" => n = 1
    BY <1>3, <2>1
  <2>3. SubSeq(view, 1, n) \in Values /\ Len(SubSeq(view, 1, n)) = n
    BY <1>2, <2>2, PrefixIsValue
  <2>4. n = Len(view) => SubSeq(view, 1, n) = view
    BY <2>1, SubSeqFull
  <2>5. n \in Nat /\ n <= width
    BY <1>3, <2>1, Sizes
  <2> QED BY <1>4, <2>3, <2>4, <2>5, ValuesAreTexts
<1>6. /\ kind' = kind /\ parData' = parData /\ parLen' = parLen
      /\ asked' = [asked EXCEPT ![i] = part]
  BY <1>3, <1>4 DEF SetFromItself
<1>7. /\ asked' \in [ParRow -> Values \cup {Null}] /\ asked'[i] = part
      /\ \A j \in ParRow \ {i} : asked'[j] = asked[j]
  BY <1>5, <1>6 DEF Params
<1>8. KeptRow(i)'
  <2>1. row(parData, parLen, i)' = view /\ is_null(parLen, i)' = is_null(parLen, i)
    BY <1>2, <1>6, SameKind DEF is_null
  <2>2. Fitting' = Fitting /\ width' = width /\ Cut(asked[i])' = Cut(part)
    BY <1>6, <1>7, SameKind DEF Cut, max_len
  <2>3. "partOfItself" \notin Usage => Cut(part) = view
    BY <1>2, <1>3, <1>5, CutFitting
  <2> QED BY <1>2, <1>5, <1>7, <2>1, <2>2, <2>3 DEF KeptRow
<1>9. Params'
  BY <1>6, <1>7, <1>8, OtherParams DEF Params
<1> QED BY <1>5, <1>6, <1>9

-----------------------------------------------------------------------------
(* The table and the loop.  The column holds values it can hold, a row of  *)
(* the result buffer holds what was moved into it, all rows of a block that *)
(* was fetched with SQL_SUCCESS fitted, and a block that is not full was   *)
(* the last one.                                                           *)

Holds(data, len, i, v) ==
  /\ is_null(len, i) <=> v = Null
  /\ v # Null => /\ len[i] = Len(v)
                 /\ ~Truncated(v) => \A k \in 1..Len(v) : data[i][k] = v[k]

Reader ==
  /\ resData \in [ResRow -> Cell] /\ resLen \in [ResRow -> SQL_NULL_DATA..Longest]
  /\ moved \in [ResRow -> Column]
  /\ \A i \in ResRow : Holds(resData, resLen, i, moved[i])
  /\ rowsRead \in 0..N_res
  /\ rc \in {"executed", "success", "noData", "allowed", "thrown"}
  /\ table \in Seq(Column) /\ left \in Seq(Column) /\ seen \in Seq(Values \cup {Null})
  /\ reading \in BOOLEAN
  /\ ~reading => left = <<>> /\ seen = <<>>
  /\ rc = "success" => \A i \in 1..rowsRead : ~Truncated(moved[i])
  /\ reading /\ rc = "success" /\ rowsRead < N_res => left = <<>>

LEMMA NoRows == <<>> \in Seq(Column) /\ <<>> \in Seq(Values \cup {Null})
OBVIOUS

\* A row whose value fitted reads as it
LEMMA HeldReads ==
  ASSUME kind \in Kinds, NEW data, NEW len, NEW i, data[i] \in Cell,
         NEW v \in Column, Holds(data, len, i, v), ~Truncated(v)
  PROVE  /\ row(data, len, i) = v
         /\ v # Null => Inside(value(data, len, i)) /\ v \in Values
<1>1. CASE v = Null
  BY <1>1 DEF Holds, row
<1>2. CASE v # Null
  <2>1. v \in Values /\ Len(v) \in Nat
    BY <1>2, ValuesAreTexts DEF Column
  <2>2. Len(v) <= width
    BY <1>2, <2>1, Sizes DEF Truncated
  <2>3. len[i] = Len(v) /\ \A k \in 1..Len(v) : data[i][k] = v[k]
    BY <1>2 DEF Holds
  <2> QED BY <2>1, <2>2, <2>3, RowReads
<1> QED BY <1>1, <1>2

LEMMA SameHolds ==
  ASSUME kind' = kind
  PROVE  \A i : Holds(resData, resLen, i, moved[i])' = Holds(resData', resLen', i, moved'[i])
BY SameKind DEF Holds, is_null, Truncated

LEMMA ReaderKept ==
  ASSUME Reader, UNCHANGED <<kind, resVars, table>>
  PROVE  Reader'
<1>1. UNCHANGED <<kind, resData, resLen, moved, rowsRead, rc, left, seen, reading, table>>
  BY DEF resVars
<1>2. \A i \in ResRow : Holds(resData, resLen, i, moved[i])'
  BY <1>1, SameHolds DEF Reader
<1>3. \A i : Truncated(moved[i])' = Truncated(moved[i])
  BY <1>1, SameKind DEF Truncated
<1> QED BY <1>1, <1>2, <1>3, SameKind DEF Reader, ResRow

\* A row that was read after SQL_SUCCESS is one of the column
LEMMA RowsJustRead ==
  ASSUME kind \in Kinds, Reader, rc = "success", NEW j \in 1..rowsRead
  PROVE  row(resData, resLen, j) = moved[j] /\ moved[j] \in Fitting
<1>1. j \in ResRow
  BY SizeAssumption DEF Reader, ResRow
<1>2. /\ resData[j] \in Cell /\ moved[j] \in Column /\ ~Truncated(moved[j])
      /\ Holds(resData, resLen, j, moved[j])
  BY <1>1 DEF Reader
<1>3. row(resData, resLen, j) = moved[j]
  BY <1>2, HeldReads
<1>4. moved[j] \in Fitting
  <2>1. moved[j] # Null => moved[j] \in Values /\ Len(moved[j]) \in Nat
    BY <1>2, ValuesAreTexts DEF Column
  <2>2. moved[j] # Null => Len(moved[j]) <= width
    BY <1>2, <2>1, Sizes DEF Truncated
  <2> QED BY <2>1, <2>2 DEF Fitting
<1> QED BY <1>3, <1>4

\* a client that copies a view copies a value of the column's kind that fits
LEMMA ViewsAreValues ==
  ASSUME kind \in Kinds, Params, Reader, NEW i \in ParRow, NEW v \in Views(i)
  PROVE  v \in Values /\ Len(v) <= width
<1>1. PICK s, n : /\ v = SubSeq(s, 1, n) /\ n \in 0..Len(s) /\ s # Null
                  /\ kind = "atomic" => n = 1
                  /\ \/ \E j \in ParRow \ {i} : s = row(parData, parLen, j)
                     \/ rc = "success" /\ \E j \in 1..rowsRead : s = row(resData, resLen, j)
  BY DEF Views
<1>2. s \in Fitting
  BY <1>1, RowsJustRead DEF Params, KeptRow
<1>3. s \in Values /\ Len(s) <= width /\ Len(s) \in Nat
  BY <1>1, <1>2, ValuesAreTexts DEF Fitting
<1>4. v \in Values /\ Len(v) = n
  BY <1>1, <1>3, PrefixIsValue
<1> QED BY <1>1, <1>3, <1>4, Sizes

\* what the driver takes from the arrays is what the rows read as
LEMMA RowsInserted ==
  ASSUME kind \in Kinds, Params, NEW n \in 0..N_par
  PROVE  /\ Read(n) \in Seq(Values \cup {Null}) /\ Len(Read(n)) \in Nat \ {0}
         /\ \A i \in 1..Len(Read(n)) : i \in ParRow /\ Read(n)[i] = row(parData, parLen, i)
         /\ ~Longer(Read(n), Longest) => Read(n) \in Seq(Column)
<1>1. Requested(n) \in Nat \ {0} /\ \A i \in 1..Requested(n) : i \in ParRow
  BY SizeAssumption DEF Requested, ParRow
<1>2. \A i \in 1..Requested(n) :
        /\ row(parData, parLen, i) \in Values \cup {Null}
        /\ row(parData, parLen, i) # Null =>
             /\ Len(row(parData, parLen, i)) \in Nat
             /\ kind = "atomic" => Len(row(parData, parLen, i)) = 1
  <2> SUFFICES ASSUME NEW i \in 1..Requested(n), NEW r, r = row(parData, parLen, i)
               PROVE  /\ r \in Values \cup {Null}
                      /\ r # Null => Len(r) \in Nat /\ (kind = "atomic" => Len(r) = 1)
    OBVIOUS
  <2>1. r \in Fitting
    BY <1>1 DEF Params, KeptRow
  <2> QED BY <2>1, ValuesAreTexts DEF Fitting
<1>3. /\ Read(n) \in Seq(Values \cup {Null}) /\ Len(Read(n)) = Requested(n)
      /\ DOMAIN Read(n) = 1..Requested(n)
      /\ \A i \in 1..Requested(n) : Read(n)[i] = row(parData, parLen, i)
  BY <1>1, <1>2 DEF Read
<1>4. ASSUME ~Longer(Read(n), Longest) PROVE Read(n) \in Seq(Column)
  <2>1. ASSUME NEW i \in 1..Requested(n) PROVE Read(n)[i] \in Column
    <3> SUFFICES ASSUME Read(n)[i] # Null PROVE Read(n)[i] \in Values /\ Len(Read(n)[i]) <= Longest
      BY DEF Column
    <3>1. Read(n)[i] \in Values /\ Len(Read(n)[i]) \in Nat
      BY <1>2, <1>3
    <3>2. CASE kind = "atomic"
      <4>1. Read(n)[i] = row(parData, parLen, i) /\ Len(Read(n)[i]) = 1
        BY <1>2, <1>3, <3>2
      <4>2. Longest = 1
        BY <3>2 DEF Longest, LongestOf
      <4> QED BY <3>1, <4>1, <4>2
    <3>3. CASE kind # "atomic"
      <4>1. ~(Len(Read(n)[i]) > Longest)
        BY <1>3, <1>4, <3>3 DEF Longer
      <4> QED BY <3>1, <4>1, Sizes
    <3> QED BY <3>1, <3>2, <3>3
  <2> QED BY <1>1, <1>3, <2>1
<1> QED BY <1>1, <1>3, <1>4

-----------------------------------------------------------------------------
(* A block of rows *)

LEMMA BlockOfColumn ==
  ASSUME Reader
  PROVE  /\ Block \in Seq(Column) /\ Len(Block) \in 0..N_res /\ Len(Block) <= Len(left)
         /\ DOMAIN Block = 1..Len(Block) /\ \A i \in 1..Len(Block) : Block[i] \in Column
         /\ Block = SubSeq(left, 1, Len(Block))
         /\ Len(Block) < N_res => Len(Block) = Len(left)
         /\ left # <<>> => Len(Block) # 0
<1>1. left \in Seq(Column) /\ Len(left) \in Nat /\ (left # <<>> => Len(left) # 0)
  BY DEF Reader
<1> DEFINE n == Min2(N_res, Len(left))
<1>2. /\ n \in 0..N_res /\ n <= Len(left) /\ (n < N_res => n = Len(left))
      /\ Len(left) # 0 => n # 0
  BY <1>1, SizeAssumption DEF Min2
<1>3. Block = SubSeq(left, 1, n)
  BY DEF Block
<1> HIDE DEF n
<1>4. Block \in Seq(Column) /\ Len(Block) = n
  BY <1>1, <1>2, <1>3, SizeAssumption
<1> QED BY <1>1, <1>2, <1>3, <1>4, SizeAssumption

\* A cell that the driver filled holds the value, if it was not too long
LEMMA CellHolds ==
  ASSUME kind \in Kinds, NEW cell \in Cell, NEW v \in Column
  PROVE  /\ CellAfter(cell, v) \in Cell
         /\ LenAfter(v) \in SQL_NULL_DATA..Longest
         /\ LenAfter(v) = SQL_NULL_DATA <=> v = Null
         /\ v # Null => LenAfter(v) = Len(v)
         /\ v # Null /\ ~Truncated(v) => \A k \in 1..Len(v) : CellAfter(cell, v)[k] = v[k]
<1>1. Longest \in Nat /\ capacity \in Nat /\ width \in Nat \ {0} /\ capacity <= width
  BY Sizes
<1>2. CASE v = Null
  BY <1>1, <1>2 DEF CellAfter, LenAfter, SQL_NULL_DATA
<1>3. CASE v # Null
  <2>1. /\ Len(v) \in Nat /\ Len(v) <= Longest
        /\ \A k \in 1..Len(v) : v[k] \in {"a", "b"}
    BY <1>3, ValuesAreTexts DEF Column
  <2> DEFINE m == Min2(capacity, Len(v))
             after(k) == IF k <= m THEN v[k]
                         ELSE IF k = m + 1 /\ kind # "bstring" THEN NUL ELSE cell[k]
  <2>2. m \in Nat /\ m <= Len(v) /\ (~Truncated(v) => m = Len(v) /\ Len(v) <= width)
    BY <1>1, <1>3, <2>1 DEF Min2, Truncated
  <2>3. CellAfter(cell, v) = [k \in 1..width |-> after(k)]
    BY <1>3 DEF CellAfter
  <2> HIDE DEF m
  <2>4. \A k \in 1..width : after(k) \in {"a", "b", NUL}
    BY <2>1, <2>2 DEF Cell
  <2>5. ~Truncated(v) => \A k \in 1..Len(v) : k \in 1..width /\ after(k) = v[k]
    BY <1>1, <2>1, <2>2
  <2>6. CellAfter(cell, v) \in Cell
    BY <2>3, <2>4 DEF Cell
  <2>7. ~Truncated(v) => \A k \in 1..Len(v) : CellAfter(cell, v)[k] = v[k]
    BY <2>3, <2>5
  <2> QED BY <1>1, <1>3, <2>1, <2>6, <2>7 DEF LenAfter, SQL_NULL_DATA
<1> QED BY <1>2, <1>3

LEMMA FetchedRows ==
  ASSUME kind \in Kinds, Reader, FetchBlock
  PROVE  /\ resData' \in [ResRow -> Cell] /\ resLen' \in [ResRow -> SQL_NULL_DATA..Longest]
         /\ moved' \in [ResRow -> Column]
         /\ \A i \in ResRow : Holds(resData', resLen', i, moved'[i])
         /\ rc' = "success" => \A i \in 1..Len(Block) : ~Truncated(moved'[i])
         /\ rc' = "success" =>
              \A i \in 1..Len(Block) : row(resData', resLen', i) = Block[i]
<1>1. /\ DOMAIN Block = 1..Len(Block) /\ \A i \in 1..Len(Block) : Block[i] \in Column
      /\ \A i \in 1..Len(Block) : i \in ResRow
  BY BlockOfColumn, SizeAssumption DEF ResRow
<1>2. /\ resData' = [i \in ResRow |-> IF i \in DOMAIN Block THEN CellAfter(resData[i], Block[i])
                                                             ELSE resData[i]]
      /\ resLen' = [i \in ResRow |-> IF i \in DOMAIN Block THEN LenAfter(Block[i]) ELSE resLen[i]]
      /\ moved' = [i \in ResRow |-> IF i \in DOMAIN Block THEN Block[i] ELSE moved[i]]
      /\ rc' \in Answers
  BY DEF FetchBlock
<1>3. \A i \in ResRow : /\ resData[i] \in Cell /\ resLen[i] \in SQL_NULL_DATA..Longest
                        /\ moved[i] \in Column /\ Holds(resData, resLen, i, moved[i])
  BY DEF Reader
<1>4. ASSUME NEW i \in ResRow
      PROVE  /\ resData'[i] \in Cell /\ resLen'[i] \in SQL_NULL_DATA..Longest
             /\ moved'[i] \in Column /\ Holds(resData', resLen', i, moved'[i])
  <2>1. CASE i \in DOMAIN Block
    <3>1. PICK v : v = Block[i]
      OBVIOUS
    <3>2. /\ resData'[i] = CellAfter(resData[i], v) /\ resLen'[i] = LenAfter(v)
          /\ moved'[i] = v /\ v \in Column
      BY <1>1, <1>2, <2>1, <3>1
    <3> QED BY <1>3, <3>2, CellHolds DEF Holds, is_null
  <2>2. CASE i \notin DOMAIN Block
    <3>1. resData'[i] = resData[i] /\ resLen'[i] = resLen[i] /\ moved'[i] = moved[i]
      BY <1>2, <2>2
    <3> QED BY <1>3, <3>1 DEF Holds, is_null
  <2> QED BY <2>1, <2>2
<1>5. ASSUME rc' = "success", NEW i \in 1..Len(Block)
      PROVE  moved'[i] = Block[i] /\ ~Truncated(moved'[i]) /\ row(resData', resLen', i) = Block[i]
  <2>1. /\ ~Truncated(Block[i]) /\ Block[i] \in Column /\ i \in ResRow
        /\ moved'[i] = Block[i]
    BY <1>1, <1>2, <1>5 DEF Answers
  <2>2. resData'[i] \in Cell /\ Holds(resData', resLen', i, Block[i])
    BY <1>4, <2>1
  <2>3. PICK data, len : data = resData' /\ len = resLen'
    OBVIOUS
  <2>4. row(data, len, i) = Block[i]
    BY <2>1, <2>2, <2>3, HeldReads
  <2> QED BY <2>1, <2>3, <2>4
<1>6. /\ resData' \in [ResRow -> Cell] /\ resLen' \in [ResRow -> SQL_NULL_DATA..Longest]
      /\ moved' \in [ResRow -> Column]
  BY <1>2, <1>4
<1> QED BY <1>4, <1>5, <1>6

\* What the client sees of a block is the block
LEMMA BlockSeen ==
  ASSUME kind \in Kinds, Reader, FetchBlock, rc' = "success"
  PROVE  /\ rowsRead' = Len(Block)
         /\ seen' = seen \o Block
         /\ left' = SubSeq(left, Len(Block) + 1, Len(left))
         /\ reading /\ reading'
<1>1. /\ Block \in Seq(Column)
      /\ \A i \in 1..Len(Block) : row(resData', resLen', i) = Block[i]
  BY BlockOfColumn, FetchedRows
<1>2. [i \in 1..Len(Block) |-> row(resData', resLen', i)] = Block
  BY <1>1
<1>3. /\ rowsRead' = Len(Block)
      /\ seen' = seen \o [i \in 1..rowsRead' |-> row(resData', resLen', i)]
      /\ left' = SubSeq(left, Len(Block) + 1, Len(left))
      /\ reading /\ UNCHANGED reading
  BY DEF FetchBlock
<1> QED BY <1>2, <1>3

LEMMA ReadingReader ==
  ASSUME kind \in Kinds, Reader, FetchBlock
  PROVE  Reader'
<1>1. kind' = kind /\ table' = table /\ rc' \in {"success", "allowed", "thrown"}
  BY DEF FetchBlock, Answers
<1>2. /\ resData' \in [ResRow -> Cell] /\ resLen' \in [ResRow -> SQL_NULL_DATA..Longest]
      /\ moved' \in [ResRow -> Column]
      /\ rowsRead' = Len(Block) /\ rowsRead' \in 0..N_res
  BY FetchedRows, BlockOfColumn DEF FetchBlock
<1>3. /\ \A i \in ResRow : Holds(resData, resLen, i, moved[i])'
      /\ rc' = "success" => \A i \in 1..rowsRead' : ~Truncated(moved[i])'
  BY <1>1, <1>2, FetchedRows, SameHolds, SameKind DEF Truncated
<1>4. /\ left' \in Seq(Column) /\ seen' \in Seq(Values \cup {Null}) /\ reading' \in BOOLEAN
      /\ ~reading' => left' = <<>> /\ seen' = <<>>
      /\ reading' /\ rc' = "success" /\ rowsRead' < N_res => left' = <<>>
  <2>1. CASE rc' = "success"
    <3>1. /\ left \in Seq(Column) /\ seen \in Seq(Values \cup {Null})
          /\ Block \in Seq(Values \cup {Null}) /\ Len(Block) \in 0..N_res
          /\ Len(Block) <= Len(left) /\ (Len(Block) < N_res => Len(Block) = Len(left))
      BY BlockOfColumn, ColumnInValues DEF Reader
    <3>2. /\ seen' = seen \o Block /\ reading'
          /\ left' = SubSeq(left, Len(Block) + 1, Len(left))
      BY <2>1, BlockSeen
    <3>3. seen' \in Seq(Values \cup {Null})
      BY <3>1, <3>2, ConcatProperties, Zenon
    <3>4. Len(Block) + 1 \in Int /\ Len(left) \in Int
      BY <3>1, SizeAssumption
    <3>5. left' \in Seq(Column)
      <4>1. \A i \in Len(Block) + 1..Len(left) : left[i] \in Column
        BY <3>1, SizeAssumption
      <4> QED BY <3>2, <3>4, <4>1, SubSeqProperties
    <3>6. rowsRead' < N_res => left' = <<>>
      <4> SUFFICES ASSUME rowsRead' < N_res PROVE left' = <<>>
        OBVIOUS
      <4>1. Len(left) < Len(Block) + 1
        BY <1>2, <3>1, SizeAssumption
      <4> QED BY <3>2, <3>4, <4>1, SubSeqEmpty
    <3> QED BY <3>2, <3>3, <3>5, <3>6, BlockSeen, <2>1 DEF FetchBlock, Reader
  <2>2. CASE rc' # "success"
    <3>1. Leave
      BY <2>2 DEF FetchBlock
    <3> QED BY <2>2, <3>1, NoRows DEF Leave
  <2> QED BY <2>1, <2>2
<1>5. table' \in Seq(Column)
  BY <1>1 DEF Reader
<1> QED BY <1>1, <1>2, <1>3, <1>4, <1>5, SameKind DEF Reader, ResRow

\* a step after which the arrays of the result buffer are as before
LEMMA SameArrays ==
  ASSUME Reader, UNCHANGED <<kind, resData, resLen, moved>>,
         rowsRead' \in 0..N_res, rc' \in {"executed", "success", "noData", "allowed", "thrown"},
         rc' = "success" => rc = "success" /\ rowsRead' = rowsRead,
         table' \in Seq(Column), left' \in Seq(Column), seen' \in Seq(Values \cup {Null}),
         reading' \in BOOLEAN, ~reading' => left' = <<>> /\ seen' = <<>>,
         ~(reading' /\ rc' = "success")
  PROVE  Reader'
<1>1. \A i \in ResRow : Holds(resData, resLen, i, moved[i])'
  BY SameHolds DEF Reader
<1>2. rc' = "success" => \A i \in 1..rowsRead' : ~Truncated(moved[i])'
  BY SameKind DEF Reader, Truncated
<1> QED BY <1>1, <1>2, SameKind DEF Reader, ResRow

LEMMA LeavingReader ==
  ASSUME Reader, FetchEnd \/ LeaveEarly \/ FetchFails
  PROVE  Reader'
<1>1. /\ UNCHANGED <<kind, table, resData, resLen, moved>>
      /\ rc' \in {"success", "noData", "allowed", "thrown"}
      /\ reading' = FALSE /\ left' = <<>> /\ seen' = <<>>
      /\ rowsRead' \in 0..N_res /\ (rc' = "success" => rc = "success" /\ rowsRead' = rowsRead)
  BY SizeAssumption DEF FetchEnd, LeaveEarly, FetchFails, Leave, Reader
<1>2. left' \in Seq(Column) /\ seen' \in Seq(Values \cup {Null}) /\ table' \in Seq(Column)
  BY <1>1, NoRows DEF Reader
<1> QED BY <1>1, <1>2, SameArrays

LEMMA SelectingReader ==
  ASSUME Reader, Select
  PROVE  Reader'
<1>1. /\ UNCHANGED <<kind, table, resData, resLen, moved>>
      /\ rowsRead' = rowsRead /\ rc' = "executed" /\ reading' = TRUE
      /\ left' = table /\ seen' = <<>>
  BY DEF Select
<1>2. /\ left' \in Seq(Column) /\ seen' \in Seq(Values \cup {Null}) /\ table' \in Seq(Column)
      /\ rowsRead' \in 0..N_res
  BY <1>1, NoRows DEF Reader
<1> QED BY <1>1, <1>2, SameArrays

\* a step that changes the table only
LEMMA StoringReader ==
  ASSUME Reader, UNCHANGED <<kind, resVars>>, table' \in Seq(Column)
  PROVE  Reader'
<1>1. UNCHANGED <<kind, resData, resLen, moved, rowsRead, rc, left, seen, reading>>
  BY DEF resVars
<1>2. \A i \in ResRow : Holds(resData, resLen, i, moved[i])'
  BY <1>1, SameHolds DEF Reader
<1>3. \A i : Truncated(moved[i])' = Truncated(moved[i])
  BY <1>1, SameKind DEF Truncated
<1> QED BY <1>1, <1>2, <1>3, SameKind DEF Reader, ResRow

LEMMA InsertingReader ==
  ASSUME kind \in Kinds, Params, Reader, NEW n \in 0..N_par, Insert(n)
  PROVE  Reader'
<1>1. table \in Seq(Column)
  BY DEF Reader
<1>2. table' = table \/ (table' = table \o Read(n) /\ Read(n) \in Seq(Column))
  BY RowsInserted DEF Insert
<1>3. table' \in Seq(Column)
  BY <1>1, <1>2, ConcatProperties, Zenon
<1> QED BY <1>3, StoringReader DEF Insert

LEMMA OtherReader ==
  ASSUME Reader, StoreOther
  PROVE  Reader'
<1>1. table' \in Seq(Column)
  BY DEF StoreOther, Reader, Column
<1> QED BY <1>1, StoringReader DEF StoreOther

-----------------------------------------------------------------------------
(* The invariant *)

Faithful == kind \in Kinds /\ Params /\ Reader

LEMMA InitFaithful == Init => Faithful
<1> SUFFICES ASSUME Init PROVE Faithful
  OBVIOUS
<1>1. width \in Nat \ {0} /\ Longest \in Nat /\ SQL_NULL_DATA \in SQL_NULL_DATA..width
  BY Sizes DEF Init, SQL_NULL_DATA
<1>2. ASSUME NEW i \in ParRow PROVE KeptRow(i)
  BY <1>2 DEF Init, KeptRow, row, is_null, Cut, Fitting
<1>3. Params
  BY <1>1, <1>2 DEF Init, Params, Cell
<1>4. Reader
  <2>1. /\ resData \in [ResRow -> Cell] /\ resLen \in [ResRow -> SQL_NULL_DATA..Longest]
        /\ moved \in [ResRow -> Column]
    BY <1>1 DEF Init, Cell, SQL_NULL_DATA, Column
  <2>2. \A i \in ResRow : Holds(resData, resLen, i, moved[i])
    BY DEF Init, Holds, is_null
  <2>3. /\ rowsRead \in 0..N_res /\ rc = "executed" /\ reading = FALSE
        /\ table = <<>> /\ left = <<>> /\ seen = <<>>
    BY SizeAssumption DEF Init
  <2> QED BY <2>1, <2>2, <2>3, NoRows DEF Reader
<1> QED BY <1>3, <1>4 DEF Init, Faithful

LEMMA NextFaithful == Faithful /\ [Next]_vars => Faithful'
<1> SUFFICES ASSUME Faithful, [Next]_vars PROVE Faithful'
  OBVIOUS
<1> USE DEF Faithful
<1>1. CASE UNCHANGED vars
  BY <1>1, ParamsKept, ReaderKept DEF vars
<1>2. ASSUME NEW i \in ParRow, Set(i) \/ SetFromView(i) PROVE Faithful'
  <2>1. PICK v \in Values : /\ set_value(i, v)
                            /\ kind = "decimal" /\ "fullDecimal" \notin Usage => Len(v) <= width
    BY <1>2, ViewsAreValues DEF Set, SetFromView, ClientValues
  <2>2. UNCHANGED <<kind, resVars, table>>
    BY <1>2 DEF Set, SetFromView
  <2> QED BY <2>1, <2>2, SetParams, ReaderKept
<1>3. ASSUME NEW i \in ParRow, SetFromItself(i) PROVE Faithful'
  BY <1>3, ItselfParams, ReaderKept DEF SetFromItself
<1>4. ASSUME NEW i \in ParRow, set_null(i) PROVE Faithful'
  BY <1>4, NullParams, ReaderKept DEF set_null
<1>5. ASSUME NEW n \in 0..N_par, Insert(n) PROVE Faithful'
  BY <1>5, InsertingReader, ParamsKept DEF Insert
<1>6. CASE StoreOther
  BY <1>6, OtherReader, ParamsKept DEF StoreOther
<1>7. CASE Select
  BY <1>7, SelectingReader, ParamsKept DEF Select
<1>8. CASE FetchBlock
  BY <1>8, ReadingReader, ParamsKept DEF FetchBlock
<1>9. CASE FetchEnd \/ LeaveEarly \/ FetchFails
  <2>1. UNCHANGED <<kind, parVars>>
    BY <1>9 DEF FetchEnd, LeaveEarly, FetchFails
  <2> QED BY <1>9, <2>1, LeavingReader, ParamsKept
<1> QED BY <1>1, <1>2, <1>3, <1>4, <1>5, <1>6, <1>7, <1>8, <1>9 DEF Next, Fill, Copy

\* The arrays, the lengths and the rows keep their types, whatever is stored;
\* a length the driver reported never exceeds the longest value of the column
THEOREM TypeCorrect == Spec => []TypeOK
<1>1. Faithful => TypeOK
  <2> SUFFICES ASSUME Faithful PROVE TypeOK
    OBVIOUS
  <2>1. moved \in [ResRow -> Values \cup {Null}]
    BY ColumnInValues DEF Faithful, Reader
  <2> QED BY <2>1, ColumnInValues DEF Faithful, Params, Reader, TypeOK
<1> QED BY <1>1, InitFaithful, NextFaithful, PTL DEF Spec

\* For columns of every kind and width, buffers of every size, whatever is
\* stored, whatever decimals clients set and whatever parts of a row they set
\* again: the view of a row that is neither null nor truncated lies
\* inside its array, is_null tells the rows that are null, and no row of the
\* block is truncated after SQL_SUCCESS.  Of a row that is null, or truncated
\* in a block whose warning the client allows, the theorem promises nothing:
\* those views do reach beyond the array (dbgen3_templ.hpp:82-111, 587-588)
THEOREM NoViewOutside == Spec => []ViewsInside
<1>1. Faithful => ViewsInside
  <2> SUFFICES ASSUME Faithful PROVE ViewsInside
    OBVIOUS
  <2>1. ASSUME NEW i \in ParRow
        PROVE  /\ is_null(parLen, i) <=> asked[i] = Null
               /\ Inside(value(parData, parLen, i)) \/ asked[i] = Null
    <3>1. is_null(parLen, i) <=> asked[i] = Null
      BY DEF Faithful, Params, KeptRow
    <3>2. ASSUME asked[i] # Null PROVE Inside(value(parData, parLen, i))
      <4>1. PICK v : v = value(parData, parLen, i)
        OBVIOUS
      <4>2. v \in Values
        BY <3>1, <3>2, <4>1, ViewIsRow DEF Faithful
      <4> QED BY <4>1, <4>2, ValuesAreTexts DEF Inside, Outside
    <3> QED BY <3>1, <3>2
  <2>2. ASSUME NEW i \in ResRow
        PROVE  /\ is_null(resLen, i) <=> moved[i] = Null
               /\ \/ Inside(value(resData, resLen, i))
                  \/ moved[i] = Null \/ Truncated(moved[i])
    <3>1. moved[i] \in Column /\ resData[i] \in Cell /\ Holds(resData, resLen, i, moved[i])
      BY DEF Faithful, Reader
    <3> QED BY <3>1, HeldReads DEF Holds, Faithful
  <2>3. rc = "success" => \A i \in 1..rowsRead : ~Truncated(moved[i])
    BY DEF Faithful, Reader
  <2> QED BY <2>1, <2>2, <2>3 DEF ViewsInside
<1> QED BY <1>1, InitFaithful, NextFaithful, PTL DEF Spec

\* Whatever the sizes: at any time, between two fetches or after the loop, each
\* row of the result buffer whose value fitted reads as what the driver last
\* moved into it (dbgen3_templ.hpp:91-111, tests/test_1.cpp:231-242)
THEOREM RowsReadable == Spec => []LastRowsReadable
<1>1. Faithful => LastRowsReadable
  <2> SUFFICES ASSUME Faithful, NEW i \in ResRow, ~Truncated(moved[i])
               PROVE  row(resData, resLen, i) = moved[i]
    BY DEF LastRowsReadable
  <2>1. moved[i] \in Column /\ resData[i] \in Cell /\ Holds(resData, resLen, i, moved[i])
    BY DEF Faithful, Reader
  <2> QED BY <2>1, HeldReads DEF Faithful
<1> QED BY <1>1, InitFaithful, NextFaithful, PTL DEF Spec

-----------------------------------------------------------------------------
(* The steps of RowStore *)

LEMMA ConcatIsLonger ==
  ASSUME NEW S, NEW s \in Seq(S), NEW t \in Seq(S), Len(t) # 0
  PROVE  Store!IsStrictPrefix(s, s \o t)
<1>1. /\ s \o t \in Seq(S) /\ Len(s \o t) = Len(s) + Len(t)
      /\ Len(s) \in Nat /\ Len(t) \in Nat
      /\ \A i \in 1..Len(s) : (s \o t)[i] = s[i]
  BY ConcatProperties
<1>2. SubSeq(s, 1, Len(s)) = SubSeq(s \o t, 1, Len(s))
  BY <1>1
<1>3. s # s \o t
  BY <1>1
<1> QED BY <1>1, <1>2, <1>3 DEF Store!IsStrictPrefix, Store!IsPrefix

LEMMA InsertStores ==
  ASSUME Usage = {}, Faithful, NEW n \in 0..N_par, Insert(n)
  PROVE  Store!Store \/ UNCHANGED Store!vars
<1>0. UNCHANGED <<kind, asked, left, seen, loop>>
  BY DEF Insert, parVars, resVars, loop
<1>1. CASE table' = table
  BY <1>0, <1>1 DEF Store!vars
<1>2. CASE table' # table
  <2>1. /\ table \in Seq(Column) /\ Read(n) \in Seq(Column) /\ Len(Read(n)) \in Nat \ {0}
        /\ table' = table \o Read(n)
        /\ \A i \in 1..Len(Read(n)) : i \in ParRow /\ Read(n)[i] = row(parData, parLen, i)
    BY <1>2, RowsInserted DEF Insert, Faithful, Reader
  <2>2. Store!IsStrictPrefix(table, table')
    BY <2>1, ConcatIsLonger
  <2>3. /\ Len(table) \in Nat /\ Len(table') = Len(table) + Len(Read(n))
        /\ \A i \in 1..Len(Read(n)) : table'[Len(table) + i] = Read(n)[i]
    <3>1. /\ Len(table \o Read(n)) = Len(table) + Len(Read(n)) /\ Len(table) \in Nat
          /\ \A i \in 1..Len(table) + Len(Read(n)) :
               (table \o Read(n))[i] = IF i <= Len(table) THEN table[i]
                                                       ELSE Read(n)[i - Len(table)]
      BY <2>1, ConcatProperties
    <3>2. ASSUME NEW i \in 1..Len(Read(n))
          PROVE  (table \o Read(n))[Len(table) + i] = Read(n)[i]
      <4>1. /\ Len(table) + i \in 1..Len(table) + Len(Read(n))
            /\ ~(Len(table) + i <= Len(table)) /\ (Len(table) + i) - Len(table) = i
        BY <2>1, <3>1
      <4> QED BY <3>1, <4>1
    <3> QED BY <2>1, <3>1, <3>2
  <2>4. ASSUME NEW i \in 1..Len(table') - Len(table)
        PROVE  i \in ParRow /\ Store!Keeps(asked[i], table'[Len(table) + i])
    <3>1. i \in 1..Len(Read(n))
      BY <2>1, <2>3
    <3>2. /\ i \in ParRow /\ table'[Len(table) + i] = row(parData, parLen, i)
          /\ row(parData, parLen, i) \in Column
      <4>1. Read(n)[i] \in Column
        BY <2>1, <3>1
      <4> QED BY <2>1, <2>3, <3>1, <4>1
    <3>3. /\ asked[i] \in Values \cup {Null} /\ kind \in Kinds
          /\ row(parData, parLen, i) = Cut(asked[i])
          /\ asked[i] # Null /\ kind = "decimal" => Len(asked[i]) <= width
      BY <3>2 DEF Faithful, Params, KeptRow
    <3>4. asked[i] # Null => Len(Cut(asked[i])) <= Longest
      <4>1. asked[i] # Null => Cut(asked[i]) # Null
        BY <3>3, CutValue, ValuesAreTexts
      <4> QED BY <3>2, <3>3, <4>1 DEF Column
    <3> QED BY <3>2, <3>3, <3>4, CutKeeps
  <2> QED BY <1>0, <2>2, <2>4 DEF Store!Store
<1> QED BY <1>1, <1>2

LEMMA AskAsks ==
  ASSUME Faithful, NEW i \in ParRow,
         Set(i) \/ SetFromView(i) \/ SetFromItself(i) \/ set_null(i)
  PROVE  Store!Ask
<1>1. UNCHANGED <<kind, table, left, seen, loop>>
  BY DEF Set, SetFromView, SetFromItself, set_null, resVars, loop
<1>2. PICK v \in Values \cup {Null} : asked' = [asked EXCEPT ![i] = v]
  <2>1. CASE SetFromItself(i)
    BY <2>1, ItselfParams DEF Faithful
  <2>2. CASE ~SetFromItself(i)
    BY <2>2, ViewsAreValues DEF Set, SetFromView, set_null, set_value, ClientValues, Faithful
  <2> QED BY <2>1, <2>2
<1>3. v \in Value \cup {Null}
  BY <1>2 DEF Values
<1> QED BY <1>1, <1>2, <1>3 DEF Store!Ask

LEMMA FetchReads ==
  ASSUME Faithful, FetchBlock
  PROVE  Store!Read \/ Store!Fail
<1>0. UNCHANGED <<kind, asked, table>> /\ reading /\ left # <<>>
  BY DEF FetchBlock, parVars
<1>1. CASE rc' = "success"
  <2>1. /\ seen' = seen \o Block /\ left' = SubSeq(left, Len(Block) + 1, Len(left))
        /\ reading'
    BY <1>1, BlockSeen DEF Faithful
  <2>2. Block = SubSeq(left, 1, Len(Block)) /\ Len(Block) \in 1..Len(left)
    BY <1>0, BlockOfColumn, SizeAssumption DEF Faithful, Reader
  <2>3. loop = "reading" /\ loop' = loop
    BY <1>0, <2>1 DEF loop
  <2>4. seen' = seen \o SubSeq(left, 1, Len(Block))
    BY <2>1, <2>2
  <2> QED BY <1>0, <2>1, <2>2, <2>3, <2>4 DEF Store!Read
<1>2. CASE rc' # "success"
  <2>1. Leave /\ rc' \in {"allowed", "thrown"}
    BY <1>2 DEF FetchBlock, Answers
  <2> QED BY <1>0, <2>1 DEF Leave, loop, Store!Fail, Store!Over
<1> QED BY <1>1, <1>2

LEMMA LeaveEnds ==
  ASSUME Faithful, FetchEnd \/ LeaveEarly \/ FetchFails
  PROVE  Store!End \/ Store!Fail
<1>0. UNCHANGED <<kind, asked, table>> /\ reading /\ Leave
  BY DEF FetchEnd, LeaveEarly, FetchFails, parVars
<1>1. CASE FetchEnd
  BY <1>0, <1>1 DEF FetchEnd, Leave, loop, Store!End, Store!Over
<1>2. CASE LeaveEarly
  BY <1>0, <1>2 DEF LeaveEarly, Leave, loop, Faithful, Reader, Store!End, Store!Over
<1>3. CASE FetchFails
  BY <1>0, <1>3 DEF FetchFails, Leave, loop, Store!Fail, Store!Over
<1> QED BY <1>1, <1>2, <1>3

LEMMA InitStore == Init => Store!Init
BY DEF Init, Store!Init, loop

LEMMA NextStore ==
  ASSUME Usage = {}, Faithful, [Next]_vars
  PROVE  [Store!Next]_(Store!vars)
<1> SUFFICES Store!Next \/ UNCHANGED Store!vars
  OBVIOUS
<1>1. CASE UNCHANGED vars
  BY <1>1 DEF vars, parVars, resVars, loop, Store!vars
<1>2. ASSUME NEW i \in ParRow, Set(i) \/ SetFromView(i) \/ SetFromItself(i) \/ set_null(i)
      PROVE  Store!Next
  BY <1>2, AskAsks DEF Store!Next
<1>3. ASSUME NEW n \in 0..N_par, Insert(n) PROVE Store!Next \/ UNCHANGED Store!vars
  BY <1>3, InsertStores DEF Store!Next
<1>4. CASE StoreOther
  <2>1. Store!StoreOther
    BY <1>4 DEF StoreOther, Values, parVars, resVars, loop, Store!StoreOther
  <2> QED BY <2>1 DEF Store!Next
<1>5. CASE Select
  <2>1. Store!Select
    BY <1>5 DEF Select, parVars, loop, Store!Select
  <2> QED BY <2>1 DEF Store!Next
<1>6. CASE FetchBlock
  BY <1>6, FetchReads DEF Store!Next
<1>7. CASE FetchEnd \/ LeaveEarly \/ FetchFails
  BY <1>7, LeaveEnds DEF Store!Next
<1> QED BY <1>1, <1>2, <1>3, <1>4, <1>5, <1>6, <1>7 DEF Next, Fill, Copy

\* For clients that set no decimal longer than its array and set no row from a
\* part of itself: what the table keeps of a value is the value, or as much of
\* it as the column holds, and a loop reads the table in order and each row
\* once, in blocks of any size, as long as no value had to be truncated: such a
\* block is an error to its reader.  Both premises are needed
\* (dbgen3_templ.hpp:118-153, 213-242, 582-589)
THEOREM RefinesRowStore ==
  ASSUME Usage = {}
  PROVE  Spec => ImplementsRowStore
<1>1. Faithful /\ [Next]_vars => [Store!Next]_(Store!vars)
  BY NextStore
<1> QED BY <1>1, InitFaithful, NextFaithful, InitStore, PTL
        DEF Spec, ImplementsRowStore, Store!SafeSpec

=============================================================================
