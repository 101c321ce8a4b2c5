------------------------------ MODULE TextProofs ------------------------------
(***************************************************************************)
(* What the operators on texts compute, for texts of any length.  The      *)
(* recursive ones (FoldLeft, FlattenSeq) come first: a table of their      *)
(* values is shown to exist, and induction over it uses sets of numbers.   *)
(* Then the words of a text, the lines of a text (split), what minimize,   *)
(* trim and one_line make of them, and, at the end of the two last parts,  *)
(* what the proofs about the header cite: SameWords and SameLayout.        *)
(***************************************************************************)
EXTENDS Header, SequenceTheorems, WellFoundedInduction, TLAPS

-----------------------------------------------------------------------------
(* Induction, with a set in place of a predicate                           *)

LEMMA LeastNumber ==
  ASSUME NEW T \in SUBSET Nat, T # {}
  PROVE  \E n \in T : \A m \in T : n <= m
<1>1. PICK n \in T : \A m \in T : ~(<<m, n>> \in OpToRel(<, Nat))
  BY WFMin, NatLessThanWellFounded, Zenon
<1>2. \A m \in T : ~(m < n)
  BY <1>1 DEF OpToRel
<1> QED BY <1>2

LEMMA Induction ==
  ASSUME NEW T, 0 \in T, \A n \in Nat : n \in T => n + 1 \in T
  PROVE  Nat \subseteq T
<1> DEFINE Out == Nat \ T
<1> SUFFICES ASSUME Out # {} PROVE FALSE
  OBVIOUS
<1>1. PICK n \in Out : \A m \in Out : n <= m
  BY LeastNumber
<1>2. n # 0 /\ n - 1 \in Nat /\ n - 1 \in T
  BY <1>1
<1> QED BY <1>1, <1>2

LEMMA SequenceInduction ==
  ASSUME NEW S, NEW T, <<>> \in T, \A s \in Seq(S), e \in S : s \in T => Append(s, e) \in T
  PROVE  Seq(S) \subseteq T
<1> DEFINE N == {n \in Nat : \A s \in Seq(S) : Len(s) = n => s \in T}
<1>1. 0 \in N
  <2>1. \A s \in Seq(S) : Len(s) = 0 => s = <<>>
    BY EmptySeq
  <2> QED BY <2>1
<1>2. ASSUME NEW n \in Nat, n \in N PROVE n + 1 \in N
  <2> SUFFICES ASSUME NEW s \in Seq(S), Len(s) = n + 1 PROVE s \in T
    OBVIOUS
  <2>1. s # <<>>
    OBVIOUS
  <2>2. PICK t \in Seq(S), e \in S : s = Append(t, e)
    BY <2>1, SequenceEmptyOrAppend
  <2>3. Len(t) = n
    BY <2>2
  <2> QED BY <1>2, <2>2, <2>3
<1>3. Nat \subseteq N
  BY <1>1, <1>2, Induction
<1>4. \A s \in Seq(S) : Len(s) \in Nat
  OBVIOUS
<1> QED BY <1>3, <1>4

-----------------------------------------------------------------------------
(* FlattenSeq                                                              *)

\* The function that FlattenSeq looks up the last value of
Flattens(g, s, n) ==
  g = [i \in 1..n |-> IF i = 1 THEN s[i] ELSE g[i - 1] \o s[i]]

LEMMA FlattensExists ==
  ASSUME NEW s
  PROVE  \A n \in Nat : \E g : Flattens(g, s, n)
<1> DEFINE T == {n \in Nat : \E g : Flattens(g, s, n)}
<1>1. 0 \in T
  <2>1. Flattens(<<>>, s, 0)
    BY DEF Flattens
  <2> QED BY <2>1
<1>2. ASSUME NEW n \in Nat, n \in T PROVE n + 1 \in T
  <2>1. PICK g : Flattens(g, s, n)
    BY <1>2
  <2> DEFINE h == [i \in 1..n + 1 |-> IF i = 1 THEN s[i] ELSE g[i - 1] \o s[i]]
  <2>2. \A i \in 1..n : h[i] = g[i]
    <3> TAKE i \in 1..n
    <3>1. g[i] = IF i = 1 THEN s[i] ELSE g[i - 1] \o s[i]
      BY <2>1, Zenon DEF Flattens
    <3> QED BY <3>1
  <2>3. \A i \in 1..n + 1 : i # 1 => i - 1 \in 1..n
    OBVIOUS
  <2>4. \A i \in 1..n + 1 : i # 1 => h[i - 1] = g[i - 1]
    BY <2>2, <2>3
  <2>5. Flattens(h, s, n + 1)
    BY <2>4 DEF Flattens
  <2> QED BY <2>5
<1> QED BY <1>1, <1>2, Induction

\* Its values are the beginnings of the result, one more member each
LEMMA FlattenIs ==
  ASSUME NEW s, Len(s) \in Nat
  PROVE  \E g : /\ Len(s) = 0 => FlattenSeq(s) = s
                /\ Len(s) # 0 => FlattenSeq(s) = g[Len(s)] /\ g[1] = s[1]
                /\ \A i \in 1..Len(s) : i # 1 => g[i] = g[i - 1] \o s[i]
<1> DEFINE g == CHOOSE g : g = [i \in 1..Len(s) |-> IF i = 1 THEN s[i] ELSE g[i - 1] \o s[i]]
<1>1. Flattens(g, s, Len(s))
  <2>1. \E f : f = [i \in 1..Len(s) |-> IF i = 1 THEN s[i] ELSE f[i - 1] \o s[i]]
    BY FlattensExists DEF Flattens
  <2> QED BY <2>1, Zenon DEF Flattens
<1>2. FlattenSeq(s) = IF Len(s) = 0 THEN s ELSE g[Len(s)]
  BY Zenon DEF FlattenSeq
<1> HIDE DEF g
<1>3. \A i \in 1..Len(s) : g[i] = IF i = 1 THEN s[i] ELSE g[i - 1] \o s[i]
  BY <1>1, Zenon DEF Flattens
<1>4. Len(s) # 0 => g[1] = s[1]
  BY <1>3
<1>5. \A i \in 1..Len(s) : i # 1 => g[i] = g[i - 1] \o s[i]
  BY <1>3
<1> QED BY <1>2, <1>4, <1>5, Zenon

LEMMA ConcatMembers ==
  ASSUME NEW S, NEW s \in Seq(S), NEW t \in Seq(S)
  PROVE  s \o t \in Seq(S) /\ ToSet(s \o t) = ToSet(s) \cup ToSet(t)
<1>1. /\ s \o t \in Seq(S) /\ Len(s \o t) = Len(s) + Len(t)
      /\ \A i \in 1..Len(s) : (s \o t)[i] = s[i]
      /\ \A i \in 1..Len(t) : (s \o t)[Len(s) + i] = t[i]
  OBVIOUS
<1>2. DOMAIN s = 1..Len(s) /\ DOMAIN t = 1..Len(t) /\ DOMAIN (s \o t) = 1..Len(s) + Len(t)
      /\ Len(s) \in Nat /\ Len(t) \in Nat
  BY <1>1
<1>3. ASSUME NEW x \in ToSet(s \o t) PROVE x \in ToSet(s) \cup ToSet(t)
  <2>1. PICK i \in 1..Len(s) + Len(t) : x = (s \o t)[i]
    BY <1>2 DEF ToSet
  <2>2. CASE i \in 1..Len(s)
    BY <1>1, <1>2, <2>1, <2>2 DEF ToSet
  <2>3. CASE i \notin 1..Len(s)
    <3>1. i - Len(s) \in 1..Len(t) /\ Len(s) + (i - Len(s)) = i
      BY <1>2, <2>3
    <3>2. x = t[i - Len(s)]
      BY <1>1, <2>1, <3>1
    <3> QED BY <1>2, <3>1, <3>2 DEF ToSet
  <2> QED BY <2>2, <2>3
<1>4. ASSUME NEW x \in ToSet(s) PROVE x \in ToSet(s \o t)
  BY <1>1, <1>2 DEF ToSet
<1>5. ASSUME NEW x \in ToSet(t) PROVE x \in ToSet(s \o t)
  <2>1. PICK i \in 1..Len(t) : x = t[i]
    BY <1>2 DEF ToSet
  <2>2. Len(s) + i \in DOMAIN (s \o t) /\ (s \o t)[Len(s) + i] = x
    BY <1>1, <1>2, <2>1
  <2> QED BY <2>2 DEF ToSet
<1> QED BY <1>1, <1>3, <1>4, <1>5

\* A sequence of any members, as a member of a Seq
LEMMA FlattenMembers ==
  ASSUME NEW S, NEW s \in Seq(Seq(S))
  PROVE  /\ FlattenSeq(s) \in Seq(S)
         /\ ToSet(FlattenSeq(s)) = UNION {ToSet(s[k]) : k \in DOMAIN s}
<1>1. PICK g : /\ Len(s) = 0 => FlattenSeq(s) = s
               /\ Len(s) # 0 => FlattenSeq(s) = g[Len(s)] /\ g[1] = s[1]
               /\ \A i \in 1..Len(s) : i # 1 => g[i] = g[i - 1] \o s[i]
  <2>1. Len(s) \in Nat
    OBVIOUS
  <2> QED BY <2>1, FlattenIs, Zenon
<1> DEFINE T == {n \in Nat : n \in 1..Len(s) =>
                    g[n] \in Seq(S) /\ ToSet(g[n]) = UNION {ToSet(s[k]) : k \in 1..n}}
<1>2. 0 \in T
  OBVIOUS
<1>3. ASSUME NEW n \in Nat, n \in T PROVE n + 1 \in T
  <2> SUFFICES ASSUME n + 1 \in 1..Len(s)
               PROVE  g[n + 1] \in Seq(S) /\ ToSet(g[n + 1]) = UNION {ToSet(s[k]) : k \in 1..n + 1}
    OBVIOUS
  <2>1. s[n + 1] \in Seq(S)
    OBVIOUS
  <2>2. CASE n = 0
    <3>1. g[1] = s[1] /\ 1..1 = {1}
      BY <1>1
    <3> QED BY <2>1, <2>2, <3>1
  <2>3. CASE n # 0
    <3>1. g[n] \in Seq(S) /\ ToSet(g[n]) = UNION {ToSet(s[k]) : k \in 1..n}
      BY <1>3, <2>3
    <3>2. g[n + 1] = g[n] \o s[n + 1]
      <4>1. n + 1 \in 1..Len(s) /\ n + 1 # 1 /\ (n + 1) - 1 = n
        BY <2>3
      <4> QED BY <1>1, <4>1
    <3>3. g[n + 1] \in Seq(S) /\ ToSet(g[n + 1]) = ToSet(g[n]) \cup ToSet(s[n + 1])
      BY <2>1, <3>1, <3>2, ConcatMembers
    <3>4. 1..n + 1 = (1..n) \cup {n + 1}
      OBVIOUS
    <3> QED BY <3>1, <3>3, <3>4
  <2> QED BY <2>2, <2>3
<1>4. Nat \subseteq T
  BY <1>2, <1>3, Induction
<1>5. CASE Len(s) = 0
  BY <1>1, <1>5 DEF ToSet
<1>6. CASE Len(s) # 0
  <2>1. Len(s) \in Nat /\ Len(s) \in 1..Len(s) /\ DOMAIN s = 1..Len(s)
    BY <1>6
  <2>2. Len(s) \in T /\ Len(s) \in 1..Len(s)
    BY <1>4, <2>1, Zenon
  <2>3. /\ g[Len(s)] \in Seq(S)
        /\ ToSet(g[Len(s)]) = UNION {ToSet(s[k]) : k \in 1..Len(s)}
    BY <2>2
  <2> QED BY <1>1, <1>6, <2>1, <2>3
<1> QED BY <1>5, <1>6

-----------------------------------------------------------------------------
(* Sequences                                                               *)

LEMMA ConcatSequences ==
  ASSUME NEW s, NEW t, IsSequence(s), IsSequence(t)
  PROVE  IsSequence(s \o t) /\ ToSet(s \o t) = ToSet(s) \cup ToSet(t)
<1> DEFINE S == ToSet(s) \cup ToSet(t)
<1>1. s \in Seq(S) /\ t \in Seq(S)
  BY SeqMonotonic DEF IsSequence
<1> QED BY <1>1, ConcatMembers DEF IsSequence

LEMMA Positioned ==
  ASSUME NEW s, IsSequence(s)
  PROVE  /\ Len(s) \in Nat /\ DOMAIN s = 1..Len(s)
         /\ \A x \in ToSet(s) : \E i \in 1..Len(s) : x = s[i]
         /\ \A i \in 1..Len(s) : s[i] \in ToSet(s)
BY DEF IsSequence, ToSet

\* The positions of a concatenation
LEMMA ConcatPositions ==
  ASSUME NEW s, NEW t, IsSequence(s), IsSequence(t), NEW i \in DOMAIN (s \o t)
  PROVE  \/ i \in DOMAIN s /\ (s \o t)[i] = s[i]
         \/ i - Len(s) \in DOMAIN t /\ (s \o t)[i] = t[i - Len(s)]
<1>1. Len(s) \in Nat /\ Len(t) \in Nat /\ DOMAIN s = 1..Len(s) /\ DOMAIN t = 1..Len(t)
  BY Positioned
<1>2. /\ Len(s \o t) = Len(s) + Len(t) /\ DOMAIN (s \o t) = 1..Len(s) + Len(t)
      /\ \A k \in 1..Len(s) : (s \o t)[k] = s[k]
      /\ \A k \in 1..Len(t) : (s \o t)[Len(s) + k] = t[k]
  <2>1. s \in Seq(ToSet(s) \cup ToSet(t)) /\ t \in Seq(ToSet(s) \cup ToSet(t))
    BY SeqMonotonic DEF IsSequence
  <2> QED BY <2>1
<1>3. CASE i \in 1..Len(s)
  BY <1>1, <1>2, <1>3
<1>4. CASE i \notin 1..Len(s)
  <2>1. i - Len(s) \in 1..Len(t) /\ Len(s) + (i - Len(s)) = i
    BY <1>1, <1>2, <1>4
  <2>2. (s \o t)[Len(s) + (i - Len(s))] = t[i - Len(s)]
    BY <1>2, <2>1
  <2> QED BY <1>1, <2>1, <2>2
<1> QED BY <1>3, <1>4

\* A table, as the generator writes one for the fields of a buffer
LEMMA TableSequence ==
  ASSUME NEW n \in Nat, NEW f, f = [k \in 1..n |-> f[k]]
  PROVE  IsSequence(f) /\ Len(f) = n /\ DOMAIN f = 1..n /\ ToSet(f) = {f[k] : k \in 1..n}
<1>1. DOMAIN f = 1..n
  BY Zenon
<1>2. f \in [1..n -> ToSet(f)]
  BY <1>1, Zenon DEF ToSet
<1>3. f \in Seq(ToSet(f)) /\ Len(f) = n
  BY <1>2
<1> QED BY <1>1, <1>3, Zenon DEF IsSequence, ToSet

LEMMA SingleSequence ==
  ASSUME NEW d
  PROVE  IsSequence(<<d>>) /\ ToSet(<<d>>) = {d} /\ DOMAIN <<d>> = {1} /\ <<d>>[1] = d
<1>1. ToSet(<<d>>) = {d}
  BY DEF ToSet
<1> QED BY <1>1 DEF IsSequence

LEMMA PairSequence ==
  ASSUME NEW d, NEW e
  PROVE  /\ IsSequence(<<d, e>>) /\ ToSet(<<d, e>>) = {d, e}
         /\ DOMAIN <<d, e>> = {1, 2} /\ <<d, e>>[1] = d /\ <<d, e>>[2] = e
<1>1. DOMAIN <<d, e>> = {1, 2} /\ <<d, e>>[1] = d /\ <<d, e>>[2] = e
  OBVIOUS
<1>2. ToSet(<<d, e>>) = {d, e}
  BY <1>1 DEF ToSet
<1> QED BY <1>1, <1>2 DEF IsSequence

LEMMA EmptySequence == IsSequence(<<>>) /\ ToSet(<<>>) = {} /\ DOMAIN <<>> = {}
<1>1. ToSet(<<>>) = {}
  BY DEF ToSet
<1> QED BY <1>1 DEF IsSequence

LEMMA ConcatValues ==
  ASSUME NEW s, NEW t, IsSequence(s), IsSequence(t)
  PROVE  /\ Len(s \o t) = Len(s) + Len(t)
         /\ \A i \in 1..Len(s) : (s \o t)[i] = s[i]
         /\ \A i \in 1..Len(t) : (s \o t)[Len(s) + i] = t[i]
<1> DEFINE S == ToSet(s) \cup ToSet(t)
<1>1. s \in Seq(S) /\ t \in Seq(S)
  BY SeqMonotonic DEF IsSequence
<1> HIDE DEF S
<1> QED BY <1>1

LEMMA AppendSequence ==
  ASSUME NEW s, NEW e, IsSequence(s)
  PROVE  IsSequence(Append(s, e)) /\ Append(s, e) = s \o <<e>> /\ ToSet(Append(s, e)) = ToSet(s) \cup {e}
<1>1. s \in Seq(ToSet(s) \cup {e})
  BY SeqMonotonic DEF IsSequence
<1>2. Append(s, e) = s \o <<e>>
  BY <1>1
<1>3. IsSequence(<<e>>) /\ ToSet(<<e>>) = {e}
  BY SingleSequence
<1> QED BY <1>2, <1>3, ConcatSequences

LEMMA EmptyConcat ==
  ASSUME NEW s, IsSequence(s)
  PROVE  s \o <<>> = s /\ <<>> \o s = s
BY DEF IsSequence

LEMMA Associative ==
  ASSUME NEW s, NEW t, NEW u, IsSequence(s), IsSequence(t), IsSequence(u)
  PROVE  (s \o t) \o u = s \o (t \o u)
<1> DEFINE S == ToSet(s) \cup ToSet(t) \cup ToSet(u)
<1>1. s \in Seq(S) /\ t \in Seq(S) /\ u \in Seq(S)
  BY SeqMonotonic DEF IsSequence
<1> HIDE DEF S
<1> QED BY <1>1

LEMMA AppendConcat ==
  ASSUME NEW s, NEW t, NEW e, IsSequence(s), IsSequence(t)
  PROVE  Append(s \o t, e) = s \o Append(t, e)
<1>1. IsSequence(s \o t) /\ IsSequence(<<e>>)
  BY ConcatSequences, SingleSequence
<1>2. Append(s \o t, e) = (s \o t) \o <<e>> /\ Append(t, e) = t \o <<e>>
  BY <1>1, AppendSequence
<1>3. (s \o t) \o <<e>> = s \o (t \o <<e>>)
  BY <1>1, Associative
<1> QED BY <1>2, <1>3

-----------------------------------------------------------------------------
(* FoldLeft, by the values it has after each member                        *)

LEMMA GreatestNumber ==
  ASSUME NEW n \in Nat, NEW s \in SUBSET (1..n), s # {}
  PROVE  /\ Max(s) \in s /\ \A y \in s : Max(s) >= y
         /\ s \ {Max(s)} \in SUBSET (1..n - 1)
<1> DEFINE T == {k \in Nat : \E x \in s : k = n - x}
<1>1. T \in SUBSET Nat /\ T # {}
  <2>1. PICK x \in s : TRUE
    OBVIOUS
  <2>2. n - x \in T
    BY <2>1
  <2> QED BY <2>2
<1>2. PICK k \in T : \A m \in T : k <= m
  BY <1>1, LeastNumber
<1>3. PICK x \in s : k = n - x
  BY <1>2
<1>4. \A y \in s : x >= y
  <2> TAKE y \in s
  <2>1. n - y \in T
    OBVIOUS
  <2> QED BY <1>2, <1>3, <2>1
<1> HIDE DEF T
<1>5. Max(s) \in s /\ \A y \in s : Max(s) >= y
  BY <1>3, <1>4 DEF Max
<1>6. ASSUME NEW y \in s \ {Max(s)} PROVE y \in 1..n - 1
  <2> DEFINE m == Max(s)
  <2>1. m \in 1..n /\ y \in 1..n /\ m >= y /\ m # y
    BY <1>5
  <2> HIDE DEF m
  <2> QED BY <2>1
<1> QED BY <1>5, <1>6

LEMMA GreatestOfRange ==
  ASSUME NEW n \in Nat, n # 0
  PROVE  Max(1..n) = n /\ (1..n) \ {n} = 1..n - 1
<1>1. n \in 1..n /\ \A y \in 1..n : n >= y
  OBVIOUS
<1>2. \A x \in 1..n : (\A y \in 1..n : x >= y) => x = n
  BY <1>1
<1>3. Max(1..n) = n
  BY <1>1, <1>2 DEF Max
<1> QED BY <1>3

\* The function that a fold looks up its value in
Reads(g, s, text, n) ==
  g = [i \in SUBSET (1..n) |-> IF i = {} THEN s ELSE Read(g[i \ {Max(i)}], text[Max(i)])]

LEMMA ReadsExists ==
  ASSUME NEW s, NEW text
  PROVE  \A n \in Nat : \E g : Reads(g, s, text, n)
<1> DEFINE T == {n \in Nat : \E g : Reads(g, s, text, n)}
<1>1. 0 \in T
  <2> DEFINE g == [i \in SUBSET (1..0) |-> s]
  <2>1. \A i \in SUBSET (1..0) : i = {}
    OBVIOUS
  <2>2. Reads(g, s, text, 0)
    BY <2>1 DEF Reads
  <2> QED BY <2>2
<1>2. ASSUME NEW n \in Nat, n \in T PROVE n + 1 \in T
  <2>1. PICK g : Reads(g, s, text, n)
    BY <1>2
  <2> DEFINE h == [i \in SUBSET (1..n + 1) |-> IF i = {} THEN s ELSE Read(g[i \ {Max(i)}], text[Max(i)])]
  <2>2. \A i \in SUBSET (1..n) : h[i] = g[i]
    <3> TAKE i \in SUBSET (1..n)
    <3>1. g[i] = IF i = {} THEN s ELSE Read(g[i \ {Max(i)}], text[Max(i)])
      BY <2>1, Zenon DEF Reads
    <3>2. i \in SUBSET (1..n + 1)
      OBVIOUS
    <3> QED BY <3>1, <3>2, Zenon
  <2>3. \A i \in SUBSET (1..n + 1) : i # {} => i \ {Max(i)} \in SUBSET (1..n)
    <3> TAKE i \in SUBSET (1..n + 1)
    <3>1. n + 1 \in Nat /\ (n + 1) - 1 = n
      OBVIOUS
    <3> QED BY <3>1, GreatestNumber
  <2>4. \A i \in SUBSET (1..n + 1) : i # {} => h[i \ {Max(i)}] = g[i \ {Max(i)}]
    BY <2>2, <2>3, Zenon
  <2>5. Reads(h, s, text, n + 1)
    BY <2>4, Zenon DEF Reads
  <2> QED BY <2>5
<1> QED BY <1>1, <1>2, Induction

\* g[i] is the state after i characters of the text
Trace(g, s, text) ==
  /\ g[0] = s /\ Scan(s, text) = g[Len(text)]
  /\ \A i \in 1..Len(text) : g[i] = Read(g[i - 1], text[i])

\* Words are read one character after the other
LEMMA ScanIs ==
  ASSUME NEW s, NEW text, IsSequence(text)
  PROVE  \E g : Trace(g, s, text)
<1> DEFINE n == Len(text)
           it == CHOOSE g : g = [i \in SUBSET (1..n) |->
                                  IF i = {} THEN s ELSE Read(g[i \ {Max(i)}], text[Max(i)])]
           h == [i \in 0..n |-> it[1..i]]
<1>1. n \in Nat /\ DOMAIN text = 1..n
  BY Positioned
<1>2. Reads(it, s, text, n)
  <2>1. \E g : Reads(g, s, text, n)
    BY <1>1, ReadsExists
  <2> QED BY <2>1, Zenon DEF Reads
<1>3. Scan(s, text) = it[1..n]
  <2>1. Scan(s, text) =
          (CHOOSE g : g = [i \in SUBSET DOMAIN text |->
             IF i = {} THEN s ELSE Read(g[i \ {Max(i)}], text[Max(i)])])[DOMAIN text]
    BY Zenon DEF Scan, FoldLeft, MapThenFoldSet
  <2> QED BY <1>1, <2>1, Zenon
<1> HIDE DEF it
<1>4. \A i \in SUBSET (1..n) : it[i] = IF i = {} THEN s ELSE Read(it[i \ {Max(i)}], text[Max(i)])
  BY <1>2, Zenon DEF Reads
<1> HIDE DEF n
<1>5. h[0] = s
  <2>1. 1..0 = {} /\ 0 \in 0..n
    BY <1>1
  <2> QED BY <1>4, <2>1
<1>6. ASSUME NEW i \in 1..n PROVE h[i] = Read(h[i - 1], text[i])
  <2>1. i \in Nat /\ i # 0 /\ i <= n /\ i \in 0..n /\ i - 1 \in 0..n /\ i \in 1..i
    BY <1>1
  <2>2. Max(1..i) = i /\ (1..i) \ {i} = 1..i - 1
    BY <2>1, GreatestOfRange
  <2>3. 1..i \in SUBSET (1..n) /\ 1..i # {}
    <3>1. \A x \in 1..i : x \in 1..n
      BY <1>1, <2>1
    <3> QED BY <2>1, <3>1
  <2>4. it[1..i] = Read(it[1..i - 1], text[i])
    BY <1>4, <2>2, <2>3
  <2> QED BY <2>1, <2>4
<1>7. h[n] = it[1..n]
  BY <1>1
<1> HIDE DEF h
<1>8. Trace(h, s, text)
  BY <1>3, <1>5, <1>6, <1>7 DEF n, Trace
<1> QED BY <1>8

LEMMA ScanUnique ==
  ASSUME NEW s, NEW text, IsSequence(text), NEW h, h[0] = s,
         \A i \in 1..Len(text) : h[i] = Read(h[i - 1], text[i])
  PROVE  Scan(s, text) = h[Len(text)]
<1>1. PICK g : Trace(g, s, text)
  BY ScanIs
<1> DEFINE n == Len(text)
           T == {i \in Nat : i \in 0..n => g[i] = h[i]}
<1>2. n \in Nat
  BY Positioned
<1> HIDE DEF n
<1>3. 0 \in T
  BY <1>1 DEF Trace
<1>4. ASSUME NEW i \in Nat, i \in T PROVE i + 1 \in T
  <2> SUFFICES ASSUME i + 1 \in 0..n PROVE g[i + 1] = h[i + 1]
    OBVIOUS
  <2>1. g[i] = h[i] /\ i + 1 \in 1..n /\ (i + 1) - 1 = i
    BY <1>2, <1>4
  <2>2. g[i + 1] = Read(g[i], text[i + 1]) /\ h[i + 1] = Read(h[i], text[i + 1])
    BY <1>1, <2>1 DEF n, Trace
  <2> QED BY <2>1, <2>2
<1>5. Nat \subseteq T
  BY <1>3, <1>4, Induction
<1>6. n \in T /\ n \in 0..n
  BY <1>2, <1>5
<1> QED BY <1>1, <1>6 DEF n, Trace

LEMMA ScanShort ==
  ASSUME NEW s, NEW c
  PROVE  Scan(s, <<>>) = s /\ Scan(s, <<c>>) = Read(s, c)
<1>1. Scan(s, <<>>) = s
  <2> DEFINE h == [i \in 0..0 |-> s]
  <2>1. h[0] = s /\ Len(<<>>) = 0 /\ IsSequence(<<>>) /\ 1..Len(<<>>) = {}
    BY EmptySequence
  <2> HIDE DEF h
  <2> QED BY <2>1, ScanUnique
<1>2. Scan(s, <<c>>) = Read(s, c)
  <2> DEFINE h == [i \in 0..1 |-> IF i = 0 THEN s ELSE Read(s, c)]
  <2>1. h[0] = s /\ h[1] = Read(h[0], c)
    OBVIOUS
  <2>2. PICK t : t = <<c>>
    OBVIOUS
  <2>3. IsSequence(t) /\ Len(t) = 1 /\ t[1] = c /\ 1..Len(t) = {1}
    BY <2>2, SingleSequence
  <2> HIDE DEF h
  <2>4. \A i \in 1..Len(t) : h[i] = Read(h[i - 1], t[i])
    BY <2>1, <2>3
  <2>5. Scan(s, t) = h[Len(t)]
    BY <2>1, <2>3, <2>4, ScanUnique
  <2> QED BY <2>1, <2>2, <2>3, <2>5
<1> QED BY <1>1, <1>2

\* Reading goes on where it stopped
LEMMA ScanConcat ==
  ASSUME NEW s, NEW t, NEW u, IsSequence(t), IsSequence(u)
  PROVE  Scan(s, t \o u) = Scan(Scan(s, t), u)
<1> DEFINE n == Len(t)
           m == Len(u)
<1>1. PICK tu : tu = t \o u
  OBVIOUS
<1>2. /\ n \in Nat /\ m \in Nat /\ Len(tu) = n + m /\ IsSequence(tu)
      /\ \A i \in 1..n : tu[i] = t[i]
      /\ \A i \in 1..m : tu[n + i] = u[i]
  <2>1. IsSequence(tu)
    BY <1>1, ConcatSequences
  <2> QED BY <1>1, <2>1, Positioned, ConcatValues
<1> HIDE DEF n, m
<1>3. PICK g : /\ g[0] = s /\ Scan(s, tu) = g[n + m]
               /\ \A i \in 1..n + m : g[i] = Read(g[i - 1], tu[i])
  <2>1. \E g : Trace(g, s, tu)
    BY <1>2, ScanIs
  <2> QED BY <1>2, <2>1 DEF Trace
<1>4. Scan(s, t) = g[n]
  <2>1. \A i \in 1..n : i \in 1..n + m
    BY <1>2
  <2>2. \A i \in 1..n : g[i] = Read(g[i - 1], t[i])
    BY <1>2, <1>3, <2>1
  <2> QED BY <1>3, <2>2, ScanUnique DEF n
<1>5. Scan(g[n], u) = g[n + m]
  <2> DEFINE h == [i \in 0..m |-> g[n + i]]
  <2>1. \A i \in 1..m : h[i] = Read(h[i - 1], u[i])
    <3> TAKE i \in 1..m
    <3>1. n + i \in 1..n + m /\ (n + i) - 1 = n + (i - 1) /\ i \in 0..m /\ i - 1 \in 0..m
      BY <1>2
    <3>2. g[n + i] = Read(g[n + (i - 1)], tu[n + i]) /\ tu[n + i] = u[i]
      BY <1>2, <1>3, <3>1
    <3> QED BY <3>1, <3>2
  <2>2. h[0] = g[n] /\ h[m] = g[n + m]
    BY <1>2
  <2> HIDE DEF h
  <2> QED BY <2>1, <2>2, ScanUnique DEF m
<1> QED BY <1>1, <1>3, <1>4, <1>5

\* What holds of a state and survives each character of a text holds after it
LEMMA ScanKeeps ==
  ASSUME NEW text, IsSequence(text), NEW T, NEW s \in T,
         \A x \in T, c \in ToSet(text) : Read(x, c) \in T
  PROVE  Scan(s, text) \in T
<1>1. PICK g : Trace(g, s, text)
  BY ScanIs
<1> DEFINE n == Len(text)
           U == {i \in Nat : i \in 0..n => g[i] \in T}
<1>2. n \in Nat /\ \A i \in 1..n : text[i] \in ToSet(text)
  BY Positioned
<1>3. \A i \in 1..n : g[i] = Read(g[i - 1], text[i])
  BY <1>1 DEF Trace
<1> HIDE DEF n
<1>4. 0 \in U
  BY <1>1 DEF Trace
<1>5. ASSUME NEW i \in Nat, i \in U PROVE i + 1 \in U
  <2> SUFFICES ASSUME i + 1 \in 0..n PROVE g[i + 1] \in T
    OBVIOUS
  <2>1. g[i] \in T /\ i + 1 \in 1..n /\ (i + 1) - 1 = i
    BY <1>2, <1>5
  <2> QED BY <1>2, <1>3, <2>1
<1>6. Nat \subseteq U
  BY <1>4, <1>5, Induction
<1>7. n \in U /\ n \in 0..n
  BY <1>2, <1>6
<1> QED BY <1>1, <1>7 DEF n, Trace

-----------------------------------------------------------------------------
(* The words of a text                                                     *)

State(in, words, word) == [in |-> in, words |-> words, word |-> word]
IsState(s) ==
  /\ s = State(s.in, s.words, s.word)
  /\ s.in \in {"code", "literal", "comment"}
  /\ IsSequence(s.words) /\ IsSequence(s.word)
  /\ s.in = "comment" => s.word = <<>>

\* The state s, after the words W
After(W, s) == State(s.in, W \o s.words, s.word)
Closed(W) == State("code", W, <<>>)
Breaks == {SPACE, NL, COMMENT}

LEMMA Distinguished == /\ NL # SPACE /\ NL # QUOTE /\ NL # COMMENT
                       /\ SPACE # QUOTE /\ SPACE # COMMENT /\ QUOTE # COMMENT
BY DEF NL, SPACE, QUOTE, COMMENT

\* What a character does, in each of the states
LEMMA ReadIs ==
  ASSUME NEW in, NEW words, NEW word, NEW c
  PROVE  /\ in = "comment" =>
              Read(State(in, words, word), c) = State(IF c = NL THEN "code" ELSE in, words, word)
         /\ in = "literal" =>
              Read(State(in, words, word), c) = State(IF c = QUOTE THEN "code" ELSE in, words, Append(word, c))
         /\ in = "code" /\ c \in Breaks =>
              Read(State(in, words, word), c) =
                State(IF c = COMMENT THEN "comment" ELSE "code", EndOfWord(State(in, words, word)), <<>>)
         /\ in = "code" /\ c \notin Breaks =>
              Read(State(in, words, word), c) = State(IF c = QUOTE THEN "literal" ELSE in, words, Append(word, c))
<1> DEFINE s == State(in, words, word)
<1>1. s.in = in /\ s.words = words /\ s.word = word
  BY DEF State
<1>2. CASE in = "comment"
  <2>1. Read(s, c) = [s EXCEPT !.in = IF c = NL THEN "code" ELSE @]
    BY <1>1, <1>2 DEF Read
  <2> QED BY <1>2, <2>1 DEF State
<1>3. CASE in = "literal"
  <2>1. Read(s, c) = [s EXCEPT !.in = IF c = QUOTE THEN "code" ELSE @, !.word = Append(@, c)]
    BY <1>1, <1>3 DEF Read
  <2> QED BY <1>3, <2>1 DEF State
<1>4. CASE in = "code" /\ c \in Breaks
  BY <1>1, <1>4 DEF Read, Breaks, State
<1>5. CASE in = "code" /\ c \notin Breaks
  <2>1. Read(s, c) = [s EXCEPT !.in = IF c = QUOTE THEN "literal" ELSE @, !.word = Append(@, c)]
    BY <1>1, <1>5 DEF Read, Breaks
  <2> QED BY <1>5, <2>1 DEF State
<1> QED BY <1>2, <1>3, <1>4, <1>5

\* The end of a text ends its last word
LEMMA EndOfWordIs ==
  ASSUME NEW in, NEW words, NEW word, IsSequence(words)
  PROVE  /\ EndOfWord(State(in, words, word)) = IF word = <<>> THEN words ELSE Append(words, word)
         /\ IsSequence(EndOfWord(State(in, words, word)))
BY AppendSequence DEF EndOfWord, State

LEMMA ReadStates ==
  ASSUME NEW s, IsState(s), NEW c
  PROVE  IsState(Read(s, c))
<1>1. PICK in, words, word : in = s.in /\ words = s.words /\ word = s.word
  OBVIOUS
<1>2. s = State(in, words, word) /\ IsSequence(words) /\ IsSequence(word)
  BY <1>1 DEF IsState
<1>3. /\ IsSequence(EndOfWord(State(in, words, word))) /\ IsSequence(<<>>)
      /\ IsSequence(Append(word, c))
  BY <1>2, EndOfWordIs, AppendSequence, EmptySequence
<1>4. ASSUME NEW i \in {"code", "literal", "comment"}, NEW W, NEW w, IsSequence(W), IsSequence(w),
             i = "comment" => w = <<>>
      PROVE  IsState(State(i, W, w))
  BY <1>4 DEF IsState, State
<1>5. in \in {"code", "literal", "comment"} /\ (in = "comment" => word = <<>>)
  BY <1>1 DEF IsState
<1>6. CASE in = "comment"
  BY <1>2, <1>4, <1>5, <1>6, ReadIs
<1>7. CASE in = "literal"
  BY <1>2, <1>3, <1>4, <1>7, ReadIs
<1>8. CASE in = "code" /\ c \in Breaks
  BY <1>2, <1>3, <1>4, <1>8, ReadIs
<1>9. CASE in = "code" /\ c \notin Breaks
  BY <1>2, <1>3, <1>4, <1>9, ReadIs
<1> QED BY <1>5, <1>6, <1>7, <1>8, <1>9

\* Words before the ones that are read do not change how they are read
LEMMA ReadAfter ==
  ASSUME NEW W, IsSequence(W), NEW s, IsState(s), NEW c
  PROVE  /\ IsState(After(W, s))
         /\ Read(After(W, s), c) = After(W, Read(s, c))
         /\ EndOfWord(After(W, s)) = W \o EndOfWord(s)
<1>1. PICK in, words, word : in = s.in /\ words = s.words /\ word = s.word
  OBVIOUS
<1>2. s = State(in, words, word) /\ IsSequence(words) /\ IsSequence(word)
  BY <1>1 DEF IsState
<1>3. \A i, X, x : After(W, State(i, X, x)) = State(i, W \o X, x)
  BY DEF After, State
<1>4. IsSequence(W \o words)
  BY <1>2, ConcatSequences
<1>5. EndOfWord(State(in, W \o words, word)) = W \o EndOfWord(State(in, words, word))
  <2>1. Append(W \o words, word) = W \o Append(words, word)
    BY <1>2, AppendConcat
  <2>2. /\ EndOfWord(State(in, W \o words, word)) = IF word = <<>> THEN W \o words ELSE Append(W \o words, word)
        /\ EndOfWord(State(in, words, word)) = IF word = <<>> THEN words ELSE Append(words, word)
    BY <1>2, <1>4, EndOfWordIs
  <2> QED BY <2>1, <2>2, Zenon
<1>6. in \in {"code", "literal", "comment"} /\ (in = "comment" => word = <<>>)
  BY <1>1 DEF IsState
<1>7. Read(State(in, W \o words, word), c) = After(W, Read(State(in, words, word), c))
  <2>1. CASE in = "comment"
    <3>1. PICK i : i = IF c = NL THEN "code" ELSE in
      OBVIOUS
    <3>2. Read(State(in, words, word), c) = State(i, words, word)
      BY <2>1, <3>1, ReadIs
    <3>3. Read(State(in, W \o words, word), c) = State(i, W \o words, word)
      BY <2>1, <3>1, ReadIs
    <3> QED BY <1>3, <3>2, <3>3
  <2>2. CASE in = "literal"
    <3>1. PICK i : i = IF c = QUOTE THEN "code" ELSE in
      OBVIOUS
    <3>2. Read(State(in, words, word), c) = State(i, words, Append(word, c))
      BY <2>2, <3>1, ReadIs
    <3>3. Read(State(in, W \o words, word), c) = State(i, W \o words, Append(word, c))
      BY <2>2, <3>1, ReadIs
    <3> QED BY <1>3, <3>2, <3>3
  <2>3. CASE in = "code" /\ c \in Breaks
    <3>1. PICK i : i = IF c = COMMENT THEN "comment" ELSE "code"
      OBVIOUS
    <3>2. Read(State(in, words, word), c) = State(i, EndOfWord(State(in, words, word)), <<>>)
      BY <2>3, <3>1, ReadIs
    <3>3. Read(State(in, W \o words, word), c) = State(i, EndOfWord(State(in, W \o words, word)), <<>>)
      BY <2>3, <3>1, ReadIs
    <3> QED BY <1>3, <1>5, <3>2, <3>3
  <2>4. CASE in = "code" /\ c \notin Breaks
    <3>1. PICK i : i = IF c = QUOTE THEN "literal" ELSE in
      OBVIOUS
    <3>2. Read(State(in, words, word), c) = State(i, words, Append(word, c))
      BY <2>4, <3>1, ReadIs
    <3>3. Read(State(in, W \o words, word), c) = State(i, W \o words, Append(word, c))
      BY <2>4, <3>1, ReadIs
    <3> QED BY <1>3, <3>2, <3>3
  <2> QED BY <1>6, <2>1, <2>2, <2>3, <2>4
<1>8. IsState(State(in, W \o words, word))
  BY <1>2, <1>4, <1>6 DEF IsState, State
<1> QED BY <1>2, <1>3, <1>5, <1>7, <1>8

LEMMA ScanStates ==
  ASSUME NEW s, IsState(s), NEW text, IsSequence(text)
  PROVE  IsState(Scan(s, text))
<1>1. PICK g : Trace(g, s, text)
  BY ScanIs
<1> DEFINE n == Len(text)
           U == {i \in Nat : i \in 0..n => IsState(g[i])}
<1>2. n \in Nat /\ \A i \in 1..n : g[i] = Read(g[i - 1], text[i])
  BY <1>1, Positioned DEF Trace
<1> HIDE DEF n
<1>3. 0 \in U
  BY <1>1 DEF Trace
<1>4. ASSUME NEW i \in Nat, i \in U PROVE i + 1 \in U
  <2> SUFFICES ASSUME i + 1 \in 0..n PROVE IsState(g[i + 1])
    OBVIOUS
  <2>1. IsState(g[i]) /\ i + 1 \in 1..n /\ (i + 1) - 1 = i
    BY <1>2, <1>4
  <2>2. IsState(Read(g[i], text[i + 1]))
    BY <2>1, ReadStates
  <2> QED BY <1>2, <2>1, <2>2
<1>5. Nat \subseteq U
  BY <1>3, <1>4, Induction
<1>6. n \in U /\ n \in 0..n
  BY <1>2, <1>5
<1> QED BY <1>1, <1>6 DEF n, Trace

\* What was read before a text only precedes its words
LEMMA ScanAfter ==
  ASSUME NEW W, IsSequence(W), NEW s, IsState(s), NEW text, IsSequence(text)
  PROVE  Scan(After(W, s), text) = After(W, Scan(s, text))
<1>1. PICK g : Trace(g, s, text)
  BY ScanIs
<1> DEFINE n == Len(text)
           U == {i \in Nat : i \in 0..n => IsState(g[i])}
           h == [i \in 0..n |-> After(W, g[i])]
<1>2. n \in Nat /\ \A i \in 1..n : g[i] = Read(g[i - 1], text[i])
  BY <1>1, Positioned DEF Trace
<1> HIDE DEF n
<1>3. 0 \in U
  BY <1>1 DEF Trace
<1>4. ASSUME NEW i \in Nat, i \in U PROVE i + 1 \in U
  <2> SUFFICES ASSUME i + 1 \in 0..n PROVE IsState(g[i + 1])
    OBVIOUS
  <2>1. IsState(g[i]) /\ i + 1 \in 1..n /\ (i + 1) - 1 = i
    BY <1>2, <1>4
  <2>2. IsState(Read(g[i], text[i + 1]))
    BY <2>1, ReadStates
  <2> QED BY <1>2, <2>1, <2>2
<1>5. Nat \subseteq U
  BY <1>3, <1>4, Induction
<1>6. ASSUME NEW i \in 1..n PROVE h[i] = Read(h[i - 1], text[i])
  <2>1. i \in 0..n /\ i - 1 \in 0..n /\ i - 1 \in U
    BY <1>2, <1>5
  <2>2. Read(After(W, g[i - 1]), text[i]) = After(W, Read(g[i - 1], text[i]))
    BY <2>1, ReadAfter
  <2> QED BY <1>2, <2>1, <2>2
<1>7. h[0] = After(W, s) /\ h[n] = After(W, g[n])
  BY <1>1, <1>2 DEF Trace
<1> HIDE DEF h
<1>8. Scan(After(W, s), text) = h[n]
  BY <1>6, <1>7, ScanUnique DEF n
<1> QED BY <1>1, <1>7, <1>8 DEF n, Trace

\* Whether a text ends in a comment or in a literal does not depend on the words
LEMMA ScanMode ==
  ASSUME NEW r, IsState(r), NEW s, IsState(s), r.in = s.in, NEW text, IsSequence(text)
  PROVE  Scan(r, text).in = Scan(s, text).in
<1>1. PICK g : Trace(g, r, text)
  BY ScanIs
<1>2. PICK h : Trace(h, s, text)
  BY ScanIs
<1> DEFINE n == Len(text)
           U == {i \in Nat : i \in 0..n => IsState(g[i]) /\ IsState(h[i]) /\ g[i].in = h[i].in}
<1>3. n \in Nat /\ \A i \in 1..n : g[i] = Read(g[i - 1], text[i]) /\ h[i] = Read(h[i - 1], text[i])
  BY <1>1, <1>2, Positioned DEF Trace
<1> HIDE DEF n
<1>4. 0 \in U
  BY <1>1, <1>2 DEF Trace
<1>5. ASSUME NEW x, IsState(x), NEW y, IsState(y), x.in = y.in, NEW c
      PROVE  Read(x, c).in = Read(y, c).in
  <2>1. PICK in : in = x.in
    OBVIOUS
  <2>2. x = State(in, x.words, x.word) /\ y = State(in, y.words, y.word)
        /\ in \in {"code", "literal", "comment"}
    BY <1>5, <2>1 DEF IsState
  <2>3. \A i, W, w : State(i, W, w).in = i
    BY DEF State
  <2>4. CASE in = "comment"
    BY <2>2, <2>3, <2>4, ReadIs
  <2>5. CASE in = "literal"
    BY <2>2, <2>3, <2>5, ReadIs
  <2>6. CASE in = "code" /\ c \in Breaks
    BY <2>2, <2>3, <2>6, ReadIs
  <2>7. CASE in = "code" /\ c \notin Breaks
    BY <2>2, <2>3, <2>7, ReadIs
  <2> QED BY <2>2, <2>4, <2>5, <2>6, <2>7
<1>6. ASSUME NEW i \in Nat, i \in U PROVE i + 1 \in U
  <2> SUFFICES ASSUME i + 1 \in 0..n
               PROVE  IsState(g[i + 1]) /\ IsState(h[i + 1]) /\ g[i + 1].in = h[i + 1].in
    OBVIOUS
  <2>1. IsState(g[i]) /\ IsState(h[i]) /\ g[i].in = h[i].in /\ i + 1 \in 1..n /\ (i + 1) - 1 = i
    BY <1>3, <1>6
  <2>2. /\ IsState(Read(g[i], text[i + 1])) /\ IsState(Read(h[i], text[i + 1]))
        /\ Read(g[i], text[i + 1]).in = Read(h[i], text[i + 1]).in
    BY <1>5, <2>1, ReadStates
  <2> QED BY <1>3, <2>1, <2>2
<1>7. Nat \subseteq U
  BY <1>4, <1>6, Induction
<1>8. n \in U /\ n \in 0..n
  BY <1>3, <1>7
<1> QED BY <1>1, <1>2, <1>8 DEF n, Trace

\* White space between words adds none
LEMMA ScanBlank ==
  ASSUME NEW W, IsSequence(W), NEW text, IsSequence(text), ToSet(text) \subseteq {SPACE, NL}
  PROVE  Scan(Closed(W), text) = Closed(W)
<1>1. ASSUME NEW c \in {SPACE, NL} PROVE Read(Closed(W), c) = Closed(W)
  <2>1. c \in Breaks /\ c # COMMENT
    BY Distinguished DEF Breaks
  <2>2. EndOfWord(State("code", W, <<>>)) = W
    BY EndOfWordIs
  <2> QED BY <2>1, <2>2, ReadIs DEF Closed
<1>2. \A x \in {Closed(W)}, c \in ToSet(text) : Read(x, c) \in {Closed(W)}
  BY <1>1
<1>3. Scan(Closed(W), text) \in {Closed(W)}
  BY <1>2, ScanKeeps
<1> QED BY <1>3

\* Spaces at the end of a line end a word, and nothing else
LEMMA ScanSpaces ==
  ASSUME NEW s, IsState(s), NEW text, IsSequence(text), ToSet(text) \subseteq {SPACE}
  PROVE  /\ Scan(s, text).in = s.in
         /\ s.in # "literal" => EndOfWord(Scan(s, text)) = EndOfWord(s)
<1>1. PICK in, words, word : in = s.in /\ words = s.words /\ word = s.word
  OBVIOUS
<1>2. /\ s = State(in, words, word) /\ IsSequence(words) /\ IsSequence(word)
      /\ in \in {"code", "literal", "comment"} /\ (in = "comment" => word = <<>>)
  BY <1>1 DEF IsState
<1>3. \A i, W, w : State(i, W, w).in = i
  BY DEF State
<1>4. SPACE \in Breaks /\ SPACE # COMMENT /\ SPACE # QUOTE /\ SPACE # NL
  BY Distinguished DEF Breaks
<1>5. CASE in = "comment"
  <2>1. \A x \in {s}, c \in ToSet(text) : Read(x, c) \in {s}
    BY <1>2, <1>4, <1>5, ReadIs
  <2>2. Scan(s, text) \in {s}
    BY <2>1, ScanKeeps
  <2> QED BY <2>2
<1>6. CASE in = "literal"
  <2> DEFINE S == ToSet(word) \cup {SPACE}
             T == {State("literal", words, w) : w \in Seq(S)}
  <2>1. word \in Seq(S)
    BY <1>2, SeqMonotonic DEF IsSequence
  <2>2. ASSUME NEW x \in T, NEW c \in ToSet(text) PROVE Read(x, c) \in T
    <3>1. PICK w \in Seq(S) : x = State("literal", words, w)
      OBVIOUS
    <3>2. c = SPACE /\ Append(w, c) \in Seq(S)
      OBVIOUS
    <3>3. Read(x, c) = State("literal", words, Append(w, c))
      BY <1>4, <3>1, <3>2, ReadIs
    <3> QED BY <3>2, <3>3
  <2>3. Scan(s, text) \in T
    <3>1. s \in T
      BY <1>2, <1>6, <2>1
    <3> HIDE DEF T
    <3> QED BY <2>2, <3>1, ScanKeeps
  <2> QED BY <1>1, <1>3, <1>6, <2>3
<1>7. CASE in = "code"
  <2> DEFINE E == EndOfWord(s)
             T == {s, Closed(E)}
  <2>1. IsSequence(E)
    BY <1>2, EndOfWordIs
  <2>2. EndOfWord(Closed(E)) = E /\ Closed(E).in = "code"
    BY <1>3, <2>1, EndOfWordIs DEF Closed
  <2>3. Read(s, SPACE) = Closed(E)
    BY <1>2, <1>4, <1>7, ReadIs DEF Closed
  <2>4. Read(Closed(E), SPACE) = Closed(E)
    BY <1>4, <2>2, ReadIs DEF Closed
  <2> HIDE DEF E
  <2>5. \A x \in T, c \in ToSet(text) : Read(x, c) \in T
    BY <2>3, <2>4
  <2>6. Scan(s, text) \in T
    <3>1. s \in T
      OBVIOUS
    <3> HIDE DEF T
    <3> QED BY <2>5, <3>1, ScanKeeps
  <2> QED BY <1>1, <1>7, <2>2, <2>6 DEF E
<1> QED BY <1>2, <1>5, <1>6, <1>7

\* After the words V, the text t adds the words W, each of which is ended
Adds(t, W) ==
  /\ IsSequence(t) /\ IsSequence(W)
  /\ \A V : IsSequence(V) => Scan(Closed(V), t) = Closed(V \o W)

LEMMA ClosedIs ==
  ASSUME NEW V, IsSequence(V)
  PROVE  /\ IsState(Closed(V)) /\ Closed(V) = After(V, Start) /\ EndOfWord(Closed(V)) = V
         /\ Start = Closed(<<>>) /\ Closed(V).in = "code" /\ Closed(V).words = V
         /\ \A E : After(V, Closed(E)) = Closed(V \o E)
<1>1. Start = Closed(<<>>) /\ Closed(V).in = "code" /\ Closed(V).words = V
  BY DEF Start, Closed, State
<1>2. EndOfWord(Closed(V)) = V
  BY EndOfWordIs DEF Closed
<1>3. IsState(Closed(V))
  BY EmptySequence DEF Closed, IsState, State
<1>4. \A E : After(V, Closed(E)) = Closed(V \o E)
  BY DEF After, Closed, State
<1>5. V \o <<>> = V
  BY EmptyConcat
<1>6. After(V, Start) = Closed(V)
  BY <1>1, <1>4, <1>5
<1> QED BY <1>1, <1>2, <1>3, <1>4, <1>6

\* Texts that start and end between words add up
LEMMA AddsConcat ==
  ASSUME NEW t, NEW W, Adds(t, W), NEW u, NEW X, Adds(u, X)
  PROVE  Adds(t \o u, W \o X)
<1>1. IsSequence(t) /\ IsSequence(u) /\ IsSequence(W) /\ IsSequence(X)
  BY DEF Adds
<1>2. IsSequence(t \o u) /\ IsSequence(W \o X)
  BY <1>1, ConcatSequences
<1>3. ASSUME NEW V, IsSequence(V) PROVE Scan(Closed(V), t \o u) = Closed(V \o (W \o X))
  <2>1. IsSequence(V \o W) /\ (V \o W) \o X = V \o (W \o X)
    BY <1>1, <1>3, ConcatSequences, Associative
  <2>2. Scan(Closed(V), t) = Closed(V \o W)
    BY <1>3 DEF Adds
  <2>3. Scan(Closed(V \o W), u) = Closed((V \o W) \o X)
    BY <2>1 DEF Adds
  <2>4. Scan(Closed(V), t \o u) = Scan(Scan(Closed(V), t), u)
    BY <1>1, ScanConcat
  <2> QED BY <2>1, <2>2, <2>3, <2>4
<1> QED BY <1>2, <1>3 DEF Adds

LEMMA AddsBlank ==
  ASSUME NEW t, IsSequence(t), ToSet(t) \subseteq {SPACE, NL}
  PROVE  Adds(t, <<>>)
<1>1. ASSUME NEW V, IsSequence(V) PROVE Scan(Closed(V), t) = Closed(V \o <<>>)
  BY <1>1, ScanBlank, EmptyConcat
<1> QED BY <1>1, EmptySequence DEF Adds

LEMMA LengthZero ==
  ASSUME NEW s, IsSequence(s), Len(s) = 0
  PROVE  s = <<>>
<1>1. \A S : \A t \in Seq(S) : t # <<>> => Len(t) \in Nat \ {0}
  BY EmptySeq
<1>2. s \in Seq(ToSet(s))
  BY DEF IsSequence
<1> QED BY <1>1, <1>2

LEMMA AddsFlatten ==
  ASSUME NEW P, IsSequence(P), NEW V, IsSequence(V), Len(P) = Len(V),
         \A k \in 1..Len(P) : Adds(P[k], V[k])
  PROVE  Adds(FlattenSeq(P), FlattenSeq(V))
<1> DEFINE n == Len(P)
<1>1. n \in Nat /\ n = Len(V)
  BY Positioned
<1>2. PICK g : /\ n = 0 => FlattenSeq(P) = P
               /\ n # 0 => FlattenSeq(P) = g[n] /\ g[1] = P[1]
               /\ \A i \in 1..n : i # 1 => g[i] = g[i - 1] \o P[i]
  BY <1>1, FlattenIs
<1>3. PICK h : /\ n = 0 => FlattenSeq(V) = V
               /\ n # 0 => FlattenSeq(V) = h[n] /\ h[1] = V[1]
               /\ \A i \in 1..n : i # 1 => h[i] = h[i - 1] \o V[i]
  BY <1>1, FlattenIs
<1>4. CASE n = 0
  <2>1. P = <<>> /\ V = <<>>
    BY <1>1, <1>4, LengthZero
  <2>2. Adds(<<>>, <<>>)
    BY AddsBlank, EmptySequence
  <2> QED BY <1>2, <1>3, <1>4, <2>1, <2>2
<1>5. CASE n # 0
  <2> DEFINE U == {i \in Nat : i \in 1..n => Adds(g[i], h[i])}
  <2>1. \A k \in 1..n : Adds(P[k], V[k])
    OBVIOUS
  <2> HIDE DEF n
  <2>2. 0 \in U
    OBVIOUS
  <2>3. ASSUME NEW i \in Nat, i \in U PROVE i + 1 \in U
    <3> SUFFICES ASSUME i + 1 \in 1..n PROVE Adds(g[i + 1], h[i + 1])
      OBVIOUS
    <3>1. CASE i = 0
      <4>1. g[1] = P[1] /\ h[1] = V[1] /\ 1 \in 1..n
        BY <1>2, <1>3, <1>5, <3>1
      <4> QED BY <2>1, <3>1, <4>1
    <3>2. CASE i # 0
      <4>1. i \in 1..n /\ i + 1 # 1 /\ (i + 1) - 1 = i
        BY <1>1, <3>2
      <4>2. g[i + 1] = g[i] \o P[i + 1] /\ h[i + 1] = h[i] \o V[i + 1]
        BY <1>2, <1>3, <4>1
      <4>3. Adds(g[i], h[i]) /\ Adds(P[i + 1], V[i + 1])
        BY <2>1, <2>3, <4>1
      <4>4. Adds(g[i] \o P[i + 1], h[i] \o V[i + 1])
        BY <4>3, AddsConcat
      <4> QED BY <4>2, <4>4
    <3> QED BY <3>1, <3>2
  <2>4. Nat \subseteq U
    BY <2>2, <2>3, Induction
  <2>5. n \in U /\ n \in 1..n
    BY <1>1, <1>5, <2>4
  <2> QED BY <1>2, <1>3, <1>5, <2>5
<1> QED BY <1>4, <1>5

\* A text that does not end inside a literal adds its words when its line ends,
\* and one that ends in code when a space follows
LEMMA AddsLine ==
  ASSUME NEW l, IsSequence(l), NEW c,
         (c = NL /\ Words(l).in # "literal") \/ (c = SPACE /\ Words(l).in = "code")
  PROVE  Adds(l \o <<c>>, Words(l).words)
<1> DEFINE s == Scan(Start, l)
           E == EndOfWord(s)
<1>1. Words(l).in = s.in /\ Words(l).words = E
  BY DEF Words
<1>2. IsState(s)
  <2>1. IsState(Start)
    BY ClosedIs, EmptySequence
  <2> QED BY <2>1, ScanStates
<1> HIDE DEF s
<1>3. PICK in, words, word : in = s.in /\ words = s.words /\ word = s.word
  OBVIOUS
<1>4. /\ s = State(in, words, word) /\ IsSequence(words)
      /\ in \in {"code", "literal", "comment"} /\ (in = "comment" => word = <<>>)
  BY <1>2, <1>3 DEF IsState
<1>5. c \in Breaks /\ c # COMMENT
  BY Distinguished DEF Breaks
<1>6. Read(s, c) = Closed(E) /\ IsSequence(E)
  <2>1. CASE in = "code"
    BY <1>4, <1>5, <2>1, ReadIs, EndOfWordIs DEF Closed
  <2>2. CASE in = "comment"
    <3>1. c = NL
      BY <1>1, <1>3, <2>2
    <3>2. E = words
      BY <1>4, <2>2, EndOfWordIs
    <3> QED BY <1>4, <2>2, <3>1, <3>2, ReadIs DEF Closed
  <2> QED BY <1>1, <1>3, <1>4, <2>1, <2>2
<1> HIDE DEF E
<1>7. ASSUME NEW V, IsSequence(V) PROVE Scan(Closed(V), l \o <<c>>) = Closed(V \o E)
  <2>1. Scan(Closed(V), l \o <<c>>) = Scan(Scan(Closed(V), l), <<c>>)
    BY ScanConcat, SingleSequence
  <2>2. Scan(Closed(V), l) = After(V, s)
    <3>1. Closed(V) = After(V, Start) /\ IsState(Start)
      BY <1>7, ClosedIs, EmptySequence
    <3> QED BY <1>7, <3>1, ScanAfter DEF s
  <2>3. Scan(After(V, s), <<c>>) = Read(After(V, s), c)
    BY ScanShort
  <2>4. Read(After(V, s), c) = After(V, Read(s, c))
    BY <1>2, <1>7, ReadAfter
  <2> QED BY <1>6, <1>7, <2>1, <2>2, <2>3, <2>4, ClosedIs
<1>8. IsSequence(l \o <<c>>)
  BY SingleSequence, ConcatSequences
<1> QED BY <1>1, <1>6, <1>7, <1>8 DEF Adds

\* The words a text adds are its words
LEMMA AddsWords ==
  ASSUME NEW t, IsSequence(t), NEW W, Adds(t, W) \/ Adds(t \o <<NL>>, W)
  PROVE  Words(t).words = W
<1> DEFINE s == Scan(Start, t)
<1>1. Words(t).words = EndOfWord(s) /\ IsSequence(W)
  BY DEF Words, Adds
<1>2. Start = Closed(<<>>) /\ IsState(Start) /\ <<>> \o W = W /\ IsSequence(<<>>)
  BY <1>1, ClosedIs, EmptySequence, EmptyConcat
<1>3. CASE Adds(t, W)
  <2>1. s = Closed(W)
    BY <1>2, <1>3 DEF Adds
  <2> QED BY <1>1, <2>1, ClosedIs
<1>4. CASE Adds(t \o <<NL>>, W)
  <2>1. Read(s, NL) = Closed(W)
    <3>1. Scan(Start, t \o <<NL>>) = Scan(s, <<NL>>)
      BY ScanConcat, SingleSequence
    <3>2. Scan(s, <<NL>>) = Read(s, NL)
      BY ScanShort
    <3> QED BY <1>2, <1>4, <3>1, <3>2 DEF Adds
  <2>2. IsState(s)
    BY <1>2, ScanStates
  <2> HIDE DEF s
  <2>3. PICK in, words, word : in = s.in /\ words = s.words /\ word = s.word
    OBVIOUS
  <2>4. /\ s = State(in, words, word) /\ IsSequence(words)
        /\ in \in {"code", "literal", "comment"} /\ (in = "comment" => word = <<>>)
    BY <2>2, <2>3 DEF IsState
  <2>5. NL \in Breaks /\ NL # COMMENT /\ NL # QUOTE
    BY Distinguished DEF Breaks
  <2>6. Closed(W).in = "code" /\ Closed(W).words = W /\ \A i, X, x : State(i, X, x).in = i /\ State(i, X, x).words = X
    BY <1>1, ClosedIs DEF State
  <2>7. CASE in = "code"
    <3>1. Read(s, NL) = State("code", EndOfWord(s), <<>>)
      BY <2>4, <2>5, <2>7, ReadIs
    <3> QED BY <1>1, <2>1, <2>6, <3>1
  <2>8. CASE in = "comment"
    <3>1. Read(s, NL) = State("code", words, word) /\ EndOfWord(s) = words
      BY <2>4, <2>5, <2>8, ReadIs, EndOfWordIs
    <3> QED BY <1>1, <2>1, <2>6, <3>1
  <2>9. CASE in = "literal"
    <3>1. Read(s, NL) = State("literal", words, Append(word, NL))
      BY <2>4, <2>5, <2>9, ReadIs
    <3> QED BY <2>1, <2>6, <3>1
  <2> QED BY <2>4, <2>7, <2>8, <2>9
<1> QED BY <1>3, <1>4

\* Sequences are the same when their members are
LEMMA SameSequence ==
  ASSUME NEW s, NEW t, IsSequence(s), IsSequence(t), Len(s) = Len(t), \A i \in 1..Len(s) : s[i] = t[i]
  PROVE  s = t
<1> DEFINE S == ToSet(s) \cup ToSet(t)
<1>1. s \in Seq(S) /\ t \in Seq(S)
  BY SeqMonotonic DEF IsSequence
<1> HIDE DEF S
<1> QED BY <1>1, SeqEqual

\* A sequence is a concatenation when its members say so
LEMMA ConcatIs ==
  ASSUME NEW r, NEW s, NEW t, IsSequence(r), IsSequence(s), IsSequence(t), Len(r) = Len(s) + Len(t),
         \A i \in 1..Len(s) : r[i] = s[i], \A i \in 1..Len(t) : r[Len(s) + i] = t[i]
  PROVE  r = s \o t
<1>1. PICK st : st = s \o t
  OBVIOUS
<1>2. /\ IsSequence(st) /\ Len(st) = Len(s) + Len(t) /\ Len(s) \in Nat /\ Len(t) \in Nat
      /\ \A i \in 1..Len(s) : st[i] = s[i]
      /\ \A i \in 1..Len(t) : st[Len(s) + i] = t[i]
  <2>1. IsSequence(s \o t)
    BY ConcatSequences
  <2> QED BY <1>1, <2>1, ConcatValues, Positioned
<1>3. \A i \in 1..Len(r) : r[i] = st[i]
  <2> TAKE i \in 1..Len(r)
  <2>1. CASE i \in 1..Len(s)
    BY <1>2, <2>1
  <2>2. CASE i \notin 1..Len(s)
    <3>1. i - Len(s) \in 1..Len(t) /\ Len(s) + (i - Len(s)) = i
      BY <1>2, <2>2
    <3> QED BY <1>2, <3>1
  <2> QED BY <2>1, <2>2
<1>4. r = st
  BY <1>2, <1>3, SameSequence
<1> QED BY <1>1, <1>4

-----------------------------------------------------------------------------
(* FlattenSeq, by the sequences that are put together                      *)

Sequences(P) == IsSequence(P) /\ \A p \in ToSet(P) : IsSequence(p)

LEMMA FlattenSequence ==
  ASSUME NEW P, Sequences(P)
  PROVE  /\ IsSequence(FlattenSeq(P))
         /\ ToSet(FlattenSeq(P)) = UNION {ToSet(P[k]) : k \in DOMAIN P}
<1> DEFINE S == UNION {ToSet(p) : p \in ToSet(P)}
<1>1. ASSUME NEW p \in ToSet(P) PROVE p \in Seq(S)
  <2>1. p \in Seq(ToSet(p)) /\ ToSet(p) \subseteq S
    BY DEF Sequences, IsSequence
  <2> HIDE DEF S
  <2> QED BY <2>1, SeqMonotonic
<1> HIDE DEF S
<1>2. P \in Seq(Seq(S))
  <2>1. P \in Seq(ToSet(P)) /\ ToSet(P) \subseteq Seq(S)
    BY <1>1 DEF Sequences, IsSequence
  <2> QED BY <2>1, SeqMonotonic
<1>3. /\ FlattenSeq(P) \in Seq(S)
      /\ ToSet(FlattenSeq(P)) = UNION {ToSet(P[k]) : k \in DOMAIN P}
  BY <1>2, FlattenMembers
<1>4. IsSequence(FlattenSeq(P))
  BY <1>3 DEF IsSequence, ToSet
<1> QED BY <1>3, <1>4

\* The last of the sequences comes last
LEMMA FlattenAppend ==
  ASSUME NEW P, IsSequence(P), NEW x, IsSequence(x)
  PROVE  FlattenSeq(Append(P, x)) = FlattenSeq(P) \o x
<1> DEFINE n == Len(P)
<1>1. PICK Q : Q = Append(P, x)
  OBVIOUS
<1>2. n \in Nat /\ Len(Q) = n + 1 /\ (\A i \in 1..n : Q[i] = P[i]) /\ Q[n + 1] = x
  <2>1. Q = P \o <<x>> /\ IsSequence(<<x>>) /\ Len(<<x>>) = 1 /\ <<x>>[1] = x
    BY <1>1, AppendSequence, SingleSequence
  <2> QED BY <2>1, ConcatValues, Positioned
<1> HIDE DEF n
<1>3. PICK g : /\ n = 0 => FlattenSeq(P) = P
               /\ n # 0 => FlattenSeq(P) = g[n] /\ g[1] = P[1]
               /\ \A i \in 1..n : i # 1 => g[i] = g[i - 1] \o P[i]
  BY <1>2, FlattenIs DEF n
<1>4. PICK h : /\ FlattenSeq(Q) = h[n + 1] /\ h[1] = Q[1]
               /\ \A i \in 1..n + 1 : i # 1 => h[i] = h[i - 1] \o Q[i]
  <2>1. Len(Q) \in Nat /\ Len(Q) # 0
    BY <1>2
  <2>2. \E h : /\ Len(Q) = 0 => FlattenSeq(Q) = Q
               /\ Len(Q) # 0 => FlattenSeq(Q) = h[Len(Q)] /\ h[1] = Q[1]
               /\ \A i \in 1..Len(Q) : i # 1 => h[i] = h[i - 1] \o Q[i]
    BY <2>1, FlattenIs
  <2> QED BY <1>2, <2>1, <2>2
<1>5. CASE n = 0
  <2>1. P = <<>> /\ FlattenSeq(P) = P
    BY <1>3, <1>5, LengthZero DEF n
  <2>2. FlattenSeq(Q) = x /\ <<>> \o x = x
    BY <1>2, <1>4, <1>5, EmptyConcat
  <2> QED BY <1>1, <2>1, <2>2
<1>6. CASE n # 0
  <2> DEFINE U == {i \in Nat : i \in 1..n => g[i] = h[i]}
  <2>1. 0 \in U
    OBVIOUS
  <2>2. ASSUME NEW i \in Nat, i \in U PROVE i + 1 \in U
    <3> SUFFICES ASSUME i + 1 \in 1..n PROVE g[i + 1] = h[i + 1]
      OBVIOUS
    <3>1. CASE i = 0
      <4>1. g[1] = P[1] /\ h[1] = Q[1] /\ 1 \in 1..n
        BY <1>2, <1>3, <1>4, <1>6
      <4> QED BY <1>2, <3>1, <4>1
    <3>2. CASE i # 0
      <4>1. i \in 1..n /\ i + 1 # 1 /\ (i + 1) - 1 = i /\ i + 1 \in 1..n + 1
        BY <1>2, <3>2
      <4>2. g[i + 1] = g[i] \o P[i + 1] /\ h[i + 1] = h[i] \o Q[i + 1]
        BY <1>3, <1>4, <4>1
      <4> QED BY <1>2, <2>2, <4>1, <4>2
    <3> QED BY <3>1, <3>2
  <2>3. Nat \subseteq U
    BY <2>1, <2>2, Induction
  <2>4. g[n] = h[n]
    BY <1>2, <1>6, <2>3
  <2>5. n + 1 \in 1..n + 1 /\ n + 1 # 1 /\ (n + 1) - 1 = n
    BY <1>2, <1>6
  <2>6. h[n + 1] = h[n] \o Q[n + 1]
    BY <1>4, <2>5
  <2> QED BY <1>1, <1>2, <1>3, <1>4, <1>6, <2>4, <2>6
<1> QED BY <1>5, <1>6

LEMMA FlattenEmpty == FlattenSeq(<<>>) = <<>> /\ Sequences(<<>>)
<1>1. PICK s : s = <<>>
  OBVIOUS
<1>2. Len(s) = 0 /\ Len(s) \in Nat
  BY <1>1
<1>3. \E g : /\ Len(s) = 0 => FlattenSeq(s) = s
             /\ Len(s) # 0 => FlattenSeq(s) = g[Len(s)] /\ g[1] = s[1]
             /\ \A i \in 1..Len(s) : i # 1 => g[i] = g[i - 1] \o s[i]
  BY <1>2, FlattenIs, Zenon
<1>4. IsSequence(s) /\ ToSet(s) = {}
  BY <1>1, EmptySequence
<1>5. Sequences(s)
  BY <1>4 DEF Sequences
<1> QED BY <1>1, <1>2, <1>3, <1>5

LEMMA FlattenSingle ==
  ASSUME NEW x, IsSequence(x)
  PROVE  FlattenSeq(<<x>>) = x /\ Sequences(<<x>>)
<1>1. PICK e : e = <<>>
  OBVIOUS
<1>2. IsSequence(e) /\ FlattenSeq(e) = e /\ e \o x = x
  BY <1>1, EmptySequence, FlattenEmpty, EmptyConcat
<1>3. FlattenSeq(Append(e, x)) = x
  BY <1>2, FlattenAppend
<1>4. Append(e, x) = <<x>>
  BY <1>1
<1>5. Sequences(<<x>>)
  BY SingleSequence DEF Sequences
<1> QED BY <1>3, <1>4, <1>5

\* FlattenSeq, of two parts
LEMMA FlattenConcat ==
  ASSUME NEW P, Sequences(P), NEW Q, Sequences(Q)
  PROVE  FlattenSeq(P \o Q) = FlattenSeq(P) \o FlattenSeq(Q) /\ Sequences(P \o Q)
<1> DEFINE S == ToSet(Q)
           T == {q \in Seq(S) : FlattenSeq(P \o q) = FlattenSeq(P) \o FlattenSeq(q)}
<1>1. \A q \in Seq(S) : Sequences(q)
  <2> TAKE q \in Seq(S)
  <2>1. IsSequence(q) /\ ToSet(q) \subseteq S
    BY DEF IsSequence, ToSet
  <2> QED BY <2>1 DEF Sequences
<1>2. IsSequence(P) /\ IsSequence(Q) /\ IsSequence(FlattenSeq(P)) /\ Q \in Seq(S)
  BY FlattenSequence DEF Sequences, IsSequence
<1>3. \A x \in S : IsSequence(x)
  BY DEF Sequences
<1> HIDE DEF S
<1>4. <<>> \in T
  <2>1. P \o <<>> = P /\ FlattenSeq(P) \o <<>> = FlattenSeq(P) /\ <<>> \in Seq(S)
    BY <1>2, EmptyConcat, EmptySeq
  <2> QED BY <2>1, FlattenEmpty
<1>5. ASSUME NEW q \in Seq(S), NEW x \in S, q \in T PROVE Append(q, x) \in T
  <2>1. IsSequence(q) /\ IsSequence(x) /\ IsSequence(FlattenSeq(q)) /\ IsSequence(P \o q)
    <3>1. Sequences(q) /\ IsSequence(q)
      BY <1>1 DEF Sequences
    <3>2. IsSequence(FlattenSeq(q))
      BY <3>1, FlattenSequence
    <3> QED BY <1>2, <1>3, <3>1, <3>2, ConcatSequences
  <2>2. P \o Append(q, x) = Append(P \o q, x)
    BY <1>2, <2>1, AppendConcat
  <2>3. FlattenSeq(Append(P \o q, x)) = FlattenSeq(P \o q) \o x
    BY <2>1, FlattenAppend
  <2>4. FlattenSeq(Append(q, x)) = FlattenSeq(q) \o x
    BY <2>1, FlattenAppend
  <2>5. (FlattenSeq(P) \o FlattenSeq(q)) \o x = FlattenSeq(P) \o (FlattenSeq(q) \o x)
    <3>1. PICK a, b : a = FlattenSeq(P) /\ b = FlattenSeq(q)
      OBVIOUS
    <3>2. IsSequence(a) /\ IsSequence(b) /\ IsSequence(x)
      BY <1>2, <2>1, <3>1
    <3>3. (a \o b) \o x = a \o (b \o x)
      BY <3>2, Associative
    <3> QED BY <3>1, <3>3
  <2>6. FlattenSeq(P \o q) = FlattenSeq(P) \o FlattenSeq(q)
    BY <1>5
  <2>7. FlattenSeq(P \o Append(q, x)) = FlattenSeq(P) \o FlattenSeq(Append(q, x))
    BY <2>2, <2>3, <2>4, <2>5, <2>6, Zenon
  <2>8. Append(q, x) \in Seq(S)
    OBVIOUS
  <2> QED BY <2>7, <2>8
<1>6. Seq(S) \subseteq T
  BY <1>4, <1>5, SequenceInduction
<1>7. Sequences(P \o Q)
  BY <1>2, ConcatSequences DEF Sequences
<1> QED BY <1>2, <1>6, <1>7

-----------------------------------------------------------------------------
(* The lines of a text                                                     *)

\* The function that the fold of split looks up its value in
Splits(g, s, text, n) ==
  g = [i \in SUBSET (1..n) |-> IF i = {} THEN s ELSE Add(g[i \ {Max(i)}], text[Max(i)])]

LEMMA SplitsExists ==
  ASSUME NEW s, NEW text
  PROVE  \A n \in Nat : \E g : Splits(g, s, text, n)
<1> DEFINE T == {n \in Nat : \E g : Splits(g, s, text, n)}
<1>1. 0 \in T
  <2> DEFINE g == [i \in SUBSET (1..0) |-> s]
  <2>1. \A i \in SUBSET (1..0) : i = {}
    OBVIOUS
  <2>2. Splits(g, s, text, 0)
    BY <2>1 DEF Splits
  <2> QED BY <2>2
<1>2. ASSUME NEW n \in Nat, n \in T PROVE n + 1 \in T
  <2>1. PICK g : Splits(g, s, text, n)
    BY <1>2
  <2> DEFINE h == [i \in SUBSET (1..n + 1) |-> IF i = {} THEN s ELSE Add(g[i \ {Max(i)}], text[Max(i)])]
  <2>2. \A i \in SUBSET (1..n) : h[i] = g[i]
    <3> TAKE i \in SUBSET (1..n)
    <3>1. g[i] = IF i = {} THEN s ELSE Add(g[i \ {Max(i)}], text[Max(i)])
      BY <2>1, Zenon DEF Splits
    <3>2. i \in SUBSET (1..n + 1)
      OBVIOUS
    <3> QED BY <3>1, <3>2, Zenon
  <2>3. \A i \in SUBSET (1..n + 1) : i # {} => i \ {Max(i)} \in SUBSET (1..n)
    <3> TAKE i \in SUBSET (1..n + 1)
    <3>1. n + 1 \in Nat /\ (n + 1) - 1 = n
      OBVIOUS
    <3> QED BY <3>1, GreatestNumber
  <2>4. \A i \in SUBSET (1..n + 1) : i # {} => h[i \ {Max(i)}] = g[i \ {Max(i)}]
    BY <2>2, <2>3, Zenon
  <2>5. Splits(h, s, text, n + 1)
    BY <2>4, Zenon DEF Splits
  <2> QED BY <2>5
<1> QED BY <1>1, <1>2, Induction

\* The lines after each character of a text
LEMMA LinesAre ==
  ASSUME NEW s, NEW text, IsSequence(text)
  PROVE  \E g : /\ g[0] = s /\ Lines(s, text) = g[Len(text)]
                /\ \A i \in 1..Len(text) : g[i] = Add(g[i - 1], text[i])
<1> DEFINE n == Len(text)
           it == CHOOSE g : g = [i \in SUBSET (1..n) |->
                                  IF i = {} THEN s ELSE Add(g[i \ {Max(i)}], text[Max(i)])]
           h == [i \in 0..n |-> it[1..i]]
<1>1. n \in Nat /\ DOMAIN text = 1..n
  BY Positioned
<1>2. Splits(it, s, text, n)
  <2>1. \E g : Splits(g, s, text, n)
    BY <1>1, SplitsExists
  <2> QED BY <2>1, Zenon DEF Splits
<1>3. Lines(s, text) = it[1..n]
  <2>1. Lines(s, text) =
          (CHOOSE g : g = [i \in SUBSET DOMAIN text |->
             IF i = {} THEN s ELSE Add(g[i \ {Max(i)}], text[Max(i)])])[DOMAIN text]
    BY Zenon DEF Lines, FoldLeft, MapThenFoldSet
  <2> QED BY <1>1, <2>1, Zenon
<1> HIDE DEF it
<1>4. \A i \in SUBSET (1..n) : it[i] = IF i = {} THEN s ELSE Add(it[i \ {Max(i)}], text[Max(i)])
  BY <1>2, Zenon DEF Splits
<1> HIDE DEF n
<1>5. h[0] = s
  <2>1. 1..0 = {} /\ 0 \in 0..n
    BY <1>1
  <2> QED BY <1>4, <2>1
<1>6. ASSUME NEW i \in 1..n PROVE h[i] = Add(h[i - 1], text[i])
  <2>1. i \in Nat /\ i # 0 /\ i <= n /\ i \in 0..n /\ i - 1 \in 0..n /\ i \in 1..i
    BY <1>1
  <2>2. Max(1..i) = i /\ (1..i) \ {i} = 1..i - 1
    BY <2>1, GreatestOfRange
  <2>3. 1..i \in SUBSET (1..n) /\ 1..i # {}
    <3>1. \A x \in 1..i : x \in 1..n
      BY <1>1, <2>1
    <3> QED BY <2>1, <3>1
  <2>4. it[1..i] = Add(it[1..i - 1], text[i])
    BY <1>4, <2>2, <2>3
  <2> QED BY <2>1, <2>4
<1>7. h[n] = it[1..n]
  BY <1>1
<1> HIDE DEF h
<1> QED BY <1>3, <1>5, <1>6, <1>7 DEF n

\* The text whose lines are M, each ended, and then l
Line(l) == IsSequence(l) /\ NL \notin ToSet(l)
LinesOnly(M) == IsSequence(M) /\ \A l \in ToSet(M) : Line(l)
Ended(M) == [k \in DOMAIN M |-> Append(M[k], NL)]
Joined(M) == FlattenSeq(Ended(M))
Spelled(L, t) ==
  \E M, l : LinesOnly(M) /\ Line(l) /\ L = Append(M, l) /\ t = Joined(M) \o l

LEMMA LineEnds ==
  ASSUME NEW l, Line(l)
  PROVE  IsSequence(Append(l, NL)) /\ Append(l, NL) = l \o <<NL>> /\ NL \in ToSet(Append(l, NL))
BY AppendSequence DEF Line

LEMMA EndedSequences ==
  ASSUME NEW M, LinesOnly(M)
  PROVE  /\ Sequences(Ended(M)) /\ Len(Ended(M)) = Len(M) /\ DOMAIN Ended(M) = DOMAIN M
         /\ IsSequence(FlattenSeq(Ended(M)))
<1> DEFINE f == Ended(M)
<1>1. f = [k \in 1..Len(M) |-> f[k]] /\ Len(M) \in Nat /\ DOMAIN M = 1..Len(M)
  BY Positioned, Zenon DEF Ended, LinesOnly
<1>2. \A k \in 1..Len(M) : f[k] = Append(M[k], NL) /\ Line(M[k])
  BY <1>1 DEF Ended, LinesOnly, ToSet
<1> HIDE DEF f
<1>3. IsSequence(f) /\ Len(f) = Len(M) /\ DOMAIN f = 1..Len(M) /\ ToSet(f) = {f[k] : k \in 1..Len(M)}
  BY <1>1, TableSequence
<1>4. \A k \in 1..Len(M) : IsSequence(f[k])
  BY <1>2, LineEnds
<1>5. Sequences(f)
  BY <1>3, <1>4 DEF Sequences
<1>6. IsSequence(FlattenSeq(f))
  BY <1>5, FlattenSequence
<1> QED BY <1>1, <1>3, <1>5, <1>6 DEF f

LEMMA EndedConcat ==
  ASSUME NEW M, LinesOnly(M), NEW N, LinesOnly(N)
  PROVE  LinesOnly(M \o N) /\ Ended(M \o N) = Ended(M) \o Ended(N)
<1>1. PICK MN : MN = M \o N
  OBVIOUS
<1>2. IsSequence(M) /\ IsSequence(N) /\ IsSequence(MN) /\ ToSet(MN) = ToSet(M) \cup ToSet(N)
  BY <1>1, ConcatSequences DEF LinesOnly
<1>3. LinesOnly(MN)
  BY <1>2 DEF LinesOnly
<1>4. PICK e, f, g : e = Ended(M) /\ f = Ended(N) /\ g = Ended(MN)
  OBVIOUS
<1>5. /\ IsSequence(e) /\ IsSequence(f) /\ IsSequence(g)
      /\ Len(e) = Len(M) /\ Len(f) = Len(N) /\ Len(g) = Len(MN)
  BY <1>3, <1>4, EndedSequences DEF Sequences
<1>6. /\ Len(M) \in Nat /\ Len(N) \in Nat /\ Len(MN) = Len(M) + Len(N)
      /\ DOMAIN M = 1..Len(M) /\ DOMAIN N = 1..Len(N) /\ DOMAIN MN = 1..Len(MN)
      /\ \A i \in 1..Len(M) : MN[i] = M[i]
      /\ \A i \in 1..Len(N) : MN[Len(M) + i] = N[i]
  BY <1>1, <1>2, Positioned, ConcatValues
<1>7. /\ \A i \in 1..Len(M) : g[i] = e[i]
      /\ \A i \in 1..Len(N) : g[Len(M) + i] = f[i]
  <2>1. /\ \A i \in 1..Len(M) : e[i] = Append(M[i], NL)
        /\ \A i \in 1..Len(N) : f[i] = Append(N[i], NL)
        /\ \A i \in 1..Len(MN) : g[i] = Append(MN[i], NL)
    BY <1>4, <1>6 DEF Ended
  <2>2. /\ \A i \in 1..Len(M) : i \in 1..Len(MN)
        /\ \A i \in 1..Len(N) : Len(M) + i \in 1..Len(MN)
    BY <1>6
  <2> QED BY <1>6, <2>1, <2>2
<1>8. g = e \o f
  BY <1>5, <1>6, <1>7, ConcatIs
<1> QED BY <1>1, <1>3, <1>4, <1>8

\* The text of some lines and of the lines that follow them
LEMMA JoinedConcat ==
  ASSUME NEW M, LinesOnly(M), NEW N, LinesOnly(N)
  PROVE  LinesOnly(M \o N) /\ Joined(M \o N) = Joined(M) \o Joined(N) /\ IsSequence(Joined(M))
<1>1. Sequences(Ended(M)) /\ Sequences(Ended(N)) /\ IsSequence(Joined(M))
  BY EndedSequences DEF Joined
<1>2. LinesOnly(M \o N) /\ Ended(M \o N) = Ended(M) \o Ended(N)
  BY EndedConcat
<1>3. FlattenSeq(Ended(M) \o Ended(N)) = FlattenSeq(Ended(M)) \o FlattenSeq(Ended(N))
  BY <1>1, FlattenConcat
<1> QED BY <1>1, <1>2, <1>3 DEF Joined

LEMMA JoinedSmall ==
  /\ LinesOnly(<<>>) /\ Joined(<<>>) = <<>>
  /\ \A l : Line(l) => LinesOnly(<<l>>) /\ Joined(<<l>>) = Append(l, NL)
<1>1. LinesOnly(<<>>) /\ Joined(<<>>) = <<>>
  <2>1. LinesOnly(<<>>)
    BY EmptySequence DEF LinesOnly
  <2>2. IsSequence(Ended(<<>>)) /\ Len(Ended(<<>>)) = 0
    BY <2>1, EndedSequences DEF Sequences
  <2>3. Ended(<<>>) = <<>>
    BY <2>2, LengthZero
  <2> QED BY <2>1, <2>3, FlattenEmpty DEF Joined
<1>2. ASSUME NEW l, Line(l) PROVE LinesOnly(<<l>>) /\ Joined(<<l>>) = Append(l, NL)
  <2>1. PICK M : M = <<l>>
    OBVIOUS
  <2>2. IsSequence(M) /\ ToSet(M) = {l} /\ DOMAIN M = {1} /\ M[1] = l /\ Len(M) = 1
    BY <2>1, SingleSequence
  <2>3. LinesOnly(M)
    BY <1>2, <2>2 DEF LinesOnly
  <2>4. PICK e : e = Ended(M)
    OBVIOUS
  <2>5. IsSequence(e) /\ Len(e) = 1 /\ e[1] = Append(l, NL)
    BY <2>2, <2>3, <2>4, EndedSequences DEF Sequences, Ended
  <2>6. PICK x : x = Append(l, NL)
    OBVIOUS
  <2>7. IsSequence(<<x>>) /\ Len(<<x>>) = 1 /\ <<x>>[1] = x
    BY SingleSequence
  <2>8. e = <<x>>
    BY <2>5, <2>6, <2>7, SameSequence
  <2>9. IsSequence(x)
    BY <1>2, <2>6, LineEnds
  <2> QED BY <2>1, <2>3, <2>4, <2>6, <2>8, <2>9, FlattenSingle DEF Joined
<1> QED BY <1>1, <1>2

LEMMA JoinedAppend ==
  ASSUME NEW M, LinesOnly(M), NEW l, Line(l)
  PROVE  LinesOnly(Append(M, l)) /\ Joined(Append(M, l)) = Joined(M) \o Append(l, NL)
<1>1. Append(M, l) = M \o <<l>>
  BY AppendSequence DEF LinesOnly
<1>2. LinesOnly(<<l>>) /\ Joined(<<l>>) = Append(l, NL)
  BY JoinedSmall
<1> QED BY <1>1, <1>2, JoinedConcat

\* A character more
LEMMA AddSpells ==
  ASSUME NEW L, NEW t, Spelled(L, t), NEW c
  PROVE  Spelled(Add(L, c), Append(t, c))
<1>1. PICK M, l : LinesOnly(M) /\ Line(l) /\ L = Append(M, l) /\ t = Joined(M) \o l
  BY DEF Spelled
<1>2. IsSequence(M) /\ IsSequence(l) /\ IsSequence(Joined(M))
  BY <1>1, JoinedConcat DEF LinesOnly, Line
<1>3. Append(t, c) = Joined(M) \o Append(l, c)
  <2>1. PICK j : j = Joined(M)
    OBVIOUS
  <2>2. IsSequence(j)
    BY <1>2, <2>1
  <2>3. Append(j \o l, c) = j \o Append(l, c)
    BY <1>2, <2>2, AppendConcat
  <2> QED BY <1>1, <2>1, <2>3
<1>4. CASE c = NL
  <2>1. Add(L, c) = Append(L, <<>>) /\ Line(<<>>)
    BY <1>4, EmptySequence DEF Add, Line
  <2>2. LinesOnly(L) /\ Joined(L) = Joined(M) \o Append(l, NL)
    BY <1>1, JoinedAppend
  <2>3. Joined(L) \o <<>> = Joined(L)
    BY <2>2, JoinedConcat, EmptyConcat
  <2> QED BY <1>3, <1>4, <2>1, <2>2, <2>3 DEF Spelled
<1>5. CASE c # NL
  <2>1. Line(Append(l, c))
    <3>1. IsSequence(Append(l, c)) /\ ToSet(Append(l, c)) = ToSet(l) \cup {c}
      BY <1>2, AppendSequence
    <3> QED BY <1>1, <1>5, <3>1 DEF Line
  <2>2. Add(L, c) = Append(M, Append(l, c))
    <3>1. PICK x : x = Append(l, c)
      OBVIOUS
    <3>2. PICK S : S = ToSet(M) \cup {l, x}
      OBVIOUS
    <3>3. M \in Seq(S) /\ l \in S /\ x \in S
      BY <1>2, <3>2, SeqMonotonic DEF IsSequence
    <3>4. L \in Seq(S) /\ Len(L) = Len(M) + 1 /\ L[Len(L)] = l /\ \A i \in 1..Len(M) : L[i] = M[i]
      BY <1>1, <3>3
    <3>5. [L EXCEPT ![Len(L)] = x] = Append(M, x)
      <4>1. PICK r : r = [L EXCEPT ![Len(L)] = x]
        OBVIOUS
      <4>2. r \in Seq(S) /\ Len(r) = Len(L) /\ \A j \in 1..Len(L) : r[j] = IF j = Len(L) THEN x ELSE L[j]
        <5>1. Len(L) \in 1..Len(L)
          BY <3>3, <3>4
        <5> QED BY <3>3, <3>4, <4>1, <5>1, ExceptSeq
      <4>3. PICK a : a = Append(M, x)
        OBVIOUS
      <4>4. a \in Seq(S) /\ Len(a) = Len(M) + 1 /\ a[Len(M) + 1] = x /\ \A j \in 1..Len(M) : a[j] = M[j]
        BY <3>3, <4>3, AppendProperties
      <4>5. Len(M) \in Nat
        BY <3>3
      <4>6. \A j \in 1..Len(r) : r[j] = a[j]
        BY <3>4, <4>2, <4>4, <4>5
      <4>7. r = a
        BY <3>4, <4>2, <4>4, <4>6, SeqEqual
      <4> QED BY <4>1, <4>3, <4>7
    <3>6. Add(L, c) = [L EXCEPT ![Len(L)] = x]
      BY <1>5, <3>1, <3>4 DEF Add
    <3> QED BY <3>1, <3>5, <3>6
  <2> QED BY <1>1, <1>3, <2>1, <2>2 DEF Spelled
<1> QED BY <1>4, <1>5

LEMMA Beginnings ==
  ASSUME NEW t, IsSequence(t)
  PROVE  /\ SubSeq(t, 1, 0) = <<>> /\ SubSeq(t, 1, Len(t)) = t
         /\ \A i \in 0..Len(t) - 1 : SubSeq(t, 1, i + 1) = Append(SubSeq(t, 1, i), t[i + 1])
<1>1. PICK S : S = ToSet(t)
  OBVIOUS
<1>2. t \in Seq(S)
  BY <1>1 DEF IsSequence
<1> QED BY <1>2

\* What std::getline has read so far
LEMMA LinesSpell ==
  ASSUME NEW t, IsSequence(t)
  PROVE  Spelled(Lines(<<<<>>>>, t), t)
<1>1. PICK s : s = <<<<>>>>
  OBVIOUS
<1>2. PICK g : /\ g[0] = s /\ Lines(s, t) = g[Len(t)]
               /\ \A i \in 1..Len(t) : g[i] = Add(g[i - 1], t[i])
  BY LinesAre
<1> DEFINE n == Len(t)
           U == {i \in Nat : i \in 0..n => Spelled(g[i], SubSeq(t, 1, i))}
<1>3. /\ n \in Nat /\ SubSeq(t, 1, 0) = <<>> /\ SubSeq(t, 1, n) = t
      /\ \A i \in 0..n - 1 : SubSeq(t, 1, i + 1) = Append(SubSeq(t, 1, i), t[i + 1])
  BY Beginnings, Positioned
<1>4. \A i \in 1..n : g[i] = Add(g[i - 1], t[i])
  BY <1>2
<1> HIDE DEF n
<1>5. 0 \in U
  <2>1. PICK e : e = <<>>
    OBVIOUS
  <2>2. LinesOnly(e) /\ Joined(e) = e /\ Line(e) /\ s = Append(e, e) /\ Joined(e) \o e = e
    BY <1>1, <2>1, JoinedSmall, EmptySequence DEF Line
  <2>3. Spelled(s, e)
    BY <2>2 DEF Spelled
  <2> QED BY <1>2, <1>3, <2>1, <2>3
<1>6. ASSUME NEW i \in Nat, i \in U PROVE i + 1 \in U
  <2> SUFFICES ASSUME i + 1 \in 0..n PROVE Spelled(g[i + 1], SubSeq(t, 1, i + 1))
    OBVIOUS
  <2>1. i \in 0..n /\ i \in 0..n - 1 /\ i + 1 \in 1..n /\ (i + 1) - 1 = i
    BY <1>3
  <2>2. Spelled(Add(g[i], t[i + 1]), Append(SubSeq(t, 1, i), t[i + 1]))
    BY <1>6, <2>1, AddSpells
  <2> QED BY <1>3, <1>4, <2>1, <2>2
<1>7. Nat \subseteq U
  BY <1>5, <1>6, Induction
<1>8. n \in U /\ n \in 0..n
  BY <1>3, <1>7
<1> QED BY <1>1, <1>2, <1>3, <1>8 DEF n

\* r is x with its line ended, and then the line l
Follows(r, n, x, l) ==
  /\ n = Len(x) /\ n \in Nat /\ Len(l) \in Nat /\ Len(r) = n + 1 + Len(l) /\ r[n + 1] = NL
  /\ \A i \in 1..n : r[i] = x[i]
  /\ \A i \in 1..Len(l) : r[n + 1 + i] = l[i] /\ r[n + 1 + i] # NL

LEMMA LineFollows ==
  ASSUME NEW x, IsSequence(x), NEW l, Line(l)
  PROVE  Follows(Append(x, NL) \o l, Len(x), x, l)
<1>1. PICK p, n, r : p = Append(x, NL) /\ n = Len(x) /\ r = p \o l
  OBVIOUS
<1>2. IsSequence(p) /\ p = x \o <<NL>>
  BY <1>1, AppendSequence
<1>3. n \in Nat /\ Len(p) = n + 1 /\ p[n + 1] = NL /\ \A i \in 1..n : p[i] = x[i]
  <2>1. IsSequence(<<NL>>) /\ Len(<<NL>>) = 1 /\ <<NL>>[1] = NL
    BY SingleSequence
  <2> QED BY <1>1, <1>2, <2>1, ConcatValues, Positioned
<1>4. Len(l) \in Nat /\ \A i \in 1..Len(l) : l[i] # NL
  <2>1. Len(l) \in Nat /\ \A i \in 1..Len(l) : l[i] \in ToSet(l)
    BY Positioned DEF Line
  <2> QED BY <2>1 DEF Line
<1>5. /\ Len(r) = n + 1 + Len(l)
      /\ \A i \in 1..n + 1 : r[i] = p[i]
      /\ \A i \in 1..Len(l) : r[n + 1 + i] = l[i]
  BY <1>1, <1>2, <1>3, ConcatValues DEF Line
<1>6. r[n + 1] = NL /\ \A i \in 1..n : r[i] = x[i]
  <2>1. n + 1 \in 1..n + 1 /\ \A i \in 1..n : i \in 1..n + 1
    BY <1>3
  <2> QED BY <1>3, <1>5, <2>1
<1>7. Follows(r, n, x, l)
  BY <1>1, <1>3, <1>4, <1>5, <1>6 DEF Follows
<1> QED BY <1>1, <1>7

\* What ends a line ends no other
LEMMA SameEnd ==
  ASSUME NEW x, NEW y, NEW l, NEW m, IsSequence(x), IsSequence(y), Line(l), Line(m),
         Append(x, NL) \o l = Append(y, NL) \o m
  PROVE  x = y /\ l = m
<1>1. PICK r : r = Append(x, NL) \o l /\ r = Append(y, NL) \o m
  OBVIOUS
<1>2. PICK n, o : n = Len(x) /\ o = Len(y)
  OBVIOUS
<1>3. Follows(r, n, x, l)
  BY <1>1, <1>2, LineFollows
<1>4. Follows(r, o, y, m)
  BY <1>1, <1>2, LineFollows
<1>5. n = o
  <2>1. CASE n < o
    <3>1. o - n \in 1..Len(l) /\ n + 1 + (o - n) = o + 1
      BY <1>3, <1>4, <2>1 DEF Follows
    <3> QED BY <1>3, <1>4, <3>1 DEF Follows
  <2>2. CASE o < n
    <3>1. n - o \in 1..Len(m) /\ o + 1 + (n - o) = n + 1
      BY <1>3, <1>4, <2>2 DEF Follows
    <3> QED BY <1>3, <1>4, <3>1 DEF Follows
  <2> QED BY <1>3, <1>4, <2>1, <2>2 DEF Follows
<1>6. x = y
  BY <1>2, <1>3, <1>4, <1>5, SameSequence DEF Follows
<1>7. l = m
  <2>1. Len(l) = Len(m)
    BY <1>3, <1>4, <1>5 DEF Follows
  <2>2. \A i \in 1..Len(l) : l[i] = m[i]
    BY <1>3, <1>4, <1>5, <2>1 DEF Follows
  <2> QED BY <2>1, <2>2, SameSequence DEF Line
<1> QED BY <1>6, <1>7

\* No two sequences of lines spell the same text
LEMMA OneSpelling ==
  ASSUME NEW M, NEW l, NEW N, NEW m, LinesOnly(M), Line(l), LinesOnly(N), Line(m),
         Joined(M) \o l = Joined(N) \o m
  PROVE  M = N /\ l = m
<1> DEFINE S == ToSet(M) \cup ToSet(N) \cup {l, m}
           T == {x \in Seq(S) : \A y \in Seq(S), a, b \in S : Joined(x) \o a = Joined(y) \o b => x = y /\ a = b}
<1>1. M \in Seq(S) /\ N \in Seq(S) /\ l \in S /\ m \in S
  BY SeqMonotonic DEF LinesOnly, IsSequence
<1>2. \A x \in S : Line(x)
  BY DEF LinesOnly
<1> HIDE DEF S
<1>3. \A x \in Seq(S) : LinesOnly(x)
  <2> TAKE x \in Seq(S)
  <2>1. IsSequence(x) /\ ToSet(x) \subseteq S
    BY DEF IsSequence, ToSet
  <2> QED BY <1>2, <2>1 DEF LinesOnly
<1>4. ASSUME NEW x \in Seq(S), NEW w \in S, NEW a \in S
      PROVE  Joined(Append(x, w)) \o a = Append(Joined(x) \o w, NL) \o a /\ IsSequence(Joined(x) \o w)
  <2>1. LinesOnly(x) /\ Line(w)
    BY <1>2, <1>3
  <2>2. PICK j : j = Joined(x)
    OBVIOUS
  <2>3. IsSequence(j) /\ IsSequence(w)
    BY <2>1, <2>2, JoinedConcat DEF Line
  <2>4. Append(j \o w, NL) = j \o Append(w, NL)
    BY <2>3, AppendConcat
  <2>5. Joined(Append(x, w)) = j \o Append(w, NL)
    BY <2>1, <2>2, JoinedAppend
  <2> QED BY <2>2, <2>3, <2>4, <2>5, ConcatSequences
<1>5. ASSUME NEW x \in Seq(S), NEW w \in S, NEW a \in S, NEW b \in S
      PROVE  Joined(Append(x, w)) \o a # Joined(<<>>) \o b
  <2>1. Line(a) /\ Line(b)
    BY <1>2
  <2>2. IsSequence(Joined(x) \o w) /\ Joined(Append(x, w)) \o a = Append(Joined(x) \o w, NL) \o a
    BY <1>4
  <2>3. PICK k, p : k = Joined(x) \o w /\ p = Append(k, NL)
    OBVIOUS
  <2>4. IsSequence(p) /\ NL \in ToSet(p)
    <3>1. IsSequence(k)
      BY <2>2, <2>3
    <3>2. PICK nl : nl = NL
      OBVIOUS
    <3>3. IsSequence(Append(k, nl)) /\ ToSet(Append(k, nl)) = ToSet(k) \cup {nl}
      BY <3>1, AppendSequence
    <3> QED BY <2>3, <3>2, <3>3
  <2>5. NL \in ToSet(p \o a)
    BY <2>1, <2>4, ConcatSequences DEF Line
  <2>6. Joined(<<>>) \o b = b
    BY <2>1, JoinedSmall, EmptyConcat DEF Line
  <2> QED BY <2>1, <2>2, <2>3, <2>5, <2>6 DEF Line
<1>6. <<>> \in T
  <2>1. ASSUME NEW y \in Seq(S), NEW a \in S, NEW b \in S, Joined(<<>>) \o a = Joined(y) \o b
        PROVE  <<>> = y /\ a = b
    <3>1. y = <<>>
      <4> SUFFICES ASSUME y # <<>> PROVE FALSE
        OBVIOUS
      <4>1. PICK z \in Seq(S), v \in S : y = Append(z, v)
        BY SequenceEmptyOrAppend
      <4> QED BY <1>5, <2>1, <4>1
    <3>2. Joined(<<>>) \o a = a /\ Joined(<<>>) \o b = b
      BY <1>2, JoinedSmall, EmptyConcat DEF Line
    <3> QED BY <2>1, <3>1, <3>2
  <2>2. <<>> \in Seq(S)
    BY EmptySeq
  <2> QED BY <2>1, <2>2
<1>7. ASSUME NEW x \in Seq(S), NEW w \in S, x \in T PROVE Append(x, w) \in T
  <2>1. ASSUME NEW y \in Seq(S), NEW a \in S, NEW b \in S, Joined(Append(x, w)) \o a = Joined(y) \o b
        PROVE  Append(x, w) = y /\ a = b
    <3>1. y # <<>>
      BY <1>5, <2>1
    <3>2. PICK z \in Seq(S), v \in S : y = Append(z, v)
      BY <3>1, SequenceEmptyOrAppend
    <3>3. /\ Append(Joined(x) \o w, NL) \o a = Append(Joined(z) \o v, NL) \o b
          /\ IsSequence(Joined(x) \o w) /\ IsSequence(Joined(z) \o v)
      BY <1>4, <2>1, <3>2
    <3>4. PICK p, q : p = Joined(x) \o w /\ q = Joined(z) \o v
      OBVIOUS
    <3>5. p = q /\ a = b
      BY <1>2, <3>3, <3>4, SameEnd
    <3>6. x = z /\ w = v
      BY <1>7, <3>4, <3>5
    <3> QED BY <3>2, <3>5, <3>6
  <2>2. Append(x, w) \in Seq(S)
    OBVIOUS
  <2> QED BY <2>1, <2>2
<1>8. Seq(S) \subseteq T
  BY <1>6, <1>7, SequenceInduction
<1>9. M \in T
  BY <1>1, <1>8
<1> QED BY <1>1, <1>9

\* A text is split where its lines end, and an empty rest is not a line
LEMMA SplitIs ==
  ASSUME NEW M, NEW l, LinesOnly(M), Line(l)
  PROVE  split(Joined(M) \o l) = IF l = <<>> THEN M ELSE Append(M, l)
<1>1. PICK t : t = Joined(M) \o l
  OBVIOUS
<1>2. IsSequence(t) /\ IsSequence(M) /\ IsSequence(l)
  BY <1>1, JoinedConcat, ConcatSequences DEF LinesOnly, Line
<1>3. PICK N, m : /\ LinesOnly(N) /\ Line(m) /\ Lines(<<<<>>>>, t) = Append(N, m)
                  /\ t = Joined(N) \o m
  BY <1>2, LinesSpell, Zenon DEF Spelled
<1>4. M = N /\ l = m
  BY <1>1, <1>3, OneSpelling
<1>5. PICK L : L = Append(M, l)
  OBVIOUS
<1>6. Last(L) = l /\ Front(L) = M
  <2>1. PICK S : S = ToSet(M) \cup {l}
    OBVIOUS
  <2>2. M \in Seq(S) /\ l \in S
    BY <1>2, <2>1, SeqMonotonic DEF IsSequence
  <2> QED BY <1>5, <2>2 DEF Last, Front
<1> QED BY <1>1, <1>3, <1>4, <1>5, <1>6 DEF split

\* Every text is made of lines
LEMMA TextSpelled ==
  ASSUME NEW t, IsSequence(t)
  PROVE  \E M, l : LinesOnly(M) /\ Line(l) /\ t = Joined(M) \o l
BY LinesSpell, Zenon DEF Spelled

-----------------------------------------------------------------------------
(* Parts of a sequence                                                     *)

LEMMA Slice ==
  ASSUME NEW s, IsSequence(s), NEW a \in Nat, NEW b \in Nat, a <= b, b <= Len(s)
  PROVE  LET r == SubSeq(s, a + 1, b)
         IN IsSequence(r) /\ Len(r) = b - a /\ \A i \in 1..b - a : r[i] = s[a + i]
<1>1. PICK S, r : S = ToSet(s) /\ r = SubSeq(s, a + 1, b)
  OBVIOUS
<1>2. s \in Seq(S)
  BY <1>1 DEF IsSequence
<1>3. r \in Seq(S) /\ Len(r) = b - a /\ \A i \in 1..b - a : r[i] = s[a + i]
  BY <1>1, <1>2
<1>4. r \in Seq(ToSet(r))
  BY <1>3 DEF ToSet
<1> QED BY <1>1, <1>3, <1>4 DEF IsSequence

\* A sequence in three parts
LEMMA Cut ==
  ASSUME NEW s, IsSequence(s), NEW a \in Nat, NEW b \in Nat, a <= b, b <= Len(s)
  PROVE  s = SubSeq(s, 1, a) \o (SubSeq(s, a + 1, b) \o SubSeq(s, b + 1, Len(s)))
<1>1. PICK S, n : S = ToSet(s) /\ n = Len(s)
  OBVIOUS
<1>2. s \in Seq(S) /\ n \in Nat
  BY <1>1, Positioned DEF IsSequence
<1>3. PICK m, o : m = a + 1 /\ o = 1
  OBVIOUS
<1>4. SubSeq(s, m, b) \o SubSeq(s, b + 1, n) = SubSeq(s, m, n)
  <2>1. m \in 1..Len(s) + 1 /\ b \in m - 1..Len(s) /\ n \in b..Len(s)
    BY <1>1, <1>2, <1>3
  <2> QED BY <1>2, <2>1, ConcatAdjacentSubSeq
<1>5. SubSeq(s, o, a) \o SubSeq(s, a + 1, n) = SubSeq(s, o, n)
  <2>1. o \in 1..Len(s) + 1 /\ a \in o - 1..Len(s) /\ n \in a..Len(s)
    BY <1>1, <1>2, <1>3
  <2> QED BY <1>2, <2>1, ConcatAdjacentSubSeq
<1>6. SubSeq(s, o, n) = s
  BY <1>1, <1>2, <1>3, SubSeqFull
<1> QED BY <1>1, <1>3, <1>4, <1>5, <1>6

LEMMA FirstAndLast ==
  ASSUME NEW n \in Nat, NEW I \in SUBSET (1..n), I # {}
  PROVE  /\ Min(I) \in I /\ \A i \in I : Min(I) <= i
         /\ Max(I) \in I /\ \A i \in I : i <= Max(I)
<1>1. PICK k \in I : \A i \in I : k <= i
  BY LeastNumber
<1>2. Min(I) \in I /\ \A i \in I : Min(I) <= i
  BY <1>1 DEF Min
<1>3. Max(I) \in I /\ \A i \in I : Max(I) >= i
  BY GreatestNumber
<1> QED BY <1>2, <1>3

-----------------------------------------------------------------------------
(* White space                                                             *)

Spaces(c) == IsSequence(c) /\ ToSet(c) \subseteq {SPACE}

\* The members of a sequence with the places in it of the first and the last of them
Ink(l) == {i \in 1..Len(l) : ~Isspace(l[i])}

LEMMA InkIs ==
  ASSUME NEW l, IsSequence(l)
  PROVE  /\ is_whitespace_line(l) <=> Ink(l) = {}
         /\ SelectInSeq(l, LAMBDA c : ~Isspace(c)) = IF Ink(l) # {} THEN Min(Ink(l)) ELSE 0
         /\ SelectLastInSeq(l, LAMBDA c : ~Isspace(c)) = IF Ink(l) # {} THEN Max(Ink(l)) ELSE 0
<1>1. DOMAIN l = 1..Len(l)
  BY Positioned
<1>2. is_whitespace_line(l) <=> Ink(l) = {}
  BY <1>1 DEF is_whitespace_line, Ink
<1>3. SelectInSeq(l, LAMBDA c : ~Isspace(c)) = IF Ink(l) # {} THEN Min(Ink(l)) ELSE 0
  BY Zenon DEF SelectInSeq, Ink
<1>4. SelectLastInSeq(l, LAMBDA c : ~Isspace(c)) = IF Ink(l) # {} THEN Max(Ink(l)) ELSE 0
  BY Zenon DEF SelectLastInSeq, Ink
<1> QED BY <1>2, <1>3, <1>4

\* indent is the number of white-space characters a line starts with
LEMMA IndentIs ==
  ASSUME NEW l, IsSequence(l), ~is_whitespace_line(l)
  PROVE  /\ indent(l) \in 0..Len(l) - 1 /\ ~Isspace(l[indent(l) + 1])
         /\ \A i \in 1..indent(l) : Isspace(l[i])
<1>1. Len(l) \in Nat /\ Ink(l) \in SUBSET (1..Len(l)) /\ Ink(l) # {}
  BY Positioned, InkIs DEF Ink
<1>2. Min(Ink(l)) \in Ink(l) /\ \A i \in Ink(l) : Min(Ink(l)) <= i
  BY <1>1, FirstAndLast
<1>3. indent(l) = Min(Ink(l)) - 1
  <2>1. SelectInSeq(l, LAMBDA c : ~Isspace(c)) = Min(Ink(l))
    BY <1>1, InkIs
  <2> QED BY <2>1 DEF indent
<1>4. PICK m : m = Min(Ink(l))
  OBVIOUS
<1>5. m \in 1..Len(l) /\ ~Isspace(l[m]) /\ indent(l) = m - 1
  BY <1>2, <1>3, <1>4 DEF Ink
<1>6. \A i \in 1..m - 1 : Isspace(l[i])
  BY <1>1, <1>2, <1>4, <1>5 DEF Ink
<1> QED BY <1>1, <1>5, <1>6

\* What is not white space tells where a line starts
LEMMA IndentUnique ==
  ASSUME NEW l, IsSequence(l), NEW n \in 0..Len(l) - 1, ~Isspace(l[n + 1]), \A i \in 1..n : Isspace(l[i])
  PROVE  ~is_whitespace_line(l) /\ indent(l) = n
<1>1. Len(l) \in Nat /\ n + 1 \in Ink(l)
  BY Positioned DEF Ink
<1>2. ~is_whitespace_line(l)
  BY <1>1, InkIs
<1>3. /\ indent(l) \in 0..Len(l) - 1 /\ ~Isspace(l[indent(l) + 1])
      /\ \A i \in 1..indent(l) : Isspace(l[i])
  BY <1>2, IndentIs
<1>4. ~(indent(l) < n)
  <2> SUFFICES ASSUME indent(l) < n PROVE FALSE
    OBVIOUS
  <2>1. indent(l) + 1 \in 1..n
    BY <1>1, <1>3
  <2> QED BY <1>3, <2>1
<1>5. ~(n < indent(l))
  <2> SUFFICES ASSUME n < indent(l) PROVE FALSE
    OBVIOUS
  <2>1. n + 1 \in 1..indent(l)
    BY <1>1, <1>3
  <2> QED BY <1>3, <2>1
<1> QED BY <1>1, <1>2, <1>3, <1>4, <1>5

\* The part of a line that is white space
LEMMA SpacesPart ==
  ASSUME NEW l, Line(l), NEW f \in Nat, NEW b \in Nat, 1 <= f, f <= b + 1, b <= Len(l),
         \A i \in f..b : Isspace(l[i])
  PROVE  Spaces(SubSeq(l, f, b))
<1>1. PICK a : a = f - 1
  OBVIOUS
<1>2. a \in Nat /\ a <= b /\ a + 1 = f
  BY <1>1
<1>3. PICK r : r = SubSeq(l, a + 1, b)
  OBVIOUS
<1>4. IsSequence(r) /\ Len(r) = b - a /\ \A i \in 1..b - a : r[i] = l[a + i]
  BY <1>2, <1>3, Slice DEF Line
<1>5. \A i \in 1..Len(l) : l[i] # NL
  <2>1. \A i \in 1..Len(l) : l[i] \in ToSet(l)
    BY Positioned DEF Line
  <2> QED BY <2>1 DEF Line
<1>6. ASSUME NEW i \in 1..b - a PROVE r[i] = SPACE
  <2>1. a + i \in f..b /\ a + i \in 1..Len(l)
    BY <1>2
  <2>2. Isspace(l[a + i]) /\ l[a + i] # NL
    BY <1>5, <2>1
  <2> QED BY <1>4, <2>2 DEF Isspace
<1>7. \A x \in ToSet(r) : \E i \in 1..Len(r) : x = r[i]
  BY <1>4, Positioned
<1>8. ToSet(r) \subseteq {SPACE}
  BY <1>4, <1>6, <1>7
<1> QED BY <1>2, <1>3, <1>4, <1>8 DEF Spaces

\* trim takes SPACEs away from both ends of a line
LEMMA TrimIs ==
  ASSUME NEW l, Line(l)
  PROVE  /\ IsSequence(trim(l))
         /\ \E pre, post : Spaces(pre) /\ Spaces(post) /\ l = pre \o (trim(l) \o post)
<1>1. Len(l) \in Nat /\ IsSequence(l) /\ DOMAIN l = 1..Len(l)
  BY Positioned DEF Line
<1>2. CASE is_whitespace_line(l)
  <2>1. trim(l) = <<>> /\ IsSequence(<<>>)
    BY <1>2, EmptySequence DEF trim
  <2>2. \A i \in 1..Len(l) : Isspace(l[i])
    BY <1>1, <1>2 DEF is_whitespace_line
  <2>3. Spaces(SubSeq(l, 1, Len(l))) /\ SubSeq(l, 1, Len(l)) = l
    BY <1>1, <2>2, SpacesPart, Beginnings
  <2>4. Spaces(l) /\ Spaces(<<>>)
    BY <2>3, EmptySequence DEF Spaces
  <2>5. l = <<>> \o (<<>> \o l)
    BY <1>1, EmptyConcat
  <2> QED BY <2>1, <2>4, <2>5
<1>3. CASE ~is_whitespace_line(l)
  <2>1. Ink(l) \in SUBSET (1..Len(l)) /\ Ink(l) # {}
    BY <1>1, <1>3, InkIs DEF Ink
  <2>2. PICK a, b : a = Min(Ink(l)) /\ b = Max(Ink(l))
    OBVIOUS
  <2>3. a \in Ink(l) /\ b \in Ink(l) /\ \A i \in Ink(l) : a <= i /\ i <= b
    BY <1>1, <2>1, <2>2, FirstAndLast
  <2>4. a \in 1..Len(l) /\ b \in 1..Len(l) /\ a <= b
    BY <2>3 DEF Ink
  <2>5. PICK n : n = a - 1
    OBVIOUS
  <2>6. n \in Nat /\ n <= b /\ b <= Len(l) /\ b \in Nat /\ n + 1 = a /\ n <= Len(l)
    BY <1>1, <2>4, <2>5
  <2>7. trim(l) = SubSeq(l, n + 1, b)
    <3>1. SelectInSeq(l, LAMBDA c : ~Isspace(c)) = a /\ SelectLastInSeq(l, LAMBDA c : ~Isspace(c)) = b
      BY <1>1, <2>1, <2>2, InkIs
    <3>2. trim(l) = SubSeq(l, a, b)
      BY <1>3, <3>1 DEF trim
    <3> QED BY <2>6, <3>2
  <2>8. /\ \A i \in 1..n : Isspace(l[i])
        /\ \A i \in b + 1..Len(l) : Isspace(l[i])
    BY <1>1, <2>3, <2>4, <2>6 DEF Ink
  <2>9. Spaces(SubSeq(l, 1, n)) /\ Spaces(SubSeq(l, b + 1, Len(l)))
    BY <1>1, <2>6, <2>8, SpacesPart
  <2>10. l = SubSeq(l, 1, n) \o (SubSeq(l, n + 1, b) \o SubSeq(l, b + 1, Len(l)))
    BY <1>1, <2>6, Cut
  <2>11. IsSequence(SubSeq(l, n + 1, b))
    BY <1>1, <2>6, Slice
  <2> QED BY <2>7, <2>9, <2>10, <2>11, Zenon
<1> QED BY <1>2, <1>3

LEMMA LinePart ==
  ASSUME NEW l, Line(l), NEW n \in Nat, n <= Len(l)
  PROVE  LET m == SubSeq(l, n + 1, Len(l))
         IN Line(m) /\ Len(m) = Len(l) - n /\ \A i \in 1..Len(l) - n : m[i] = l[n + i]
<1>1. PICK m : m = SubSeq(l, n + 1, Len(l))
  OBVIOUS
<1>2. IsSequence(l) /\ Len(l) \in Nat /\ \A i \in 1..Len(l) : l[i] \in ToSet(l)
  BY Positioned DEF Line
<1>3. IsSequence(m) /\ Len(m) = Len(l) - n /\ \A i \in 1..Len(l) - n : m[i] = l[n + i]
  BY <1>1, <1>2, Slice
<1>4. \A x \in ToSet(m) : \E i \in 1..Len(m) : x = m[i]
  BY <1>3, Positioned
<1>5. ToSet(m) \subseteq ToSet(l)
  BY <1>2, <1>3, <1>4
<1> QED BY <1>1, <1>3, <1>5 DEF Line

\* The line m is l, with the n places it starts with taken away
Moved(l, m, n) ==
  /\ Line(m) /\ (is_whitespace_line(l) <=> is_whitespace_line(m))
  /\ ~is_whitespace_line(l) => n <= indent(l) /\ indent(m) = indent(l) - n /\ m = SubSeq(l, n + 1, Len(l))
  /\ \E c : Spaces(c) /\ l = c \o m

LEMMA EmptyLine == Line(<<>>) /\ is_whitespace_line(<<>>)
<1>1. PICK e : e = <<>>
  OBVIOUS
<1>2. IsSequence(e) /\ ToSet(e) = {} /\ DOMAIN e = {}
  BY <1>1, EmptySequence
<1> QED BY <1>1, <1>2 DEF Line, is_whitespace_line

LEMMA SpaceLine ==
  ASSUME NEW c, Spaces(c)
  PROVE  Line(c) /\ is_whitespace_line(c) /\ ToSet(c) \subseteq {SPACE, NL}
<1>1. IsSequence(c) /\ ToSet(c) \subseteq {SPACE}
  BY DEF Spaces
<1>2. DOMAIN c = 1..Len(c) /\ \A i \in 1..Len(c) : c[i] \in ToSet(c)
  BY <1>1, Positioned
<1>3. \A i \in DOMAIN c : Isspace(c[i])
  BY <1>1, <1>2 DEF Isspace
<1> QED BY <1>1, <1>3, Distinguished DEF Line, is_whitespace_line

LEMMA BlankSpaces ==
  ASSUME NEW l, Line(l), is_whitespace_line(l)
  PROVE  Spaces(l)
<1>1. IsSequence(l) /\ Len(l) \in Nat /\ DOMAIN l = 1..Len(l)
  BY Positioned DEF Line
<1>2. \A i \in 1..Len(l) : Isspace(l[i])
  BY <1>1 DEF is_whitespace_line
<1>3. Spaces(SubSeq(l, 1, Len(l))) /\ SubSeq(l, 1, Len(l)) = l
  BY <1>1, <1>2, SpacesPart, Beginnings
<1> QED BY <1>3

\* Cutting at most its indentation off a line
LEMMA MovedIs ==
  ASSUME NEW l, Line(l), NEW n \in Nat, ~is_whitespace_line(l) => n <= indent(l)
  PROVE  Moved(l, SubSeq(l, n + 1, Len(l)), n)
<1>1. PICK m : m = SubSeq(l, n + 1, Len(l))
  OBVIOUS
<1>2. IsSequence(l) /\ Len(l) \in Nat /\ DOMAIN l = 1..Len(l)
  BY Positioned DEF Line
<1>3. ASSUME n > Len(l) PROVE Moved(l, m, n)
  <2>1. is_whitespace_line(l)
    BY <1>2, <1>3, IndentIs
  <2>2. m = <<>>
    BY <1>1, <1>2, <1>3, SubSeqEmpty
  <2>3. Spaces(l) /\ l = l \o <<>>
    BY <1>2, <2>1, BlankSpaces, EmptyConcat
  <2> QED BY <2>1, <2>2, <2>3, EmptyLine DEF Moved
<1>4. ASSUME n <= Len(l) PROVE Moved(l, m, n)
  <2>1. Line(m) /\ Len(m) = Len(l) - n /\ \A i \in 1..Len(l) - n : m[i] = l[n + i]
    BY <1>1, <1>4, LinePart
  <2>2. \A i \in 1..n : Isspace(l[i])
    BY <1>2, <1>4, IndentIs DEF is_whitespace_line
  <2>3. \E c : Spaces(c) /\ l = c \o m
    <3>1. Spaces(SubSeq(l, 1, n))
      BY <1>2, <1>4, <2>2, SpacesPart
    <3>2. l = SubSeq(l, 1, n) \o (SubSeq(l, n + 1, Len(l)) \o SubSeq(l, Len(l) + 1, Len(l)))
      <4>1. PICK k : k = Len(l)
        OBVIOUS
      <4>2. k \in Nat /\ n <= k /\ k <= Len(l)
        BY <1>2, <1>4, <4>1
      <4>3. l = SubSeq(l, 1, n) \o (SubSeq(l, n + 1, k) \o SubSeq(l, k + 1, Len(l)))
        BY <1>2, <4>2, Cut
      <4> QED BY <4>1, <4>3
    <3>3. SubSeq(l, Len(l) + 1, Len(l)) = <<>>
      BY <1>2, SubSeqEmpty
    <3>4. m \o <<>> = m
      BY <2>1, EmptyConcat DEF Line
    <3>5. l = SubSeq(l, 1, n) \o m
      BY <1>1, <3>2, <3>3, <3>4, Zenon
    <3> QED BY <3>1, <3>5, Zenon
  <2>4. CASE is_whitespace_line(l)
    <3>1. DOMAIN m = 1..Len(l) - n
      BY <2>1, Positioned DEF Line
    <3>2. \A i \in 1..Len(l) - n : n + i \in DOMAIN l
      BY <1>2, <1>4
    <3>3. is_whitespace_line(m)
      BY <2>1, <2>4, <3>1, <3>2 DEF is_whitespace_line
    <3> QED BY <2>1, <2>3, <2>4, <3>3 DEF Moved
  <2>5. CASE ~is_whitespace_line(l)
    <3>1. /\ indent(l) \in 0..Len(l) - 1 /\ ~Isspace(l[indent(l) + 1]) /\ n <= indent(l)
          /\ \A i \in 1..indent(l) : Isspace(l[i])
      BY <1>2, <2>5, IndentIs
    <3>2. PICK d : d = indent(l) - n
      OBVIOUS
    <3>3. d \in 0..Len(m) - 1 /\ d + 1 \in 1..Len(l) - n /\ n + (d + 1) = indent(l) + 1
      <4>1. PICK i, k : i = indent(l) /\ k = Len(l)
        OBVIOUS
      <4>2. i \in 0..k - 1 /\ n <= i /\ d = i - n /\ k \in Nat /\ Len(m) = k - n
        BY <1>2, <2>1, <3>1, <3>2, <4>1
      <4>3. d \in 0..k - n - 1 /\ d + 1 \in 1..k - n /\ n + (d + 1) = i + 1
        BY <4>2
      <4> QED BY <4>1, <4>2, <4>3
    <3>4. ~Isspace(m[d + 1])
      BY <2>1, <3>1, <3>3
    <3>5. \A i \in 1..d : i \in 1..Len(l) - n /\ n + i \in 1..indent(l)
      BY <1>2, <3>1, <3>2, <3>3
    <3>6. \A i \in 1..d : Isspace(m[i])
      BY <2>1, <3>1, <3>5
    <3>7. ~is_whitespace_line(m) /\ indent(m) = d
      BY <2>1, <3>3, <3>4, <3>6, IndentUnique DEF Line
    <3> QED BY <1>1, <2>1, <2>3, <2>5, <3>1, <3>2, <3>7 DEF Moved
  <2> QED BY <2>4, <2>5
<1> QED BY <1>1, <1>2, <1>3, <1>4

-----------------------------------------------------------------------------
(* minimize                                                                *)

AllBlank(L) == \A k \in DOMAIN L : is_whitespace_line(L[k])

\* Some of the lines of a text
LEMMA ListPart ==
  ASSUME NEW o, LinesOnly(o), NEW f \in Nat, NEW b \in Nat, 1 <= f, f <= b + 1, b <= Len(o)
  PROVE  LET r == SubSeq(o, f, b)
         IN LinesOnly(r) /\ Len(r) = b + 1 - f /\ \A i \in 1..b + 1 - f : r[i] = o[f - 1 + i]
<1>1. PICK a, r : a = f - 1 /\ r = SubSeq(o, f, b)
  OBVIOUS
<1>2. a \in Nat /\ a + 1 = f /\ a <= b /\ b + 1 - f = b - a
  BY <1>1
<1>3. IsSequence(o) /\ Len(o) \in Nat /\ \A i \in 1..Len(o) : o[i] \in ToSet(o)
  BY Positioned DEF LinesOnly
<1>4. IsSequence(r) /\ Len(r) = b - a /\ \A i \in 1..b - a : r[i] = o[a + i]
  <2>1. r = SubSeq(o, a + 1, b)
    BY <1>1, <1>2
  <2> QED BY <1>2, <1>3, <2>1, Slice
<1>5. \A x \in ToSet(r) : \E i \in 1..Len(r) : x = r[i]
  BY <1>4, Positioned
<1>6. ToSet(r) \subseteq ToSet(o)
  BY <1>2, <1>3, <1>4, <1>5
<1> QED BY <1>1, <1>2, <1>4, <1>6 DEF LinesOnly

\* The lines of o between two that are not blank, with what is around them
Kept(o, pre, block, post, n) ==
  /\ o = pre \o (block \o post)
  /\ LinesOnly(pre) /\ LinesOnly(block) /\ LinesOnly(post) /\ AllBlank(pre) /\ AllBlank(post)
  /\ IsSequence(minimize(o)) /\ Len(minimize(o)) = Len(block)
  /\ \A k \in 1..Len(block) : Moved(block[k], minimize(o)[k], n)
  /\ block # <<>> => \E k \in 1..Len(block) : ~is_whitespace_line(block[k]) /\ indent(block[k]) = n

NotBlank(o) == {i \in 1..Len(o) : ~is_whitespace_line(o[i])}

LEMMA NotBlankIs ==
  ASSUME NEW o, LinesOnly(o)
  PROVE  /\ Len(o) \in Nat /\ DOMAIN o = 1..Len(o) /\ NotBlank(o) \in SUBSET (1..Len(o))
         /\ SelectInSeq(o, LAMBDA l : ~is_whitespace_line(l)) = IF NotBlank(o) # {} THEN Min(NotBlank(o)) ELSE 0
         /\ SelectLastInSeq(o, LAMBDA l : ~is_whitespace_line(l)) = IF NotBlank(o) # {} THEN Max(NotBlank(o)) ELSE 0
<1>1. Len(o) \in Nat /\ DOMAIN o = 1..Len(o)
  BY Positioned DEF LinesOnly
<1>2. SelectInSeq(o, LAMBDA l : ~is_whitespace_line(l)) = IF NotBlank(o) # {} THEN Min(NotBlank(o)) ELSE 0
  BY Zenon DEF SelectInSeq, NotBlank
<1>3. SelectLastInSeq(o, LAMBDA l : ~is_whitespace_line(l)) = IF NotBlank(o) # {} THEN Max(NotBlank(o)) ELSE 0
  BY Zenon DEF SelectLastInSeq, NotBlank
<1>4. NotBlank(o) \in SUBSET (1..Len(o))
  BY DEF NotBlank
<1> QED BY <1>1, <1>2, <1>3, <1>4

\* common is the least indentation of the lines that are not blank
LEMMA CommonIs ==
  ASSUME NEW block, LinesOnly(block), NEW i \in 1..Len(block), ~is_whitespace_line(block[i])
  PROVE  /\ common(block) \in Nat
         /\ \A k \in 1..Len(block) : ~is_whitespace_line(block[k]) => common(block) <= indent(block[k])
         /\ \E k \in 1..Len(block) : ~is_whitespace_line(block[k]) /\ indent(block[k]) = common(block)
<1> DEFINE indents == {indent(l) : l \in {m \in ToSet(block) : ~is_whitespace_line(m)}}
<1>1. /\ \A x \in ToSet(block) : \E k \in 1..Len(block) : x = block[k]
      /\ \A k \in 1..Len(block) : block[k] \in ToSet(block)
      /\ \A l \in ToSet(block) : Line(l)
  BY Positioned DEF LinesOnly
<1>2. \A l \in ToSet(block) : ~is_whitespace_line(l) => indent(l) \in Nat
  <2> SUFFICES ASSUME NEW l \in ToSet(block), ~is_whitespace_line(l) PROVE indent(l) \in Nat
    OBVIOUS
  <2>1. IsSequence(l) /\ Len(l) \in Nat
    BY <1>1, Positioned DEF Line
  <2>2. indent(l) \in 0..Len(l) - 1
    BY <2>1, IndentIs
  <2> QED BY <2>1, <2>2
<1>3. indents \in SUBSET Nat /\ indents # {}
  BY <1>1, <1>2
<1>4. common(block) = CHOOSE n \in indents : \A m \in indents : n <= m
  BY DEF common
<1>5. /\ \A k \in 1..Len(block) : ~is_whitespace_line(block[k]) => indent(block[k]) \in indents
      /\ \A n \in indents : \E k \in 1..Len(block) : ~is_whitespace_line(block[k]) /\ indent(block[k]) = n
  BY <1>1
<1> HIDE DEF indents
<1>6. common(block) \in indents /\ \A m \in indents : common(block) <= m
  <2>1. \E n \in indents : \A m \in indents : n <= m
    BY <1>3, LeastNumber
  <2> QED BY <1>4, <2>1
<1> QED BY <1>3, <1>5, <1>6

\* minimize loses blank lines at both ends, and moves the lines that are left
LEMMA Minimized ==
  ASSUME NEW o, LinesOnly(o)
  PROVE  \E pre, block, post : \E n \in Nat : Kept(o, pre, block, post, n)
<1>1. IsSequence(o)
  BY DEF LinesOnly
<1>2. CASE NotBlank(o) = {}
  <2>1. minimize(o) = <<>>
    <3>1. SelectInSeq(o, LAMBDA l : ~is_whitespace_line(l)) = 0
      BY <1>2, NotBlankIs
    <3> QED BY <3>1 DEF minimize
  <2>2. AllBlank(o)
    BY <1>2, NotBlankIs DEF AllBlank, NotBlank
  <2>3. PICK e : e = <<>>
    OBVIOUS
  <2>4. LinesOnly(e) /\ IsSequence(e) /\ DOMAIN e = {} /\ Len(e) = 0
    BY <2>3, JoinedSmall, EmptySequence
  <2>5. AllBlank(e)
    BY <2>4 DEF AllBlank
  <2>6. e \o e = e /\ o \o e = o
    BY <1>1, <2>3, <2>4, EmptyConcat
  <2>7. o = o \o (e \o e)
    BY <2>6, Zenon
  <2>8. \A k \in 1..Len(e) : FALSE
    BY <2>4
  <2>9. Kept(o, o, e, e, 0)
    BY <2>1, <2>2, <2>3, <2>4, <2>5, <2>7, <2>8, Zenon DEF Kept
  <2> QED BY <2>9
<1>3. CASE NotBlank(o) # {}
  <2>1. PICK a, b, c : a = Min(NotBlank(o)) /\ b = Max(NotBlank(o)) /\ c = a - 1
    OBVIOUS
  <2>2. a \in NotBlank(o) /\ b \in NotBlank(o) /\ \A i \in NotBlank(o) : a <= i /\ i <= b
    BY <1>3, <2>1, NotBlankIs, FirstAndLast
  <2>3. PICK z : z = Len(o)
    OBVIOUS
  <2>4. a \in 1..z /\ b \in 1..z /\ a <= b /\ z \in Nat /\ c \in Nat /\ c + 1 = a /\ ~is_whitespace_line(o[a])
    BY <2>1, <2>2, <2>3, NotBlankIs DEF NotBlank
  <2>5. PICK pre, block, post : pre = SubSeq(o, 1, c) /\ block = SubSeq(o, a, b) /\ post = SubSeq(o, b + 1, z)
    OBVIOUS
  <2>6. o = pre \o (block \o post)
    <3>1. c <= b /\ b <= Len(o) /\ b \in Nat
      BY <2>3, <2>4
    <3>2. o = SubSeq(o, 1, c) \o (SubSeq(o, c + 1, b) \o SubSeq(o, b + 1, Len(o)))
      BY <1>1, <2>4, <3>1, Cut
    <3> QED BY <2>3, <2>4, <2>5, <3>2
  <2>7. LinesOnly(pre) /\ AllBlank(pre)
    <3>1. PICK f : f = 1
      OBVIOUS
    <3>2. f \in Nat /\ 1 <= f /\ f <= c + 1 /\ c <= Len(o) /\ c \in Nat /\ c + 1 - f = c
      BY <2>3, <2>4, <3>1
    <3>3. LinesOnly(pre) /\ Len(pre) = c /\ \A i \in 1..c : pre[i] = o[f - 1 + i]
      BY <2>5, <3>1, <3>2, ListPart
    <3>4. \A i \in 1..c : f - 1 + i = i /\ i \notin NotBlank(o) /\ i \in 1..Len(o)
      BY <2>2, <2>3, <2>4, <3>1
    <3>5. \A i \in 1..c : is_whitespace_line(pre[i])
      BY <3>3, <3>4 DEF NotBlank
    <3>6. DOMAIN pre = 1..c
      BY <3>3, Positioned DEF LinesOnly
    <3> QED BY <3>3, <3>5, <3>6 DEF AllBlank
  <2>8. LinesOnly(post) /\ AllBlank(post)
    <3>1. PICK f : f = b + 1
      OBVIOUS
    <3>2. f \in Nat /\ 1 <= f /\ f <= z + 1 /\ z <= Len(o) /\ z \in Nat /\ z + 1 - f = z - b
      BY <2>3, <2>4, <3>1
    <3>3. LinesOnly(post) /\ Len(post) = z - b /\ \A i \in 1..z - b : post[i] = o[f - 1 + i]
      BY <2>5, <3>1, <3>2, ListPart
    <3>4. \A i \in 1..z - b : f - 1 + i \notin NotBlank(o) /\ f - 1 + i \in 1..Len(o)
      BY <2>2, <2>3, <2>4, <3>1
    <3>5. \A i \in 1..z - b : is_whitespace_line(post[i])
      BY <3>3, <3>4 DEF NotBlank
    <3>6. DOMAIN post = 1..z - b
      BY <3>3, Positioned DEF LinesOnly
    <3> QED BY <3>3, <3>5, <3>6 DEF AllBlank
  <2>9. LinesOnly(block) /\ Len(block) = b + 1 - a /\ DOMAIN block = 1..Len(block) /\ Len(block) \in Nat
    <3>1. a \in Nat /\ 1 <= a /\ a <= b + 1 /\ b <= Len(o) /\ b \in Nat
      BY <2>3, <2>4
    <3>2. LinesOnly(block) /\ Len(block) = b + 1 - a
      BY <2>5, <3>1, ListPart
    <3> QED BY <3>2, Positioned DEF LinesOnly
  <2>10. 1 \in 1..Len(block) /\ ~is_whitespace_line(block[1])
    <3>1. a \in Nat /\ 1 <= a /\ a <= b + 1 /\ b <= Len(o) /\ b \in Nat
      BY <2>3, <2>4
    <3>2. \A i \in 1..b + 1 - a : block[i] = o[a - 1 + i]
      BY <2>5, <3>1, ListPart
    <3>3. 1 \in 1..b + 1 - a /\ a - 1 + 1 = a
      BY <2>4
    <3> QED BY <2>4, <2>9, <3>2, <3>3
  <2>11. PICK n : n = common(block)
    OBVIOUS
  <2>12. /\ n \in Nat
         /\ \A k \in 1..Len(block) : ~is_whitespace_line(block[k]) => n <= indent(block[k])
         /\ \E k \in 1..Len(block) : ~is_whitespace_line(block[k]) /\ indent(block[k]) = n
    BY <2>9, <2>10, <2>11, CommonIs
  <2>13. minimize(o) = [k \in 1..Len(block) |-> SubSeq(block[k], n + 1, Len(block[k]))]
    <3>1. /\ SelectInSeq(o, LAMBDA l : ~is_whitespace_line(l)) = a
          /\ SelectLastInSeq(o, LAMBDA l : ~is_whitespace_line(l)) = b
      BY <1>3, <2>1, NotBlankIs
    <3>2. a # 0
      BY <2>4
    <3>3. minimize(o) = [k \in DOMAIN block |-> SubSeq(block[k], n + 1, Len(block[k]))]
      BY <2>5, <2>11, <3>1, <3>2 DEF minimize
    <3> QED BY <2>9, <3>3
  <2>14. IsSequence(minimize(o)) /\ Len(minimize(o)) = Len(block)
    BY <2>9, <2>13, TableSequence
  <2>15. \A k \in 1..Len(block) : Moved(block[k], minimize(o)[k], n)
    <3> SUFFICES ASSUME NEW k \in 1..Len(block) PROVE Moved(block[k], minimize(o)[k], n)
      OBVIOUS
    <3>1. PICK l : l = block[k]
      OBVIOUS
    <3>2. Line(l)
      BY <2>9, <3>1, Positioned DEF LinesOnly
    <3>3. Moved(l, SubSeq(l, n + 1, Len(l)), n)
      BY <2>12, <3>1, <3>2, MovedIs
    <3>4. minimize(o)[k] = SubSeq(l, n + 1, Len(l))
      BY <2>13, <3>1
    <3> QED BY <3>1, <3>3, <3>4
  <2>16. Kept(o, pre, block, post, n)
    BY <2>6, <2>7, <2>8, <2>9, <2>12, <2>14, <2>15, Zenon DEF Kept
  <2> QED BY <2>12, <2>16
<1> QED BY <1>2, <1>3

-----------------------------------------------------------------------------
(* The lines that split and minimize make of a text                        *)

\* Only the end of the last line is lost by split
LEMMA SplitJoined ==
  ASSUME NEW t, IsSequence(t)
  PROVE  /\ LinesOnly(split(t))
         /\ t = Joined(split(t)) \/ t \o <<NL>> = Joined(split(t))
<1>1. PICK M, l : LinesOnly(M) /\ Line(l) /\ t = Joined(M) \o l
  BY TextSpelled
<1>2. split(t) = IF l = <<>> THEN M ELSE Append(M, l)
  BY <1>1, SplitIs
<1>3. IsSequence(l) /\ IsSequence(Joined(M))
  BY <1>1, EndedSequences DEF Line, Joined
<1>4. CASE l = <<>>
  <2>1. PICK j : j = Joined(M)
    OBVIOUS
  <2>2. j \o <<>> = j
    BY <1>3, <2>1, EmptyConcat
  <2> QED BY <1>1, <1>2, <1>4, <2>1, <2>2
<1>5. CASE l # <<>>
  <2>1. PICK j, e : j = Joined(M) /\ e = <<NL>>
    OBVIOUS
  <2>2. IsSequence(e)
    BY <2>1, SingleSequence
  <2>3. (j \o l) \o e = j \o (l \o e)
    BY <1>3, <2>1, <2>2, Associative
  <2>4. Append(l, NL) = l \o e
    BY <1>1, <2>1, LineEnds
  <2>5. LinesOnly(Append(M, l)) /\ Joined(Append(M, l)) = j \o Append(l, NL)
    BY <1>1, <2>1, JoinedAppend
  <2> QED BY <1>1, <1>2, <1>5, <2>1, <2>3, <2>4, <2>5, Zenon
<1> QED BY <1>4, <1>5

LEMMA ListLine ==
  ASSUME NEW L, LinesOnly(L), NEW k \in 1..Len(L)
  PROVE  Line(L[k])
BY Positioned DEF LinesOnly

LEMMA ListSequences ==
  ASSUME NEW L, LinesOnly(L)
  PROVE  Sequences(L)
BY DEF LinesOnly, Line, Sequences

\* to_vec gives lines
LEMMA MinimizedLines ==
  ASSUME NEW t, IsSequence(t)
  PROVE  LinesOnly(to_vec(t))
<1>1. PICK o : o = split(t)
  OBVIOUS
<1>2. LinesOnly(o)
  BY <1>1, SplitJoined
<1>3. PICK pre, block, post : \E n \in Nat : Kept(o, pre, block, post, n)
  BY <1>2, Minimized
<1>4. PICK n \in Nat : Kept(o, pre, block, post, n)
  BY <1>3
<1>5. PICK m : m = minimize(o)
  OBVIOUS
<1>6. IsSequence(m) /\ Len(m) = Len(block) /\ \A k \in 1..Len(block) : Line(m[k])
  BY <1>4, <1>5 DEF Kept, Moved
<1>7. \A x \in ToSet(m) : \E k \in 1..Len(m) : x = m[k]
  BY <1>6, Positioned
<1>8. LinesOnly(m)
  BY <1>6, <1>7 DEF LinesOnly
<1> QED BY <1>1, <1>5, <1>8 DEF to_vec

-----------------------------------------------------------------------------
(* The words of a line                                                     *)

LEMMA StartIs == IsState(Start) /\ Start = Closed(<<>>) /\ Start.in = "code" /\ IsSequence(<<>>)
<1>1. PICK e : e = <<>>
  OBVIOUS
<1>2. IsSequence(e)
  BY <1>1, EmptySequence
<1>3. IsState(Closed(e)) /\ Start = Closed(<<>>) /\ Closed(e).in = "code"
  BY <1>2, ClosedIs
<1> QED BY <1>1, <1>2, <1>3

\* Each line is read alone as in its place in the text
LEMMA LinesAlone ==
  ASSUME NEW L, LinesOnly(L), LinesApart(L), NEW k \in 1..Len(L)
  PROVE  Words(L[k]).in = "code" \/ (Words(L[k]).in = "comment" /\ k = Len(L))
<1>1. PICK z, j, f : z = Len(L) /\ j = k - 1 /\ f = 1
  OBVIOUS
<1>2. z \in Nat /\ DOMAIN L = 1..z /\ k \in 1..z /\ j \in Nat /\ j \in 0..z - 1 /\ j + 1 = k
  BY <1>1, Positioned DEF LinesOnly
<1>3. PICK p, l : p = FlattenSeq(SubSeq(L, 1, j)) /\ l = L[k]
  OBVIOUS
<1>4. IsSequence(p) /\ IsSequence(l) /\ FlattenSeq(SubSeq(L, 1, k)) = p \o l
  <2>1. PICK M : M = SubSeq(L, 1, j)
    OBVIOUS
  <2>2. LinesOnly(M)
    <3>1. f \in Nat /\ 1 <= f /\ f <= j + 1 /\ j <= Len(L)
      BY <1>1, <1>2
    <3>2. LinesOnly(SubSeq(L, f, j))
      BY <1>2, <3>1, ListPart
    <3> QED BY <1>1, <2>1, <3>2
  <2>3. SubSeq(L, 1, j + 1) = Append(SubSeq(L, 1, j), L[j + 1])
    BY <1>1, <1>2, Beginnings DEF LinesOnly
  <2>4. SubSeq(L, 1, k) = Append(M, l)
    BY <1>2, <1>3, <2>1, <2>3
  <2>5. IsSequence(l)
    BY <1>3, ListLine DEF Line
  <2>6. IsSequence(p)
    BY <1>3, <2>1, <2>2, ListSequences, FlattenSequence
  <2>7. FlattenSeq(Append(M, l)) = FlattenSeq(M) \o l
    BY <2>2, <2>5, FlattenAppend DEF LinesOnly
  <2> QED BY <1>3, <2>1, <2>4, <2>5, <2>6, <2>7, Zenon
<1>5. Words(p).in = "code"
  <2>1. CASE j = 0
    <3>1. p = <<>>
      BY <1>3, <2>1, FlattenEmpty, Beginnings DEF LinesOnly
    <3>2. Scan(Closed(<<>>), p) = Closed(<<>>)
      <4>1. PICK e : e = <<>>
        OBVIOUS
      <4>2. IsSequence(e) /\ ToSet(e) \subseteq {SPACE, NL}
        BY <4>1, EmptySequence
      <4>3. Scan(Closed(e), e) = Closed(e)
        BY <4>2, ScanBlank
      <4> QED BY <3>1, <4>1, <4>3
    <3> QED BY <3>2, StartIs DEF Words
  <2>2. CASE j # 0
    <3>1. j \in DOMAIN L /\ j # Len(L)
      BY <1>1, <1>2, <2>2
    <3> QED BY <1>3, <3>1 DEF LinesApart
  <2> QED BY <2>1, <2>2
<1>6. Words(p \o l).in = "code" \/ (Words(p \o l).in = "comment" /\ k = Len(L))
  BY <1>2, <1>4 DEF LinesApart
<1>7. Scan(Start, p \o l) = Scan(Scan(Start, p), l)
  BY <1>4, ScanConcat
<1>8. Scan(Scan(Start, p), l).in = Scan(Start, l).in
  <2>1. PICK r, s : r = Scan(Start, p) /\ s = Start
    OBVIOUS
  <2>2. IsState(r) /\ IsState(s) /\ r.in = s.in
    BY <1>4, <1>5, <2>1, StartIs, ScanStates DEF Words
  <2>3. Scan(r, l).in = Scan(s, l).in
    BY <1>4, <2>2, ScanMode
  <2> QED BY <2>1, <2>3
<1>9. Words(p \o l).in = Words(l).in
  BY <1>7, <1>8 DEF Words
<1> QED BY <1>3, <1>6, <1>9

\* SPACEs at the end of a line, and around it
LEMMA TailWords ==
  ASSUME NEW m, IsSequence(m), NEW c, Spaces(c)
  PROVE  /\ Words(m \o c).in = Words(m).in
         /\ Words(m).in # "literal" => Words(m \o c).words = Words(m).words
<1>1. IsSequence(c) /\ ToSet(c) \subseteq {SPACE}
  BY DEF Spaces
<1>2. PICK s : s = Scan(Start, m)
  OBVIOUS
<1>3. IsState(s)
  BY <1>2, StartIs, ScanStates
<1>4. Scan(s, c).in = s.in /\ (s.in # "literal" => EndOfWord(Scan(s, c)) = EndOfWord(s))
  BY <1>1, <1>3, ScanSpaces
<1>5. Scan(Start, m \o c) = Scan(s, c)
  BY <1>1, <1>2, ScanConcat
<1> QED BY <1>2, <1>4, <1>5 DEF Words

\* trim leaves the words of a line
LEMMA TrimWords ==
  ASSUME NEW l, Line(l)
  PROVE  /\ IsSequence(trim(l)) /\ Words(trim(l)).in = Words(l).in
         /\ Words(l).in # "literal" => Words(trim(l)).words = Words(l).words
<1>1. PICK m : m = trim(l)
  OBVIOUS
<1>2. IsSequence(m)
  BY <1>1, TrimIs
<1>3. PICK pre, post : Spaces(pre) /\ Spaces(post) /\ l = pre \o (m \o post)
  BY <1>1, TrimIs
<1>4. PICK n : n = m \o post
  OBVIOUS
<1>5. IsSequence(n) /\ IsSequence(pre) /\ ToSet(pre) \subseteq {SPACE, NL}
  BY <1>2, <1>3, <1>4, ConcatSequences DEF Spaces
<1>6. Words(l) = Words(n)
  <2>1. Scan(Start, pre) = Start
    BY <1>5, StartIs, ScanBlank
  <2>2. Scan(Start, pre \o n) = Scan(Scan(Start, pre), n)
    BY <1>5, ScanConcat
  <2> QED BY <1>3, <1>4, <2>1, <2>2 DEF Words
<1>7. Words(n).in = Words(m).in /\ (Words(m).in # "literal" => Words(n).words = Words(m).words)
  BY <1>2, <1>3, <1>4, TailWords
<1> QED BY <1>1, <1>2, <1>6, <1>7

-----------------------------------------------------------------------------
(* The words of a text in lines                                            *)

LEMMA AddsMore ==
  ASSUME NEW b, IsSequence(b), ToSet(b) \subseteq {SPACE, NL}, NEW t, NEW W, Adds(t, W)
  PROVE  Adds(b \o t, W) /\ Adds(t \o b, W)
<1>1. PICK e : e = <<>>
  OBVIOUS
<1>2. Adds(b, e)
  BY <1>1, AddsBlank
<1>3. Adds(b \o t, e \o W) /\ Adds(t \o b, W \o e)
  BY <1>2, AddsConcat
<1>4. e \o W = W /\ W \o e = W
  BY <1>1, EmptyConcat DEF Adds
<1> QED BY <1>3, <1>4, Zenon

\* When the last of the texts needs the end of its line
LEMMA AddsLast ==
  ASSUME NEW P, Sequences(P), NEW V, IsSequence(V), Len(P) = Len(V), Len(P) # 0,
         \A k \in 1..Len(P) : Adds(P[k], V[k]) \/ (k = Len(P) /\ Adds(P[k] \o <<NL>>, V[k]))
  PROVE  Adds(FlattenSeq(P), FlattenSeq(V)) \/ Adds(FlattenSeq(P) \o <<NL>>, FlattenSeq(V))
<1>1. PICK n, j, w : n = Len(P) /\ j = n - 1 /\ w = <<NL>>
  OBVIOUS
<1>2. n \in Nat /\ j \in Nat /\ j + 1 = n /\ IsSequence(P) /\ IsSequence(w) /\ j \in 0..n - 1
  BY <1>1, Positioned, SingleSequence DEF Sequences
<1>3. CASE \A k \in 1..Len(P) : Adds(P[k], V[k])
  BY <1>3, AddsFlatten DEF Sequences
<1>4. CASE Adds(P[n] \o w, V[n]) /\ \A k \in 1..j : Adds(P[k], V[k])
  <2>1. PICK Q, U, p, v : Q = SubSeq(P, 1, j) /\ U = SubSeq(V, 1, j) /\ p = P[n] /\ v = V[n]
    OBVIOUS
  <2>2. P = Append(Q, p) /\ V = Append(U, v)
    <3>1. SubSeq(P, 1, j + 1) = Append(SubSeq(P, 1, j), P[j + 1]) /\ SubSeq(P, 1, Len(P)) = P
      BY <1>1, <1>2, Beginnings
    <3>2. SubSeq(V, 1, j + 1) = Append(SubSeq(V, 1, j), V[j + 1]) /\ SubSeq(V, 1, Len(V)) = V
      BY <1>1, <1>2, Beginnings
    <3> QED BY <1>1, <1>2, <2>1, <3>1, <3>2
  <2>3. /\ IsSequence(Q) /\ Len(Q) = j /\ \A k \in 1..j : Q[k] = P[k]
        /\ IsSequence(U) /\ Len(U) = j /\ \A k \in 1..j : U[k] = V[k]
    <3>1. PICK a, f : a = 0 /\ f = a + 1
      OBVIOUS
    <3>2. a \in Nat /\ a <= j /\ j <= Len(P) /\ j <= Len(V) /\ j - a = j /\ \A k \in 1..j : a + k = k
      BY <1>1, <1>2, <3>1
    <3>3. Q = SubSeq(P, f, j) /\ U = SubSeq(V, f, j)
      BY <2>1, <3>1
    <3>4. Q = SubSeq(P, a + 1, j) /\ U = SubSeq(V, a + 1, j)
      BY <3>1, <3>3, Zenon
    <3>5. IsSequence(Q) /\ Len(Q) = j /\ \A k \in 1..j : Q[k] = P[a + k]
      BY <1>2, <3>2, <3>4, Slice
    <3>6. IsSequence(U) /\ Len(U) = j /\ \A k \in 1..j : U[k] = V[a + k]
      BY <1>2, <3>2, <3>4, Slice
    <3> QED BY <3>2, <3>5, <3>6
  <2>4. Adds(FlattenSeq(Q), FlattenSeq(U))
    <3>1. \A k \in 1..Len(Q) : Adds(Q[k], U[k])
      BY <1>4, <2>3
    <3> QED BY <2>3, <3>1, AddsFlatten
  <2>5. PICK x, y : x = FlattenSeq(Q) /\ y = FlattenSeq(U)
    OBVIOUS
  <2>6. Adds(x \o (p \o w), y \o v)
    BY <1>4, <2>1, <2>4, <2>5, AddsConcat
  <2>7. IsSequence(p) /\ IsSequence(v) /\ IsSequence(x)
    <3>1. n \in 1..Len(P)
      BY <1>1, <1>2
    <3>2. p \in ToSet(P)
      BY <1>2, <2>1, <3>1, Positioned
    <3> QED BY <1>4, <2>1, <2>4, <2>5, <3>2 DEF Sequences, Adds
  <2>8. FlattenSeq(P) = x \o p /\ FlattenSeq(V) = y \o v
    BY <2>2, <2>3, <2>5, <2>7, FlattenAppend
  <2>9. (x \o p) \o w = x \o (p \o w)
    BY <1>2, <2>7, Associative
  <2> QED BY <1>1, <2>6, <2>8, <2>9, Zenon
<1>5. (\A k \in 1..Len(P) : Adds(P[k], V[k])) \/ (Adds(P[n] \o w, V[n]) /\ \A k \in 1..j : Adds(P[k], V[k]))
  <2>1. n \in 1..Len(P) /\ \A k \in 1..Len(P) : k = n \/ k \in 1..j
    BY <1>1, <1>2
  <2>2. \A k \in 1..j : k \in 1..Len(P) /\ k # Len(P)
    BY <1>1, <1>2
  <2> QED BY <1>1, <2>1, <2>2
<1> QED BY <1>3, <1>4, <1>5

WordsOfLines(L) == [k \in 1..Len(L) |-> Words(L[k]).words]

\* A line adds its words, whether its end is a line end or, without a comment,
\* a SPACE
LEMMA LineWords ==
  ASSUME NEW l, Line(l), NEW n, Words(l).in = "code" \/ (Words(l).in = "comment" /\ n)
  PROVE  /\ Adds(l \o <<NL>>, Words(l).words) /\ Words(l).in # "literal"
         /\ \/ Adds(Append(trim(l), SPACE), Words(l).words)
            \/ n /\ Adds(Append(trim(l), SPACE) \o <<NL>>, Words(l).words)
<1>1. PICK m, s, r : m = trim(l) /\ s = <<SPACE>> /\ r = m \o s
  OBVIOUS
<1>2. Words(l).in # "literal"
  OBVIOUS
<1>3. PICK a : a = NL
  OBVIOUS
<1>4. Adds(l \o <<a>>, Words(l).words)
  BY <1>2, <1>3, AddsLine DEF Line
<1>5. IsSequence(m) /\ Words(m).in = Words(l).in /\ Words(m).words = Words(l).words
  BY <1>1, <1>2, TrimWords
<1>6. Spaces(s) /\ Append(m, SPACE) = r /\ IsSequence(r)
  BY <1>1, <1>5, SingleSequence, AppendSequence DEF Spaces
<1>7. CASE Words(l).in = "code"
  <2>1. PICK c : c = SPACE
    OBVIOUS
  <2>2. Adds(m \o <<c>>, Words(m).words)
    BY <1>5, <1>7, <2>1, AddsLine
  <2> QED BY <1>1, <1>2, <1>3, <1>4, <1>5, <1>6, <2>1, <2>2
<1>8. CASE Words(l).in = "comment" /\ n
  <2>1. Words(r).in # "literal" /\ Words(r).words = Words(l).words
    BY <1>1, <1>2, <1>5, <1>6, TailWords
  <2>2. Adds(r \o <<a>>, Words(r).words)
    BY <1>3, <1>6, <2>1, AddsLine
  <2> QED BY <1>1, <1>2, <1>3, <1>4, <1>6, <1>8, <2>1, <2>2
<1> QED BY <1>7, <1>8

\* The words of the lines of a statement
LEMMA WordsOfLinesIs ==
  ASSUME NEW L, LinesOnly(L), LinesApart(L)
  PROVE  /\ Len(L) \in Nat /\ DOMAIN L = 1..Len(L)
         /\ IsSequence(WordsOfLines(L)) /\ Len(WordsOfLines(L)) = Len(L)
         /\ \A k \in 1..Len(L) :
              /\ Line(L[k]) /\ WordsOfLines(L)[k] = Words(L[k]).words /\ Words(L[k]).in # "literal"
              /\ Adds(L[k] \o <<NL>>, Words(L[k]).words)
              /\ \/ Adds(Append(trim(L[k]), SPACE), Words(L[k]).words)
                 \/ k = Len(L) /\ Adds(Append(trim(L[k]), SPACE) \o <<NL>>, Words(L[k]).words)
<1>1. Len(L) \in Nat /\ DOMAIN L = 1..Len(L)
  BY Positioned DEF LinesOnly
<1>2. IsSequence(WordsOfLines(L)) /\ Len(WordsOfLines(L)) = Len(L)
  BY <1>1, TableSequence DEF WordsOfLines
<1>3. ASSUME NEW k \in 1..Len(L)
      PROVE  /\ Line(L[k]) /\ WordsOfLines(L)[k] = Words(L[k]).words /\ Words(L[k]).in # "literal"
             /\ Adds(L[k] \o <<NL>>, Words(L[k]).words)
             /\ \/ Adds(Append(trim(L[k]), SPACE), Words(L[k]).words)
                \/ k = Len(L) /\ Adds(Append(trim(L[k]), SPACE) \o <<NL>>, Words(L[k]).words)
  <2>1. PICK l, n : l = L[k] /\ n = (k = Len(L))
    OBVIOUS
  <2>2. Line(l) /\ (Words(l).in = "code" \/ (Words(l).in = "comment" /\ n))
    BY <2>1, ListLine, LinesAlone
  <2>3. /\ Adds(l \o <<NL>>, Words(l).words) /\ Words(l).in # "literal"
        /\ \/ Adds(Append(trim(l), SPACE), Words(l).words)
           \/ n /\ Adds(Append(trim(l), SPACE) \o <<NL>>, Words(l).words)
    BY <2>2, LineWords
  <2>4. WordsOfLines(L)[k] = Words(l).words
    BY <2>1 DEF WordsOfLines
  <2> QED BY <2>1, <2>2, <2>3, <2>4, Zenon
<1> QED BY <1>1, <1>2, <1>3

\* one_line, with a line end after the last line when it is a comment
LEMMA OneLineAdds ==
  ASSUME NEW L, LinesOnly(L), LinesApart(L)
  PROVE  /\ IsSequence(one_line(L))
         /\ Words(one_line(L)).words = FlattenSeq(WordsOfLines(L))
<1>1. PICK P, V : P = [k \in DOMAIN L |-> Append(trim(L[k]), SPACE)] /\ V = WordsOfLines(L)
  OBVIOUS
<1>2. /\ Len(L) \in Nat /\ DOMAIN L = 1..Len(L) /\ IsSequence(V) /\ Len(V) = Len(L)
      /\ \A k \in 1..Len(L) :
           /\ Line(L[k]) /\ V[k] = Words(L[k]).words
           /\ \/ Adds(Append(trim(L[k]), SPACE), Words(L[k]).words)
              \/ k = Len(L) /\ Adds(Append(trim(L[k]), SPACE) \o <<NL>>, Words(L[k]).words)
  BY <1>1, WordsOfLinesIs
<1>3. IsSequence(P) /\ Len(P) = Len(L) /\ \A k \in 1..Len(L) : P[k] = Append(trim(L[k]), SPACE)
  BY <1>1, <1>2, TableSequence
<1>4. Sequences(P)
  <2>1. ASSUME NEW k \in 1..Len(L) PROVE IsSequence(P[k])
    <3>1. IsSequence(trim(L[k]))
      BY <1>2, TrimIs
    <3> QED BY <1>3, <3>1, AppendSequence
  <2>2. \A x \in ToSet(P) : \E k \in 1..Len(L) : x = P[k]
    BY <1>3, Positioned
  <2> QED BY <1>3, <2>1, <2>2 DEF Sequences
<1>5. one_line(L) = FlattenSeq(P)
  BY <1>1 DEF one_line
<1>6. IsSequence(FlattenSeq(P))
  BY <1>4, FlattenSequence
<1>7. \A k \in 1..Len(P) : Adds(P[k], V[k]) \/ (k = Len(P) /\ Adds(P[k] \o <<NL>>, V[k]))
  BY <1>2, <1>3
<1>8. Adds(FlattenSeq(P), FlattenSeq(V)) \/ Adds(FlattenSeq(P) \o <<NL>>, FlattenSeq(V))
  <2>1. CASE Len(P) # 0
    BY <1>2, <1>3, <1>4, <1>7, <2>1, AddsLast
  <2>2. CASE Len(P) = 0
    <3>1. \A k \in 1..Len(P) : FALSE
      BY <2>2
    <3> QED BY <1>2, <1>3, <3>1, AddsFlatten
  <2> QED BY <2>1, <2>2
<1> QED BY <1>1, <1>5, <1>6, <1>8, AddsWords

\* gen_const_sql
LEMMA HeaderTextAdds ==
  ASSUME NEW q, LinesOnly(to_vec(q.sql)), LinesApart(to_vec(q.sql))
  PROVE  Words(sql_text(q)).words = FlattenSeq(WordsOfLines(to_vec(q.sql)))
<1>1. PICK L, V, P : /\ L = to_vec(q.sql) /\ V = WordsOfLines(L)
                     /\ P = [k \in DOMAIN L |-> Indented(sql_offs, L[k])]
  OBVIOUS
<1>2. /\ Len(L) \in Nat /\ DOMAIN L = 1..Len(L) /\ IsSequence(V) /\ Len(V) = Len(L)
      /\ \A k \in 1..Len(L) :
           Line(L[k]) /\ V[k] = Words(L[k]).words /\ Adds(L[k] \o <<NL>>, Words(L[k]).words)
  BY <1>1, WordsOfLinesIs
<1>3. IsSequence(P) /\ Len(P) = Len(L) /\ \A k \in 1..Len(L) : P[k] = Indented(sql_offs, L[k])
  BY <1>1, <1>2, TableSequence
<1>4. ASSUME NEW n \in Nat
      PROVE  LET b == [k \in 1..n |-> SPACE] IN IsSequence(b) /\ ToSet(b) \subseteq {SPACE, NL}
  <2>1. PICK b : b = [k \in 1..n |-> SPACE]
    OBVIOUS
  <2>2. IsSequence(b) /\ ToSet(b) = {b[k] : k \in 1..n}
    BY <2>1, TableSequence
  <2>3. ToSet(b) \subseteq {SPACE, NL}
    BY <2>1, <2>2
  <2> QED BY <2>1, <2>2, <2>3
<1>5. ASSUME NEW k \in 1..Len(L) PROVE Adds(P[k], V[k])
  <2>1. PICK b, l, w : b = [i \in 1..sql_offs |-> SPACE] /\ l = L[k] /\ w = <<NL>>
    OBVIOUS
  <2>2. sql_offs \in Nat
    BY DEF sql_offs
  <2>3. IsSequence(b) /\ ToSet(b) \subseteq {SPACE, NL} /\ IsSequence(l) /\ IsSequence(w)
    BY <1>2, <1>4, <2>1, <2>2, SingleSequence DEF Line
  <2>4. P[k] = (b \o l) \o w
    BY <1>3, <2>1 DEF Indented
  <2>5. (b \o l) \o w = b \o (l \o w)
    BY <2>3, Associative
  <2>6. PICK t : t = l \o w
    OBVIOUS
  <2>7. Adds(t, V[k])
    BY <1>2, <2>1, <2>6
  <2>8. Adds(b \o t, V[k])
    BY <2>3, <2>7, AddsMore
  <2> QED BY <2>4, <2>5, <2>6, <2>8, Zenon
<1>6. Adds(FlattenSeq(P), FlattenSeq(V))
  BY <1>2, <1>3, <1>5, AddsFlatten
<1>7. PICK x, y, w, e : /\ x = FlattenSeq(P) /\ y = FlattenSeq(V) /\ w = <<NL>>
                        /\ e = [k \in 1..sql_offs - 2 |-> SPACE]
  OBVIOUS
<1>8. IsSequence(w) /\ ToSet(w) \subseteq {SPACE, NL} /\ IsSequence(e) /\ ToSet(e) \subseteq {SPACE, NL}
  <2>1. sql_offs - 2 \in Nat
    BY DEF sql_offs
  <2> QED BY <1>4, <1>7, <2>1, SingleSequence
<1>9. sql_text(q) = (w \o x) \o e
  BY <1>1, <1>7 DEF sql_text
<1>10. PICK z : z = w \o x
  OBVIOUS
<1>11. Adds(z, y)
  BY <1>6, <1>7, <1>8, <1>10, AddsMore
<1>12. Adds(z \o e, y)
  BY <1>8, <1>11, AddsMore
<1>13. PICK t : t = z \o e
  OBVIOUS
<1>14. Words(t).words = y
  BY <1>12, <1>13, AddsWords DEF Adds
<1> QED BY <1>1, <1>7, <1>9, <1>10, <1>13, <1>14, Zenon

LEMMA BlankLinesAdd ==
  ASSUME NEW M, LinesOnly(M), AllBlank(M)
  PROVE  IsSequence(Joined(M)) /\ ToSet(Joined(M)) \subseteq {SPACE, NL}
<1>1. PICK E : E = Ended(M)
  OBVIOUS
<1>2. Sequences(E) /\ DOMAIN E = DOMAIN M /\ \A k \in DOMAIN M : E[k] = Append(M[k], NL)
  BY <1>1, EndedSequences DEF Ended
<1>3. IsSequence(FlattenSeq(E)) /\ ToSet(FlattenSeq(E)) = UNION {ToSet(E[k]) : k \in DOMAIN E}
  BY <1>2, FlattenSequence
<1>4. ASSUME NEW k \in DOMAIN E PROVE ToSet(E[k]) \subseteq {SPACE, NL}
  <2>1. PICK l : l = M[k]
    OBVIOUS
  <2>2. Line(l) /\ is_whitespace_line(l)
    BY <1>2, <2>1, Positioned DEF LinesOnly, AllBlank
  <2>3. IsSequence(l) /\ ToSet(l) \subseteq {SPACE}
    BY <2>2, BlankSpaces DEF Spaces
  <2>4. E[k] = Append(l, NL)
    BY <1>2, <2>1
  <2>5. ToSet(Append(l, NL)) = ToSet(l) \cup {NL}
    BY <2>3, AppendSequence
  <2> QED BY <2>3, <2>4, <2>5
<1> QED BY <1>1, <1>3, <1>4 DEF Joined

\* The document
LEMMA DocumentAdds ==
  ASSUME NEW t, IsSequence(t), LinesApart(to_vec(t))
  PROVE  Words(t).words = FlattenSeq(WordsOfLines(to_vec(t)))
<1>1. PICK o, L, V : o = split(t) /\ L = to_vec(t) /\ V = WordsOfLines(L)
  OBVIOUS
<1>2. LinesOnly(o) /\ (t = Joined(o) \/ t \o <<NL>> = Joined(o)) /\ LinesOnly(L) /\ L = minimize(o)
  BY <1>1, SplitJoined, MinimizedLines DEF to_vec
<1>3. /\ Len(L) \in Nat /\ DOMAIN L = 1..Len(L) /\ IsSequence(V) /\ Len(V) = Len(L)
      /\ \A k \in 1..Len(L) :
           Line(L[k]) /\ V[k] = Words(L[k]).words /\ Adds(L[k] \o <<NL>>, Words(L[k]).words)
  BY <1>1, <1>2, WordsOfLinesIs
<1>4. PICK pre, block, post : \E n \in Nat : Kept(o, pre, block, post, n)
  BY <1>2, Minimized
<1>5. PICK n \in Nat : Kept(o, pre, block, post, n)
  BY <1>4
<1>6. /\ o = pre \o (block \o post) /\ LinesOnly(pre) /\ LinesOnly(block) /\ LinesOnly(post)
      /\ AllBlank(pre) /\ AllBlank(post) /\ Len(L) = Len(block)
      /\ \A k \in 1..Len(block) : Moved(block[k], L[k], n)
  BY <1>2, <1>5 DEF Kept
<1>7. PICK rest, a, b, c : /\ rest = block \o post
                           /\ a = Joined(pre) /\ b = Joined(block) /\ c = Joined(post)
  OBVIOUS
<1>8. LinesOnly(rest) /\ Joined(rest) = b \o c /\ Joined(pre \o rest) = a \o Joined(rest)
  <2>1. LinesOnly(rest) /\ Joined(rest) = b \o c
    BY <1>6, <1>7, JoinedConcat
  <2>2. Joined(pre \o rest) = a \o Joined(rest)
    BY <1>6, <1>7, <2>1, JoinedConcat
  <2> QED BY <2>1, <2>2
<1>9. Joined(o) = a \o (b \o c)
  BY <1>6, <1>7, <1>8, Zenon
<1>10. Adds(b, FlattenSeq(V))
  <2>1. PICK E : E = Ended(block)
    OBVIOUS
  <2>2. IsSequence(E) /\ Len(E) = Len(block) /\ DOMAIN E = DOMAIN block /\ \A k \in DOMAIN block : E[k] = Append(block[k], NL)
    BY <1>6, <2>1, EndedSequences DEF Ended, Sequences
  <2>3. DOMAIN block = 1..Len(block)
    BY <1>6, Positioned DEF LinesOnly
  <2>4. ASSUME NEW k \in 1..Len(E) PROVE Adds(E[k], V[k])
    <3>1. PICK l, m, w : l = block[k] /\ m = L[k] /\ w = <<NL>>
      OBVIOUS
    <3>2. PICK s : Spaces(s) /\ l = s \o m
      BY <1>6, <2>2, <3>1 DEF Moved
    <3>3. IsSequence(s) /\ IsSequence(m) /\ IsSequence(w) /\ IsSequence(l) /\ ToSet(s) \subseteq {SPACE, NL}
      <4>1. IsSequence(w) /\ IsSequence(m)
        BY <1>3, <1>6, <2>2, <3>1, SingleSequence DEF Line
      <4>2. IsSequence(l)
        BY <1>6, <2>2, <3>1, ListLine DEF Line
      <4>3. Line(s) /\ ToSet(s) \subseteq {SPACE, NL}
        BY <3>2, SpaceLine
      <4> QED BY <4>1, <4>2, <4>3 DEF Line
    <3>4. E[k] = l \o w
      <4>1. E[k] = Append(l, NL)
        BY <2>2, <2>3, <3>1
      <4>2. Append(l, NL) = l \o w
        BY <3>1, <3>3, AppendSequence
      <4> QED BY <4>1, <4>2, Zenon
    <3>5. (s \o m) \o w = s \o (m \o w)
      BY <3>3, Associative
    <3>6. PICK u : u = m \o w
      OBVIOUS
    <3>7. Adds(u, V[k])
      BY <1>3, <1>6, <2>2, <3>1, <3>6
    <3>8. Adds(s \o u, V[k])
      BY <3>3, <3>7, AddsMore
    <3> QED BY <3>2, <3>4, <3>5, <3>6, <3>8, Zenon
  <2>5. Adds(FlattenSeq(E), FlattenSeq(V))
    BY <1>3, <1>6, <2>2, <2>4, AddsFlatten
  <2> QED BY <1>7, <2>1, <2>5 DEF Joined
<1>11. /\ IsSequence(a) /\ ToSet(a) \subseteq {SPACE, NL}
       /\ IsSequence(c) /\ ToSet(c) \subseteq {SPACE, NL}
  BY <1>6, <1>7, BlankLinesAdd
<1>12. PICK d : d = b \o c
  OBVIOUS
<1>13. Adds(d, FlattenSeq(V))
  BY <1>10, <1>11, <1>12, AddsMore
<1>14. Adds(a \o d, FlattenSeq(V))
  BY <1>11, <1>13, AddsMore
<1>15. Adds(Joined(o), FlattenSeq(V))
  BY <1>9, <1>12, <1>14, Zenon
<1>16. Adds(t, FlattenSeq(V)) \/ Adds(t \o <<NL>>, FlattenSeq(V))
  BY <1>2, <1>15, Zenon
<1> QED BY <1>1, <1>16, AddsWords

\* The statement the generator describes, the one it writes and the one of the
\* document are the same words
LEMMA SameWords ==
  ASSUME NEW q, IsSequence(q.sql), LinesApart(to_vec(q.sql))
  PROVE  Words(sql_text(q)).words = Words(sql(q)).words /\ Words(q.sql).words = Words(sql(q)).words
<1>1. LinesOnly(to_vec(q.sql))
  BY MinimizedLines
<1>2. Words(sql_text(q)).words = FlattenSeq(WordsOfLines(to_vec(q.sql)))
  BY <1>1, HeaderTextAdds
<1>3. Words(q.sql).words = FlattenSeq(WordsOfLines(to_vec(q.sql)))
  BY DocumentAdds
<1>4. Words(sql(q)).words = FlattenSeq(WordsOfLines(to_vec(q.sql)))
  BY <1>1, OneLineAdds DEF sql
<1> QED BY <1>2, <1>3, <1>4

-----------------------------------------------------------------------------
(* The lines of a text that are not blank                                  *)

OneUnlessBlank(l) == IF is_whitespace_line(l) THEN <<>> ELSE <<l>>
SolidParts(M) == [k \in DOMAIN M |-> OneUnlessBlank(M[k])]
SolidLines(M) == FlattenSeq(SolidParts(M))

LEMMA SolidPartsIs ==
  ASSUME NEW M, LinesOnly(M)
  PROVE  /\ Sequences(SolidParts(M)) /\ Len(SolidParts(M)) = Len(M)
         /\ IsSequence(SolidLines(M))
         /\ \A k \in 1..Len(M) : SolidParts(M)[k] = OneUnlessBlank(M[k])
         /\ \A k \in 1..Len(M) : ~is_whitespace_line(M[k]) => M[k] \in ToSet(SolidLines(M))
<1>1. PICK P : P = SolidParts(M)
  OBVIOUS
<1>2. Len(M) \in Nat /\ DOMAIN M = 1..Len(M)
  BY Positioned DEF LinesOnly
<1>3. \A k \in 1..Len(M) : P[k] = OneUnlessBlank(M[k])
  BY <1>1, <1>2 DEF SolidParts
<1>4. P = [k \in 1..Len(M) |-> P[k]]
  BY <1>1, <1>2, Zenon DEF SolidParts
<1>5. IsSequence(P) /\ Len(P) = Len(M) /\ DOMAIN P = 1..Len(M) /\ ToSet(P) = {P[k] : k \in 1..Len(M)}
  BY <1>2, <1>4, TableSequence
<1>6. ASSUME NEW l
      PROVE  IsSequence(OneUnlessBlank(l)) /\ (~is_whitespace_line(l) => l \in ToSet(OneUnlessBlank(l)))
  <2>1. CASE is_whitespace_line(l)
    BY <2>1, EmptySequence DEF OneUnlessBlank
  <2>2. CASE ~is_whitespace_line(l)
    BY <2>2, SingleSequence DEF OneUnlessBlank
  <2> QED BY <2>1, <2>2
<1>7. Sequences(P)
  BY <1>3, <1>5, <1>6 DEF Sequences
<1>8. IsSequence(FlattenSeq(P)) /\ ToSet(FlattenSeq(P)) = UNION {ToSet(P[k]) : k \in DOMAIN P}
  BY <1>7, FlattenSequence
<1>9. ASSUME NEW k \in 1..Len(M), ~is_whitespace_line(M[k]) PROVE M[k] \in ToSet(FlattenSeq(P))
  <2>1. M[k] \in ToSet(P[k])
    BY <1>3, <1>6, <1>9
  <2> QED BY <1>5, <1>8, <2>1
<1> QED BY <1>1, <1>3, <1>5, <1>7, <1>8, <1>9 DEF SolidLines

\* SolidLines, of two parts
LEMMA SolidConcat ==
  ASSUME NEW M, LinesOnly(M), NEW N, LinesOnly(N)
  PROVE  SolidLines(M \o N) = SolidLines(M) \o SolidLines(N)
<1>1. PICK MN : MN = M \o N
  OBVIOUS
<1>2. LinesOnly(MN) /\ IsSequence(M) /\ IsSequence(N) /\ IsSequence(MN)
  BY <1>1, JoinedConcat DEF LinesOnly
<1>3. PICK e, f, g : e = SolidParts(M) /\ f = SolidParts(N) /\ g = SolidParts(MN)
  OBVIOUS
<1>4. /\ Sequences(e) /\ Sequences(f) /\ IsSequence(g)
      /\ Len(e) = Len(M) /\ Len(f) = Len(N) /\ Len(g) = Len(MN)
      /\ \A i \in 1..Len(M) : e[i] = OneUnlessBlank(M[i])
      /\ \A i \in 1..Len(N) : f[i] = OneUnlessBlank(N[i])
      /\ \A i \in 1..Len(MN) : g[i] = OneUnlessBlank(MN[i])
  BY <1>2, <1>3, SolidPartsIs DEF Sequences
<1>5. /\ Len(M) \in Nat /\ Len(N) \in Nat /\ Len(MN) = Len(M) + Len(N)
      /\ \A i \in 1..Len(M) : MN[i] = M[i]
      /\ \A i \in 1..Len(N) : MN[Len(M) + i] = N[i]
  BY <1>1, <1>2, Positioned, ConcatValues
<1>6. /\ \A i \in 1..Len(M) : i \in 1..Len(MN)
      /\ \A i \in 1..Len(N) : Len(M) + i \in 1..Len(MN)
  BY <1>5
<1>7. /\ \A i \in 1..Len(e) : g[i] = e[i]
      /\ \A i \in 1..Len(f) : g[Len(e) + i] = f[i]
  BY <1>4, <1>5, <1>6
<1>8. g = e \o f
  <2>1. IsSequence(e) /\ IsSequence(f) /\ Len(g) = Len(e) + Len(f)
    BY <1>4, <1>5 DEF Sequences
  <2> QED BY <1>4, <1>7, <2>1, ConcatIs
<1>9. FlattenSeq(e \o f) = FlattenSeq(e) \o FlattenSeq(f)
  BY <1>4, FlattenConcat
<1> QED BY <1>1, <1>3, <1>8, <1>9, Zenon DEF SolidLines

LEMMA SolidBlank ==
  ASSUME NEW M, LinesOnly(M), AllBlank(M)
  PROVE  SolidLines(M) = <<>>
<1>1. PICK P, s : P = SolidParts(M) /\ s = FlattenSeq(P)
  OBVIOUS
<1>2. /\ Sequences(P) /\ Len(P) = Len(M) /\ \A k \in 1..Len(M) : P[k] = OneUnlessBlank(M[k])
      /\ DOMAIN M = 1..Len(M) /\ DOMAIN P = 1..Len(P)
  BY <1>1, SolidPartsIs, Positioned DEF LinesOnly, Sequences
<1>3. IsSequence(s) /\ ToSet(s) = UNION {ToSet(P[k]) : k \in DOMAIN P}
  BY <1>1, <1>2, FlattenSequence
<1>4. \A k \in DOMAIN P : ToSet(P[k]) = {}
  BY <1>2, EmptySequence DEF AllBlank, OneUnlessBlank
<1>5. ToSet(s) = {}
  BY <1>3, <1>4
<1>6. Len(s) \in Nat /\ \A i \in 1..Len(s) : s[i] \in ToSet(s)
  BY <1>3, Positioned
<1>7. Len(s) = 0
  <2> SUFFICES ASSUME Len(s) # 0 PROVE FALSE
    OBVIOUS
  <2>1. 1 \in 1..Len(s)
    BY <1>6
  <2> QED BY <1>5, <1>6, <2>1
<1>8. s = <<>>
  BY <1>3, <1>7, LengthZero
<1> QED BY <1>1, <1>8 DEF SolidLines

\* A line more
LEMMA SolidAppend ==
  ASSUME NEW M, LinesOnly(M), NEW l, Line(l)
  PROVE  LinesOnly(Append(M, l)) /\ SolidLines(Append(M, l)) = SolidLines(M) \o OneUnlessBlank(l)
<1>1. PICK N : N = <<l>>
  OBVIOUS
<1>2. LinesOnly(N) /\ IsSequence(N) /\ Len(N) = 1 /\ N[1] = l
  BY <1>1, JoinedSmall, SingleSequence
<1>3. Append(M, l) = M \o N /\ LinesOnly(M \o N)
  BY <1>1, <1>2, AppendSequence, JoinedConcat DEF LinesOnly
<1>4. SolidLines(M \o N) = SolidLines(M) \o SolidLines(N)
  BY <1>2, SolidConcat
<1>5. PICK P, x : P = SolidParts(N) /\ x = OneUnlessBlank(l)
  OBVIOUS
<1>6. IsSequence(P) /\ Len(P) = 1 /\ P[1] = x
  BY <1>2, <1>5, SolidPartsIs DEF Sequences
<1>7. IsSequence(<<x>>) /\ Len(<<x>>) = 1 /\ <<x>>[1] = x
  BY SingleSequence
<1>8. P = <<x>>
  BY <1>6, <1>7, SameSequence
<1>9. IsSequence(x)
  BY <1>5, EmptySequence, SingleSequence DEF OneUnlessBlank
<1>10. FlattenSeq(<<x>>) = x
  BY <1>9, FlattenSingle
<1> QED BY <1>3, <1>4, <1>5, <1>8, <1>10, Zenon DEF SolidLines

-----------------------------------------------------------------------------
(* The same lines, in two texts                                            *)

\* The line w has offs SPACEs where g has n
Shifted(g, w, n, offs) ==
  /\ indent(g) \in Nat /\ n <= indent(g) /\ indent(w) = indent(g) - n + offs
  /\ SubSeq(w, offs + 1, Len(w)) = SubSeq(g, n + 1, Len(g))
AllShifted(x, y, n, offs) ==
  IsSequence(x) /\ IsSequence(y) /\ Len(x) = Len(y) /\ \A k \in 1..Len(x) : Shifted(x[k], y[k], n, offs)

LEMMA OneMore ==
  ASSUME NEW x, IsSequence(x), NEW g
  PROVE  LET a == x \o <<g>>
         IN /\ IsSequence(a) /\ Len(a) = Len(x) + 1 /\ a[Len(x) + 1] = g
            /\ \A i \in 1..Len(x) : a[i] = x[i]
<1>1. PICK u, a, z : u = <<g>> /\ a = x \o u /\ z = 1
  OBVIOUS
<1>2. IsSequence(u) /\ Len(u) = z /\ u[z] = g /\ z \in 1..Len(u)
  BY <1>1, SingleSequence
<1>3. IsSequence(a)
  BY <1>1, <1>2, ConcatSequences
<1>4. Len(a) = Len(x) + Len(u) /\ (\A i \in 1..Len(x) : a[i] = x[i]) /\ \A i \in 1..Len(u) : a[Len(x) + i] = u[i]
  BY <1>1, <1>2, ConcatValues
<1>5. a[Len(x) + z] = g
  BY <1>2, <1>4
<1> QED BY <1>1, <1>2, <1>3, <1>4, <1>5

LEMMA ShiftedOne ==
  ASSUME NEW x, NEW y, NEW n, NEW offs, AllShifted(x, y, n, offs), NEW g, NEW w, Shifted(g, w, n, offs)
  PROVE  AllShifted(x \o <<g>>, y \o <<w>>, n, offs)
<1>1. PICK a, b : a = x \o <<g>> /\ b = y \o <<w>>
  OBVIOUS
<1>2. IsSequence(x) /\ IsSequence(y) /\ Len(x) = Len(y) /\ Len(x) \in Nat
  BY Positioned DEF AllShifted
<1>3. /\ IsSequence(a) /\ Len(a) = Len(x) + 1 /\ a[Len(x) + 1] = g
      /\ \A i \in 1..Len(x) : a[i] = x[i]
  BY <1>1, <1>2, OneMore
<1>4. /\ IsSequence(b) /\ Len(b) = Len(y) + 1 /\ b[Len(y) + 1] = w
      /\ \A i \in 1..Len(y) : b[i] = y[i]
  BY <1>1, <1>2, OneMore
<1>5. ASSUME NEW k \in 1..Len(a) PROVE Shifted(a[k], b[k], n, offs)
  <2>1. CASE k \in 1..Len(x)
    BY <1>2, <1>3, <1>4, <2>1 DEF AllShifted
  <2>2. CASE k = Len(x) + 1
    BY <1>2, <1>3, <1>4, <2>2
  <2> QED BY <1>2, <1>3, <2>1, <2>2
<1> QED BY <1>1, <1>2, <1>3, <1>4, <1>5 DEF AllShifted

\* Lines that are moved one by one are moved when the blank ones are left out
LEMMA SolidShifted ==
  ASSUME NEW M, LinesOnly(M), NEW R, LinesOnly(R), Len(M) = Len(R), NEW n, NEW offs,
         \A k \in 1..Len(M) :
           /\ is_whitespace_line(M[k]) <=> is_whitespace_line(R[k])
           /\ ~is_whitespace_line(M[k]) => Shifted(M[k], R[k], n, offs)
  PROVE  AllShifted(SolidLines(M), SolidLines(R), n, offs)
<1> DEFINE z == Len(M)
           U == {i \in Nat : i \in 0..z =>
                   /\ LinesOnly(SubSeq(M, 1, i)) /\ LinesOnly(SubSeq(R, 1, i))
                   /\ AllShifted(SolidLines(SubSeq(M, 1, i)), SolidLines(SubSeq(R, 1, i)), n, offs)}
<1>1. /\ z \in Nat /\ SubSeq(M, 1, 0) = <<>> /\ SubSeq(M, 1, z) = M
      /\ \A i \in 0..z - 1 : SubSeq(M, 1, i + 1) = Append(SubSeq(M, 1, i), M[i + 1])
  BY Beginnings, Positioned DEF LinesOnly
<1>2. /\ SubSeq(R, 1, 0) = <<>> /\ SubSeq(R, 1, z) = R
      /\ \A i \in 0..z - 1 : SubSeq(R, 1, i + 1) = Append(SubSeq(R, 1, i), R[i + 1])
  BY Beginnings DEF LinesOnly
<1>3. \A k \in 1..z :
        /\ Line(M[k]) /\ Line(R[k])
        /\ is_whitespace_line(M[k]) <=> is_whitespace_line(R[k])
        /\ ~is_whitespace_line(M[k]) => Shifted(M[k], R[k], n, offs)
  BY ListLine
<1> HIDE DEF z
<1>4. 0 \in U
  <2>1. PICK e : e = <<>>
    OBVIOUS
  <2>2. LinesOnly(e) /\ IsSequence(e) /\ Len(e) = 0 /\ DOMAIN e = {}
    BY <2>1, JoinedSmall, EmptySequence
  <2>3. AllBlank(e)
    BY <2>2 DEF AllBlank
  <2>4. SolidLines(e) = e
    BY <2>1, <2>2, <2>3, SolidBlank
  <2>5. \A k \in 1..Len(e) : FALSE
    BY <2>2
  <2>6. AllShifted(e, e, n, offs)
    BY <2>2, <2>5 DEF AllShifted
  <2> QED BY <1>1, <1>2, <2>1, <2>2, <2>4, <2>6
<1>5. ASSUME NEW i \in Nat, i \in U PROVE i + 1 \in U
  <2> SUFFICES ASSUME i + 1 \in 0..z
               PROVE  /\ LinesOnly(SubSeq(M, 1, i + 1)) /\ LinesOnly(SubSeq(R, 1, i + 1))
                      /\ AllShifted(SolidLines(SubSeq(M, 1, i + 1)), SolidLines(SubSeq(R, 1, i + 1)), n, offs)
    OBVIOUS
  <2>1. i \in 0..z /\ i \in 0..z - 1 /\ i + 1 \in 1..z
    BY <1>1
  <2>2. PICK A, B, l, m : A = SubSeq(M, 1, i) /\ B = SubSeq(R, 1, i) /\ l = M[i + 1] /\ m = R[i + 1]
    OBVIOUS
  <2>3. /\ LinesOnly(A) /\ LinesOnly(B) /\ AllShifted(SolidLines(A), SolidLines(B), n, offs)
        /\ Line(l) /\ Line(m) /\ (is_whitespace_line(l) <=> is_whitespace_line(m))
        /\ ~is_whitespace_line(l) => Shifted(l, m, n, offs)
    BY <1>3, <1>5, <2>1, <2>2
  <2>4. PICK x, y : x = SolidLines(A) /\ y = SolidLines(B)
    OBVIOUS
  <2>5. /\ LinesOnly(Append(A, l)) /\ SolidLines(Append(A, l)) = x \o OneUnlessBlank(l)
        /\ LinesOnly(Append(B, m)) /\ SolidLines(Append(B, m)) = y \o OneUnlessBlank(m)
    BY <2>3, <2>4, SolidAppend
  <2>6. AllShifted(x \o OneUnlessBlank(l), y \o OneUnlessBlank(m), n, offs)
    <3>1. CASE is_whitespace_line(l)
      <4>1. OneUnlessBlank(l) = <<>> /\ OneUnlessBlank(m) = <<>>
        BY <2>3, <3>1 DEF OneUnlessBlank
      <4>2. x \o <<>> = x /\ y \o <<>> = y
        BY <2>3, <2>4, EmptyConcat DEF AllShifted
      <4> QED BY <2>3, <2>4, <4>1, <4>2, Zenon
    <3>2. CASE ~is_whitespace_line(l)
      <4>1. OneUnlessBlank(l) = <<l>> /\ OneUnlessBlank(m) = <<m>>
        BY <2>3, <3>2 DEF OneUnlessBlank
      <4>2. AllShifted(x \o <<l>>, y \o <<m>>, n, offs)
        BY <2>3, <2>4, <3>2, ShiftedOne
      <4> QED BY <4>1, <4>2, Zenon
    <3> QED BY <3>1, <3>2
  <2>7. SubSeq(M, 1, i + 1) = Append(A, l) /\ SubSeq(R, 1, i + 1) = Append(B, m)
    BY <1>1, <1>2, <2>1, <2>2
  <2> QED BY <2>5, <2>6, <2>7, Zenon
<1>6. Nat \subseteq U
  BY <1>4, <1>5, Induction
<1>7. z \in U /\ z \in 0..z
  BY <1>1, <1>6
<1> QED BY <1>1, <1>2, <1>7

-----------------------------------------------------------------------------
(* The lines of a statement in the header                                  *)

LEMMA SpacesOf ==
  ASSUME NEW n \in Nat
  PROVE  LET b == [k \in 1..n |-> SPACE] IN Spaces(b) /\ Len(b) = n /\ \A k \in 1..n : b[k] = SPACE
<1>1. PICK b : b = [k \in 1..n |-> SPACE]
  OBVIOUS
<1>2. \A k \in 1..n : b[k] = SPACE
  BY <1>1
<1>3. IsSequence(b) /\ Len(b) = n /\ ToSet(b) = {b[k] : k \in 1..n}
  BY <1>1, TableSequence
<1>4. ToSet(b) \subseteq {SPACE}
  BY <1>2, <1>3
<1> QED BY <1>1, <1>2, <1>3, <1>4 DEF Spaces

\* A line that SPACEs are put before
LEMMA ShiftRight ==
  ASSUME NEW m, Line(m), NEW n \in Nat, NEW w, w = [k \in 1..n |-> SPACE] \o m
  PROVE  /\ Line(w) /\ (is_whitespace_line(w) <=> is_whitespace_line(m))
         /\ ~is_whitespace_line(m) => indent(w) = indent(m) + n
         /\ SubSeq(w, n + 1, Len(w)) = m
<1>1. PICK b : b = [k \in 1..n |-> SPACE]
  OBVIOUS
<1>2. IsSequence(b) /\ ToSet(b) \subseteq {SPACE} /\ Len(b) = n /\ \A k \in 1..n : b[k] = SPACE
  BY <1>1, SpacesOf DEF Spaces
<1>3. IsSequence(m) /\ NL \notin ToSet(m) /\ Len(m) \in Nat /\ DOMAIN m = 1..Len(m)
  BY Positioned DEF Line
<1>4. w = b \o m
  BY <1>1
<1>5. IsSequence(w) /\ ToSet(w) = ToSet(b) \cup ToSet(m)
  <2>1. IsSequence(b) /\ IsSequence(m)
    BY <1>2, <1>3
  <2>2. IsSequence(b \o m) /\ ToSet(b \o m) = ToSet(b) \cup ToSet(m)
    BY <2>1, ConcatSequences
  <2> QED BY <1>4, <2>2, Zenon
<1>6. /\ Len(w) = n + Len(m) /\ \A i \in 1..n : w[i] = SPACE
      /\ \A i \in 1..Len(m) : w[n + i] = m[i]
  <2>1. /\ Len(w) = Len(b) + Len(m) /\ \A i \in 1..Len(b) : w[i] = b[i]
        /\ \A i \in 1..Len(m) : w[Len(b) + i] = m[i]
    BY <1>2, <1>3, <1>4, ConcatValues
  <2> QED BY <1>2, <2>1
<1>7. Line(w) /\ DOMAIN w = 1..Len(w)
  BY <1>2, <1>3, <1>5, Distinguished, Positioned DEF Line
<1>8. SubSeq(w, n + 1, Len(w)) = m
  <2>1. PICK r : r = SubSeq(w, n + 1, Len(w))
    OBVIOUS
  <2>2. n <= Len(w) /\ Len(w) - n = Len(m)
    BY <1>3, <1>6
  <2>3. Line(r) /\ Len(r) = Len(w) - n /\ \A i \in 1..Len(w) - n : r[i] = w[n + i]
    BY <1>7, <2>1, <2>2, LinePart
  <2>4. Len(r) = Len(m) /\ \A i \in 1..Len(r) : r[i] = m[i]
    BY <1>6, <2>2, <2>3
  <2>5. r = m
    BY <1>3, <2>3, <2>4, SameSequence DEF Line
  <2> QED BY <2>1, <2>5
<1>9. CASE is_whitespace_line(m)
  <2>1. \A i \in 1..Len(w) : i \in 1..n \/ (i - n \in 1..Len(m) /\ n + (i - n) = i)
    BY <1>3, <1>6
  <2>2. \A i \in 1..Len(w) : Isspace(w[i])
    BY <1>3, <1>6, <1>9, <2>1 DEF is_whitespace_line, Isspace
  <2> QED BY <1>7, <1>8, <1>9, <2>2 DEF is_whitespace_line
<1>10. CASE ~is_whitespace_line(m)
  <2>1. PICK i : i = indent(m)
    OBVIOUS
  <2>2. i \in 0..Len(m) - 1 /\ ~Isspace(m[i + 1]) /\ \A k \in 1..i : Isspace(m[k])
    BY <1>3, <1>10, <2>1, IndentIs
  <2>3. PICK j : j = i + n
    OBVIOUS
  <2>4. j \in 0..Len(w) - 1 /\ i + 1 \in 1..Len(m) /\ n + (i + 1) = j + 1
    BY <1>3, <1>6, <2>2, <2>3
  <2>5. ~Isspace(w[j + 1])
    BY <1>6, <2>2, <2>4
  <2>6. \A k \in 1..j : k \in 1..n \/ (k - n \in 1..i /\ k - n \in 1..Len(m) /\ n + (k - n) = k)
    BY <1>3, <2>2, <2>3
  <2>7. \A k \in 1..j : Isspace(w[k])
    BY <1>6, <2>2, <2>6 DEF Isspace
  <2>8. ~is_whitespace_line(w) /\ indent(w) = j
    BY <1>5, <2>4, <2>5, <2>7, IndentUnique
  <2> QED BY <1>7, <1>8, <1>10, <2>1, <2>3, <2>8
<1> QED BY <1>9, <1>10

IndentedLines(L) == [k \in DOMAIN L |-> [i \in 1..sql_offs |-> SPACE] \o L[k]]

\* gen_const_sql indents all lines
LEMMA IndentedIs ==
  ASSUME NEW L, LinesOnly(L)
  PROVE  /\ LinesOnly(IndentedLines(L)) /\ Len(IndentedLines(L)) = Len(L)
         /\ Ended(IndentedLines(L)) = [k \in DOMAIN L |-> Indented(sql_offs, L[k])]
         /\ \A k \in 1..Len(L) : IndentedLines(L)[k] = [i \in 1..sql_offs |-> SPACE] \o L[k]
<1>1. PICK R : R = IndentedLines(L)
  OBVIOUS
<1>2. Len(L) \in Nat /\ DOMAIN L = 1..Len(L) /\ sql_offs \in Nat
  BY Positioned DEF LinesOnly, sql_offs
<1>3. \A k \in 1..Len(L) : R[k] = [i \in 1..sql_offs |-> SPACE] \o L[k]
  BY <1>1, <1>2, Zenon DEF IndentedLines
<1>4. R = [k \in 1..Len(L) |-> R[k]]
  BY <1>1, <1>2, Zenon DEF IndentedLines
<1>5. IsSequence(R) /\ Len(R) = Len(L) /\ DOMAIN R = 1..Len(L) /\ ToSet(R) = {R[k] : k \in 1..Len(L)}
  BY <1>2, <1>4, TableSequence
<1>6. ASSUME NEW k \in 1..Len(L) PROVE Line(R[k])
  <2>1. PICK m : m = L[k]
    OBVIOUS
  <2>2. Line(m)
    BY <2>1, ListLine
  <2>3. PICK w : w = [i \in 1..sql_offs |-> SPACE] \o m
    OBVIOUS
  <2>4. Line(w)
    BY <1>2, <2>2, <2>3, ShiftRight
  <2>5. R[k] = w
    BY <1>3, <2>1, <2>3, Zenon
  <2> QED BY <2>4, <2>5
<1>7. LinesOnly(R)
  BY <1>5, <1>6 DEF LinesOnly
<1>8. ASSUME NEW k \in 1..Len(L) PROVE Append(R[k], NL) = Indented(sql_offs, L[k])
  <2>1. Append(R[k], NL) = R[k] \o <<NL>>
    BY <1>6, LineEnds
  <2> QED BY <1>3, <2>1, Zenon DEF Indented
<1>9. Ended(R) = [k \in DOMAIN L |-> Indented(sql_offs, L[k])]
  <2>1. Ended(R) = [k \in 1..Len(L) |-> Append(R[k], NL)]
    BY <1>5 DEF Ended
  <2> QED BY <1>2, <1>8, <2>1, Zenon
<1> QED BY <1>1, <1>3, <1>5, <1>7, <1>9

\* What is left of the text of a header when its blank lines are taken away
LEMMA HeaderTextLines ==
  ASSUME NEW q, LinesOnly(to_vec(q.sql))
  PROVE  SolidLines(split(sql_text(q))) = SolidLines(IndentedLines(to_vec(q.sql)))
<1>1. PICK L, R : L = to_vec(q.sql) /\ R = IndentedLines(L)
  OBVIOUS
<1>2. LinesOnly(R) /\ Ended(R) = [k \in DOMAIN L |-> Indented(sql_offs, L[k])]
  BY <1>1, IndentedIs
<1>3. PICK e, w, N, t : /\ e = <<>> /\ w = <<NL>> /\ N = <<e>> /\ t = [k \in 1..sql_offs - 2 |-> SPACE]
  OBVIOUS
<1>4. Line(e) /\ is_whitespace_line(e)
  BY <1>3, EmptyLine
<1>5. Spaces(t) /\ Len(t) # 0
  <2>1. sql_offs - 2 \in Nat /\ sql_offs - 2 # 0
    BY DEF sql_offs
  <2> QED BY <1>3, <2>1, SpacesOf
<1>6. Line(t) /\ is_whitespace_line(t) /\ t # <<>>
  BY <1>5, SpaceLine
<1>7. LinesOnly(N) /\ Joined(N) = w /\ AllBlank(N)
  <2>1. LinesOnly(N) /\ Joined(N) = Append(e, NL)
    BY <1>3, <1>4, JoinedSmall
  <2>2. Append(e, NL) = w
    BY <1>3
  <2>3. DOMAIN N = {1} /\ N[1] = e
    BY <1>3, SingleSequence
  <2> QED BY <1>4, <2>1, <2>2, <2>3 DEF AllBlank
<1>8. LinesOnly(N \o R) /\ Joined(N \o R) = w \o Joined(R)
  BY <1>2, <1>7, JoinedConcat
<1>9. sql_text(q) = (w \o Joined(R)) \o t
  BY <1>1, <1>2, <1>3, Zenon DEF sql_text, Joined
<1>10. PICK M : M = N \o R
  OBVIOUS
<1>11. split(Joined(M) \o t) = Append(M, t)
  BY <1>6, <1>8, <1>10, SplitIs
<1>12. split(sql_text(q)) = Append(M, t)
  BY <1>8, <1>9, <1>10, <1>11, Zenon
<1>13. SolidLines(M) = SolidLines(R)
  <2>1. SolidLines(N) = <<>>
    BY <1>7, SolidBlank
  <2>2. SolidLines(M) = SolidLines(N) \o SolidLines(R)
    BY <1>2, <1>7, <1>10, SolidConcat
  <2>3. IsSequence(SolidLines(R))
    BY <1>2, SolidPartsIs
  <2>4. <<>> \o SolidLines(R) = SolidLines(R)
    BY <2>3, EmptyConcat
  <2> QED BY <2>1, <2>2, <2>4, Zenon
<1>14. SolidLines(Append(M, t)) = SolidLines(M) \o <<>>
  BY <1>6, <1>8, <1>10, SolidAppend DEF OneUnlessBlank
<1>15. SolidLines(M) \o <<>> = SolidLines(M)
  <2>1. IsSequence(SolidLines(M))
    BY <1>8, <1>10, SolidPartsIs
  <2> QED BY <2>1, EmptyConcat
<1> QED BY <1>1, <1>12, <1>13, <1>14, <1>15, Zenon

\* A statement that is not empty has a line that is not blank
LEMMA NotEmpty ==
  ASSUME NEW q, one_line(to_vec(q.sql)) # <<>>
  PROVE  to_vec(q.sql) # <<>>
<1> SUFFICES ASSUME to_vec(q.sql) = <<>> PROVE one_line(to_vec(q.sql)) = <<>>
  OBVIOUS
<1>1. PICK e, P : e = <<>> /\ P = [k \in DOMAIN e |-> Append(trim(e[k]), SPACE)]
  OBVIOUS
<1>2. DOMAIN e = 1..0 /\ 0 \in Nat
  BY <1>1
<1>3. P = [k \in 1..0 |-> P[k]]
  BY <1>1, <1>2, Zenon
<1>4. IsSequence(P) /\ Len(P) = 0
  BY <1>2, <1>3, TableSequence
<1>5. P = <<>>
  BY <1>4, LengthZero
<1>6. one_line(e) = FlattenSeq(P)
  BY <1>1, Zenon DEF one_line
<1> QED BY <1>1, <1>5, <1>6, FlattenEmpty

\* The lines of the document, those of the header and the distance between them
LEMMA SameLayout ==
  ASSUME NEW q, IsSequence(q.sql), sql(q) # <<>>
  PROVE  LET given == SolidLines(split(q.sql))
             written == SolidLines(split(sql_text(q)))
         IN \E n \in Nat : /\ AllShifted(given, written, n, sql_offs)
                           /\ \E g \in ToSet(given) : indent(g) = n
<1>1. PICK o, L, R : o = split(q.sql) /\ L = to_vec(q.sql) /\ R = IndentedLines(L)
  OBVIOUS
<1>2. LinesOnly(o) /\ LinesOnly(L) /\ L = minimize(o)
  BY <1>1, SplitJoined, MinimizedLines DEF to_vec
<1>3. PICK pre, block, post : \E n \in Nat : Kept(o, pre, block, post, n)
  BY <1>2, Minimized
<1>4. PICK n \in Nat : Kept(o, pre, block, post, n)
  BY <1>3
<1>5. /\ o = pre \o (block \o post) /\ LinesOnly(pre) /\ LinesOnly(block) /\ LinesOnly(post)
      /\ AllBlank(pre) /\ AllBlank(post) /\ IsSequence(L) /\ Len(L) = Len(block)
      /\ \A k \in 1..Len(block) : Moved(block[k], L[k], n)
      /\ block # <<>> => \E k \in 1..Len(block) : ~is_whitespace_line(block[k]) /\ indent(block[k]) = n
  BY <1>2, <1>4 DEF Kept
<1>6. /\ LinesOnly(R) /\ Len(R) = Len(L)
      /\ \A k \in 1..Len(L) : R[k] = [i \in 1..sql_offs |-> SPACE] \o L[k]
  BY <1>1, <1>2, IndentedIs
<1>7. SolidLines(split(sql_text(q))) = SolidLines(R)
  BY <1>1, <1>2, HeaderTextLines
<1>8. SolidLines(o) = SolidLines(block)
  <2>1. PICK rest : rest = block \o post
    OBVIOUS
  <2>2. LinesOnly(rest)
    BY <1>5, <2>1, JoinedConcat
  <2>3. SolidLines(o) = SolidLines(pre) \o SolidLines(rest)
    BY <1>5, <2>1, <2>2, SolidConcat
  <2>4. SolidLines(rest) = SolidLines(block) \o SolidLines(post)
    BY <1>5, <2>1, SolidConcat
  <2>5. SolidLines(pre) = <<>> /\ SolidLines(post) = <<>>
    BY <1>5, SolidBlank
  <2>6. PICK s : s = SolidLines(block)
    OBVIOUS
  <2>7. IsSequence(s)
    BY <1>5, <2>6, SolidPartsIs
  <2>8. s \o <<>> = s /\ <<>> \o s = s
    BY <2>7, EmptyConcat
  <2> QED BY <2>3, <2>4, <2>5, <2>6, <2>8, Zenon
<1>9. ASSUME NEW k \in 1..Len(block)
      PROVE  /\ is_whitespace_line(block[k]) <=> is_whitespace_line(R[k])
             /\ ~is_whitespace_line(block[k]) => Shifted(block[k], R[k], n, sql_offs)
  <2>1. PICK l, m, w : l = block[k] /\ m = L[k] /\ w = R[k]
    OBVIOUS
  <2>2. Moved(l, m, n) /\ Line(m) /\ Line(l)
    <3>1. Line(l)
      BY <1>5, <2>1, ListLine
    <3>2. Moved(l, m, n)
      BY <1>5, <2>1
    <3> QED BY <3>1, <3>2 DEF Moved
  <2>3. w = [i \in 1..sql_offs |-> SPACE] \o m /\ sql_offs \in Nat
    <3>1. k \in 1..Len(L)
      BY <1>5
    <3> QED BY <1>6, <2>1, <3>1, Zenon DEF sql_offs
  <2>4. /\ is_whitespace_line(w) <=> is_whitespace_line(m)
        /\ ~is_whitespace_line(m) => indent(w) = indent(m) + sql_offs
        /\ SubSeq(w, sql_offs + 1, Len(w)) = m
    <3>1. PICK offs : offs = sql_offs
      OBVIOUS
    <3>2. w = [i \in 1..offs |-> SPACE] \o m
      BY <2>3, <3>1, Zenon
    <3>3. /\ is_whitespace_line(w) <=> is_whitespace_line(m)
          /\ ~is_whitespace_line(m) => indent(w) = indent(m) + offs
          /\ SubSeq(w, offs + 1, Len(w)) = m
      BY <2>2, <2>3, <3>1, <3>2, ShiftRight
    <3> QED BY <3>1, <3>3, Zenon
  <2>5. /\ is_whitespace_line(l) <=> is_whitespace_line(m)
        /\ ~is_whitespace_line(l) => n <= indent(l) /\ indent(m) = indent(l) - n /\ m = SubSeq(l, n + 1, Len(l))
    BY <2>2 DEF Moved
  <2>6. ~is_whitespace_line(l) => indent(l) \in Nat
    <3>1. IsSequence(l) /\ Len(l) \in Nat
      BY <2>2, Positioned DEF Line
    <3>2. ~is_whitespace_line(l) => indent(l) \in 0..Len(l) - 1
      BY <3>1, IndentIs
    <3> QED BY <3>1, <3>2
  <2>7. ~is_whitespace_line(l) => Shifted(l, w, n, sql_offs)
    BY <2>4, <2>5, <2>6, Zenon DEF Shifted
  <2> QED BY <2>1, <2>4, <2>5, <2>7
<1>10. AllShifted(SolidLines(block), SolidLines(R), n, sql_offs)
  <2>1. Len(block) = Len(R)
    BY <1>5, <1>6
  <2> QED BY <1>5, <1>6, <1>9, <2>1, SolidShifted
<1>11. \E g \in ToSet(SolidLines(block)) : indent(g) = n
  <2>1. L # <<>>
    BY <1>1, NotEmpty DEF sql
  <2>2. block # <<>>
    <3> SUFFICES ASSUME block = <<>> PROVE FALSE
      OBVIOUS
    <3>1. Len(L) = 0
      BY <1>5
    <3> QED BY <1>5, <2>1, <3>1, LengthZero
  <2>3. PICK k \in 1..Len(block) : ~is_whitespace_line(block[k]) /\ indent(block[k]) = n
    BY <1>5, <2>2
  <2>4. block[k] \in ToSet(SolidLines(block))
    BY <1>5, <2>3, SolidPartsIs
  <2> QED BY <2>3, <2>4
<1> QED BY <1>1, <1>7, <1>8, <1>10, <1>11

=============================================================================
