----------------------------- MODULE HeaderProofs -----------------------------
(***************************************************************************)
(* Proofs about the header of a query set, for any queries and columns.    *)
(***************************************************************************)
EXTENDS TextProofs

-----------------------------------------------------------------------------
(* What a part of the header needs, from the parts before it               *)

Serves(d, name, scope) == d.name = name /\ Encloses(d.scope, scope)

\* Each name a declaration of s needs is among "known", is declared above it in
\* s, or is one the client provides
Founded(known, s) ==
  \A i \in DOMAIN s : \A name \in ToSet(s[i].needs) :
    \/ \E d \in known : Serves(d, name, s[i].scope)
    \/ \E j \in DOMAIN s : j < i /\ Serves(s[j], name, s[i].scope)
    \/ Provided(s[i].scope[1], name)

\* Each name the body of a function of s uses is declared in s, in its scope
Served(s) ==
  \A d \in ToSet(s) : \A name \in ToSet(d.body) :
    \E e \in ToSet(s) : e.name = name /\ e.scope = d.scope

LEMMA FoundedConcat ==
  ASSUME NEW known, NEW s, NEW t, IsSequence(s), IsSequence(t),
         Founded(known, s), Founded(known \cup ToSet(s), t)
  PROVE  Founded(known, s \o t)
<1> DEFINE st == s \o t
<1>1. /\ Len(s) \in Nat /\ DOMAIN s = 1..Len(s) /\ DOMAIN t = 1..Len(t) /\ Len(t) \in Nat
  BY Positioned
<1>2. /\ DOMAIN st = 1..Len(s) + Len(t)
      /\ \A k \in 1..Len(s) : st[k] = s[k]
      /\ \A m \in 1..Len(t) : st[Len(s) + m] = t[m]
  <2>1. s \in Seq(ToSet(s) \cup ToSet(t)) /\ t \in Seq(ToSet(s) \cup ToSet(t))
    BY SeqMonotonic DEF IsSequence
  <2> QED BY <2>1
<1> HIDE DEF st
<1> SUFFICES ASSUME NEW i \in DOMAIN st, NEW name \in ToSet(st[i].needs)
             PROVE  \/ \E d \in known : Serves(d, name, st[i].scope)
                    \/ \E j \in DOMAIN st : j < i /\ Serves(st[j], name, st[i].scope)
                    \/ Provided(st[i].scope[1], name)
  BY Zenon DEF Founded, st
<1>3. CASE i \in 1..Len(s)
  <2>1. st[i] = s[i]
    BY <1>2, <1>3
  <2>2. \/ \E d \in known : Serves(d, name, s[i].scope)
        \/ \E j \in DOMAIN s : j < i /\ Serves(s[j], name, s[i].scope)
        \/ Provided(s[i].scope[1], name)
    BY <1>1, <1>3, <2>1, Zenon DEF Founded
  <2>3. ASSUME NEW j \in DOMAIN s, j < i, Serves(s[j], name, s[i].scope)
        PROVE  j \in DOMAIN st /\ Serves(st[j], name, st[i].scope)
    BY <1>1, <1>2, <2>1, <2>3
  <2> QED BY <2>1, <2>2, <2>3, Zenon
<1>4. CASE i \notin 1..Len(s)
  <2>1. i - Len(s) \in 1..Len(t) /\ Len(s) + (i - Len(s)) = i
    BY <1>1, <1>2, <1>4
  <2> DEFINE k == i - Len(s)
  <2>2. st[i] = t[k] /\ k \in DOMAIN t
    BY <1>1, <1>2, <2>1
  <2> HIDE DEF k
  <2>3. \/ \E d \in known \cup ToSet(s) : Serves(d, name, t[k].scope)
        \/ \E j \in DOMAIN t : j < k /\ Serves(t[j], name, t[k].scope)
        \/ Provided(t[k].scope[1], name)
    BY <2>2, Zenon DEF Founded
  <2>4. ASSUME NEW d \in ToSet(s), Serves(d, name, t[k].scope)
        PROVE  \E j \in DOMAIN st : j < i /\ Serves(st[j], name, st[i].scope)
    <3>1. PICK j \in 1..Len(s) : d = s[j]
      BY Positioned
    <3>2. j \in DOMAIN st /\ j < i /\ st[j] = d
      BY <1>1, <1>2, <1>4, <3>1
    <3> QED BY <2>2, <2>4, <3>2
  <2>5. ASSUME NEW j \in DOMAIN t, j < k, Serves(t[j], name, t[k].scope)
        PROVE  \E m \in DOMAIN st : m < i /\ Serves(st[m], name, st[i].scope)
    <3>1. Len(s) + j \in DOMAIN st /\ Len(s) + j < i /\ st[Len(s) + j] = t[j]
      BY <1>1, <1>2, <2>1, <2>5 DEF k
    <3> QED BY <2>2, <2>5, <3>1
  <2> QED BY <2>2, <2>3, <2>4, <2>5, Zenon
<1> QED BY <1>3, <1>4

\* A part whose declarations need nothing of the part itself
LEMMA FoundedFlat ==
  ASSUME NEW known, NEW s, IsSequence(s),
         \A e \in ToSet(s) : \A name \in ToSet(e.needs) :
           (\E d \in known : Serves(d, name, e.scope)) \/ Provided(e.scope[1], name)
  PROVE  Founded(known, s)
BY Positioned, Zenon DEF Founded

LEMMA ServedConcat ==
  ASSUME NEW s, NEW t, IsSequence(s), IsSequence(t), Served(s), Served(t)
  PROVE  Served(s \o t)
<1>1. ToSet(s \o t) = ToSet(s) \cup ToSet(t)
  BY ConcatSequences
<1> QED BY <1>1, Zenon DEF Served

-----------------------------------------------------------------------------
(* The parts of a buffer class                                             *)

\* d is one of the eight functions that reach the attribute of field k
Signatures == {<<>>, <<"uint">>, <<"value">>, <<"value", "uint">>}
IsAccessor(d, scope, buf, k) ==
  \E p \in {"is_null_", "set_null_", "", "set_"}, sig \in Signatures :
    /\ d = Function(scope, p \o Name(buf, k), k, sig, <<a_name(k)>>)
    /\ p = "set_" <=> sig \in {<<"value">>, <<"value", "uint">>}

\* One function of each field
LEMMA GroupMembers ==
  ASSUME NEW scope, NEW buf, IsSequence(buf.flds),
         NEW p \in {"is_null_", "set_null_", "", "set_"}, NEW sig \in Signatures,
         p = "set_" <=> sig \in {<<"value">>, <<"value", "uint">>}
  PROVE  LET g == [k \in DOMAIN buf.flds |-> Function(scope, p \o Name(buf, k), k, sig, <<a_name(k)>>)]
         IN IsSequence(g) /\ \A d \in ToSet(g) : \E k \in DOMAIN buf.flds : IsAccessor(d, scope, buf, k)
<1> DEFINE g == [k \in DOMAIN buf.flds |-> Function(scope, p \o Name(buf, k), k, sig, <<a_name(k)>>)]
           n == Len(buf.flds)
<1>1. n \in Nat /\ DOMAIN buf.flds = 1..n
  BY Positioned
<1> HIDE DEF n
<1>2. g = [k \in 1..n |-> g[k]]
  BY <1>1, Zenon
<1>3. IsSequence(g) /\ ToSet(g) = {g[k] : k \in 1..n}
  BY <1>1, <1>2, TableSequence
<1>4. ASSUME NEW d \in ToSet(g) PROVE \E k \in DOMAIN buf.flds : IsAccessor(d, scope, buf, k)
  <2>1. PICK k \in 1..n : d = g[k]
    BY <1>3
  <2>2. d = Function(scope, p \o Name(buf, k), k, sig, <<a_name(k)>>)
    BY <1>1, <2>1
  <2> QED BY <1>1, <2>2, Zenon DEF IsAccessor
<1> QED BY <1>3, <1>4

LEMMA AccessorMembers ==
  ASSUME NEW scope, NEW buf, IsSequence(buf.flds)
  PROVE  /\ IsSequence(Accessors(scope, buf))
         /\ \A d \in ToSet(Accessors(scope, buf)) :
              \E k \in DOMAIN buf.flds : IsAccessor(d, scope, buf, k)
<1> DEFINE Group(p, sig) ==
             [k \in DOMAIN buf.flds |-> Function(scope, p \o Name(buf, k), k, sig, <<a_name(k)>>)]
           Good(s) ==
             IsSequence(s) /\ \A d \in ToSet(s) : \E k \in DOMAIN buf.flds : IsAccessor(d, scope, buf, k)
<1>1. ASSUME NEW s, NEW t, Good(s), Good(t) PROVE Good(s \o t)
  <2>1. IsSequence(s \o t) /\ ToSet(s \o t) = ToSet(s) \cup ToSet(t)
    BY <1>1, ConcatSequences
  <2> QED BY <1>1, <2>1, Zenon
<1>2. /\ Good(Group("is_null_", <<>>)) /\ Good(Group("is_null_", <<"uint">>))
      /\ Good(Group("set_null_", <<>>)) /\ Good(Group("set_null_", <<"uint">>))
      /\ Good(Group("", <<>>)) /\ Good(Group("", <<"uint">>))
      /\ Good(Group("set_", <<"value">>)) /\ Good(Group("set_", <<"value", "uint">>))
  BY GroupMembers DEF Signatures
<1> HIDE DEF Good, Group
<1>3. Good(Group("is_null_", <<>>) \o Group("is_null_", <<"uint">>)
            \o Group("set_null_", <<>>) \o Group("set_null_", <<"uint">>)
            \o Group("", <<>>) \o Group("", <<"uint">>)
            \o Group("set_", <<"value">>) \o Group("set_", <<"value", "uint">>))
  BY <1>1, <1>2, Zenon
<1>4. Good(Accessors(scope, buf))
  BY <1>3, Zenon DEF Accessors, Group
<1> QED BY <1>4 DEF Good

LEMMA AccessMembers ==
  ASSUME NEW scope
  PROVE  /\ IsSequence(Access(scope))
         /\ ToSet(Access(scope)) = {Function(scope, "attributes", 0, <<>>, <<"A_">>),
                                    Function(scope, "attr_names", 0, <<>>, <<"N_">>)}
BY PairSequence DEF Access

LEMMA ArrayMembers ==
  ASSUME NEW scope, NEW buf
  PROVE  /\ IsSequence(Arrays(scope, buf))
         /\ ToSet(Arrays(scope, buf)) =
              {Member(scope, "A_", 0, [k \in DOMAIN buf.flds |-> a_name(k)]),
               Member(scope, "N_", 0, <<>>)}
BY PairSequence DEF Arrays

\* The type and the attribute of field k
TypeOf(scope, buf, k) ==
  Member(scope, Numbered("T_", k), k,
         IF buf.flds[k].type = "atomic" THEN <<>> ELSE <<Numbered("len_", k)>>)
AttributeOf(scope, buf, k) ==
  Member(scope, Numbered("a_", k) \o "_", k,
         <<Numbered("T_", k)>>
           \o (IF buf.flds[k].type = "bstring" THEN <<>> ELSE <<Numbered("dec_", k)>>))

LEMMA TypeMembers ==
  ASSUME NEW scope, NEW buf, IsSequence(buf.flds)
  PROVE  /\ IsSequence(Types(scope, buf))
         /\ DOMAIN Types(scope, buf) = DOMAIN buf.flds
         /\ \A k \in DOMAIN buf.flds :
              /\ Types(scope, buf)[k] = TypeOf(scope, buf, k)
              /\ TypeOf(scope, buf, k) \in ToSet(Types(scope, buf))
         /\ \A d \in ToSet(Types(scope, buf)) : \E k \in DOMAIN buf.flds : d = TypeOf(scope, buf, k)
<1> DEFINE n == Len(buf.flds)
           f == Types(scope, buf)
<1>1. n \in Nat /\ DOMAIN buf.flds = 1..n
  BY Positioned
<1> HIDE DEF n
<1>2. f = [k \in 1..n |-> f[k]]
  BY <1>1, Zenon DEF Types
<1>3. IsSequence(f) /\ DOMAIN f = 1..n /\ ToSet(f) = {f[k] : k \in 1..n}
  BY <1>1, <1>2, TableSequence
<1>4. \A k \in DOMAIN buf.flds : f[k] = TypeOf(scope, buf, k)
  BY DEF Types, TypeOf
<1> HIDE DEF f
<1>5. \A k \in 1..n : f[k] \in ToSet(f)
  BY <1>3
<1>6. \A d \in ToSet(f) : \E k \in 1..n : d = f[k]
  BY <1>3
<1> QED BY <1>1, <1>3, <1>4, <1>5, <1>6, Zenon DEF f

LEMMA AttributeMembers ==
  ASSUME NEW scope, NEW buf, IsSequence(buf.flds)
  PROVE  /\ IsSequence(Attributes(scope, buf))
         /\ DOMAIN Attributes(scope, buf) = DOMAIN buf.flds
         /\ \A k \in DOMAIN buf.flds :
              /\ Attributes(scope, buf)[k] = AttributeOf(scope, buf, k)
              /\ AttributeOf(scope, buf, k) \in ToSet(Attributes(scope, buf))
         /\ \A d \in ToSet(Attributes(scope, buf)) :
              \E k \in DOMAIN buf.flds : d = AttributeOf(scope, buf, k)
<1> DEFINE n == Len(buf.flds)
           f == Attributes(scope, buf)
<1>1. n \in Nat /\ DOMAIN buf.flds = 1..n
  BY Positioned
<1> HIDE DEF n
<1>2. f = [k \in 1..n |-> f[k]]
  BY <1>1, Zenon DEF Attributes
<1>3. IsSequence(f) /\ DOMAIN f = 1..n /\ ToSet(f) = {f[k] : k \in 1..n}
  BY <1>1, <1>2, TableSequence
<1>4. \A k \in DOMAIN buf.flds : f[k] = AttributeOf(scope, buf, k)
  BY DEF Attributes, AttributeOf
<1> HIDE DEF f
<1>5. \A k \in 1..n : f[k] \in ToSet(f)
  BY <1>3
<1>6. \A d \in ToSet(f) : \E k \in 1..n : d = f[k]
  BY <1>3
<1> QED BY <1>1, <1>3, <1>4, <1>5, <1>6, Zenon DEF f

\* The constants of field k
ConstantsOf(scope, buf, k) ==
  (IF buf.flds[k].type # "bstring" THEN <<Member(scope, Numbered("dec_", k), k, <<>>)>> ELSE <<>>)
    \o (IF buf.flds[k].type # "atomic" THEN <<Member(scope, Numbered("len_", k), k, <<>>)>> ELSE <<>>)

LEMMA ConstantsOfField ==
  ASSUME NEW scope, NEW buf, NEW k
  PROVE  LET c == ConstantsOf(scope, buf, k)
             dec == Member(scope, Numbered("dec_", k), k, <<>>)
             len == Member(scope, Numbered("len_", k), k, <<>>)
         IN /\ IsSequence(c) /\ \A d \in ToSet(c) : d = dec \/ d = len
            /\ buf.flds[k].type # "bstring" => dec \in ToSet(c)
            /\ buf.flds[k].type # "atomic" => len \in ToSet(c)
<1> DEFINE d == IF buf.flds[k].type # "bstring" THEN <<Member(scope, Numbered("dec_", k), k, <<>>)>> ELSE <<>>
           l == IF buf.flds[k].type # "atomic" THEN <<Member(scope, Numbered("len_", k), k, <<>>)>> ELSE <<>>
<1>1. IsSequence(d) /\ ToSet(d) = IF buf.flds[k].type # "bstring" THEN {Member(scope, Numbered("dec_", k), k, <<>>)} ELSE {}
  BY SingleSequence, EmptySequence
<1>2. IsSequence(l) /\ ToSet(l) = IF buf.flds[k].type # "atomic" THEN {Member(scope, Numbered("len_", k), k, <<>>)} ELSE {}
  BY SingleSequence, EmptySequence
<1>3. ConstantsOf(scope, buf, k) = d \o l
  BY DEF ConstantsOf
<1> HIDE DEF d, l
<1>4. IsSequence(d \o l) /\ ToSet(d \o l) = ToSet(d) \cup ToSet(l)
  BY <1>1, <1>2, ConcatSequences
<1> QED BY <1>1, <1>2, <1>3, <1>4

LEMMA ConstantMembers ==
  ASSUME NEW scope, NEW buf, IsSequence(buf.flds)
  PROVE  /\ IsSequence(Constants(scope, buf))
         /\ \A d \in ToSet(Constants(scope, buf)) :
              \E k \in DOMAIN buf.flds : d \in ToSet(ConstantsOf(scope, buf, k))
         /\ \A k \in DOMAIN buf.flds :
              \A d \in ToSet(ConstantsOf(scope, buf, k)) : d \in ToSet(Constants(scope, buf))
<1> DEFINE n == Len(buf.flds)
           c == [k \in DOMAIN buf.flds |-> ConstantsOf(scope, buf, k)]
           S == UNION {ToSet(ConstantsOf(scope, buf, k)) : k \in DOMAIN buf.flds}
<1>1. n \in Nat /\ DOMAIN buf.flds = 1..n
  BY Positioned
<1>2. Constants(scope, buf) = FlattenSeq(c)
  BY Zenon DEF Constants, ConstantsOf
<1>3. ASSUME NEW k \in 1..n PROVE c[k] \in Seq(S)
  <2>1. c[k] = ConstantsOf(scope, buf, k) /\ IsSequence(c[k]) /\ ToSet(c[k]) \subseteq S
    BY <1>1, <1>3, ConstantsOfField
  <2> QED BY <2>1, SeqMonotonic DEF IsSequence
<1>4. c \in Seq(Seq(S)) /\ DOMAIN c = DOMAIN buf.flds
  <2>1. c \in [1..n -> Seq(S)]
    BY <1>1, <1>3
  <2> QED BY <1>1, <2>1
<1>5. FlattenSeq(c) \in Seq(S) /\ ToSet(FlattenSeq(c)) = UNION {ToSet(c[k]) : k \in DOMAIN c}
  BY <1>4, FlattenMembers
<1>6. UNION {ToSet(c[k]) : k \in DOMAIN c} = S
  BY <1>4
<1>7. IsSequence(FlattenSeq(c)) /\ ToSet(FlattenSeq(c)) = S
  BY <1>5, <1>6 DEF IsSequence
<1> HIDE DEF c
<1> QED BY <1>2, <1>7

\* The declarations of a class that need nothing else
ClassStart(ns, buf) ==
  LET scope == <<ns, class_name(buf)>>
  IN <<Member(<<ns>>, class_name(buf), 0, <<>>)>> \o Accessors(scope, buf) \o Access(scope)
       \o Constants(scope, buf)

LEMMA ClassStartMembers ==
  ASSUME NEW ns, NEW buf, IsSequence(buf.flds)
  PROVE  LET scope == <<ns, class_name(buf)>>
         IN /\ IsSequence(ClassStart(ns, buf))
            /\ ToSet(ClassStart(ns, buf)) =
                 {Member(<<ns>>, class_name(buf), 0, <<>>)} \cup ToSet(Accessors(scope, buf))
                   \cup ToSet(Access(scope)) \cup ToSet(Constants(scope, buf))
<1> DEFINE scope == <<ns, class_name(buf)>>
           p1 == <<Member(<<ns>>, class_name(buf), 0, <<>>)>>
           p2 == Accessors(scope, buf)
           p3 == Access(scope)
           p4 == Constants(scope, buf)
<1>1. /\ IsSequence(p1) /\ IsSequence(p2) /\ IsSequence(p3) /\ IsSequence(p4)
      /\ ToSet(p1) = {Member(<<ns>>, class_name(buf), 0, <<>>)}
  BY SingleSequence, AccessorMembers, AccessMembers, ConstantMembers, Zenon
<1>2. ClassStart(ns, buf) = p1 \o p2 \o p3 \o p4
  BY Zenon DEF ClassStart
<1> HIDE DEF p1, p2, p3, p4
<1>3. IsSequence(p1 \o p2) /\ ToSet(p1 \o p2) = ToSet(p1) \cup ToSet(p2)
  BY <1>1, ConcatSequences
<1>4. IsSequence(p1 \o p2 \o p3) /\ ToSet(p1 \o p2 \o p3) = ToSet(p1) \cup ToSet(p2) \cup ToSet(p3)
  BY <1>1, <1>3, ConcatSequences
<1>5. /\ IsSequence(p1 \o p2 \o p3 \o p4)
      /\ ToSet(p1 \o p2 \o p3 \o p4) = ToSet(p1) \cup ToSet(p2) \cup ToSet(p3) \cup ToSet(p4)
  BY <1>1, <1>4, ConcatSequences
<1> QED BY <1>1, <1>2, <1>5, Zenon DEF p2, p3, p4

LEMMA BufferMembers ==
  ASSUME NEW ns, NEW buf, IsSequence(buf.flds)
  PROVE  LET scope == <<ns, class_name(buf)>>
             typed == ClassStart(ns, buf) \o Types(scope, buf)
             bound == typed \o Attributes(scope, buf)
         IN /\ BufferClass(ns, buf) = bound \o Arrays(scope, buf)
            /\ IsSequence(typed) /\ ToSet(typed) = ToSet(ClassStart(ns, buf)) \cup ToSet(Types(scope, buf))
            /\ IsSequence(bound) /\ ToSet(bound) = ToSet(typed) \cup ToSet(Attributes(scope, buf))
            /\ IsSequence(BufferClass(ns, buf))
            /\ ToSet(BufferClass(ns, buf)) = ToSet(bound) \cup ToSet(Arrays(scope, buf))
<1> DEFINE scope == <<ns, class_name(buf)>>
           q4 == ClassStart(ns, buf)
           p5 == Types(scope, buf)
           p6 == Attributes(scope, buf)
           p7 == Arrays(scope, buf)
<1>1. IsSequence(q4) /\ IsSequence(p5) /\ IsSequence(p6) /\ IsSequence(p7)
  BY ClassStartMembers, TypeMembers, AttributeMembers, ArrayMembers, Zenon
<1>2. BufferClass(ns, buf) = q4 \o p5 \o p6 \o p7
  BY Zenon DEF BufferClass, ClassStart
<1> HIDE DEF q4, p5, p6, p7
<1>3. IsSequence(q4 \o p5) /\ ToSet(q4 \o p5) = ToSet(q4) \cup ToSet(p5)
  BY <1>1, ConcatSequences
<1>4. IsSequence(q4 \o p5 \o p6) /\ ToSet(q4 \o p5 \o p6) = ToSet(q4 \o p5) \cup ToSet(p6)
  BY <1>1, <1>3, ConcatSequences
<1>5. IsSequence(q4 \o p5 \o p6 \o p7) /\ ToSet(q4 \o p5 \o p6 \o p7) = ToSet(q4 \o p5 \o p6) \cup ToSet(p7)
  BY <1>1, <1>4, ConcatSequences
<1> QED BY <1>2, <1>3, <1>4, <1>5, Zenon DEF q4, p5, p6, p7

LEMMA BufferParts ==
  ASSUME NEW ns, NEW buf, IsSequence(buf.flds)
  PROVE  LET scope == <<ns, class_name(buf)>>
         IN ToSet(BufferClass(ns, buf)) =
              {Member(<<ns>>, class_name(buf), 0, <<>>)} \cup ToSet(Accessors(scope, buf))
                \cup ToSet(Access(scope)) \cup ToSet(Constants(scope, buf)) \cup ToSet(Types(scope, buf))
                \cup ToSet(Attributes(scope, buf)) \cup ToSet(Arrays(scope, buf))
<1> DEFINE scope == <<ns, class_name(buf)>>
           typed == ClassStart(ns, buf) \o Types(scope, buf)
           bound == typed \o Attributes(scope, buf)
           start == {Member(<<ns>>, class_name(buf), 0, <<>>)} \cup ToSet(Accessors(scope, buf))
                      \cup ToSet(Access(scope)) \cup ToSet(Constants(scope, buf))
<1>1. ToSet(ClassStart(ns, buf)) = start
  BY ClassStartMembers, Zenon
<1>2. ToSet(typed) = ToSet(ClassStart(ns, buf)) \cup ToSet(Types(scope, buf))
  BY BufferMembers, Zenon
<1>3. ToSet(bound) = ToSet(typed) \cup ToSet(Attributes(scope, buf))
  BY BufferMembers, Zenon
<1>4. ToSet(BufferClass(ns, buf)) = ToSet(bound) \cup ToSet(Arrays(scope, buf))
  BY BufferMembers, Zenon
<1> HIDE DEF typed, bound
<1> QED BY <1>1, <1>2, <1>3, <1>4

LEMMA EnclosesItself ==
  ASSUME NEW ns, NEW name
  PROVE  /\ Encloses(<<ns>>, <<ns, name>>) /\ Encloses(<<ns, name>>, <<ns, name>>)
BY DEF Encloses, IsPrefix

\* A type needs the width of its column, an attribute its type and decimals,
\* and the array of attributes all attributes
LEMMA BufferFounded ==
  ASSUME NEW ns, NEW buf, IsSequence(buf.flds), NEW known
  PROVE  Founded(known, BufferClass(ns, buf))
<1> DEFINE scope == <<ns, class_name(buf)>>
           start == ClassStart(ns, buf)
           typed == start \o Types(scope, buf)
           bound == typed \o Attributes(scope, buf)
<1>1. /\ IsSequence(start) /\ IsSequence(Types(scope, buf)) /\ IsSequence(Attributes(scope, buf))
      /\ IsSequence(Arrays(scope, buf)) /\ IsSequence(typed) /\ IsSequence(bound)
  BY ClassStartMembers, TypeMembers, AttributeMembers, ArrayMembers, BufferMembers, Zenon
<1>2. Founded(known, start)
  <2>1. ASSUME NEW e \in ToSet(start) PROVE e.needs = <<>>
    <3>1. CASE e = Member(<<ns>>, class_name(buf), 0, <<>>)
      BY <3>1 DEF Member
    <3>2. CASE e \in ToSet(Accessors(scope, buf))
      <4>1. PICK k \in DOMAIN buf.flds : IsAccessor(e, scope, buf, k)
        BY <3>2, AccessorMembers, Zenon
      <4>2. PICK p, sig : e = Function(scope, p \o Name(buf, k), k, sig, <<a_name(k)>>)
        BY <4>1, Zenon DEF IsAccessor
      <4> QED BY <4>2 DEF Function
    <3>3. CASE e \in ToSet(Access(scope))
      BY <3>3, AccessMembers DEF Function
    <3>4. CASE e \in ToSet(Constants(scope, buf))
      <4>1. PICK k \in DOMAIN buf.flds : e \in ToSet(ConstantsOf(scope, buf, k))
        BY <3>4, ConstantMembers
      <4>2. e \in {Member(scope, Numbered("dec_", k), k, <<>>), Member(scope, Numbered("len_", k), k, <<>>)}
        BY <4>1, ConstantsOfField, Zenon
      <4> QED BY <4>2 DEF Member
    <3> QED BY <3>1, <3>2, <3>3, <3>4, ClassStartMembers, Zenon
  <2>2. ToSet(<<>>) = {}
    BY EmptySequence
  <2> QED BY <1>1, <2>1, <2>2, FoundedFlat, Zenon
<1>3. Founded(known \cup ToSet(start), Types(scope, buf))
  <2>1. ASSUME NEW e \in ToSet(Types(scope, buf)), NEW name \in ToSet(e.needs)
        PROVE  \E d \in known \cup ToSet(start) : Serves(d, name, e.scope)
    <3>1. PICK k \in DOMAIN buf.flds : e = TypeOf(scope, buf, k)
      BY <2>1, TypeMembers, Zenon
    <3>2. e.scope = scope /\ buf.flds[k].type # "atomic" /\ name = Numbered("len_", k)
      BY <2>1, <3>1, EmptySequence, SingleSequence DEF TypeOf, Member
    <3> DEFINE d == Member(scope, Numbered("len_", k), k, <<>>)
    <3>3. d \in ToSet(start)
      <4>1. d \in ToSet(ConstantsOf(scope, buf, k))
        BY <3>2, ConstantsOfField, Zenon
      <4>2. d \in ToSet(Constants(scope, buf))
        BY <4>1, ConstantMembers, Zenon
      <4> QED BY <4>2, ClassStartMembers, Zenon
    <3>4. Serves(d, name, e.scope)
      BY <3>2, EnclosesItself DEF Serves, Member
    <3> QED BY <3>3, <3>4
  <2> QED BY <1>1, <2>1, FoundedFlat, Zenon
<1>4. Founded(known \cup ToSet(typed), Attributes(scope, buf))
  <2>1. ASSUME NEW e \in ToSet(Attributes(scope, buf)), NEW name \in ToSet(e.needs)
        PROVE  \E d \in known \cup ToSet(typed) : Serves(d, name, e.scope)
    <3> DEFINE decs(k) == IF buf.flds[k].type = "bstring" THEN <<>> ELSE <<Numbered("dec_", k)>>
    <3>1. PICK k \in DOMAIN buf.flds : e = AttributeOf(scope, buf, k)
      BY <2>1, AttributeMembers, Zenon
    <3>2. /\ e.scope = scope
          /\ \/ name = Numbered("T_", k)
             \/ name = Numbered("dec_", k) /\ buf.flds[k].type # "bstring"
      <4>1. e.scope = scope /\ e.needs = <<Numbered("T_", k)>> \o decs(k)
        BY <3>1 DEF AttributeOf, Member
      <4>2. /\ IsSequence(decs(k))
            /\ ToSet(decs(k)) = IF buf.flds[k].type = "bstring" THEN {} ELSE {Numbered("dec_", k)}
        BY EmptySequence, SingleSequence
      <4> HIDE DEF decs
      <4>3. ToSet(e.needs) = {Numbered("T_", k)} \cup ToSet(decs(k))
        BY <4>1, <4>2, SingleSequence, ConcatSequences
      <4> QED BY <4>1, <4>2, <4>3
    <3>3. CASE name = Numbered("T_", k)
      <4> DEFINE d == TypeOf(scope, buf, k)
      <4>1. d \in ToSet(typed)
        <5>1. d \in ToSet(Types(scope, buf))
          BY TypeMembers, Zenon
        <5> QED BY <5>1, BufferMembers, Zenon
      <4>2. Serves(d, name, e.scope)
        BY <3>2, <3>3, EnclosesItself DEF Serves, TypeOf, Member
      <4> QED BY <4>1, <4>2
    <3>4. CASE name = Numbered("dec_", k) /\ buf.flds[k].type # "bstring"
      <4> DEFINE d == Member(scope, Numbered("dec_", k), k, <<>>)
      <4>1. d \in ToSet(start)
        <5>1. d \in ToSet(ConstantsOf(scope, buf, k))
          BY <3>4, ConstantsOfField, Zenon
        <5>2. d \in ToSet(Constants(scope, buf))
          BY <5>1, ConstantMembers, Zenon
        <5> QED BY <5>2, ClassStartMembers, Zenon
      <4>2. d \in ToSet(typed)
        BY <4>1, BufferMembers, Zenon
      <4>3. Serves(d, name, e.scope)
        BY <3>2, <3>4, EnclosesItself DEF Serves, Member
      <4> QED BY <4>2, <4>3
    <3> QED BY <3>2, <3>3, <3>4
  <2> QED BY <1>1, <2>1, FoundedFlat, Zenon
<1>5. Founded(known \cup ToSet(bound), Arrays(scope, buf))
  <2>1. ASSUME NEW e \in ToSet(Arrays(scope, buf)), NEW name \in ToSet(e.needs)
        PROVE  \E d \in known \cup ToSet(bound) : Serves(d, name, e.scope)
    <3>1. e = Member(scope, "A_", 0, [k \in DOMAIN buf.flds |-> a_name(k)])
      <4>1. CASE e = Member(scope, "N_", 0, <<>>)
        BY <2>1, <4>1, EmptySequence DEF Member
      <4> QED BY <2>1, <4>1, ArrayMembers, Zenon
    <3>2. e.scope = scope /\ e.needs = [k \in DOMAIN buf.flds |-> a_name(k)]
      BY <3>1 DEF Member
    <3>3. PICK k \in DOMAIN buf.flds : name = a_name(k)
      BY <2>1, <3>2 DEF ToSet
    <3> DEFINE d == AttributeOf(scope, buf, k)
    <3>4. d \in ToSet(Attributes(scope, buf))
      BY AttributeMembers, Zenon
    <3>5. d.name = name /\ d.scope = scope
      BY <3>3 DEF AttributeOf, Member, Numbered, a_name
    <3>6. d \in ToSet(bound) /\ Serves(d, name, e.scope)
      BY <3>2, <3>4, <3>5, BufferMembers, EnclosesItself, Zenon DEF Serves
    <3> QED BY <3>6
  <2> QED BY <1>1, <2>1, FoundedFlat, Zenon
<1>6. BufferClass(ns, buf) = bound \o Arrays(scope, buf)
  BY BufferMembers, Zenon
<1> HIDE DEF start
<1>7. Founded(known, typed)
  BY <1>1, <1>2, <1>3, FoundedConcat, Zenon
<1> HIDE DEF typed
<1>8. Founded(known, bound)
  BY <1>1, <1>4, <1>7, FoundedConcat, Zenon
<1> HIDE DEF bound
<1> QED BY <1>1, <1>5, <1>6, <1>8, FoundedConcat, Zenon

\* Accessors use the attribute of their field, and the functions that hand out
\* the arrays use these
LEMMA BufferServed ==
  ASSUME NEW ns, NEW buf, IsSequence(buf.flds)
  PROVE  Served(BufferClass(ns, buf))
<1> DEFINE scope == <<ns, class_name(buf)>>
           class == BufferClass(ns, buf)
<1> SUFFICES ASSUME NEW d \in ToSet(class), NEW name \in ToSet(d.body)
             PROVE  \E e \in ToSet(class) : e.name = name /\ e.scope = d.scope
  BY DEF Served
<1>1. CASE d \in ToSet(Accessors(scope, buf))
  <2>1. PICK k \in DOMAIN buf.flds : IsAccessor(d, scope, buf, k)
    BY <1>1, AccessorMembers, Zenon
  <2>2. PICK p, sig : d = Function(scope, p \o Name(buf, k), k, sig, <<a_name(k)>>)
    BY <2>1, Zenon DEF IsAccessor
  <2>3. d.scope = scope /\ name = a_name(k)
    BY <2>2, SingleSequence DEF Function
  <2>4. AttributeOf(scope, buf, k) \in ToSet(class)
    <3>1. AttributeOf(scope, buf, k) \in ToSet(Attributes(scope, buf))
      BY AttributeMembers, Zenon
    <3> QED BY <3>1, BufferMembers, Zenon
  <2>5. AttributeOf(scope, buf, k).name = name /\ AttributeOf(scope, buf, k).scope = scope
    BY <2>3 DEF AttributeOf, Member, Numbered, a_name
  <2> QED BY <2>3, <2>4, <2>5
<1>2. CASE d \in ToSet(Access(scope))
  <2>1. d.scope = scope /\ (name = "A_" \/ name = "N_")
    BY <1>2, AccessMembers, SingleSequence DEF Function
  <2> DEFINE A == Member(scope, "A_", 0, [k \in DOMAIN buf.flds |-> a_name(k)])
             N == Member(scope, "N_", 0, <<>>)
  <2>2. A \in ToSet(Arrays(scope, buf)) /\ N \in ToSet(Arrays(scope, buf))
    BY ArrayMembers
  <2>3. A \in ToSet(class) /\ N \in ToSet(class)
    BY <2>2, BufferMembers, Zenon
  <2>4. A.name = "A_" /\ A.scope = scope /\ N.name = "N_" /\ N.scope = scope
    BY DEF Member
  <2> QED BY <2>1, <2>3, <2>4
<1>3. CASE d \notin ToSet(Accessors(scope, buf)) /\ d \notin ToSet(Access(scope))
  <2>1. d.body = <<>>
    <3>1. CASE d = Member(<<ns>>, class_name(buf), 0, <<>>)
      BY <3>1 DEF Member
    <3>2. CASE d \in ToSet(Constants(scope, buf))
      <4>1. PICK k \in DOMAIN buf.flds : d \in ToSet(ConstantsOf(scope, buf, k))
        BY <3>2, ConstantMembers, Zenon
      <4>2. d = Member(scope, Numbered("dec_", k), k, <<>>) \/ d = Member(scope, Numbered("len_", k), k, <<>>)
        BY <4>1, ConstantsOfField, Zenon
      <4> QED BY <4>2 DEF Member
    <3>3. CASE d \in ToSet(Types(scope, buf))
      <4>1. PICK k \in DOMAIN buf.flds : d = TypeOf(scope, buf, k)
        BY <3>3, TypeMembers, Zenon
      <4> QED BY <4>1 DEF TypeOf, Member
    <3>4. CASE d \in ToSet(Attributes(scope, buf))
      <4>1. PICK k \in DOMAIN buf.flds : d = AttributeOf(scope, buf, k)
        BY <3>4, AttributeMembers, Zenon
      <4> QED BY <4>1 DEF AttributeOf, Member
    <3>5. CASE d \in ToSet(Arrays(scope, buf))
      BY <3>5, ArrayMembers DEF Member
    <3>6. \/ d = Member(<<ns>>, class_name(buf), 0, <<>>) \/ d \in ToSet(Constants(scope, buf))
          \/ d \in ToSet(Types(scope, buf)) \/ d \in ToSet(Attributes(scope, buf))
          \/ d \in ToSet(Arrays(scope, buf))
      BY <1>3, BufferParts
    <3> QED BY <3>1, <3>2, <3>3, <3>4, <3>5, <3>6
  <2> QED BY <2>1, EmptySequence
<1> QED BY <1>1, <1>2, <1>3

\* The class itself is declared in the namespace of the query
LEMMA BufferDeclared ==
  ASSUME NEW ns, NEW buf, IsSequence(buf.flds)
  PROVE  \E d \in ToSet(BufferClass(ns, buf)) : d.name = class_name(buf) /\ d.scope = <<ns>>
<1> DEFINE d == Member(<<ns>>, class_name(buf), 0, <<>>)
<1>1. d \in ToSet(BufferClass(ns, buf))
  <2>1. d \in ToSet(ClassStart(ns, buf))
    BY ClassStartMembers, Zenon
  <2> QED BY <2>1, BufferMembers, Zenon
<1>2. d.name = class_name(buf) /\ d.scope = <<ns>>
  BY DEF Member
<1> QED BY <1>1, <1>2

-----------------------------------------------------------------------------
(* The query object                                                        *)

LEMMA RequiredBuffers ==
  ASSUME NEW q
  PROVE  /\ IsSequence(Required(q)) /\ Distinct(Required(q))
         /\ ToSet(Required(q)) = {t \in {"par", "res"} : is_required(q[t])}
<1> DEFINE p == IF is_required(q["par"]) THEN <<"par">> ELSE <<>>
           r == IF is_required(q["res"]) THEN <<"res">> ELSE <<>>
<1>1. /\ IsSequence(p) /\ ToSet(p) = {t \in {"par"} : is_required(q[t])}
      /\ \A i \in DOMAIN p : i = 1 /\ p[i] = "par"
  BY SingleSequence, EmptySequence
<1>2. /\ IsSequence(r) /\ ToSet(r) = {t \in {"res"} : is_required(q[t])}
      /\ \A i \in DOMAIN r : i = 1 /\ r[i] = "res"
  BY SingleSequence, EmptySequence
<1>3. Required(q) = p \o r
  BY DEF Required
<1> HIDE DEF p, r
<1>4. IsSequence(p \o r) /\ ToSet(p \o r) = ToSet(p) \cup ToSet(r)
  BY <1>1, <1>2, ConcatSequences
<1>5. Distinct(p \o r)
  <2> SUFFICES ASSUME NEW i \in DOMAIN (p \o r), NEW j \in DOMAIN (p \o r), (p \o r)[i] = (p \o r)[j]
               PROVE  i = j
    BY DEF Distinct
  <2>1. \A k \in DOMAIN (p \o r) : \/ k = 1 /\ (p \o r)[k] = "par"
                                   \/ k - Len(p) = 1 /\ (p \o r)[k] = "res"
    BY <1>1, <1>2, ConcatPositions
  <2>2. Len(p) \in Nat /\ i \in Nat /\ j \in Nat
    BY <1>1, <1>4, Positioned
  <2> QED BY <2>1, <2>2
<1> QED BY <1>1, <1>2, <1>3, <1>4, <1>5

\* The declarations of the query object for a buffer
NameArgument(ns, t) == Member(<<ns, "utl">>, "N_" \o t, 0, <<>>)
TypedMember(ns, q, t, name) == Member(<<ns, "utl">>, name, 0, <<class_name(q[t]), "N_" \o t>>)
Getter(ns, q, t) == [TypedMember(ns, q, t, t \o "_buf") EXCEPT !.sig = <<>>]
Constructor(ns, q) ==
  Function(<<ns, "utl">>, "utl", 0, <<"connection">>,
           [i \in DOMAIN Required(q) |-> Required(q)[i] \o "_"])
Statement(ns, q) == [Member(<<ns, "utl">>, "sql_", 0, <<>>) EXCEPT !.text = sql_text(q)]

\* The declarations of the query object that need nothing else
UtlStart(ns, q) ==
  [i \in DOMAIN Required(q) |-> NameArgument(ns, Required(q)[i])]
    \o <<Member(<<ns>>, "utl", 0, <<>>), Constructor(ns, q)>>

\* A table over the buffers that are required
LEMMA EachMembers ==
  ASSUME NEW q, NEW f, f = [i \in DOMAIN Required(q) |-> f[i]]
  PROVE  /\ IsSequence(f) /\ DOMAIN f = DOMAIN Required(q)
         /\ \A i \in DOMAIN Required(q) : f[i] \in ToSet(f)
         /\ \A d \in ToSet(f) : \E i \in DOMAIN Required(q) : d = f[i]
<1> DEFINE n == Len(Required(q))
<1>1. n \in Nat /\ DOMAIN Required(q) = 1..n
  BY RequiredBuffers, Positioned
<1> HIDE DEF n
<1>2. IsSequence(f) /\ DOMAIN f = 1..n /\ ToSet(f) = {f[k] : k \in 1..n}
  BY <1>1, TableSequence
<1> QED BY <1>1, <1>2

LEMMA UtlStartMembers ==
  ASSUME NEW ns, NEW q
  PROVE  /\ IsSequence(UtlStart(ns, q))
         /\ \A d \in ToSet(UtlStart(ns, q)) :
              \/ \E t \in ToSet(Required(q)) : d = NameArgument(ns, t)
              \/ d = Member(<<ns>>, "utl", 0, <<>>) \/ d = Constructor(ns, q)
         /\ \A t \in ToSet(Required(q)) : NameArgument(ns, t) \in ToSet(UtlStart(ns, q))
         /\ Constructor(ns, q) \in ToSet(UtlStart(ns, q))
<1> DEFINE f == [i \in DOMAIN Required(q) |-> NameArgument(ns, Required(q)[i])]
           u == <<Member(<<ns>>, "utl", 0, <<>>), Constructor(ns, q)>>
<1>1. f = [i \in DOMAIN Required(q) |-> f[i]]
  BY Zenon
<1>2. \A i \in DOMAIN Required(q) : f[i] = NameArgument(ns, Required(q)[i])
  OBVIOUS
<1>3. IsSequence(u) /\ ToSet(u) = {Member(<<ns>>, "utl", 0, <<>>), Constructor(ns, q)}
  BY PairSequence
<1>4. UtlStart(ns, q) = f \o u
  BY DEF UtlStart
<1> HIDE DEF f, u
<1>5. /\ IsSequence(f) /\ DOMAIN f = DOMAIN Required(q)
      /\ \A i \in DOMAIN Required(q) : f[i] \in ToSet(f)
      /\ \A d \in ToSet(f) : \E i \in DOMAIN Required(q) : d = f[i]
  BY <1>1, EachMembers
<1>6. IsSequence(f \o u) /\ ToSet(f \o u) = ToSet(f) \cup ToSet(u)
  BY <1>3, <1>5, ConcatSequences
<1>7. \A d \in ToSet(f) : \E t \in ToSet(Required(q)) : d = NameArgument(ns, t)
  BY <1>2, <1>5 DEF ToSet
<1>8. \A t \in ToSet(Required(q)) : NameArgument(ns, t) \in ToSet(f)
  <2> TAKE t \in ToSet(Required(q))
  <2>1. PICK i \in DOMAIN Required(q) : t = Required(q)[i]
    BY DEF ToSet
  <2> QED BY <1>2, <1>5, <2>1
<1> QED BY <1>3, <1>4, <1>6, <1>7, <1>8

\* Its declarations after the constructor
Getters(ns, q) == [i \in DOMAIN Required(q) |-> Getter(ns, q, Required(q)[i])]
Codes(ns) == <<Function(<<ns, "utl">>, "allowed_codes", 0, <<>>, <<>>)>>
Objects(ns, q) ==
  [i \in DOMAIN Required(q) |-> TypedMember(ns, q, Required(q)[i], Required(q)[i] \o "_")]

LEMMA UtlParts ==
  ASSUME NEW ns, NEW q
  PROVE  UtlClass(ns, q) = UtlStart(ns, q) \o Getters(ns, q) \o Codes(ns) \o Objects(ns, q)
                             \o <<Statement(ns, q)>>
<1> DEFINE f == [i \in DOMAIN Required(q) |-> NameArgument(ns, Required(q)[i])]
           u == <<Member(<<ns>>, "utl", 0, <<>>), Constructor(ns, q)>>
<1>1. UtlStart(ns, q) = f \o u
  BY DEF UtlStart
<1>2. UtlClass(ns, q) = f \o u \o Getters(ns, q) \o Codes(ns) \o Objects(ns, q) \o <<Statement(ns, q)>>
  BY Zenon DEF UtlClass, Getters, Codes, Objects, Getter, TypedMember, NameArgument, Constructor, Statement
<1> QED BY <1>1, <1>2

LEMMA GetterMembers ==
  ASSUME NEW ns, NEW q
  PROVE  /\ IsSequence(Getters(ns, q)) /\ DOMAIN Getters(ns, q) = DOMAIN Required(q)
         /\ \A d \in ToSet(Getters(ns, q)) : \E t \in ToSet(Required(q)) : d = Getter(ns, q, t)
<1> DEFINE f == Getters(ns, q)
<1>1. f = [i \in DOMAIN Required(q) |-> f[i]]
  BY Zenon DEF Getters
<1>2. \A i \in DOMAIN Required(q) : f[i] = Getter(ns, q, Required(q)[i])
  BY DEF Getters
<1> HIDE DEF f
<1>3. /\ IsSequence(f) /\ DOMAIN f = DOMAIN Required(q)
      /\ \A d \in ToSet(f) : \E i \in DOMAIN Required(q) : d = f[i]
  BY <1>1, EachMembers
<1>4. \A d \in ToSet(f) : \E t \in ToSet(Required(q)) : d = Getter(ns, q, t)
  BY <1>2, <1>3 DEF ToSet
<1> QED BY <1>3, <1>4 DEF f

LEMMA ObjectMembers ==
  ASSUME NEW ns, NEW q
  PROVE  /\ IsSequence(Objects(ns, q)) /\ DOMAIN Objects(ns, q) = DOMAIN Required(q)
         /\ \A d \in ToSet(Objects(ns, q)) :
              \E t \in ToSet(Required(q)) : d = TypedMember(ns, q, t, t \o "_")
         /\ \A t \in ToSet(Required(q)) : TypedMember(ns, q, t, t \o "_") \in ToSet(Objects(ns, q))
<1> DEFINE f == Objects(ns, q)
<1>1. f = [i \in DOMAIN Required(q) |-> f[i]]
  BY Zenon DEF Objects
<1>2. \A i \in DOMAIN Required(q) : f[i] = TypedMember(ns, q, Required(q)[i], Required(q)[i] \o "_")
  BY DEF Objects
<1> HIDE DEF f
<1>3. /\ IsSequence(f) /\ DOMAIN f = DOMAIN Required(q)
      /\ \A i \in DOMAIN Required(q) : f[i] \in ToSet(f)
      /\ \A d \in ToSet(f) : \E i \in DOMAIN Required(q) : d = f[i]
  BY <1>1, EachMembers
<1>4. \A d \in ToSet(f) : \E t \in ToSet(Required(q)) : d = TypedMember(ns, q, t, t \o "_")
  <2>1. \A i \in DOMAIN Required(q) : Required(q)[i] \in ToSet(Required(q))
    BY DEF ToSet
  <2> QED BY <1>2, <1>3, <2>1, Zenon
<1>5. \A t \in ToSet(Required(q)) : TypedMember(ns, q, t, t \o "_") \in ToSet(f)
  <2> TAKE t \in ToSet(Required(q))
  <2>1. PICK i \in DOMAIN Required(q) : t = Required(q)[i]
    BY DEF ToSet
  <2> QED BY <1>2, <1>3, <2>1
<1> QED BY <1>3, <1>4, <1>5 DEF f

LEMMA UtlMembers ==
  ASSUME NEW ns, NEW q
  PROVE  LET typed == UtlStart(ns, q) \o Getters(ns, q)
             coded == typed \o Codes(ns)
             held == coded \o Objects(ns, q)
         IN /\ UtlClass(ns, q) = held \o <<Statement(ns, q)>>
            /\ IsSequence(typed) /\ ToSet(typed) = ToSet(UtlStart(ns, q)) \cup ToSet(Getters(ns, q))
            /\ IsSequence(coded) /\ ToSet(coded) = ToSet(typed) \cup ToSet(Codes(ns))
            /\ IsSequence(held) /\ ToSet(held) = ToSet(coded) \cup ToSet(Objects(ns, q))
            /\ IsSequence(UtlClass(ns, q))
            /\ ToSet(UtlClass(ns, q)) = ToSet(held) \cup {Statement(ns, q)}
<1> DEFINE q1 == UtlStart(ns, q)
           p2 == Getters(ns, q)
           p3 == Codes(ns)
           p4 == Objects(ns, q)
           p5 == <<Statement(ns, q)>>
<1>1. /\ IsSequence(q1) /\ IsSequence(p2) /\ IsSequence(p3) /\ IsSequence(p4) /\ IsSequence(p5)
      /\ ToSet(p5) = {Statement(ns, q)}
  BY UtlStartMembers, GetterMembers, ObjectMembers, SingleSequence, Zenon DEF Codes
<1>2. UtlClass(ns, q) = q1 \o p2 \o p3 \o p4 \o p5
  BY UtlParts, Zenon
<1> HIDE DEF q1, p2, p3, p4, p5
<1>3. IsSequence(q1 \o p2) /\ ToSet(q1 \o p2) = ToSet(q1) \cup ToSet(p2)
  BY <1>1, ConcatSequences
<1>4. IsSequence(q1 \o p2 \o p3) /\ ToSet(q1 \o p2 \o p3) = ToSet(q1 \o p2) \cup ToSet(p3)
  BY <1>1, <1>3, ConcatSequences
<1>5. IsSequence(q1 \o p2 \o p3 \o p4) /\ ToSet(q1 \o p2 \o p3 \o p4) = ToSet(q1 \o p2 \o p3) \cup ToSet(p4)
  BY <1>1, <1>4, ConcatSequences
<1>6. /\ IsSequence(q1 \o p2 \o p3 \o p4 \o p5)
      /\ ToSet(q1 \o p2 \o p3 \o p4 \o p5) = ToSet(q1 \o p2 \o p3 \o p4) \cup {Statement(ns, q)}
  BY <1>1, <1>5, ConcatSequences
<1> QED BY <1>2, <1>3, <1>4, <1>5, <1>6, Zenon DEF q1, p2, p3, p4, p5

\* The members of the query object are of classes that are declared before it,
\* or that the client provides
LEMMA UtlFounded ==
  ASSUME NEW ns, NEW q, NEW known,
         \A t \in ToSet(Required(q)) :
           \/ \E d \in known : d.name = class_name(q[t]) /\ d.scope = <<ns>>
           \/ Provided(ns, class_name(q[t]))
  PROVE  Founded(known, UtlClass(ns, q))
<1> DEFINE scope == <<ns, "utl">>
           start == UtlStart(ns, q)
           typed == start \o Getters(ns, q)
           coded == typed \o Codes(ns)
           held == coded \o Objects(ns, q)
           last == <<Statement(ns, q)>>
<1>1. /\ IsSequence(start) /\ IsSequence(Getters(ns, q)) /\ IsSequence(Codes(ns))
      /\ IsSequence(Objects(ns, q)) /\ IsSequence(last)
      /\ IsSequence(typed) /\ IsSequence(coded) /\ IsSequence(held)
  BY UtlStartMembers, GetterMembers, ObjectMembers, SingleSequence, UtlMembers, Zenon DEF Codes
<1>2. Founded(known, start)
  <2>1. ASSUME NEW e \in ToSet(start) PROVE e.needs = <<>>
    <3>1. CASE \E t \in ToSet(Required(q)) : e = NameArgument(ns, t)
      BY <3>1 DEF NameArgument, Member
    <3>2. CASE e = Member(<<ns>>, "utl", 0, <<>>)
      BY <3>2 DEF Member
    <3>3. CASE e = Constructor(ns, q)
      BY <3>3 DEF Constructor, Function
    <3> QED BY <2>1, <3>1, <3>2, <3>3, UtlStartMembers, Zenon
  <2>2. ToSet(<<>>) = {}
    BY EmptySequence
  <2> QED BY <1>1, <2>1, <2>2, FoundedFlat, Zenon
<1>3. ASSUME NEW t \in ToSet(Required(q)), NEW more, ToSet(start) \subseteq more,
             NEW name \in {class_name(q[t]), "N_" \o t}
      PROVE  (\E d \in known \cup more : Serves(d, name, scope)) \/ Provided(ns, name)
  <2>1. CASE name = "N_" \o t
    <3>1. NameArgument(ns, t) \in more
      BY <1>3, UtlStartMembers
    <3>2. Serves(NameArgument(ns, t), name, scope)
      BY <2>1, EnclosesItself DEF NameArgument, Member, Serves
    <3> QED BY <3>1, <3>2
  <2>2. CASE name = class_name(q[t])
    <3>1. ASSUME NEW d \in known, d.name = class_name(q[t]), d.scope = <<ns>>
          PROVE  Serves(d, name, scope)
      BY <2>2, <3>1, EnclosesItself DEF Serves
    <3> QED BY <2>2, <3>1
  <2> QED BY <2>1, <2>2
<1>4. Founded(known \cup ToSet(start), Getters(ns, q))
  <2>1. ASSUME NEW e \in ToSet(Getters(ns, q)), NEW name \in ToSet(e.needs)
        PROVE  (\E d \in known \cup ToSet(start) : Serves(d, name, e.scope)) \/ Provided(e.scope[1], name)
    <3>1. PICK t \in ToSet(Required(q)) : e = Getter(ns, q, t)
      BY <2>1, GetterMembers, Zenon
    <3>2. e.scope = scope /\ e.needs = <<class_name(q[t]), "N_" \o t>>
      BY <3>1 DEF Getter, TypedMember, Member
    <3>3. name \in {class_name(q[t]), "N_" \o t} /\ e.scope[1] = ns
      BY <2>1, <3>2, PairSequence
    <3> QED BY <1>3, <3>2, <3>3
  <2> QED BY <1>1, <2>1, FoundedFlat, Zenon
<1>5. Founded(known \cup ToSet(typed), Codes(ns))
  <2>1. \A e \in ToSet(Codes(ns)) : e.needs = <<>>
    BY SingleSequence DEF Codes, Function
  <2>2. ToSet(<<>>) = {}
    BY EmptySequence
  <2> QED BY <1>1, <2>1, <2>2, FoundedFlat, Zenon
<1>6. Founded(known \cup ToSet(coded), Objects(ns, q))
  <2>1. ToSet(start) \subseteq ToSet(coded)
    <3>1. ToSet(typed) = ToSet(start) \cup ToSet(Getters(ns, q)) /\ ToSet(coded) = ToSet(typed) \cup ToSet(Codes(ns))
      BY UtlMembers, Zenon
    <3> QED BY <3>1
  <2>2. ASSUME NEW e \in ToSet(Objects(ns, q)), NEW name \in ToSet(e.needs)
        PROVE  (\E d \in known \cup ToSet(coded) : Serves(d, name, e.scope)) \/ Provided(e.scope[1], name)
    <3>1. PICK t \in ToSet(Required(q)) : e = TypedMember(ns, q, t, t \o "_")
      BY <2>2, ObjectMembers, Zenon
    <3>2. e.scope = scope /\ e.needs = <<class_name(q[t]), "N_" \o t>>
      BY <3>1 DEF TypedMember, Member
    <3>3. name \in {class_name(q[t]), "N_" \o t} /\ e.scope[1] = ns
      BY <2>2, <3>2, PairSequence
    <3> QED BY <1>3, <2>1, <3>2, <3>3
  <2> QED BY <1>1, <2>2, FoundedFlat, Zenon
<1>7. Founded(known \cup ToSet(held), last)
  <2>1. \A e \in ToSet(last) : e.needs = <<>>
    BY SingleSequence DEF Statement, Member
  <2>2. ToSet(<<>>) = {}
    BY EmptySequence
  <2> QED BY <1>1, <2>1, <2>2, FoundedFlat, Zenon
<1>8. UtlClass(ns, q) = held \o last
  BY UtlMembers, Zenon
<1> HIDE DEF start, last
<1>9. Founded(known, typed)
  BY <1>1, <1>2, <1>4, FoundedConcat, Zenon
<1> HIDE DEF typed
<1>10. Founded(known, coded)
  BY <1>1, <1>5, <1>9, FoundedConcat, Zenon
<1> HIDE DEF coded
<1>11. Founded(known, held)
  BY <1>1, <1>6, <1>10, FoundedConcat, Zenon
<1> HIDE DEF held
<1> QED BY <1>1, <1>7, <1>8, <1>11, FoundedConcat, Zenon

\* The constructor attaches the members that are declared after it
LEMMA UtlServed ==
  ASSUME NEW ns, NEW q
  PROVE  Served(UtlClass(ns, q))
<1> DEFINE class == UtlClass(ns, q)
<1> SUFFICES ASSUME NEW d \in ToSet(class), NEW name \in ToSet(d.body)
             PROVE  \E e \in ToSet(class) : e.name = name /\ e.scope = d.scope
  BY DEF Served
<1>1. ToSet(class) = ToSet(UtlStart(ns, q)) \cup ToSet(Getters(ns, q)) \cup ToSet(Codes(ns))
                       \cup ToSet(Objects(ns, q)) \cup {Statement(ns, q)}
  <2>1. ToSet(class) = ToSet(UtlStart(ns, q) \o Getters(ns, q) \o Codes(ns) \o Objects(ns, q)) \cup {Statement(ns, q)}
    BY UtlMembers, Zenon
  <2>2. ToSet(UtlStart(ns, q) \o Getters(ns, q) \o Codes(ns) \o Objects(ns, q))
          = ToSet(UtlStart(ns, q) \o Getters(ns, q) \o Codes(ns)) \cup ToSet(Objects(ns, q))
    BY UtlMembers, Zenon
  <2>3. /\ ToSet(UtlStart(ns, q) \o Getters(ns, q) \o Codes(ns))
             = ToSet(UtlStart(ns, q) \o Getters(ns, q)) \cup ToSet(Codes(ns))
        /\ ToSet(UtlStart(ns, q) \o Getters(ns, q)) = ToSet(UtlStart(ns, q)) \cup ToSet(Getters(ns, q))
    BY UtlMembers, Zenon
  <2> QED BY <2>1, <2>2, <2>3
<1>2. CASE d = Constructor(ns, q)
  <2>1. d.scope = <<ns, "utl">> /\ d.body = [i \in DOMAIN Required(q) |-> Required(q)[i] \o "_"]
    BY <1>2 DEF Constructor, Function
  <2>2. PICK t \in ToSet(Required(q)) : name = t \o "_"
    BY <2>1 DEF ToSet
  <2>3. TypedMember(ns, q, t, name) \in ToSet(class)
    <3>1. TypedMember(ns, q, t, name) \in ToSet(Objects(ns, q))
      BY <2>2, ObjectMembers, Zenon
    <3> QED BY <1>1, <3>1
  <2>4. TypedMember(ns, q, t, name).name = name /\ TypedMember(ns, q, t, name).scope = <<ns, "utl">>
    BY DEF TypedMember, Member
  <2> QED BY <2>1, <2>3, <2>4
<1>3. CASE d # Constructor(ns, q)
  <2>1. d.body = <<>>
    <3>1. CASE d \in ToSet(UtlStart(ns, q))
      BY <1>3, <3>1, UtlStartMembers DEF NameArgument, Member
    <3>2. CASE d \in ToSet(Getters(ns, q))
      <4>1. PICK t \in ToSet(Required(q)) : d = Getter(ns, q, t)
        BY <3>2, GetterMembers, Zenon
      <4> QED BY <4>1 DEF Getter, TypedMember, Member
    <3>3. CASE d \in ToSet(Codes(ns))
      BY <3>3, SingleSequence DEF Codes, Function
    <3>4. CASE d \in ToSet(Objects(ns, q))
      <4>1. PICK t \in ToSet(Required(q)) : d = TypedMember(ns, q, t, t \o "_")
        BY <3>4, ObjectMembers, Zenon
      <4> QED BY <4>1 DEF TypedMember, Member
    <3>5. CASE d = Statement(ns, q)
      BY <3>5 DEF Statement, Member
    <3> QED BY <1>1, <3>1, <3>2, <3>3, <3>4, <3>5
  <2> QED BY <2>1, EmptySequence
<1> QED BY <1>2, <1>3

-----------------------------------------------------------------------------
(* Every name is declared where it is used                                 *)

TypeOK ==
  /\ set \in QuerySet /\ at \in Nat \ {0}
  /\ part \in {"query", "par", "res", "utl"}
  /\ part # "query" => at <= Len(set)
  /\ IsSequence(header)

\* The class of a buffer of the query the generator is at stands in the header
Present(t) ==
  Written(Here[t]) => \E d \in ToSet(header) : d.name = class_name(Here[t]) /\ d.scope = <<Namespace>>

UInv ==
  /\ TypeOK
  /\ Founded({}, header) /\ Served(header)
  /\ part \in {"res", "utl"} => Present("par")
  /\ part = "utl" => Present("res")

LEMMA HereQuery ==
  ASSUME TypeOK, at <= Len(set)
  PROVE  /\ Here \in ToSet(set)
         /\ \A t \in {"par", "res"} : IsSequence(Here[t].flds)
<1>1. IsSequence(set) /\ at \in 1..Len(set)
  <2>1. IsSequence(set)
    BY QuerySetAssumption DEF TypeOK
  <2> QED BY <2>1, Positioned DEF TypeOK
<1>2. Here \in ToSet(set)
  BY <1>1, Positioned DEF Here
<1>3. ToSet(BufType) = {"par", "res"}
  BY PairSequence DEF BufType
<1> QED BY <1>2, <1>3, QuerySetAssumption DEF TypeOK

\* A part that is appended to the header
LEMMA Appended ==
  ASSUME IsSequence(header), Founded({}, header), Served(header),
         NEW s, IsSequence(s), Founded(ToSet(header), s), Served(s), header' = header \o s, set' = set
  PROVE  /\ IsSequence(header') /\ Founded({}, header)' /\ Served(header)'
         /\ ToSet(header') = ToSet(header) \cup ToSet(s)
<1>1. IsSequence(header') /\ ToSet(header') = ToSet(header) \cup ToSet(s)
  BY ConcatSequences
<1>2. Served(header')
  BY ServedConcat
<1>3. Founded({}, header')
  <2>1. {} \cup ToSet(header) = ToSet(header)
    OBVIOUS
  <2> QED BY <2>1, FoundedConcat
<1> QED BY <1>1, <1>2, <1>3 DEF Founded, Served, Provided

\* gen_buf keeps the invariant, whether it writes the class or not
LEMMA GenBufKeepsUInv ==
  ASSUME UInv, NEW t \in {"par", "res"}, NEW next, GenBuf(t, next),
         \/ t = "par" /\ next = "res"
         \/ t = "res" /\ next = "utl"
  PROVE  UInv'
<1>1. at <= Len(set) /\ TypeOK /\ part = t /\ set' = set /\ at' = at
  BY DEF UInv, TypeOK, GenBuf
<1>2. IsSequence(Here[t].flds)
  BY <1>1, HereQuery
<1>3. CASE ~Written(Here[t])
  <2>1. header' = header /\ part' = next
    BY <1>3 DEF GenBuf
  <2> QED BY <1>1, <1>3, <2>1
          DEF UInv, TypeOK, Founded, Served, Present, Provided, Here, Namespace, Written
<1>4. CASE Written(Here[t]) /\ Unknown(Here[t])
  <2>1. header' = header /\ part' = part
    BY <1>4 DEF GenBuf
  <2> QED BY <1>1, <2>1 DEF UInv, TypeOK, Founded, Served, Present, Provided, Here, Namespace
<1>5. CASE Written(Here[t]) /\ ~Unknown(Here[t])
  <2> DEFINE class == BufferClass(Namespace, Here[t])
  <2>1. header' = header \o class /\ part' = next
    BY <1>5 DEF GenBuf
  <2>2. IsSequence(class) /\ Founded(ToSet(header), class) /\ Served(class)
    BY <1>2, BufferMembers, BufferFounded, BufferServed, Zenon
  <2>3. \E d \in ToSet(class) : d.name = class_name(Here[t]) /\ d.scope = <<Namespace>>
    BY <1>2, BufferDeclared, Zenon
  <2> HIDE DEF class
  <2>4. /\ IsSequence(header') /\ Founded({}, header)' /\ Served(header)'
        /\ ToSet(header') = ToSet(header) \cup ToSet(class)
    BY <2>1, <2>2, <1>1, Appended DEF UInv, TypeOK
  <2>5. Here' = Here /\ Namespace' = Namespace
    BY <1>1 DEF Here, Namespace
  <2>6. Present(t)'
    BY <2>3, <2>4, <2>5 DEF Present
  <2>7. next = "utl" => Present("par")'
    BY <1>1, <2>4, <2>5 DEF UInv, Present
  <2> QED BY <1>1, <2>1, <2>4, <2>6, <2>7 DEF UInv, TypeOK
<1> QED BY <1>3, <1>4, <1>5

\* gen_utl uses the classes gen_buf wrote or the client provides
LEMMA GenUtlKeepsUInv ==
  ASSUME UInv, GenUtl
  PROVE  UInv'
<1> DEFINE class == UtlClass(Namespace, Here)
<1>1. at <= Len(set) /\ TypeOK /\ part = "utl" /\ set' = set /\ at' = at + 1 /\ part' = "query"
  BY DEF UInv, TypeOK, GenUtl
<1>2. Here \in ToSet(set) /\ ToSet(BufType) = {"par", "res"}
  BY <1>1, HereQuery, PairSequence DEF BufType
<1>3. ASSUME NEW t \in ToSet(Required(Here))
      PROVE  \/ \E d \in ToSet(header) : d.name = class_name(Here[t]) /\ d.scope = <<Namespace>>
             \/ Provided(Namespace, class_name(Here[t]))
  <2>1. t \in {"par", "res"} /\ is_required(Here[t])
    BY <1>3, RequiredBuffers
  <2>2. CASE Here[t].skip
    BY <1>2, <2>1, <2>2 DEF Provided, ClassOf, Namespace
  <2>3. CASE ~Here[t].skip
    <3>1. Written(Here[t]) /\ Present(t)
      BY <1>1, <2>1, <2>3 DEF UInv, Written
    <3> QED BY <3>1 DEF Present
  <2> QED BY <2>2, <2>3
<1>4. IsSequence(class) /\ Founded(ToSet(header), class) /\ Served(class)
  <2>1. IsSequence(class) /\ Served(class)
    BY UtlMembers, UtlServed, Zenon
  <2>2. Founded(ToSet(header), class)
    BY <1>3, UtlFounded, Zenon
  <2> QED BY <2>1, <2>2
<1>5. header' = header \o class
  BY DEF GenUtl
<1> HIDE DEF class
<1>6. IsSequence(header') /\ Founded({}, header)' /\ Served(header)'
  BY <1>1, <1>4, <1>5, Appended DEF UInv, TypeOK
<1> QED BY <1>1, <1>6 DEF UInv, TypeOK

\* An empty header uses nothing that is not declared (gen_cpp.cpp:713-718)
THEOREM UInvInitially == Init => UInv
<1> SUFFICES ASSUME Init PROVE UInv
  OBVIOUS
<1>1. ToSet(header) = {} /\ DOMAIN header = {} /\ IsSequence(header)
  BY EmptySequence DEF Init
<1> QED BY <1>1 DEF Init, UInv, TypeOK, Founded, Served

\* Each part that is written declares what it uses, or finds it declared by the
\* parts of the same query before it (gen_cpp.cpp:241-445, 587-657)
THEOREM UInvKept == UInv /\ [Next]_vars => UInv'
<1> SUFFICES ASSUME UInv, [Next]_vars PROVE UInv'
  OBVIOUS
<1>1. CASE BeginQuery
  BY <1>1 DEF BeginQuery, UInv, TypeOK, Founded, Served, Provided
<1>2. CASE GenBuf("par", "res")
  BY <1>2, GenBufKeepsUInv
<1>3. CASE GenBuf("res", "utl")
  BY <1>3, GenBufKeepsUInv
<1>4. CASE GenUtl
  BY <1>4, GenUtlKeepsUInv
<1>5. CASE EndFile
  BY <1>5 DEF EndFile, UInv, TypeOK, Founded, Served, Provided
<1>6. CASE UNCHANGED vars
  BY <1>6 DEF vars, UInv, TypeOK, Founded, Served, Provided, Present, Here, Namespace
<1> QED BY <1>1, <1>2, <1>3, <1>4, <1>5, <1>6 DEF Next

\* A compiler finds every name of a header that was written: what a declaration
\* needs is declared above it or provided by the client, and what the body of a
\* function uses is a member of its class (gen_cpp.cpp:241-445, 587-627)
THEOREM UsesAlwaysResolved == Spec => []UsesResolved
<1>1. UInv => UsesResolved
  <2> SUFFICES ASSUME UInv PROVE UsesResolved
    OBVIOUS
  <2>1. DOMAIN header = 1..Len(header) /\ Len(header) \in Nat
    BY Positioned DEF UInv, TypeOK
  <2>2. ASSUME NEW i \in Positions, NEW name \in ToSet(header[i].needs)
        PROVE  \/ \E j \in 1..i - 1 :
                    header[j].name = name /\ Encloses(header[j].scope, header[i].scope)
               \/ Provided(header[i].scope[1], name)
    <3>1. \/ \E j \in DOMAIN header : j < i /\ Serves(header[j], name, header[i].scope)
          \/ Provided(header[i].scope[1], name)
      BY <2>2 DEF UInv, Founded, Positions
    <3>2. \A j \in DOMAIN header : j < i => j \in 1..i - 1
      BY <2>1 DEF Positions
    <3> QED BY <3>1, <3>2 DEF Serves
  <2>3. ASSUME NEW i \in Positions, NEW name \in ToSet(header[i].body)
        PROVE  \E j \in Positions : header[j].name = name /\ header[j].scope = header[i].scope
    <3>1. header[i] \in ToSet(header)
      BY DEF ToSet, Positions
    <3>2. PICK e \in ToSet(header) : e.name = name /\ e.scope = header[i].scope
      BY <2>3, <3>1, Zenon DEF UInv, Served
    <3>3. PICK j \in Positions : header[j] = e
      BY DEF ToSet, Positions
    <3> QED BY <3>2, <3>3
  <2> QED BY <2>2, <2>3 DEF UsesResolved
<1> QED BY <1>1, UInvInitially, UInvKept, PTL DEF Spec

-----------------------------------------------------------------------------
(* The names of a buffer class                                             *)

\* A buffer of a query set
Translated(buf) ==
  \E qs \in QuerySet : \E q \in ToSet(qs), t \in ToSet(BufType) : buf = q[t]

\* A buffer whose columns have names of their own
Names(buf) == [i \in DOMAIN buf.flds |-> Name(buf, i)]
Unmistakable(buf) ==
  Translated(buf) /\ Distinct(Names(buf)) /\ ToSet(Names(buf)) \cap Formed(buf) = {}

LEMMA BufferStrings ==
  ASSUME NEW buf, Translated(buf)
  PROVE  /\ IsSequence(buf.flds)
         /\ \A k \in DOMAIN buf.flds :
              Name(buf, k) \in Columns /\ ToString(k - 1) \in Counters
         /\ \A k, m \in DOMAIN buf.flds : ToString(k - 1) = ToString(m - 1) => k = m
<1>1. PICK qs \in QuerySet : \E q \in ToSet(qs), t \in ToSet(BufType) : buf = q[t]
  BY DEF Translated
<1>2. PICK q \in ToSet(qs), t \in ToSet(BufType) : buf = q[t]
  BY <1>1
<1>3. IsSequence(buf.flds)
  BY <1>2, QuerySetAssumption
<1>4. ASSUME NEW k \in DOMAIN buf.flds
      PROVE  Name(buf, k) \in Columns /\ ToString(k - 1) \in Counters
  BY <1>2 DEF Columns, Counters, OfFields
<1>5. Distinct([k \in DOMAIN buf.flds |-> ToString(k - 1)])
  BY <1>2, StringAssumption
<1> QED BY <1>3, <1>4, <1>5 DEF Distinct

\* A name and the signature it is declared with, what it is formed from: a
\* prefix and the field it is about
Signed(p, sig) ==
  \/ p \in {"is_null_", "set_null_", ""} /\ sig \in {<<>>, <<"uint">>}
  \/ p = "set_" /\ sig \in {<<"value">>, <<"value", "uint">>}
  \/ p \in {"len_", "dec_", "T_", "a_", "A_", "N_"} /\ sig = NotAFunction
  \/ p \in {"attributes", "attr_names"} /\ sig = <<>>
Means(name, sig, buf, p, k) ==
  /\ Signed(p, sig)
  /\ \/ k = 0 /\ name = p /\ p \in {"attributes", "attr_names", "A_", "N_"}
     \/ /\ k \in DOMAIN buf.flds
        /\ \/ p \in {"is_null_", "set_null_", "", "set_"} /\ name = p \o Name(buf, k)
           \/ p \in {"len_", "dec_", "T_"} /\ name = Numbered(p, k)
           \/ p = "a_" /\ name = Numbered(p, k) \o "_"

\* The string that follows the prefix
Rest(buf, p, k) ==
  IF p \in {"len_", "dec_", "T_"} THEN ToString(k - 1)
  ELSE IF p = "a_" THEN ToString(k - 1) \o "_" ELSE Name(buf, k)

LEMMA FormedNames ==
  ASSUME NEW buf
  PROVE  /\ {"attributes", "attr_names", "A_", "N_"} \subseteq Formed(buf)
         /\ \A k \in DOMAIN buf.flds :
              /\ \A p \in {"is_null_", "set_null_", "set_"} : p \o Name(buf, k) \in Formed(buf)
              /\ \A p \in {"len_", "dec_", "T_"} : p \o ToString(k - 1) \in Formed(buf)
              /\ "a_" \o ToString(k - 1) \o "_" \in Formed(buf)
<1> DEFINE F(k) == {p \o Name(buf, k) : p \in {"is_null_", "set_null_", "set_"}}
                     \cup {p \o ToString(k - 1) : p \in {"len_", "dec_", "T_"}}
                     \cup {"a_" \o ToString(k - 1) \o "_"}
<1>1. Formed(buf) = {"attributes", "attr_names", "A_", "N_"} \cup UNION {F(k) : k \in DOMAIN buf.flds}
  BY Zenon DEF Formed
<1>2. ASSUME NEW k \in DOMAIN buf.flds
      PROVE  /\ \A p \in {"is_null_", "set_null_", "set_"} : p \o Name(buf, k) \in F(k)
             /\ \A p \in {"len_", "dec_", "T_"} : p \o ToString(k - 1) \in F(k)
             /\ "a_" \o ToString(k - 1) \o "_" \in F(k)
  OBVIOUS
<1> HIDE DEF F
<1>3. \A k \in DOMAIN buf.flds : F(k) \subseteq Formed(buf)
  BY <1>1
<1> QED BY <1>1, <1>2, <1>3

LEMMA MeansFormed ==
  ASSUME NEW buf, Translated(buf), NEW name, NEW sig, NEW p, NEW k, Means(name, sig, buf, p, k)
  PROVE  \/ p = "" /\ k \in DOMAIN buf.flds /\ name = Name(buf, k)
         \/ /\ p # "" /\ name \in Formed(buf) /\ p \in Affixes /\ k \in DOMAIN buf.flds
            /\ Rest(buf, p, k) \in Rests /\ name = p \o Rest(buf, p, k)
         \/ /\ p # "" /\ name \in Formed(buf) /\ p \in {"attributes", "attr_names", "A_", "N_"}
            /\ k = 0 /\ name = p
<1>1. CASE k \in DOMAIN buf.flds /\ p = "" /\ name = p \o Name(buf, k)
  <2>1. Name(buf, k) \in Columns
    BY <1>1, BufferStrings
  <2> QED BY <1>1, <2>1, StringAssumption
<1>2. CASE /\ k \in DOMAIN buf.flds /\ p \in {"is_null_", "set_null_", "set_"}
           /\ name = p \o Name(buf, k)
  <2>1. Rest(buf, p, k) = Name(buf, k) /\ Name(buf, k) \in Rests
    BY <1>2, BufferStrings DEF Rest, Rests
  <2>2. name \in Formed(buf)
    BY <1>2, FormedNames
  <2> QED BY <1>2, <2>1, <2>2 DEF Affixes
<1>3. CASE k \in DOMAIN buf.flds /\ p \in {"len_", "dec_", "T_"} /\ name = Numbered(p, k)
  <2>1. Rest(buf, p, k) = ToString(k - 1) /\ ToString(k - 1) \in Rests
    BY <1>3, BufferStrings DEF Rest, Rests
  <2>2. name \in Formed(buf)
    BY <1>3, FormedNames DEF Numbered
  <2> QED BY <1>3, <2>1, <2>2 DEF Affixes, Numbered
<1>4. CASE k \in DOMAIN buf.flds /\ p = "a_" /\ name = Numbered(p, k) \o "_"
  <2>1. Rest(buf, p, k) = ToString(k - 1) \o "_" /\ ToString(k - 1) \in Counters
    BY <1>4, BufferStrings DEF Rest
  <2>2. Rest(buf, p, k) \in Rests
    BY <2>1 DEF Rests
  <2>3. name = p \o Rest(buf, p, k)
    BY <1>4, <2>1, StringAssumption DEF Numbered
  <2>4. name \in Formed(buf)
    BY <1>4, FormedNames DEF Numbered
  <2> QED BY <1>4, <2>2, <2>3, <2>4 DEF Affixes
<1>5. CASE k = 0 /\ name = p /\ p \in {"attributes", "attr_names", "A_", "N_"}
  BY <1>5, FormedNames
<1> QED BY <1>1, <1>2, <1>3, <1>4, <1>5 DEF Means

\* A name has one meaning, except that a function may be declared for each of
\* several signatures
LEMMA NameTells ==
  ASSUME NEW buf, Unmistakable(buf), NEW name,
         NEW sig, NEW p, NEW k, Means(name, sig, buf, p, k),
         NEW tig, NEW r, NEW m, Means(name, tig, buf, r, m),
         sig = tig \/ NotAFunction \in {sig, tig}
  PROVE  p = r /\ k = m /\ sig = tig
<1>1. Translated(buf)
  BY DEF Unmistakable
<1> DEFINE Fixed == {"attributes", "attr_names", "A_", "N_"}
           Is(p_, k_) ==
             \/ p_ = "" /\ k_ \in DOMAIN buf.flds /\ name = Name(buf, k_)
             \/ /\ p_ # "" /\ name \in Formed(buf) /\ p_ \in Affixes /\ k_ \in DOMAIN buf.flds
                /\ Rest(buf, p_, k_) \in Rests /\ name = p_ \o Rest(buf, p_, k_)
             \/ p_ # "" /\ name \in Formed(buf) /\ p_ \in Fixed /\ k_ = 0 /\ name = p_
<1>2. Is(p, k) /\ Is(r, m)
  BY <1>1, MeansFormed, Zenon
<1>3. /\ \A i \in DOMAIN buf.flds : Name(buf, i) \notin Formed(buf)
      /\ \A i, j \in DOMAIN buf.flds : Name(buf, i) = Name(buf, j) => i = j
  BY DEF Unmistakable, Names, ToSet, Distinct
<1>4. p = r => sig = tig
  <2>1. NotAFunction \notin Signatures
    BY DEF NotAFunction, Signatures
  <2>2. ASSUME NEW s1, NEW s2, Signed(p, s1), Signed(p, s2)
        PROVE  s1 = s2 \/ (s1 \in Signatures /\ s2 \in Signatures)
    BY <2>2 DEF Signed, Signatures
  <2> QED BY <2>1, <2>2 DEF Means
<1>5. CASE p = "" \/ r = ""
  <2>1. p = "" /\ r = ""
    BY <1>2, <1>3, <1>5
  <2> QED BY <1>2, <1>3, <1>4, <2>1 DEF Affixes
<1>6. CASE p \in Fixed \/ r \in Fixed
  <2>1. ASSUME NEW f \in Affixes, NEW x \in Rests PROVE f \o x \notin Fixed
    BY StringAssumption
  <2>2. ASSUME NEW p_, NEW k_, Is(p_, k_), name \in Fixed PROVE p_ = name /\ k_ = 0
    <3>1. CASE p_ \in Affixes /\ Rest(buf, p_, k_) \in Rests /\ name = p_ \o Rest(buf, p_, k_)
      BY <2>1, <2>2, <3>1
    <3>2. Fixed \subseteq Formed(buf)
      BY FormedNames
    <3> QED BY <1>3, <2>2, <3>1, <3>2
  <2>3. name \in Fixed
    BY <1>2, <1>6 DEF Affixes
  <2> HIDE DEF Is
  <2>4. p = name /\ k = 0 /\ r = name /\ m = 0
    BY <1>2, <2>2, <2>3
  <2> QED BY <1>4, <2>4
<1>7. CASE p \in Affixes /\ r \in Affixes
  <2>1. /\ Rest(buf, p, k) \in Rests /\ name = p \o Rest(buf, p, k) /\ k \in DOMAIN buf.flds
        /\ Rest(buf, r, m) \in Rests /\ name = r \o Rest(buf, r, m) /\ m \in DOMAIN buf.flds
    BY <1>2, <1>7 DEF Affixes
  <2>2. (p = r /\ Rest(buf, p, k) = Rest(buf, r, m)) \/ {p, r} = {"set_", "set_null_"}
    <3>1. p \o Rest(buf, p, k) = r \o Rest(buf, r, m)
      BY <2>1
    <3>2. \A f, g \in Affixes, x, y \in Rests :
            f \o x = g \o y => (f = g /\ x = y) \/ {f, g} = {"set_", "set_null_"}
      BY StringAssumption, Zenon
    <3> QED BY <1>7, <2>1, <3>1, <3>2, Zenon
  <2>3. {p, r} # {"set_", "set_null_"}
    <3>1. \A s1, s2 : Signed("set_", s1) /\ Signed("set_null_", s2) =>
                        s1 # s2 /\ NotAFunction \notin {s1, s2}
      BY DEF Signed, NotAFunction
    <3>2. Signed(p, sig) /\ Signed(r, tig)
      BY DEF Means
    <3> QED BY <3>1, <3>2
  <2>4. k = m
    <3>1. p = r /\ Rest(buf, p, k) = Rest(buf, p, m)
      BY <2>2, <2>3
    <3>2. ToString(k - 1) \in Counters /\ ToString(m - 1) \in Counters
          /\ (ToString(k - 1) = ToString(m - 1) => k = m)
      BY <1>1, <2>1, BufferStrings
    <3>3. CASE p = "a_"
      <4>1. ToString(k - 1) \o "_" = ToString(m - 1) \o "_"
        BY <3>1, <3>3 DEF Rest
      <4> QED BY <3>2, <4>1, StringAssumption
    <3>4. CASE p # "a_"
      BY <1>3, <2>1, <3>1, <3>2, <3>4 DEF Rest
    <3> QED BY <3>3, <3>4
  <2> QED BY <1>4, <2>2, <2>3, <2>4
<1> QED BY <1>2, <1>5, <1>6, <1>7

-----------------------------------------------------------------------------
(* Declarations that stand in each other's way                             *)

Clash(d, e) ==
  /\ d.scope = e.scope /\ d.name = e.name
  /\ d.sig = e.sig \/ NotAFunction \in {d.sig, e.sig}
Separate(s) == \A i, j \in DOMAIN s : i # j => ~Clash(s[i], s[j])
Apart(s, t) == \A d \in ToSet(s), e \in ToSet(t) : ~Clash(d, e)

LEMMA SeparateConcat ==
  ASSUME NEW s, NEW t, IsSequence(s), IsSequence(t), Separate(s), Separate(t), Apart(s, t)
  PROVE  Separate(s \o t)
<1> DEFINE st == s \o t
<1> SUFFICES ASSUME NEW i \in DOMAIN st, NEW j \in DOMAIN st, i # j, Clash(st[i], st[j])
             PROVE  FALSE
  BY Zenon DEF Separate
<1>1. \A k \in DOMAIN st : \/ k \in DOMAIN s /\ st[k] = s[k]
                           \/ k - Len(s) \in DOMAIN t /\ st[k] = t[k - Len(s)]
  BY ConcatPositions
<1>2. Len(s) \in Nat /\ DOMAIN st \subseteq Nat
  <2>1. IsSequence(st)
    BY ConcatSequences
  <2> QED BY <2>1, Positioned
<1>3. Clash(st[j], st[i])
  BY DEF Clash
<1> HIDE DEF st
<1>4. ASSUME NEW k \in DOMAIN s, NEW m \in DOMAIN t PROVE ~Clash(s[k], t[m]) /\ ~Clash(t[m], s[k])
  <2>1. s[k] \in ToSet(s) /\ t[m] \in ToSet(t)
    BY DEF ToSet
  <2> QED BY <2>1 DEF Apart, Clash
<1>5. CASE i \in DOMAIN s /\ st[i] = s[i] /\ j \in DOMAIN s /\ st[j] = s[j]
  BY <1>5 DEF Separate
<1>6. CASE /\ i - Len(s) \in DOMAIN t /\ st[i] = t[i - Len(s)]
           /\ j - Len(s) \in DOMAIN t /\ st[j] = t[j - Len(s)]
  <2>1. i - Len(s) # j - Len(s)
    BY <1>2
  <2> QED BY <1>6, <2>1 DEF Separate
<1> QED BY <1>1, <1>3, <1>4, <1>5, <1>6

LEMMA SeparateFlatten ==
  ASSUME NEW S, NEW s \in Seq(Seq(S)),
         \A k \in DOMAIN s : Separate(s[k]),
         \A k, m \in DOMAIN s : k # m => Apart(s[k], s[m])
  PROVE  Separate(FlattenSeq(s))
<1>1. PICK g : /\ Len(s) = 0 => FlattenSeq(s) = s
               /\ Len(s) # 0 => FlattenSeq(s) = g[Len(s)] /\ g[1] = s[1]
               /\ \A i \in 1..Len(s) : i # 1 => g[i] = g[i - 1] \o s[i]
  <2>1. Len(s) \in Nat
    OBVIOUS
  <2> QED BY <2>1, FlattenIs, Zenon
<1> DEFINE Built(n) == /\ IsSequence(g[n]) /\ Separate(g[n])
                       /\ \A d \in ToSet(g[n]) : \E k \in 1..n : d \in ToSet(s[k])
           T == {n \in Nat : n \in 1..Len(s) => Built(n)}
<1>2. \A k \in 1..Len(s) : IsSequence(s[k]) /\ k \in DOMAIN s
  BY DEF IsSequence, ToSet
<1>3. 0 \in T
  OBVIOUS
<1>4. ASSUME NEW n \in Nat, n \in T PROVE n + 1 \in T
  <2> SUFFICES ASSUME n + 1 \in 1..Len(s) PROVE Built(n + 1)
    OBVIOUS
  <2>1. CASE n = 0
    <3>1. g[n + 1] = s[1] /\ 1 \in 1..n + 1 /\ n + 1 = 1
      BY <1>1, <2>1
    <3> QED BY <1>2, <3>1
  <2>2. CASE n # 0
    <3>1. Built(n)
      BY <1>4, <2>2
    <3>2. g[n + 1] = g[n] \o s[n + 1]
      <4>1. n + 1 # 1 /\ (n + 1) - 1 = n
        BY <2>2
      <4> QED BY <1>1, <4>1
    <3>3. IsSequence(s[n + 1]) /\ Separate(s[n + 1])
      BY <1>2
    <3>4. Apart(g[n], s[n + 1])
      <4> SUFFICES ASSUME NEW d \in ToSet(g[n]), NEW e \in ToSet(s[n + 1]) PROVE ~Clash(d, e)
        BY DEF Apart
      <4>1. PICK k \in 1..n : d \in ToSet(s[k])
        BY <3>1
      <4>2. k \in DOMAIN s /\ n + 1 \in DOMAIN s /\ k # n + 1
        BY <1>2
      <4> QED BY <4>1, <4>2 DEF Apart
    <3>5. Separate(g[n + 1])
      BY <3>1, <3>2, <3>3, <3>4, SeparateConcat
    <3>6. IsSequence(g[n + 1]) /\ ToSet(g[n + 1]) = ToSet(g[n]) \cup ToSet(s[n + 1])
      BY <3>1, <3>2, <3>3, ConcatSequences
    <3>7. 1..n \subseteq 1..n + 1 /\ n + 1 \in 1..n + 1
      OBVIOUS
    <3> QED BY <3>1, <3>5, <3>6, <3>7
  <2> QED BY <2>1, <2>2
<1>5. Nat \subseteq T
  BY <1>3, <1>4, Induction
<1>6. CASE Len(s) = 0
  <2>1. DOMAIN s = {}
    BY <1>6
  <2> QED BY <1>1, <1>6, <2>1 DEF Separate
<1>7. CASE Len(s) # 0
  <2>1. Len(s) \in Nat /\ Len(s) \in 1..Len(s)
    BY <1>7
  <2>2. Built(Len(s))
    BY <1>5, <2>1
  <2> QED BY <1>1, <1>7, <2>2
<1> QED BY <1>6, <1>7

\* A part of a class, all of whose names have a meaning; T tells the parts from
\* each other: the prefixes it uses and the signatures it uses them with
Class(ns, buf) == Member(<<ns>>, class_name(buf), 0, <<>>)
IsTagged(d, ns, buf, p, sig) ==
  d.scope = <<ns, class_name(buf)>> /\ d.sig = sig /\ Means(d.name, sig, buf, p, d.of)
Tagged(s, ns, buf, T) ==
  /\ IsSequence(s) /\ Separate(s)
  /\ \A d \in ToSet(s) :
       \/ d = Class(ns, buf) /\ <<"class", NotAFunction>> \in T
       \/ \E p : <<p, d.sig>> \in T /\ IsTagged(d, ns, buf, p, d.sig)

LEMMA TaggedConcat ==
  ASSUME NEW buf, Unmistakable(buf), NEW ns, NEW T, NEW U, T \cap U = {},
         NEW s, Tagged(s, ns, buf, T), NEW t, Tagged(t, ns, buf, U)
  PROVE  Tagged(s \o t, ns, buf, T \cup U)
<1>1. IsSequence(s \o t) /\ ToSet(s \o t) = ToSet(s) \cup ToSet(t)
  BY ConcatSequences DEF Tagged
<1>2. Apart(s, t)
  <2> SUFFICES ASSUME NEW d \in ToSet(s), NEW e \in ToSet(t), Clash(d, e) PROVE FALSE
    BY DEF Apart
  <2>1. Class(ns, buf).scope # <<ns, class_name(buf)>>
    BY DEF Class, Member
  <2>2. CASE d = Class(ns, buf) \/ e = Class(ns, buf)
    BY <2>1, <2>2 DEF Tagged, IsTagged, Clash
  <2>3. CASE d # Class(ns, buf) /\ e # Class(ns, buf)
    <3>1. PICK p : <<p, d.sig>> \in T /\ Means(d.name, d.sig, buf, p, d.of)
      BY <2>3 DEF Tagged, IsTagged
    <3>2. PICK r : <<r, e.sig>> \in U /\ Means(e.name, e.sig, buf, r, e.of)
      BY <2>3 DEF Tagged, IsTagged
    <3>3. p = r /\ d.sig = e.sig
      BY <3>1, <3>2, NameTells DEF Clash
    <3> QED BY <3>1, <3>2, <3>3
  <2> QED BY <2>2, <2>3
<1>3. Separate(s \o t)
  BY <1>2, SeparateConcat DEF Tagged
<1> QED BY <1>1, <1>3 DEF Tagged

\* A group of declarations, one for each field
LEMMA TaggedTable ==
  ASSUME NEW buf, Unmistakable(buf), NEW ns, NEW p, NEW sig,
         NEW f, f = [k \in DOMAIN buf.flds |-> f[k]],
         \A k \in DOMAIN buf.flds : IsTagged(f[k], ns, buf, p, sig) /\ f[k].of = k
  PROVE  Tagged(f, ns, buf, {<<p, sig>>})
<1> DEFINE n == Len(buf.flds)
<1>1. n \in Nat /\ DOMAIN buf.flds = 1..n
  BY BufferStrings, Positioned DEF Unmistakable
<1> HIDE DEF n
<1>2. IsSequence(f) /\ DOMAIN f = 1..n /\ ToSet(f) = {f[k] : k \in 1..n}
  BY <1>1, TableSequence
<1>3. Separate(f)
  <2> SUFFICES ASSUME NEW i \in 1..n, NEW j \in 1..n, i # j, Clash(f[i], f[j]) PROVE FALSE
    BY <1>2 DEF Separate
  <2>1. Means(f[i].name, sig, buf, p, i) /\ Means(f[i].name, sig, buf, p, j)
    BY <1>1 DEF Clash, IsTagged
  <2> QED BY <2>1, NameTells
<1>4. \A k \in 1..n : f[k].sig = sig /\ IsTagged(f[k], ns, buf, p, sig)
  BY <1>1 DEF IsTagged
<1>5. \A d \in ToSet(f) : d.sig = sig /\ IsTagged(d, ns, buf, p, sig)
  BY <1>2, <1>4
<1> QED BY <1>2, <1>3, <1>5 DEF Tagged

\* Two declarations that do not clash
LEMMA TaggedPair ==
  ASSUME NEW ns, NEW buf, NEW T, NEW d, NEW e, ~Clash(d, e),
         NEW p, NEW sig, IsTagged(d, ns, buf, p, sig), <<p, sig>> \in T,
         NEW r, NEW tig, IsTagged(e, ns, buf, r, tig), <<r, tig>> \in T
  PROVE  Tagged(<<d, e>>, ns, buf, T)
<1>1. Separate(<<d, e>>)
  <2>1. ~Clash(e, d)
    BY DEF Clash
  <2> QED BY <2>1, PairSequence DEF Separate
<1>2. IsSequence(<<d, e>>) /\ ToSet(<<d, e>>) = {d, e}
  BY PairSequence
<1>3. d.sig = sig /\ e.sig = tig
  BY DEF IsTagged
<1>4. \A x \in ToSet(<<d, e>>) : \E x_p : <<x_p, x.sig>> \in T /\ IsTagged(x, ns, buf, x_p, x.sig)
  BY <1>2, <1>3
<1> QED BY <1>1, <1>2, <1>4, Zenon DEF Tagged

AccessorTags ==
  {<<"is_null_", <<>>>>, <<"is_null_", <<"uint">>>>, <<"set_null_", <<>>>>, <<"set_null_", <<"uint">>>>,
   <<"", <<>>>>, <<"", <<"uint">>>>, <<"set_", <<"value">>>>, <<"set_", <<"value", "uint">>>>}

LEMMA AccessorsTagged ==
  ASSUME NEW ns, NEW buf, Unmistakable(buf)
  PROVE  Tagged(Accessors(<<ns, class_name(buf)>>, buf), ns, buf, AccessorTags)
<1> DEFINE scope == <<ns, class_name(buf)>>
           Group(p, sig) ==
             [k \in DOMAIN buf.flds |-> Function(scope, p \o Name(buf, k), k, sig, <<a_name(k)>>)]
<1>1. ASSUME NEW p \in {"is_null_", "set_null_", "", "set_"}, NEW sig, Signed(p, sig)
      PROVE  Tagged(Group(p, sig), ns, buf, {<<p, sig>>})
  <2> DEFINE f == Group(p, sig)
  <2>1. f = [k \in DOMAIN buf.flds |-> f[k]]
    BY Zenon
  <2>2. ASSUME NEW k \in DOMAIN buf.flds
        PROVE  /\ f[k].scope = scope /\ f[k].of = k /\ f[k].sig = sig
               /\ f[k].name = p \o Name(buf, k)
    BY DEF Function
  <2> HIDE DEF f
  <2>3. \A k \in DOMAIN buf.flds : IsTagged(f[k], ns, buf, p, sig)
    BY <1>1, <2>2 DEF Means, IsTagged
  <2>4. Tagged(f, ns, buf, {<<p, sig>>})
    BY <2>1, <2>2, <2>3, TaggedTable
  <2> QED BY <2>4 DEF f
<1>2. /\ Signed("is_null_", <<>>) /\ Signed("is_null_", <<"uint">>)
      /\ Signed("set_null_", <<>>) /\ Signed("set_null_", <<"uint">>)
      /\ Signed("", <<>>) /\ Signed("", <<"uint">>)
      /\ Signed("set_", <<"value">>) /\ Signed("set_", <<"value", "uint">>)
  BY DEF Signed
<1> DEFINE g1 == Group("is_null_", <<>>)
           g2 == Group("is_null_", <<"uint">>)
           g3 == Group("set_null_", <<>>)
           g4 == Group("set_null_", <<"uint">>)
           g5 == Group("", <<>>)
           g6 == Group("", <<"uint">>)
           g7 == Group("set_", <<"value">>)
           g8 == Group("set_", <<"value", "uint">>)
           h2 == g1 \o g2
           h3 == h2 \o g3
           h4 == h3 \o g4
           h5 == h4 \o g5
           h6 == h5 \o g6
           h7 == h6 \o g7
           h8 == h7 \o g8
           U2 == {<<"is_null_", <<>>>>} \cup {<<"is_null_", <<"uint">>>>}
           U3 == U2 \cup {<<"set_null_", <<>>>>}
           U4 == U3 \cup {<<"set_null_", <<"uint">>>>}
           U5 == U4 \cup {<<"", <<>>>>}
           U6 == U5 \cup {<<"", <<"uint">>>>}
           U7 == U6 \cup {<<"set_", <<"value">>>>}
           U8 == U7 \cup {<<"set_", <<"value", "uint">>>>}
<1>3. /\ Tagged(g1, ns, buf, {<<"is_null_", <<>>>>}) /\ Tagged(g2, ns, buf, {<<"is_null_", <<"uint">>>>})
      /\ Tagged(g3, ns, buf, {<<"set_null_", <<>>>>}) /\ Tagged(g4, ns, buf, {<<"set_null_", <<"uint">>>>})
      /\ Tagged(g5, ns, buf, {<<"", <<>>>>}) /\ Tagged(g6, ns, buf, {<<"", <<"uint">>>>})
      /\ Tagged(g7, ns, buf, {<<"set_", <<"value">>>>}) /\ Tagged(g8, ns, buf, {<<"set_", <<"value", "uint">>>>})
  BY <1>1, <1>2
<1>4. /\ {<<"is_null_", <<>>>>} \cap {<<"is_null_", <<"uint">>>>} = {}
      /\ U2 \cap {<<"set_null_", <<>>>>} = {} /\ U3 \cap {<<"set_null_", <<"uint">>>>} = {}
      /\ U4 \cap {<<"", <<>>>>} = {} /\ U5 \cap {<<"", <<"uint">>>>} = {}
      /\ U6 \cap {<<"set_", <<"value">>>>} = {} /\ U7 \cap {<<"set_", <<"value", "uint">>>>} = {}
  OBVIOUS
<1>5. U8 = AccessorTags
  BY DEF AccessorTags
<1>6. Accessors(scope, buf) = h8
  BY Zenon DEF Accessors
<1> HIDE DEF g1, g2, g3, g4, g5, g6, g7, g8
<1>7. Tagged(h2, ns, buf, U2)
  BY <1>3, <1>4, TaggedConcat
<1> HIDE DEF h2, U2
<1>8. Tagged(h3, ns, buf, U3)
  BY <1>3, <1>4, <1>7, TaggedConcat
<1> HIDE DEF h3, U3
<1>9. Tagged(h4, ns, buf, U4)
  BY <1>3, <1>4, <1>8, TaggedConcat
<1> HIDE DEF h4, U4
<1>10. Tagged(h5, ns, buf, U5)
  BY <1>3, <1>4, <1>9, TaggedConcat
<1> HIDE DEF h5, U5
<1>11. Tagged(h6, ns, buf, U6)
  BY <1>3, <1>4, <1>10, TaggedConcat
<1> HIDE DEF h6, U6
<1>12. Tagged(h7, ns, buf, U7)
  BY <1>3, <1>4, <1>11, TaggedConcat
<1> HIDE DEF h7, U7
<1>13. Tagged(h8, ns, buf, U8)
  BY <1>3, <1>4, <1>12, TaggedConcat
<1> HIDE DEF h8, U8
<1> QED BY <1>5, <1>6, <1>13

LEMMA TaggedEmpty ==
  ASSUME NEW ns, NEW buf, NEW T
  PROVE  Tagged(<<>>, ns, buf, T)
<1>1. IsSequence(<<>>) /\ ToSet(<<>>) = {} /\ DOMAIN <<>> = {}
  BY EmptySequence
<1> QED BY <1>1, Zenon DEF Tagged, Separate

LEMMA TaggedSingle ==
  ASSUME NEW ns, NEW buf, NEW d, NEW T,
         \/ d = Class(ns, buf) /\ T = {<<"class", NotAFunction>>}
         \/ \E p, sig : IsTagged(d, ns, buf, p, sig) /\ T = {<<p, sig>>}
  PROVE  Tagged(<<d>>, ns, buf, T)
<1>1. IsSequence(<<d>>) /\ ToSet(<<d>>) = {d} /\ DOMAIN <<d>> = {1}
  BY SingleSequence
<1>2. Separate(<<d>>)
  BY <1>1 DEF Separate
<1>3. \/ d = Class(ns, buf) /\ <<"class", NotAFunction>> \in T
      \/ \E p : <<p, d.sig>> \in T /\ IsTagged(d, ns, buf, p, d.sig)
  BY DEF IsTagged
<1>4. \A x \in ToSet(<<d>>) : x = d
  BY <1>1
<1> QED BY <1>1, <1>2, <1>3, <1>4, Zenon DEF Tagged

\* The members of a kind that is numbered
LEMMA NumberedMeans ==
  ASSUME NEW buf, NEW ns, NEW d, d.of \in DOMAIN buf.flds,
         d.scope = <<ns, class_name(buf)>>, d.sig = NotAFunction, NEW p,
         \/ p \in {"dec_", "len_", "T_"} /\ d.name = Numbered(p, d.of)
         \/ p = "a_" /\ d.name = Numbered(p, d.of) \o "_"
  PROVE  IsTagged(d, ns, buf, p, NotAFunction)
BY DEF Means, Signed, IsTagged

ConstantTags == {<<"dec_", NotAFunction>>, <<"len_", NotAFunction>>}

LEMMA ConstantsTagged ==
  ASSUME NEW ns, NEW buf, Unmistakable(buf)
  PROVE  Tagged(Constants(<<ns, class_name(buf)>>, buf), ns, buf, ConstantTags)
<1> DEFINE scope == <<ns, class_name(buf)>>
           n == Len(buf.flds)
           c == [k \in DOMAIN buf.flds |-> ConstantsOf(scope, buf, k)]
           dec(k) == Member(scope, Numbered("dec_", k), k, <<>>)
           len(k) == Member(scope, Numbered("len_", k), k, <<>>)
           S == UNION {ToSet(c[k]) : k \in DOMAIN buf.flds}
<1>1. n \in Nat /\ DOMAIN buf.flds = 1..n /\ IsSequence(buf.flds)
  BY BufferStrings, Positioned DEF Unmistakable
<1>2. Constants(scope, buf) = FlattenSeq(c)
  BY Zenon DEF Constants, ConstantsOf
<1>3. ASSUME NEW k \in DOMAIN buf.flds
      PROVE  /\ IsTagged(dec(k), ns, buf, "dec_", NotAFunction) /\ dec(k).of = k /\ dec(k).sig = NotAFunction
             /\ IsTagged(len(k), ns, buf, "len_", NotAFunction) /\ len(k).of = k /\ len(k).sig = NotAFunction
  <2>1. /\ dec(k).scope = scope /\ dec(k).of = k /\ dec(k).sig = NotAFunction /\ dec(k).name = Numbered("dec_", k)
        /\ len(k).scope = scope /\ len(k).of = k /\ len(k).sig = NotAFunction /\ len(k).name = Numbered("len_", k)
    BY DEF Member
  <2> HIDE DEF dec, len
  <2> QED BY <2>1, NumberedMeans
<1>4. ASSUME NEW k \in DOMAIN buf.flds PROVE Tagged(ConstantsOf(scope, buf, k), ns, buf, ConstantTags)
  <2> DEFINE d == IF buf.flds[k].type # "bstring" THEN <<dec(k)>> ELSE <<>>
             l == IF buf.flds[k].type # "atomic" THEN <<len(k)>> ELSE <<>>
             D == {<<"dec_", NotAFunction>>}
             L == {<<"len_", NotAFunction>>}
  <2>1. ConstantsOf(scope, buf, k) = d \o l
    BY DEF ConstantsOf
  <2> HIDE DEF dec, len
  <2>2. Tagged(<<dec(k)>>, ns, buf, D) /\ Tagged(<<len(k)>>, ns, buf, L)
    <3>1. IsTagged(dec(k), ns, buf, "dec_", NotAFunction) /\ IsTagged(len(k), ns, buf, "len_", NotAFunction)
      BY <1>3
    <3>2. Tagged(<<dec(k)>>, ns, buf, D)
      BY <3>1, TaggedSingle, Zenon
    <3>3. Tagged(<<len(k)>>, ns, buf, L)
      BY <3>1, TaggedSingle, Zenon
    <3> QED BY <3>2, <3>3
  <2>3. Tagged(d, ns, buf, D) /\ Tagged(l, ns, buf, L)
    BY <2>2, TaggedEmpty
  <2>4. D \cap L = {} /\ ConstantTags = D \cup L
    BY DEF ConstantTags
  <2> HIDE DEF d, l, D, L
  <2>5. Tagged(d \o l, ns, buf, D \cup L)
    BY <2>3, <2>4, TaggedConcat
  <2> QED BY <2>1, <2>4, <2>5
<1>5. \A k \in DOMAIN buf.flds : c[k] = ConstantsOf(scope, buf, k)
  OBVIOUS
<1>6. ASSUME NEW k \in DOMAIN buf.flds, NEW d \in ToSet(c[k])
      PROVE  /\ d.of = k
             /\ \E p : <<p, d.sig>> \in ConstantTags /\ IsTagged(d, ns, buf, p, d.sig)
  <2>1. d = dec(k) \/ d = len(k)
    BY <1>5, <1>6, ConstantsOfField, Zenon
  <2> HIDE DEF dec, len
  <2> QED BY <1>3, <2>1 DEF ConstantTags
<1> HIDE DEF c
<1>7. ASSUME NEW k \in DOMAIN buf.flds, NEW m \in DOMAIN buf.flds, k # m PROVE Apart(c[k], c[m])
  <2> SUFFICES ASSUME NEW d \in ToSet(c[k]), NEW e \in ToSet(c[m]), Clash(d, e) PROVE FALSE
    BY DEF Apart
  <2>1. PICK p : IsTagged(d, ns, buf, p, d.sig) /\ d.of = k
    BY <1>6
  <2>2. PICK r : IsTagged(e, ns, buf, r, e.sig) /\ e.of = m
    BY <1>6
  <2>3. k = m
    BY <2>1, <2>2, NameTells DEF Clash, IsTagged
  <2> QED BY <1>7, <2>3
<1>8. c \in Seq(Seq(S)) /\ DOMAIN c = DOMAIN buf.flds
  <2>1. ASSUME NEW k \in 1..n PROVE c[k] \in Seq(S)
    <3>1. IsSequence(c[k]) /\ ToSet(c[k]) \subseteq S
      BY <1>1, <1>4, <1>5 DEF Tagged
    <3> QED BY <3>1, SeqMonotonic DEF IsSequence
  <2>2. c \in [1..n -> Seq(S)]
    BY <1>1, <2>1, Zenon DEF c
  <2> QED BY <1>1, <2>2
<1>9. Separate(FlattenSeq(c))
  <2>1. \A k \in DOMAIN c : Separate(c[k])
    BY <1>4, <1>5, <1>8 DEF Tagged
  <2> QED BY <1>7, <1>8, <2>1, SeparateFlatten
<1>10. IsSequence(FlattenSeq(c)) /\ \A d \in ToSet(FlattenSeq(c)) : \E k \in DOMAIN buf.flds : d \in ToSet(c[k])
  <2>1. IsSequence(FlattenSeq(c))
    BY <1>1, <1>2, ConstantMembers
  <2>2. ToSet(FlattenSeq(c)) = UNION {ToSet(c[k]) : k \in DOMAIN c}
    BY <1>8, FlattenMembers
  <2> QED BY <1>8, <2>1, <2>2
<1> QED BY <1>2, <1>6, <1>9, <1>10, Zenon DEF Tagged

BufferTags ==
  {<<"class", NotAFunction>>} \cup AccessorTags \cup {<<"attributes", <<>>>>, <<"attr_names", <<>>>>}
    \cup ConstantTags \cup {<<"T_", NotAFunction>>} \cup {<<"a_", NotAFunction>>}
    \cup {<<"A_", NotAFunction>>, <<"N_", NotAFunction>>}

\* No two declarations of a buffer class clash
LEMMA BufferTagged ==
  ASSUME NEW ns, NEW buf, Unmistakable(buf)
  PROVE  Tagged(BufferClass(ns, buf), ns, buf, BufferTags)
<1> DEFINE scope == <<ns, class_name(buf)>>
           T1 == {<<"class", NotAFunction>>}
           T2 == T1 \cup AccessorTags
           T3 == T2 \cup {<<"attributes", <<>>>>, <<"attr_names", <<>>>>}
           T4 == T3 \cup ConstantTags
           T5 == T4 \cup {<<"T_", NotAFunction>>}
           T6 == T5 \cup {<<"a_", NotAFunction>>}
<1>1. Tagged(<<Class(ns, buf)>>, ns, buf, T1)
  BY TaggedSingle
<1>2. Tagged(Accessors(scope, buf), ns, buf, AccessorTags)
  BY AccessorsTagged
<1>3. Tagged(Access(scope), ns, buf, {<<"attributes", <<>>>>, <<"attr_names", <<>>>>})
  <2> DEFINE d == Function(scope, "attributes", 0, <<>>, <<"A_">>)
             e == Function(scope, "attr_names", 0, <<>>, <<"N_">>)
  <2>1. /\ d.scope = scope /\ d.name = "attributes" /\ d.sig = <<>> /\ d.of = 0
        /\ e.scope = scope /\ e.name = "attr_names" /\ e.sig = <<>> /\ e.of = 0
    BY DEF Function
  <2>2. IsTagged(d, ns, buf, "attributes", <<>>) /\ IsTagged(e, ns, buf, "attr_names", <<>>)
    BY <2>1 DEF Means, Signed, IsTagged
  <2>3. Access(scope) = <<d, e>>
    BY DEF Access
  <2>4. ~Clash(d, e)
    BY <2>1 DEF Clash
  <2> HIDE DEF d, e
  <2> QED BY <2>1, <2>2, <2>3, <2>4, TaggedPair
<1>4. Tagged(Constants(scope, buf), ns, buf, ConstantTags)
  BY ConstantsTagged
<1>5. Tagged(Types(scope, buf), ns, buf, {<<"T_", NotAFunction>>})
  <2> DEFINE f == Types(scope, buf)
  <2>1. f = [k \in DOMAIN buf.flds |-> f[k]]
    BY Zenon DEF Types
  <2>2. \A k \in DOMAIN buf.flds : f[k] = TypeOf(scope, buf, k)
    BY DEF Types, TypeOf
  <2>3. \A k \in DOMAIN buf.flds :
          f[k].scope = scope /\ f[k].of = k /\ f[k].sig = NotAFunction /\ f[k].name = Numbered("T_", k)
    <3> TAKE k \in DOMAIN buf.flds
    <3>1. PICK needs : f[k] = Member(scope, Numbered("T_", k), k, needs)
      BY <2>2, Zenon DEF TypeOf
    <3> HIDE DEF f
    <3> QED BY <3>1 DEF Member
  <2> HIDE DEF f
  <2>4. \A k \in DOMAIN buf.flds : IsTagged(f[k], ns, buf, "T_", NotAFunction) /\ f[k].of = k
    BY <2>3, NumberedMeans
  <2>5. Tagged(f, ns, buf, {<<"T_", NotAFunction>>})
    BY <2>1, <2>4, TaggedTable
  <2> QED BY <2>5 DEF f
<1>6. Tagged(Attributes(scope, buf), ns, buf, {<<"a_", NotAFunction>>})
  <2> DEFINE f == Attributes(scope, buf)
  <2>1. f = [k \in DOMAIN buf.flds |-> f[k]]
    BY Zenon DEF Attributes
  <2>2. \A k \in DOMAIN buf.flds : f[k] = AttributeOf(scope, buf, k)
    BY DEF Attributes, AttributeOf
  <2>3. \A k \in DOMAIN buf.flds :
          f[k].scope = scope /\ f[k].of = k /\ f[k].sig = NotAFunction /\ f[k].name = Numbered("a_", k) \o "_"
    <3> TAKE k \in DOMAIN buf.flds
    <3>1. PICK name, needs : name = Numbered("a_", k) \o "_" /\ f[k] = Member(scope, name, k, needs)
      BY <2>2, Zenon DEF AttributeOf
    <3> HIDE DEF f
    <3>2. f[k] = Member(scope, name, k, needs)
      BY <3>1
    <3>3. f[k].scope = scope /\ f[k].of = k /\ f[k].sig = NotAFunction /\ f[k].name = name
      BY <3>2 DEF Member
    <3> QED BY <3>1, <3>3
  <2> HIDE DEF f
  <2>4. \A k \in DOMAIN buf.flds : IsTagged(f[k], ns, buf, "a_", NotAFunction) /\ f[k].of = k
    BY <2>3, NumberedMeans
  <2>5. Tagged(f, ns, buf, {<<"a_", NotAFunction>>})
    BY <2>1, <2>4, TaggedTable
  <2> QED BY <2>5 DEF f
<1>7. Tagged(Arrays(scope, buf), ns, buf, {<<"A_", NotAFunction>>, <<"N_", NotAFunction>>})
  <2> DEFINE d == Member(scope, "A_", 0, [k \in DOMAIN buf.flds |-> a_name(k)])
             e == Member(scope, "N_", 0, <<>>)
  <2>1. /\ d.scope = scope /\ d.name = "A_" /\ d.sig = NotAFunction /\ d.of = 0
        /\ e.scope = scope /\ e.name = "N_" /\ e.sig = NotAFunction /\ e.of = 0
    BY DEF Member
  <2>2. IsTagged(d, ns, buf, "A_", NotAFunction) /\ IsTagged(e, ns, buf, "N_", NotAFunction)
    BY <2>1 DEF Means, Signed, IsTagged
  <2>3. Arrays(scope, buf) = <<d, e>>
    BY DEF Arrays
  <2>4. ~Clash(d, e)
    BY <2>1 DEF Clash
  <2> HIDE DEF d, e
  <2> QED BY <2>1, <2>2, <2>3, <2>4, TaggedPair
<1>8. /\ T1 \cap AccessorTags = {} /\ T2 \cap {<<"attributes", <<>>>>, <<"attr_names", <<>>>>} = {}
      /\ T3 \cap ConstantTags = {} /\ T4 \cap {<<"T_", NotAFunction>>} = {}
      /\ T5 \cap {<<"a_", NotAFunction>>} = {} /\ T6 \cap {<<"A_", NotAFunction>>, <<"N_", NotAFunction>>} = {}
  BY DEF AccessorTags, ConstantTags
<1>9. BufferClass(ns, buf) = <<Class(ns, buf)>> \o Accessors(scope, buf) \o Access(scope)
        \o Constants(scope, buf) \o Types(scope, buf) \o Attributes(scope, buf) \o Arrays(scope, buf)
  BY Zenon DEF BufferClass, Class
<1>10. BufferTags = T6 \cup {<<"A_", NotAFunction>>, <<"N_", NotAFunction>>}
  BY Zenon DEF BufferTags
<1> DEFINE h2 == <<Class(ns, buf)>> \o Accessors(scope, buf)
           h3 == h2 \o Access(scope)
           h4 == h3 \o Constants(scope, buf)
           h5 == h4 \o Types(scope, buf)
           h6 == h5 \o Attributes(scope, buf)
<1> HIDE DEF T1
<1>11. Tagged(h2, ns, buf, T2)
  BY <1>1, <1>2, <1>8, TaggedConcat
<1> HIDE DEF h2, T2
<1>12. Tagged(h3, ns, buf, T3)
  BY <1>3, <1>8, <1>11, TaggedConcat
<1> HIDE DEF h3, T3
<1>13. Tagged(h4, ns, buf, T4)
  BY <1>4, <1>8, <1>12, TaggedConcat
<1> HIDE DEF h4, T4
<1>14. Tagged(h5, ns, buf, T5)
  BY <1>5, <1>8, <1>13, TaggedConcat
<1> HIDE DEF h5, T5
<1>15. Tagged(h6, ns, buf, T6)
  BY <1>6, <1>8, <1>14, TaggedConcat
<1> HIDE DEF h6, T6
<1>16. Tagged(h6 \o Arrays(scope, buf), ns, buf, T6 \cup {<<"A_", NotAFunction>>, <<"N_", NotAFunction>>})
  BY <1>7, <1>8, <1>15, TaggedConcat
<1> QED BY <1>9, <1>10, <1>16, Zenon DEF h2, h3, h4, h5, h6

-----------------------------------------------------------------------------
(* The names of the query object                                           *)

LEMMA UtlNames ==
  /\ "N_" \o "par" # "N_" \o "res" /\ "par" \o "_buf" # "res" \o "_buf" /\ "par" \o "_" # "res" \o "_"
  /\ \A t \in {"par", "res"} :
       /\ "N_" \o t \notin {"utl", "allowed_codes", "sql_", "A_"}
       /\ t \o "_buf" \notin {"utl", "allowed_codes", "sql_", "A_"}
       /\ t \o "_" \notin {"utl", "allowed_codes", "sql_", "A_"}
       /\ \A u \in {"par", "res"} :
            "N_" \o t # u \o "_buf" /\ "N_" \o t # u \o "_" /\ t \o "_buf" # u \o "_"
<1> DEFINE n1 == "N_" \o "par"
           n2 == "N_" \o "res"
           b1 == "par" \o "_buf"
           b2 == "res" \o "_buf"
           o1 == "par" \o "_"
           o2 == "res" \o "_"
           all == <<"utl", "allowed_codes", "sql_", "A_", n1, n2, b1, b2, o1, o2>>
<1>1. Distinct(all)
  BY StringAssumption
<1> HIDE DEF n1, n2, b1, b2, o1, o2
<1>2. /\ DOMAIN all = 1..10 /\ all[1] = "utl" /\ all[2] = "allowed_codes" /\ all[3] = "sql_" /\ all[4] = "A_"
      /\ all[5] = n1 /\ all[6] = n2 /\ all[7] = b1 /\ all[8] = b2 /\ all[9] = o1 /\ all[10] = o2
  OBVIOUS
<1> HIDE DEF all
<1>3. \A i, j \in 1..10 : i # j => all[i] # all[j]
  BY <1>1, <1>2 DEF Distinct
<1>4. \A x \in {n1, n2, b1, b2, o1, o2} : x \notin {"utl", "allowed_codes", "sql_", "A_"}
  BY <1>2, <1>3
<1>5. n1 # n2 /\ b1 # b2 /\ o1 # o2
  BY <1>2, <1>3
<1>6. {n1, n2} \cap {b1, b2} = {} /\ {n1, n2} \cap {o1, o2} = {} /\ {b1, b2} \cap {o1, o2} = {}
  BY <1>2, <1>3
<1>7. \A t \in {"par", "res"} : "N_" \o t \in {n1, n2} /\ t \o "_buf" \in {b1, b2} /\ t \o "_" \in {o1, o2}
  BY DEF n1, n2, b1, b2, o1, o2
<1>8. \A t \in {"par", "res"} :
        /\ "N_" \o t \notin {"utl", "allowed_codes", "sql_", "A_"}
        /\ t \o "_buf" \notin {"utl", "allowed_codes", "sql_", "A_"}
        /\ t \o "_" \notin {"utl", "allowed_codes", "sql_", "A_"}
  BY <1>4, <1>7
<1>9. \A t, u \in {"par", "res"} :
        "N_" \o t # u \o "_buf" /\ "N_" \o t # u \o "_" /\ t \o "_buf" # u \o "_"
  BY <1>6, <1>7
<1> QED BY <1>5, <1>8, <1>9 DEF n1, n2, b1, b2, o1, o2

\* A part whose declarations have the scopes and names of N, each once
Holds(s, N) ==
  IsSequence(s) /\ Separate(s) /\ \A d \in ToSet(s) : <<d.scope, d.name>> \in N

LEMMA HoldsConcat ==
  ASSUME NEW N, NEW M, N \cap M = {}, NEW s, Holds(s, N), NEW t, Holds(t, M)
  PROVE  Holds(s \o t, N \cup M)
<1>1. IsSequence(s \o t) /\ ToSet(s \o t) = ToSet(s) \cup ToSet(t)
  BY ConcatSequences DEF Holds
<1>2. Apart(s, t)
  BY DEF Apart, Holds, Clash
<1>3. Separate(s \o t)
  BY <1>2, SeparateConcat DEF Holds
<1> QED BY <1>1, <1>3 DEF Holds

LEMMA HoldsOne ==
  ASSUME NEW d
  PROVE  Holds(<<d>>, {<<d.scope, d.name>>})
<1>1. IsSequence(<<d>>) /\ ToSet(<<d>>) = {d} /\ DOMAIN <<d>> = {1}
  BY SingleSequence
<1> QED BY <1>1 DEF Holds, Separate

LEMMA HoldsEach ==
  ASSUME NEW q, NEW f, f = [i \in DOMAIN Required(q) |-> f[i]], NEW scope, NEW x, NEW y, x # y,
         \A i \in DOMAIN Required(q) :
           f[i].scope = scope /\ f[i].name = IF Required(q)[i] = "par" THEN x ELSE y
  PROVE  Holds(f, {<<scope, x>>, <<scope, y>>})
<1>1. /\ IsSequence(f) /\ DOMAIN f = DOMAIN Required(q)
      /\ \A d \in ToSet(f) : \E i \in DOMAIN Required(q) : d = f[i]
  BY EachMembers
<1>2. Separate(f)
  <2> SUFFICES ASSUME NEW i \in DOMAIN Required(q), NEW j \in DOMAIN Required(q), i # j, f[i].name = f[j].name
               PROVE  FALSE
    BY <1>1 DEF Separate, Clash
  <2>1. Required(q)[i] \in {"par", "res"} /\ Required(q)[j] \in {"par", "res"}
    BY RequiredBuffers DEF ToSet
  <2>2. Required(q)[i] = Required(q)[j]
    BY <2>1
  <2> QED BY <2>2, RequiredBuffers DEF Distinct
<1>3. ASSUME NEW d \in ToSet(f) PROVE <<d.scope, d.name>> \in {<<scope, x>>, <<scope, y>>}
  BY <1>1
<1> QED BY <1>1, <1>2, <1>3 DEF Holds

\* No two declarations of the query object clash, and none is called as the
\* array of attributes of a buffer
LEMMA UtlSeparate ==
  ASSUME NEW ns, NEW q
  PROVE  /\ Separate(UtlClass(ns, q))
         /\ \A d \in ToSet(UtlClass(ns, q)) :
              /\ d.name # "A_"
              /\ d.scope = <<ns, "utl">> \/ (d.scope = <<ns>> /\ d.name = "utl")
<1> DEFINE sc == <<ns, "utl">>
           f == [i \in DOMAIN Required(q) |-> NameArgument(ns, Required(q)[i])]
           u == <<Member(<<ns>>, "utl", 0, <<>>), Constructor(ns, q)>>
           n1 == "N_" \o "par"
           n2 == "N_" \o "res"
           b1 == "par" \o "_buf"
           b2 == "res" \o "_buf"
           o1 == "par" \o "_"
           o2 == "res" \o "_"
           N1 == {<<sc, n1>>, <<sc, n2>>}
           N2 == {<<<<ns>>, "utl">>, <<sc, "utl">>}
           N3 == {<<sc, b1>>, <<sc, b2>>}
           N4 == {<<sc, "allowed_codes">>}
           N5 == {<<sc, o1>>, <<sc, o2>>}
           N6 == {<<sc, "sql_">>}
<1>1. \A i \in DOMAIN Required(q) : Required(q)[i] \in {"par", "res"}
  BY RequiredBuffers DEF ToSet
<1>2. /\ n1 # n2 /\ b1 # b2 /\ o1 # o2
      /\ \A x \in {n1, n2, b1, b2, o1, o2} : x \notin {"utl", "allowed_codes", "sql_", "A_"}
      /\ {n1, n2} \cap {b1, b2} = {} /\ {n1, n2} \cap {o1, o2} = {} /\ {b1, b2} \cap {o1, o2} = {}
  <2>1. n1 # n2 /\ b1 # b2 /\ o1 # o2
    BY UtlNames
  <2>2. {n1, n2, b1, b2, o1, o2} \cap {"utl", "allowed_codes", "sql_", "A_"} = {}
    BY UtlNames
  <2>3. {n1, n2} \cap {b1, b2} = {} /\ {n1, n2} \cap {o1, o2} = {} /\ {b1, b2} \cap {o1, o2} = {}
    BY UtlNames
  <2> HIDE DEF n1, n2, b1, b2, o1, o2
  <2> QED BY <2>1, <2>2, <2>3
<1>3. Holds(f, N1)
  <2>1. f = [i \in DOMAIN Required(q) |-> f[i]]
    BY Zenon
  <2>2. ASSUME NEW i \in DOMAIN Required(q)
        PROVE  f[i].scope = sc /\ f[i].name = IF Required(q)[i] = "par" THEN n1 ELSE n2
    <3>1. PICK name : name = "N_" \o Required(q)[i] /\ f[i] = Member(sc, name, 0, <<>>)
      BY Zenon DEF NameArgument
    <3>2. f[i] = Member(sc, name, 0, <<>>)
      BY <3>1, Zenon
    <3> HIDE DEF f
    <3>3. f[i].scope = sc /\ f[i].name = name
      BY <3>2 DEF Member
    <3> QED BY <1>1, <3>1, <3>3
  <2> HIDE DEF f, n1, n2
  <2> QED BY <1>2, <2>1, <2>2, HoldsEach
<1>4. Holds(u, N2)
  <2> DEFINE d == Member(<<ns>>, "utl", 0, <<>>)
             e == Constructor(ns, q)
  <2>1. d.scope = <<ns>> /\ d.name = "utl"
    BY DEF Member
  <2>2. e.scope = sc /\ e.name = "utl"
    BY DEF Constructor, Function
  <2>3. u = <<d, e>>
    OBVIOUS
  <2> HIDE DEF d, e, u
  <2>4. <<ns>> # sc
    OBVIOUS
  <2>5. IsSequence(u) /\ ToSet(u) = {d, e} /\ DOMAIN u = {1, 2} /\ u[1] = d /\ u[2] = e
    BY <2>3, PairSequence
  <2>6. Separate(u)
    BY <2>1, <2>2, <2>4, <2>5 DEF Separate, Clash
  <2> QED BY <2>1, <2>2, <2>5, <2>6 DEF Holds
<1>5. Holds(Getters(ns, q), N3)
  <2> DEFINE g == Getters(ns, q)
  <2>1. g = [i \in DOMAIN Required(q) |-> g[i]]
    BY Zenon DEF Getters
  <2>2. ASSUME NEW i \in DOMAIN Required(q)
        PROVE  g[i].scope = sc /\ g[i].name = IF Required(q)[i] = "par" THEN b1 ELSE b2
    <3>1. PICK name, needs : /\ name = Required(q)[i] \o "_buf"
                             /\ g[i] = [Member(sc, name, 0, needs) EXCEPT !.sig = <<>>]
      BY Zenon DEF Getters, Getter, TypedMember
    <3>2. g[i] = [Member(sc, name, 0, needs) EXCEPT !.sig = <<>>]
      BY <3>1, Zenon
    <3> HIDE DEF g
    <3>3. g[i].scope = sc /\ g[i].name = name
      BY <3>2 DEF Member
    <3> QED BY <1>1, <3>1, <3>3
  <2> HIDE DEF g, b1, b2, o1, o2
  <2>3. Holds(g, N3)
    BY <1>2, <2>1, <2>2, HoldsEach
  <2> QED BY <2>3 DEF g
<1>6. Holds(Codes(ns), N4)
  <2> DEFINE d == Function(sc, "allowed_codes", 0, <<>>, <<>>)
  <2>1. d.scope = sc /\ d.name = "allowed_codes" /\ Codes(ns) = <<d>>
    BY DEF Function, Codes
  <2> HIDE DEF d
  <2> QED BY <2>1, HoldsOne
<1>7. Holds(Objects(ns, q), N5)
  <2> DEFINE g == Objects(ns, q)
  <2>1. g = [i \in DOMAIN Required(q) |-> g[i]]
    BY Zenon DEF Objects
  <2>2. ASSUME NEW i \in DOMAIN Required(q)
        PROVE  g[i].scope = sc /\ g[i].name = IF Required(q)[i] = "par" THEN o1 ELSE o2
    <3>1. PICK name, needs : name = Required(q)[i] \o "_" /\ g[i] = Member(sc, name, 0, needs)
      BY Zenon DEF Objects, TypedMember
    <3>2. g[i] = Member(sc, name, 0, needs)
      BY <3>1, Zenon
    <3> HIDE DEF g
    <3>3. g[i].scope = sc /\ g[i].name = name
      BY <3>2 DEF Member
    <3> QED BY <1>1, <3>1, <3>3
  <2> HIDE DEF g, b1, b2, o1, o2
  <2>3. Holds(g, N5)
    BY <1>2, <2>1, <2>2, HoldsEach
  <2> QED BY <2>3 DEF g
<1>8. Holds(<<Statement(ns, q)>>, N6)
  <2>1. Statement(ns, q).scope = sc /\ Statement(ns, q).name = "sql_"
    BY DEF Statement, Member
  <2> QED BY <2>1, HoldsOne
<1>9. UtlClass(ns, q) = f \o u \o Getters(ns, q) \o Codes(ns) \o Objects(ns, q) \o <<Statement(ns, q)>>
  BY UtlParts DEF UtlStart
<1> DEFINE M == N1 \cup N2 \cup N3 \cup N4 \cup N5 \cup N6
<1> HIDE DEF n1, n2, b1, b2, o1, o2
<1>10. \A x \in M : x = <<<<ns>>, "utl">> \/ (x[1] = sc /\ x[2] # "A_")
  BY <1>2
<1>11. /\ N1 \cap N2 = {} /\ (N1 \cup N2) \cap N3 = {} /\ (N1 \cup N2 \cup N3) \cap N4 = {}
       /\ (N1 \cup N2 \cup N3 \cup N4) \cap N5 = {}
       /\ (N1 \cup N2 \cup N3 \cup N4 \cup N5) \cap N6 = {}
  BY <1>2
<1> HIDE DEF f, u, N1, N2, N3, N4, N5, N6
<1>12. Holds(f \o u, N1 \cup N2)
  BY <1>3, <1>4, <1>11, HoldsConcat
<1>13. Holds(f \o u \o Getters(ns, q), N1 \cup N2 \cup N3)
  BY <1>5, <1>11, <1>12, HoldsConcat
<1>14. Holds(f \o u \o Getters(ns, q) \o Codes(ns), N1 \cup N2 \cup N3 \cup N4)
  BY <1>6, <1>11, <1>13, HoldsConcat
<1>15. Holds(f \o u \o Getters(ns, q) \o Codes(ns) \o Objects(ns, q), N1 \cup N2 \cup N3 \cup N4 \cup N5)
  BY <1>7, <1>11, <1>14, HoldsConcat
<1>16. Holds(UtlClass(ns, q), M)
  BY <1>8, <1>9, <1>11, <1>15, HoldsConcat
<1> HIDE DEF M
<1>17. ASSUME NEW d \in ToSet(UtlClass(ns, q))
       PROVE  d.name # "A_" /\ (d.scope = sc \/ (d.scope = <<ns>> /\ d.name = "utl"))
  <2>1. <<d.scope, d.name>> \in M
    BY <1>16 DEF Holds
  <2> QED BY <1>10, <2>1
<1> QED BY <1>16, <1>17 DEF Holds

-----------------------------------------------------------------------------
(* The header, one class after the other                                   *)

\* The class that is written for a part of a query, and its name
Chunk(q, u) ==
  IF u = "utl" THEN UtlClass(snake_case[q.id], q) ELSE BufferClass(snake_case[q.id], q[u])
Named(q, u) == IF u = "utl" THEN "utl" ELSE ClassOf(q, u)

Parts == {"par", "res", "utl"}
Coded(k) == k \in DOMAIN set /\ sql(set[k]) # <<>>
Before(k, u) ==
  k < at \/ (k = at /\ <<u, part>> \in {<<"par", "res">>, <<"par", "utl">>, <<"res", "utl">>})

\* Every declaration belongs to a class that has had its turn
Placed ==
  \A d \in ToSet(header) : \E k \in Nat, u \in Parts :
    Coded(k) /\ Before(k, u) /\ d \in ToSet(Chunk(set[k], u))

NInv ==
  /\ UInv
  /\ part # "query" => sql(Here) # <<>>
  /\ Placed
  /\ WellNamed => Separate(header)

\* What the names of the document promise for a query
LEMMA CodedQuery ==
  ASSUME set \in QuerySet, WellNamed, NEW k, Coded(k)
  PROVE  /\ Distinct(<<ClassOf(set[k], "par"), ClassOf(set[k], "res"), "utl">>)
         /\ \A t \in {"par", "res"} : Unmistakable(set[k][t])
         /\ \A m : Coded(m) /\ snake_case[set[k].id] = snake_case[set[m].id] => k = m
<1> DEFINE coded == {j \in DOMAIN set : sql(set[j]) # <<>>}
           names(t) == [i \in DOMAIN set[k][t].flds |-> Name(set[k][t], i)]
<1>1. k \in coded
  BY DEF Coded
<1>2. ToSet(BufType) = {"par", "res"}
  BY PairSequence DEF BufType
<1>3. /\ Distinct(<<ClassOf(set[k], "par"), ClassOf(set[k], "res"), "utl">>)
      /\ \A t \in ToSet(BufType) : Distinct(names(t)) /\ ToSet(names(t)) \cap Formed(set[k][t]) = {}
  BY <1>1, Zenon DEF WellNamed
<1>4. \A i, j \in coded : snake_case[set[i].id] = snake_case[set[j].id] => i = j
  BY Zenon DEF WellNamed
<1>5. set[k] \in ToSet(set)
  BY <1>1 DEF ToSet
<1>6. ASSUME NEW t \in {"par", "res"} PROVE Unmistakable(set[k][t])
  <2>1. Translated(set[k][t])
    BY <1>2, <1>5 DEF Translated
  <2>2. Names(set[k][t]) = names(t)
    BY DEF Names
  <2> QED BY <1>2, <1>3, <2>1, <2>2 DEF Unmistakable
<1>7. ASSUME NEW m, Coded(m), snake_case[set[k].id] = snake_case[set[m].id] PROVE k = m
  BY <1>1, <1>4, <1>7 DEF Coded
<1> QED BY <1>3, <1>6, <1>7

\* A class declares its name in the namespace of the query and everything else
\* inside the class
LEMMA ChunkScopes ==
  ASSUME set \in QuerySet, WellNamed, NEW k, Coded(k), NEW u \in Parts
  PROVE  /\ IsSequence(Chunk(set[k], u)) /\ Separate(Chunk(set[k], u))
         /\ \A d \in ToSet(Chunk(set[k], u)) :
              \/ d.scope = <<snake_case[set[k].id], Named(set[k], u)>>
              \/ d.scope = <<snake_case[set[k].id]>> /\ d.name = Named(set[k], u)
<1> DEFINE q == set[k]
           ns == snake_case[q.id]
<1>1. CASE u = "utl"
  <2>1. Chunk(q, u) = UtlClass(ns, q) /\ Named(q, u) = "utl"
    BY <1>1 DEF Chunk, Named
  <2>2. IsSequence(UtlClass(ns, q))
    BY UtlMembers, Zenon
  <2> QED BY <2>1, <2>2, UtlSeparate
<1>2. CASE u \in {"par", "res"}
  <2>1. Chunk(q, u) = BufferClass(ns, q[u]) /\ Named(q, u) = class_name(q[u])
    BY <1>2 DEF Chunk, Named, ClassOf
  <2>2. Tagged(BufferClass(ns, q[u]), ns, q[u], BufferTags)
    BY <1>2, CodedQuery, BufferTagged
  <2>3. Class(ns, q[u]).scope = <<ns>> /\ Class(ns, q[u]).name = class_name(q[u])
    BY DEF Class, Member
  <2>4. ASSUME NEW d \in ToSet(Chunk(q, u))
        PROVE  d.scope = <<ns, Named(q, u)>> \/ (d.scope = <<ns>> /\ d.name = Named(q, u))
    BY <2>1, <2>2, <2>3 DEF Tagged, IsTagged
  <2> QED BY <2>1, <2>2, <2>4 DEF Tagged
<1> QED BY <1>1, <1>2 DEF Parts

\* Declarations of one scope belong to one class
LEMMA SameChunk ==
  ASSUME set \in QuerySet, WellNamed,
         NEW k, Coded(k), NEW u \in Parts, NEW d \in ToSet(Chunk(set[k], u)),
         NEW m, Coded(m), NEW v \in Parts, NEW e \in ToSet(Chunk(set[m], v)),
         d.scope = e.scope, d.name = e.name \/ d.scope # <<snake_case[set[k].id]>>
  PROVE  k = m /\ u = v
<1> DEFINE n1 == snake_case[set[k].id]
           n2 == snake_case[set[m].id]
           c1 == Named(set[k], u)
           c2 == Named(set[m], v)
<1>1. d.scope = <<n1, c1>> \/ (d.scope = <<n1>> /\ d.name = c1)
  BY ChunkScopes
<1>2. e.scope = <<n2, c2>> \/ (e.scope = <<n2>> /\ e.name = c2)
  BY ChunkScopes
<1>3. d.scope = e.scope /\ (d.name = e.name \/ d.scope # <<n1>>)
  OBVIOUS
<1> HIDE DEF c1, c2, n1, n2
<1>4. n1 = n2 /\ c1 = c2
  <2>1. CASE d.scope = <<n1, c1>> /\ e.scope = <<n2, c2>>
    <3>1. <<n1, c1>> = <<n2, c2>>
      BY <1>3, <2>1, Zenon
    <3> QED BY <3>1
  <2>2. CASE d.scope = <<n1>> /\ e.scope = <<n2>>
    <3>1. <<n1>> = <<n2>>
      BY <1>3, <2>2, Zenon
    <3> QED BY <1>1, <1>2, <1>3, <2>2, <3>1
  <2>3. <<n1, c1>> # <<n2>> /\ <<n2, c2>> # <<n1>>
    OBVIOUS
  <2> QED BY <1>1, <1>2, <1>3, <2>1, <2>2, <2>3
<1>5. k = m
  BY <1>4, CodedQuery DEF n1, n2
<1>6. u = v
  <2> DEFINE names == <<ClassOf(set[k], "par"), ClassOf(set[k], "res"), "utl">>
  <2>1. Distinct(names)
    BY CodedQuery
  <2>2. /\ names[1] = ClassOf(set[k], "par") /\ names[2] = ClassOf(set[k], "res") /\ names[3] = "utl"
        /\ DOMAIN names = 1..3
    OBVIOUS
  <2> HIDE DEF names
  <2>3. /\ ClassOf(set[k], "par") # ClassOf(set[k], "res")
        /\ ClassOf(set[k], "par") # "utl" /\ ClassOf(set[k], "res") # "utl"
    BY <2>1, <2>2 DEF Distinct
  <2> QED BY <1>4, <1>5, <2>3 DEF c1, c2, Named, Parts
<1> QED BY <1>5, <1>6

\* A class that is written when it is its turn
LEMMA ChunkKeepsNInv ==
  ASSUME NInv, at <= Len(set), sql(Here) # <<>>, part \in Parts,
         header' = header \o Chunk(Here, part), set' = set,
         \/ part = "par" /\ part' = "res" /\ at' = at
         \/ part = "res" /\ part' = "utl" /\ at' = at
         \/ part = "utl" /\ part' = "query" /\ at' = at + 1
  PROVE  Placed' /\ (WellNamed => Separate(header'))
<1> DEFINE class == Chunk(Here, part)
<1>1. set \in QuerySet /\ at \in Nat /\ IsSequence(header) /\ IsSequence(set)
  BY QuerySetAssumption DEF NInv, UInv, TypeOK
<1>2. Coded(at)
  <2>1. at \in DOMAIN set
    BY <1>1, Positioned DEF NInv, UInv, TypeOK
  <2> QED BY <2>1 DEF Coded, Here
<1>3. IsSequence(class)
  <2>1. Here \in ToSet(set) /\ \A t \in {"par", "res"} : IsSequence(Here[t].flds)
    BY HereQuery DEF NInv, UInv
  <2>2. CASE part = "utl"
    BY <2>2, UtlMembers, Zenon DEF Chunk
  <2>3. CASE part \in {"par", "res"}
    <3>1. Chunk(Here, part) = BufferClass(snake_case[Here.id], Here[part])
      BY <2>3 DEF Chunk
    <3>2. IsSequence(BufferClass(snake_case[Here.id], Here[part]))
      BY <2>1, <2>3, BufferMembers, Zenon
    <3> QED BY <3>1, <3>2
  <2> QED BY <2>2, <2>3 DEF Parts
<1>4. ToSet(header') = ToSet(header) \cup ToSet(class)
  BY <1>1, <1>3, ConcatSequences
<1>5. \A k \in Nat, u \in Parts : Before(k, u) => Before(k, u)'
  BY <1>1 DEF Before, Parts
<1>6. PICK k0 \in Nat, u0 \in Parts : k0 = at /\ u0 = part
  BY <1>1
<1>7. Before(k0, u0)'
  BY <1>1, <1>6 DEF Before
<1>8. Placed'
  <2> SUFFICES ASSUME NEW d \in ToSet(header')
               PROVE  \E k \in Nat, u \in Parts : Coded(k)' /\ Before(k, u)' /\ d \in ToSet(Chunk(set'[k], u))
    BY DEF Placed
  <2>1. \A k : Coded(k)' <=> Coded(k)
    BY DEF Coded
  <2>2. CASE d \in ToSet(header)
    <3>1. PICK k \in Nat, u \in Parts : Coded(k) /\ Before(k, u) /\ d \in ToSet(Chunk(set[k], u))
      BY <2>2 DEF NInv, Placed
    <3> QED BY <1>5, <2>1, <3>1
  <2>3. CASE d \in ToSet(class)
    <3>1. Coded(k0)' /\ d \in ToSet(Chunk(set'[k0], u0))
      BY <1>1, <1>2, <1>6, <2>1, <2>3 DEF Here
    <3> QED BY <1>7, <3>1
  <2> QED BY <1>4, <2>2, <2>3
<1>9. ASSUME WellNamed PROVE Separate(header')
  <2>1. Separate(class) /\ class = Chunk(set[at], part)
    BY <1>1, <1>2, <1>9, ChunkScopes DEF Here
  <2>2. Apart(header, class)
    <3> SUFFICES ASSUME NEW d \in ToSet(header), NEW e \in ToSet(class), Clash(d, e) PROVE FALSE
      BY DEF Apart
    <3>1. PICK k \in Nat, u \in Parts : Coded(k) /\ Before(k, u) /\ d \in ToSet(Chunk(set[k], u))
      BY DEF NInv, Placed
    <3>2. k = at /\ u = part
      BY <1>1, <1>2, <1>9, <2>1, <3>1, SameChunk DEF Clash
    <3> QED BY <1>1, <3>1, <3>2 DEF Before
  <2> QED BY <1>1, <1>3, <1>9, <2>1, <2>2, SeparateConcat DEF NInv
<1> QED BY <1>8, <1>9

\* An empty header has no part of a query yet (gen_cpp.cpp:713-718)
THEOREM NInvInitially == Init => NInv
<1> SUFFICES ASSUME Init PROVE NInv
  OBVIOUS
<1>1. ToSet(header) = {} /\ DOMAIN header = {}
  BY EmptySequence DEF Init
<1> QED BY <1>1, UInvInitially DEF Init, NInv, Placed, Separate

\* Each declaration stays the one a part of a coded query wrote, and a part
\* that is written clashes with none before it (gen_cpp.cpp:678-718)
THEOREM NInvKept == NInv /\ [Next]_vars => NInv'
<1> SUFFICES ASSUME NInv, [Next]_vars PROVE NInv'
  OBVIOUS
<1>1. UInv' /\ set' = set /\ at \in Nat
  <2>1. UInv'
    BY UInvKept DEF NInv
  <2>2. set' = set
    BY DEF Next, BeginQuery, GenBuf, GenUtl, EndFile, vars
  <2> QED BY <2>1, <2>2 DEF NInv, UInv, TypeOK
<1>2. WellNamed' <=> WellNamed
  BY <1>1 DEF WellNamed
<1>3. ASSUME header' = header, \A k \in Nat, u \in Parts : Before(k, u) => Before(k, u)'
      PROVE  Placed' /\ (WellNamed => Separate(header'))
  <2>1. \A k : Coded(k)' <=> Coded(k)
    BY <1>1 DEF Coded
  <2> QED BY <1>1, <1>3, <2>1 DEF NInv, Placed
<1>4. CASE BeginQuery
  <2>1. header' = header /\ \A k \in Nat, u \in Parts : Before(k, u) => Before(k, u)'
    BY <1>1, <1>4 DEF BeginQuery, Before, Parts
  <2>2. part' # "query" => sql(Here') # <<>>
    BY <1>1, <1>4 DEF BeginQuery, Here
  <2> QED BY <1>1, <1>2, <1>3, <2>1, <2>2 DEF NInv
<1>5. ASSUME NEW t \in {"par", "res"}, NEW next, GenBuf(t, next),
             (t = "par" /\ next = "res") \/ (t = "res" /\ next = "utl")
      PROVE  NInv'
  <2>1. part = t /\ at' = at /\ sql(Here) # <<>> /\ at <= Len(set) /\ Here' = Here
    BY <1>1, <1>5 DEF GenBuf, NInv, UInv, TypeOK, Here
  <2>2. CASE header' = header
    <3>1. \A k \in Nat, u \in Parts : Before(k, u) => Before(k, u)'
      BY <1>1, <1>5, <2>1 DEF GenBuf, Before, Parts
    <3> QED BY <1>1, <1>2, <1>3, <2>1, <2>2, <3>1 DEF NInv
  <2>3. CASE header' # header
    <3>1. header' = header \o Chunk(Here, t) /\ part' = next
      BY <1>5, <2>1, <2>3 DEF GenBuf, Chunk, Namespace
    <3>2. Placed' /\ (WellNamed => Separate(header'))
      BY <1>1, <1>5, <2>1, <3>1, ChunkKeepsNInv DEF Parts
    <3> QED BY <1>1, <1>2, <2>1, <3>2 DEF NInv
  <2> QED BY <2>2, <2>3
<1>6. CASE GenUtl
  <2>1. part = "utl" /\ part' = "query" /\ at' = at + 1 /\ sql(Here) # <<>> /\ at <= Len(set)
    BY <1>6 DEF GenUtl, NInv, UInv, TypeOK
  <2>2. header' = header \o Chunk(Here, "utl")
    BY <1>6 DEF GenUtl, Chunk, Namespace
  <2>3. Placed' /\ (WellNamed => Separate(header'))
    BY <1>1, <2>1, <2>2, ChunkKeepsNInv DEF Parts
  <2> QED BY <1>1, <1>2, <2>1, <2>3 DEF NInv
<1>7. CASE EndFile \/ UNCHANGED vars
  <2>1. header' = header /\ part' = part /\ at' = at
    BY <1>7 DEF EndFile, vars
  <2>2. \A k \in Nat, u \in Parts : Before(k, u) => Before(k, u)'
    BY <2>1 DEF Before
  <2> QED BY <1>1, <1>2, <1>3, <2>1, <2>2 DEF NInv, Here
<1> QED BY <1>4, <1>5, <1>6, <1>7 DEF Next

\* A header declares nothing twice, unless the document or the database takes a
\* name the generator forms itself or names two queries, classes or columns
\* alike (gen_cpp.cpp:488-528, 635-657)
THEOREM NothingRedefined == Spec => []NoRedefinition
<1>1. NInv => NoRedefinition
  BY DEF NInv, NoRedefinition, Separate, Clash, Positions
<1> QED BY <1>1, NInvInitially, NInvKept, PTL DEF Spec

-----------------------------------------------------------------------------
(* The names a declaration uses                                            *)

\* What a declaration about a field uses are numbered members of that field
UsesOnly(d, buf, k) ==
  \A name \in ToSet(d.needs) \cup ToSet(d.body) : \E p : Means(name, NotAFunction, buf, p, k)

LEMMA NumberedNames ==
  ASSUME NEW buf, NEW k \in DOMAIN buf.flds
  PROVE  /\ Means(a_name(k), NotAFunction, buf, "a_", k)
         /\ \A p \in {"len_", "dec_", "T_"} : Means(Numbered(p, k), NotAFunction, buf, p, k)
<1>1. a_name(k) = Numbered("a_", k) \o "_"
  BY Zenon DEF a_name, Numbered
<1>2. Signed("a_", NotAFunction) /\ \A p \in {"len_", "dec_", "T_"} : Signed(p, NotAFunction)
  BY DEF Signed
<1> QED BY <1>1, <1>2 DEF Means

LEMMA FieldUses ==
  ASSUME NEW ns, NEW buf, IsSequence(buf.flds), NEW d \in ToSet(BufferClass(ns, buf))
  PROVE  /\ IsSequence(d.needs) /\ IsSequence(d.body)
         /\ \/ d.of \in DOMAIN buf.flds /\ UsesOnly(d, buf, d.of)
            \/ d.of = 0 /\ d.needs = <<>>
            \/ d.of = 0 /\ d.needs = [k \in DOMAIN buf.flds |-> a_name(k)]
<1> DEFINE scope == <<ns, class_name(buf)>>
<1>1. CASE d = Member(<<ns>>, class_name(buf), 0, <<>>)
  BY <1>1, EmptySequence DEF Member
<1>2. CASE d \in ToSet(Accessors(scope, buf))
  <2>1. PICK k \in DOMAIN buf.flds : IsAccessor(d, scope, buf, k)
    BY <1>2, AccessorMembers, Zenon
  <2>2. PICK name, sig : d = Function(scope, name, k, sig, <<a_name(k)>>)
    BY <2>1, Zenon DEF IsAccessor
  <2>3. d.of = k /\ d.needs = <<>> /\ d.body = <<a_name(k)>>
    BY <2>2 DEF Function
  <2>4. \A x \in ToSet(d.needs) \cup ToSet(d.body) : x = a_name(k)
    BY <2>3, SingleSequence, EmptySequence
  <2> QED BY <2>3, <2>4, NumberedNames, SingleSequence, EmptySequence DEF UsesOnly
<1>3. CASE d \in ToSet(Access(scope))
  <2>1. d.of = 0 /\ d.needs = <<>> /\ (d.body = <<"A_">> \/ d.body = <<"N_">>)
    BY <1>3, AccessMembers DEF Function
  <2>2. IsSequence(<<"A_">>) /\ IsSequence(<<"N_">>) /\ IsSequence(<<>>)
    BY SingleSequence, EmptySequence
  <2> QED BY <2>1, <2>2
<1>4. CASE d \in ToSet(Constants(scope, buf))
  <2>1. PICK k \in DOMAIN buf.flds : d \in ToSet(ConstantsOf(scope, buf, k))
    BY <1>4, ConstantMembers, Zenon
  <2>2. d = Member(scope, Numbered("dec_", k), k, <<>>) \/ d = Member(scope, Numbered("len_", k), k, <<>>)
    BY <2>1, ConstantsOfField, Zenon
  <2>3. d.of = k /\ d.needs = <<>> /\ d.body = <<>>
    BY <2>2 DEF Member
  <2> QED BY <2>3, EmptySequence DEF UsesOnly
<1>5. CASE d \in ToSet(Types(scope, buf))
  <2>1. PICK k \in DOMAIN buf.flds : d = TypeOf(scope, buf, k)
    BY <1>5, TypeMembers, Zenon
  <2>2. d.of = k /\ (d.needs = <<>> \/ d.needs = <<Numbered("len_", k)>>) /\ d.body = <<>>
    BY <2>1 DEF TypeOf, Member
  <2> DEFINE one == <<Numbered("len_", k)>>
  <2>3. IsSequence(one) /\ ToSet(one) = {Numbered("len_", k)}
    BY SingleSequence
  <2>4. d.of = k /\ (d.needs = <<>> \/ d.needs = one) /\ d.body = <<>>
    BY <2>2
  <2> HIDE DEF one
  <2>5. /\ IsSequence(d.needs) /\ IsSequence(d.body)
        /\ ToSet(d.needs) \cup ToSet(d.body) \subseteq {Numbered("len_", k)}
    BY <2>3, <2>4, EmptySequence
  <2> QED BY <2>4, <2>5, NumberedNames DEF UsesOnly
<1>6. CASE d \in ToSet(Attributes(scope, buf))
  <2>1. PICK k \in DOMAIN buf.flds : d = AttributeOf(scope, buf, k)
    BY <1>6, AttributeMembers, Zenon
  <2> DEFINE one == <<Numbered("T_", k)>>
             two == IF buf.flds[k].type = "bstring" THEN <<>> ELSE <<Numbered("dec_", k)>>
  <2>2. d.of = k /\ d.needs = one \o two /\ d.body = <<>>
    <3>1. d = Member(scope, Numbered("a_", k) \o "_", k, one \o two)
      BY <2>1, Zenon DEF AttributeOf
    <3> HIDE DEF one, two
    <3>2. PICK name : d = Member(scope, name, k, one \o two)
      BY <3>1, Zenon
    <3> QED BY <3>2 DEF Member
  <2>3. /\ IsSequence(one) /\ ToSet(one) = {Numbered("T_", k)}
        /\ IsSequence(two) /\ ToSet(two) \subseteq {Numbered("dec_", k)}
    BY SingleSequence, EmptySequence
  <2> HIDE DEF one, two
  <2>4. IsSequence(d.needs) /\ ToSet(d.needs) \subseteq {Numbered("T_", k), Numbered("dec_", k)}
    BY <2>2, <2>3, ConcatSequences
  <2> QED BY <2>2, <2>4, NumberedNames, EmptySequence DEF UsesOnly
<1>7. CASE d \in ToSet(Arrays(scope, buf))
  <2>1. /\ d.of = 0 /\ d.body = <<>>
        /\ d.needs = [k \in DOMAIN buf.flds |-> a_name(k)] \/ d.needs = <<>>
    BY <1>7, ArrayMembers DEF Member
  <2>2. Len(buf.flds) \in Nat /\ DOMAIN buf.flds = 1..Len(buf.flds)
    BY Positioned
  <2>3. IsSequence(d.needs)
    <3> DEFINE f == [k \in DOMAIN buf.flds |-> a_name(k)]
    <3>1. f = [k \in DOMAIN buf.flds |-> f[k]]
      BY Zenon
    <3> HIDE DEF f
    <3>2. IsSequence(f)
      BY <2>2, <3>1, TableSequence
    <3> QED BY <2>1, <3>2, EmptySequence DEF f
  <2> QED BY <2>1, <2>3, EmptySequence
<1>8. \/ d = Member(<<ns>>, class_name(buf), 0, <<>>) \/ d \in ToSet(Accessors(scope, buf))
      \/ d \in ToSet(Access(scope)) \/ d \in ToSet(Constants(scope, buf)) \/ d \in ToSet(Types(scope, buf))
      \/ d \in ToSet(Attributes(scope, buf)) \/ d \in ToSet(Arrays(scope, buf))
  BY BufferParts
<1> QED BY <1>1, <1>2, <1>3, <1>4, <1>5, <1>6, <1>7, <1>8

\* A member of a buffer class with the name of a member of field k is about k
LEMMA NameLeadsTo ==
  ASSUME NEW ns, NEW buf, Unmistakable(buf), NEW e \in ToSet(BufferClass(ns, buf)),
         e.scope = <<ns, class_name(buf)>>,
         NEW p, NEW k, Means(e.name, NotAFunction, buf, p, k)
  PROVE  e.of = k
<1>1. Class(ns, buf).scope # <<ns, class_name(buf)>>
  BY DEF Class, Member
<1>2. PICK r : Means(e.name, e.sig, buf, r, e.of)
  BY <1>1, BufferTagged DEF Tagged, IsTagged
<1> QED BY <1>2, NameTells

\* The names of a buffer class lead to their field
LEMMA BufferReaches ==
  ASSUME NEW ns, NEW buf, Unmistakable(buf),
         NEW d \in ToSet(BufferClass(ns, buf)), NEW e \in ToSet(BufferClass(ns, buf)),
         e.scope = <<ns, class_name(buf)>>
  PROVE  /\ d.of # 0 /\ e.name \in ToSet(d.needs \o d.body) => e.of = d.of
         /\ d.name = "A_" /\ d.scope = e.scope =>
              \A k \in DOMAIN d.needs : e.name = d.needs[k] => e.of = k
<1>1. IsSequence(buf.flds)
  BY BufferStrings DEF Unmistakable
<1>2. IsSequence(d.needs) /\ IsSequence(d.body)
  BY <1>1, FieldUses
<1>3. ASSUME d.of # 0, e.name \in ToSet(d.needs \o d.body) PROVE e.of = d.of
  <2>1. ToSet(d.needs \o d.body) = ToSet(d.needs) \cup ToSet(d.body)
    BY <1>2, ConcatSequences
  <2>2. UsesOnly(d, buf, d.of)
    BY <1>1, <1>3, FieldUses
  <2>3. PICK p : Means(e.name, NotAFunction, buf, p, d.of)
    BY <1>3, <2>1, <2>2 DEF UsesOnly
  <2> QED BY <2>3, NameLeadsTo
<1>4. ASSUME d.name = "A_", d.scope = e.scope, NEW k \in DOMAIN d.needs, e.name = d.needs[k]
      PROVE  e.of = k
  <2>1. d.of = 0
    <3>1. Means(d.name, NotAFunction, buf, "A_", 0)
      BY <1>4 DEF Means, Signed
    <3> QED BY <1>4, <3>1, NameLeadsTo
  <2>2. d.needs # <<>>
    BY <1>4, EmptySequence
  <2>3. d.needs = [m \in DOMAIN buf.flds |-> a_name(m)]
    <3>1. 0 \notin DOMAIN buf.flds
      BY <1>1, Positioned
    <3> QED BY <1>1, <2>1, <2>2, <3>1, FieldUses
  <2>4. k \in DOMAIN buf.flds /\ e.name = a_name(k)
    BY <1>4, <2>3
  <2>5. Means(e.name, NotAFunction, buf, "a_", k)
    BY <2>4, NumberedNames
  <2> QED BY <2>5, NameLeadsTo
<1> QED BY <1>3, <1>4

\* No declaration of the query object is about a field
LEMMA UtlAboutNoField ==
  ASSUME NEW ns, NEW q, NEW d \in ToSet(UtlClass(ns, q))
  PROVE  d.of = 0
<1>1. CASE d \in ToSet(UtlStart(ns, q))
  <2>1. \/ \E t \in ToSet(Required(q)) : d = NameArgument(ns, t)
        \/ d = Member(<<ns>>, "utl", 0, <<>>) \/ d = Constructor(ns, q)
    BY <1>1, UtlStartMembers
  <2>2. CASE \E t \in ToSet(Required(q)) : d = NameArgument(ns, t)
    <3>1. PICK name : d = Member(<<ns, "utl">>, name, 0, <<>>)
      BY <2>2, Zenon DEF NameArgument
    <3> QED BY <3>1 DEF Member
  <2>3. CASE d = Member(<<ns>>, "utl", 0, <<>>)
    BY <2>3 DEF Member
  <2>4. CASE d = Constructor(ns, q)
    <3>1. PICK body : d = Function(<<ns, "utl">>, "utl", 0, <<"connection">>, body)
      BY <2>4, Zenon DEF Constructor
    <3> QED BY <3>1 DEF Function
  <2> QED BY <2>1, <2>2, <2>3, <2>4
<1>2. CASE d \in ToSet(Getters(ns, q))
  <2>1. PICK t : d = Getter(ns, q, t)
    BY <1>2, GetterMembers, Zenon
  <2>2. PICK name, needs : d = [Member(<<ns, "utl">>, name, 0, needs) EXCEPT !.sig = <<>>]
    BY <2>1, Zenon DEF Getter, TypedMember
  <2> QED BY <2>2 DEF Member
<1>3. CASE d \in ToSet(Codes(ns))
  BY <1>3, SingleSequence DEF Codes, Function
<1>4. CASE d \in ToSet(Objects(ns, q))
  <2>1. PICK t : d = TypedMember(ns, q, t, t \o "_")
    BY <1>4, ObjectMembers, Zenon
  <2>2. PICK name, needs : d = Member(<<ns, "utl">>, name, 0, needs)
    BY <2>1, Zenon DEF TypedMember
  <2> QED BY <2>2 DEF Member
<1>5. CASE d = Statement(ns, q)
  BY <1>5 DEF Statement, Member
<1>6. ToSet(UtlClass(ns, q)) = ToSet(UtlStart(ns, q)) \cup ToSet(Getters(ns, q)) \cup ToSet(Codes(ns))
                                 \cup ToSet(Objects(ns, q)) \cup {Statement(ns, q)}
  BY UtlMembers, Zenon
<1> QED BY <1>1, <1>2, <1>3, <1>4, <1>5, <1>6

\* An accessor, a type or a constant of a column that is written into a header
\* reaches the declarations of the same column, and the k-th attribute a buffer
\* binds is the one of the k-th column (gen_cpp.cpp:334-343, fld_dscr.hpp:26)
THEOREM ColumnsReached == Spec => []AccessorsReachTheirColumn
<1>1. NInv => AccessorsReachTheirColumn
  <2> SUFFICES ASSUME NInv, WellNamed, NEW i \in Positions, NEW j \in Positions,
                      header[i].scope = header[j].scope
               PROVE  /\ header[i].of # 0 /\ header[j].name \in ToSet(header[i].needs \o header[i].body) =>
                           header[j].of = header[i].of
                      /\ header[i].name = "A_" =>
                           \A k \in DOMAIN header[i].needs :
                             header[j].name = header[i].needs[k] => header[j].of = k
    BY DEF AccessorsReachTheirColumn
  <2> DEFINE d == header[i]
             e == header[j]
  <2>1. set \in QuerySet /\ d \in ToSet(header) /\ e \in ToSet(header)
    BY DEF NInv, UInv, TypeOK, Positions, ToSet
  <2>2. PICK k \in Nat, u \in Parts : Coded(k) /\ d \in ToSet(Chunk(set[k], u))
    BY <2>1 DEF NInv, Placed
  <2>3. PICK m \in Nat, v \in Parts : Coded(m) /\ e \in ToSet(Chunk(set[m], v))
    BY <2>1 DEF NInv, Placed
  <2> DEFINE ns == snake_case[set[k].id]
             buf == set[k][u]
  <2>4. d.scope = e.scope
    OBVIOUS
  <2> HIDE DEF d, e
  <2>5. CASE u = "utl"
    <3>1. d \in ToSet(UtlClass(ns, set[k]))
      BY <2>2, <2>5 DEF Chunk
    <3>2. d.of = 0 /\ d.name # "A_"
      BY <3>1, UtlAboutNoField, UtlSeparate
    <3> QED BY <3>2 DEF d
  <2>6. CASE u # "utl" /\ d.scope = <<ns>>
    <3>1. d \in ToSet(BufferClass(ns, buf)) /\ Unmistakable(buf) /\ u \in {"par", "res"}
      BY <2>1, <2>2, <2>6, CodedQuery DEF Chunk, Parts
    <3>2. d = Class(ns, buf)
      <4>1. d.scope # <<ns, class_name(buf)>>
        BY <2>6
      <4> QED BY <3>1, <4>1, BufferTagged DEF Tagged, IsTagged
    <3>3. d.of = 0 /\ d.needs = <<>>
      BY <3>2 DEF Class, Member
    <3> QED BY <3>3, EmptySequence DEF d
  <2>7. CASE u # "utl" /\ d.scope # <<ns>>
    <3>1. k = m /\ u = v
      BY <2>1, <2>2, <2>3, <2>4, <2>7, SameChunk
    <3>2. /\ d \in ToSet(BufferClass(ns, buf)) /\ e \in ToSet(BufferClass(ns, buf))
          /\ Unmistakable(buf) /\ u \in {"par", "res"}
      BY <2>1, <2>2, <2>3, <2>7, <3>1, CodedQuery DEF Chunk, Parts
    <3>3. d.scope = <<ns, class_name(buf)>>
      BY <2>1, <2>2, <2>7, <3>2, ChunkScopes DEF Named, ClassOf
    <3>4. e.scope = <<ns, class_name(buf)>>
      BY <2>4, <3>3
    <3> HIDE DEF ns, buf
    <3>5. /\ d.of # 0 /\ e.name \in ToSet(d.needs \o d.body) => e.of = d.of
          /\ d.name = "A_" => \A n \in DOMAIN d.needs : e.name = d.needs[n] => e.of = n
      BY <2>4, <3>2, <3>4, BufferReaches
    <3> QED BY <3>5 DEF d, e
  <2> QED BY <2>5, <2>6, <2>7
<1> QED BY <1>1, NInvInitially, NInvKept, PTL DEF Spec

-----------------------------------------------------------------------------
(* The statement of a query object                                         *)

LEMMA UtlStatement ==
  ASSUME NEW ns, NEW q, NEW d \in ToSet(UtlClass(ns, q)), d.name = "sql_"
  PROVE  d = Statement(ns, q)
<1>1. \A t \in ToSet(Required(q)) : t \in {"par", "res"}
  BY RequiredBuffers
<1>2. \A t \in ToSet(Required(q)) : "N_" \o t # "sql_" /\ t \o "_buf" # "sql_" /\ t \o "_" # "sql_"
  BY <1>1, UtlNames
<1>3. CASE d \in ToSet(UtlStart(ns, q))
  <2>1. \/ \E t \in ToSet(Required(q)) : d = NameArgument(ns, t)
        \/ d = Member(<<ns>>, "utl", 0, <<>>) \/ d = Constructor(ns, q)
    BY <1>3, UtlStartMembers
  <2>2. ASSUME NEW t \in ToSet(Required(q)), d = NameArgument(ns, t) PROVE FALSE
    <3>1. PICK name : name = "N_" \o t
      OBVIOUS
    <3>2. d = Member(<<ns, "utl">>, name, 0, <<>>) /\ name # "sql_"
      BY <1>2, <2>2, <3>1, Zenon DEF NameArgument
    <3> QED BY <3>2 DEF Member
  <2>3. ASSUME d = Member(<<ns>>, "utl", 0, <<>>) PROVE FALSE
    BY <2>3 DEF Member
  <2>4. ASSUME d = Constructor(ns, q) PROVE FALSE
    <3>1. PICK body : d = Function(<<ns, "utl">>, "utl", 0, <<"connection">>, body)
      BY <2>4, Zenon DEF Constructor
    <3> QED BY <3>1 DEF Function
  <2> QED BY <2>1, <2>2, <2>3, <2>4
<1>4. CASE d \in ToSet(Getters(ns, q))
  <2>1. PICK t \in ToSet(Required(q)) : d = Getter(ns, q, t)
    BY <1>4, GetterMembers, Zenon
  <2>2. PICK name : name = t \o "_buf"
    OBVIOUS
  <2>3. \E needs : d = [Member(<<ns, "utl">>, name, 0, needs) EXCEPT !.sig = <<>>]
    BY <2>1, <2>2, Zenon DEF Getter, TypedMember
  <2>4. name # "sql_"
    BY <1>2, <2>2
  <2> QED BY <2>3, <2>4 DEF Member
<1>5. CASE d \in ToSet(Codes(ns))
  BY <1>5, SingleSequence DEF Codes, Function
<1>6. CASE d \in ToSet(Objects(ns, q))
  <2>1. PICK t \in ToSet(Required(q)) : d = TypedMember(ns, q, t, t \o "_")
    BY <1>6, ObjectMembers, Zenon
  <2>2. PICK name : name = t \o "_"
    OBVIOUS
  <2>3. \E needs : d = Member(<<ns, "utl">>, name, 0, needs)
    BY <2>1, <2>2, Zenon DEF TypedMember
  <2>4. name # "sql_"
    BY <1>2, <2>2
  <2> QED BY <2>3, <2>4 DEF Member
<1>7. ToSet(UtlClass(ns, q)) = ToSet(UtlStart(ns, q)) \cup ToSet(Getters(ns, q)) \cup ToSet(Codes(ns))
                                 \cup ToSet(Objects(ns, q)) \cup {Statement(ns, q)}
  BY UtlMembers, Zenon
<1> QED BY <1>3, <1>4, <1>5, <1>6, <1>7

\* A statement in the header is the one of the query whose namespace it is in
LEMMA StatementOf ==
  ASSUME NInv, WellNamed, NEW i \in Statements
  PROVE  \E q : /\ q = Owner(header[i].scope[1]) /\ IsSequence(q.sql) /\ sql(q) # <<>>
                /\ header[i].text = sql_text(q)
<1>1. PICK d, x : d = header[i] /\ x = header[i].scope[1]
  OBVIOUS
<1>2. set \in QuerySet /\ d \in ToSet(header) /\ d.name = "sql_" /\ d.scope = <<x, "utl">>
  BY <1>1 DEF NInv, UInv, TypeOK, Statements, Positions, ToSet
<1>3. PICK k \in Nat, u \in Parts : Coded(k) /\ d \in ToSet(Chunk(set[k], u))
  BY <1>2 DEF NInv, Placed
<1>4. PICK q, ns, c : q = set[k] /\ ns = snake_case[q.id] /\ c = Named(q, u)
  OBVIOUS
<1>5. ns = x /\ c = "utl"
  <2>1. d.scope = <<ns, c>> \/ d.scope = <<ns>>
    BY <1>2, <1>3, <1>4, ChunkScopes
  <2>2. <<x, "utl">> # <<ns>>
    OBVIOUS
  <2>3. <<x, "utl">> = <<ns, c>>
    BY <1>2, <2>1, <2>2, Zenon
  <2> QED BY <2>3
<1>6. u = "utl"
  <2> DEFINE names == <<ClassOf(q, "par"), ClassOf(q, "res"), "utl">>
  <2>1. Distinct(names)
    BY <1>2, <1>3, <1>4, CodedQuery
  <2>2. /\ names[1] = ClassOf(q, "par") /\ names[2] = ClassOf(q, "res") /\ names[3] = "utl"
        /\ DOMAIN names = 1..3
    OBVIOUS
  <2> HIDE DEF names
  <2>3. ClassOf(q, "par") # "utl" /\ ClassOf(q, "res") # "utl"
    BY <2>1, <2>2 DEF Distinct
  <2> QED BY <1>4, <1>5, <2>3 DEF Named, Parts
<1>7. d \in ToSet(UtlClass(ns, q))
  BY <1>3, <1>4, <1>6 DEF Chunk
<1>8. d = Statement(ns, q)
  BY <1>2, <1>7, UtlStatement
<1>9. d.text = sql_text(q)
  <2>1. PICK t : t = sql_text(q)
    OBVIOUS
  <2>2. d = [Member(<<ns, "utl">>, "sql_", 0, <<>>) EXCEPT !.text = t]
    BY <1>8, <2>1, Zenon DEF Statement
  <2> QED BY <2>1, <2>2 DEF Member
<1>10. q \in ToSet(set) /\ sql(q) # <<>> /\ snake_case[q.id] = x
  BY <1>3, <1>4, <1>5 DEF Coded, ToSet
<1>11. ASSUME NEW r \in ToSet(set), sql(r) # <<>>, snake_case[r.id] = x
       PROVE  r = q
  <2>1. PICK m \in DOMAIN set : r = set[m]
    BY DEF ToSet
  <2>2. Coded(m) /\ snake_case[set[k].id] = snake_case[set[m].id]
    BY <1>4, <1>10, <1>11, <2>1 DEF Coded
  <2>3. k = m
    BY <1>2, <1>3, <2>2, CodedQuery
  <2> QED BY <1>4, <2>1, <2>3
<1>12. Owner(x) = q
  BY <1>10, <1>11 DEF Owner
<1>13. IsSequence(q.sql)
  BY <1>2, <1>10, QuerySetAssumption
<1> QED BY <1>1, <1>9, <1>10, <1>12, <1>13

\* The statement that a query object executes has the words of the one that was
\* described to the database and of the one in the document, for statements of
\* any length in any layout: the lines are joined, moved and indented on the way
\* (core_parser.cpp:323, gen_cpp.cpp:536-545, multi_line.cpp:146-151)
THEOREM StatementIsKept == Spec => []DescribedIsExecuted
<1>1. NInv => DescribedIsExecuted
  <2> SUFFICES ASSUME NInv, WellNamed, NEW i \in Statements,
                      LinesApart(to_vec(Owner(header[i].scope[1]).sql))
               PROVE  LET q == Owner(header[i].scope[1])
                      IN /\ Words(header[i].text).words = Words(sql(q)).words
                         /\ Words(q.sql).words = Words(sql(q)).words
    BY Zenon DEF DescribedIsExecuted
  <2>1. PICK q : /\ q = Owner(header[i].scope[1]) /\ IsSequence(q.sql) /\ sql(q) # <<>>
                 /\ header[i].text = sql_text(q)
    BY StatementOf
  <2>2. LinesApart(to_vec(q.sql))
    BY <2>1
  <2>3. Words(sql_text(q)).words = Words(sql(q)).words /\ Words(q.sql).words = Words(sql(q)).words
    BY <2>1, <2>2, SameWords
  <2> QED BY <2>1, <2>3, Zenon
<1> QED BY <1>1, NInvInitially, NInvKept, PTL DEF Spec

\* A statement keeps its layout in the header, whatever its lines are: none that
\* is not blank is lost, all of them move by the same distance, and the one
\* that was indented least ends up where the generator wants it
\* (multi_line.cpp:56-91, gen_cpp.cpp:536-545)
THEOREM LayoutIsKept == Spec => []LayoutKept
<1> DEFINE Layout(given, written) ==
             /\ Len(given) = Len(written)
             /\ \E k \in DOMAIN written : indent(written[k]) = sql_offs
             /\ \A k, m \in DOMAIN written :
                  indent(given[k]) + indent(written[m]) = indent(given[m]) + indent(written[k])
             /\ \A k \in DOMAIN written :
                  SubSeq(written[k], sql_offs + 1, Len(written[k])) =
                    SubSeq(given[k], indent(given[k]) + sql_offs - indent(written[k]) + 1, Len(given[k]))
<1>1. NInv => LayoutKept
  <2> SUFFICES ASSUME NInv, WellNamed, NEW i \in Statements
               PROVE  Layout(SolidLines(split(Owner(header[i].scope[1]).sql)),
                             SolidLines(split(header[i].text)))
    BY Zenon DEF LayoutKept, SolidLines, SolidParts, OneUnlessBlank
  <2>1. PICK q : /\ q = Owner(header[i].scope[1]) /\ IsSequence(q.sql) /\ sql(q) # <<>>
                 /\ header[i].text = sql_text(q)
    BY StatementOf
  <2>2. PICK given, written : given = SolidLines(split(q.sql)) /\ written = SolidLines(split(sql_text(q)))
    OBVIOUS
  <2>3. PICK n \in Nat : AllShifted(given, written, n, sql_offs) /\ \E g \in ToSet(given) : indent(g) = n
    BY <2>1, <2>2, SameLayout
  <2>4. PICK offs : offs = sql_offs
    OBVIOUS
  <2>5. /\ Len(given) = Len(written) /\ DOMAIN written = 1..Len(given) /\ IsSequence(given) /\ offs \in Nat
        /\ \A k \in 1..Len(given) : Shifted(given[k], written[k], n, offs)
    BY <2>3, <2>4, Positioned DEF AllShifted, sql_offs
  <2>6. \A k \in DOMAIN written :
          /\ indent(given[k]) \in Nat /\ n <= indent(given[k]) /\ indent(written[k]) = indent(given[k]) - n + offs
          /\ SubSeq(written[k], offs + 1, Len(written[k])) = SubSeq(given[k], n + 1, Len(given[k]))
    BY <2>5 DEF Shifted
  <2>7. \E k \in DOMAIN written : indent(written[k]) = offs
    <3>1. PICK g \in ToSet(given) : indent(g) = n
      BY <2>3
    <3>2. PICK k \in 1..Len(given) : g = given[k]
      BY <2>5, Positioned
    <3>3. indent(written[k]) = n - n + offs
      BY <2>5, <2>6, <3>1, <3>2
    <3>4. n - n + offs = offs
      BY <2>5
    <3> QED BY <2>5, <3>2, <3>3, <3>4
  <2>8. \A k, m \in DOMAIN written :
          indent(given[k]) + indent(written[m]) = indent(given[m]) + indent(written[k])
    BY <2>5, <2>6
  <2>9. ASSUME NEW k \in DOMAIN written
        PROVE  SubSeq(written[k], offs + 1, Len(written[k])) =
                 SubSeq(given[k], indent(given[k]) + offs - indent(written[k]) + 1, Len(given[k]))
    <3>1. PICK g, w : g = indent(given[k]) /\ w = indent(written[k])
      OBVIOUS
    <3>2. g \in Nat /\ w = g - n + offs
      BY <2>6, <3>1
    <3>3. g + offs - w + 1 = n + 1
      BY <2>5, <3>2
    <3> QED BY <2>6, <3>1, <3>3, Zenon
  <2>10. Layout(given, written)
    BY <2>4, <2>5, <2>7, <2>8, <2>9, Zenon
  <2> HIDE DEF Layout
  <2> QED BY <2>1, <2>2, <2>10, Zenon
<1> QED BY <1>1, NInvInitially, NInvKept, PTL DEF Spec

=============================================================================
