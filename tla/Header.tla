-------------------------------- MODULE Header --------------------------------
(***************************************************************************)
(* What the header of a query set declares: gen_cpp (gen/gen_cpp.cpp).     *)
(* The text is abstracted to the list of its declarations, in the order in *)
(* which they are written; each says in which scope it stands, which names *)
(* it needs declared before it and which ones the body of a function uses. *)
(*                                                                         *)
(* For every query that has a statement for the target the generator opens *)
(* a namespace and writes a class for the parameter buffer, a class for    *)
(* the result buffer and the query object utl.  The document names the     *)
(* queries, the buffers and, if it likes, the columns; the database names  *)
(* the other columns.  The statement is the one text that is not           *)
(* abstracted: the generator describes it to the database in one line and  *)
(* writes it into the header in many, both made by MultiLine.              *)
(***************************************************************************)
EXTENDS Naturals, Sequences, FiniteSets, SequencesExt, TLC, MultiLine

CONSTANTS
  snake_case,   \* the conversion of an id to a C++ name: - becomes _
  Length,       \* length of each id; the grammar allows 32 characters
  QuerySet      \* the query sets to translate

\* A query is [id, sql, par, res], where sql is the text of its statement for
\* the target, <<>> when it has none; a buffer is [id, skip, columns, flds],
\* where columns are the names the document gives and flds what the database
\* answered.
BufType == <<"par", "res">>
IsSequence(s) == s \in Seq(ToSet(s))
Distinct(f) == \A i, j \in DOMAIN f : f[i] = f[j] => i = j

ASSUME NameAssumption ==
  /\ DOMAIN Length \subseteq DOMAIN snake_case
  /\ \A id \in DOMAIN Length : Length[id] \in 1..32
ASSUME QuerySetAssumption ==
  \A set \in QuerySet :
    /\ IsSequence(set)
    /\ \A q \in ToSet(set) :
         /\ q.id \in DOMAIN Length /\ IsSequence(q.sql)
         /\ \A t \in ToSet(BufType) :
              q[t].id \in DOMAIN snake_case /\ IsSequence(q[t].flds)

VARIABLES
  set,      \* input: the query set
  at,       \* the query the generator is at
  part,     \* and the part of it
  header,   \* the declarations written so far
  status    \* "writing", "complete" or the exception that ended it

vars == <<set, at, part, header, status>>

-----------------------------------------------------------------------------
(* Fields of a buffer                                                      *)

\* fetch_param_dscr: the names of the document first, then the database's
Name(buf, k) == IF k <= Len(buf.columns) THEN buf.columns[k] ELSE buf.flds[k].name

\* fld_dscr counts the positions from 1, and so do its attribute names
Defecta_name(k) == "a_" \o ToString(k) \o "_"

\* fld_dscr::a_name: the name by which accessors and A_ know the attribute
a_name(k) == "a_" \o ToString(k - 1) \o "_"

\* the counter of the loop is not advanced, as in define_trivial_null_getters
DefectNumbered(prefix, k) == prefix \o "0"

\* the names define_attributes and its companions form from their own counter
Numbered(prefix, k) == prefix \o ToString(k - 1)

\* what gen_file, gen_query, gen_utl and gen_const_sql add to the offset
sql_offs == 8

is_required(buf) == buf.flds # <<>>
class_name(buf) == snake_case[buf.id]
Unknown(buf) == \E k \in DOMAIN buf.flds : buf.flds[k].type = "unknown"

-----------------------------------------------------------------------------
(* Strings                                                                 *)

OfFields(S(_)) ==
  UNION {UNION {UNION {S(q[t]) : t \in ToSet(BufType)} : q \in ToSet(qs)} : qs \in QuerySet}
Columns == OfFields(LAMBDA buf : {Name(buf, k) : k \in DOMAIN buf.flds})
Counters == OfFields(LAMBDA buf : {ToString(k - 1) : k \in DOMAIN buf.flds})

\* What the theorems take from strings, of which a proof only knows that
\* different literals differ.  What follows a prefix can be told from it, and
\* no prefix is the beginning of another one, except that of set_null_; the
\* numbers of the fields of a buffer are written differently.
Affixes == {"is_null_", "set_null_", "set_", "len_", "dec_", "T_", "a_"}
Rests == Columns \cup Counters \cup {c \o "_" : c \in Counters}
ASSUME StringAssumption ==
  /\ \A p, r \in Affixes, x, y \in Rests :
       p \o x = r \o y => (p = r /\ x = y) \/ {p, r} = {"set_", "set_null_"}
  /\ \A p \in Affixes, x \in Rests :
       p \o x \notin {"attributes", "attr_names", "A_", "N_"}
  /\ \A x \in Columns : "" \o x = x
  /\ \A x, y \in Counters : x \o "_" = y \o "_" => x = y
  /\ \A x \in Counters : "a_" \o x \o "_" = "a_" \o (x \o "_")
  /\ \A qs \in QuerySet : \A q \in ToSet(qs), t \in ToSet(BufType) :
       Distinct([k \in DOMAIN q[t].flds |-> ToString(k - 1)])
  /\ Distinct(<<"utl", "allowed_codes", "sql_", "A_", "N_" \o "par", "N_" \o "res",
                "par" \o "_buf", "res" \o "_buf", "par" \o "_", "res" \o "_">>)

-----------------------------------------------------------------------------
(* Declarations                                                            *)

\* "of" is the field a declaration is about, 0 when it is about none
NotAFunction == <<"object">>
Member(scope, name, of, needs) ==
  [scope |-> scope, name |-> name, of |-> of, sig |-> NotAFunction,
   needs |-> needs, body |-> <<>>, text |-> <<>>]
Function(scope, name, of, sig, body) ==
  [scope |-> scope, name |-> name, of |-> of, sig |-> sig,
   needs |-> <<>>, body |-> body, text |-> <<>>]

\* define_[trivial_][null_]getters and setters: for each field eight functions
\* that reach its attribute, in groups of one function per field
Accessors(scope, buf) ==
  LET Group(prefix, sig) ==
        [k \in DOMAIN buf.flds |->
           Function(scope, prefix \o Name(buf, k), k, sig, <<a_name(k)>>)]
  IN Group("is_null_", <<>>) \o Group("is_null_", <<"uint">>)
       \o Group("set_null_", <<>>) \o Group("set_null_", <<"uint">>)
       \o Group("", <<>>) \o Group("", <<"uint">>)
       \o Group("set_", <<"value">>) \o Group("set_", <<"value", "uint">>)

\* define_attribute_access
Access(scope) ==
  <<Function(scope, "attributes", 0, <<>>, <<"A_">>),
    Function(scope, "attr_names", 0, <<>>, <<"N_">>)>>

\* the constants of string attributes do not fall through to the width
DefectConstants(scope, buf) ==
  [k \in DOMAIN buf.flds |->
     Member(scope, Numbered(IF buf.flds[k].type = "bstring" THEN "len_" ELSE "dec_", k), k, <<>>)]

\* define_attributes_const: decimals, except for binary strings, and the
\* width, except for values of a fixed size
Constants(scope, buf) ==
  FlattenSeq([k \in DOMAIN buf.flds |->
    (IF buf.flds[k].type # "bstring" THEN <<Member(scope, Numbered("dec_", k), k, <<>>)>> ELSE <<>>)
      \o (IF buf.flds[k].type # "atomic" THEN <<Member(scope, Numbered("len_", k), k, <<>>)>> ELSE <<>>)])

\* define_attr_types
Types(scope, buf) ==
  [k \in DOMAIN buf.flds |->
     Member(scope, Numbered("T_", k), k,
            IF buf.flds[k].type = "atomic" THEN <<>> ELSE <<Numbered("len_", k)>>)]

\* define_attributes
Attributes(scope, buf) ==
  [k \in DOMAIN buf.flds |->
     Member(scope, Numbered("a_", k) \o "_", k,
            <<Numbered("T_", k)>>
              \o (IF buf.flds[k].type = "bstring" THEN <<>> ELSE <<Numbered("dec_", k)>>))]

\* define_attr_array and define_attr_name_array: the attributes in the order in
\* which buffer_root binds them, and the names dump pairs with them
Arrays(scope, buf) ==
  <<Member(scope, "A_", 0, [k \in DOMAIN buf.flds |-> a_name(k)]), Member(scope, "N_", 0, <<>>)>>

\* gen_buf for a buffer it writes: the class, then its members
BufferClass(ns, buf) ==
  LET scope == <<ns, class_name(buf)>>
  IN <<Member(<<ns>>, class_name(buf), 0, <<>>)>> \o Accessors(scope, buf) \o Access(scope)
       \o Constants(scope, buf) \o Types(scope, buf) \o Attributes(scope, buf)
       \o Arrays(scope, buf)

\* gsql_q::sql, as the database gets it to describe it (load_q_sqlset_from_db)
sql(q) == one_line(to_vec(q.sql))

\* out::sl
Indented(offs, line) == [k \in 1..offs |-> SPACE] \o line \o <<NL>>

\* gen_const_sql: the text between the delimiters of the raw string, the first
\* of which ends its line and the second of which is indented
sql_text(q) ==
  LET lines == to_vec(q.sql)
  IN <<NL>> \o FlattenSeq([k \in DOMAIN lines |-> Indented(sql_offs, lines[k])])
       \o [k \in 1..sql_offs - 2 |-> SPACE]

\* gen_utl: for every buffer that has a field, whether it is skipped or not,
\* a template parameter, a member and a getter that overrides db::utl's, and
\* a call in the constructor that attaches the member
Required(q) ==
  LET If(t) == IF is_required(q[t]) THEN <<t>> ELSE <<>> IN If("par") \o If("res")
UtlClass(ns, q) ==
  LET scope == <<ns, "utl">>
      Each(Decl(_)) == [i \in DOMAIN Required(q) |-> Decl(Required(q)[i])]
      Typed(t, name) == Member(scope, name, 0, <<class_name(q[t]), "N_" \o t>>)
  IN Each(LAMBDA t : Member(scope, "N_" \o t, 0, <<>>))
       \o <<Member(<<ns>>, "utl", 0, <<>>),
            Function(scope, "utl", 0, <<"connection">>, Each(LAMBDA t : t \o "_"))>>
       \o Each(LAMBDA t : [Typed(t, t \o "_buf") EXCEPT !.sig = <<>>])
       \o <<Function(scope, "allowed_codes", 0, <<>>, <<>>)>>
       \o Each(LAMBDA t : Typed(t, t \o "_"))
       \o <<[Member(scope, "sql_", 0, <<>>) EXCEPT !.text = sql_text(q)]>>

-----------------------------------------------------------------------------
(* Writing the header                                                      *)

Init ==
  /\ set \in QuerySet
  /\ at = 1 /\ part = "query"
  /\ header = <<>> /\ status = "writing"

Here == set[at]
Namespace == snake_case[Here.id]

generated_width == 100

\* line_text pads a comment to generated_width; the length of the padding is
\* unsigned, and a string of a length that wrapped around throws
Fits(msgLength, offs) == msgLength + 4 + offs <= generated_width

\* " There is no valid SQL statement in query '...'. No code is generated. "
NoStatementLength == 68

\* the namespace of a query, or the remark that it has no statement
BeginQuery ==
  /\ status = "writing" /\ part = "query" /\ at <= Len(set)
  /\ \/ sql(Here) # <<>> /\ part' = "par" /\ UNCHANGED <<at, status>>
     \/ /\ sql(Here) = <<>>
        /\ IF Fits(NoStatementLength + Length[Here.id], 2)
             THEN at' = at + 1 /\ UNCHANGED status
             ELSE status' = "length_error" /\ UNCHANGED at
        /\ UNCHANGED part
  /\ UNCHANGED <<set, header>>

\* gen_buf writes a class for the buffers that are not skipped
Written(buf) == ~buf.skip /\ is_required(buf)

\* every field type but "unknown" has a kind of attribute
GenBuf(t, next) ==
  /\ status = "writing" /\ part = t
  /\ IF Written(Here[t]) /\ Unknown(Here[t])
       THEN status' = "runtime_error" /\ UNCHANGED <<part, header>>
       ELSE /\ part' = next
            /\ header' = IF Written(Here[t])
                           THEN header \o BufferClass(Namespace, Here[t]) ELSE header
            /\ UNCHANGED status
  /\ UNCHANGED <<set, at>>

GenUtl ==
  /\ status = "writing" /\ part = "utl"
  /\ header' = header \o UtlClass(Namespace, Here)
  /\ at' = at + 1 /\ part' = "query"
  /\ UNCHANGED <<set, status>>

EndFile ==
  /\ status = "writing" /\ part = "query" /\ at > Len(set)
  /\ status' = "complete"
  /\ UNCHANGED <<set, at, part, header>>

Next == BeginQuery \/ GenBuf("par", "res") \/ GenBuf("res", "utl") \/ GenUtl \/ EndFile

Spec == Init /\ [][Next]_vars

-----------------------------------------------------------------------------
(* Properties *)

Positions == DOMAIN header
Encloses(outer, inner) == IsPrefix(outer, inner)
ClassOf(q, t) == class_name(q[t])

\* A client that skips a buffer provides its class, in <hdr> for example
Provided(ns, name) ==
  \E q \in ToSet(set), t \in ToSet(BufType) :
    q[t].skip /\ snake_case[q.id] = ns /\ ClassOf(q, t) = name

\* Every name a declaration uses is declared above it, in its scope or in an
\* enclosing one, or is the class of a buffer the document skips; what the
\* body of a function uses is a member of its class.  The parts are written by
\* functions that do not know of each other (gen_cpp.cpp:241-445, 587-627)
UsesResolved ==
  /\ \A i \in Positions : \A name \in ToSet(header[i].needs) :
       \/ \E j \in 1..i - 1 :
            header[j].name = name /\ Encloses(header[j].scope, header[i].scope)
       \/ Provided(header[i].scope[1], name)
  /\ status = "complete" =>
       \A i \in Positions : \A name \in ToSet(header[i].body) :
         \E j \in Positions : header[j].name = name /\ header[j].scope = header[i].scope

\* The names in which the generator and the document can meet
Formed(buf) ==
  {"attributes", "attr_names", "A_", "N_"}
    \cup UNION {{prefix \o Name(buf, k) : prefix \in {"is_null_", "set_null_", "set_"}}
                  \cup {prefix \o ToString(k - 1) : prefix \in {"len_", "dec_", "T_"}}
                  \cup {"a_" \o ToString(k - 1) \o "_"} : k \in DOMAIN buf.flds}
WellNamed ==
  LET coded == {k \in DOMAIN set : sql(set[k]) # <<>>}
  IN /\ \A i, j \in coded : snake_case[set[i].id] = snake_case[set[j].id] => i = j
     /\ \A k \in coded :
          LET q == set[k]
          IN /\ Distinct(<<ClassOf(q, "par"), ClassOf(q, "res"), "utl">>)
             /\ \A t \in ToSet(BufType) :
                  LET names == [i \in DOMAIN q[t].flds |-> Name(q[t], i)]
                  IN Distinct(names) /\ ToSet(names) \cap Formed(q[t]) = {}

\* When the names of the document and of the database are apart from each
\* other, and from the names the generator forms itself, nothing is declared
\* twice in a scope, except functions that differ in their parameters
\* (gen_cpp.cpp:488-528, 635-657)
NoRedefinition ==
  WellNamed =>
    \A i, j \in Positions :
      i # j /\ header[i].scope = header[j].scope /\ header[i].name = header[j].name =>
        NotAFunction \notin {header[i].sig, header[j].sig} /\ header[i].sig # header[j].sig

\* The k-th attribute that is bound is the one of the k-th column, and each
\* accessor, type and constant of a column leads to the declarations of the
\* same column: the names are formed in two places, from fld_dscr's position
\* (fld_dscr.hpp:26) and from counters of the loops (gen_cpp.cpp:334-343)
AccessorsReachTheirColumn ==
  status = "complete" /\ WellNamed =>
    \A i, j \in Positions :
      header[i].scope = header[j].scope =>
        /\ header[i].of # 0 /\ header[j].name \in ToSet(header[i].needs \o header[i].body) =>
             header[j].of = header[i].of
        /\ header[i].name = "A_" =>
             \A k \in DOMAIN header[i].needs :
               header[j].name = header[i].needs[k] => header[j].of = k

\* The words a database takes from a statement: a comment ends with its line,
\* a literal holds what is between its quotes, and any other white space only
\* separates words
QUOTE == "'"
COMMENT == "--"
Start == [in |-> "code", words |-> <<>>, word |-> <<>>]
EndOfWord(s) == IF s.word = <<>> THEN s.words ELSE Append(s.words, s.word)
Read(s, c) ==
  CASE s.in = "comment" -> [s EXCEPT !.in = IF c = NL THEN "code" ELSE @]
    [] s.in = "literal" -> [s EXCEPT !.in = IF c = QUOTE THEN "code" ELSE @, !.word = Append(@, c)]
    [] s.in = "code" /\ c \in {SPACE, NL, COMMENT} ->
         [in |-> IF c = COMMENT THEN "comment" ELSE "code", words |-> EndOfWord(s), word |-> <<>>]
    [] OTHER -> [s EXCEPT !.in = IF c = QUOTE THEN "literal" ELSE @, !.word = Append(@, c)]
Scan(s, text) == FoldLeft(Read, s, text)
Words(text) == LET end == Scan(Start, text) IN [in |-> end.in, words |-> EndOfWord(end)]

\* Neither a literal nor a comment reaches the end of a line, other than a
\* comment that of the last one
LinesApart(lines) ==
  \A k \in DOMAIN lines :
    LET end == Words(FlattenSeq(SubSeq(lines, 1, k)))
    IN end.in = "code" \/ (end.in = "comment" /\ k = Len(lines))

Owner(ns) == CHOOSE q \in ToSet(set) : sql(q) # <<>> /\ snake_case[q.id] = ns
Statements ==
  {i \in Positions : header[i].name = "sql_" /\ header[i].scope = <<header[i].scope[1], "utl">>}

\* The statement a query object executes is the one the generator described to
\* the database, and the one of the document, although the database gets it
\* in one line and the program in many (core_parser.cpp:323, gen_cpp.cpp:536-545,
\* multi_line.cpp:146-151)
DescribedIsExecuted ==
  WellNamed =>
    \A i \in Statements :
      LET q == Owner(header[i].scope[1])
      IN LinesApart(to_vec(q.sql)) =>
           Words(header[i].text).words = Words(sql(q)).words
             /\ Words(q.sql).words = Words(sql(q)).words

\* The lines of a statement keep their layout in the header: they move by the
\* same distance, which leaves no more space before them all than the
\* generator wants, and only blank lines are lost (multi_line.cpp:56-91)
LayoutKept ==
  WellNamed =>
    \A i \in Statements :
      LET Solid(text) ==
            LET lines == split(text)
            IN FlattenSeq([k \in DOMAIN lines |->
                 IF is_whitespace_line(lines[k]) THEN <<>> ELSE <<lines[k]>>])
          given == Solid(Owner(header[i].scope[1]).sql)
          written == Solid(header[i].text)
      IN /\ Len(given) = Len(written)
         /\ \E k \in DOMAIN written : indent(written[k]) = sql_offs
         /\ \A k, m \in DOMAIN written :
              indent(given[k]) + indent(written[m]) = indent(given[m]) + indent(written[k])
         /\ \A k \in DOMAIN written :
              SubSeq(written[k], sql_offs + 1, Len(written[k])) =
                SubSeq(given[k], indent(given[k]) + sql_offs - indent(written[k]) + 1, Len(given[k]))

\* "Code is generated only if there there exist actual sql command within the
\* query definition" (gen_cpp.cpp:676-677), and the header says " No code is
\* generated. " (gen_cpp.cpp:696) of any other: a query without a statement
\* does not stop the program
RemarkWritten == status # "length_error"

=============================================================================
