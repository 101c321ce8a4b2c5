------------------------------- MODULE MCHeader -------------------------------
(* Header for query sets whose parts tell the properties apart *)
EXTENDS Header

Same(ids) == [id \in ids |-> id]
MCsnake_case ==
  ("a-b" :> "a_b") @@ ("q-27-characters-long-------" :> "q_27_characters_long_______")
    @@ Same({"a_b", "q", "par", "res", "utl", "row"})
MCLength ==
  ("a-b" :> 3) @@ ("a_b" :> 3) @@ ("q" :> 1) @@ ("q-27-characters-long-------" :> 27)

Field(name, type) == [name |-> name, type |-> type]
Kind == {"atomic", "string", "bstring", "unknown"}
Fields(first, second) ==
  {<<>>} \cup {<<Field(n, t)>> : n \in first, t \in Kind}
    \cup {<<Field(n, t), Field(second, u)>> : n \in first, t \in Kind, u \in Kind \ {"unknown"}}
Buffer(ids, skips, columns, flds) ==
  [id : ids, skip : skips, columns : columns, flds : flds]

\* a parameter or result buffer of every form, next to a plain one; the names
\* of parameters are the ones load_fld_dscr makes up, those of columns may clash
AnyBuffer(t) ==
  Buffer({t, "row"}, BOOLEAN, {<<>>, <<"y">>, <<"z", "y">>},
         IF t = "par" THEN Fields({"par_1"}, "par_2") ELSE Fields({"y", "x", "set_x"}, "x"))
FewBuffers(t) ==
  Buffer({t}, {FALSE}, {<<>>}, {<<>>, <<Field("par_1", "string")>>})
    \cup Buffer({"row", "utl"}, {TRUE, FALSE}, {<<>>}, {<<Field("par_1", "atomic")>>})

\* a query without a statement is not described, so that its buffers are empty
None == {<<>>, <<NL, SPACE>>}
Queries(ids, pars, ress) ==
  {q \in [id : ids, sql : {<<"s">>} \cup None, par : pars, res : ress] :
     q.sql \in None => q.par.flds = <<>> /\ q.res.flds = <<>>}

\* Statements of up to three indented lines, and short ones with quotes and
\* comments
Texts ==
  BoundedSeq({"s", SPACE, NL}, 7) \cup BoundedSeq({"s", SPACE, NL, QUOTE, COMMENT}, 5)
WithTexts ==
  LET Empty(id) == [id |-> id, skip |-> FALSE, columns |-> <<>>, flds |-> <<>>]
  IN [id : {"q"}, sql : Texts, par : {Empty("par")}, res : {Empty("res")}]

SmallQueries(ids) ==
  Queries(ids, Buffer({"par"}, {FALSE}, {<<>>}, {<<>>, <<Field("par_1", "bstring")>>}),
          Buffer({"res"}, BOOLEAN, {<<>>}, {<<>>, <<Field("x", "string")>>}))

\* a column that is called as a member of the query object
ColumnNamedSql == Buffer({"res"}, {FALSE}, {<<>>}, {<<Field("sql_", "string")>>})

MCQuerySet ==
  {<<q>> : q \in Queries({"q"}, AnyBuffer("par"), FewBuffers("res"))
                   \cup Queries({"q"}, FewBuffers("par"), AnyBuffer("res"))}
    \cup {<<p, q>> : p \in SmallQueries({"a-b"}), q \in SmallQueries({"a_b", "q"})}
    \cup {<<q>> : q \in WithTexts}
    \cup {<<q>> : q \in Queries({"q"}, FewBuffers("par"), ColumnNamedSql)}

\* queries with ids of every length the remark may have trouble with
LongIds == {<<p, q>> : p \in SmallQueries({"q-27-characters-long-------"}),
                       q \in SmallQueries({"a-b", "q"})}

=============================================================================
