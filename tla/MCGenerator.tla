----------------------------- MODULE MCGenerator -----------------------------
(* Generator for db2, with the documents that tell the properties apart *)
EXTENDS Generator, TLC

\* two files of different names, and of the same name in different folders
MCStems == {<<"h1", "h2">>, <<"h1", "h1">>}
DistinctStems == {<<"h1", "h2">>}

MCRank == ("sql" :> 0) @@ ("db2" :> 1) @@ ("oracle" :> 2)

NoQueries(s) == [state |-> s, queries |-> <<>>]
Queries(qs) == [state |-> "valid", queries |-> qs]
Asked(id, sqls, blank) == [id |-> id, sqls |-> sqls, blank |-> blank]
Statements == UNION {[1..n -> DOMAIN MCRank] : n \in 0..3}

\* Every order of up to three statements in a query, alone or after another
\* query of the same or of another name, statements without a text, a missing
\* and an invalid file
MCDocument ==
  {NoQueries("missing"), NoQueries("invalid")}
    \cup {Queries(<<Asked("a", s, {})>>) : s \in Statements}
    \cup {Queries(<<Asked("a", <<"sql">>, {}), Asked(id, s, {})>>) :
            id \in {"a", "b"}, s \in {<<>>, <<"db2">>, <<"sql", "db2">>, <<"db2", "db2">>}}
    \cup {Queries(<<Asked("a", <<"sql", "db2">>, {i})>>) : i \in 1..2}

\* A few documents, for the runs in which much else can go wrong
FewDocuments ==
  {NoQueries("missing"),
   Queries(<<Asked("a", <<"sql", "sql">>, {})>>),
   Queries(<<Asked("a", <<"sql", "db2">>, {})>>),
   Queries(<<Asked("a", <<"sql">>, {}), Asked("a", <<"sql">>, {})>>),
   Queries(<<Asked("a", <<"sql">>, {1}), Asked("b", <<>>, {})>>)}

=============================================================================
