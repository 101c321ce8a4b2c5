--------------------------- MODULE GeneratorProofs ---------------------------
(***************************************************************************)
(* Proofs about a run of the generator, for any documents, any number of   *)
(* files, and any handles.  What is known of connections and of the choice *)
(* of a statement is taken from their own proofs: CP and SP are those      *)
(* modules for the reader's connection and for the statements of a query.  *)
(***************************************************************************)
EXTENDS Generator, FiniteSetTheorems, SequenceTheorems, TLAPS

CP == INSTANCE SharedEnvProofs WITH Conn <- {Reader}, Serial <- TRUE, EndsTran <- FALSE
SP == INSTANCE SqlSetProofs

-----------------------------------------------------------------------------
(* The parts                                                               *)

\* What CP assumes of the handles and of the one connection object
LEMMA OneReader ==
  /\ CP!IsFiniteSet({Reader}) /\ CP!IsFiniteSet(Dbc)
  /\ CP!Cardinality({Reader}) + CP!Cardinality(Dbc) <= MaxUInt
<1>1. \A set : CP!IsFiniteSet(set) <=> IsFiniteSet(set)
  BY DEF CP!IsFiniteSet, IsFiniteSet
<1>2. \A set : CP!Cardinality(set) = Cardinality(set)
  BY <1>1 DEF CP!Cardinality, Cardinality
<1>3. IsFiniteSet({Reader}) /\ Cardinality({Reader}) = 1
  BY FS_Singleton
<1> QED
  BY <1>1, <1>2, <1>3, ReaderAssumption

LEMMA SameTypes == (C!TypeOK <=> CP!TypeOK) /\ (S!TypeOK <=> SP!TypeOK)
BY DEF C!TypeOK, C!Opening, C!Closing, C!Resting, S!TypeOK,
       CP!TypeOK, CP!Opening, CP!Closing, CP!Resting, SP!TypeOK

LEMMA SameTypesNext == (C!TypeOK' <=> CP!TypeOK') /\ (S!TypeOK' <=> SP!TypeOK')
BY SameTypes, PTL

LEMMA SameConnection == (C!Init <=> CP!Init) /\ (C!Next <=> CP!Next)
BY DEF C!Init, C!Next, C!Construct, C!Close, C!Client, C!AllocEnv, C!StoreEnv, C!SetEnvAttr,
       C!AllocDbc, C!AddRef, C!Connect, C!Autocommit, C!Disconnect, C!DropRef, C!FreeDbc,
       C!FreeEnv, C!New, C!BeginWork, C!EndTran, C!Destroy, C!At, C!Turn, C!Goto, C!Raise,
       C!Unwind, C!Escape, C!CloseEntry, C!Inc, C!Dec, C!Allocated, C!Children, C!Resting,
       C!object, C!static, C!driver,
       CP!Init, CP!Next, CP!Construct, CP!Close, CP!Client, CP!AllocEnv, CP!StoreEnv,
       CP!SetEnvAttr, CP!AllocDbc, CP!AddRef, CP!Connect, CP!Autocommit, CP!Disconnect,
       CP!DropRef, CP!FreeDbc, CP!FreeEnv, CP!New, CP!BeginWork, CP!EndTran, CP!Destroy,
       CP!At, CP!Turn, CP!Goto, CP!Raise, CP!Unwind, CP!Escape, CP!CloseEntry, CP!Inc,
       CP!Dec, CP!Allocated, CP!Children, CP!Resting, CP!object, CP!static, CP!driver

\* Each step of the program is a step of its connection, or leaves it alone
LEMMA ConnStep == [Next]_vars => [CP!Next]_(CP!vars)
<1> SUFFICES ASSUME [Next]_vars PROVE C!Next \/ UNCHANGED connVars
  BY SameConnection DEF connVars, CP!vars, CP!object, CP!static, CP!driver
<1> USE DEF C!Next, C!Client
<1>1. CASE UNCHANGED vars
  BY <1>1 DEF vars
<1>2. CASE Start \/ Connecting \/ Connected \/ ConnectFailed
  BY <1>2 DEF Start, Connecting, Connected, ConnectFailed
<1>3. CASE Finish \/ ParseFile \/ BeginQuery \/ LoadSql \/ SqlLoaded
  BY <1>3 DEF Finish, ParseFile, BeginQuery, LoadSql, SqlLoaded
<1>4. CASE Prepare \/ Describe \/ Rollback \/ Insert \/ Parsed
  BY <1>4 DEF Prepare, Describe, Rollback, Insert, Parsed
<1>5. CASE Open \/ Generate \/ Closing \/ Exit
  BY <1>5 DEF Open, Generate, Closing, Exit
<1> QED BY <1>1, <1>2, <1>3, <1>4, <1>5 DEF Next

\* The steps that change neither the query set, nor the headers, nor the choice
\* of a statement, and where they lead
Steady == UNCHANGED <<stem, docs, file, qset, stream, headers, seen, kept, outcome>>

Advance ==
  \/ UNCHANGED <<step, status>>
  \/ /\ UNCHANGED status
     /\ \/ step = "start" /\ step' = "connect"
        \/ step = "start" /\ step' = "exit" /\ command # "translate"
        \/ step = "connect" /\ step' = "parse"
        \/ step = "load" /\ step' \in {"insert", "prepare"} /\ Len(seen) = Len(Query.sqls)
        \/ step = "prepare" /\ step' = "describe"
        \/ step = "rollback" /\ step' = "insert"
        \/ step = "query" /\ step' = "open" /\ Len(qset) = Len(docs[file].queries)
        \/ step = "close" /\ step' = "exit"
  \/ step = "start" /\ step' = "exit" /\ status' \in 1..5 \cup {inv_grammar_syntax}
  \/ step \in {"connect", "prepare"} /\ step' = "close" /\ status' = unk_exception
  \/ step = "parse" /\ step' = "close" /\ status' = success /\ file > Len(stem)

LEMMA StepCases ==
  [Next]_vars =>
    \/ Steady /\ Advance
    \/ ParseFile \/ BeginQuery \/ LoadSql \/ Describe \/ Insert \/ Open \/ Generate
<1> USE DEF Steady, Advance, Goto, Throw, input, runVars, sqlVars
<1>1. UNCHANGED vars => Steady /\ Advance
  BY DEF vars
<1>2. Start => Steady /\ Advance
  BY DEF Start
<1>3. Connecting \/ Closing => Steady /\ Advance
  BY DEF Connecting, Closing
<1>4. Connected \/ ConnectFailed => Steady /\ Advance
  BY DEF Connected, ConnectFailed
<1>5. Finish \/ Exit => Steady /\ Advance
  BY DEF Finish, Exit
<1>6. SqlLoaded \/ Prepare => Steady /\ Advance
  BY DEF SqlLoaded, Prepare
<1>7. Rollback \/ Parsed => Steady /\ Advance
  BY DEF Rollback, Parsed
<1> QED
  BY <1>1, <1>2, <1>3, <1>4, <1>5, <1>6, <1>7 DEF Next

LEMMA InputKept == [Next]_vars => UNCHANGED input
BY DEF Next, vars, Start, Connecting, Connected, ConnectFailed, Finish, ParseFile, BeginQuery,
       LoadSql, SqlLoaded, Prepare, Describe, Rollback, Insert, Parsed, Open, Generate,
       Closing, Exit

-----------------------------------------------------------------------------
(* Types.  Of the query the program is working on, the invariant says      *)
(* where it is in the document; the driver may leave the sequence of steps *)
(* only through an exception.                                              *)

AtQuery == {"load", "prepare", "describe", "rollback", "insert"}
InFile == AtQuery \cup {"query"}

Kept == [id : STRING, sql : Nat]
Header == [state : {"absent", "truncated", "complete"}, queries : Seq(Kept)]

Stored == headers \in [Names -> Header] /\ qset \in Seq(Kept)

Place ==
  /\ step \in InFile \cup {"open", "generate"} => file <= Len(stem)
  /\ step \in InFile => docs[file].state = "valid" /\ Len(qset) <= Len(docs[file].queries)
  /\ step \in AtQuery =>
       /\ Len(qset) < Len(docs[file].queries)
       /\ Len(seen) <= Len(Query.sqls)
       /\ \A i \in 1..Len(seen) : seen[i] = Query.sqls[i]
       /\ outcome = "loading"
  /\ step \in AtQuery \ {"load"} => seen = Query.sqls

\* What the assumptions say of the files and of their documents
LEMMA Files ==
  ASSUME TypeOK
  PROVE  /\ stem \in Seq(STRING) /\ Len(stem) \in Nat \ {0}
         /\ DOMAIN stem = 1..Len(stem) /\ DOMAIN docs = DOMAIN stem
         /\ \A i \in DOMAIN stem : stem[i] \in Names
BY StemAssumption DEF TypeOK, Names, Range

LEMMA Element == ASSUME NEW T, NEW s \in Seq(T), NEW i \in DOMAIN s PROVE s[i] \in T
OBVIOUS

LEMMA Documents ==
  ASSUME TypeOK, NEW i \in DOMAIN stem
  PROVE  /\ docs[i] \in Document
         /\ docs[i].state \in {"missing", "invalid", "valid"}
         /\ docs[i].queries \in Seq([id : STRING, sqls : Seq(RDBMS), blank : SUBSET Nat])
         /\ \A q \in DOMAIN docs[i].queries : Len(docs[i].queries[q].sqls) <= MaxElements
<1>1. docs[i] \in Document
  BY DEF TypeOK
<1> QED BY <1>1, DocumentAssumption

\* The query the program is working on
LEMMA QueryType ==
  ASSUME TypeOK, Stored, Place, step \in AtQuery
  PROVE  /\ file \in DOMAIN stem
         /\ Len(qset) + 1 \in DOMAIN docs[file].queries
         /\ Query \in [id : STRING, sqls : Seq(RDBMS), blank : SUBSET Nat]
         /\ Len(Query.sqls) <= MaxElements
<1>1. file \in DOMAIN stem
  BY Files DEF TypeOK, Place, AtQuery, InFile
<1>2. docs[file].queries \in Seq([id : STRING, sqls : Seq(RDBMS), blank : SUBSET Nat])
  BY <1>1, Documents
<1>3. Len(qset) + 1 \in DOMAIN docs[file].queries
  BY <1>2 DEF Stored, Place
<1>4. Query \in [id : STRING, sqls : Seq(RDBMS), blank : SUBSET Nat]
  BY <1>2, <1>3, Element DEF Query
<1>5. Len(Query.sqls) <= MaxElements
  BY <1>1, <1>3, Documents DEF Query
<1> QED BY <1>1, <1>3, <1>4, <1>5

LEMMA InitPlace == Init => TypeOK /\ Stored /\ Place
<1> SUFFICES ASSUME Init PROVE TypeOK /\ Stored /\ Place
  OBVIOUS
<1>1. stem \in Seq(STRING) /\ Len(stem) \in Nat \ {0}
  BY StemAssumption DEF Init
<1>2. C!TypeOK /\ S!TypeOK
  <2>1. CP!TypeOK
    BY CP!InitType, OneReader, ReaderAssumption, SameConnection DEF Init
  <2>2. S!TypeOK
    BY KindAssumption DEF Init, S!Init, S!TypeOK
  <2> QED BY <2>1, <2>2, SameTypes
<1>3. Stored
  BY DEF Init, NoHeader, Header, Stored
<1>4. \A n \in Names : headers[n].state \in {"absent", "truncated", "complete"}
  BY DEF Init, NoHeader
<1>5. TypeOK
  <2>1. file \in 1..Len(stem) + 1
    BY <1>1 DEF Init
  <2>2. /\ command \in {"translate", "grammar", "types"}
        /\ stem \in Stems /\ docs \in [DOMAIN stem -> Document]
        /\ step = "start" /\ status = 0 /\ stream \in BOOLEAN
    BY Zenon DEF Init, success
  <2> QED BY <2>1, <2>2, <1>2, <1>4, Zenon DEF TypeOK
<1> QED BY <1>3, <1>5 DEF Init, Place, InFile, AtQuery

Steps == {"start", "connect", "parse", "query", "load", "prepare", "describe",
          "rollback", "insert", "open", "generate", "close", "exit"}
Codes == {0, 1, 2, 3, 4, 5, 7, 8, 9, 10, 13, 14, 255}

LEMMA NextSqlType == TypeOK /\ Stored /\ Place /\ [Next]_vars => S!TypeOK'
<1> SUFFICES ASSUME TypeOK, Stored, Place, [Next]_vars PROVE S!TypeOK'
  OBVIOUS
<1> USE DEF TypeOK
<1>1. CASE UNCHANGED sqlVars
  BY <1>1 DEF sqlVars, S!TypeOK
<1>2. CASE BeginQuery
  BY <1>2, KindAssumption DEF BeginQuery, S!TypeOK
<1>3. CASE LoadSql
  <2>1. /\ S!Load(Query.sqls[Len(seen) + 1]) /\ Len(seen) < Len(Query.sqls)
        /\ Len(seen) \in Nat /\ step \in AtQuery
    BY <1>3 DEF LoadSql, AtQuery, S!TypeOK
  <2>2. Query.sqls \in Seq(RDBMS)
    BY <2>1, QueryType
  <2>3. Query.sqls[Len(seen) + 1] \in RDBMS
    BY <2>1, <2>2
  <2>4. SP!Load(Query.sqls[Len(seen) + 1])
    BY <2>1 DEF S!Load, S!Relevant, S!Ambiguous, S!Put, SP!Load, SP!Relevant, SP!Ambiguous, SP!Put
  <2> QED BY <2>3, <2>4, SP!LoadType, SameTypes, SameTypesNext, KindAssumption
<1> QED
  BY <1>1, <1>2, <1>3
  DEF Next, vars, Start, Connecting, Connected, ConnectFailed, Finish, ParseFile, SqlLoaded,
      Prepare, Describe, Rollback, Insert, Parsed, Open, Generate, Closing, Exit

LEMMA NextStep == TypeOK /\ [Next]_vars => step' \in Steps /\ status' \in Codes
<1> SUFFICES ASSUME TypeOK, [Next]_vars PROVE step' \in Steps /\ status' \in Codes
  OBVIOUS
<1>0. step \in Steps /\ status \in Codes
  BY DEF TypeOK, Steps, Codes
<1> USE <1>0 DEF Steps, Codes, Goto, Throw
<1>1. CASE Steady /\ Advance
  BY <1>1 DEF Advance, inv_grammar_syntax, unk_exception, success
<1>2. CASE ParseFile
  BY <1>2 DEF ParseFile, gsql_file_not_exists, inv_gsql_syntax
<1>3. CASE BeginQuery \/ Open
  BY <1>3 DEF BeginQuery, Open
<1>4. CASE LoadSql
  BY <1>4 DEF LoadSql, duplicate_sql_buf_def
<1>5. CASE Describe
  BY <1>5 DEF Describe, unk_exception
<1>6. CASE Insert
  BY <1>6 DEF Insert, duplicate_sql_dscr_def
<1>7. CASE Generate
  BY <1>7 DEF Generate, unk_exception, unknown_error
<1> QED
  BY <1>1, <1>2, <1>3, <1>4, <1>5, <1>6, <1>7, StepCases

\* Only a header that was written advances the list of files, and only the
\* steps around it touch the stream
LEMMA NextFile ==
  TypeOK /\ Place /\ [Next]_vars => file' \in 1..Len(stem) + 1 /\ stream' \in BOOLEAN
<1> SUFFICES ASSUME TypeOK, Place, [Next]_vars
             PROVE  file' \in 1..Len(stem) + 1 /\ stream' \in BOOLEAN
  OBVIOUS
<1>0. /\ file \in 1..Len(stem) + 1 /\ stream \in BOOLEAN /\ Len(stem) \in Nat
      /\ step = "generate" => file <= Len(stem)
  BY Files DEF TypeOK, Place, InFile
<1>1. CASE UNCHANGED <<file, stream>>
  BY <1>0, <1>1
<1>2. CASE Open
  BY <1>0, <1>2 DEF Open
<1>3. CASE Generate
  <2>1. file' \in {file, file + 1} /\ file <= Len(stem)
    BY <1>0, <1>3 DEF Generate
  <2>2. stream' = FALSE
    BY <1>3 DEF Generate
  <2>3. file' \in 1..Len(stem) + 1
    BY <1>0, <2>1
  <2> QED BY <2>2, <2>3
<1> QED
  BY <1>1, <1>2, <1>3, StepCases
  DEF Steady, runVars, ParseFile, BeginQuery, LoadSql, Describe, Insert

LEMMA NoQueries == <<>> \in Seq(Kept)
OBVIOUS

LEMMA NextStored == TypeOK /\ Stored /\ Place /\ [Next]_vars => Stored'
<1> SUFFICES ASSUME TypeOK, Stored, Place, [Next]_vars PROVE Stored'
  OBVIOUS
<1> USE DEF Stored
<1>1. CASE UNCHANGED headers /\ (qset' = qset \/ qset' = <<>>)
  BY <1>1, NoQueries
<1>2. CASE Insert
  <2>1. Query.id \in STRING
    BY <1>2, QueryType DEF Insert, AtQuery
  <2>2. sql \in Nat
    BY <1>2 DEF TypeOK, S!TypeOK, sql
  <2>3. [id |-> Query.id, sql |-> sql] \in Kept
    BY <2>1, <2>2 DEF Kept
  <2>4. UNCHANGED headers /\ (qset' = qset \/ qset' = Append(qset, [id |-> Query.id, sql |-> sql]))
    BY <1>2 DEF Insert
  <2>5. Append(qset, [id |-> Query.id, sql |-> sql]) \in Seq(Kept)
    BY <2>3
  <2> QED BY <2>4, <2>5
<1>3. CASE Open \/ Generate
  <2>1. file \in DOMAIN stem /\ stem[file] \in Names
    BY <1>3, Files DEF Open, Generate, TypeOK, Place, InFile
  <2>2. Truncated \in Header /\ Complete(qset) \in Header
    BY NoQueries DEF Truncated, Complete, Header
  <2>3. UNCHANGED qset
    BY <1>3 DEF Open, Generate
  <2> QED BY <1>3, <2>1, <2>2, <2>3 DEF Open, Generate
<1> QED
  BY <1>1, <1>2, <1>3, StepCases
  DEF Steady, runVars, ParseFile, BeginQuery, LoadSql, Describe

LEMMA NextPlace == TypeOK /\ Stored /\ Place /\ [Next]_vars => Place'
<1> SUFFICES ASSUME TypeOK, Stored, Place, [Next]_vars PROVE Place'
  OBVIOUS
<1>0. UNCHANGED <<command, stem, docs>> /\ Len(qset) \in Nat
  BY InputKept DEF input, Stored
<1> USE <1>0 DEF Place, InFile, AtQuery, Query, Goto, Throw
<1>1. CASE Steady /\ Advance
  <2>1. ASSUME step = "load", Len(seen) = Len(Query.sqls) PROVE seen = Query.sqls
    <3>1. seen \in Seq(RDBMS) /\ Query.sqls \in Seq(RDBMS)
      BY <2>1, QueryType DEF TypeOK, S!TypeOK, AtQuery
    <3>2. \A i \in 1..Len(seen) : seen[i] = Query.sqls[i]
      BY <2>1
    <3> HIDE DEF Query
    <3> QED BY <2>1, <3>1, <3>2, SeqEqual
  <2> QED BY <1>1, <2>1 DEF Steady, Advance
<1>2. CASE ParseFile
  BY <1>2 DEF ParseFile, sqlVars
<1>3. CASE BeginQuery
  BY <1>3 DEF BeginQuery, runVars
<1>4. CASE LoadSql
  BY <1>4 DEF LoadSql, S!Load, runVars
<1>5. CASE Describe
  BY <1>5 DEF Describe, sqlVars
<1>6. CASE Insert
  BY <1>6 DEF Insert, sqlVars
<1>7. CASE Open \/ Generate
  BY <1>7 DEF Open, Generate, sqlVars
<1> QED
  BY <1>1, <1>2, <1>3, <1>4, <1>5, <1>6, <1>7, StepCases

Typed == TypeOK /\ Stored /\ Place

LEMMA InitTyped == Init => Typed
BY InitPlace DEF Typed

LEMMA NextTyped == Typed /\ [Next]_vars => Typed'
<1> SUFFICES ASSUME TypeOK, Stored, Place, [Next]_vars PROVE Typed'
  BY DEF Typed
<1>1. Stored' /\ Place'
  BY NextStored, NextPlace
<1>2. S!TypeOK' /\ C!TypeOK'
  <2>1. CP!TypeOK'
    BY CP!NextType, ConnStep, OneReader, ReaderAssumption, SameTypes DEF TypeOK
  <2> QED BY <2>1, NextSqlType, SameTypesNext
<1>3. \A n \in Names : headers'[n].state \in {"absent", "truncated", "complete"}
  BY <1>1 DEF Stored, Header
<1>4. /\ command' \in {"translate", "grammar", "types"}
      /\ stem' \in Stems /\ docs' \in [DOMAIN stem' -> Document] /\ stem' = stem
  BY InputKept DEF TypeOK, input
<1>5. /\ step' \in Steps /\ status' \in Codes
      /\ file' \in 1..Len(stem') + 1 /\ stream' \in BOOLEAN
  BY <1>4, NextStep, NextFile
<1> QED
  BY <1>1, <1>2, <1>3, <1>4, <1>5, Zenon DEF Typed, TypeOK, Steps, Codes

\* The program counter, the exit status, the position in the files, the output
\* folder and the parts keep their types (main.cpp:29-79, executor.cpp:123-150)
THEOREM TypeCorrect == Spec => []TypeOK
<1>1. Typed => TypeOK
  BY DEF Typed
<1> QED BY <1>1, InitTyped, NextTyped, PTL DEF Spec

-----------------------------------------------------------------------------
(* The session.  The program opens its connection before it parses, closes *)
(* it on every way out, and works on it only in between.  A query opens a  *)
(* transaction and its own rollback ends it, if nothing is thrown between. *)

Session ==
  /\ step \in {"start", "exit"} => pc[Reader] = "idle"
  /\ step = "close" => pc[Reader] \in C!Closing \cup {"open", "idle"}
  /\ step \in AtQuery \cup {"parse", "query", "open", "generate"} => pc[Reader] = "open"

\* Outside a query, and before its rollback is due, there is no transaction
Clean ==
  step \notin {"describe", "rollback", "close"} /\ pc[Reader] \in {"autocommit", "open"}
    => session[dbh[Reader]] # "transaction"

Working == AtQuery \cup {"parse", "query", "open", "generate"}

\* The steps that leave the connection alone
Elsewhere ==
  \/ step' = step
  \/ step = "start" /\ step' = "exit"
  \/ step = "connect" /\ pc[Reader] = "open" /\ step' = "parse"
  \/ step = "connect" /\ pc[Reader] = "idle" /\ step' = "close"
  \/ step \in Working \ {"describe", "rollback"} /\ step' \in Working \cup {"close"}
  \/ /\ step = "describe"
     /\ \/ step' = "rollback"
        \/ step' = "close" /\ "describe" \in Faults
        \/ step' = "open" /\ "unsupported" \in Faults
  \/ /\ step = "rollback" /\ step' = "insert"
     /\ "rollback" \in Faults \/ session[dbh[Reader]] # "transaction"
  \/ step = "close" /\ pc[Reader] = "idle" /\ step' = "exit"

\* What a step does to the connection
LEMMA ConnCases ==
  [Next]_vars =>
    \/ UNCHANGED connVars /\ Elsewhere
    \/ step = "start" /\ step' = "connect" /\ C!New(Reader)
    \/ step = "connect" /\ step' = step /\ (C!Construct(Reader) \/ C!Close(Reader))
    \/ step = "prepare" /\ step' = "describe" /\ C!BeginWork(Reader)
    \/ step = "rollback" /\ step' = "insert" /\ C!EndTran(Reader)
    \/ step = "close" /\ step' = step /\ (C!Destroy(Reader) \/ C!Close(Reader))
<1> USE DEF Elsewhere, Working, AtQuery, Goto, Throw
<1>1. UNCHANGED vars => UNCHANGED connVars /\ Elsewhere
  BY DEF vars
<1>2. ParseFile \/ BeginQuery \/ Finish => UNCHANGED connVars /\ Elsewhere
  BY DEF ParseFile, BeginQuery, Finish
<1>3. LoadSql \/ SqlLoaded => UNCHANGED connVars /\ Elsewhere
  BY DEF LoadSql, SqlLoaded
<1>4. Describe => UNCHANGED connVars /\ Elsewhere
  BY DEF Describe
<1>5. Insert \/ Parsed => UNCHANGED connVars /\ Elsewhere
  BY DEF Insert, Parsed
<1>6. Open \/ Generate => UNCHANGED connVars /\ Elsewhere
  BY DEF Open, Generate
<1>7. Connected \/ ConnectFailed \/ Exit => UNCHANGED connVars /\ Elsewhere
  BY DEF Connected, ConnectFailed, Exit
<1>8. Start => \/ UNCHANGED connVars /\ Elsewhere
               \/ step = "start" /\ step' = "connect" /\ C!New(Reader)
  BY DEF Start
<1>9. Prepare => \/ UNCHANGED connVars /\ Elsewhere
                 \/ step = "prepare" /\ step' = "describe" /\ C!BeginWork(Reader)
  BY DEF Prepare
<1>10. Rollback => \/ UNCHANGED connVars /\ Elsewhere
                   \/ step = "rollback" /\ step' = "insert" /\ C!EndTran(Reader)
  BY DEF Rollback
<1> QED
  BY <1>1, <1>2, <1>3, <1>4, <1>5, <1>6, <1>7, <1>8, <1>9, <1>10
  DEF Next, Connecting, Closing

\* A destructor runs to its end, and a constructor opens a session without a
\* transaction
LEMMA ReaderCloses ==
  ASSUME C!TypeOK, C!Close(Reader)
  PROVE  pc[Reader] \in C!Closing /\ pc'[Reader] \in C!Closing \cup {"idle"}
BY DEF C!TypeOK, C!Closing, C!At, C!Goto, C!Close, C!Disconnect, C!DropRef, C!FreeDbc, C!FreeEnv

LEMMA ReaderOpens ==
  ASSUME C!TypeOK, CP!Ownership, C!Construct(Reader)
  PROVE  /\ pc[Reader] \in C!Opening
         /\ pc'[Reader] = "autocommit" => session'[dbh'[Reader]] = "connected"
         /\ pc'[Reader] = "open" =>
              pc[Reader] = "autocommit" /\ session'[dbh'[Reader]] = session[dbh[Reader]]
<1> USE DEF C!TypeOK, C!Opening, C!At, C!Goto
<1>1. ASSUME NEW valid, C!Raise(Reader, valid)
      PROVE pc'[Reader] \in {"freeEnv", "disconnect", "idle"}
  BY <1>1 DEF C!Raise, C!Unwind, C!Escape, C!CloseEntry
<1>2. CASE C!AllocEnv(Reader) \/ C!StoreEnv(Reader)
  BY <1>1, <1>2 DEF C!AllocEnv, C!StoreEnv
<1>3. CASE C!SetEnvAttr(Reader) \/ C!AllocDbc(Reader)
  BY <1>1, <1>3 DEF C!SetEnvAttr, C!AllocDbc
<1>4. CASE C!AddRef(Reader)
  BY <1>4 DEF C!AddRef
<1>5. CASE C!Connect(Reader)
  <2>1. dbh[Reader] \in Dbc
    BY <1>5 DEF C!Connect, CP!Ownership, CP!ExclusiveHandles, CP!HandleUsers, CP!Allocated
  <2> QED BY <1>1, <1>5, <2>1 DEF C!Connect
<1>6. CASE C!Autocommit(Reader)
  BY <1>1, <1>6 DEF C!Autocommit, C!driver
<1> QED BY <1>2, <1>3, <1>4, <1>5, <1>6 DEF C!Construct

LEMMA InitSession == Init => CP!Ownership /\ CP!Tidy /\ Session /\ Clean
<1> SUFFICES ASSUME Init PROVE CP!Ownership /\ CP!Tidy /\ Session /\ Clean
  OBVIOUS
<1>1. CP!Ownership /\ CP!Tidy
  BY CP!InitOwnership, CP!InitTidy, OneReader, ReaderAssumption, SameConnection DEF Init
<1>2. pc[Reader] = "idle" /\ step = "start"
  BY DEF Init, C!Init
<1> QED BY <1>1, <1>2 DEF Session, Clean, AtQuery

LEMMA NextOwnership == Typed /\ CP!Ownership /\ [Next]_vars => CP!Ownership'
BY CP!NextOwnership, ConnStep, OneReader, ReaderAssumption, SameTypes DEF Typed, TypeOK

LEMMA NextSession == Typed /\ CP!Ownership /\ Session /\ [Next]_vars => Session'
<1> SUFFICES ASSUME Typed, CP!Ownership, Session, [Next]_vars PROVE Session'
  OBVIOUS
<1>0. C!TypeOK /\ step \in Steps
  BY DEF Typed, TypeOK, Steps
<1> USE DEF Session, AtQuery, Working
<1>1. CASE UNCHANGED connVars /\ Elsewhere
  BY <1>0, <1>1 DEF connVars, Elsewhere
<1>2. CASE step' = "connect"
  BY <1>2
<1>3. CASE step = "connect" /\ step' = step
  BY <1>3
<1>4. CASE step = "prepare" /\ step' = "describe" /\ C!BeginWork(Reader)
  BY <1>4 DEF C!BeginWork, C!object
<1>5. CASE step = "rollback" /\ step' = "insert" /\ C!EndTran(Reader)
  BY <1>5 DEF C!EndTran, C!object
<1>6. CASE step = "close" /\ step' = step /\ C!Destroy(Reader)
  <2>1. pc'[Reader] \in C!Closing
    BY <1>0, <1>6 DEF C!Destroy, C!Goto, C!CloseEntry, C!TypeOK, C!Closing
  <2> QED BY <1>6, <2>1
<1>7. CASE step = "close" /\ step' = step /\ C!Close(Reader)
  BY <1>0, <1>7, ReaderCloses
<1> QED
  BY <1>1, <1>2, <1>3, <1>4, <1>5, <1>6, <1>7, ConnCases

LEMMA NextClean ==
  ASSUME {"rollback", "unsupported"} \cap Faults = {}
  PROVE  Typed /\ CP!Ownership /\ Session /\ Clean /\ [Next]_vars => Clean'
<1> SUFFICES ASSUME Typed, CP!Ownership, Session, Clean, [Next]_vars PROVE Clean'
  OBVIOUS
<1>0. C!TypeOK /\ "rollback" \notin Faults /\ "unsupported" \notin Faults
  BY DEF Typed, TypeOK
<1> USE DEF Session, Clean, AtQuery, Working
<1>1. CASE UNCHANGED connVars /\ Elsewhere
  BY <1>0, <1>1 DEF connVars, Elsewhere
<1>2. CASE step = "start" /\ step' = "connect" /\ C!New(Reader)
  BY <1>0, <1>2 DEF C!New, C!Goto, C!TypeOK
<1>3. CASE step = "connect" /\ step' = step /\ C!Construct(Reader)
  BY <1>0, <1>3, ReaderOpens
<1>4. CASE step = "connect" /\ step' = step /\ C!Close(Reader)
  BY <1>0, <1>4, ReaderCloses DEF C!Closing
<1>5. CASE step' \in {"describe", "close"}
  BY <1>5
<1>6. CASE step = "rollback" /\ step' = "insert" /\ C!EndTran(Reader)
  <2>1. dbh[Reader] \in Dbc
    BY <1>6 DEF CP!Ownership, CP!ExclusiveHandles, CP!HandleUsers, CP!Allocated
  <2> QED BY <1>0, <1>6, <2>1 DEF C!EndTran, C!object, C!TypeOK
<1> QED
  BY <1>1, <1>2, <1>3, <1>4, <1>5, <1>6, ConnCases

\* When SQLEndTran works and the column types are known, whatever else fails,
\* no query is loaded and no header written inside the transaction of an
\* earlier query (core_parser.cpp:325-326)
THEOREM QueriesAreClean ==
  ASSUME {"rollback", "unsupported"} \cap Faults = {} PROVE Spec => []QueriesStartClean
<1> DEFINE IInv == Typed /\ CP!Ownership /\ Session /\ Clean
<1>1. Init => IInv
  BY InitTyped, InitSession
<1>2. IInv /\ [Next]_vars => IInv'
  BY NextTyped, NextOwnership, NextSession, NextClean
<1>3. IInv => QueriesStartClean
  BY DEF Session, Clean, QueriesStartClean, AtQuery
<1> HIDE DEF IInv
<1> QED BY <1>1, <1>2, <1>3, PTL DEF Spec

\* Nothing is thrown while a query is described: the program also closes its
\* connection outside a transaction
CleanEnd == step = "close" /\ pc[Reader] = "open" => session[dbh[Reader]] # "transaction"

LEMMA NextCleanEnd ==
  ASSUME {"rollback", "unsupported", "describe"} \cap Faults = {}
  PROVE  Typed /\ Session /\ Clean /\ CleanEnd /\ [Next]_vars => CleanEnd'
<1> SUFFICES ASSUME Typed, Session, Clean, CleanEnd, [Next]_vars PROVE CleanEnd'
  OBVIOUS
<1>0. C!TypeOK /\ "describe" \notin Faults
  BY DEF Typed, TypeOK
<1> USE DEF Session, Clean, CleanEnd, AtQuery, Working
<1>1. CASE UNCHANGED connVars /\ Elsewhere
  BY <1>0, <1>1 DEF connVars, Elsewhere
<1>2. CASE step' \in {"connect", "describe", "insert"}
  BY <1>2
<1>3. CASE step = "close" /\ step' = step /\ C!Destroy(Reader)
  BY <1>0, <1>3 DEF C!Destroy, C!Goto, C!CloseEntry, C!TypeOK
<1>4. CASE step = "close" /\ step' = step /\ C!Close(Reader)
  BY <1>0, <1>4, ReaderCloses DEF C!Closing
<1> QED
  BY <1>1, <1>2, <1>3, <1>4, ConnCases

\* The reader is destroyed outside a transaction only
LEMMA ReaderEndsFirst ==
  Typed /\ Session /\ Clean /\ CleanEnd /\ [Next]_vars => CP!EndsFirst
<1> SUFFICES ASSUME Typed, Session, Clean, CleanEnd, [Next]_vars, CP!Destroy(Reader)
             PROVE  session[dbh[Reader]] # "transaction"
  BY DEF CP!EndsFirst
<1>0. C!TypeOK
  BY DEF Typed, TypeOK
<1>1. pc[Reader] = "open" /\ pc'[Reader] # "open"
  BY <1>0 DEF CP!Destroy, CP!At, CP!Goto, CP!CloseEntry, C!TypeOK
<1>2. step \notin {"describe", "rollback"}
  <2>1. CASE UNCHANGED connVars
    BY <1>1, <2>1 DEF connVars
  <2>2. CASE C!EndTran(Reader)
    BY <1>1, <2>2 DEF C!EndTran, C!object
  <2> QED BY <2>1, <2>2, ConnCases
<1> QED BY <1>1, <1>2 DEF Clean, CleanEnd

\* When diagnostics fit, describing and rolling back work and the column types
\* are known, every way out of the program, whatever the documents and
\* whatever fails to connect or to be written, gives back the connection and
\* the environment (connection.cpp:93, executor.cpp:123-150)
THEOREM ReaderIsReleased ==
  ASSUME DiagFits, {"rollback", "unsupported", "describe"} \cap Faults = {}
  PROVE  Spec => []ReaderReleased
<1> DEFINE IInv == /\ Typed /\ CP!Ownership /\ Session /\ Clean
                   /\ CleanEnd /\ CP!Tidy
<1>1. Init => IInv
  BY InitTyped, InitSession DEF Init, CleanEnd
<1>2. IInv /\ [Next]_vars => IInv'
  <2> SUFFICES ASSUME IInv, [Next]_vars PROVE IInv'
    OBVIOUS
  <2>1. Typed' /\ CP!Ownership' /\ Session' /\ Clean' /\ CleanEnd'
    BY NextTyped, NextOwnership, NextSession, NextClean, NextCleanEnd
  <2>2. CP!Tidy'
    BY CP!TidyStep, ReaderEndsFirst, ConnStep, OneReader, ReaderAssumption
  <2> QED BY <2>1, <2>2
<1>3. IInv => ReaderReleased
  <2> SUFFICES ASSUME IInv, step = "exit" PROVE C!Allocated = {} /\ envs = {}
    BY DEF ReaderReleased
  <2>1. CP!Quiet /\ CP!Live = {}
    BY DEF Session, CP!Quiet, CP!Live, CP!Resting
  <2>2. CP!NothingLeaked
    BY CP!TidyLeaksNothing, OneReader, ReaderAssumption
  <2> QED BY <2>1, <2>2 DEF CP!NothingLeaked, CP!Allocated, C!Allocated
<1> HIDE DEF IInv
<1> QED BY <1>1, <1>2, <1>3, PTL DEF Spec

-----------------------------------------------------------------------------
(* The statements of a query.  The set of SqlSet finds an ambiguity when   *)
(* the statements read so far have one, and otherwise holds the best.      *)

LEMMA SameLoad ==
  ASSUME NEW k PROVE S!Load(k) <=> SP!Load(k)
BY DEF S!Load, S!Relevant, S!Ambiguous, S!Put, SP!Load, SP!Relevant, SP!Ambiguous, SP!Put

LEMMA LoadedSoFar ==
  ASSUME S!TypeOK, SP!KeepsBest, ~AmbiguousQuery(seen), NEW k \in RDBMS, S!Load(k)
  PROVE  /\ outcome' = "ambiguous" <=> AmbiguousQuery(seen')
         /\ outcome' = "loading" => SP!KeepsBest'
<1> DEFINE n == Len(seen) + 1
<1>1. SP!TypeOK /\ SP!Load(k) /\ Sql \in RDBMS /\ Target \in RDBMS \ {Sql}
  BY SameTypes, SameLoad, KindAssumption
<1>2. /\ seen \in Seq(RDBMS) /\ Len(seen) \in Nat
      /\ Len(seen') = n
      /\ seen'[n] = k
      /\ \A i \in 1..Len(seen) : seen'[i] = seen[i]
      /\ seen' \in Seq(RDBMS)
      /\ outcome = "loading"
  BY <1>1, SP!LoadFacts, KindAssumption
<1>3. outcome' = "loading" => SP!KeepsBest'
  BY <1>1, SP!NextKeepsBest, KindAssumption
<1>4. AmbiguousQuery(seen') <=>
        /\ k \in {Sql, Target} /\ \E i \in 1..Len(seen) : seen[i] = k
        /\ k = Sql => \A i \in 1..Len(seen) : seen[i] # Target
  <2>1. DOMAIN seen = 1..Len(seen) /\ DOMAIN seen' = 1..n
    BY <1>2
  <2>2. ASSUME NEW j \in 1..Len(seen),
               \E i \in 1..j - 1 : /\ seen'[i] = seen'[j] /\ seen'[j] \in {Sql, Target}
                                   /\ seen'[j] = Sql => \A m \in 1..j - 1 : seen'[m] # Target
        PROVE  FALSE
    BY <1>2, <2>1, <2>2 DEF AmbiguousQuery
  <2> QED BY <1>2, <2>1, <2>2 DEF AmbiguousQuery
<1>5. outcome' = "ambiguous" <=> k \in {Sql, Target} /\ kept # 0 /\ seen[kept] = k
  BY <1>1, <1>2 DEF SP!Load, SP!Relevant, SP!Ambiguous
<1>6. ASSUME k \in {Sql, Target}
      PROVE  kept # 0 /\ seen[kept] = k <=>
               /\ \E i \in 1..Len(seen) : seen[i] = k
               /\ k = Sql => \A i \in 1..Len(seen) : seen[i] # Target
  <2>1. /\ kept = 0 => \A i \in 1..Len(seen) : seen[i] \notin {Sql, Target}
        /\ kept # 0 =>
             /\ kept \in 1..Len(seen)
             /\ \/ seen[kept] = Target
                \/ seen[kept] = Sql /\ \A i \in 1..Len(seen) : seen[i] # Target
    BY <1>2 DEF SP!KeepsBest, SP!FirstOf, SP!Positions
  <2> QED BY <1>1, <1>2, <1>6, <2>1
<1> QED BY <1>3, <1>4, <1>5, <1>6

\* The statements of a query are read without an ambiguity so far
Chosen == step \in AtQuery => SP!KeepsBest /\ ~AmbiguousQuery(seen)

\* The statement read next is the next one of the document
LEMMA Reading ==
  ASSUME Typed, Chosen, LoadSql
  PROVE  /\ step \in AtQuery
         /\ outcome' = "ambiguous" <=> AmbiguousQuery(seen')
         /\ outcome' = "loading" => SP!KeepsBest'
         /\ outcome' \in {"loading", "ambiguous"}
         /\ Len(seen') = Len(seen) + 1 /\ Len(seen') <= Len(Query.sqls)
         /\ \A i \in 1..Len(seen') : seen'[i] = Query.sqls[i]
<1>1. /\ S!Load(Query.sqls[Len(seen) + 1]) /\ Len(seen) < Len(Query.sqls)
      /\ Len(seen) \in Nat /\ step = "load" /\ step \in AtQuery /\ S!TypeOK
      /\ seen \in Seq(RDBMS)
  BY DEF LoadSql, AtQuery, S!TypeOK, Typed, TypeOK
<1>2. Query.sqls \in Seq(RDBMS)
  BY <1>1, QueryType DEF Typed
<1>3. Query.sqls[Len(seen) + 1] \in RDBMS
  BY <1>1, <1>2
<1>4. /\ outcome' = "ambiguous" <=> AmbiguousQuery(seen')
      /\ outcome' = "loading" => SP!KeepsBest'
  BY <1>1, <1>3, LoadedSoFar DEF Chosen
<1>5. /\ outcome' \in {"loading", "ambiguous"}
      /\ seen' = Append(seen, Query.sqls[Len(seen) + 1])
  BY <1>1 DEF S!Load, S!TypeOK
<1>6. \A i \in 1..Len(seen) : seen[i] = Query.sqls[i]
  BY <1>1 DEF Typed, Place
<1> HIDE DEF Query
<1>7. /\ Len(seen') = Len(seen) + 1
      /\ \A i \in 1..Len(seen') : seen'[i] = Query.sqls[i]
  BY <1>1, <1>3, <1>5, <1>6
<1> QED BY <1>1, <1>4, <1>5, <1>7

LEMMA NextChosen == Typed /\ Chosen /\ [Next]_vars => Chosen'
<1> SUFFICES ASSUME Typed, Chosen, [Next]_vars, step' \in AtQuery
             PROVE  SP!KeepsBest' /\ ~AmbiguousQuery(seen')
  BY DEF Chosen
<1>1. CASE UNCHANGED sqlVars /\ step \in AtQuery
  BY <1>1 DEF Chosen, sqlVars, SP!KeepsBest, SP!Positions, SP!FirstOf
<1>2. CASE BeginQuery
  <2>1. seen' = <<>> /\ kept' = 0
    BY <1>2 DEF BeginQuery
  <2> QED BY <2>1 DEF SP!KeepsBest, SP!Positions, AmbiguousQuery
<1>3. CASE LoadSql
  <2>1. outcome' # "ambiguous"
    BY <1>3 DEF LoadSql, Throw, AtQuery
  <2> QED BY <1>3, <2>1, Reading
<1>4. \/ UNCHANGED sqlVars /\ step \in AtQuery
      \/ BeginQuery \/ LoadSql
  BY StepCases
  DEF Steady, Advance, AtQuery, Goto, Throw, sqlVars, ParseFile, Describe, Insert, Open, Generate
<1> QED BY <1>1, <1>2, <1>3, <1>4

\* The statement kept of a whole query is the one its reader expects
LEMMA KeptIsBest ==
  ASSUME Typed, Chosen, step \in AtQuery \ {"load"} PROVE kept = Best(Query.sqls)
<1>1. seen = Query.sqls /\ outcome = "loading" /\ SP!KeepsBest
  BY DEF Typed, Place, Chosen
<1>2. DOMAIN seen = 1..Len(seen) /\ Len(seen) \in Nat /\ kept \in 0..Len(seen)
  BY DEF Typed, TypeOK, S!TypeOK
<1> DEFINE Only(k) == \A i, j \in SP!Positions(k) : SP!FirstOf(k, i) /\ SP!FirstOf(k, j) => i = j
<1>3. \A k : Only(k)
  BY <1>2 DEF SP!FirstOf, SP!Positions
<1>4. \A k : {i \in DOMAIN seen : seen[i] = k} = SP!Positions(k)
  BY <1>2 DEF SP!Positions
<1>5. ASSUME NEW k, SP!FirstOf(k, kept)
      PROVE  /\ SP!Positions(k) # {}
             /\ kept = CHOOSE i \in SP!Positions(k) : \A j \in SP!Positions(k) : i <= j
  BY <1>3, <1>5 DEF SP!FirstOf
<1>6. Best(seen) = kept
  <2>1. CASE kept = 0
    BY <1>1, <1>4, <2>1 DEF SP!KeepsBest, Best
  <2>2. CASE SP!FirstOf(Target, kept)
    BY <1>4, <1>5, <2>2 DEF Best
  <2>3. CASE SP!Positions(Target) = {} /\ SP!FirstOf(Sql, kept)
    BY <1>4, <1>5, <2>3 DEF Best
  <2> QED BY <1>1, <2>1, <2>2, <2>3 DEF SP!KeepsBest
<1> QED BY <1>1, <1>6

-----------------------------------------------------------------------------
(* The queries of a document.  The set holds the first queries of the      *)
(* document, each with the statement it calls for and none with a defect.  *)

Ambiguous(d, q) == AmbiguousQuery(d.queries[q].sqls)
Duplicate(d, q) == \E r \in 1..q - 1 : d.queries[r].id = d.queries[q].id
Sound(d, q) == ~Ambiguous(d, q) /\ ~Duplicate(d, q)

Statement(q) == IF Best(q.sqls) \in q.blank THEN 0 ELSE Best(q.sqls)
Entry(d, q) == [id |-> d.queries[q].id, sql |-> Statement(d.queries[q])]

Inserted ==
  step \in InFile \cup {"open", "generate"} =>
    \A i \in 1..Len(qset) : qset[i] = Entry(docs[file], i) /\ Sound(docs[file], i)

\* What is inserted is the query's entry, and it is refused when it duplicates
LEMMA Inserting ==
  ASSUME Typed, Chosen, Inserted, step = "insert"
  PROVE  /\ [id |-> Query.id, sql |-> sql] = Entry(docs[file], Len(qset) + 1)
         /\ ~Ambiguous(docs[file], Len(qset) + 1)
         /\ (\E i \in DOMAIN qset : qset[i].id = Query.id)
              <=> Duplicate(docs[file], Len(qset) + 1)
<1>1. step \in AtQuery \ {"load"} /\ step \in InFile
  BY DEF AtQuery, InFile
<1>2. kept = Best(Query.sqls) /\ seen = Query.sqls /\ ~AmbiguousQuery(seen)
  BY <1>1, KeptIsBest DEF Chosen, Typed, Place
<1>3. [id |-> Query.id, sql |-> sql] = Entry(docs[file], Len(qset) + 1)
  BY <1>2 DEF Entry, Statement, sql, Query
<1>4. ~Ambiguous(docs[file], Len(qset) + 1)
  BY <1>2 DEF Ambiguous, Query
<1>5. /\ Len(qset) \in Nat /\ DOMAIN qset = 1..Len(qset)
      /\ \A i \in 1..Len(qset) : qset[i].id = docs[file].queries[i].id
  <2>1. Len(qset) \in Nat /\ DOMAIN qset = 1..Len(qset)
    BY DEF Typed, Stored
  <2>2. \A i \in 1..Len(qset) : qset[i] = Entry(docs[file], i)
    BY <1>1 DEF Inserted
  <2> QED BY <2>1, <2>2 DEF Entry
<1>6. (\E i \in DOMAIN qset : qset[i].id = Query.id)
        <=> Duplicate(docs[file], Len(qset) + 1)
  BY <1>5 DEF Duplicate, Query
<1> QED BY <1>3, <1>4, <1>6

LEMMA NextInserted == Typed /\ Chosen /\ Inserted /\ [Next]_vars => Inserted'
<1> SUFFICES ASSUME Typed, Chosen, Inserted, [Next]_vars,
                    step' \in InFile \cup {"open", "generate"}
             PROVE  (\A i \in 1..Len(qset) : qset[i] = Entry(docs[file], i)
                                             /\ Sound(docs[file], i))'
  BY DEF Inserted
<1>0. UNCHANGED docs /\ qset \in Seq(Kept) /\ Len(qset) \in Nat
  BY InputKept DEF input, Typed, Stored
<1>1. CASE qset' = <<>>
  BY <1>1
<1>2. CASE UNCHANGED <<file, qset>> /\ step \in InFile \cup {"open", "generate"}
  BY <1>0, <1>2 DEF Inserted, Entry, Sound, Ambiguous, Duplicate
<1>3. CASE Insert
  <2> DEFINE q == Len(qset) + 1
             e == [id |-> Query.id, sql |-> sql]
  <2>1. /\ step = "insert" /\ UNCHANGED file
        /\ qset' = Append(qset, e)
        /\ ~ \E i \in DOMAIN qset : qset[i].id = Query.id
    BY <1>3 DEF Insert, Throw, InFile, AtQuery
  <2>2. e = Entry(docs[file], q) /\ Sound(docs[file], q)
    BY <2>1, Inserting DEF Sound
  <2>3. \A i \in 1..Len(qset) : qset[i] = Entry(docs[file], i) /\ Sound(docs[file], i)
    BY <2>1 DEF Inserted, InFile, AtQuery
  <2> HIDE DEF e
  <2>4. \A i \in 1..Len(qset') : qset'[i] = Entry(docs[file], i) /\ Sound(docs[file], i)
    BY <1>0, <2>1, <2>2, <2>3
  <2>5. docs'[file'] = docs[file]
    BY <1>0, <2>1
  <2> QED BY <2>4, <2>5 DEF Entry, Sound, Ambiguous, Duplicate
<1>4. \/ qset' = <<>> \/ Insert
      \/ UNCHANGED <<file, qset>> /\ step \in InFile \cup {"open", "generate"}
  BY StepCases
  DEF Steady, Advance, InFile, AtQuery, Goto, Throw, runVars, ParseFile, BeginQuery, LoadSql,
      Describe, Open, Generate
<1> QED BY <1>1, <1>2, <1>3, <1>4

\* The status of a valid document is the defect of its first unsound query
LEMMA Judgement ==
  ASSUME NEW d, d.state = "valid", NEW q \in Nat, q \in DOMAIN d.queries,
         DOMAIN d.queries \subseteq Nat \ {0}, \A r \in 1..q - 1 : Sound(d, r)
  PROVE  /\ Ambiguous(d, q) => DocStatus(d) = duplicate_sql_buf_def
         /\ ~Ambiguous(d, q) /\ Duplicate(d, q) => DocStatus(d) = duplicate_sql_dscr_def
<1> DEFINE Bad == {r \in DOMAIN d.queries : Ambiguous(d, r) \/ Duplicate(d, r)}
<1>1. DocStatus(d) = IF Bad = {} THEN success
                     ELSE IF Ambiguous(d, CHOOSE r \in Bad : \A s \in Bad : r <= s)
                          THEN duplicate_sql_buf_def ELSE duplicate_sql_dscr_def
  BY DEF DocStatus, Ambiguous, Duplicate
<1>2. ASSUME q \in Bad PROVE q = CHOOSE r \in Bad : \A s \in Bad : r <= s
  <2>1. \A s \in Bad : ~(s < q)
    <3> SUFFICES ASSUME NEW s \in Bad, s < q PROVE FALSE
      OBVIOUS
    <3>1. s \in Nat \ {0}
      OBVIOUS
    <3> QED BY <3>1 DEF Sound
  <2>2. \A s \in Bad : q <= s
    BY <2>1
  <2>3. \A r \in Bad : (\A s \in Bad : r <= s) => r = q
    BY <1>2, <2>1, <2>2
  <2> QED BY <1>2, <2>2, <2>3
<1> QED BY <1>1, <1>2

LEMMA Acquittal ==
  ASSUME NEW d, d.state = "valid", \A q \in DOMAIN d.queries : Sound(d, q)
  PROVE  DocStatus(d) = success
BY DEF DocStatus, Sound, Ambiguous, Duplicate

\* An ambiguity among the statements read makes the query ambiguous
LEMMA PrefixAmbiguous ==
  ASSUME NEW s \in Seq(RDBMS), NEW t \in Seq(RDBMS), Len(s) <= Len(t),
         \A i \in 1..Len(s) : s[i] = t[i], AmbiguousQuery(s)
  PROVE  AmbiguousQuery(t)
<1>1. PICK j \in DOMAIN s : \E i \in 1..j - 1 :
        /\ s[i] = s[j] /\ s[j] \in {Sql, Target}
        /\ s[j] = Sql => \A k \in 1..j - 1 : s[k] # Target
  BY DEF AmbiguousQuery
<1>2. j \in DOMAIN t /\ s[j] = t[j] /\ \A k \in 1..j - 1 : s[k] = t[k]
  OBVIOUS
<1> QED BY <1>1, <1>2 DEF AmbiguousQuery

-----------------------------------------------------------------------------
(* The exit status.  Until the program gives up it is success, and one     *)
(* that names a defect names the defect of the document at hand.           *)

Refused ==
  /\ step \notin {"close", "exit"} => status = success
  /\ status \in DocumentErrors =>
       step \in {"close", "exit"} /\ file \in DOMAIN stem /\ DocStatus(docs[file]) = status

LEMMA InitRefused == Init => Chosen /\ Inserted /\ Refused
<1> SUFFICES ASSUME Init PROVE Chosen /\ Inserted /\ Refused
  OBVIOUS
<1>1. step = "start" /\ status = success /\ success \notin DocumentErrors
  BY DEF Init, success, DocumentErrors, gsql_file_not_exists, inv_gsql_syntax,
     duplicate_sql_buf_def, duplicate_sql_dscr_def
<1> QED BY <1>1 DEF Chosen, Inserted, Refused, AtQuery, InFile

\* The query at hand is judged like the whole document
LEMMA FirstUnsound ==
  ASSUME Typed, Inserted, step \in AtQuery
  PROVE  LET q == Len(qset) + 1 IN
           /\ Ambiguous(docs[file], q) => DocStatus(docs[file]) = duplicate_sql_buf_def
           /\ ~Ambiguous(docs[file], q) /\ Duplicate(docs[file], q)
                => DocStatus(docs[file]) = duplicate_sql_dscr_def
<1> DEFINE d == docs[file]
           q == Len(qset) + 1
<1>1. /\ q \in DOMAIN d.queries /\ file \in DOMAIN stem /\ d.state = "valid"
      /\ qset \in Seq(Kept)
  BY QueryType DEF Typed, Stored, Place, InFile
<1>2. d.queries \in Seq([id : STRING, sqls : Seq(RDBMS), blank : SUBSET Nat])
  BY <1>1, Documents DEF Typed
<1>3. DOMAIN d.queries \subseteq Nat \ {0} /\ q \in Nat
  BY <1>1, <1>2
<1>4. \A r \in 1..q - 1 : Sound(d, r)
  BY <1>1 DEF Inserted, InFile
<1> HIDE DEF d, q
<1>5. /\ Ambiguous(d, q) => DocStatus(d) = duplicate_sql_buf_def
      /\ ~Ambiguous(d, q) /\ Duplicate(d, q) => DocStatus(d) = duplicate_sql_dscr_def
  BY <1>1, <1>3, <1>4, Judgement
<1> QED BY <1>5 DEF d, q

LEMMA NextRefused == Typed /\ Chosen /\ Inserted /\ Refused /\ [Next]_vars => Refused'
<1> SUFFICES ASSUME Typed, Chosen, Inserted, Refused, [Next]_vars PROVE Refused'
  OBVIOUS
<1>0. UNCHANGED <<stem, docs>>
  BY InputKept DEF input
<1> USE DEF success, unk_exception, gsql_file_not_exists, duplicate_sql_buf_def,
            duplicate_sql_dscr_def, inv_gsql_syntax, inv_grammar_syntax, unknown_error,
            Goto, Throw
<1>1. CASE UNCHANGED file /\ status' = status /\ step' \notin {"close", "exit"}
           /\ step \notin {"close", "exit"}
  BY <1>1 DEF Refused, DocumentErrors
<1>2. CASE UNCHANGED file /\ status' \notin DocumentErrors /\ step' \in {"close", "exit"}
  BY <1>2 DEF Refused
<1>3. CASE UNCHANGED <<file, status>> /\ step \in {"close", "exit"}
           /\ step' \in {"close", "exit"}
  BY <1>0, <1>3 DEF Refused
<1>4. CASE /\ step' = "close" /\ UNCHANGED file /\ file \in DOMAIN stem
           /\ DocStatus(docs[file]) = status'
  BY <1>0, <1>4 DEF Refused
<1>5. CASE Steady /\ Advance
  BY <1>1, <1>2, <1>3, <1>5 DEF Steady, Advance, Refused, DocumentErrors
<1>6. CASE ParseFile
  <2>1. UNCHANGED file /\ file \in DOMAIN stem
    BY <1>6, Files DEF ParseFile, Typed, TypeOK
  <2>2. /\ docs[file].state = "missing" => DocStatus(docs[file]) = 8
        /\ docs[file].state = "invalid" => DocStatus(docs[file]) = 13
    BY DEF DocStatus
  <2> QED BY <1>1, <1>4, <1>6, <2>1, <2>2 DEF ParseFile
<1>7. CASE BeginQuery \/ Open
  BY <1>1, <1>7 DEF BeginQuery, Open, runVars
<1>8. CASE LoadSql
  <2>1. CASE outcome' = "ambiguous"
    <3>1. /\ step \in AtQuery /\ AmbiguousQuery(seen')
          /\ Len(seen') <= Len(Query.sqls)
          /\ \A i \in 1..Len(seen') : seen'[i] = Query.sqls[i]
      BY <1>8, <2>1, Reading
    <3>2. seen' \in Seq(RDBMS)
      BY NextTyped DEF Typed, TypeOK, S!TypeOK
    <3>3. Query.sqls \in Seq(RDBMS) /\ file \in DOMAIN stem
      BY <3>1, QueryType DEF Typed
    <3>4. AmbiguousQuery(Query.sqls)
      BY <3>1, <3>2, <3>3, PrefixAmbiguous
    <3>5. DocStatus(docs[file]) = status'
      BY <1>8, <2>1, <3>1, <3>4, FirstUnsound DEF LoadSql, Ambiguous, Query
    <3> QED BY <1>4, <1>8, <2>1, <3>3, <3>5 DEF LoadSql, runVars
  <2>2. CASE outcome' # "ambiguous"
    BY <1>1, <1>8, <2>2 DEF LoadSql, runVars
  <2> QED BY <2>1, <2>2
<1>9. CASE Describe
  BY <1>1, <1>2, <1>9 DEF Describe, DocumentErrors
<1>10. CASE Insert
  <2>1. step = "insert" /\ step \in AtQuery /\ UNCHANGED file
    BY <1>10 DEF Insert, AtQuery
  <2>2. CASE \E i \in DOMAIN qset : qset[i].id = Query.id
    <3>1. file \in DOMAIN stem
      BY <2>1, QueryType DEF Typed
    <3>2. DocStatus(docs[file]) = 10
      BY <2>1, <2>2, FirstUnsound, Inserting
    <3> QED BY <1>4, <1>10, <2>1, <2>2, <3>1, <3>2 DEF Insert
  <2>3. CASE ~ \E i \in DOMAIN qset : qset[i].id = Query.id
    BY <1>1, <1>10, <2>3 DEF Insert
  <2> QED BY <2>2, <2>3
<1>11. CASE Generate
  <2>1. /\ status = 0
        /\ \/ status' = status /\ step' = "parse"
           \/ status' \in {7, 255} /\ step' = "close"
    BY <1>11 DEF Generate, Refused
  <2> QED BY <2>1 DEF Refused, DocumentErrors
<1> QED
  BY <1>5, <1>6, <1>7, <1>8, <1>9, <1>10, <1>11, StepCases

-----------------------------------------------------------------------------
(* The headers.  Of a file that is not translated yet there is none, unless *)
(* an earlier file of its name made it.                                     *)

Opened == step \in {"generate", "close", "exit"} /\ status \notin DocumentErrors

Untouched ==
  \A i \in DOMAIN stem :
    /\ i >= file /\ \A j \in 1..file - 1 : stem[j] # stem[i]
    /\ file \in DOMAIN stem /\ stem[i] = stem[file] => ~Opened
    => headers[stem[i]] = NoHeader

\* What a step does to the headers, and when it may advance the list of files
LEMMA HeaderCases ==
  ASSUME Typed, Refused, [Next]_vars
  PROVE  \/ UNCHANGED <<file, headers>> /\ (Opened => Opened')
         \/ /\ step = "open" /\ UNCHANGED file /\ file \in DOMAIN stem /\ Opened'
            /\ \/ stream' = TRUE /\ headers' = [headers EXCEPT ![stem[file]] = Truncated]
               \/ "unwritable" \in Faults /\ UNCHANGED headers
         \/ /\ step = "generate" /\ file' = file + 1 /\ file \in DOMAIN stem /\ ~Opened'
            /\ \/ stream /\ headers' = [headers EXCEPT ![stem[file]] = Complete(qset)]
               \/ (~stream \/ "unwritable" \in Faults) /\ UNCHANGED headers
<1> USE DEF Opened, Goto, Throw
<1>0. /\ step \in InFile \cup {"open", "generate"} => file \in DOMAIN stem
      /\ success \notin DocumentErrors
  BY Files DEF Typed, TypeOK, Place, success, DocumentErrors, gsql_file_not_exists,
     inv_gsql_syntax, duplicate_sql_buf_def, duplicate_sql_dscr_def
<1>1. CASE Steady /\ Advance
  BY <1>1 DEF Steady, Advance
<1>2. CASE ParseFile \/ BeginQuery \/ LoadSql
  BY <1>2 DEF ParseFile, BeginQuery, LoadSql, runVars
<1>3. CASE Describe \/ Insert
  BY <1>3 DEF Describe, Insert
<1>4. CASE Open
  BY <1>0, <1>4 DEF Open, Refused
<1>5. CASE Generate
  <2>1. unk_exception \notin DocumentErrors /\ unknown_error \notin DocumentErrors
    BY DEF unk_exception, unknown_error, DocumentErrors, gsql_file_not_exists,
       inv_gsql_syntax, duplicate_sql_buf_def, duplicate_sql_dscr_def
  <2> QED BY <1>0, <1>5, <2>1 DEF Generate
<1> QED BY <1>1, <1>2, <1>3, <1>4, <1>5, StepCases

LEMMA NextUntouched == Typed /\ Refused /\ Untouched /\ [Next]_vars => Untouched'
<1> SUFFICES ASSUME Typed, Refused, Untouched, [Next]_vars,
                    NEW i \in DOMAIN stem, i >= file',
                    \A j \in 1..file' - 1 : stem[j] # stem[i],
                    file' \in DOMAIN stem /\ stem[i] = stem[file'] => ~Opened'
             PROVE  headers'[stem[i]] = NoHeader
  BY InputKept DEF Untouched, input
<1>0. /\ headers \in [Names -> Header] /\ file \in Nat \ {0} /\ i \in Nat
      /\ stem[i] \in Names
  BY Files DEF Typed, TypeOK, Stored
<1>1. CASE UNCHANGED <<file, headers>> /\ (Opened => Opened')
  BY <1>1 DEF Untouched
<1>2. CASE UNCHANGED file /\ file \in DOMAIN stem /\ Opened'
           /\ \/ headers' = [headers EXCEPT ![stem[file]] = Truncated]
              \/ UNCHANGED headers
  <2>1. stem[i] # stem[file]
    BY <1>2
  <2>2. headers[stem[i]] = NoHeader
    BY <1>2, <2>1 DEF Untouched
  <2> QED BY <1>0, <1>2, <2>1, <2>2
<1>3. CASE file' = file + 1 /\ file \in DOMAIN stem
           /\ \/ headers' = [headers EXCEPT ![stem[file]] = Complete(qset)]
              \/ UNCHANGED headers
  <2>1. stem[i] # stem[file] /\ i >= file /\ \A j \in 1..file - 1 : stem[j] # stem[i]
    BY <1>0, <1>3
  <2>2. headers[stem[i]] = NoHeader
    BY <2>1 DEF Untouched
  <2> QED BY <1>0, <1>3, <2>1, <2>2
<1> QED BY <1>1, <1>2, <1>3, HeaderCases

\* Whatever fails, a run that gives up because of a document leaves no header
\* for it or a later file, unless an earlier one made it (executor.cpp:137,
\* core_parser.cpp:412-460)
THEOREM RejectedHasNoHeader == Spec => []RejectedFileHasNoHeader
<1> DEFINE IInv == Typed /\ Chosen /\ Inserted /\ Refused /\ Untouched
<1>1. Init => IInv
  BY InitTyped, InitRefused, Files DEF Init, Typed, Untouched
<1>2. IInv /\ [Next]_vars => IInv'
  BY NextTyped, NextChosen, NextInserted, NextRefused, NextUntouched
<1>3. IInv => RejectedFileHasNoHeader
  BY DEF Refused, Untouched, Opened, RejectedFileHasNoHeader
<1> HIDE DEF IInv
<1> QED BY <1>1, <1>2, <1>3, PTL DEF Spec

-----------------------------------------------------------------------------
(* Complete translations.  When no exception empties the query set, a      *)
(* header is made of all the queries of a document without defect.         *)

Translating ==
  /\ \A i \in DOMAIN stem : i < file => DocStatus(docs[i]) = success
  /\ step \in {"open", "generate"} =>
       /\ file \in DOMAIN stem /\ docs[file].state = "valid"
       /\ Len(qset) = Len(docs[file].queries)

\* The document at hand when its header is written
LEMMA Translation ==
  ASSUME Typed, Inserted, Translating, step = "generate"
  PROVE  DocStatus(docs[file]) = success /\ Complete(qset) = Expected(docs[file])
<1> DEFINE d == docs[file]
<1>1. /\ d.state = "valid" /\ Len(qset) = Len(d.queries) /\ qset \in Seq(Kept)
      /\ \A i \in 1..Len(qset) : qset[i] = Entry(d, i) /\ Sound(d, i)
  BY DEF Translating, Typed, Stored, Inserted
<1>2. d.queries \in Seq([id : STRING, sqls : Seq(RDBMS), blank : SUBSET Nat])
  BY Documents DEF Translating, Typed
<1> HIDE DEF d
<1>3. DOMAIN d.queries = 1..Len(qset)
  BY <1>1, <1>2
<1>4. DocStatus(d) = success
  BY <1>1, <1>3, Acquittal
<1>5. qset = [i \in DOMAIN d.queries |-> Entry(d, i)]
  BY <1>1, <1>3
<1>6. Expected(d) = Complete([i \in DOMAIN d.queries |-> Entry(d, i)])
  BY DEF Expected, Entry, Statement
<1> QED BY <1>4, <1>5, <1>6 DEF d

LEMMA NextTranslating ==
  ASSUME {"unsupported", "xml"} \cap Faults = {}
  PROVE  Typed /\ Inserted /\ Refused /\ Translating /\ [Next]_vars => Translating'
<1> SUFFICES ASSUME Typed, Inserted, Refused, Translating, [Next]_vars PROVE Translating'
  OBVIOUS
<1>0. UNCHANGED <<stem, docs>> /\ file \in Nat /\ DOMAIN stem \subseteq Nat
  BY InputKept, Files DEF input, Typed, TypeOK
<1>1. \A i \in DOMAIN stem' : i < file' => DocStatus(docs'[i]) = success
  <2>1. CASE UNCHANGED file
    BY <1>0, <2>1 DEF Translating
  <2>2. CASE step = "generate" /\ file' = file + 1
    BY <1>0, <2>2, Translation DEF Translating
  <2> QED BY <2>1, <2>2, HeaderCases
<1>2. ASSUME step' \in {"open", "generate"}
      PROVE  /\ UNCHANGED <<file, qset>> /\ file \in DOMAIN stem
             /\ docs[file].state = "valid" /\ Len(qset) = Len(docs[file].queries)
  <2> USE <1>2 DEF Goto, Throw
  <2>1. CASE Steady /\ Advance
    <3>1. CASE step' = step
      BY <2>1, <3>1 DEF Steady, Translating
    <3>2. CASE step = "query" /\ step' = "open" /\ Len(qset) = Len(docs[file].queries)
      BY <2>1, <3>2, Files DEF Steady, Typed, TypeOK, Place, InFile
    <3> QED BY <2>1, <3>1, <3>2 DEF Advance
  <2>2. CASE Open
    BY <2>2 DEF Open, Translating
  <2>3. ~ParseFile /\ ~BeginQuery /\ ~LoadSql /\ ~Describe /\ ~Insert /\ ~Generate
    BY DEF ParseFile, BeginQuery, LoadSql, Describe, Insert, Generate
  <2> QED BY <2>1, <2>2, <2>3, StepCases
<1> QED BY <1>0, <1>1, <1>2 DEF Translating

LEMMA InitTranslating == Init => Translating
BY InitTyped, Files DEF Init, Typed, Translating

\* When every column type is known and the XML library reports its errors to
\* its handler, a status that names a defect of a document names the first one
\* of the first defective file, and the documents before it have none
\* (core_parser.cpp:161-171, 430, 488-495; main.cpp:57-71)
THEOREM FirstDefectIsReported ==
  ASSUME {"unsupported", "xml"} \cap Faults = {} PROVE Spec => []FirstDefectReported
<1> DEFINE IInv == Typed /\ Chosen /\ Inserted /\ Refused /\ Translating
<1>1. Init => IInv
  BY InitTyped, InitRefused, InitTranslating
<1>2. IInv /\ [Next]_vars => IInv'
  BY NextTyped, NextChosen, NextInserted, NextRefused, NextTranslating
<1>3. IInv => FirstDefectReported
  BY DEF Refused, Translating, FirstDefectReported
<1> HIDE DEF IInv
<1> QED BY <1>1, <1>2, <1>3, PTL DEF Spec

\* The stream is open when a header is generated, and every header is what the
\* files so far made of it, but for the one being written
Written ==
  /\ step = "generate" => stream
  /\ \A name \in Names :
       headers[name] # MadeBefore(name) => file \in DOMAIN stem /\ name = stem[file] /\ Opened

LEMMA InitWritten == Init => Written
<1> SUFFICES ASSUME Init PROVE Written
  OBVIOUS
<1>1. {i \in DOMAIN stem : i < file} = {}
  BY InitTyped, Files DEF Init, Typed
<1>2. \A name \in Names : headers[name] = MadeBefore(name)
  BY <1>1 DEF Init, MadeBefore
<1> QED BY <1>2 DEF Init, Written

\* A file that was translated is the last one of its name, and no other name
\* is affected
LEMMA MadeByFile ==
  ASSUME Typed, file \in DOMAIN stem, UNCHANGED <<stem, docs>>, file' = file + 1,
         NEW name \in Names
  PROVE  MadeBefore(name)' = IF name = stem[file] THEN Expected(docs[file])
                                                  ELSE MadeBefore(name)
<1> DEFINE before == {i \in DOMAIN stem : i < file /\ stem[i] = name}
           after == {i \in DOMAIN stem : i < file + 1 /\ stem[i] = name}
           last(set) == CHOOSE i \in set : \A j \in set : j <= i
<1>0. file \in Nat /\ DOMAIN stem \subseteq Nat
  BY Files DEF Typed, TypeOK
<1>1. /\ MadeBefore(name) = IF before = {} THEN NoHeader ELSE Expected(docs[last(before)])
      /\ MadeBefore(name)' = IF after = {} THEN NoHeader ELSE Expected(docs[last(after)])
  BY DEF MadeBefore, Expected
<1>2. CASE name = stem[file]
  <2>1. /\ file \in after /\ \A j \in after : j <= file
        /\ \A i \in after : file <= i => i = file
    BY <1>0, <1>2
  <2>2. file = last(after)
    BY <2>1
  <2> QED BY <1>1, <1>2, <2>1, <2>2
<1>3. CASE name # stem[file]
  <2>1. before = after
    BY <1>0, <1>3
  <2> HIDE DEF before, after, last
  <2> QED BY <1>1, <1>3, <2>1
<1> QED BY <1>2, <1>3

LEMMA NextWritten ==
  ASSUME {"unsupported", "xml", "unwritable"} \cap Faults = {}
  PROVE  Typed /\ Inserted /\ Refused /\ Translating /\ Written /\ [Next]_vars => Written'
<1> SUFFICES ASSUME Typed, Inserted, Refused, Translating, Written, [Next]_vars
             PROVE  Written'
  OBVIOUS
<1>0. UNCHANGED <<stem, docs>> /\ headers \in [Names -> Header] /\ "unwritable" \notin Faults
  BY InputKept DEF input, Typed, Stored
<1>1. step' = "generate" => stream'
  <2> USE DEF Goto, Throw
  <2>1. CASE Steady /\ Advance
    BY <2>1 DEF Steady, Advance, Written
  <2>2. CASE Open
    BY <1>0, <2>2 DEF Open
  <2>3. CASE ~Open /\ ~(Steady /\ Advance)
    BY <2>3, StepCases DEF ParseFile, BeginQuery, LoadSql, Describe, Insert, Generate
  <2> QED BY <2>1, <2>2, <2>3
<1>2. ASSUME NEW name \in Names, headers'[name] # MadeBefore(name)'
      PROVE  file' \in DOMAIN stem /\ name = stem[file'] /\ Opened'
  <2>1. CASE UNCHANGED <<file, headers>> /\ (Opened => Opened')
    <3>1. MadeBefore(name)' = MadeBefore(name)
      BY <1>0, <2>1 DEF MadeBefore, Expected
    <3> QED BY <1>2, <2>1, <3>1 DEF Written
  <2>2. CASE /\ step = "open" /\ UNCHANGED file /\ file \in DOMAIN stem /\ Opened'
             /\ headers' = [headers EXCEPT ![stem[file]] = Truncated]
    <3>1. MadeBefore(name)' = MadeBefore(name)
      BY <1>0, <2>2 DEF MadeBefore, Expected
    <3>2. headers[name] = MadeBefore(name)
      BY <2>2 DEF Written, Opened
    <3> QED BY <1>0, <1>2, <2>2, <3>1, <3>2
  <2>3. CASE /\ step = "generate" /\ file' = file + 1 /\ file \in DOMAIN stem
             /\ headers' = [headers EXCEPT ![stem[file]] = Complete(qset)]
    <3>1. MadeBefore(name)' = IF name = stem[file] THEN Expected(docs[file])
                                                   ELSE MadeBefore(name)
      BY <1>0, <2>3, MadeByFile
    <3>2. CASE name = stem[file]
      BY <1>0, <1>2, <2>3, <3>1, <3>2, Translation
    <3>3. CASE name # stem[file]
      <4>1. headers'[name] = headers[name]
        BY <1>0, <2>3, <3>3
      <4>2. headers[name] # MadeBefore(name)
        BY <1>2, <3>1, <3>3, <4>1
      <4> QED BY <3>3, <4>2 DEF Written
    <3> QED BY <3>2, <3>3
  <2>4. step = "generate" => stream
    BY DEF Written
  <2> QED BY <1>0, <2>1, <2>2, <2>3, <2>4, HeaderCases
<1> QED BY <1>0, <1>1, <1>2 DEF Written

\* When nothing empties a query set and the headers can be written, each is
\* the complete translation of the last file of its name, whatever stops the
\* run (executor.cpp:135-146)
THEOREM HeadersAreInOrder ==
  ASSUME {"unsupported", "xml", "unwritable"} \cap Faults = {} PROVE Spec => []HeadersInOrder
<1> DEFINE IInv == Typed /\ Chosen /\ Inserted /\ Refused /\ Translating /\ Written
<1>1. Init => IInv
  BY InitTyped, InitRefused, InitTranslating, InitWritten
<1>2. IInv /\ [Next]_vars => IInv'
  BY NextTyped, NextChosen, NextInserted, NextRefused, NextTranslating, NextWritten
<1>3. IInv => HeadersInOrder
  <2> SUFFICES ASSUME IInv, NEW name \in Names, headers[name] # MadeBefore(name)
               PROVE  file <= Len(stem) /\ name = stem[file] /\ Opened
    BY DEF HeadersInOrder, Opened
  <2> QED BY Files DEF Written, Typed, TypeOK
<1> HIDE DEF IInv
<1> QED BY <1>1, <1>2, <1>3, PTL DEF Spec

-----------------------------------------------------------------------------
(* Status 0: the program was not to translate, or came to the end of the   *)
(* list of files.                                                          *)

Finished ==
  step \in {"close", "exit"} /\ status = success /\ command = "translate"
    => file > Len(stem)

LEMMA NextFinished == Typed /\ Refused /\ Finished /\ [Next]_vars => Finished'
<1> SUFFICES ASSUME Typed, Refused, Finished, [Next]_vars PROVE Finished'
  OBVIOUS
<1>0. UNCHANGED <<command, stem>>
  BY InputKept DEF input
<1> USE <1>0 DEF Finished, Goto, Throw, success, unk_exception
<1>1. CASE Steady /\ Advance
  BY <1>1 DEF Steady, Advance, inv_grammar_syntax
<1>2. CASE ParseFile
  BY <1>2 DEF ParseFile, gsql_file_not_exists, inv_gsql_syntax
<1>3. CASE LoadSql
  BY <1>3 DEF LoadSql, duplicate_sql_buf_def
<1>4. CASE Insert
  BY <1>4 DEF Insert, duplicate_sql_dscr_def
<1>5. CASE BeginQuery \/ Describe \/ Open
  BY <1>5 DEF BeginQuery, Describe, Open
<1>6. CASE Generate
  BY <1>6 DEF Generate, unknown_error
<1> QED BY <1>1, <1>2, <1>3, <1>4, <1>5, <1>6, StepCases

\* Three faults apart, an unknown column type, an exception of the XML library
\* and a header that cannot be written, and for files of different names,
\* status 0 keeps its promise: every file is translated (executor.cpp:121,
\* program_status.hpp:49)
THEOREM SuccessIsTrue ==
  ASSUME {"unsupported", "xml", "unwritable"} \cap Faults = {},
         \A s \in Stems : \A i, j \in DOMAIN s : s[i] = s[j] => i = j
  PROVE  Spec => []SuccessMeansTranslated
<1> DEFINE IInv == /\ Typed /\ Chosen /\ Inserted /\ Refused /\ Translating /\ Written
                   /\ Finished
<1>1. Init => IInv
  BY InitTyped, InitRefused, InitTranslating, InitWritten DEF Init, Finished
<1>2. IInv /\ [Next]_vars => IInv'
  BY NextTyped, NextChosen, NextInserted, NextRefused, NextTranslating, NextWritten,
     NextFinished
<1>3. IInv => SuccessMeansTranslated
  <2> SUFFICES ASSUME IInv, step = "exit", status = success, command = "translate",
                      NEW i \in DOMAIN stem
               PROVE  Translated(i)
    BY DEF SuccessMeansTranslated
  <2>1. /\ file > Len(stem) /\ file \in Nat /\ DOMAIN stem = 1..Len(stem)
        /\ stem \in Stems /\ stem[i] \in Names /\ Len(stem) \in Nat
    BY Files DEF Finished, Typed, TypeOK
  <2>2. DocStatus(docs[i]) = success
    BY <2>1 DEF Translating
  <2>3. docs[i].state = "valid"
    BY <2>2, Documents DEF Typed, DocStatus, success, gsql_file_not_exists, inv_gsql_syntax
  <2>4. headers[stem[i]] = MadeBefore(stem[i])
    BY <2>1 DEF Written
  <2>5. MadeBefore(stem[i]) = Expected(docs[i])
    <3> DEFINE before == {j \in DOMAIN stem : j < file /\ stem[j] = stem[i]}
    <3>1. before = {i}
      BY <2>1
    <3>2. i = CHOOSE j \in before : \A k \in before : k <= j
      BY <2>1, <3>1
    <3> QED BY <3>1, <3>2 DEF MadeBefore
  <2> QED BY <2>3, <2>4, <2>5 DEF Translated
<1> HIDE DEF IInv
<1> QED BY <1>1, <1>2, <1>3, PTL DEF Spec

=============================================================================
