------------------------------ MODULE Generator ------------------------------
(***************************************************************************)
(* One run of the generator: main (main.cpp), executor::process_files      *)
(* (core/executor.cpp) and the parser it calls for each file               *)
(* (gsql_parser/core_parser.cpp).  It composes Connection, of which the    *)
(* reader of the database is the only object, and SqlSet, which chooses    *)
(* the statement of each query.                                            *)
(*                                                                         *)
(* For each file of the command line the program parses the document,      *)
(* describes each query to the database inside a transaction it rolls      *)
(* back, and writes a header named after the file.  The first exception    *)
(* ends the run: the reader is destroyed while the stack unwinds and main  *)
(* turns the exception into an exit status.                                *)
(***************************************************************************)
EXTENDS Naturals, Sequences, FiniteSets, SequencesExt

CONSTANTS
  Stems,      \* for each list of files, the headers they are translated to
  Document,   \* what a file may hold
  Faults,     \* what goes wrong besides the documents and the connecting
  Reader, Env, Dbc, NoHandle, MaxUInt, DiagFits,   \* see Connection
  RDBMS, Sql, Target, Rank, MaxElements            \* see SqlSet

ASSUME StemAssumption == \A s \in Stems : s \in Seq(STRING) /\ s # <<>>
ASSUME DocumentAssumption ==
  \A d \in Document :
    /\ d.state \in {"missing", "invalid", "valid"}
    /\ d.queries \in Seq([id : STRING, sqls : Seq(RDBMS), blank : SUBSET Nat])
    /\ \A q \in DOMAIN d.queries : Len(d.queries[q].sqls) <= MaxElements
ASSUME FaultAssumption ==
  Faults \subseteq {"describe",      \* a statement cannot be prepared or described
                    "unsupported",   \* a column type has no entry in db::dscr_
                    "rollback",      \* SQLEndTran fails
                    "unknownType",   \* a column has SQL_UNKNOWN_TYPE
                    "longId",        \* ids are so long that line_text fails (see Header)
                    "xml",           \* the XML library throws an exception of its own
                    "unwritable"}    \* a header cannot be opened or written

\* what Connection and SqlSet assume of the constants they share
ASSUME ReaderAssumption ==
  /\ NoHandle \notin Env \cup Dbc /\ IsFiniteSet(Dbc)
  /\ MaxUInt \in Nat /\ 1 + Cardinality(Dbc) <= MaxUInt
  /\ DiagFits \in BOOLEAN
ASSUME KindAssumption ==
  /\ Sql \in RDBMS /\ Target \in RDBMS \ {Sql} /\ MaxElements \in Nat
  /\ Rank \in [RDBMS -> Nat] /\ \A k \in RDBMS \ {Sql} : Rank[Sql] < Rank[k]

VARIABLES
  command,    \* input: "translate", or what the program displays instead
  stem,       \* input: the stem of each file, which names its header
  docs,       \* input: the document of each file
  step,       \* what the program does next
  status,     \* the P_STS the process exits with
  file,       \* position in the list of files
  qset,       \* queries inserted in the gsql_q_set of the file
  stream,     \* hpp_file_.is_open()
  headers,    \* output folder
  pc, dbh, got, henv, refcnt, envs, parent, session, abandoned,
  seen, kept, outcome

C == INSTANCE Connection WITH Conn <- {Reader}, Serial <- TRUE, EndsTran <- FALSE
S == INSTANCE SqlSet

connVars == <<pc, dbh, got, henv, refcnt, envs, parent, session, abandoned>>
sqlVars  == <<seen, kept, outcome>>
runVars  == <<file, qset, stream, headers>>
input    == <<command, stem, docs>>
vars     == <<input, step, status, runVars, connVars, sqlVars>>

\* P_STS (program_status.hpp:19-37); 1 to 5 are the codes of check_parameters
success == 0
unk_exception == 7
gsql_file_not_exists == 8
duplicate_sql_buf_def == 9
duplicate_sql_dscr_def == 10
inv_gsql_syntax == 13
inv_grammar_syntax == 14
unknown_error == 255

Names == UNION {Range(s) : s \in Stems}
NoHeader == [state |-> "absent", queries |-> <<>>]
Truncated == [state |-> "truncated", queries |-> <<>>]
Complete(qs) == [state |-> "complete", queries |-> qs]

TypeOK ==
  /\ command \in {"translate", "grammar", "types"}
  /\ stem \in Stems /\ docs \in [DOMAIN stem -> Document]
  /\ step \in {"start", "connect", "parse", "query", "load", "prepare", "describe",
               "rollback", "insert", "open", "generate", "close", "exit"}
  /\ status \in {0, 1, 2, 3, 4, 5, 7, 8, 9, 10, 13, 14, 255}
  /\ file \in 1..Len(stem) + 1
  /\ stream \in BOOLEAN
  /\ \A n \in Names : headers[n].state \in {"absent", "truncated", "complete"}
  /\ C!TypeOK /\ S!TypeOK

Init ==
  /\ command \in {"translate", "grammar", "types"}
  /\ stem \in Stems /\ docs \in [DOMAIN stem -> Document]
  /\ step = "start" /\ status = success
  /\ file = 1 /\ qset = <<>> /\ stream = FALSE
  /\ headers = [n \in Names |-> NoHeader]
  /\ C!Init /\ S!Init

Goto(there) == step' = there /\ UNCHANGED status

\* (Operators named Defect... are faulty variants of the definition that
\* follows them: the mutant runs of PROJECT.json put them in its place.)

\* the program leaves with std::exit and unwinds nothing
DefectThrow(s) == step' = "exit" /\ status' = s

\* an exception that ends the run
Throw(s) == step' = "close" /\ status' = s

-----------------------------------------------------------------------------
(* main and the connection of the reader *)

\* --grammar and --types, which make every other parameter right, display and
\* leave.  The parameters or the built-in grammar are refused before the
\* connection
Start ==
  /\ step = "start"
  /\ UNCHANGED <<input, runVars, sqlVars>>
  /\ \/ command = "translate" /\ C!New(Reader) /\ Goto("connect")
     \/ command # "translate" /\ Goto("exit") /\ UNCHANGED connVars
     \/ /\ command = "translate"
        /\ \E s \in 1..5 \cup {inv_grammar_syntax} : status' = s
        /\ step' = "exit"
        /\ UNCHANGED connVars

\* the constructor of db::connection and, when it fails, its handler
Connecting ==
  /\ step = "connect"
  /\ C!Construct(Reader) \/ C!Close(Reader)
  /\ UNCHANGED <<input, step, status, runVars, sqlVars>>

Connected ==
  /\ step = "connect" /\ pc[Reader] = "open"
  /\ Goto("parse")
  /\ UNCHANGED <<input, runVars, connVars, sqlVars>>

\* the handler takes the error for a wrong database name (P_STS::unk_db_name)
DefectConnectFailed ==
  /\ step = "connect" /\ pc[Reader] = "idle"
  /\ Throw(6)
  /\ UNCHANGED <<input, runVars, connVars, sqlVars>>

\* error_exception is a std::runtime_error, which main catches
ConnectFailed ==
  /\ step = "connect" /\ pc[Reader] = "idle"
  /\ Throw(unk_exception)
  /\ UNCHANGED <<input, runVars, connVars, sqlVars>>

-----------------------------------------------------------------------------
(* parse_file *)

Finish ==
  /\ step = "parse" /\ file > Len(stem)
  /\ Throw(success)
  /\ UNCHANGED <<input, runVars, connVars, sqlVars>>

\* the query set of the previous file is used again
DefectStaleSet ==
  /\ step = "parse" /\ file <= Len(stem)
  /\ \/ docs[file].state = "missing" /\ Throw(gsql_file_not_exists)
     \/ docs[file].state = "invalid" /\ Throw(inv_gsql_syntax)
     \/ docs[file].state = "valid" /\ Goto("query")
  /\ UNCHANGED <<input, runVars, connVars, sqlVars>>

\* the header is opened before the file is parsed
DefectOpenFirst ==
  /\ step = "parse" /\ file <= Len(stem)
  /\ \/ docs[file].state = "missing" /\ Throw(gsql_file_not_exists) /\ UNCHANGED qset
     \/ docs[file].state = "invalid" /\ Throw(inv_gsql_syntax) /\ UNCHANGED qset
     \/ docs[file].state = "valid" /\ Goto("query") /\ qset' = <<>>
  /\ headers' = [headers EXCEPT ![stem[file]] = Truncated]
  /\ UNCHANGED <<input, file, stream, connVars, sqlVars>>

\* The XMLException or DOMException of a file that is there is displayed and
\* answered by an empty query set
ParseFile ==
  /\ step = "parse" /\ file <= Len(stem)
  /\ \/ docs[file].state = "missing" /\ Throw(gsql_file_not_exists) /\ UNCHANGED qset
     \/ docs[file].state = "invalid" /\ Throw(inv_gsql_syntax) /\ UNCHANGED qset
     \/ docs[file].state = "valid" /\ Goto("query") /\ qset' = <<>>
     \/ /\ docs[file].state # "missing" /\ "xml" \in Faults
        /\ Goto("open") /\ qset' = <<>>
  /\ UNCHANGED <<input, file, stream, headers, connVars, sqlVars>>

Query == docs[file].queries[Len(qset) + 1]

BeginQuery ==
  /\ step = "query" /\ Len(qset) < Len(docs[file].queries)
  /\ Goto("load")
  /\ seen' = <<>> /\ kept' = 0 /\ outcome' = "loading"
  /\ UNCHANGED <<input, runVars, connVars>>

LoadSql ==
  /\ step = "load" /\ Len(seen) < Len(Query.sqls)
  /\ S!Load(Query.sqls[Len(seen) + 1])
  /\ IF outcome' = "ambiguous" THEN Throw(duplicate_sql_buf_def)
                               ELSE UNCHANGED <<step, status>>
  /\ UNCHANGED <<input, runVars, connVars>>

\* gsql_q::sql is empty when no statement was kept, or one without a text
sql == IF kept \in Query.blank THEN 0 ELSE kept

\* a query without a statement for the database is not described to it
SqlLoaded ==
  /\ step = "load" /\ Len(seen) = Len(Query.sqls)
  /\ Goto(IF sql = 0 THEN "insert" ELSE "prepare")
  /\ UNCHANGED <<input, runVars, connVars, sqlVars>>

\* load_q_sqlset_from_db: the statement handles, the <prepare> statement and
\* the statement itself; whether they open a transaction is up to the driver
Prepare ==
  /\ step = "prepare"
  /\ \/ Goto("describe") /\ (C!BeginWork(Reader) \/ UNCHANGED connVars)
     \/ "describe" \in Faults /\ Throw(unk_exception) /\ UNCHANGED connVars
  /\ UNCHANGED <<input, runVars, sqlVars>>

\* the fields are described and the parser forgets to roll back
DefectDescribe ==
  /\ step = "describe"
  /\ Goto("insert")
  /\ UNCHANGED <<input, runVars, connVars, sqlVars>>

\* fetch_param_dscr and set_flds.  A column type without an entry in db::dscr_
\* makes a std::string of a null pointer: a std::logic_error, which the last
\* handler of parse_file turns into an empty query set
Describe ==
  /\ step = "describe"
  /\ \/ Goto("rollback") /\ UNCHANGED qset
     \/ "describe" \in Faults /\ Throw(unk_exception) /\ UNCHANGED qset
     \/ "unsupported" \in Faults /\ Goto("open") /\ qset' = <<>>
  /\ UNCHANGED <<input, file, stream, headers, connVars, sqlVars>>

\* both statements roll the connection back; the return code is ignored
Rollback ==
  /\ step = "rollback"
  /\ Goto("insert")
  /\ \/ C!EndTran(Reader)
     \/ ("rollback" \in Faults \/ session[dbh[Reader]] # "transaction") /\ UNCHANGED connVars
  /\ UNCHANGED <<input, runVars, sqlVars>>

\* the result of q_insert is ignored
DefectInsert ==
  /\ step = "insert"
  /\ Goto("query") /\ qset' = Append(qset, [id |-> Query.id, sql |-> sql])
  /\ UNCHANGED <<input, file, stream, headers, connVars, sqlVars>>

\* q_insert, and the end of load_q_set when the query was the last one
Insert ==
  /\ step = "insert"
  /\ IF \E i \in DOMAIN qset : qset[i].id = Query.id
       THEN Throw(duplicate_sql_dscr_def) /\ UNCHANGED qset
       ELSE Goto("query") /\ qset' = Append(qset, [id |-> Query.id, sql |-> sql])
  /\ UNCHANGED <<input, file, stream, headers, connVars, sqlVars>>

Parsed ==
  /\ step = "query" /\ Len(qset) = Len(docs[file].queries)
  /\ Goto("open")
  /\ UNCHANGED <<input, runVars, connVars, sqlVars>>

-----------------------------------------------------------------------------
(* Writing the header: hpp_file_ is never asked whether it could *)

Open ==
  /\ step = "open"
  /\ Goto("generate")
  /\ \/ stream' = TRUE /\ headers' = [headers EXCEPT ![stem[file]] = Truncated]
     \/ "unwritable" \in Faults /\ UNCHANGED <<stream, headers>>
  /\ UNCHANGED <<input, file, qset, connVars, sqlVars>>

\* the list of files is not advanced
DefectGenerate ==
  /\ step = "generate"
  /\ Goto("parse")
  /\ headers' = [headers EXCEPT ![stem[file]] = Complete(qset)]
  /\ stream' = FALSE
  /\ UNCHANGED <<input, file, qset, connVars, sqlVars>>

\* gen_file throws after the file is truncated: a std::runtime_error when it
\* meets a column of SQL_UNKNOWN_TYPE, a std::length_error, which only the last
\* handler of main catches, when the id of a query without statement is long
Generate ==
  /\ step = "generate"
  /\ \/ /\ Goto("parse") /\ file' = file + 1
        /\ \/ stream /\ headers' = [headers EXCEPT ![stem[file]] = Complete(qset)]
           \/ (~stream \/ "unwritable" \in Faults) /\ UNCHANGED headers
     \/ /\ "unknownType" \in Faults /\ \E i \in DOMAIN qset : qset[i].sql # 0
        /\ Throw(unk_exception)
        /\ UNCHANGED <<file, headers>>
     \/ /\ "longId" \in Faults /\ \E i \in DOMAIN qset : qset[i].sql = 0
        /\ Throw(unknown_error)
        /\ UNCHANGED <<file, headers>>
  /\ stream' = FALSE
  /\ UNCHANGED <<input, qset, connVars, sqlVars>>

-----------------------------------------------------------------------------
(* The end of process_files, normal or not *)

Closing ==
  /\ step = "close"
  /\ C!Destroy(Reader) \/ C!Close(Reader)
  /\ UNCHANGED <<input, step, status, runVars, sqlVars>>

Exit ==
  /\ step = "close" /\ pc[Reader] = "idle"
  /\ Goto("exit")
  /\ UNCHANGED <<input, runVars, connVars, sqlVars>>

Next ==
  \/ Start \/ Connecting \/ Connected \/ ConnectFailed
  \/ Finish \/ ParseFile \/ BeginQuery \/ LoadSql \/ SqlLoaded
  \/ Prepare \/ Describe \/ Rollback \/ Insert \/ Parsed
  \/ Open \/ Generate \/ Closing \/ Exit

Spec == Init /\ [][Next]_vars

\* one thread, and every call of the driver and of the file system returns
FairSpec == Spec /\ WF_vars(Next)

-----------------------------------------------------------------------------
(* Properties *)

\* The statement a reader of the document expects a query to keep: the first
\* one for the target, else the first generic one, else none; one without a
\* text counts as none
Best(sqls) ==
  LET Positions(k) == {i \in DOMAIN sqls : sqls[i] = k}
      First(set) == CHOOSE i \in set : \A j \in set : i <= j
  IN IF Positions(Target) # {} THEN First(Positions(Target))
     ELSE IF Positions(Sql) # {} THEN First(Positions(Sql)) ELSE 0

\* The header a document stands for, and whether a header is that one
Expected(d) ==
  LET Statement(q) == IF Best(q.sqls) \in q.blank THEN 0 ELSE Best(q.sqls)
  IN Complete([i \in DOMAIN d.queries |->
                 [id |-> d.queries[i].id, sql |-> Statement(d.queries[i])]])
Translated(i) ==
  docs[i].state = "valid" /\ headers[stem[i]] = Expected(docs[i])

\* Two statements for the target, or two generic ones with none for the
\* target before the second
AmbiguousQuery(sqls) ==
  \E j \in DOMAIN sqls : \E i \in 1..j - 1 :
    /\ sqls[i] = sqls[j] /\ sqls[j] \in {Sql, Target}
    /\ sqls[j] = Sql => \A k \in 1..j - 1 : sqls[k] # Target

\* The status a document calls for: the defect of the first query that has one
DocStatus(d) ==
  LET Ambiguous(q) == AmbiguousQuery(d.queries[q].sqls)
      Duplicate(q) == \E r \in 1..q - 1 : d.queries[r].id = d.queries[q].id
      Bad == {q \in DOMAIN d.queries : Ambiguous(q) \/ Duplicate(q)}
  IN IF d.state = "missing" THEN gsql_file_not_exists
     ELSE IF d.state = "invalid" THEN inv_gsql_syntax
     ELSE IF Bad = {} THEN success
     ELSE IF Ambiguous(CHOOSE q \in Bad : \A r \in Bad : q <= r)
          THEN duplicate_sql_buf_def ELSE duplicate_sql_dscr_def

DocumentErrors == {gsql_file_not_exists, inv_gsql_syntax, duplicate_sql_buf_def,
                   duplicate_sql_dscr_def}

\* What the files before the current one made of a header: files of the same
\* name are translated to the same header, the last one over the others
MadeBefore(name) ==
  LET before == {i \in DOMAIN stem : i < file /\ stem[i] = name}
  IN IF before = {} THEN NoHeader
     ELSE Expected(docs[CHOOSE i \in before : \A j \in before : j <= i])

\* Headers appear in the order of the files: each is the complete translation
\* of the last file of its name, with the statements its document calls for,
\* and stays so while another file is parsed, described or refused
\* (executor.cpp:135-146)
HeadersInOrder ==
  \A name \in Names :
    \/ headers[name] = MadeBefore(name)
    \/ /\ file <= Len(stem) /\ name = stem[file]
       /\ step \in {"generate", "close", "exit"} /\ status \notin DocumentErrors

\* When the program gives up because of a document, the status names the first
\* defect of the first defective file, and the documents of a run that
\* succeeds have none (core_parser.cpp:161-171, 488-495; main.cpp:57-71)
FirstDefectReported ==
  step = "exit" /\ status \in DocumentErrors \cup {success} =>
    /\ \A i \in DOMAIN stem : i < file => DocStatus(docs[i]) = success
    /\ status # success => DocStatus(docs[file]) = status

\* No query is loaded, and no header written, inside the transaction of an
\* earlier query: what its <prepare> statement created is rolled back
\* (core_parser.cpp:325-326)
QueriesStartClean ==
  step \in {"parse", "query", "load", "prepare", "open", "generate"} =>
    session[dbh[Reader]] # "transaction"

\* When the program ends, its connection and the environment are released
\* ("both handles (i.e. connection and environment) are released",
\* connection.cpp:93)
ReaderReleased == step = "exit" => C!Allocated = {} /\ envs = {}

\* Whatever goes wrong, a status that names a defect of a document is the
\* status of the document the program was working on, and neither that file
\* nor a later one gets a header, unless an earlier one made it
\* (executor.cpp:137, core_parser.cpp:412-460)
RejectedFileHasNoHeader ==
  step = "exit" /\ status \in DocumentErrors =>
    /\ DocStatus(docs[file]) = status
    /\ \A i \in DOMAIN stem : i >= file /\ stem[i] \notin {stem[j] : j \in 1..file - 1} =>
         headers[stem[i]] = NoHeader

\* A run ends, whatever the documents hold and whatever fails (main.cpp:29-79)
Terminates == <>(step = "exit")

\* "@return int 0 - ok" (executor.cpp:121), "Program successfuly finished"
\* (program_status.hpp:49): a run that ends with status 0 has translated every
\* file
SuccessMeansTranslated ==
  step = "exit" /\ status = success /\ command = "translate" =>
    \A i \in DOMAIN stem : Translated(i)

=============================================================================
