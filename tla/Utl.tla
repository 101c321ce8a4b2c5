-------------------------------- MODULE Utl --------------------------------
(***************************************************************************)
(* db::utl (src/src/runtime/runtime/dbgen3_templ.hpp), the query object    *)
(* the generated classes derive from, with the db::statement it owns       *)
(* (src/src/runtime/statement.cpp) and the parameter and result buffers    *)
(* it points to.  The C++ objects cache what they told the driver: the     *)
(* statement remembers that its text is prepared, a buffer that it is      *)
(* bound, and a size is sent only when it exceeds one.  The module models  *)
(* both sides, the caches and the driver's statement handle, and the       *)
(* properties say when they agree.                                         *)
(*                                                                         *)
(* One thread calls; each call is one action, whose parameter f is the     *)
(* driver call that fails.                                                 *)
(***************************************************************************)
EXTENDS Integers, FiniteSets

CONSTANTS
  Utl,             \* query objects of one connection
  Par, Res,        \* parameter and result buffers
  OwnPar, OwnRes,  \* the buffers the generated constructor attaches, or NoBuf
  Size,            \* arr_size of each buffer
  NoBuf,           \* nullptr
  Mixed,           \* a binding that failed half way
  Sql, NoSql,      \* statement texts; the empty text
  Batches,         \* values a client passes to set_occupied
  MaxResult,       \* bound: rows of a result set
  MaxObjects,      \* bound: query objects that a client creates, or tries to
  Usage            \* what clients do beyond the generated code and the examples

Buf == Par \cup Res

ASSUME BufAssumption ==
  /\ NoBuf \notin Buf /\ Mixed \notin Buf \cup {NoBuf} /\ Par \cap Res = {}
  /\ OwnPar \in [Utl -> Par \cup {NoBuf}] /\ OwnRes \in [Utl -> Res \cup {NoBuf}]
  /\ Size \in [Buf -> Nat \ {0}]
ASSUME OwnAssumption ==
  \A u, v \in Utl : u # v => /\ OwnPar[u] = NoBuf \/ OwnPar[u] # OwnPar[v]
                             /\ OwnRes[u] = NoBuf \/ OwnRes[u] # OwnRes[v]
ASSUME ClientAssumption ==
  /\ NoSql \notin Sql /\ Batches \subseteq Nat /\ MaxResult \in Nat
  /\ MaxObjects \in Nat
  /\ Usage \subseteq {"smallerBatch", "overfullBatch", "swapBuffers", "explicitCtor",
                      "outliveConnection"}

VARIABLES
  alive,          \* query objects that exist
  parBuf, resBuf, \* par_buf_ and res_buf_
  sql, prepared,  \* statement: sql_ and is_prepared_
  rc,             \* what the last call on the object returned or threw
  bound,          \* buffer: bind_
  occupied,       \* buffer: occupied_, which the driver writes for a result
  drv,            \* driver: the statement handle of each object
  connected       \* driver: statement handles are valid

buffers == <<bound, occupied>>
vars == <<alive, parBuf, resBuf, sql, prepared, rc, buffers, drv, connected>>

NoCursor == -1

\* A new statement handle
Fresh == [stmt |-> NoSql, paramset |-> 1, status |-> NoBuf, rowArray |-> 1,
          fetched |-> NoBuf, params |-> NoBuf, cols |-> NoBuf, left |-> NoCursor]

Handle == [stmt : Sql \cup {NoSql}, paramset : Nat, status : Par \cup Res \cup {NoBuf},
           rowArray : Nat, fetched : Buf \cup {NoBuf},
           params : Buf \cup {NoBuf, Mixed}, cols : Buf \cup {NoBuf, Mixed},
           left : NoCursor..MaxResult]

TypeOK ==
  /\ alive \subseteq Utl
  /\ parBuf \in [Utl -> Buf \cup {NoBuf}]
  /\ resBuf \in [Utl -> Buf \cup {NoBuf}]
  /\ sql \in [Utl -> Sql]
  /\ prepared \in [Utl -> BOOLEAN]
  /\ rc \in [Utl -> {"none", "success", "allowed", "thrown", "noData",
                      "wrongBuffer", "terminate"}]
  /\ bound \in [Buf -> BOOLEAN]
  /\ occupied \in [Buf -> Nat]
  /\ drv \in [Utl -> Handle]
  /\ connected \in BOOLEAN

Init ==
  /\ alive = {}
  /\ parBuf = [u \in Utl |-> NoBuf]
  /\ resBuf = [u \in Utl |-> NoBuf]
  /\ sql \in [Utl -> Sql]
  /\ prepared = [u \in Utl |-> FALSE]
  /\ rc = [u \in Utl |-> "none"]
  /\ bound = [b \in Buf |-> FALSE]
  /\ occupied = [b \in Buf |-> 0]
  /\ drv = [u \in Utl |-> Fresh]
  /\ connected = TRUE

-----------------------------------------------------------------------------
(* Construction and destruction                                            *)

\* The buffers are members of the generated object: they are new with it
Renew(f, u, v) == [b \in Buf |-> IF b \in {OwnPar[u], OwnRes[u]} THEN v ELSE f[b]]

\* The object u is one of those that a client creates
Room(u) == Cardinality({v \in Utl : rc[v] # "none"} \cup {u}) <= MaxObjects

\* A constructed object: a new statement handle, nothing prepared
Construct(u, p, r, text) ==
  /\ alive' = alive \cup {u}
  /\ parBuf' = [parBuf EXCEPT ![u] = p]
  /\ resBuf' = [resBuf EXCEPT ![u] = r]
  /\ sql' = [sql EXCEPT ![u] = text]
  /\ prepared' = [prepared EXCEPT ![u] = FALSE]
  /\ drv' = [drv EXCEPT ![u] = Fresh]
  /\ rc' = [rc EXCEPT ![u] = "success"]

NotConstructed(u, why) ==
  /\ rc' = [rc EXCEPT ![u] = why]
  /\ UNCHANGED <<alive, parBuf, resBuf, sql, prepared, drv>>

\* The constructor the generator writes: utl(c, sql_), then set_par_buf and
\* set_res_buf with its own buffers.  The statement handle may be refused.
New(u) ==
  /\ u \notin alive /\ connected /\ Room(u)
  /\ \/ \E text \in Sql : Construct(u, OwnPar[u], OwnRes[u], text)
     \/ NotConstructed(u, "thrown")
  /\ bound' = Renew(bound, u, FALSE)
  /\ occupied' = Renew(occupied, u, 0)
  /\ UNCHANGED connected

\* utl::chk accepts no buffer but a parameter buffer
Accepts(b) == b = NoBuf \/ b \in Par

\* The constructor of four arguments passes both pointers through chk, after
\* the statement handle has been allocated
NewWithBuffers(u, p, r) ==
  /\ "explicitCtor" \in Usage
  /\ u \notin alive /\ connected /\ Room(u)
  /\ \/ /\ Accepts(p) /\ Accepts(r)
        /\ \E text \in Sql : Construct(u, p, r, text)
     \/ ~(Accepts(p) /\ Accepts(r)) /\ NotConstructed(u, "wrongBuffer")
     \/ NotConstructed(u, "thrown")
  /\ UNCHANGED <<buffers, connected>>

\* The constructor of three arguments, for a parameter or a result buffer,
\* passes its pointer through chk first: a result buffer is refused, and a
\* parameter buffer becomes the result buffer as well
NewWithBuffer(u, b) ==
  /\ "explicitCtor" \in Usage
  /\ u \notin alive /\ connected /\ Room(u)
  /\ \/ Accepts(b) /\ \E text \in Sql : Construct(u, b, b, text)
     \/ NotConstructed(u, IF Accepts(b) THEN "thrown" ELSE "wrongBuffer")
  /\ UNCHANGED <<buffers, connected>>

\* ~statement throws when the driver does not know the handle, and a
\* destructor that throws ends the program
Destroy(u) ==
  /\ u \in alive
  /\ alive' = alive \ {u}
  /\ rc' = [rc EXCEPT ![u] = IF connected THEN "success" ELSE "terminate"]
  /\ UNCHANGED <<parBuf, resBuf, sql, prepared, buffers, drv, connected>>

-----------------------------------------------------------------------------
(* Setters                                                                 *)

SetOccupied(b, n) ==
  /\ \E u \in alive : parBuf[u] = b
  /\ "overfullBatch" \notin Usage => n <= Size[b]
  /\ "smallerBatch" \notin Usage => n > 1
  /\ occupied' = [occupied EXCEPT ![b] = n]
  /\ UNCHANGED <<alive, parBuf, resBuf, sql, prepared, rc, bound, drv, connected>>

SetParBuf(u, b) ==
  /\ "swapBuffers" \in Usage /\ u \in alive
  /\ parBuf' = [parBuf EXCEPT ![u] = b]
  /\ UNCHANGED <<alive, resBuf, sql, prepared, rc, buffers, drv, connected>>

SetResBuf(u, b) ==
  /\ "swapBuffers" \in Usage /\ u \in alive
  /\ resBuf' = [resBuf EXCEPT ![u] = b]
  /\ UNCHANGED <<alive, parBuf, sql, prepared, rc, buffers, drv, connected>>

-----------------------------------------------------------------------------
(* exec                                                                    *)

\* The driver calls of exec in their order; the first that fails ends it
\* result columns are bound after the execution
DefectOrder == [parSize |-> 1, parPtr |-> 2, resSize |-> 3, resPtr |-> 4, prepare |-> 5,
                bindPar |-> 6, bindRes |-> 8, execute |-> 7, none |-> 9]

Order == [parSize |-> 1, parPtr |-> 2, resSize |-> 3, resPtr |-> 4, prepare |-> 5,
          bindPar |-> 6, bindRes |-> 7, execute |-> 8, none |-> 9]
Calls == DOMAIN Order \ {"none"}

\* (Defect...: faulty variants for the mutant runs, as in Connection.)
\* the failing call counts as done
DefectDone(s, f) == Order[s] <= Order[f]

Done(s, f) == Order[s] < Order[f]

\* a size is sent only when it differs from the driver's default; an off-by-one
DefectNeedsSize(n) == n > 2
NeedsSize(n) == n > 1

\* an empty text replaces the text of the statement
DefectText(u, t) == t
Text(u, t) == IF t = NoSql THEN sql[u] ELSE t

\* a new text does not reset is_prepared_
DefectAlreadyPrepared(u, t) == prepared[u]
AlreadyPrepared(u, t) == prepared[u] /\ Text(u, t) = sql[u]

\* The calls exec(t) makes when none fails
Makes(u, t) == {s \in Calls :
  CASE s = "parSize" -> parBuf[u] # NoBuf /\ NeedsSize(occupied[parBuf[u]])
    [] s = "parPtr"  -> parBuf[u] # NoBuf
    [] s = "resSize" -> resBuf[u] # NoBuf /\ NeedsSize(Size[resBuf[u]])
    [] s = "resPtr"  -> resBuf[u] # NoBuf
    [] s = "prepare" -> ~AlreadyPrepared(u, t)
    [] s = "bindPar" -> parBuf[u] # NoBuf /\ ~bound[parBuf[u]]
    [] s = "bindRes" -> resBuf[u] \notin {NoBuf, parBuf[u]} /\ ~bound[resBuf[u]]
    [] s = "execute" -> TRUE}

\* SQL_ATTR_ROWS_FETCHED_PTR is not set
DefectSent(u, t, s, f, new, old) ==
  IF s # "resPtr" /\ s \in Makes(u, t) /\ Done(s, f) THEN new ELSE old

\* What the driver has of the call s when f failed
Sent(u, t, s, f, new, old) == IF s \in Makes(u, t) /\ Done(s, f) THEN new ELSE old

\* A failed prepare may have replaced the text the handle had; a failed
\* binding may have bound the first columns
StmtAfter(u, t, f) ==
  IF f = "prepare" THEN {NoSql, Text(u, t)}
                   ELSE {Sent(u, t, "prepare", f, Text(u, t), drv[u].stmt)}
BindingAfter(u, t, s, f, new, old) ==
  IF f = s THEN {old, Mixed} ELSE {Sent(u, t, s, f, new, old)}

\* A buffer binds parameters or columns by its own type, whatever the query
\* object takes it for
ParamsAfter(u, t, f) ==
  LET params == BindingAfter(u, t, "bindPar", f, parBuf[u], drv[u].params) IN
    IF resBuf[u] \notin Par THEN params
    ELSE UNION {BindingAfter(u, t, "bindRes", f, resBuf[u], old) : old \in params}
ColsAfter(u, t, f) ==
  IF resBuf[u] \in Par THEN {drv[u].cols}
                       ELSE BindingAfter(u, t, "bindRes", f, resBuf[u], drv[u].cols)

\* A query opens a cursor, also when execution ends with a warning; the
\* driver refuses to execute or prepare while one is open.  Nothing is known of
\* the text of an object whose result buffer is not the generated one
Opened(u) == IF resBuf[u] # OwnRes[u] THEN NoCursor..MaxResult
             ELSE IF resBuf[u] = NoBuf THEN {NoCursor} ELSE 0..MaxResult
CursorAfter(u, f) ==
  CASE f = "none"    -> Opened(u)
    [] f = "execute" -> IF drv[u].left = NoCursor THEN Opened(u) \cup {NoCursor}
                                                  ELSE {drv[u].left}
    [] OTHER         -> {drv[u].left}

DriverAfter(u, t, f) ==
  {[stmt     |-> s,
    paramset |-> Sent(u, t, "parSize", f, occupied[parBuf[u]], drv[u].paramset),
    status   |-> Sent(u, t, "parPtr", f, parBuf[u], drv[u].status),
    rowArray |-> Sent(u, t, "resSize", f, Size[resBuf[u]], drv[u].rowArray),
    fetched  |-> Sent(u, t, "resPtr", f, resBuf[u], drv[u].fetched),
    params   |-> p,
    cols     |-> c,
    left     |-> n] :
     s \in StmtAfter(u, t, f), n \in CursorAfter(u, f),
     p \in ParamsAfter(u, t, f), c \in ColsAfter(u, t, f)}

\* statement::prepare: set_sql, then is_prepared_ from the driver's answer
PreparedAfter(u, t, f) ==
  IF "prepare" = f \/ Done("prepare", f) THEN f # "prepare" ELSE prepared[u]
SqlAfter(u, t, f) ==
  IF "prepare" = f \/ Done("prepare", f) THEN Text(u, t) ELSE sql[u]

\* bind_ is set before the attributes are bound
DefectBoundAfter(u, t, f) ==
  {b \in Buf : \/ bound[b]
               \/ b = parBuf[u] /\ Order["bindPar"] <= Order[f]
               \/ b = resBuf[u] /\ Order["bindRes"] <= Order[f]}

\* bind_ is set when every attribute of the buffer is bound
BoundAfter(u, t, f) ==
  {b \in Buf : \/ bound[b]
               \/ b = parBuf[u] /\ Done("bindPar", f)
               \/ b = resBuf[u] /\ Done("bindRes", f)}

Exec(u, t, f) ==
  /\ u \in alive /\ connected
  /\ f \in Makes(u, t) \cup {"none"}
  /\ drv[u].left # NoCursor => f # "none"
  /\ drv[u].left # NoCursor /\ "prepare" \in Makes(u, t) => ~Done("prepare", f)
  /\ drv' \in {[drv EXCEPT ![u] = d] : d \in DriverAfter(u, t, f)}
  /\ sql' = [sql EXCEPT ![u] = SqlAfter(u, t, f)]
  /\ prepared' = [prepared EXCEPT ![u] = PreparedAfter(u, t, f)]
  /\ bound' = [b \in Buf |-> b \in BoundAfter(u, t, f)]
  /\ \E r \in IF f = "none" THEN {"success"} ELSE {"allowed", "thrown"} :
       rc' = [rc EXCEPT ![u] = r]
  /\ UNCHANGED <<alive, parBuf, resBuf, occupied, connected>>

-----------------------------------------------------------------------------
(* fetch                                                                   *)

Rows(u) == IF drv[u].rowArray < drv[u].left THEN drv[u].rowArray ELSE drv[u].left

\* The driver writes the number of rows through the pointer it was given
Fetched(u, n, left, r) ==
  /\ occupied' = IF drv[u].fetched = NoBuf THEN occupied
                 ELSE [occupied EXCEPT ![drv[u].fetched] = n]
  /\ drv' = [drv EXCEPT ![u].left = left]
  /\ rc' = [rc EXCEPT ![u] = r]

\* A block of rows; a warning is reported like an error
FetchRows(u) ==
  /\ drv[u].left > 0
  /\ \E r \in {"success", "allowed", "thrown"} :
       Fetched(u, Rows(u), drv[u].left - Rows(u), r)

\* The end of the result set; the driver may keep the cursor open
FetchEnd(u) ==
  /\ drv[u].left = 0
  /\ \E left \in {0, NoCursor} : Fetched(u, 0, left, "noData")

FetchFails(u) ==
  /\ \E r \in {"allowed", "thrown"} : rc' = [rc EXCEPT ![u] = r]
  /\ UNCHANGED <<occupied, drv>>

Fetch(u) ==
  /\ u \in alive /\ connected
  /\ resBuf[u] # NoBuf
  /\ FetchRows(u) \/ FetchEnd(u) \/ FetchFails(u)
  /\ UNCHANGED <<alive, parBuf, resBuf, sql, prepared, bound, connected>>

FetchWithoutBuffer(u) ==
  /\ u \in alive
  /\ resBuf[u] = NoBuf
  /\ rc' = [rc EXCEPT ![u] = "thrown"]
  /\ UNCHANGED <<alive, parBuf, resBuf, sql, prepared, buffers, drv, connected>>

-----------------------------------------------------------------------------
(* The connection (see Connection)                                         *)

\* commit keeps the cursors the driver holds; rollback closes all
EndTran ==
  /\ connected
  /\ \E held \in SUBSET {u \in alive : drv[u].left # NoCursor} :
       drv' = [u \in Utl |-> IF u \in held THEN drv[u] ELSE [drv[u] EXCEPT !.left = NoCursor]]
  /\ UNCHANGED <<alive, parBuf, resBuf, sql, prepared, rc, buffers, connected>>

Disconnect ==
  /\ connected
  /\ alive = {} \/ "outliveConnection" \in Usage
  /\ connected' = FALSE
  /\ UNCHANGED <<alive, parBuf, resBuf, sql, prepared, rc, buffers, drv>>

Reconnect ==
  /\ ~connected /\ alive = {}
  /\ connected' = TRUE
  /\ UNCHANGED <<alive, parBuf, resBuf, sql, prepared, rc, buffers, drv>>

-----------------------------------------------------------------------------

Setters == \/ \E b \in Par, n \in Batches : SetOccupied(b, n)
           \/ \E u \in Utl, b \in Par \cup {NoBuf} : SetParBuf(u, b)
           \/ \E u \in Utl, b \in Res \cup {NoBuf} : SetResBuf(u, b)

Lifetime == \/ \E u \in Utl : New(u) \/ Destroy(u)
            \/ \E u \in Utl, p, r \in Buf \cup {NoBuf} : NewWithBuffers(u, p, r)
            \/ \E u \in Utl, b \in Buf \cup {NoBuf} : NewWithBuffer(u, b)

Query == \/ \E u \in Utl, t \in Sql \cup {NoSql}, f \in DOMAIN Order : Exec(u, t, f)
         \/ \E u \in Utl : Fetch(u) \/ FetchWithoutBuffer(u)

\* Nothing runs after std::terminate
Running == \A u \in Utl : rc[u] # "terminate"

Next == Running /\ (\/ Lifetime \/ Setters \/ Query
                    \/ EndTran \/ Disconnect \/ Reconnect)

Spec == Init /\ [][Next]_vars

-----------------------------------------------------------------------------
(* Properties                                                              *)

\* When the statement believes its text is prepared, the driver has prepared
\* that text, across failed calls and changes of the text (statement.cpp:75-96,
\* 160-169)
PreparedIsCurrent ==
  \A u \in alive : prepared[u] => drv[u].stmt = sql[u]

\* The buffer's flag bind_ does not lie about the handle of its query object
\* (dbgen3_templ.hpp:436-440, 484)
BoundIsCurrent ==
  \A u \in alive :
    /\ parBuf[u] # NoBuf /\ bound[parBuf[u]] => drv[u].params = parBuf[u]
    /\ resBuf[u] # NoBuf /\ bound[resBuf[u]] => drv[u].cols = resBuf[u]

\* As long as a cursor is open, its rows and their number go to the result
\* buffer of the object, and never more rows than the buffer holds
\* (dbgen3_templ.hpp:582-592, 617-627)
CursorFillsBuffer ==
  \A u \in alive : drv[u].left # NoCursor =>
    /\ drv[u].cols = resBuf[u]
    /\ drv[u].fetched = resBuf[u]
    /\ drv[u].rowArray <= Size[resBuf[u]]

\* The rows of the parameter buffer a client asked to have processed
Requested(u) ==
  IF parBuf[u] = NoBuf \/ occupied[parBuf[u]] = 0 THEN 1 ELSE occupied[parBuf[u]]

\* An exec that succeeds has run the requested text with exactly the occupied
\* rows ("set parameter buffer size", dbgen3_templ.hpp:547)
ExecRunsRequestedRows ==
  [][\A u \in Utl, t \in Sql \cup {NoSql} : Exec(u, t, "none") =>
       drv'[u].paramset = Requested(u) /\ drv'[u].stmt = Text(u, t)]_vars

\* An exec that succeeds has read the parameters from the attached buffer and
\* reported their status to it ("prepare and bind the sql statement to
\* buffer(s)", dbgen3_templ.hpp:535-536)
ExecUsesAttachedBuffers ==
  [][\A u \in Utl, t \in Sql \cup {NoSql} : Exec(u, t, "none") /\ parBuf[u] # NoBuf =>
       drv'[u].params = parBuf[u] /\ drv'[u].status = parBuf[u]]_vars

\* A fetch that succeeds tells the client, through rows_read, exactly how many
\* rows it moved out of the result set (dbgen3_templ.hpp:582-592)
RowsReadExact ==
  [][\A u \in Utl : Fetch(u) /\ rc'[u] = "success" =>
       occupied'[resBuf[u]] = drv[u].left - drv'[u].left]_vars

=============================================================================
