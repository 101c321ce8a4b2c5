# dbgen3 in TLA+

dbgen3 generates C++ classes for embedded SQL. A user writes queries into a
`.gsql` file (XML); the generator asks a DB2 database what parameters and
columns each query has, and writes one header per file; a client program
includes the header and runs the queries through a small runtime library.

This directory models the runtime library and the generator. The modules are
translated from the C++ under `src/src/`; each operator keeps the name of the
function it stands for where TLA+ allows it, and `PROJECT.json` lists, for each
definition, the lines it models.

## 1. The system

```
 .gsql files      enum RDBMS, options                      DB2
     |                   |                                  ^
     v                   v                                  | ODBC
  core_parser <---- executor/main ----> db2_reader ---> db::connection, db::statement
     |  load_sql_set_sql -> gsql_sql_set::put                ^
     v                                                       |
  gsql_q_set -> gen_cpp -> header --(included by)--> client: db::utl, db::buffer_root
```

| component | state it keeps | operations | status |
|---|---|---|---|
| database connection (`runtime/connection.cpp`) | `db_handle_` per object; the statics `henv_`, `henv_ref_cnt_` | constructor, destructor, `commit`, `rollback` | `Connection`, `SharedEnv` |
| driver diagnostics (`runtime/error*.cpp`) | none between calls | `error::load`, `throw_on_error`, `handle_return_code` | how a failing call ends, in `Connection`; a warning, in `Attr` |
| statement (`runtime/statement.cpp`) | the handle, `sql_`, `is_prepared_` | constructor, destructor, `prepare`, `exec`, `fetch_scroll`, `set_stmt_attr` | `Utl`, and in part `Generator` |
| query object and buffers (`runtime/dbgen3_templ.hpp`) | `par_buf_`, `res_buf_`; per buffer `bind_`, `occupied_`; the values in the attributes | constructors, `exec`, `fetch`, the getters and setters | `Utl`; the values: `Attr`, `RowStore` |
| choice of the SQL statement (`gsql_parser/gsql_sql_set.cpp`) | the statement kept so far, `empty_` | `put` | `SqlSet` |
| generator run (`main.cpp`, `core/executor.cpp`, `gsql_parser/core_parser.cpp`) | the query set, the output stream, the reader's session | `process_files`, `parse_file`, `load_q`, `load_q_sqlset_from_db`, the handlers | `Generator` |
| command line, exit status | parameters; `P_STS` | `check_parameters`, `--grammar`, `--types` | a step, an input and the codes of `Generator` |
| query and buffer descriptions (`gsql_q`, `gsql_qbuf_dscr`, `fld_dscr`) | ids, columns, field descriptions | set while parsing, read while generating | `Header` |
| C++ code generator (`gen/gen_cpp.cpp`) | the text written so far | `gen_file` and what it calls | `Header`; when it runs and throws in `Generator` |
| type catalogue (`runtime/odbc_db.*`) | a constant table | look-up | what a missing entry does, in `Generator` |
| XML syntax and grammar | - | validation, by Xerces | a document is valid or not, in `Generator` |
| multi line text (`utility_classes/multi_line.cpp`) | - | removes blank lines and common indentation, joins lines | `MultiLine`, used by `Header` |
| formatting and logging | - | output layout | not modelled |

**Interactions.** Everything is a direct call. Connection objects of all threads
share `henv_` and `henv_ref_cnt_`. A query object holds a connection by
reference and a statement by value, and points to buffers that, in generated
code, are its own members; the driver holds pointers into those buffers. The
parser uses one connection for the whole run and two statements per query. A
failing driver call turns into an exception; the handlers on the way to `main`
decide what remains of the work and which status the process has.

**What is hard.**

- *Interleaving.* The counter is atomic, but testing it, allocating the
  environment and storing the handle are three steps, and releasing is another.
- *Caches of the driver's state.* `is_prepared_` and `sql_` in the statement,
  `bind_` in the buffer, the paramset size in the driver: each is only right if
  every path that changes one side changes the other.
- *Partial failure.* Any driver call may fail. A constructor must undo exactly
  what it did; `exec` is a chain of up to eight calls; a file may fail after
  headers for earlier files were written; the code that reports an error may
  fail itself (`error.cpp:78`).
- *Order.* The `<sql>` elements of a query come in any order; which handler
  meets an exception first decides the exit status.
- *Names.* Six functions of the generator form the same C++ names
  independently; a document and the database bring further names.
- *Sizes.* An attribute has an array and a length that client and driver write
  in turn; the array of a string is one character longer than the column, that
  of a decimal shorter than its text may be, the length of a truncated value
  larger than the array, and that of a null row negative. Getters look at none
  of this.
- *One text, two readings.* The generator describes a statement in one line and
  the client executes it in many.

The hazards, with lines and the properties that cover them, are listed in
`PROJECT.json`.

**What makes each component correct.** A *connection* uses a handle of its own,
joins an existing environment, and leaves nothing behind. A *statement and its
query object* tell the truth about the driver's handle, execute the text, the
rows and the buffers the client asked for, and report the rows that were read.
An *attribute* hands on the values it was given, whole or cut where its column
ends, and keeps what the driver wrote readable. The *choice* is the first statement for the target, else the first generic one,
whatever the order, and refuses duplicates only. A *run* writes the headers its
documents stand for, in order, blames the right defect, starts each query
outside a transaction, gives its session back and ends. A *header* declares
each name once and before its use, each accessor leads to its own column, and
the statement in it is the one that was described.

## 2. Modules

| module | extends / instantiates | role |
|---|---|---|
| `SharedEnv` | | abstract: one environment shared by its users |
| `Connection`, `MCConnection` | `Connection` instantiates `SharedEnv` with a refinement mapping | the connection objects, one step per access to a static or the driver; symmetry for TLC |
| `ConnectionProofs`, `SharedEnvProofs` | `Connection`, `FiniteSetTheorems`, `TLAPS` | four theorems for any threads and failures; three for one thread, with the refinement |
| `Utl` | | query object, statement, buffers and the driver's handle |
| `MCUtl`, `UtlProofs` | `Utl` | instances for TLC; seven theorems |
| `RowStore` | | abstract: rows a client sets, stores and reads back |
| `Attr`, `MCAttr` | `Attr` instantiates `RowStore` with a refinement mapping | the values in the attributes of two buffers; the values TLC tries |
| `AttrProofs` | `Attr`, `SequenceTheorems`, `TLAPS` | four theorems: types, views, rows that stay readable, and the refinement |
| `SqlSet`, `MCSqlSet`, `SqlSetProofs` | | choice of the statement; instance; four theorems |
| `Generator` | `Connection` and `SqlSet` as instances `C` and `S` | one run of the generator |
| `MCGenerator` | `Generator` | the documents TLC tries |
| `GeneratorProofs` | `Generator`; `SharedEnvProofs` and `SqlSetProofs` as instances `CP` and `SP` | seven theorems about the run |
| `MultiLine` | | operators: what `multi_line` makes of a text |
| `Header`, `MCHeader` | `Header` extends `MultiLine` | the declarations and statements of a generated header; the query sets TLC tries |
| `TextProofs` | `Header`, `SequenceTheorems`, `WellFoundedInduction`, `TLAPS` | lemmas: what the operators on texts compute, for any text |
| `HeaderProofs` | `TextProofs` | five theorems about the header, and four about the two invariants they rest on |

Operators whose names begin with `Defect` are faulty variants of the definition
below them (a dropped guard, an off-by-one, a missing reset). They take no part
in any specification; `PROJECT.json` names for each property one of them that
makes TLC report a violation of that property.

### Connection

A value of `Conn` is a program variable that holds a `db::connection` now and
then. `pc[c]` is the place in its constructor or in `close_connection`; `henv`
and `refcnt` are the statics; `envs`, `parent` and `session` are what the driver
knows. Constructor steps: `New` (the test of the counter), `AllocEnv`,
`StoreEnv`, `SetEnvAttr`, `AllocDbc`, `AddRef`, `Connect`, `Autocommit`. Closing
steps: `Disconnect`, `DropRef`, `FreeDbc`, `FreeEnv`, entered by `CloseEntry`,
which skips to the environment when there is no connection handle. Any call may
fail: `Unwind` is the `error_exception` that the constructor's handler catches
to close what it opened, `Escape` the `std::runtime_error` of `error::load`
that nothing catches. The driver is external: it refuses to disconnect inside a
transaction, to free a connected handle and to free an environment that has
connections; the first two rules are the ones `close_connection` relies on when
it ignores return codes, the last the one that makes its unconditional release
of the environment harmless. `Serial` restricts the model to one thread;
`EndsTran` says that clients end transactions before destroying an object;
`DiagFits` that no diagnostic exceeds the buffer of `error::load`. `refcnt` is
an unsigned integer that wraps at `MaxUInt`; `WidthAssumption` says that there
are not that many objects and handles. `set_conn_attr` and the accessors change
nothing modelled.

`SharedEnv` is the contract: at most one environment, created when there is
none, joined only while it exists, released when nobody uses it (`SafeSpec`),
and an unused one is eventually released or joined (`Settling`).

### Utl

`alive`, `parBuf`, `resBuf`, `sql`, `prepared` are the C++ side, `bound` and
`occupied` live in the buffers, `drv[u]` is the driver's statement handle: its
text, the paramset size, the pointer for parameter status, the row array size,
the pointer for rows fetched, the buffers bound to parameters and columns, and
the rows left under the cursor. `Exec(u, t, f)` is the whole of `utl::exec`:
the calls in `Order`, of which those in `Makes` are made and `f`, if not
`"none"`, is the one that fails; everything before `f` has taken effect,
nothing after it has, and `f` itself may have taken effect in part (`Mixed`: some
columns bound). `Fetch` writes the number of rows through the pointer the
driver has. A parameter buffer binds parameters and a result buffer columns
whichever of the two the object takes it for (`ParamsAfter`, `ColsAfter`).

`Usage` lists what clients may do beyond the generated code and the example
programs: pass a batch of one or none after a larger one (`"smallerBatch"`),
or one larger than the buffer, which `set_occupied` does not check
(`"overfullBatch"`), attach other buffers (`"swapBuffers"`), call a constructor
that takes buffers (`"explicitCtor"`), destroy a query object after its
connection (`"outliveConnection"`). `New` is the constructor the generator
writes, `NewWithBuffer` the one of three arguments, `NewWithBuffers` the one of
four; in each of them the statement handle may be refused.

### Attr

One column, an attribute for it in a parameter buffer and one in a result
buffer. `parData`, `parLen`, `resData`, `resLen` are `data_` and `len_`;
`width` is `sizeof(T)` as the generator writes it for each kind of column.
`set_value` is what `s_T`, `s_cstr` and `s_bstr` do. `value` is what the getters
return, whatever the row holds: the cell of an atomic, and of any other kind a
view of `el_size` characters, in which a character beyond the array is
`Outside`. `el_size` casts the length to a `size_t`, of which there are `SizeT`,
so that the view of a null row is the longest there is. `row` is what a client
sees that asks `is_null` first, and what the driver takes from a parameter row.
`Insert` is an `exec` that stores the rows, `Select` one that opens a cursor;
`FetchBlock`, `FetchEnd` and `FetchFails` are `fetch` and what the loop of the
tests (`while (q.fetch() == SQL_SUCCESS)`) does with it. `asked` and `moved` are
history: what a client last set in each parameter row, and what the driver last
moved into each result row. The driver is external: it refuses a row that is
longer than the column, and may refuse one longer than `bind_par` declares; it
cuts what does not fit and reports the full length with a warning, which
`handle_return_code` (`Answers`) turns into an exception or into a code the
document allows.

`Usage` lists two things that the code lets a client do and that `RowStore` does
not allow: set a decimal with a sign, a point and all digits
(`"fullDecimal"`), and set a row from a view of a part of itself
(`"partOfItself"`). `AttrRows` has neither; with either, TLC finds
`ImplementsRowStore` violated, as section 5 describes.

Left out on purpose: each insert is the first execution of its query object
(`Utl` is about the later ones); an array is inserted as a whole or not at all,
DB2's default; a result set does not change while it is read; a client fills
rows outside its reading loop and copies inside it, and copies from rows that
are not null, and from the result buffer after `SQL_SUCCESS` only: what another
client finds behind a view that leaves the array is undefined.

`RowStore` is the contract: rows are stored in order as they were set, whole or
cut to the length of the longest value that a column of their kind holds, which
for a decimal is its digits, a sign and a point; a loop sees the rows of the
table in order, each once, until it ends (`SafeSpec`), and it does end
(`LoopEnds`).

### SqlSet

`Load(k)` is `load_sql_set_sql` for one element; `kept` is the position in the
document of the statement the set keeps, `Ambiguous` and `Put` are the two
branches of `gsql_sql_set::put`.

### Generator

One state machine for `main`, `process_files`, `parse_file` and what they call:
`step` is the program counter; `qset`, `stream`, `headers` are the query set,
whether `hpp_file_` is open and the output folder. The reader's connection is
an instance of `Connection` with one object, so that a constructor that fails
and a destructor while the stack unwinds run their real steps; the choice of a
statement is an instance of `SqlSet`. `Throw(s)` is an exception that `main`
turns into status `s`. `Faults` names what may fail besides connecting. Two of
them end in a handler of `parse_file` that returns an empty query set: an
unknown column type while a query is described, and an exception of the XML
library, which the model has where the document is parsed.
`command` is `--grammar` or `--types`, which display a text and leave, or the
translation. `stem` gives each file the header it is translated to, which is
the same for files of the same name.

### Header

The text is a sequence of declarations `[scope, name, of, sig, needs, body, text]`:
the scope it stands in, the field it is about, its parameters if it is a
function, the names that must be declared above it, the names its body
uses, and, for the statement, its text. `BeginQuery`, `GenBuf`, `GenUtl` and `EndFile` are the parts of
`gen_file`; one operator stands for each function that writes declarations.
Comments, include lines, the custom header and the layout are left out, except
for the one length computation that can throw.

The statement of a query is a sequence of characters. `MultiLine` has the
functions of `multi_line.cpp`: `to_vec` splits a text, drops the blank lines
around it and the indentation its lines have in common, `one_line` joins the
lines. `sql` is what the database gets to describe, `sql_text` what stands
between the delimiters of the raw string in the header. `Words`, of the
properties, says how a database reads a text.

## 3. What the runs check

| run | instance | shows |
|---|---|---|
| `ConnSerial` | 3 objects, 2 environments, 3 handles; one thread; fairness | `NothingLeaked`, `NoStaleEnvironment`, `HenvKept`; `ImplementsSharedEnv`: the two statics implement `SharedEnv`; `EnvironmentSettled`: an environment whose last user is gone is released or joined |
| `ConnThreads` | 3 threads, 3 environments, 3 handles, symmetric; every call fails, diagnostics overflow, transactions left open | `TypeOK`, `RefCntExact`, `ExclusiveHandles` |
| `UtlQueries` | a query with 3 parameter rows and a result buffer of 2 rows or of 1, batches of 2 and 3, results of up to 3 rows, two interchangeable texts; used as generated code and examples do (7,326 states) | `BoundIsCurrent`, `CursorFillsBuffer`, `RowsReadExact`, `ExecRunsRequestedRows`, `ExecUsesAttachedBuffers` |
| `UtlAnyClient` | the query of 2 result rows with every `Usage`, batches of 1 and of 4 in a buffer of 3 rows, results of up to 1 row (583,730 states) | `TypeOK`, `PreparedIsCurrent` |
| `AttrRows` | a column of one character of the four kinds, buffers of two rows, values of 0 to 3 characters, a table of up to 3 rows (342,141 states); fairness | `TypeOK`; `ViewsInside`: no view leaves its array but those of null rows and of truncated ones, which `is_null` and the return code of `fetch` tell apart; `LastRowsReadable`: a row reads as what was last moved there; `ImplementsRowStore`: what a client sets is what the table keeps and a loop reads; `LoopEnds` |
| `SqlSetOrders` | the five kinds of `enum RDBMS`, up to 5 elements in every order | `BestKept`, `TargetUnique`, `RefusalJustified` |
| `GenDocuments` | two files of different or the same name, each one of 52 documents; connecting and generating a header fail (600,660 states) | `HeadersInOrder`, `FirstDefectReported`, `QueriesStartClean`, `ReaderReleased` |
| `GenFaults` | two files, five documents, all faults; fairness | `TypeOK`, `RejectedFileHasNoHeader`, `Terminates` |
| `HeaderNames` | buffers of 0 to 2 fields of every kind, skipped, renamed, clashing; statements of up to 7 characters (letter, blank, line end) and up to 5 with quotes and comments (69,825 states) | `UsesResolved`, `NoRedefinition`, `AccessorsReachTheirColumn`, `DescribedIsExecuted`, `LayoutKept` |

Three runs end in a violation, because the code does something else than it says:

- `UtlStaleRows`, `ExecRunsRequestedRows`: the paramset size is sent only when
  it exceeds one, so after a batch an `exec` of one row executes the earlier
  batch again (`dbgen3_templ.hpp:606`).
- `GenSwallowed`, `SuccessMeansTranslated`: a column type without an entry in
  `db::dscr_` ends in a `std::logic_error`, which the last handler of
  `parse_file` logs; an empty header is written and status 0 returned
  (`core_parser.cpp:455`).
- `HeaderLongId`, `RemarkWritten`: for a query without a statement whose id has
  more than 26 characters the padding of a comment is computed below zero in an
  unsigned type, and the program ends with status 255 (`gen.cpp:36`).

### Bounds

- *Connection.* Three objects let two overlap while a third opens or closes,
  which is what the counter, the release and the loss of a handle need; two
  objects cannot show a release between two others. Two environments suffice
  for one thread, since the first is gone before the second exists; three
  threads can hold three.
- *Utl.* Buffers of different sizes, batches below and at the size, and result
  sets shorter than, equal to and one longer than the result buffer are the
  boundaries of the two `> 1` tests and of the last block; a result buffer of one
  row is the case in which no row array size is sent. Objects share nothing but
  the connection, so that one object at a time is enough: `MaxObjects` bounds the
  variables of a run that ever hold a query object. The theorems hold for any
  number of objects and of `MaxObjects`. What `UtlAnyClient` checks depends on no
  result set, whose bound is one row there.
- *Attr.* With a column of one character, values of none, one, two and three
  characters are shorter than the column, fill it, fill the array of a string
  and exceed it, and fit and exceed the array of a decimal, whose column holds
  the longest of them; two rows of a buffer make a full block, a last block that is not full and rows the last block leaves
  alone; three rows of the table take two blocks. Eight values of a `size_t` make the
  view of a null row longer than any array.
- *SqlSet.* Five elements are more than the three states the set can be in
  (empty, generic, specific) with a duplicate in each; `MaxElements` bounds the
  document only, and the theorems hold for every value.
- *Generator.* Two files make an earlier and a later one; three statements of a
  query and two queries of a file cover every pair that can clash.
- *Header.* Two fields, two buffers and two queries are the least in which
  positions, parts and namespaces can be confused; every field kind is tried
  in both places. Seven characters are three indented lines, or two with a blank
  one between them; five hold an open literal or a comment before a line end.

### Fairness

`Connection!FairSpec` is weak fairness, per object, of the steps inside a
constructor or destructor: the scheduler runs every thread on and the driver
returns. Clients need not act, so nothing is assumed of `New`, `BeginWork`,
`EndTran` and `Destroy`. `Generator!FairSpec` is weak fairness of the next step
of the only thread. `Attr!FairSpec` is weak fairness of a fetch that succeeds
or finds the end: a client in its loop goes on, and the driver answers.
`SharedEnv` and `RowStore` state fairness of their own; `EnvironmentSettled` and
`LoopEnds` are that fairness under the refinement mapping, and the runs show
that it follows from the code's. `Utl`, `SqlSet` and `Header` promise nothing
live, and their runs assume none.

Runs say `CHECK_DEADLOCK FALSE` where the program stops: a generator run that
has ended, a document without further elements, a header that is complete, a
client that destroyed a query object after its connection. In the other runs of
`Connection` and `Utl`, and in that of `Attr`, something can always happen and deadlock is checked.

## 4. What is proved

The theorems hold for every value of the constants that satisfies the named
assumptions of the modules. Those are conditions on the types of the constants,
finiteness, the width of the counter, that two query objects do not own the
same buffer, and that the generic kind is the first of the enum; TLC evaluates
each of them in a run. A theorem that needs a client or an environment to behave
has this as a premise. A passing run meets the premises, except those of
`SuccessIsTrue`, which sharpens a run that fails; the text says what goes wrong
without them.

### Connections

- `ConnectionProofs!TypeCorrect`. In particular the counter stays in its width.
- `ConnectionProofs!HandlesExclusive`: `Spec => []ExclusiveHandles`, for threads
  and failures of any kind. `ExclusiveHandles` is not inductive: the strengthening
  `Ownership` adds that lost handles stay allocated, so that they are not handed
  out again, and that an object has no handle before `AllocDbc` succeeds, on
  which `CloseEntry` relies.
- `ConnectionProofs!RefCntCorrect`: `Spec => []RefCntExact`. Each step either
  moves one object across the border of `Counted` together with the counter or
  exchanges it for a lost handle; `CountedCardinality` bounds the sum by the
  width and so excludes a wrap.
- `ConnectionProofs!EnvironmentCurrent`: `Spec => []NoStaleEnvironment`.
  `CurrentEnv` says why a counter may stand in for a handle: in one thread
  (`Alone`), everything it counts is a connection of the environment `henv_`
  names, which the driver therefore does not release; `ZeroCount` connects
  the number with the sets.
- `SharedEnvProofs!HenvNeverOrphans`: `Spec => HenvKept` for one thread and
  clients that end their transactions, also when diagnostics overflow.
  `HandlesKept` follows the session of every handle: each allocated handle
  belongs to an object or was lost, one that is about to be freed is not
  connected, and one that is about to be disconnected is in no transaction. So
  the driver never refuses, and a counter of zero means that no connection
  handle is left.
- `SharedEnvProofs!NothingIsLeaked`: `Spec => []NothingLeaked` when diagnostics fit
  as well (without that, `Escape` loses a handle). `Tidy` adds `OneEnv`: there is
  no environment but the one `henv_` names or is about to name, and none at all
  when no object is alive and none is being constructed or destroyed.
- `SharedEnvProofs!RefinesSharedEnv`: under the same premises `Spec =>
  ImplementsSharedEnv`. The users of the contract are the objects that hold an
  allocated handle; successful steps `AllocEnv`, `AllocDbc`, `FreeDbc` and `FreeEnv`
  are `Create`, `Join`, `Leave` and `Release`, everything else is a stutter.

The premise on transactions is used only as `EndsFirst` (this step destroys no
object inside a transaction), so that `GeneratorProofs` can supply it from what
the program does instead of from the constant `EndsTran`.

### Query objects

- `UtlProofs!TypeCorrect`, and `PreparedIsTrue`: `Spec => []PreparedIsCurrent`
  whatever the client does. The invariant is inductive with `TypeOK`; the work
  is in `Exec`, where the flag follows the same call as the handle.
- `UtlProofs!BindingIsTrue`: `BoundIsCurrent` under `KeepsOwn` (no client attaches
  other buffers). The premise is necessary: the flag is kept in the buffer and
  says nothing of which handle it was bound to. `OwnAttached` adds that the
  attached buffers are the object's own.
- `UtlProofs!RowsStayInBuffer`: `Spec => []CursorFillsBuffer` under `KeepsOwn`. The
  property speaks of open cursors, and the row array is sent in any `exec`, so
  `FetchSet` follows it also while there is no cursor, and knows that a cursor is
  open on a bound buffer only. `RowsReadTrue` (`RowsReadExact`) and
  `ExecReadsAttached` (`ExecUsesAttachedBuffers`), which are about steps, follow
  from the same invariant `Fetching`.
- `UtlProofs!ExecRunsBatch`: `ExecRunsRequestedRows` for clients that never make a
  batch smaller, by `BatchSent`: while a buffer asks for one row or none, the
  paramset of the handle is one. `UtlStaleRows` refutes it without the premise.

### Attributes

- `AttrProofs!TypeCorrect`, `NoViewOutside` (`Spec => []ViewsInside`) and
  `RowsReadable` (`Spec => []LastRowsReadable`) hold for columns, buffers and tables
  of any size and for every `Usage`. The invariant `Faithful` says what the arrays
  mean. `Params`: a parameter row is null when the client set none, and else
  the view of a value that fits the array (`KeptRow`). `Reader`: each row of the
  result buffer `Holds` what was moved there, whose length is the indicator and
  whose characters are in the array if it fitted; after a success each row of the
  block fitted. `FetchedRows` is the step that matters: the driver overwrites the
  rows of one block and leaves the others, whatever `fetch` answers.
- `AttrProofs!RefinesRowStore`: `Spec => ImplementsRowStore`, for all four kinds of
  attribute, with the premise `Usage = {}`. A parameter row is then what was asked
  for, cut to the array, and an insert stores a `Cut` of what was asked; the
  driver refuses what is longer than the column, so that a value that is stored
  cut is as long as the longest one of its column. That is where a full decimal,
  whose array is shorter than its column, breaks the contract. A block is a
  beginning of what is left, read row by row; that only the last block may be
  short, which the end of the loop rests on, is a part of `Reader`.

### Choice of the statement

- `SqlSetProofs!TypeCorrect`, `BestStatementKept`, `DuplicatesOfTarget`,
  `RefusalIsJustified`: for
  documents of any length and any set of databases. `KeepsBest` is the
  strengthening: what is kept is the first of its kind, and of the target's kind
  as soon as there is one. The only fact used about the enum is that the generic
  kind comes first.

### Generator runs

`GeneratorProofs` instantiates the proofs of the parts: every step of the
program is a step of its one connection or leaves it alone (`ConnStep`), so that
`Ownership` and `Tidy` can be taken from there, and every `LoadSql` is a `Load` of
`SqlSet`. Documents, the number of files, their names and the handles are
arbitrary.

- `TypeCorrect`: `Spec => []TypeOK`, by `Typed`, which adds what the headers and the
  query set are made of and `Place`: inside a query the statements read are those of
  the document, so that the next one exists.
- `QueriesAreClean`: `Spec => []QueriesStartClean` when `SQLEndTran` works and every
  column type is known. `Session` says in which steps the reader is open, `Clean`
  that only `describe`, `rollback` and `close` may find a transaction. Without the
  premise on `"rollback"` the ignored return code leaves the transaction open;
  without the one on `"unsupported"` the handler skips the rollback.
- `ReaderIsReleased`: `Spec => []ReaderReleased`, when describing works as well
  and diagnostics fit. `CleanEnd` says that the stack is never unwound inside a
  transaction, which gives `EndsFirst`; `TidyLeaksNothing` then does the rest. An
  error while describing does unwind inside the transaction, see section 5.
- `RejectedHasNoHeader`: `Spec => []RejectedFileHasNoHeader`, whatever fails.
  `Chosen` carries `KeepsBest` and says that what was read so far is not ambiguous;
  `LoadedSoFar` shows that the set answers "ambiguous" exactly when the document
  is (two equal kinds, of which the second would not have been skipped);
  `Inserted` says that the query set holds the first queries of the document,
  each with the statement it calls for and none with a defect; `Judgement` that
  the status of the document is then the defect of the query at hand. `Refused`
  and `Untouched` are the property before the end of the run.
- `FirstDefectIsReported`: `Spec => []FirstDefectReported` when every column type is
  known and the XML library throws nothing of its own. `Translating` adds that the files before are free of defects and that a
  header is written of all queries of its document, which the two
  exceptions whose handlers go on with an empty query set would break.
- `HeadersAreInOrder`: `Spec => []HeadersInOrder` when headers can be written as
  well, whatever else stops the run. `Written` adds that the stream is open;
  `Translation` says that a complete query set is the expected one, `MadeByFile`
  what one file changes of what the files so far made.
- `SuccessIsTrue`: `Spec => []SuccessMeansTranslated`, the promise `GenSwallowed`
  refutes, for known column types, an XML library that throws nothing, headers
  that can be written and files of different names; in this model nothing else breaks the promise.

### Headers

The theorems of `HeaderProofs` hold for any number of queries, fields and columns
and for statements of any length. Besides the types of a query set
(`QuerySetAssumption`) they use `StringAssumption`: the generator puts names
together from prefixes, and a proof does not know what a string is made of. The
assumption says what is true of the strings that occur (what follows a prefix
can be told from the result, and no prefix is the beginning of another one,
except that of `set_null_`); it is evaluated in each run of `Header`.

- `UsesAlwaysResolved`: `Spec => []UsesResolved`, whatever the names are. `UInv`,
  which is inductive, says of the declarations written so far that the needs of
  each are served by those before it (`Founded`), and that those of the classes
  that are complete serve the bodies of their functions (`Served`). The query
  object needs the classes of its buffers, so that `UInv` also says that the
  ones the generator is past are there (`Present`). A buffer that is skipped
  without a class from the client is what `Provided` allows, nothing else is.
- `NothingRedefined`: `Spec => []NoRedefinition`. `NInv` adds to `UInv` that every
  declaration belongs to the class of a query and part that had its turn
  (`Placed`) and that no two of them clash (`Separate`). Inside a class, `NameTells`
  shows that a name leads back to the prefix and the field it was formed from,
  unless it is the name of a column, which `WellNamed` keeps apart from the names
  the generator forms; between classes, `SameChunk` shows that a scope belongs
  to one class.
- `ColumnsReached`: `Spec => []AccessorsReachTheirColumn`, from the same invariant:
  the functions use two lists of names for one list of columns, and `NameTells`
  makes the position of a field the only thing they can meet in.
- `StatementIsKept`: `Spec => []DescribedIsExecuted`. `SameWords` is about the three
  texts one statement has: the document's, the line that is described and the
  lines of the header. `Adds(t, W)` says that a text read between words ends
  between words and adds the words `W`; each of the three is put together from
  parts that add the words of one line or none, where `LinesAlone` (from
  `LinesApart`) is the reason why a line may be read without the ones before it.
  The last line may be a comment, which only a line end would end: `AddsLast`.
- `LayoutIsKept`: `Spec => []LayoutKept`. `SplitIs` says that `split` inverts the
  joining of lines (a text is spelled by one list of lines only, `OneSpelling`),
  so that the lines of the header are known; `Minimized` that `minimize` takes
  blank lines from both ends and the least indentation from each line that is
  left; `SameLayout` puts both together.

`FoldLeft` and `FlattenSeq` are recursive functions, and the library has no
theorem about them that this prover can use. `TextProofs` derives what is needed:
the table of values of such a function exists (`FlattenIs`, `ScanIs`, `LinesAre`:
the set of finite sets its definition recurses over is well-founded), and
`Induction` and `SequenceInduction`, with a set in the place of a predicate, do
the rest.

### Only model-checked

Liveness is beyond the prover: `Terminates`, `EnvironmentSettled` and `LoopEnds`
stay with TLC. All other properties of the passing runs are theorems as well,
some of them under the premises this section names.

## 5. Observed in the code, and not a property

- Two threads that construct their first connection at once may both allocate
  an environment; the second store to `henv_` loses the first one
  (`connection.cpp:116`). `NothingLeaked` and `HenvKept` are therefore stated for
  one thread.
- `error::load` throws `std::runtime_error` when a diagnostic does not fit or the
  handle is not known (`error.cpp:78`); the constructor's handler does not catch
  it, and the connection handle and its count are lost (`abandoned`).
- A connection destroyed without commit or rollback is neither disconnected nor
  released, and neither is the environment, because the driver refuses and
  `close_connection` does not look at the answer (`connection.cpp:179`), although
  the comment says that both handles are released. `NothingLeaked` has a client
  that ends its transactions as its premise (`EndsTran`).
- A comment in a statement that is not its last line, and a literal across
  lines, make the statement that is described (in one line) another one than
  the statement that is executed (`core_parser.cpp:323`, `gen_cpp.cpp:542`).
  `LinesApart` states the premise.
- The array of a decimal has one character more than the column has digits, its
  text up to two: a sign and a point (`gen_cpp.cpp:312`). A
  full value that is read is truncated, so that the fetch throws or ends the loop
  with an allowed code, and the rows of that block are lost to the client. A full
  value that is set is cut by `s_cstr` without a word and stored as another
  number (`dbgen3_templ.hpp:129`): with `"fullDecimal"` in `Usage`, TLC shows it as
  a violation of `ImplementsRowStore`.
- The getters do not ask whether a row is null: `v_cstr` and `v_bstr` return a view
  whose length is -1 as a `size_t`, and `value` of an atomic what the cell held
  before (`dbgen3_templ.hpp:84-114`, `257`). Nor do they compare the length with
  the array: after a fetch that a document allows to truncate, the view of the
  truncated row is longer than the array. `ViewsInside` says that these are the
  only such rows; a client has to ask `is_null` first and to read after
  `SQL_SUCCESS` only, as `dump_all` and the tests do.
- A string is cut at the size of its array, which is one more than the column
  holds; a value that is one too long is refused by the database instead of cut
  as the comment at `dbgen3_templ.hpp:128` says. For a binary column `bind_par`
  declares one character less than the column has (`dbgen3_templ.hpp:220`).
- A value set from a view of a part of the row itself keeps its old length
  (`dbgen3_templ.hpp:132`): with `"partOfItself"` in `Usage`, TLC shows it as a
  violation of `ImplementsRowStore`.
- `set_occupied` accepts any number (`dbgen3_templ.hpp:442`); an `exec` with more
  rows than the buffer has makes the driver read behind its arrays.
- `handle_return_code` returns the first allowed code it finds among the records,
  also when others are not allowed (`statement.cpp:221`); its comment says that it
  throws for each unlisted code. An allowed code is cut to 16 bits, and an
  allowed 0 makes a warning without a code look like `SQL_SUCCESS`.
- `utl::chk` accepts parameter buffers only, so that the constructor with four
  arguments refuses every result buffer. The one with three arguments refuses it
  too, and attaches a parameter buffer as the result buffer as well
  (`dbgen3_templ.hpp:499`).
- `~statement` throws when its connection is gone, which ends the program
  (`Destroy` with rc `"terminate"`).
- A buffer attached to another object still says it is bound (`bind_`).
- A second generic `<sql>` is refused before a specific one and skipped after it.
- A header that cannot be opened or written goes unnoticed, and the run succeeds.
- An exception of the XML library itself (`XMLException`, `DOMException`) is
  displayed and gives an empty header, as an unknown column type does
  (`core_parser.cpp:437-444`).
- A connection that fails, also for an unknown database name, ends in status 7,
  although `program_status.hpp:55` has a status `unk_db_name` and a text for it.
- An error while describing skips the rollback; the connection is then destroyed
  inside the transaction.
- A column described with a name of more than 50 characters makes the driver
  answer `SQL_SUCCESS_WITH_INFO`, which the parser takes for an error.
- Ids that differ in `-` and `_` only name the same namespace; a column may have
  the name of a virtual function of `buffer_root` or of a generated member;
  the class of a skipped buffer has to come from the client. `WellNamed` and
  `Provided` state these as premises.
- A query without an id is called `q_<n>`, which may meet an id of the document.
- Two input files of the same name in different folders are translated to the
  same header, the later over the earlier, without a word. `HeadersInOrder`
  says so.

## 6. Plan

Done, in this order: `Connection` with `SharedEnv`, `Utl`, `SqlSet`, `Generator`
(composes `Connection` and `SqlSet`), `Header`, `Attr` with `RowStore`,
`MultiLine` as a part of `Header`, and the theorems of section 4. Left: models of
the records of a diagnostic and of the codes a document allows, of the custom
header of a document, and of copies of buffers.

Not planned: XML validation (the Xerces library), the filling of parameters
(gflags), output layout, and `set_pos`, `close_cursor`, `fetch_with_codes` of the
statement, which nothing in the repository calls.
