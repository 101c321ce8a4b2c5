----------------------------- MODULE Connection -----------------------------
(***************************************************************************)
(* db::connection (src/src/runtime/connection.cpp).  Every connection      *)
(* object shares one static environment handle, henv_, and one static      *)
(* counter of its users, henv_ref_cnt_.  The constructor allocates the     *)
(* environment when the counter is zero; close_connection, run by the      *)
(* destructor and by the constructor's handler, asks the driver to release *)
(* the environment whatever the counter says, and relies on the driver to  *)
(* refuse while connection handles exist.                                  *)
(*                                                                         *)
(* A constructor and a destructor are sequences of driver calls and        *)
(* accesses to the two statics; each is a step, because the counter is     *)
(* atomic but the sequence is not.                                         *)
(***************************************************************************)
EXTENDS Integers, FiniteSets

CONSTANTS
  Conn,       \* connection objects (program variables, reused after destruction)
  Env, Dbc,   \* environment and connection handles the driver can hand out
  NoHandle,   \* handle value 0
  MaxUInt,    \* greatest value of std::atomic_uint
  Serial,     \* TRUE: one thread; constructors and destructors never overlap
  EndsTran,   \* TRUE: clients commit or roll back before they destroy
  DiagFits    \* TRUE: every diagnostic fits the 1024 byte buffer of error::load

ASSUME ConnAssumption == IsFiniteSet(Conn)
ASSUME HandleAssumption == NoHandle \notin Env \cup Dbc /\ IsFiniteSet(Dbc)
ASSUME WidthAssumption ==
  MaxUInt \in Nat /\ Cardinality(Conn) + Cardinality(Dbc) <= MaxUInt
ASSUME ModeAssumption == {Serial, EndsTran, DiagFits} \subseteq BOOLEAN

VARIABLES
  pc,         \* what each object does next
  dbh,        \* db_handle, then db_handle_, of each object
  got,        \* result of allocate_env_handle not yet stored in henv_
  henv,       \* connection::henv_
  refcnt,     \* connection::henv_ref_cnt_
  envs,       \* driver: environments that exist
  parent,     \* driver: environment of each allocated connection handle
  session,    \* driver: is the handle connected, and inside a transaction?
  abandoned   \* history: handles lost when an exception left open_connection

object == <<pc, dbh, got>>
static == <<henv, refcnt>>
driver == <<envs, parent, session>>
vars   == <<object, static, driver, abandoned>>

Opening == {"allocEnv", "storeEnv", "setEnvAttr", "allocDbc", "addRef",
            "connect", "autocommit"}
Closing == {"disconnect", "dropRef", "freeDbc", "freeEnv"}
Resting == {"idle", "open"}

TypeOK ==
  /\ pc \in [Conn -> Opening \cup Closing \cup Resting]
  /\ dbh \in [Conn -> Dbc \cup {NoHandle}]
  /\ got \in [Conn -> Env \cup {NoHandle}]
  /\ henv \in Env \cup {NoHandle}
  /\ refcnt \in 0..MaxUInt
  /\ envs \subseteq Env
  /\ parent \in [Dbc -> Env \cup {NoHandle}]
  /\ session \in [Dbc -> {"none", "connected", "transaction"}]
  /\ abandoned \subseteq Dbc

Init ==
  /\ pc = [c \in Conn |-> "idle"]
  /\ dbh = [c \in Conn |-> NoHandle]
  /\ got = [c \in Conn |-> NoHandle]
  /\ henv = NoHandle
  /\ refcnt = 0
  /\ envs = {}
  /\ parent = [d \in Dbc |-> NoHandle]
  /\ session = [d \in Dbc |-> "none"]
  /\ abandoned = {}

-----------------------------------------------------------------------------
(* Helpers *)

Allocated == {d \in Dbc : parent[d] # NoHandle}
Children(e) == {d \in Allocated : parent[d] = e}
Quiet == \A c \in Conn : pc[c] \in Resting
Live == {c \in Conn : pc[c] = "open"}

Turn(c) == Serial => \A o \in Conn \ {c} : pc[o] \in Resting

Inc(n) == IF n = MaxUInt THEN 0 ELSE n + 1
Dec(n) == IF n = 0 THEN MaxUInt ELSE n - 1

At(c, here) == pc[c] = here /\ Turn(c)
Goto(c, there) == pc' = [pc EXCEPT ![c] = there]

\* (Operators named Defect... are faulty variants of the definition that
\* follows them: the mutant runs of PROJECT.json put them in its place.)

\* the test of db_handle is missing
DefectCloseEntry(c) == "disconnect"

\* close_connection skips the connection handle when there is none
CloseEntry(c) == IF dbh[c] = NoHandle THEN "freeEnv" ELSE "disconnect"

\* the handler rethrows without calling close_connection
DefectUnwind(c) ==
  Goto(c, "idle") /\ dbh' = [dbh EXCEPT ![c] = NoHandle] /\ UNCHANGED <<got, abandoned>>

\* throw_on_error loads the diagnostics and throws error_exception, which
\* open_connection catches to run close_connection
Unwind(c) == Goto(c, CloseEntry(c)) /\ UNCHANGED <<dbh, got, abandoned>>

\* a null handle is treated like an allocated one
DefectEscape(c) ==
  /\ Goto(c, "idle")
  /\ dbh' = [dbh EXCEPT ![c] = NoHandle]
  /\ abandoned' = abandoned \cup {dbh[c]}
  /\ UNCHANGED got

\* error::load threw std::runtime_error instead, which nobody catches
Escape(c) ==
  /\ Goto(c, "idle")
  /\ dbh' = [dbh EXCEPT ![c] = NoHandle]
  /\ abandoned' = abandoned \cup ({dbh[c]} \ {NoHandle})
  /\ UNCHANGED got

\* throw_on_error for a handle the driver knows (valid) or does not know
Raise(c, valid) ==
  \/ valid /\ Unwind(c)
  \/ (valid => ~DiagFits) /\ Escape(c)

-----------------------------------------------------------------------------
(* The constructor *)

New(c) ==
  /\ At(c, "idle")
  /\ Goto(c, IF refcnt = 0 THEN "allocEnv" ELSE "setEnvAttr")
  /\ UNCHANGED <<dbh, got, static, driver, abandoned>>

\* A failed allocation leaves no handle to ask for diagnostics
AllocEnv(c) ==
  /\ At(c, "allocEnv")
  /\ UNCHANGED <<static, parent, session>>
  /\ \/ \E e \in Env \ envs :
          /\ envs' = envs \cup {e}
          /\ got' = [got EXCEPT ![c] = e]
          /\ Goto(c, "storeEnv")
          /\ UNCHANGED <<dbh, abandoned>>
     \/ UNCHANGED envs /\ Raise(c, FALSE)

StoreEnv(c) ==
  /\ At(c, "storeEnv")
  /\ henv' = got[c]
  /\ got' = [got EXCEPT ![c] = NoHandle]
  /\ Goto(c, "setEnvAttr")
  /\ UNCHANGED <<dbh, refcnt, driver, abandoned>>

SetEnvAttr(c) ==
  /\ At(c, "setEnvAttr")
  /\ UNCHANGED <<static, driver>>
  /\ \/ henv \in envs /\ Goto(c, "allocDbc") /\ UNCHANGED <<dbh, got, abandoned>>
     \/ Raise(c, henv \in envs)

AllocDbc(c) ==
  /\ At(c, "allocDbc")
  /\ UNCHANGED <<static, envs, session>>
  /\ \/ /\ henv \in envs
        /\ \E d \in Dbc \ Allocated :
             /\ parent' = [parent EXCEPT ![d] = henv]
             /\ dbh' = [dbh EXCEPT ![c] = d]
        /\ Goto(c, "addRef")
        /\ UNCHANGED <<got, abandoned>>
     \/ UNCHANGED parent /\ Raise(c, henv \in envs)

\* the increment is missing
DefectAddRef(c) ==
  At(c, "addRef") /\ Goto(c, "connect") /\ UNCHANGED <<dbh, got, static, driver, abandoned>>

AddRef(c) ==
  /\ At(c, "addRef")
  /\ refcnt' = Inc(refcnt)
  /\ Goto(c, "connect")
  /\ UNCHANGED <<dbh, got, henv, driver, abandoned>>

Connect(c) ==
  /\ At(c, "connect")
  /\ UNCHANGED <<static, envs, parent>>
  /\ \/ /\ session' = [session EXCEPT ![dbh[c]] = "connected"]
        /\ Goto(c, "autocommit")
        /\ UNCHANGED <<dbh, got, abandoned>>
     \/ UNCHANGED session /\ Raise(c, TRUE)

Autocommit(c) ==
  /\ At(c, "autocommit")
  /\ UNCHANGED <<static, driver>>
  /\ \/ Goto(c, "open") /\ UNCHANGED <<dbh, got, abandoned>>
     \/ Raise(c, TRUE)

-----------------------------------------------------------------------------
(* Work on an open connection.  A commit or rollback that fails changes    *)
(* nothing.                                                                *)

BeginWork(c) ==
  /\ At(c, "open")
  /\ session' = [session EXCEPT ![dbh[c]] = "transaction"]
  /\ UNCHANGED <<object, static, envs, parent, abandoned>>

EndTran(c) ==
  /\ At(c, "open")
  /\ session[dbh[c]] = "transaction"
  /\ session' = [session EXCEPT ![dbh[c]] = "connected"]
  /\ UNCHANGED <<object, static, envs, parent, abandoned>>

-----------------------------------------------------------------------------
(* The destructor, and close_connection, which ignores every return code   *)

Destroy(c) ==
  /\ At(c, "open")
  /\ EndsTran => session[dbh[c]] # "transaction"
  /\ Goto(c, CloseEntry(c))
  /\ UNCHANGED <<dbh, got, static, driver, abandoned>>

\* The driver refuses to disconnect inside a transaction
Disconnect(c) ==
  /\ At(c, "disconnect")
  /\ session' = [session EXCEPT
       ![dbh[c]] = IF @ = "transaction" THEN @ ELSE "none"]
  /\ Goto(c, "dropRef")
  /\ UNCHANGED <<dbh, got, static, envs, parent, abandoned>>

\* the decrement is missing
DefectDropRef(c) ==
  At(c, "dropRef") /\ Goto(c, "freeDbc") /\ UNCHANGED <<dbh, got, static, driver, abandoned>>

DropRef(c) ==
  /\ At(c, "dropRef")
  /\ refcnt' = Dec(refcnt)
  /\ Goto(c, "freeDbc")
  /\ UNCHANGED <<dbh, got, henv, driver, abandoned>>

\* The driver refuses to free a handle that is still connected
FreeDbc(c) ==
  /\ At(c, "freeDbc")
  /\ parent' = IF session[dbh[c]] = "none"
                 THEN [parent EXCEPT ![dbh[c]] = NoHandle]
                 ELSE parent
  /\ Goto(c, "freeEnv")
  /\ UNCHANGED <<dbh, got, static, envs, session, abandoned>>

\* a defaulted copy of the object lives on with the same handle
DefectCopied(c) ==
  /\ At(c, "freeEnv")
  /\ Goto(c, "open")
  /\ UNCHANGED <<dbh, got, static, driver, abandoned>>

\* the release of the environment is missing
DefectFreeEnv(c) ==
  /\ At(c, "freeEnv")
  /\ dbh' = [dbh EXCEPT ![c] = NoHandle]
  /\ Goto(c, "idle")
  /\ UNCHANGED <<got, static, driver, abandoned>>

\* The driver refuses to free an environment that still has connections
FreeEnv(c) ==
  /\ At(c, "freeEnv")
  /\ envs' = IF Children(henv) = {} THEN envs \ {henv} ELSE envs
  /\ dbh' = [dbh EXCEPT ![c] = NoHandle]
  /\ Goto(c, "idle")
  /\ UNCHANGED <<got, static, parent, session, abandoned>>

-----------------------------------------------------------------------------

Construct(c) == \/ AllocEnv(c) \/ StoreEnv(c) \/ SetEnvAttr(c) \/ AllocDbc(c)
                \/ AddRef(c) \/ Connect(c) \/ Autocommit(c)
Close(c) == Disconnect(c) \/ DropRef(c) \/ FreeDbc(c) \/ FreeEnv(c)
Client(c) == New(c) \/ BeginWork(c) \/ EndTran(c) \/ Destroy(c)

Next == \E c \in Conn : Construct(c) \/ Close(c) \/ Client(c)

Spec == Init /\ [][Next]_vars

\* A constructor or destructor that has begun runs on; clients need not act
FairSpec == Spec /\ \A c \in Conn : WF_vars(Construct(c) \/ Close(c))

-----------------------------------------------------------------------------
(* Properties *)

\* Objects whose increment of henv_ref_cnt_ is not yet matched by a decrement
Counted == {c \in Conn :
              pc[c] \in {"connect", "autocommit", "open", "disconnect", "dropRef"}}

\* Whatever the interleaving and whatever fails, henv_ref_cnt_ is the number
\* of objects between their increment and their decrement plus the number of
\* connections lost to an escaping exception (connection.cpp:127, 181)
RefCntExact == refcnt = Cardinality(Counted) + Cardinality(abandoned)

\* Objects about to pass their connection handle to the driver
HandleUsers == {c \in Conn : pc[c] \in {"addRef", "connect", "autocommit",
                               "open", "disconnect", "dropRef", "freeDbc"}}

\* A handle an object is going to use is allocated and belongs to no other
\* object and to no abandoned connection: nothing is freed or disconnected
\* twice or under another object (connection.cpp:125-196)
ExclusiveHandles ==
  \A c \in HandleUsers :
    /\ dbh[c] \in Allocated \ abandoned
    /\ \A o \in HandleUsers \ {c} : dbh[o] # dbh[c]

\* In one thread a constructor never hands the driver a released environment
\* handle, although henv_ keeps its value after the release and the counter,
\* not the handle, decides whether to allocate (connection.cpp:116-126)
NoStaleEnvironment ==
  Serial => \A c \in Conn : pc[c] \in {"setEnvAttr", "allocDbc"} => henv \in envs

\* Between calls the driver holds exactly the connections of the live objects
\* and, if there is one, the one environment henv_ names; the destructor
\* released everything else (connection.cpp:93-97)
NothingLeaked ==
  Quiet => /\ Allocated = {dbh[c] : c \in Live}
           /\ envs = IF Live = {} THEN {} ELSE {henv}

\* henv_ is never overwritten while a connection handle depends on the
\* environment it names (connection.cpp:116)
HenvKept == [][henv' # henv => Children(henv) = {}]_vars

Shared == INSTANCE SharedEnv WITH
  User <- Conn, Environment <- Env,
  users <- {c \in Conn : dbh[c] \in Allocated}, environments <- envs

\* One thread, clients that end their transactions and diagnostics that fit:
\* the two statics implement one shared environment, created when there is
\* none, joined only while it exists, released only by its last user
\* (connection.cpp:106-196)
ImplementsSharedEnv == Shared!SafeSpec

\* An environment whose last user is gone is released, unless a constructor
\* joins it again and again (connection.cpp:189-194)
EnvironmentSettled == Shared!Settling

=============================================================================
