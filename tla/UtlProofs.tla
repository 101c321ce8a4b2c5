------------------------------ MODULE UtlProofs ------------------------------
(***************************************************************************)
(* Proofs about Utl, for any query objects, buffers and clients: what the  *)
(* statement believes about its text is true whatever a client does and    *)
(* whichever driver call fails.                                            *)
(***************************************************************************)
EXTENDS Utl, TLAPS

-----------------------------------------------------------------------------
(* exec: the order of its calls, and what it leaves in the driver's handle *)

LEMMA PrepareOrder ==
  ASSUME NEW f \in DOMAIN Order
  PROVE  /\ Done("prepare", f) \in BOOLEAN
         /\ f = "prepare" => ~Done("prepare", f)
         /\ f = "none" => \A s \in Calls : Done(s, f)
         /\ "prepare" \in Calls
  BY DEF Done, Order, Calls

\* What exec may leave as the prepared text
LEMMA ExecStmt ==
  ASSUME TypeOK, NEW u \in Utl, NEW t \in Sql \cup {NoSql}, NEW f \in DOMAIN Order, Exec(u, t, f)
  PROVE  /\ drv' = [drv EXCEPT ![u] = drv'[u]]
         /\ drv'[u].stmt \in StmtAfter(u, t, f)
<1>1. PICK d \in DriverAfter(u, t, f) : drv' = [drv EXCEPT ![u] = d]
  BY DEF Exec
<1>2. drv'[u] = d
  BY <1>1 DEF TypeOK
<1>3. d.stmt \in StmtAfter(u, t, f)
  BY DEF DriverAfter
<1> QED BY <1>1, <1>2, <1>3

-----------------------------------------------------------------------------
(* Type correctness *)

LEMMA FreshType == Fresh \in Handle
BY ClientAssumption DEF Fresh, Handle, NoCursor

LEMMA InitType == Init => TypeOK
BY FreshType DEF Init, TypeOK

LEMMA CursorClosed ==
  ASSUME NEW d \in Handle
  PROVE  [d EXCEPT !.left = NoCursor] \in Handle
  BY ClientAssumption DEF Handle, NoCursor

\* What a constructed object looks like
LEMMA ConstructType ==
  ASSUME TypeOK, NEW u \in Utl, NEW p \in Buf \cup {NoBuf}, NEW r \in Buf \cup {NoBuf},
         \/ \E text \in Sql : Construct(u, p, r, text)
         \/ NotConstructed(u, "thrown") \/ NotConstructed(u, "wrongBuffer")
  PROVE  /\ alive' \subseteq Utl
         /\ parBuf' \in [Utl -> Buf \cup {NoBuf}] /\ resBuf' \in [Utl -> Buf \cup {NoBuf}]
         /\ sql' \in [Utl -> Sql] /\ prepared' \in [Utl -> BOOLEAN]
         /\ rc' \in [Utl -> {"none", "success", "allowed", "thrown", "noData",
                              "wrongBuffer", "terminate"}]
         /\ drv' \in [Utl -> Handle]
<1>1. ASSUME NEW text \in Sql, Construct(u, p, r, text) PROVE drv' \in [Utl -> Handle]
  BY <1>1, FreshType DEF Construct, TypeOK
<1>2. ASSUME NEW text \in Sql, Construct(u, p, r, text)
      PROVE parBuf' \in [Utl -> Buf \cup {NoBuf}] /\ resBuf' \in [Utl -> Buf \cup {NoBuf}]
  BY <1>2 DEF Construct, Buf, TypeOK
<1>3. CASE \E text \in Sql : Construct(u, p, r, text)
  <2>1. PICK text \in Sql : Construct(u, p, r, text)
    BY <1>3
  <2> QED BY <1>1, <1>2, <2>1 DEF Construct, TypeOK
<1>4. CASE NotConstructed(u, "thrown") \/ NotConstructed(u, "wrongBuffer")
  BY <1>4 DEF NotConstructed, TypeOK
<1> QED BY <1>3, <1>4

\* A handle after a driver call is still a handle
LEMMA DriverType ==
  ASSUME TypeOK, NEW u \in Utl, NEW t \in Sql \cup {NoSql}, NEW f \in DOMAIN Order
  PROVE  DriverAfter(u, t, f) \subseteq Handle
<1> USE BufAssumption, ClientAssumption
<1>1. drv[u] \in Handle /\ parBuf[u] \in Buf \cup {NoBuf} /\ resBuf[u] \in Buf \cup {NoBuf}
  BY DEF TypeOK
<1>2. Text(u, t) \in Sql
  BY DEF Text, TypeOK
<1>3. StmtAfter(u, t, f) \subseteq Sql \cup {NoSql}
  BY <1>1, <1>2 DEF StmtAfter, Sent, Handle
<1>4. CursorAfter(u, f) \subseteq NoCursor..MaxResult
  BY <1>1 DEF CursorAfter, Opened, Handle, NoCursor
<1>5. Sent(u, t, "parSize", f, occupied[parBuf[u]], drv[u].paramset) \in Nat
  <2>1. "parSize" \in Makes(u, t) => parBuf[u] \in Buf
    BY <1>1 DEF Makes
  <2> QED BY <1>1, <2>1 DEF Sent, Handle, TypeOK
<1>6. Sent(u, t, "resSize", f, Size[resBuf[u]], drv[u].rowArray) \in Nat
  <2>1. "resSize" \in Makes(u, t) => resBuf[u] \in Buf
    BY <1>1 DEF Makes
  <2> QED BY <1>1, <2>1 DEF Sent, Handle
<1>7. /\ Sent(u, t, "parPtr", f, parBuf[u], drv[u].status) \in Par \cup Res \cup {NoBuf}
      /\ Sent(u, t, "resPtr", f, resBuf[u], drv[u].fetched) \in Buf \cup {NoBuf}
  BY <1>1 DEF Sent, Handle, Buf
<1> DEFINE Bound == Buf \cup {NoBuf, Mixed}
<1>8. \A s \in Calls, b \in Buf \cup {NoBuf}, old \in Bound :
        BindingAfter(u, t, s, f, b, old) \subseteq Bound
  BY DEF BindingAfter, Sent
<1>9. ParamsAfter(u, t, f) \subseteq Bound /\ ColsAfter(u, t, f) \subseteq Bound
  <2>1. /\ drv[u].params \in Bound /\ drv[u].cols \in Bound
        /\ "bindPar" \in Calls /\ "bindRes" \in Calls
    BY <1>1 DEF Handle, Calls, Order
  <2> HIDE DEF Bound
  <2>2. ColsAfter(u, t, f) \subseteq Bound
    BY <1>1, <1>8, <2>1 DEF ColsAfter
  <2>3. BindingAfter(u, t, "bindPar", f, parBuf[u], drv[u].params) \subseteq Bound
    BY <1>1, <1>8, <2>1
  <2>4. \A old \in Bound : BindingAfter(u, t, "bindRes", f, resBuf[u], old) \subseteq Bound
    BY <1>1, <1>8, <2>1
  <2>5. ParamsAfter(u, t, f) \subseteq Bound
    BY <2>3, <2>4 DEF ParamsAfter
  <2> QED BY <2>2, <2>5
<1> QED BY <1>3, <1>4, <1>5, <1>6, <1>7, <1>9 DEF DriverAfter, Handle

LEMMA ExecType ==
  ASSUME TypeOK, NEW u \in Utl, NEW t \in Sql \cup {NoSql}, NEW f \in DOMAIN Order, Exec(u, t, f)
  PROVE  TypeOK'
<1>1. drv' \in [Utl -> Handle]
  <2>1. PICK d \in DriverAfter(u, t, f) : drv' = [drv EXCEPT ![u] = d]
    BY DEF Exec
  <2>2. d \in Handle
    BY DriverType
  <2> QED BY <2>1, <2>2 DEF TypeOK
<1>2. SqlAfter(u, t, f) \in Sql /\ PreparedAfter(u, t, f) \in BOOLEAN
  BY DEF TypeOK, SqlAfter, PreparedAfter, Text
<1>3. sql' \in [Utl -> Sql] /\ prepared' \in [Utl -> BOOLEAN]
  BY <1>2 DEF Exec, TypeOK
<1>4. bound' \in [Buf -> BOOLEAN]
  BY DEF Exec
<1>5. rc' \in [Utl -> {"none", "success", "allowed", "thrown", "noData", "wrongBuffer", "terminate"}]
  BY DEF Exec, TypeOK
<1> QED BY <1>1, <1>3, <1>4, <1>5 DEF Exec, TypeOK

LEMMA NextType == TypeOK /\ [Next]_vars => TypeOK'
<1> SUFFICES ASSUME TypeOK, [Next]_vars PROVE TypeOK'
  OBVIOUS
<1> USE BufAssumption, ClientAssumption
<1>1. CASE UNCHANGED vars
  BY <1>1 DEF vars, buffers, TypeOK
<1>2. ASSUME NEW u \in Utl, New(u) PROVE TypeOK'
  <2>1. OwnPar[u] \in Par \cup {NoBuf} /\ OwnRes[u] \in Res \cup {NoBuf}
    OBVIOUS
  <2>2. OwnPar[u] \in Buf \cup {NoBuf} /\ OwnRes[u] \in Buf \cup {NoBuf}
    BY <2>1 DEF Buf
  <2>3. bound' \in [Buf -> BOOLEAN] /\ occupied' \in [Buf -> Nat]
    BY <1>2 DEF New, Renew, TypeOK
  <2> QED BY <1>2, <2>2, <2>3, ConstructType DEF New, TypeOK
<1>3. ASSUME NEW u \in Utl, NEW p \in Buf \cup {NoBuf}, NEW r \in Buf \cup {NoBuf},
             NewWithBuffers(u, p, r) \/ (p = r /\ NewWithBuffer(u, p))
      PROVE TypeOK'
  <2>1. /\ \/ \E text \in Sql : Construct(u, p, r, text)
           \/ NotConstructed(u, "thrown") \/ NotConstructed(u, "wrongBuffer")
        /\ UNCHANGED <<buffers, connected>>
    BY <1>3 DEF NewWithBuffers, NewWithBuffer
  <2> QED BY <2>1, ConstructType DEF buffers, TypeOK
<1>4. ASSUME NEW u \in Utl, Destroy(u) PROVE TypeOK'
  BY <1>4 DEF Destroy, buffers, TypeOK
<1>5. CASE Setters
  BY <1>5 DEF Setters, SetOccupied, SetParBuf, SetResBuf, buffers, Buf, TypeOK
<1>6. ASSUME NEW u \in Utl, Fetch(u) \/ FetchWithoutBuffer(u) PROVE TypeOK'
  <2>1. drv[u] \in Handle
    BY DEF TypeOK
  <2>2. ASSUME NEW n \in Nat, NEW left \in NoCursor..MaxResult,
               NEW r \in {"success", "allowed", "thrown", "noData"}, Fetched(u, n, left, r)
        PROVE /\ occupied' \in [Buf -> Nat] /\ drv' \in [Utl -> Handle]
              /\ rc' \in [Utl -> {"none", "success", "allowed", "thrown", "noData",
                                   "wrongBuffer", "terminate"}]
    BY <2>1, <2>2 DEF Fetched, Handle, TypeOK
  <2>3. ASSUME FetchRows(u)
        PROVE  Rows(u) \in Nat /\ drv[u].left - Rows(u) \in NoCursor..MaxResult
    BY <2>1, <2>3 DEF FetchRows, Rows, Handle, NoCursor
  <2>4. CASE Fetch(u) /\ FetchRows(u)
    BY <2>2, <2>3, <2>4 DEF Fetch, FetchRows, TypeOK
  <2>5. CASE Fetch(u) /\ FetchEnd(u)
    BY <2>2, <2>5 DEF Fetch, FetchEnd, NoCursor, TypeOK
  <2>6. CASE (Fetch(u) /\ FetchFails(u)) \/ FetchWithoutBuffer(u)
    BY <2>6 DEF Fetch, FetchFails, FetchWithoutBuffer, buffers, TypeOK
  <2> QED BY <1>6, <2>4, <2>5, <2>6 DEF Fetch
<1>7. CASE EndTran
  <2>1. \A u \in Utl : drv[u] \in Handle
    BY DEF TypeOK
  <2>2. drv' \in [Utl -> Handle]
    BY <1>7, <2>1, CursorClosed DEF EndTran
  <2> QED BY <1>7, <2>2 DEF EndTran, buffers, TypeOK
<1>8. CASE Disconnect \/ Reconnect
  BY <1>8 DEF Disconnect, Reconnect, buffers, TypeOK
<1> QED BY <1>1, <1>2, <1>3, <1>4, <1>5, <1>6, <1>7, <1>8, ExecType
       DEF Next, Lifetime, Query

\* The members of utl, its statement and its buffers keep their types
\* (dbgen3_templ.hpp:479-487, 498-521)
THEOREM TypeCorrect == Spec => []TypeOK
BY InitType, NextType, PTL DEF Spec

-----------------------------------------------------------------------------
(* The cache of the statement.  PreparedIsCurrent is inductive with the    *)
(* types: an exec that finds its text prepared relies on it.               *)

LEMMA ExecKeepsPrepared ==
  ASSUME TypeOK, PreparedIsCurrent,
         NEW u \in Utl, NEW t \in Sql \cup {NoSql}, NEW f \in DOMAIN Order, Exec(u, t, f)
  PROVE  PreparedIsCurrent'
<1> USE DEF PreparedIsCurrent
<1>1. /\ alive' = alive /\ u \in alive
      /\ sql' = [sql EXCEPT ![u] = SqlAfter(u, t, f)]
      /\ prepared' = [prepared EXCEPT ![u] = PreparedAfter(u, t, f)]
  BY DEF Exec
<1>2. ASSUME NEW v \in alive, v # u, prepared'[v] PROVE drv'[v].stmt = sql'[v]
  BY <1>1, <1>2, ExecStmt DEF TypeOK
<1>3. ASSUME PreparedAfter(u, t, f) PROVE drv'[u].stmt = SqlAfter(u, t, f)
  <2>1. f # "prepare"
    BY <1>3, PrepareOrder DEF PreparedAfter
  <2>2. drv'[u].stmt = Sent(u, t, "prepare", f, Text(u, t), drv[u].stmt)
    BY <2>1, ExecStmt DEF StmtAfter
  <2>3. CASE Done("prepare", f) /\ "prepare" \in Makes(u, t)
    BY <2>1, <2>2, <2>3 DEF Sent, SqlAfter
  <2>4. CASE Done("prepare", f) /\ "prepare" \notin Makes(u, t)
    <3>1. AlreadyPrepared(u, t)
      BY <2>4, PrepareOrder DEF Makes
    <3> QED BY <1>1, <2>1, <2>2, <2>4, <3>1 DEF Sent, SqlAfter, AlreadyPrepared
  <2>5. CASE ~Done("prepare", f)
    BY <1>1, <1>3, <2>1, <2>2, <2>5 DEF Sent, SqlAfter, PreparedAfter
  <2> QED BY <2>3, <2>4, <2>5
<1>4. prepared'[u] => drv'[u].stmt = sql'[u]
  BY <1>1, <1>3 DEF TypeOK
<1> QED BY <1>1, <1>2, <1>4

LEMMA NextKeepsPrepared == TypeOK /\ PreparedIsCurrent /\ [Next]_vars => PreparedIsCurrent'
<1> SUFFICES ASSUME TypeOK, PreparedIsCurrent, [Next]_vars PROVE PreparedIsCurrent'
  OBVIOUS
<1> USE DEF PreparedIsCurrent, TypeOK
<1>1. CASE UNCHANGED vars
  BY <1>1 DEF vars
<1>2. ASSUME NEW u \in Utl, NEW p, NEW r,
             \/ \E text \in Sql : Construct(u, p, r, text)
             \/ NotConstructed(u, "thrown") \/ NotConstructed(u, "wrongBuffer")
      PROVE PreparedIsCurrent'
  <2>1. ASSUME NEW text \in Sql, Construct(u, p, r, text) PROVE PreparedIsCurrent'
    <3>1. /\ alive' = alive \cup {u} /\ ~prepared'[u]
          /\ \A v \in alive \ {u} :
               prepared'[v] = prepared[v] /\ drv'[v] = drv[v] /\ sql'[v] = sql[v]
      BY <2>1 DEF Construct
    <3> QED BY <3>1
  <2> QED BY <1>2, <2>1 DEF NotConstructed
<1>3. CASE Lifetime
  BY <1>2, <1>3 DEF Lifetime, New, NewWithBuffers, NewWithBuffer, Destroy
<1>4. CASE Setters
  BY <1>4 DEF Setters, SetOccupied, SetParBuf, SetResBuf
<1>5. ASSUME NEW u \in Utl, Fetch(u) \/ FetchWithoutBuffer(u) PROVE PreparedIsCurrent'
  BY <1>5 DEF Fetch, FetchRows, FetchEnd, FetchFails, Fetched, FetchWithoutBuffer, Handle
<1>6. CASE EndTran \/ Disconnect \/ Reconnect
  BY <1>6 DEF EndTran, Disconnect, Reconnect, Handle
<1> QED BY <1>1, <1>3, <1>4, <1>5, <1>6, ExecKeepsPrepared DEF Next, Query

\* Whatever a client does, in whatever order, and whichever calls fail: a
\* statement that believes its text is prepared is right (statement.cpp:75-96)
THEOREM PreparedIsTrue == Spec => []PreparedIsCurrent
<1>1. Init => PreparedIsCurrent
  BY DEF Init, PreparedIsCurrent
<1> QED BY <1>1, NextKeepsPrepared, TypeCorrect, PTL DEF Spec

-----------------------------------------------------------------------------
(* The flag of a buffer.  It is kept in the buffer and speaks of the query *)
(* object, so that it can only be true while each object keeps the buffers *)
(* its generated constructor attached, and no other object has them.       *)

KeepsOwn == Usage \cap {"swapBuffers", "explicitCtor"} = {}

OwnAttached ==
  /\ \A u \in alive : parBuf[u] = OwnPar[u] /\ resBuf[u] = OwnRes[u]
  /\ BoundIsCurrent

\* A result buffer of its own binds columns
LEMMA OwnResult ==
  ASSUME OwnAttached, NEW u \in Utl, u \in alive, NEW t, NEW f
  PROVE  /\ ParamsAfter(u, t, f) = BindingAfter(u, t, "bindPar", f, parBuf[u], drv[u].params)
         /\ ColsAfter(u, t, f) = BindingAfter(u, t, "bindRes", f, resBuf[u], drv[u].cols)
<1>1. resBuf[u] \notin Par
  BY BufAssumption DEF OwnAttached, Buf
<1> QED BY <1>1 DEF ParamsAfter, ColsAfter

LEMMA ExecKeepsBound ==
  ASSUME TypeOK, OwnAttached,
         NEW u \in Utl, NEW t \in Sql \cup {NoSql}, NEW f \in DOMAIN Order, Exec(u, t, f)
  PROVE  OwnAttached'
<1> USE BufAssumption, OwnAssumption DEF OwnAttached, BoundIsCurrent
<1>1. PICK d \in DriverAfter(u, t, f) : drv' = [drv EXCEPT ![u] = d]
  BY DEF Exec
<1>2. /\ u \in alive /\ UNCHANGED <<alive, parBuf, resBuf>>
      /\ f \in Makes(u, t) \cup {"none"}
      /\ \A b \in Buf : bound'[b] = (b \in BoundAfter(u, t, f))
  BY DEF Exec
<1>3. /\ alive \subseteq Utl /\ drv'[u] = d
      /\ \A v \in Utl \ {u} : drv'[v] = drv[v]
      /\ \A b \in Buf : bound[b] \in BOOLEAN
  BY <1>1 DEF TypeOK
<1>4. /\ d.params \in BindingAfter(u, t, "bindPar", f, parBuf[u], drv[u].params)
      /\ d.cols \in BindingAfter(u, t, "bindRes", f, resBuf[u], drv[u].cols)
  BY <1>2, <1>3, OwnResult DEF DriverAfter
<1>5. ASSUME NEW v \in alive, v # u
      PROVE  /\ parBuf[v] # NoBuf /\ bound'[parBuf[v]] => drv'[v].params = parBuf[v]
             /\ resBuf[v] # NoBuf /\ bound'[resBuf[v]] => drv'[v].cols = resBuf[v]
  <2>1. ASSUME parBuf[v] # NoBuf, bound'[parBuf[v]] PROVE bound[parBuf[v]]
    <3>1. parBuf[v] \in Par /\ parBuf[v] # parBuf[u] /\ parBuf[v] # resBuf[u]
      BY <1>2, <1>3, <1>5, <2>1
    <3> QED BY <1>2, <2>1, <3>1 DEF BoundAfter, Buf
  <2>2. ASSUME resBuf[v] # NoBuf, bound'[resBuf[v]] PROVE bound[resBuf[v]]
    <3>1. resBuf[v] \in Res /\ resBuf[v] # parBuf[u] /\ resBuf[v] # resBuf[u]
      BY <1>2, <1>3, <1>5, <2>2
    <3> QED BY <1>2, <2>2, <3>1 DEF BoundAfter, Buf
  <2> QED BY <1>3, <1>5, <2>1, <2>2
<1>6. ASSUME parBuf[u] # NoBuf, bound'[parBuf[u]] PROVE d.params = parBuf[u]
  <2>1. parBuf[u] \in Par /\ parBuf[u] # resBuf[u]
    BY <1>2, <1>3, <1>6
  <2>2. bound[parBuf[u]] \/ Done("bindPar", f)
    BY <1>2, <1>6, <2>1 DEF BoundAfter, Buf
  <2>3. "bindPar" \in Makes(u, t) <=> ~bound[parBuf[u]]
    BY <1>6 DEF Makes, Calls, Order
  <2>4. bound[parBuf[u]] => drv[u].params = parBuf[u]
    BY <1>2, <1>6
  <2>5. f # "bindPar"
    BY <1>2, <2>2, <2>3 DEF Done, Order
  <2>6. d.params = Sent(u, t, "bindPar", f, parBuf[u], drv[u].params)
    BY <1>4, <2>5 DEF BindingAfter
  <2> QED BY <2>2, <2>3, <2>4, <2>6 DEF Sent
<1>7. ASSUME resBuf[u] # NoBuf, bound'[resBuf[u]] PROVE d.cols = resBuf[u]
  <2>1. resBuf[u] \in Res /\ parBuf[u] # resBuf[u]
    BY <1>2, <1>3, <1>7
  <2>2. bound[resBuf[u]] \/ Done("bindRes", f)
    BY <1>2, <1>7, <2>1 DEF BoundAfter, Buf
  <2>3. "bindRes" \in Makes(u, t) <=> ~bound[resBuf[u]]
    BY <1>7, <2>1 DEF Makes, Calls, Order
  <2>4. bound[resBuf[u]] => drv[u].cols = resBuf[u]
    BY <1>2, <1>7
  <2>5. f # "bindRes"
    BY <1>2, <2>2, <2>3 DEF Done, Order
  <2>6. d.cols = Sent(u, t, "bindRes", f, resBuf[u], drv[u].cols)
    BY <1>4, <2>5 DEF BindingAfter
  <2> QED BY <2>2, <2>3, <2>4, <2>6 DEF Sent
<1> QED BY <1>2, <1>3, <1>5, <1>6, <1>7

LEMMA NextKeepsBound == KeepsOwn /\ TypeOK /\ OwnAttached /\ [Next]_vars => OwnAttached'
<1> SUFFICES ASSUME KeepsOwn, TypeOK, OwnAttached, [Next]_vars PROVE OwnAttached'
  OBVIOUS
<1> USE BufAssumption, OwnAssumption DEF OwnAttached, BoundIsCurrent
<1>0. /\ alive \subseteq Utl /\ \A u \in Utl : drv[u] \in Handle
      /\ "swapBuffers" \notin Usage /\ "explicitCtor" \notin Usage
  BY DEF TypeOK, KeepsOwn
<1>1. CASE UNCHANGED vars
  BY <1>1 DEF vars, buffers
<1>2. ASSUME NEW u \in Utl, New(u) PROVE OwnAttached'
  <2>0. OwnPar[u] \in Par \cup {NoBuf} /\ OwnRes[u] \in Res \cup {NoBuf}
    OBVIOUS
  <2>1. \A b \in Buf : bound'[b] => b # OwnPar[u] /\ b # OwnRes[u] /\ bound[b]
    BY <1>2 DEF New, Renew, TypeOK
  <2>2. \A v \in alive : parBuf[v] \in Buf \cup {NoBuf} /\ resBuf[v] \in Buf \cup {NoBuf}
    BY <1>0 DEF Buf
  <2>3. CASE NotConstructed(u, "thrown")
    BY <1>2, <2>1, <2>2, <2>3 DEF NotConstructed, New
  <2>4. ASSUME NEW text \in Sql, Construct(u, OwnPar[u], OwnRes[u], text) PROVE OwnAttached'
    <3>1. /\ alive' = alive \cup {u} /\ parBuf'[u] = OwnPar[u] /\ resBuf'[u] = OwnRes[u]
          /\ \A v \in Utl \ {u} :
               parBuf'[v] = parBuf[v] /\ resBuf'[v] = resBuf[v] /\ drv'[v] = drv[v]
      BY <2>4 DEF Construct, TypeOK
    <3>2. OwnPar[u] # NoBuf => ~bound'[OwnPar[u]]
      BY <2>0, <2>1 DEF Buf
    <3>3. OwnRes[u] # NoBuf => ~bound'[OwnRes[u]]
      BY <2>0, <2>1 DEF Buf
    <3>4. u \notin alive
      BY <1>2 DEF New
    <3>5. ASSUME NEW v \in alive
          PROVE  /\ parBuf'[v] = OwnPar[v] /\ resBuf'[v] = OwnRes[v]
                 /\ parBuf'[v] # NoBuf /\ bound'[parBuf'[v]] => drv'[v].params = parBuf'[v]
                 /\ resBuf'[v] # NoBuf /\ bound'[resBuf'[v]] => drv'[v].cols = resBuf'[v]
      BY <1>0, <2>1, <2>2, <3>1, <3>4, <3>5
    <3> QED BY <3>1, <3>2, <3>3, <3>5
  <2> QED BY <1>2, <2>3, <2>4 DEF New
<1>3. ASSUME NEW u \in Utl, Destroy(u) PROVE OwnAttached'
  BY <1>3 DEF Destroy, buffers
<1>4. CASE Setters
  BY <1>0, <1>4 DEF Setters, SetOccupied, SetParBuf, SetResBuf
<1>5. ASSUME NEW u \in Utl, Fetch(u) \/ FetchWithoutBuffer(u) PROVE OwnAttached'
  <2>1. /\ UNCHANGED <<alive, parBuf, resBuf, bound>>
        /\ \A v \in Utl : drv'[v].params = drv[v].params /\ drv'[v].cols = drv[v].cols
    BY <1>0, <1>5 DEF Fetch, FetchRows, FetchEnd, FetchFails, Fetched, FetchWithoutBuffer,
                      buffers, Handle, TypeOK
  <2> QED BY <1>0, <2>1
<1>6. CASE EndTran \/ Disconnect \/ Reconnect
  <2>1. /\ UNCHANGED <<alive, parBuf, resBuf, bound>>
        /\ \A v \in Utl : drv'[v].params = drv[v].params /\ drv'[v].cols = drv[v].cols
    BY <1>0, <1>6 DEF EndTran, Disconnect, Reconnect, buffers, Handle
  <2> QED BY <1>0, <2>1
<1>7. ASSUME NEW u \in Utl, NEW p, NEW r, NewWithBuffers(u, p, r) \/ NewWithBuffer(u, p)
      PROVE  FALSE
  BY <1>0, <1>7 DEF NewWithBuffers, NewWithBuffer
<1> QED BY <1>1, <1>2, <1>3, <1>4, <1>5, <1>6, <1>7, ExecKeepsBound DEF Next, Lifetime, Query

\* As long as clients leave the buffers of the generated objects in place, a
\* buffer that believes it is bound is bound to the handle of its object, for
\* any number of objects (dbgen3_templ.hpp:436-478)
THEOREM BindingIsTrue == ASSUME KeepsOwn PROVE Spec => []BoundIsCurrent
<1>1. Init => OwnAttached
  BY DEF Init, OwnAttached, BoundIsCurrent
<1>2. OwnAttached => BoundIsCurrent
  BY DEF OwnAttached
<1>3. TypeOK /\ OwnAttached /\ [Next]_vars => OwnAttached'
  BY NextKeepsBound
<1> QED BY <1>1, <1>2, <1>3, TypeCorrect, PTL DEF Spec

-----------------------------------------------------------------------------
(* What the driver was told to fetch.  CursorFillsBuffer speaks of open    *)
(* cursors only; the row array is sent in any exec and only when it is     *)
(* more than one row, so the invariant follows it before that, and knows   *)
(* that no cursor is open on a buffer that is not bound.                   *)

FetchSet(u) ==
  /\ resBuf[u] # NoBuf => drv[u].rowArray \in {1, Size[resBuf[u]]}
  /\ drv[u].fetched \in {NoBuf, resBuf[u]}
  /\ drv[u].left # NoCursor =>
       resBuf[u] # NoBuf /\ bound[resBuf[u]] /\ drv[u].fetched = resBuf[u]

FetchesSet == \A u \in alive : FetchSet(u)

\* The parts of the handle after exec
LEMMA ExecParts ==
  ASSUME TypeOK, NEW u \in Utl, NEW t \in Sql \cup {NoSql}, NEW f \in DOMAIN Order, Exec(u, t, f)
  PROVE  /\ \A v \in Utl \ {u} : drv'[v] = drv[v]
         /\ drv'[u].paramset = Sent(u, t, "parSize", f, occupied[parBuf[u]], drv[u].paramset)
         /\ drv'[u].status = Sent(u, t, "parPtr", f, parBuf[u], drv[u].status)
         /\ drv'[u].rowArray = Sent(u, t, "resSize", f, Size[resBuf[u]], drv[u].rowArray)
         /\ drv'[u].fetched = Sent(u, t, "resPtr", f, resBuf[u], drv[u].fetched)
         /\ drv'[u].params \in ParamsAfter(u, t, f)
         /\ drv'[u].left \in CursorAfter(u, f)
<1>1. PICK d \in DriverAfter(u, t, f) : drv' = [drv EXCEPT ![u] = d]
  BY DEF Exec
<1>2. drv'[u] = d /\ \A v \in Utl \ {u} : drv'[v] = drv[v]
  BY <1>1 DEF TypeOK
<1>3. /\ d.paramset = Sent(u, t, "parSize", f, occupied[parBuf[u]], drv[u].paramset)
      /\ d.status = Sent(u, t, "parPtr", f, parBuf[u], drv[u].status)
      /\ d.rowArray = Sent(u, t, "resSize", f, Size[resBuf[u]], drv[u].rowArray)
      /\ d.fetched = Sent(u, t, "resPtr", f, resBuf[u], drv[u].fetched)
      /\ d.params \in ParamsAfter(u, t, f)
      /\ d.left \in CursorAfter(u, f)
  BY DEF DriverAfter
<1> QED BY <1>2, <1>3

LEMMA ExecKeepsFetch ==
  ASSUME TypeOK, OwnAttached, FetchesSet,
         NEW u \in Utl, NEW t \in Sql \cup {NoSql}, NEW f \in DOMAIN Order, Exec(u, t, f)
  PROVE  FetchesSet'
<1>1. /\ u \in alive /\ UNCHANGED <<alive, parBuf, resBuf>>
      /\ \A b \in Buf : bound'[b] = (b \in BoundAfter(u, t, f))
  BY DEF Exec
<1>2. /\ alive \subseteq Utl /\ \A v \in Utl : resBuf[v] \in Buf \cup {NoBuf}
      /\ \A b \in Buf : bound[b] => bound'[b]
  BY <1>1 DEF TypeOK, BoundAfter
<1>3. ASSUME NEW v \in alive, v # u PROVE FetchSet(v)'
  BY <1>1, <1>2, <1>3, ExecParts DEF FetchesSet, FetchSet
<1>4. FetchSet(u)'
  <2>1. FetchSet(u)
    BY <1>1 DEF FetchesSet
  <2>2. resBuf[u] # NoBuf => drv'[u].rowArray \in {1, Size[resBuf[u]]}
    BY <2>1, ExecParts DEF FetchSet, Sent
  <2>3. drv'[u].fetched \in {NoBuf, resBuf[u]}
    BY <2>1, ExecParts DEF FetchSet, Sent
  <2>4. ASSUME drv'[u].left # NoCursor
        PROVE  resBuf[u] # NoBuf /\ bound'[resBuf[u]] /\ drv'[u].fetched = resBuf[u]
    <3>1. drv'[u].left \in CursorAfter(u, f)
      BY ExecParts
    <3>2. CASE f \in {"none", "execute"} /\ resBuf[u] # NoBuf
      <4>1. Done("bindRes", f) /\ Done("resPtr", f) /\ "resPtr" \in Makes(u, t)
        BY <3>2 DEF Done, Order, Makes, Calls
      <4>2. bound'[resBuf[u]]
        BY <1>1, <1>2, <3>2, <4>1 DEF BoundAfter
      <4> QED BY <3>2, <4>1, <4>2, ExecParts DEF Sent
    <3>3. CASE drv[u].left # NoCursor
      BY <1>2, <2>1, <3>3, ExecParts DEF FetchSet, Sent
    <3>4. CASE drv[u].left = NoCursor /\ ~(f \in {"none", "execute"} /\ resBuf[u] # NoBuf)
      <4>1. drv'[u].left = NoCursor
        BY <1>1, <3>1, <3>4 DEF CursorAfter, Opened, OwnAttached
      <4> QED BY <2>4, <4>1
    <3> QED BY <3>2, <3>3, <3>4
  <2> QED BY <1>1, <2>2, <2>3, <2>4 DEF FetchSet
<1> QED BY <1>1, <1>3, <1>4 DEF FetchesSet

LEMMA NextKeepsFetch ==
  KeepsOwn /\ TypeOK /\ OwnAttached /\ FetchesSet /\ [Next]_vars => FetchesSet'
<1> SUFFICES ASSUME KeepsOwn, TypeOK, OwnAttached, FetchesSet, [Next]_vars PROVE FetchesSet'
  OBVIOUS
<1> USE BufAssumption DEF FetchesSet, FetchSet
<1>0. /\ alive \subseteq Utl /\ \A v \in Utl : drv[v] \in Handle
      /\ "swapBuffers" \notin Usage /\ "explicitCtor" \notin Usage
  BY DEF TypeOK, KeepsOwn
<1>1. CASE UNCHANGED vars
  BY <1>1 DEF vars, buffers
<1>2. ASSUME NEW u \in Utl, New(u) PROVE FetchesSet'
  <2>1. ASSUME NEW v \in alive
        PROVE  v # u /\ resBuf[v] = OwnRes[v] /\ (OwnRes[v] # NoBuf => bound'[OwnRes[v]] = bound[OwnRes[v]])
    <3>1. v # u /\ v \in Utl /\ resBuf[v] = OwnRes[v]
      BY <1>0, <1>2, <2>1 DEF New, OwnAttached
    <3>2. ASSUME OwnRes[v] # NoBuf PROVE OwnRes[v] \in Buf /\ OwnRes[v] \notin {OwnPar[u], OwnRes[u]}
      <4>1. OwnRes[v] \in Res /\ OwnPar[u] \in Par \cup {NoBuf} /\ OwnRes[v] # OwnRes[u]
        BY <3>1, <3>2, OwnAssumption
      <4> QED BY <4>1 DEF Buf
    <3> QED BY <1>2, <3>1, <3>2 DEF New, Renew
  <2>2. CASE NotConstructed(u, "thrown")
    BY <2>1, <2>2 DEF NotConstructed
  <2>3. ASSUME NEW text \in Sql, Construct(u, OwnPar[u], OwnRes[u], text) PROVE FetchesSet'
    <3>1. /\ alive' = alive \cup {u} /\ drv'[u] = Fresh
          /\ \A v \in Utl \ {u} : resBuf'[v] = resBuf[v] /\ drv'[v] = drv[v]
      BY <2>3 DEF Construct, TypeOK
    <3>2. FetchSet(u)'
      BY <3>1 DEF Fresh
    <3>3. \A v \in alive : FetchSet(v)'
      BY <1>0, <2>1, <3>1
    <3> QED BY <3>1, <3>2, <3>3
  <2> QED BY <1>2, <2>2, <2>3 DEF New
<1>3. ASSUME NEW u \in Utl, Destroy(u) PROVE FetchesSet'
  BY <1>3 DEF Destroy, buffers
<1>4. CASE Setters
  BY <1>0, <1>4 DEF Setters, SetOccupied, SetParBuf, SetResBuf
<1>5. ASSUME NEW u \in Utl, Fetch(u) \/ FetchWithoutBuffer(u) PROVE FetchesSet'
  <2>1. UNCHANGED <<alive, resBuf, bound>>
    BY <1>5 DEF Fetch, FetchWithoutBuffer, buffers
  <2>2. \A v \in Utl : /\ drv'[v].rowArray = drv[v].rowArray /\ drv'[v].fetched = drv[v].fetched
                       /\ drv[v].left = NoCursor => drv'[v].left = NoCursor
    <3>1. /\ drv \in [Utl -> Handle] /\ drv[u] \in Handle /\ ~(NoCursor > 0) /\ NoCursor # 0
      BY <1>0 DEF TypeOK, NoCursor
    <3>2. drv' = drv \/ (drv[u].left # NoCursor /\ \E n : drv' = [drv EXCEPT ![u].left = n])
      BY <1>5, <3>1 DEF Fetch, FetchRows, FetchEnd, FetchFails, Fetched, FetchWithoutBuffer
    <3> QED BY <3>1, <3>2 DEF Handle
  <2> QED BY <1>0, <2>1, <2>2
<1>6. CASE EndTran \/ Disconnect \/ Reconnect
  <2>1. UNCHANGED <<alive, resBuf, bound>>
    BY <1>6 DEF EndTran, Disconnect, Reconnect, buffers
  <2>2. \A v \in Utl : /\ drv'[v].rowArray = drv[v].rowArray /\ drv'[v].fetched = drv[v].fetched
                       /\ drv[v].left = NoCursor => drv'[v].left = NoCursor
    BY <1>0, <1>6 DEF EndTran, Disconnect, Reconnect, Handle
  <2> QED BY <1>0, <2>1, <2>2
<1>7. ASSUME NEW u \in Utl, NEW p, NEW r, NewWithBuffers(u, p, r) \/ NewWithBuffer(u, p)
      PROVE  FALSE
  BY <1>0, <1>7 DEF NewWithBuffers, NewWithBuffer
<1> QED BY <1>1, <1>2, <1>3, <1>4, <1>5, <1>6, <1>7, ExecKeepsFetch DEF Next, Lifetime, Query

\* Where the rows of an open cursor go
Fetching == TypeOK /\ OwnAttached /\ FetchesSet

LEMMA InitFetching == Init => Fetching
BY InitType DEF Init, Fetching, OwnAttached, BoundIsCurrent, FetchesSet

LEMMA NextFetching == ASSUME KeepsOwn PROVE Fetching /\ [Next]_vars => Fetching'
BY NextType, NextKeepsBound, NextKeepsFetch DEF Fetching

LEMMA FetchingFills == Fetching => CursorFillsBuffer
<1> SUFFICES ASSUME Fetching, NEW u \in alive, drv[u].left # NoCursor
             PROVE  /\ drv[u].cols = resBuf[u] /\ drv[u].fetched = resBuf[u]
                    /\ drv[u].rowArray <= Size[resBuf[u]]
  BY DEF CursorFillsBuffer
<1>1. /\ resBuf[u] # NoBuf /\ bound[resBuf[u]] /\ drv[u].fetched = resBuf[u]
      /\ drv[u].rowArray \in {1, Size[resBuf[u]]} /\ resBuf[u] \in Buf
  BY DEF Fetching, FetchesSet, FetchSet, TypeOK
<1>2. drv[u].cols = resBuf[u]
  BY <1>1 DEF Fetching, OwnAttached, BoundIsCurrent
<1> QED BY <1>1, <1>2, BufAssumption

\* As long as clients leave the buffers of the generated objects in place,
\* the rows of an open cursor and their number go to the object's result
\* buffer, never more of them than it holds, whichever calls of which execs
\* failed before (dbgen3_templ.hpp:582-592, 617-627)
THEOREM RowsStayInBuffer == ASSUME KeepsOwn PROVE Spec => []CursorFillsBuffer
BY InitFetching, NextFetching, FetchingFills, PTL DEF Spec

\* Under the same premise a fetch that succeeds tells the client exactly how
\* many rows it took from the result set (dbgen3_templ.hpp:582-592)
THEOREM RowsReadTrue == ASSUME KeepsOwn PROVE Spec => RowsReadExact
<1>1. ASSUME Fetching, Next, NEW u \in Utl, Fetch(u), rc'[u] = "success"
      PROVE  occupied'[resBuf[u]] = drv[u].left - drv'[u].left
  <2>1. /\ drv[u] \in Handle /\ u \in alive /\ resBuf[u] \in Buf
        /\ occupied \in [Buf -> Nat] /\ drv \in [Utl -> Handle]
    BY <1>1 DEF Fetch, Fetching, TypeOK
  <2>2. FetchRows(u)
    BY <1>1 DEF Fetch, FetchEnd, FetchFails, Fetched, Fetching, TypeOK
  <2>3. drv[u].fetched = resBuf[u] /\ resBuf[u] # NoBuf
    BY <1>1, <2>1, <2>2 DEF FetchRows, NoCursor, Fetching, FetchesSet, FetchSet
  <2>4. /\ occupied' = [occupied EXCEPT ![resBuf[u]] = Rows(u)]
        /\ drv' = [drv EXCEPT ![u].left = drv[u].left - Rows(u)]
    BY <2>2, <2>3 DEF FetchRows, Fetched
  <2>5. drv[u].left \in Int /\ Rows(u) \in Int
    BY <2>1 DEF Rows, Handle, NoCursor
  <2>6. drv'[u].left = drv[u].left - Rows(u) /\ occupied'[resBuf[u]] = Rows(u)
    BY <2>1, <2>4 DEF Handle
  <2> QED BY <2>5, <2>6
<1>2. Fetching /\ [Next]_vars =>
        [\A u \in Utl : Fetch(u) /\ rc'[u] = "success" =>
           occupied'[resBuf[u]] = drv[u].left - drv'[u].left]_vars
  BY <1>1
<1> QED BY <1>2, InitFetching, NextFetching, PTL DEF Spec, RowsReadExact

-----------------------------------------------------------------------------
(* What exec tells the driver.  A batch of one row is not sent, so the     *)
(* handle must still have its default: it has, as long as clients never    *)
(* come back from a larger batch to one row, and nothing but set_occupied  *)
(* writes the count of a parameter buffer.                                 *)

\* As long as clients leave the buffers of the generated objects in place, an
\* exec that succeeds has read its parameters from the attached buffer and
\* reported to it (dbgen3_templ.hpp:535-536)
THEOREM ExecReadsAttached == ASSUME KeepsOwn PROVE Spec => ExecUsesAttachedBuffers
<1>1. ASSUME Fetching, Next,
             NEW u \in Utl, NEW t \in Sql \cup {NoSql}, Exec(u, t, "none"), parBuf[u] # NoBuf
      PROVE  drv'[u].params = parBuf[u] /\ drv'[u].status = parBuf[u]
  <2>1. "none" \in DOMAIN Order /\ TypeOK /\ u \in alive
    BY <1>1 DEF Order, Fetching, Exec
  <2>2. /\ drv'[u].status = Sent(u, t, "parPtr", "none", parBuf[u], drv[u].status)
        /\ drv'[u].params \in BindingAfter(u, t, "bindPar", "none", parBuf[u], drv[u].params)
    BY <1>1, <2>1, ExecParts, OwnResult DEF Fetching
  <2>3. /\ Done("parPtr", "none") /\ Done("bindPar", "none") /\ "parPtr" \in Makes(u, t)
        /\ "bindPar" \in Makes(u, t) <=> ~bound[parBuf[u]]
    BY <1>1 DEF Done, Order, Makes, Calls
  <2>4. bound[parBuf[u]] => drv[u].params = parBuf[u]
    BY <1>1, <2>1 DEF Fetching, OwnAttached, BoundIsCurrent
  <2> QED BY <2>2, <2>3, <2>4 DEF BindingAfter, Sent
<1>2. Fetching /\ [Next]_vars =>
        [\A u \in Utl, t \in Sql \cup {NoSql} : Exec(u, t, "none") /\ parBuf[u] # NoBuf =>
           drv'[u].params = parBuf[u] /\ drv'[u].status = parBuf[u]]_vars
  BY <1>1
<1> QED BY <1>2, InitFetching, NextFetching, PTL DEF Spec, ExecUsesAttachedBuffers

OneRow(u) == parBuf[u] = NoBuf \/ occupied[parBuf[u]] \in {0, 1}

BatchSent ==
  \A u \in alive :
    /\ OneRow(u) => drv[u].paramset = 1
    /\ drv[u].fetched \in {NoBuf, OwnRes[u]}

LEMMA ExecKeepsBatch ==
  ASSUME TypeOK, OwnAttached, BatchSent,
         NEW u \in Utl, NEW t \in Sql \cup {NoSql}, NEW f \in DOMAIN Order, Exec(u, t, f)
  PROVE  BatchSent'
<1>1. u \in alive /\ alive \subseteq Utl /\ UNCHANGED <<alive, parBuf, occupied>>
  BY DEF Exec, TypeOK
<1>2. OneRow(u) => "parSize" \notin Makes(u, t)
  BY DEF OneRow, Makes, NeedsSize
<1>3. resBuf[u] = OwnRes[u]
  BY <1>1 DEF OwnAttached
<1> QED BY <1>1, <1>2, <1>3, ExecParts DEF BatchSent, OneRow, Sent

LEMMA NextKeepsBatch ==
  KeepsOwn /\ "smallerBatch" \notin Usage /\ TypeOK /\ OwnAttached /\ BatchSent /\ [Next]_vars
    => BatchSent'
<1> SUFFICES ASSUME KeepsOwn, "smallerBatch" \notin Usage, TypeOK, OwnAttached, BatchSent,
                    [Next]_vars
             PROVE  BatchSent'
  OBVIOUS
<1> USE BufAssumption, ClientAssumption DEF BatchSent, OneRow
<1>0. /\ alive \subseteq Utl /\ \A v \in alive : parBuf[v] = OwnPar[v] /\ resBuf[v] = OwnRes[v]
      /\ drv \in [Utl -> Handle] /\ occupied \in [Buf -> Nat]
      /\ "swapBuffers" \notin Usage /\ "explicitCtor" \notin Usage
  BY DEF TypeOK, KeepsOwn, OwnAttached
<1>a. \A v \in Utl : OwnPar[v] \in Par \cup {NoBuf} /\ OwnRes[v] \in Res \cup {NoBuf}
  OBVIOUS
<1>1. CASE UNCHANGED vars
  BY <1>1 DEF vars, buffers
<1>2. ASSUME NEW u \in Utl, New(u) PROVE BatchSent'
  <2>1. ASSUME NEW v \in alive
        PROVE  v # u /\ (OwnPar[v] # NoBuf => occupied'[OwnPar[v]] = occupied[OwnPar[v]])
    <3>1. v # u /\ v \in Utl
      BY <1>0, <1>2, <2>1 DEF New
    <3>2. ASSUME OwnPar[v] # NoBuf PROVE OwnPar[v] \in Buf /\ OwnPar[v] \notin {OwnPar[u], OwnRes[u]}
      <4>1. OwnPar[v] \in Par /\ OwnRes[u] \in Res \cup {NoBuf} /\ OwnPar[v] # OwnPar[u]
        BY <1>a, <3>1, <3>2, OwnAssumption
      <4> QED BY <4>1 DEF Buf
    <3> QED BY <1>2, <3>1, <3>2 DEF New, Renew
  <2>2. CASE NotConstructed(u, "thrown")
    BY <1>0, <2>1, <2>2 DEF NotConstructed
  <2>3. ASSUME NEW text \in Sql, Construct(u, OwnPar[u], OwnRes[u], text) PROVE BatchSent'
    <3>1. /\ alive' = alive \cup {u} /\ drv'[u] = Fresh
          /\ \A v \in Utl \ {u} : parBuf'[v] = parBuf[v] /\ drv'[v] = drv[v]
      BY <2>3 DEF Construct, TypeOK
    <3>2. Fresh.paramset = 1 /\ Fresh.fetched = NoBuf
      BY DEF Fresh
    <3>3. \A v \in alive : /\ parBuf'[v] = parBuf[v] /\ drv'[v] = drv[v]
                           /\ parBuf[v] # NoBuf => occupied'[parBuf[v]] = occupied[parBuf[v]]
      BY <1>0, <2>1, <3>1
    <3> QED BY <3>1, <3>2, <3>3
  <2> QED BY <1>2, <2>2, <2>3 DEF New
<1>3. ASSUME NEW u \in Utl, Destroy(u) PROVE BatchSent'
  BY <1>3 DEF Destroy, buffers
<1>4. CASE Setters
  <2>1. ASSUME NEW b \in Par, NEW n \in Batches, SetOccupied(b, n) PROVE BatchSent'
    <3>1. /\ occupied' = [occupied EXCEPT ![b] = n] /\ UNCHANGED <<alive, parBuf, drv>>
          /\ n \notin {0, 1}
      BY <2>1 DEF SetOccupied
    <3> QED BY <1>0, <3>1 DEF Buf
  <2> QED BY <1>0, <1>4, <2>1 DEF Setters, SetParBuf, SetResBuf
<1>5. ASSUME NEW u \in Utl, Fetch(u) \/ FetchWithoutBuffer(u) PROVE BatchSent'
  <2>1. u \in alive /\ UNCHANGED <<alive, parBuf>>
    BY <1>5 DEF Fetch, FetchWithoutBuffer
  <2>2. occupied' = occupied \/ \E n : occupied' = [occupied EXCEPT ![OwnRes[u]] = n]
    BY <1>5, <2>1 DEF Fetch, FetchRows, FetchEnd, FetchFails, Fetched, FetchWithoutBuffer, buffers
  <2>3. \A v \in Utl : OwnPar[v] # NoBuf => occupied'[OwnPar[v]] = occupied[OwnPar[v]]
    BY <1>0, <1>a, <2>2 DEF Buf
  <2>4. \A v \in Utl : drv'[v].paramset = drv[v].paramset /\ drv'[v].fetched = drv[v].fetched
    BY <1>0, <1>5 DEF Fetch, FetchRows, FetchEnd, FetchFails, Fetched, FetchWithoutBuffer, Handle
  <2> QED BY <1>0, <2>1, <2>3, <2>4
<1>6. CASE EndTran \/ Disconnect \/ Reconnect
  <2>1. UNCHANGED <<alive, parBuf, occupied>>
    BY <1>6 DEF EndTran, Disconnect, Reconnect, buffers
  <2>2. \A v \in Utl : drv'[v].paramset = drv[v].paramset /\ drv'[v].fetched = drv[v].fetched
    BY <1>0, <1>6 DEF EndTran, Disconnect, Reconnect, Handle
  <2> QED BY <1>0, <2>1, <2>2
<1>7. ASSUME NEW u \in Utl, NEW p, NEW r, NewWithBuffers(u, p, r) \/ NewWithBuffer(u, p)
      PROVE  FALSE
  BY <1>0, <1>7 DEF NewWithBuffers, NewWithBuffer
<1> QED BY <1>1, <1>2, <1>3, <1>4, <1>5, <1>6, <1>7, ExecKeepsBatch DEF Next, Lifetime, Query

\* As long as clients keep the generated buffers and never ask for a batch of
\* one row or none after a larger one, an exec that succeeds has run the text
\* it was given with exactly the occupied rows (dbgen3_templ.hpp:537-554)
THEOREM ExecRunsBatch ==
  ASSUME KeepsOwn, "smallerBatch" \notin Usage PROVE Spec => ExecRunsRequestedRows
<1> DEFINE IInv == TypeOK /\ PreparedIsCurrent /\ OwnAttached /\ BatchSent
<1>1. Init => IInv
  BY InitType DEF Init, PreparedIsCurrent, OwnAttached, BoundIsCurrent, BatchSent
<1>2. IInv /\ [Next]_vars => IInv'
  BY NextType, NextKeepsPrepared, NextKeepsBound, NextKeepsBatch
<1>3. ASSUME IInv, Next, NEW u \in Utl, NEW t \in Sql \cup {NoSql}, Exec(u, t, "none")
      PROVE  drv'[u].paramset = Requested(u) /\ drv'[u].stmt = Text(u, t)
  <2>1. "none" \in DOMAIN Order /\ u \in alive
    BY <1>3 DEF Order, Exec
  <2>2. /\ drv'[u].paramset = Sent(u, t, "parSize", "none", occupied[parBuf[u]], drv[u].paramset)
        /\ drv'[u].stmt = Sent(u, t, "prepare", "none", Text(u, t), drv[u].stmt)
    BY <1>3, <2>1, ExecParts, ExecStmt DEF StmtAfter
  <2>3. Done("parSize", "none") /\ Done("prepare", "none")
    BY DEF Done, Order
  <2>4. parBuf[u] # NoBuf => occupied[parBuf[u]] \in Nat
    BY <1>3 DEF TypeOK
  <2>5. CASE OneRow(u)
    <3>1. "parSize" \notin Makes(u, t) /\ drv[u].paramset = 1
      BY <1>3, <2>1, <2>5 DEF BatchSent, OneRow, Makes, NeedsSize
    <3> QED BY <1>3, <2>1, <2>2, <2>3, <2>5, <3>1, PrepareOrder
            DEF OneRow, Requested, Sent, Makes, AlreadyPrepared, PreparedIsCurrent
  <2>6. CASE ~OneRow(u)
    <3>1. "parSize" \in Makes(u, t)
      BY <2>4, <2>6 DEF OneRow, Makes, Calls, Order, NeedsSize
    <3> QED BY <1>3, <2>1, <2>2, <2>3, <2>6, <3>1, PrepareOrder
            DEF OneRow, Requested, Sent, Makes, AlreadyPrepared, PreparedIsCurrent
  <2> QED BY <2>5, <2>6
<1>4. IInv /\ [Next]_vars =>
        [\A u \in Utl, t \in Sql \cup {NoSql} : Exec(u, t, "none") =>
           drv'[u].paramset = Requested(u) /\ drv'[u].stmt = Text(u, t)]_vars
  BY <1>3
<1> HIDE DEF IInv
<1> QED BY <1>1, <1>2, <1>4, PTL DEF Spec, ExecRunsRequestedRows

=============================================================================
