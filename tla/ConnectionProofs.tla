-------------------------- MODULE ConnectionProofs --------------------------
(***************************************************************************)
(* Proofs about Connection for any number of objects and handles, in one   *)
(* thread or in several, whatever the clients do and whatever fails.       *)
(***************************************************************************)
EXTENDS Connection, FiniteSetTheorems, TLAPS

-----------------------------------------------------------------------------
(* Type correctness: both counter operations stay in the counter's width.  *)

LEMMA InitType == Init => TypeOK
BY HandleAssumption, WidthAssumption DEF Init, TypeOK, Resting

LEMMA NextType == TypeOK /\ [Next]_vars => TypeOK'
<1> SUFFICES ASSUME TypeOK, [Next]_vars PROVE TypeOK'
  OBVIOUS
<1> USE HandleAssumption, WidthAssumption
    DEF TypeOK, Opening, Closing, Resting, At, Goto, object, static, driver
<1>a. ASSUME NEW c \in Conn, Unwind(c) \/ Escape(c)
      PROVE  /\ pc' \in [Conn -> Opening \cup Closing \cup Resting]
             /\ dbh' \in [Conn -> Dbc \cup {NoHandle}]
             /\ got' \in [Conn -> Env \cup {NoHandle}]
             /\ abandoned' \subseteq Dbc
  BY <1>a DEF Unwind, Escape, CloseEntry
<1>1. CASE UNCHANGED vars
  BY <1>1 DEF vars
<1>2. ASSUME NEW c \in Conn, Construct(c) PROVE TypeOK'
  <2>1. CASE AllocEnv(c)
    BY <2>1, <1>a DEF AllocEnv, Raise
  <2>2. CASE StoreEnv(c)
    BY <2>2 DEF StoreEnv
  <2>3. CASE SetEnvAttr(c)
    BY <2>3, <1>a DEF SetEnvAttr, Raise
  <2>4. CASE AllocDbc(c)
    BY <2>4, <1>a DEF AllocDbc, Raise
  <2>5. CASE AddRef(c)
    BY <2>5 DEF AddRef, Inc
  <2>6. CASE Connect(c)
    BY <2>6, <1>a DEF Connect, Raise
  <2>7. CASE Autocommit(c)
    BY <2>7, <1>a DEF Autocommit, Raise
  <2> QED
    BY <1>2, <2>1, <2>2, <2>3, <2>4, <2>5, <2>6, <2>7 DEF Construct
<1>3. ASSUME NEW c \in Conn, Close(c) PROVE TypeOK'
  <2>1. CASE Disconnect(c)
    BY <2>1 DEF Disconnect
  <2>2. CASE DropRef(c)
    BY <2>2 DEF DropRef, Dec
  <2>3. CASE FreeDbc(c)
    BY <2>3 DEF FreeDbc
  <2>4. CASE FreeEnv(c)
    BY <2>4 DEF FreeEnv
  <2> QED
    BY <1>3, <2>1, <2>2, <2>3, <2>4 DEF Close
<1>4. ASSUME NEW c \in Conn, Client(c) PROVE TypeOK'
  BY <1>4 DEF Client, New, BeginWork, EndTran, Destroy, CloseEntry
<1> QED
  BY <1>1, <1>2, <1>3, <1>4 DEF Next

\* The state variables of db::connection keep their types
THEOREM TypeCorrect == Spec => []TypeOK
BY InitType, NextType, PTL DEF Spec

-----------------------------------------------------------------------------
(* Ownership.  ExclusiveHandles alone is not inductive: an exception path  *)
(* must know whether there is a handle to close, and a handle lost to an   *)
(* escaping exception must never be handed out again.                      *)

BeforeHandle == {"idle", "allocEnv", "storeEnv", "setEnvAttr", "allocDbc"}

Ownership ==
  /\ abandoned \subseteq Allocated
  /\ \A c \in Conn : pc[c] \in BeforeHandle => dbh[c] = NoHandle
  /\ ExclusiveHandles

LEMMA InitOwnership == Init => Ownership
BY DEF Init, Ownership, ExclusiveHandles, HandleUsers, Allocated

\* A step that neither frees nor hands out a handle, moves one object between
\* steps and leaves the others alone
LEMMA NextOwnership == TypeOK /\ Ownership /\ [Next]_vars => Ownership'
<1> SUFFICES ASSUME TypeOK, Ownership, [Next]_vars PROVE Ownership'
  OBVIOUS
<1> USE HandleAssumption
    DEF TypeOK, Ownership, ExclusiveHandles, HandleUsers, Allocated,
        BeforeHandle, At, Goto, object, static, driver
<1>a. ASSUME NEW c \in Conn, Unwind(c) \/ Escape(c), UNCHANGED parent,
             pc[c] \in {"allocEnv", "setEnvAttr", "allocDbc", "connect", "autocommit"}
      PROVE  Ownership'
  <2>1. CASE Unwind(c)
    BY <1>a, <2>1 DEF Unwind, CloseEntry
  <2>2. CASE Escape(c)
    BY <1>a, <2>2 DEF Escape
  <2> QED
    BY <1>a, <2>1, <2>2
<1>1. CASE UNCHANGED vars
  BY <1>1 DEF vars
<1>2. ASSUME NEW c \in Conn, Construct(c) PROVE Ownership'
  <2>1. CASE AllocEnv(c)
    BY <2>1, <1>a DEF AllocEnv, Raise
  <2>2. CASE StoreEnv(c)
    BY <2>2 DEF StoreEnv
  <2>3. CASE SetEnvAttr(c)
    BY <2>3, <1>a DEF SetEnvAttr, Raise
  <2>4. CASE AllocDbc(c)
    BY <2>4, <1>a DEF AllocDbc, Raise
  <2>5. CASE AddRef(c)
    BY <2>5 DEF AddRef
  <2>6. CASE Connect(c)
    BY <2>6, <1>a DEF Connect, Raise
  <2>7. CASE Autocommit(c)
    BY <2>7, <1>a DEF Autocommit, Raise
  <2> QED
    BY <1>2, <2>1, <2>2, <2>3, <2>4, <2>5, <2>6, <2>7 DEF Construct
<1>3. ASSUME NEW c \in Conn, Close(c) PROVE Ownership'
  <2>1. CASE Disconnect(c)
    BY <2>1 DEF Disconnect
  <2>2. CASE DropRef(c)
    BY <2>2 DEF DropRef
  <2>3. CASE FreeDbc(c)
    BY <2>3 DEF FreeDbc
  <2>4. CASE FreeEnv(c)
    BY <2>4 DEF FreeEnv
  <2> QED
    BY <1>3, <2>1, <2>2, <2>3, <2>4 DEF Close
<1>4. ASSUME NEW c \in Conn, Client(c) PROVE Ownership'
  BY <1>4 DEF Client, New, BeginWork, EndTran, Destroy, CloseEntry
<1> QED
  BY <1>1, <1>2, <1>3, <1>4 DEF Next

\* No interleaving of constructors and destructors, and no failure, makes two
\* objects use one connection handle or one object use a freed handle
\* (connection.cpp:106-196)
THEOREM HandlesExclusive == Spec => []ExclusiveHandles
<1>1. Init => TypeOK /\ Ownership
  BY InitType, InitOwnership
<1>2. TypeOK /\ Ownership /\ [Next]_vars => (TypeOK /\ Ownership)'
  BY NextType, NextOwnership
<1>3. Ownership => ExclusiveHandles
  BY DEF Ownership
<1> QED
  BY <1>1, <1>2, <1>3, PTL DEF Spec

-----------------------------------------------------------------------------
(* The counter.  Every step either moves an object into or out of Counted  *)
(* together with the counter, or trades it for an abandoned handle.        *)

LEMMA CountedCardinality ==
  ASSUME TypeOK
  PROVE  /\ IsFiniteSet(Counted)
         /\ IsFiniteSet(abandoned)
         /\ Cardinality(Counted) \in Nat
         /\ Cardinality(abandoned) \in Nat
         /\ Cardinality(Counted) + Cardinality(abandoned) <= MaxUInt
         /\ \A c \in Conn \ Counted :
              Cardinality(Counted) + Cardinality(abandoned) < MaxUInt
<1>1. /\ IsFiniteSet(Counted) /\ Cardinality(Counted) <= Cardinality(Conn)
      /\ \A c \in Conn \ Counted : Cardinality(Counted) < Cardinality(Conn)
  <2>1. Counted \subseteq Conn
    BY DEF Counted
  <2>2. /\ IsFiniteSet(Counted) /\ Cardinality(Counted) <= Cardinality(Conn)
        /\ Cardinality(Conn) = Cardinality(Counted) => Conn = Counted
    BY <2>1, ConnAssumption, FS_Subset
  <2> QED
    BY <2>2, ConnAssumption, FS_CardinalityType
<1>2. IsFiniteSet(abandoned) /\ Cardinality(abandoned) <= Cardinality(Dbc)
  BY HandleAssumption, FS_Subset DEF TypeOK
<1>3. /\ Cardinality(Counted) \in Nat /\ Cardinality(abandoned) \in Nat
      /\ Cardinality(Conn) \in Nat /\ Cardinality(Dbc) \in Nat
  BY <1>1, <1>2, ConnAssumption, HandleAssumption, FS_CardinalityType
<1> QED
  BY <1>1, <1>2, <1>3, WidthAssumption

LEMMA InitRefCnt == Init => RefCntExact
<1> SUFFICES ASSUME Init PROVE RefCntExact
  OBVIOUS
<1>1. Counted = {} /\ abandoned = {} /\ refcnt = 0
  BY DEF Init, Counted
<1> QED
  BY <1>1, FS_EmptySet DEF RefCntExact

LEMMA NextRefCnt ==
  TypeOK /\ Ownership /\ RefCntExact /\ [Next]_vars => RefCntExact'
<1> SUFFICES ASSUME TypeOK, Ownership, RefCntExact, [Next]_vars
             PROVE  RefCntExact'
  OBVIOUS
<1> USE DEF At, Goto, object, static, driver
\* The three ways the counter, the objects and the abandoned handles change
<1>a. ASSUME refcnt' = refcnt, Counted' = Counted, abandoned' = abandoned
      PROVE  RefCntExact'
  BY <1>a DEF RefCntExact
<1>b. ASSUME NEW c \in Conn \ Counted, refcnt' = Inc(refcnt),
             Counted' = Counted \cup {c}, abandoned' = abandoned
      PROVE  RefCntExact'
  <2>1. Cardinality(Counted') = Cardinality(Counted) + 1
    BY <1>b, CountedCardinality, FS_AddElement
  <2> QED
    BY <1>b, <2>1, CountedCardinality DEF RefCntExact, Inc
<1>c. ASSUME NEW c \in Counted, refcnt' = Dec(refcnt),
             Counted' = Counted \ {c}, abandoned' = abandoned
      PROVE  RefCntExact'
  <2>1. Cardinality(Counted') = Cardinality(Counted) - 1
    BY <1>c, CountedCardinality, FS_RemoveElement
  <2>2. Cardinality(Counted) # 0
    BY CountedCardinality, FS_EmptySet
  <2> QED
    BY <1>c, <2>1, <2>2, CountedCardinality DEF RefCntExact, Dec
<1>d. ASSUME NEW c \in Counted, refcnt' = refcnt, Counted' = Counted \ {c},
             abandoned' = abandoned \cup {dbh[c]}, dbh[c] \notin abandoned
      PROVE  RefCntExact'
  <2>1. Cardinality(Counted') = Cardinality(Counted) - 1
    BY <1>d, CountedCardinality, FS_RemoveElement
  <2>2. Cardinality(abandoned') = Cardinality(abandoned) + 1
    BY <1>d, CountedCardinality, FS_AddElement
  <2> QED
    BY <1>d, <2>1, <2>2, CountedCardinality DEF RefCntExact
\* Exceptions before and after the increment
<1>e. ASSUME NEW c \in Conn, Unwind(c) \/ Escape(c), UNCHANGED refcnt,
             pc[c] \in {"allocEnv", "setEnvAttr", "allocDbc"}
      PROVE  RefCntExact'
  <2>1. Counted' = Counted /\ abandoned' = abandoned
    BY <1>e DEF Unwind, Escape, CloseEntry, Counted, TypeOK, Ownership, BeforeHandle
  <2> QED
    BY <1>a, <1>e, <2>1
<1>f. ASSUME NEW c \in Conn, Unwind(c) \/ Escape(c), UNCHANGED refcnt,
             pc[c] \in {"connect", "autocommit"}
      PROVE  RefCntExact'
  <2>1. dbh[c] \in Dbc \ abandoned
    BY <1>f DEF Ownership, ExclusiveHandles, HandleUsers, Allocated
  <2>2. CASE Unwind(c)
    <3>1. Counted' = Counted /\ abandoned' = abandoned
      BY <1>f, <2>1, <2>2, HandleAssumption DEF Unwind, CloseEntry, Counted, TypeOK
    <3> QED
      BY <1>a, <1>f, <3>1
  <2>3. CASE Escape(c)
    <3>1. /\ c \in Counted /\ Counted' = Counted \ {c}
          /\ abandoned' = abandoned \cup {dbh[c]}
      BY <1>f, <2>1, <2>3, HandleAssumption DEF Escape, Counted, TypeOK
    <3> QED
      BY <1>d, <1>f, <2>1, <3>1
  <2> QED
    BY <1>f, <2>2, <2>3
<1>1. CASE UNCHANGED vars
  BY <1>1, <1>a DEF vars, Counted
<1>2. ASSUME NEW c \in Conn, Construct(c) PROVE RefCntExact'
  <2>1. CASE AllocEnv(c)
    BY <2>1, <1>a, <1>e DEF AllocEnv, Raise, Counted, TypeOK
  <2>2. CASE StoreEnv(c)
    BY <2>2, <1>a DEF StoreEnv, Counted, TypeOK
  <2>3. CASE SetEnvAttr(c)
    BY <2>3, <1>a, <1>e DEF SetEnvAttr, Raise, Counted, TypeOK
  <2>4. CASE AllocDbc(c)
    BY <2>4, <1>a, <1>e DEF AllocDbc, Raise, Counted, TypeOK
  <2>5. CASE AddRef(c)
    <3>1. c \notin Counted /\ Counted' = Counted \cup {c}
      BY <2>5 DEF AddRef, Counted, TypeOK
    <3> QED
      BY <2>5, <3>1, <1>b DEF AddRef
  <2>6. CASE Connect(c)
    BY <2>6, <1>a, <1>f DEF Connect, Raise, Counted, TypeOK
  <2>7. CASE Autocommit(c)
    BY <2>7, <1>a, <1>f DEF Autocommit, Raise, Counted, TypeOK
  <2> QED
    BY <1>2, <2>1, <2>2, <2>3, <2>4, <2>5, <2>6, <2>7 DEF Construct
<1>3. ASSUME NEW c \in Conn, Close(c) PROVE RefCntExact'
  <2>1. CASE Disconnect(c)
    BY <2>1, <1>a DEF Disconnect, Counted, TypeOK
  <2>2. CASE DropRef(c)
    <3>1. c \in Counted /\ Counted' = Counted \ {c}
      BY <2>2 DEF DropRef, Counted, TypeOK
    <3> QED
      BY <2>2, <3>1, <1>c DEF DropRef
  <2>3. CASE FreeDbc(c)
    BY <2>3, <1>a DEF FreeDbc, Counted, TypeOK
  <2>4. CASE FreeEnv(c)
    BY <2>4, <1>a DEF FreeEnv, Counted, TypeOK
  <2> QED
    BY <1>3, <2>1, <2>2, <2>3, <2>4 DEF Close
<1>4. ASSUME NEW c \in Conn, Client(c) PROVE RefCntExact'
  <2>1. pc[c] = "open" => dbh[c] # NoHandle
    BY <1>4, HandleAssumption
    DEF Ownership, ExclusiveHandles, HandleUsers, Allocated
  <2>2. refcnt' = refcnt /\ Counted' = Counted /\ abandoned' = abandoned
    BY <1>4, <2>1
    DEF Client, New, BeginWork, EndTran, Destroy, CloseEntry, Counted, TypeOK
  <2> QED
    BY <1>a, <2>2
<1> QED
  BY <1>1, <1>2, <1>3, <1>4 DEF Next

\* henv_ref_cnt_ never wraps and counts exactly the objects between their
\* increment and their decrement, plus the connections an escaping exception
\* lost, whatever the threads do (connection.cpp:127, 163, 181)
THEOREM RefCntCorrect == Spec => []RefCntExact
<1>1. Init => TypeOK /\ Ownership /\ RefCntExact
  BY InitType, InitOwnership, InitRefCnt
<1>2. TypeOK /\ Ownership /\ RefCntExact /\ [Next]_vars
        => (TypeOK /\ Ownership /\ RefCntExact)'
  BY NextType, NextOwnership, NextRefCnt
<1> QED
  BY <1>1, <1>2, PTL DEF Spec

-----------------------------------------------------------------------------
(* One thread.  NoStaleEnvironment needs to know why the counter may stand *)
(* in for the handle: as long as it counts anything, a connection handle   *)
(* of the environment henv_ names exists, and keeps the driver from        *)
(* releasing it.                                                           *)

LEMMA ZeroCount ==
  ASSUME TypeOK, RefCntExact
  PROVE  refcnt = 0 <=> Counted = {} /\ abandoned = {}
<1>1. /\ Cardinality(Counted) = 0 <=> Counted = {}
      /\ Cardinality(abandoned) = 0 <=> abandoned = {}
  BY CountedCardinality, FS_EmptySet
<1> QED BY <1>1, CountedCardinality DEF RefCntExact

Alone == \A c, o \in Conn : c # o => pc[c] \in Resting \/ pc[o] \in Resting

CurrentEnv ==
  /\ Alone
  /\ \A c \in Conn : pc[c] \in {"setEnvAttr", "allocDbc", "addRef"} => henv \in envs
  /\ \A c \in Conn : c \in Counted \/ pc[c] = "addRef" =>
       parent[dbh[c]] = henv /\ henv \in envs
  /\ \A d \in abandoned : parent[d] = henv /\ henv \in envs
  /\ \A c \in Conn : pc[c] \in {"allocEnv", "storeEnv"} => Counted = {} /\ abandoned = {}
  /\ \A c \in Conn : pc[c] = "storeEnv" => got[c] \in envs

LEMMA InitCurrentEnv == Init => CurrentEnv
BY DEF Init, CurrentEnv, Alone, Resting, Counted

LEMMA NextAlone == Serial /\ TypeOK /\ Alone /\ [Next]_vars => Alone'
<1> SUFFICES ASSUME Serial, TypeOK, Alone, [Next]_vars PROVE Alone'
  OBVIOUS
<1>1. CASE UNCHANGED vars
  BY <1>1 DEF Alone, vars, object
<1>2. ASSUME NEW c \in Conn, Construct(c) \/ Close(c) \/ Client(c) PROVE Alone'
  <2>1. Turn(c)
    BY <1>2 DEF Construct, Close, Client, AllocEnv, StoreEnv, SetEnvAttr, AllocDbc, AddRef,
                Connect, Autocommit, Disconnect, DropRef, FreeDbc, FreeEnv, New, BeginWork,
                EndTran, Destroy, At
  <2>2. \A o \in Conn \ {c} : pc'[o] = pc[o]
    BY <1>2 DEF Construct, Close, Client, AllocEnv, StoreEnv, SetEnvAttr, AllocDbc, AddRef,
                Connect, Autocommit, Disconnect, DropRef, FreeDbc, FreeEnv, New, BeginWork,
                EndTran, Destroy, Goto, Raise, Unwind, Escape, TypeOK, object
  <2> QED BY <2>1, <2>2 DEF Turn, Alone
<1> QED BY <1>1, <1>2 DEF Next

LEMMA NextCurrentEnv ==
  Serial /\ TypeOK /\ Ownership /\ RefCntExact /\ CurrentEnv /\ [Next]_vars => CurrentEnv'
<1> SUFFICES ASSUME Serial, TypeOK, Ownership, RefCntExact, CurrentEnv, [Next]_vars
             PROVE  CurrentEnv'
  OBVIOUS
<1> USE HandleAssumption
    DEF CurrentEnv, TypeOK, Ownership, ExclusiveHandles, HandleUsers, Allocated, Counted,
        BeforeHandle, Resting, Opening, Closing, At, Goto, Turn, object, static, driver
<1>0. Alone'
  BY NextAlone
<1>a. ASSUME NEW c \in Conn, Unwind(c) \/ Escape(c), UNCHANGED <<static, envs, parent>>,
             pc[c] \in {"allocEnv", "setEnvAttr", "allocDbc", "connect", "autocommit"}
      PROVE  CurrentEnv'
  <2>1. CASE Unwind(c)
    BY <1>0, <1>a, <2>1 DEF Unwind, CloseEntry
  <2>2. CASE Escape(c)
    BY <1>0, <1>a, <2>2 DEF Escape
  <2> QED BY <1>a, <2>1, <2>2
<1>1. CASE UNCHANGED vars
  BY <1>0, <1>1 DEF vars
<1>2. ASSUME NEW c \in Conn, Construct(c) PROVE CurrentEnv'
  <2>1. CASE AllocEnv(c)
    BY <1>0, <2>1, <1>a DEF AllocEnv, Raise
  <2>2. CASE StoreEnv(c)
    BY <1>0, <2>2 DEF StoreEnv
  <2>3. CASE SetEnvAttr(c)
    BY <1>0, <2>3, <1>a DEF SetEnvAttr, Raise
  <2>4. CASE AllocDbc(c)
    BY <1>0, <2>4, <1>a DEF AllocDbc, Raise
  <2>5. CASE AddRef(c)
    BY <1>0, <2>5 DEF AddRef
  <2>6. CASE Connect(c)
    BY <1>0, <2>6, <1>a DEF Connect, Raise
  <2>7. CASE Autocommit(c)
    BY <1>0, <2>7, <1>a DEF Autocommit, Raise
  <2> QED
    BY <1>2, <2>1, <2>2, <2>3, <2>4, <2>5, <2>6, <2>7 DEF Construct
<1>3. ASSUME NEW c \in Conn, Close(c) PROVE CurrentEnv'
  <2>1. CASE Disconnect(c)
    BY <1>0, <2>1 DEF Disconnect
  <2>2. CASE DropRef(c)
    BY <1>0, <2>2 DEF DropRef
  <2>3. CASE FreeDbc(c)
    BY <1>0, <2>3 DEF FreeDbc
  <2>4. CASE FreeEnv(c)
    \* what is counted holds a child of henv, which the driver then keeps
    <3>1. (Counted # {} \/ abandoned # {}) => Children(henv) # {}
      BY DEF Children
    <3> QED BY <1>0, <2>4, <3>1 DEF FreeEnv
  <2> QED
    BY <1>3, <2>1, <2>2, <2>3, <2>4 DEF Close
<1>4. ASSUME NEW c \in Conn, Client(c) PROVE CurrentEnv'
  <2>1. CASE New(c)
    BY <1>0, <2>1, ZeroCount DEF New
  <2>2. CASE BeginWork(c) \/ EndTran(c) \/ Destroy(c)
    BY <1>0, <2>2 DEF BeginWork, EndTran, Destroy, CloseEntry
  <2> QED BY <1>4, <2>1, <2>2 DEF Client
<1> QED
  BY <1>1, <1>2, <1>3, <1>4 DEF Next

\* In one thread no constructor hands the driver a released environment,
\* although henv_ survives the release and only the counter decides whether to
\* allocate; clients may even destroy inside transactions (connection.cpp:116-126)
THEOREM EnvironmentCurrent == Spec => []NoStaleEnvironment
<1>1. CASE Serial
  <2> DEFINE IInv == TypeOK /\ Ownership /\ RefCntExact /\ CurrentEnv
  <2>1. Init => IInv
    BY InitType, InitOwnership, InitRefCnt, InitCurrentEnv
  <2>2. IInv /\ [Next]_vars => IInv'
    BY <1>1, NextType, NextOwnership, NextRefCnt, NextCurrentEnv
  <2>3. IInv => NoStaleEnvironment
    BY DEF CurrentEnv, NoStaleEnvironment
  <2> HIDE DEF IInv
  <2> QED BY <2>1, <2>2, <2>3, PTL DEF Spec
<1>2. CASE ~Serial
  <2>1. NoStaleEnvironment
    BY <1>2 DEF NoStaleEnvironment
  <2> QED BY <2>1, PTL
<1> QED BY <1>1, <1>2

=============================================================================
