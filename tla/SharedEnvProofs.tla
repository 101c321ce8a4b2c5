--------------------------- MODULE SharedEnvProofs ---------------------------
(***************************************************************************)
(* Connections in one thread: what they leave behind, and that their two   *)
(* statics implement SharedEnv.  The premises say what the proofs need of  *)
(* the clients and of the diagnostics; without them the statements fail    *)
(* (a handle destroyed inside a transaction is leaked).                    *)
(***************************************************************************)
EXTENDS ConnectionProofs

\* What is known of connections in any number of objects in one thread
OneThread == TypeOK /\ Ownership /\ RefCntExact /\ CurrentEnv

LEMMA InitOneThread == Init => OneThread
BY InitType, InitOwnership, InitRefCnt, InitCurrentEnv DEF OneThread

LEMMA NextOneThread == ASSUME Serial PROVE OneThread /\ [Next]_vars => OneThread'
BY NextType, NextOwnership, NextRefCnt, NextCurrentEnv DEF OneThread

-----------------------------------------------------------------------------
(* Handles.  The driver frees a connection handle only when its session is *)
(* over, so the proof follows the session of each handle: when clients end *)
(* their transactions, every handle that exists is in use or abandoned.    *)

HandlesKept ==
  /\ \A d \in Allocated \ abandoned : \E c \in HandleUsers : dbh[c] = d
  /\ \A d \in Dbc \ Allocated : session[d] = "none"
  /\ \A c \in Conn :
       /\ pc[c] \in {"addRef", "connect", "dropRef", "freeDbc"}
            => session[dbh[c]] = "none"
       /\ pc[c] \in {"autocommit", "disconnect"}
            => session[dbh[c]] # "transaction"

LEMMA InitHandlesKept == Init => HandlesKept
BY DEF Init, HandlesKept, Allocated, HandleUsers

\* A step that does not destroy an object inside a transaction
EndsFirst == \A c \in Conn : Destroy(c) => session[dbh[c]] # "transaction"

LEMMA ClientsEndFirst == ASSUME EndsTran PROVE EndsFirst
BY DEF EndsFirst, Destroy

LEMMA NextHandlesKept ==
  TypeOK /\ Ownership /\ HandlesKept /\ EndsFirst /\ [Next]_vars => HandlesKept'
<1> SUFFICES ASSUME TypeOK, Ownership, HandlesKept, EndsFirst, [Next]_vars
             PROVE  HandlesKept'
  OBVIOUS
<1> USE HandleAssumption
    DEF HandlesKept, TypeOK, Ownership, ExclusiveHandles, HandleUsers, Allocated,
        BeforeHandle, At, Goto, object, static, driver
<1>a. ASSUME NEW c \in Conn, Unwind(c) \/ Escape(c), UNCHANGED <<parent, session>>,
             pc[c] \in {"allocEnv", "setEnvAttr", "allocDbc", "connect", "autocommit"}
      PROVE  HandlesKept'
  <2>1. CASE Unwind(c)
    BY <1>a, <2>1 DEF Unwind, CloseEntry
  <2>2. CASE Escape(c)
    BY <1>a, <2>2 DEF Escape
  <2> QED BY <1>a, <2>1, <2>2
<1>1. CASE UNCHANGED vars
  BY <1>1 DEF vars
<1>2. ASSUME NEW c \in Conn, Construct(c) PROVE HandlesKept'
  <2>1. CASE AllocEnv(c)
    BY <2>1, <1>a DEF AllocEnv, Raise
  <2>2. CASE StoreEnv(c)
    BY <2>2 DEF StoreEnv
  <2>3. CASE SetEnvAttr(c)
    BY <2>3, <1>a DEF SetEnvAttr, Raise
  <2>4. CASE AllocDbc(c)
    BY <2>4, <1>a DEF AllocDbc, Raise
  <2>5. CASE AddRef(c)
    BY <2>5 DEF AddRef
  <2>6. CASE Connect(c)
    BY <2>6, <1>a DEF Connect, Raise
  <2>7. CASE Autocommit(c)
    BY <2>7, <1>a DEF Autocommit, Raise
  <2> QED
    BY <1>2, <2>1, <2>2, <2>3, <2>4, <2>5, <2>6, <2>7 DEF Construct
<1>3. ASSUME NEW c \in Conn, Close(c) PROVE HandlesKept'
  <2>1. CASE Disconnect(c)
    BY <2>1 DEF Disconnect
  <2>2. CASE DropRef(c)
    BY <2>2 DEF DropRef
  <2>3. CASE FreeDbc(c)
    BY <2>3 DEF FreeDbc
  <2>4. CASE FreeEnv(c)
    BY <2>4 DEF FreeEnv
  <2> QED
    BY <1>3, <2>1, <2>2, <2>3, <2>4 DEF Close
<1>4. ASSUME NEW c \in Conn, Client(c) PROVE HandlesKept'
  <2>1. CASE New(c) \/ Destroy(c)
    BY <2>1 DEF New, Destroy, EndsFirst, CloseEntry
  <2>2. CASE BeginWork(c) \/ EndTran(c)
    BY <2>2 DEF BeginWork, EndTran
  <2> QED BY <1>4, <2>1, <2>2 DEF Client
<1> QED
  BY <1>1, <1>2, <1>3, <1>4 DEF Next

\* In one thread, as long as clients end their transactions, henv_ is never
\* overwritten while a connection handle depends on the environment it names,
\* whatever fails and whatever escapes (connection.cpp:116-118)
THEOREM HenvNeverOrphans == ASSUME Serial, EndsTran PROVE Spec => HenvKept
<1> DEFINE IInv == OneThread /\ HandlesKept
<1>1. Init => IInv
  BY InitOneThread, InitHandlesKept
<1>2. IInv /\ [Next]_vars => IInv'
  BY NextOneThread, NextHandlesKept, ClientsEndFirst DEF OneThread
<1>3. IInv /\ [Next]_vars => [henv' # henv => Children(henv) = {}]_vars
  <2> SUFFICES ASSUME IInv, Next, henv' # henv PROVE Children(henv) = {}
    OBVIOUS
  <2>1. PICK c \in Conn : StoreEnv(c)
    BY DEF Next, Construct, Close, Client, AllocEnv, SetEnvAttr, AllocDbc, AddRef, Connect,
           Autocommit, Disconnect, DropRef, FreeDbc, FreeEnv, New, BeginWork, EndTran,
           Destroy, static
  <2>2. /\ pc[c] = "storeEnv" /\ Counted = {} /\ abandoned = {}
    BY <2>1 DEF StoreEnv, At, OneThread, CurrentEnv
  <2>3. HandleUsers = {}
    BY <2>1, <2>2 DEF OneThread, CurrentEnv, Alone, Resting, HandleUsers, Counted
  <2> QED BY <2>2, <2>3 DEF HandlesKept, Children
<1> HIDE DEF IInv
<1> QED BY <1>1, <1>2, <1>3, PTL DEF Spec, HenvKept

-----------------------------------------------------------------------------
(* Environments.  When the diagnostics fit as well nothing escapes from a  *)
(* constructor, and what exists follows from where the one object that is  *)
(* moving has got to.                                                      *)

OneEnv ==
  /\ abandoned = {}
  /\ \A c \in Conn : pc[c] = "allocEnv" => envs = {}
  /\ \A c \in Conn : pc[c] = "storeEnv" => envs = {got[c]}
  /\ envs \subseteq {henv} \/ \E c \in Conn : pc[c] = "storeEnv"
  /\ Quiet /\ Live = {} => envs = {}
  /\ \A c \in Conn : pc[c] = "freeEnv" => dbh[c] \notin Allocated

LEMMA InitOneEnv == Init => OneEnv
BY DEF Init, OneEnv

\* Nobody is about to use a handle: there is none
LEMMA NobodyHolds ==
  ASSUME HandlesKept, abandoned = {}, HandleUsers = {} PROVE Allocated = {}
BY DEF HandlesKept

LEMMA NextOneEnv ==
  ASSUME Serial, DiagFits
  PROVE  OneThread /\ HandlesKept /\ OneEnv /\ [Next]_vars => OneEnv'
<1> SUFFICES ASSUME OneThread, HandlesKept, OneEnv, [Next]_vars PROVE OneEnv'
  OBVIOUS
<1>0. TypeOK /\ Ownership /\ RefCntExact /\ CurrentEnv /\ Alone'
  BY NextAlone DEF OneThread, CurrentEnv
<1> USE <1>0, HandleAssumption
    DEF OneEnv, TypeOK, Ownership, ExclusiveHandles, HandleUsers, Alone, Quiet, Live,
        BeforeHandle, Resting, At, Goto, Turn, object, static, driver
\* throw_on_error never abandons a handle
<1>a. ASSUME NEW c \in Conn, pc[c] \in {"setEnvAttr", "allocDbc", "connect", "autocommit"},
             Unwind(c), UNCHANGED <<static, envs, parent>>
      PROVE  OneEnv'
  BY <1>a DEF Unwind, CloseEntry, Allocated, CurrentEnv, Counted
<1>1. CASE UNCHANGED vars
  BY <1>1 DEF vars, Allocated
<1>2. ASSUME NEW c \in Conn, Construct(c) PROVE OneEnv'
  <2>1. CASE AllocEnv(c)
    BY <2>1 DEF AllocEnv, Raise, Unwind, Escape, CloseEntry, Allocated
  <2>2. CASE StoreEnv(c)
    BY <2>2 DEF StoreEnv, Allocated
  <2>3. CASE SetEnvAttr(c)
    BY <2>3, <1>a DEF SetEnvAttr, CurrentEnv, Raise, Allocated
  <2>4. CASE AllocDbc(c)
    BY <2>4, <1>a DEF AllocDbc, CurrentEnv, Raise, Allocated
  <2>5. CASE AddRef(c)
    BY <2>5 DEF AddRef, Allocated
  <2>6. CASE Connect(c)
    BY <2>6, <1>a DEF Connect, Raise, Allocated
  <2>7. CASE Autocommit(c)
    BY <2>7, <1>a DEF Autocommit, Raise, Allocated
  <2> QED
    BY <1>2, <2>1, <2>2, <2>3, <2>4, <2>5, <2>6, <2>7 DEF Construct
<1>3. ASSUME NEW c \in Conn, Close(c) PROVE OneEnv'
  <2>1. CASE Disconnect(c)
    BY <2>1 DEF Disconnect, Allocated
  <2>2. CASE DropRef(c)
    BY <2>2 DEF DropRef, Allocated
  <2>3. CASE FreeDbc(c)
    BY <2>3 DEF FreeDbc, Allocated, HandlesKept
  <2>4. CASE FreeEnv(c)
    <3>1. HandleUsers' = HandleUsers /\ Live' = Live /\ Allocated' = Allocated
      BY <2>4 DEF FreeEnv, Allocated
    <3>2. Live = {} => HandleUsers = {}
      BY <2>4 DEF FreeEnv
    <3>3. Live = {} => Children(henv) = {}
      BY <3>2, NobodyHolds DEF Children
    <3> QED BY <2>4, <3>3 DEF FreeEnv, Allocated
  <2> QED
    BY <1>3, <2>1, <2>2, <2>3, <2>4 DEF Close
<1>4. ASSUME NEW c \in Conn, Client(c) PROVE OneEnv'
  <2>1. CASE New(c)
    <3>1. refcnt = 0 => Live = {} 
      BY ZeroCount DEF Counted
    <3>2. Quiet
      BY <2>1 DEF New
    <3> QED BY <2>1, <3>1, <3>2 DEF New, Allocated
  <2>2. CASE BeginWork(c) \/ EndTran(c) \/ Destroy(c)
    BY <2>2 DEF BeginWork, EndTran, Destroy, CloseEntry, Allocated
  <2> QED BY <1>4, <2>1, <2>2 DEF Client
<1> QED
  BY <1>1, <1>2, <1>3, <1>4 DEF Next

\* The whole invariant of one thread, tidy clients and short diagnostics
Tidy == OneThread /\ HandlesKept /\ OneEnv

LEMMA InitTidy == Init => Tidy
BY InitOneThread, InitHandlesKept, InitOneEnv DEF Tidy

LEMMA TidyStep ==
  ASSUME Serial, DiagFits PROVE Tidy /\ EndsFirst /\ [Next]_vars => Tidy'
BY NextOneThread, NextHandlesKept, NextOneEnv DEF Tidy, OneThread

LEMMA NextTidy == ASSUME Serial, EndsTran, DiagFits PROVE Tidy /\ [Next]_vars => Tidy'
BY TidyStep, ClientsEndFirst

LEMMA TidyLeaksNothing == Tidy => NothingLeaked
<1> SUFFICES ASSUME Tidy, Quiet
             PROVE  /\ Allocated = {dbh[c] : c \in Live}
                    /\ envs = IF Live = {} THEN {} ELSE {henv}
  BY DEF NothingLeaked
<1> USE DEF Tidy, OneThread, Quiet, Resting
<1>1. HandleUsers = Live
  BY DEF HandleUsers, Live
<1>2. Allocated = {dbh[c] : c \in Live}
  BY <1>1 DEF HandlesKept, OneEnv, Ownership, ExclusiveHandles, Allocated
<1>3. ASSUME NEW c \in Live PROVE envs = {henv}
  BY <1>3 DEF Live, Counted, CurrentEnv, OneEnv
<1>4. Live = {} => envs = {}
  BY DEF OneEnv
<1> QED BY <1>2, <1>3, <1>4

\* In one thread, when clients end their transactions and diagnostics fit,
\* constructors and destructors leave nothing behind, whichever calls fail:
\* between calls the driver holds the connections of the live objects and,
\* as long as there is one, a single environment (connection.cpp:93-196)
THEOREM NothingIsLeaked == ASSUME Serial, EndsTran, DiagFits PROVE Spec => []NothingLeaked
BY TidyLeaksNothing, InitTidy, NextTidy, PTL DEF Spec

-----------------------------------------------------------------------------
(* Refinement.  The users of SharedEnv are the objects that hold a handle  *)
(* of the driver; each step of an object is a stutter, except the four     *)
(* that allocate or free a handle.                                         *)

Users == {c \in Conn : dbh[c] \in Allocated}

\* The objects hold the handles they are going to use, and nothing else
LEMMA UsersAreHolders == Tidy => Users = HandleUsers
<1> SUFFICES ASSUME Tidy, NEW c \in Conn PROVE c \in Users <=> c \in HandleUsers
  BY DEF Users, HandleUsers
<1> QED
  BY HandleAssumption
  DEF Tidy, OneThread, OneEnv, TypeOK, Ownership, ExclusiveHandles, BeforeHandle, Opening,
      Closing, Resting, Users, HandleUsers, Allocated

LEMMA UsersAreHoldersNext == Tidy' => (Users = HandleUsers)'
BY UsersAreHolders, PTL

LEMMA InitShared == Init => Shared!Init
BY HandleAssumption DEF Init, Shared!Init, Allocated

\* The steps that change what SharedEnv sees, and the others
LEMMA StepOfUsers ==
  ASSUME Serial, EndsTran, DiagFits, Tidy, [Next]_vars
  PROVE  \/ UNCHANGED <<Users, envs>>
         \/ UNCHANGED Users /\ envs = {} /\ \E e \in Env : envs' = {e}
         \/ UNCHANGED Users /\ Users = {} /\ envs' = {}
         \/ UNCHANGED envs /\ envs # {} /\ \E c \in Conn \ Users : Users' = Users \cup {c}
         \/ UNCHANGED envs /\ \E c \in Users : Users' = Users \ {c}
<1>0. /\ TypeOK /\ Ownership /\ CurrentEnv /\ HandlesKept /\ OneEnv
      /\ Users = HandleUsers
  BY UsersAreHolders DEF Tidy, OneThread
<1>1. Users' = HandleUsers'
  BY NextTidy, UsersAreHoldersNext
<1> USE <1>0, <1>1, HandleAssumption
    DEF TypeOK, Ownership, BeforeHandle, ExclusiveHandles, Opening, Closing, Resting,
        HandleUsers, At, Goto, object, static, driver
<1>2. CASE UNCHANGED vars
  BY <1>2 DEF vars
<1>3. ASSUME NEW c \in Conn, Construct(c)
      PROVE  \/ UNCHANGED <<Users, envs>>
             \/ UNCHANGED Users /\ envs = {} /\ \E e \in Env : envs' = {e}
             \/ UNCHANGED envs /\ envs # {} /\ \E u \in Conn \ Users : Users' = Users \cup {u}
  <2>1. CASE AllocEnv(c)
    BY <2>1 DEF AllocEnv, Raise, Unwind, Escape, CloseEntry, OneEnv
  <2>2. CASE StoreEnv(c)
    BY <2>2 DEF StoreEnv
  <2>3. CASE SetEnvAttr(c)
    BY <2>3 DEF SetEnvAttr, Raise, Unwind, CloseEntry, CurrentEnv
  <2>4. CASE AllocDbc(c)
    <3>1. c \notin Users /\ henv \in envs
      BY <2>4 DEF AllocDbc, CurrentEnv
    <3>2. CASE pc'[c] = "addRef"
      BY <2>4, <3>1, <3>2 DEF AllocDbc, Raise, Unwind, CloseEntry
    <3>3. CASE pc'[c] # "addRef"
      BY <2>4, <3>1, <3>3 DEF AllocDbc, Raise, Unwind, CloseEntry
    <3> QED BY <3>2, <3>3
  <2>5. CASE AddRef(c)
    BY <2>5 DEF AddRef
  <2>6. CASE Connect(c)
    BY <2>6 DEF Connect, Raise, Unwind, CloseEntry, Allocated
  <2>7. CASE Autocommit(c)
    BY <2>7 DEF Autocommit, Raise, Unwind, CloseEntry, Allocated
  <2> QED
    BY <1>3, <2>1, <2>2, <2>3, <2>4, <2>5, <2>6, <2>7 DEF Construct
<1>4. ASSUME NEW c \in Conn, Close(c)
      PROVE  \/ UNCHANGED <<Users, envs>>
             \/ UNCHANGED Users /\ Users = {} /\ envs' = {}
             \/ UNCHANGED envs /\ \E u \in Users : Users' = Users \ {u}
  <2>1. CASE Disconnect(c)
    BY <2>1 DEF Disconnect
  <2>2. CASE DropRef(c)
    BY <2>2 DEF DropRef
  <2>3. CASE FreeDbc(c)
    BY <2>3 DEF FreeDbc
  <2>4. CASE FreeEnv(c)
    <3>1. UNCHANGED Users
      BY <2>4 DEF FreeEnv
    <3>2. CASE Children(henv) = {}
      <4>1. Live = {}
        BY <2>4, <3>2 DEF Live, CurrentEnv, Counted, Children
      <4>2. Users = {}
        BY <2>4, <4>1 DEF FreeEnv, Live, CurrentEnv, Alone
      <4>3. envs \subseteq {henv}
        BY <2>4 DEF FreeEnv, OneEnv, CurrentEnv, Alone
      <4> QED BY <2>4, <3>1, <3>2, <4>2, <4>3 DEF FreeEnv
    <3> QED BY <2>4, <3>1, <3>2 DEF FreeEnv
  <2> QED
    BY <1>4, <2>1, <2>2, <2>3, <2>4 DEF Close
<1>5. ASSUME NEW c \in Conn, Client(c) PROVE UNCHANGED <<Users, envs>>
  BY <1>5 DEF Client, New, BeginWork, EndTran, Destroy, CloseEntry, Allocated
<1> QED
  BY <1>2, <1>3, <1>4, <1>5 DEF Next

LEMMA NextShared ==
  ASSUME Serial, EndsTran, DiagFits
  PROVE  Tidy /\ [Next]_vars => [Shared!Next]_(Shared!vars)
BY StepOfUsers
DEF Users, Shared!Next, Shared!vars, Shared!Create, Shared!Release, Shared!Join, Shared!Leave

\* Under the same premises the two statics and the driver implement one
\* shared environment: created when there is none, joined while it exists,
\* released after its last user (connection.cpp:106-196)
THEOREM RefinesSharedEnv ==
  ASSUME Serial, EndsTran, DiagFits PROVE Spec => ImplementsSharedEnv
BY InitTidy, NextTidy, InitShared, NextShared, PTL
DEF Spec, ImplementsSharedEnv, Shared!SafeSpec

=============================================================================
