------------------------------ MODULE SharedEnv ------------------------------
(***************************************************************************)
(* What the static environment of db::connection promises its users: at    *)
(* most one environment exists; it is created when there is none, an       *)
(* object joins only an environment that exists, and it is released only   *)
(* when no object uses it.                                                 *)
(***************************************************************************)
EXTENDS Naturals

CONSTANTS User, Environment

VARIABLES users, environments

vars == <<users, environments>>

Init == users = {} /\ environments = {}

Create ==
  /\ environments = {}
  /\ \E e \in Environment : environments' = {e}
  /\ UNCHANGED users

Join(u) ==
  /\ environments # {}
  /\ u \notin users
  /\ users' = users \cup {u}
  /\ UNCHANGED environments

Leave(u) ==
  /\ u \in users
  /\ users' = users \ {u}
  /\ UNCHANGED environments

Release ==
  /\ users = {}
  /\ environments' = {}
  /\ UNCHANGED users

Next == Create \/ Release \/ \E u \in User : Join(u) \/ Leave(u)

\* An environment nobody uses is released or joined
Progress == environments # {} /\ users = {} /\ (Release \/ \E u \in User : Join(u))

SafeSpec == Init /\ [][Next]_vars
Settling == WF_vars(Progress)

Spec == SafeSpec /\ Settling

=============================================================================
