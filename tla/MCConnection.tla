---------------------------- MODULE MCConnection ----------------------------
(* Model-checking instance of Connection.                                   *)
EXTENDS Connection, TLC

Symmetry == Permutations(Conn) \cup Permutations(Env) \cup Permutations(Dbc)
=============================================================================
