-------------------------------- MODULE MCUtl --------------------------------
(* Model-checking instances of Utl.  select and single have parameters and   *)
(* results, single a result buffer of one row; insert has parameters only.   *)
EXTENDS Utl, TLC

CONSTANTS select, single, insert, p1, p2, r1, r2

\* The texts of statements are interchangeable
MCSymmetry == Permutations(Sql)

MCOwnPar == [u \in Utl |-> IF u = select THEN p1 ELSE p2]
MCOwnRes == [u \in Utl |-> CASE u = select -> r1 [] u = single -> r2 [] OTHER -> NoBuf]
MCSize == [b \in Buf |-> (p1 :> 3 @@ p2 :> 3 @@ r1 :> 2 @@ r2 :> 1)[b]]
=============================================================================
