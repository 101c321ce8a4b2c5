------------------------------- MODULE MCSqlSet -------------------------------
(* SqlSet with the five kinds of enum RDBMS (enums.hpp:26-33) *)
EXTENDS SqlSet, TLC

MCRank == ("sql" :> 0) @@ ("db2" :> 1) @@ ("oracle" :> 2)
            @@ ("mssql" :> 3) @@ ("mariadb" :> 4)

=============================================================================
