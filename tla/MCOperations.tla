---------------------------- MODULE MCOperations ----------------------------
(* Small instances of Operations. Its run checks liveness, so ids and      *)
(* reconcilers are not declared symmetric.                                 *)
EXTENDS Operations
=============================================================================
