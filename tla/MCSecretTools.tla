--------------------------- MODULE MCSecretTools ----------------------------
(* SecretTools for TLC: processes, requests and secrets are alike.         *)
EXTENDS SecretTools, TLC

(* No aliases; or one name that every name stands for, itself included.    *)
OwnNames == {<<n, n>> : n \in Name}
OneAlias == Name \X {CHOOSE n \in Name : TRUE}

(* No snapshot yet, and folders play no part.                              *)
CacheInit == Init /\ snapDisk = None /\ \A i \in Id : vault[i] # None => ~vault[i].in
CacheSpec == CacheInit /\ [][Next]_vars

(* Changes of the vault and deaths of processes share one bound.           *)
TwoEvents == edits + crashes <= 2

Symmetry == Permutations(Req) \cup Permutations(Proc) \cup Permutations(Value)
=============================================================================
