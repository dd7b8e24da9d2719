-------------------------- MODULE ExclusiveTenure --------------------------
(***************************************************************************)
(* What the rotation store promises about the job rows of one secret, with *)
(* no fences, clocks or rows: a tenure over a secret is granted to one     *)
(* executor at a time, it may be taken away or given up at any moment, and *)
(* a write lands only on behalf of the executor whose tenure it is.        *)
(***************************************************************************)
CONSTANTS Secret, Executor, NoOwner

VARIABLES tenant,  \* who holds each secret, or NoOwner
          author   \* who wrote each secret's job rows last, or NoOwner

vars == <<tenant, author>>

Init == /\ tenant = [s \in Secret |-> NoOwner]
        /\ author = [s \in Secret |-> NoOwner]

Grant(e, s)  == /\ tenant' = [tenant EXCEPT ![s] = e]
                /\ UNCHANGED author

Vacate(s)    == /\ tenant' = [tenant EXCEPT ![s] = NoOwner]
                /\ UNCHANGED author

Write(e, s)  == /\ tenant[s] = e
                /\ author' = [author EXCEPT ![s] = e]
                /\ UNCHANGED tenant

Next == \/ \E s \in Secret : Vacate(s)
        \/ \E e \in Executor, s \in Secret : Grant(e, s) \/ Write(e, s)

Spec == Init /\ [][Next]_vars
=============================================================================
