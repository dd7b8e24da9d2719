------------------------------ MODULE MCAccess -------------------------------
(* A small instance of Access: clients, requests and sessions are          *)
(* interchangeable. At the start every rotation is allowed, and those of   *)
(* one client are also denied; both have a token.                          *)
EXTENDS Access, TLC

MCInit ==
  /\ Init
  /\ program = "mcp" =>
       /\ \A s \in Subject : token[s] = Issued
       /\ \E s \in Subject : policy = {p \in Row : p.effect = "allow" \/ p.subject = s}

MCSpec == MCInit /\ [][Next]_vars

Symmetry == Permutations(Subject) \cup Permutations(Req) \cup Permutations(Session)
=============================================================================
