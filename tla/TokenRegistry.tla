--------------------------- MODULE TokenRegistry ---------------------------
(***************************************************************************)
(* What server/identity promises: one table of tokens, changed by one      *)
(* request at a time, each touching the one token it is about. There are   *)
(* no files, locks or processes here. Times are relative to the present:   *)
(* `life` and `cut` say how far expiresAt and supersededAt lie ahead, and  *)
(* are 0 once they have passed.                                            *)
(***************************************************************************)
EXTENDS Naturals

CONSTANTS Token, MaxTime, Forever, None

VARIABLE token   \* the record of each token, None before it is issued

Time == 0 .. MaxTime \cup {Forever}

Record == [life : Time, cut : Time, revoked : BOOLEAN]

Init == token = [t \in Token |-> None]

(* issueToken                                                              *)
Issue(t, life) ==
  /\ token[t] = None
  /\ token' = [token EXCEPT ![t] = [life |-> life, cut |-> Forever, revoked |-> FALSE]]

(* revokeToken                                                             *)
Revoke(t) ==
  /\ token[t] # None
  /\ token' = [token EXCEPT ![t].revoked = TRUE]

(* The second half of rotateToken.                                         *)
Supersede(t, cut) ==
  /\ token[t] # None
  /\ token' = [token EXCEPT ![t].cut = cut]

Sooner(t) == IF t = Forever \/ t = 0 THEN t ELSE t - 1

Older(r) == IF r = None THEN r ELSE [r EXCEPT !.life = Sooner(@), !.cut = Sooner(@)]

Age == token' = [t \in Token |-> Older(token[t])]

Next ==
  \/ Age
  \/ \E t \in Token :
       \/ Revoke(t)
       \/ \E n \in Time : Issue(t, n) \/ Supersede(t, n)

Spec == Init /\ [][Next]_token

Valid_noCutoff(t) == token[t] # None /\ ~token[t].revoked /\ token[t].life # 0

(* verifyToken, for a token of the right hash and audience.                *)
Valid(t) == /\ token[t] # None
            /\ ~token[t].revoked /\ token[t].life # 0 /\ token[t].cut # 0
=============================================================================
