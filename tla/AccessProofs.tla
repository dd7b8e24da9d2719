---------------------------- MODULE AccessProofs ----------------------------
(***************************************************************************)
(* Theorems about Access, for any number of clients, addresses, sessions   *)
(* and requests under way, and whatever operators change: no withdrawn     *)
(* credential gets past the middleware, a denial that setPolicy has        *)
(* answered holds, and no address is kept out for longer than a window.    *)
(***************************************************************************)
EXTENDS Access, FiniteSetTheorems, TLAPS

Credential ==
  [kind : {"nothing", "vwsk", "legacy", "secret", "access", "refresh"},
   sub : Subject \cup {None}, ok : BOOLEAN, life : Nat, cert : BOOLEAN]

Seat ==
  [pc : {"idle", "auth", "token", "handle", "tool", "rotate"},
   op : {"none", "get", "token", "initialize", "close", "post"},
   cred : Credential, sub : Subject \cup {None}, of : Session \cup {None},
   on : Resource \cup {None}, late : BOOLEAN]

TypeOK ==
  /\ program \in Program /\ clients \subseteq Subject /\ legacy \in BOOLEAN
  /\ token \in [Subject -> Registry!Record \cup {None}]
  /\ jwt \subseteq Credential
  /\ limit \in [Addr -> [seen : [0 .. Window - 1 -> Nat], until : Nat]]
  /\ session \in [Session -> Subject \cup {None, "unused", "closed"}]
  /\ policy \subseteq Row /\ admin \in Row \cup {None}
  /\ req \in [Req -> Seat]
  /\ gone \in [Subject -> Nat] /\ blocked \in [Addr -> Nat] /\ denied \subseteq Row

(* A request that came with a withdrawn credential waits for a             *)
(* verification that will refuse it: what `late` says of a credential, the *)
(* checks of its middleware find out.                                      *)
LateIsRefused ==
  \A r \in Req : At(r, "auth") =>
    /\ req[r].cred.kind = "vwsk" => req[r].cred.sub \in Subject /\ token[req[r].cred.sub] # None
    /\ req[r].late /\ program # "open" => ~Accepts(req[r].cred)

(* A client has not gone, and an access token of somebody who has, runs    *)
(* out AccessLife after that.                                              *)
TokensRunOut ==
  /\ \A s \in clients : gone[s] = 0
  /\ \A c \in jwt :
       /\ c.kind \in {"access", "refresh"} /\ c.sub \in Subject
       /\ program = "oauth2" /\ c.kind = "access" /\ c.life > 0 =>
            c.life + gone[c.sub] <= AccessLife

(* A block and what is left of it make up a window, in which nothing was   *)
(* counted: when it is over, the limiter has forgotten every request.      *)
BlocksAddUp ==
  \A a \in Addr :
    LET quiet(n) == \A t \in 0 .. Window - 1 : t < n => limit[a].seen[t] = 0 IN
    IF limit[a].until = 0 THEN blocked[a] = 0 \/ quiet(Window)
    ELSE blocked[a] + limit[a].until = Window /\ quiet(blocked[a])

(* What is denied is in the table.                                         *)
DeniedIsStored == \A p \in denied : p \in policy /\ p.effect = "deny"

IInv == /\ TypeOK /\ WithdrawnIsRefused /\ LateIsRefused /\ TokensRunOut
        /\ BlocksAddUp /\ DeniedIsStored

-----------------------------------------------------------------------------
(* What Signed makes.                                                      *)
LEMMA SignedIsTyped ==
  ASSUME NEW t \in Subject, NEW n \in Nat, NEW k \in {"access", "refresh"}, NEW b \in BOOLEAN
  PROVE  /\ Signed(k, t, b, n) \in Credential
         /\ Signed(k, t, b, n).kind = k /\ Signed(k, t, b, n).sub = t
         /\ Signed(k, t, b, n).life = n
BY DEF Signed, Cred, Credential

(* Every credential that can be shown is one, a workload token among them  *)
(* is in the registry, and the middleware accepts none that is withdrawn:  *)
(* for a JWT of somebody who is gone because it has expired by then.       *)
LEMMA ShownIsKnown ==
  ASSUME IInv, NEW x \in Shown
  PROVE  /\ x \in Credential
         /\ x.kind = "vwsk" => x.sub \in Subject /\ token[x.sub] # None
         /\ program # "open" /\ Withdrawn(x) => ~Accepts(x)
<1> USE AccessAssumption DEF IInv, TypeOK
<1>1. CASE program = "open"
  <2>1. x = Nothing
    BY <1>1 DEF Shown
  <2>2. Nothing \in Credential /\ Nothing.kind # "vwsk"
    BY DEF Nothing, Cred, Credential
  <2>3. x \in Credential /\ x.kind # "vwsk"
    BY <2>1, <2>2
  <2> QED
    BY <1>1, <2>3
<1>2. CASE program # "open" /\ Workload
  <2>1. \/ \E s \in Subject, ok \in BOOLEAN : token[s] # None /\ x = Cred("vwsk", s, ok)
        \/ \E s \in Subject : x = Cred("legacy", s, FALSE)
    <3>1. x \in WorkloadTokens \/ x \in LegacyTokens
      BY <1>2 DEF Shown
    <3>2. CASE x \in WorkloadTokens
      <4>1. /\ \E s \in Subject : x = Cred("vwsk", s, TRUE) \/ x = Cred("vwsk", s, FALSE)
            /\ token[x.sub] # None
        <5> HIDE DEF IInv
        <5> QED
          BY <3>2 DEF WorkloadTokens
      <4>2. PICK s \in Subject, ok \in BOOLEAN : x = Cred("vwsk", s, ok)
        BY <4>1
      <4>3. x.sub = s
        BY <4>2 DEF Cred
      <4> QED
        BY <4>1, <4>2, <4>3
    <3>3. CASE x \in LegacyTokens
      BY <3>3 DEF LegacyTokens
    <3> QED
      BY <3>1, <3>2, <3>3
  <2>2. (x.kind = "vwsk" => x.sub \in Subject) /\ Withdrawn(x) => ~Accepts(x)
    BY <1>2 DEF Workload, Withdrawn, Accepts, ResolveIdentity, Registry!Valid
  <2>3. \A s \in Subject, ok \in BOOLEAN :
          /\ Cred("vwsk", s, ok) \in Credential /\ Cred("vwsk", s, ok).sub = s
          /\ Cred("legacy", s, ok) \in Credential /\ Cred("legacy", s, ok).kind # "vwsk"
    BY DEF Cred, Credential
  <2>4. CASE \E s \in Subject, ok \in BOOLEAN : token[s] # None /\ x = Cred("vwsk", s, ok)
    <3>1. PICK s \in Subject, ok \in BOOLEAN : token[s] # None /\ x = Cred("vwsk", s, ok)
      BY <2>4
    <3>2. x \in Credential /\ x.sub = s
      BY <2>3, <3>1
    <3> QED
      BY <2>2, <3>1, <3>2
  <2>5. CASE \E s \in Subject : x = Cred("legacy", s, FALSE)
    <3>1. PICK s \in Subject : x = Cred("legacy", s, FALSE)
      BY <2>5
    <3>2. x \in Credential /\ x.kind # "vwsk"
      BY <2>3, <3>1
    <3> QED
      BY <2>2, <3>2
  <2> QED
    BY <2>1, <2>4, <2>5
<1>3. CASE program # "open" /\ ~Workload
  <2>1. CASE \E s \in Subject : x = Cred("secret", s, FALSE)
    <3>1. \A s \in Subject : /\ Cred("secret", s, FALSE) \in Credential
                             /\ Cred("secret", s, FALSE).kind = "secret"
      BY DEF Cred, Credential
    <3>2. x \in Credential /\ x.kind = "secret"
      BY <2>1, <3>1
    <3>3. ~Accepts(x)
      BY <1>3, <3>2 DEF Accepts, OAuth2Auth, JwtAuth, VerifyToken
    <3> QED
      BY <3>2, <3>3
  <2>2. CASE \E d \in jwt : x = d \/ x = [d EXCEPT !.cert = TRUE]
    <3>1. PICK d \in jwt : x = d \/ x = [d EXCEPT !.cert = TRUE]
      BY <2>2
    <3>2. /\ x \in Credential /\ x.kind = d.kind /\ x.sub = d.sub /\ x.life = d.life
          /\ d.kind \in {"access", "refresh"} /\ d.sub \in Subject /\ d.life \in Nat
          /\ program = "oauth2" /\ d.kind = "access" /\ d.life > 0 =>
               d.life + gone[d.sub] <= AccessLife
      BY <3>1 DEF Credential, TokensRunOut
    <3>3. x.kind # "vwsk"
      BY <3>2
    <3>4. ASSUME Accepts(x)
          PROVE  /\ x.kind = "access" /\ x.life > 0
                 /\ program = "oauth2" => gone[x.sub] < AccessLife
                 /\ program = "mtls+jwt" => x.cert /\ x.ok
      <4>1. x.kind = "access" /\ x.life > 0 /\ (program = "mtls+jwt" => x.cert /\ x.ok)
        BY <3>4, <1>3 DEF Accepts, Workload, OAuth2Auth, MtlsAuth, JwtAuth, VerifyToken
      <4>2. d.life \in Nat /\ gone[d.sub] \in Nat /\ AccessLife \in Nat
        BY <3>2
      <4>3. program = "oauth2" => gone[x.sub] < AccessLife
        BY <3>2, <4>1, <4>2
      <4> QED
        BY <4>1, <4>3
    <3>5. ~Accepts(x) \/ ~Withdrawn(x)
      <4>1. x.life \in Nat /\ gone[x.sub] \in Nat /\ AccessLife \in Nat
        BY <3>2
      <4> QED
        BY <3>4, <4>1 DEF Withdrawn
    <3> QED
      BY <3>2, <3>3, <3>5
  <2>3. \/ \E d \in jwt : x = d \/ x = [d EXCEPT !.cert = TRUE]
        \/ \E s \in Subject : x = Cred("secret", s, FALSE)
    <3>1. x \in Jwts \/ x \in Secrets
      BY <1>3 DEF Shown
    <3>2. CASE x \in Jwts
      BY <3>2 DEF Jwts
    <3>3. CASE x \in Secrets
      BY <3>3 DEF Secrets
    <3> QED
      BY <3>1, <3>2, <3>3
  <2> QED
    BY <2>1, <2>2, <2>3
<1> QED
  BY <1>1, <1>2, <1>3

(* A request that is let in, moves on or ends keeps the invariant if it    *)
(* only goes on when its credential was good.                              *)
LEMMA SeatChanges ==
  ASSUME IInv, NEW r \in Req, NEW s \in Seat,
         req' = [req EXCEPT ![r] = s],
         s.pc # "auth",
         s.pc \in {"handle", "tool", "rotate"} /\ program # "open" => ~s.late,
         session' \in [Session -> Subject \cup {None, "unused", "closed"}],
         UNCHANGED <<config, token, jwt, limiter, policies, changes>>
  PROVE  IInv'
<1> USE DEF IInv, config, limiter, policies
<1>1. TypeOK'
  BY DEF TypeOK
<1>2. WithdrawnIsRefused'
  BY DEF WithdrawnIsRefused, TypeOK
<1>3. LateIsRefused'
  BY DEF LateIsRefused, TypeOK, At, Accepts, Workload, ResolveIdentity, Registry!Valid,
         OAuth2Auth, JwtAuth, MtlsAuth, VerifyToken
<1>4. TokensRunOut' /\ BlocksAddUp' /\ DeniedIsStored'
  BY DEF TokensRunOut, BlocksAddUp, DeniedIsStored
<1> QED
  BY <1>1, <1>2, <1>3, <1>4

(* The chain takes a request in: whether its credential is good is decided *)
(* with respect to the state it arrives in.                                *)
LEMMA ReceiveKeeps ==
  ASSUME IInv, NEW r \in Req, NEW a \in Addr,
         NEW op \in {"get", "token", "initialize", "close", "post"},
         NEW c \in Shown, NEW x \in Session \cup {None},
         Receive(r, a, op, c, x)
  PROVE  IInv'
<1> DEFINE s == [Idle EXCEPT !.pc = IF op = "token" THEN "token" ELSE "auth", !.op = op,
                             !.cred = c, !.of = x, !.late = Withdrawn(c)]
<1> USE DEF IInv, config, policies, limiter
<1>1. /\ c \in Credential
      /\ c.kind = "vwsk" => c.sub \in Subject /\ token[c.sub] # None
      /\ program # "open" /\ Withdrawn(c) => ~Accepts(c)
  BY ShownIsKnown
<1>2. Withdrawn(c) \in BOOLEAN
  <2>1. /\ legacy \in BOOLEAN /\ c.ok \in BOOLEAN
        /\ c.kind = "vwsk" => token[c.sub].revoked \in BOOLEAN
    BY <1>1 DEF TypeOK, Credential, Registry!Record
  <2> HIDE DEF IInv
  <2> QED
    BY <2>1 DEF Withdrawn
<1>3. s \in Seat /\ s.pc \in {"token", "auth"} /\ s.cred = c /\ (s.late => Withdrawn(c))
  BY <1>1, <1>2 DEF Seat, Idle
<1>4. /\ req' = [req EXCEPT ![r] = s]
      /\ UNCHANGED <<config, token, jwt, session, policies, changes>>
      /\ \/ UNCHANGED limiter
         \/ /\ limit[a].until = 0
            /\ limit' = [limit EXCEPT ![a].seen[0] = @ + 1]
            /\ blocked' = [blocked EXCEPT ![a] = 0]
  BY DEF Receive
<1> HIDE DEF s
<1>5. 0 \in 0 .. Window - 1
  BY AccessAssumption
<1>6. /\ limit' \in [Addr -> [seen : [0 .. Window - 1 -> Nat], until : Nat]]
      /\ \A b \in Addr : limit'[b].until = limit[b].until
  <2>1. /\ limit \in [Addr -> [seen : [0 .. Window - 1 -> Nat], until : Nat]]
        /\ limit[a].seen \in [0 .. Window - 1 -> Nat] /\ limit[a].until \in Nat
    BY DEF TypeOK
  <2> DEFINE counted == [limit[a].seen EXCEPT ![0] = @ + 1]
  <2>2. counted \in [0 .. Window - 1 -> Nat]
    <3>1. \A f \in [0 .. Window - 1 -> Nat] : [f EXCEPT ![0] = @ + 1] \in [0 .. Window - 1 -> Nat]
      BY <1>5
    <3> QED
      BY <2>1, <3>1
  <2>3. [limit EXCEPT ![a].seen[0] = @ + 1] = [limit EXCEPT ![a] = [@ EXCEPT !.seen = counted]]
    OBVIOUS
  <2> HIDE DEF counted
  <2>4. [limit[a] EXCEPT !.seen = counted]
          \in [seen : [0 .. Window - 1 -> Nat], until : {limit[a].until}]
    BY <2>1, <2>2
  <2> DEFINE Count == [seen : [0 .. Window - 1 -> Nat], until : Nat]
             l == [limit[a] EXCEPT !.seen = counted]
  <2>5. l \in Count /\ l.until = limit[a].until
    BY <2>1, <2>4
  <2>6. limit' = limit \/ limit' = [limit EXCEPT ![a] = l]
    BY <1>4, <2>3
  <2>7. limit \in [Addr -> Count]
    BY <2>1
  <2> HIDE DEF Count, l, IInv
  <2>8. limit' \in [Addr -> Count]
    BY <2>5, <2>6, <2>7
  <2>9. \A b \in Addr : limit'[b].until = limit[b].until
    BY <2>5, <2>6, <2>7
  <2> QED
    BY <2>8, <2>9 DEF Count
<1>7. TypeOK'
  <2>1. blocked' \in [Addr -> Nat]
    BY <1>4 DEF TypeOK
  <2> QED
    BY <1>3, <1>4, <1>6, <2>1 DEF TypeOK
<1>8. WithdrawnIsRefused'
  BY <1>3, <1>4 DEF WithdrawnIsRefused, TypeOK
<1>9. LateIsRefused'
  <2>1. ASSUME NEW q \in Req, q # r
        PROVE  req'[q] = req[q]
    BY <1>4, <2>1 DEF TypeOK
  <2>2. req'[r] = s
    BY <1>4 DEF TypeOK
  <2> USE DEF Accepts, Workload, ResolveIdentity, Registry!Valid, OAuth2Auth, JwtAuth,
              MtlsAuth, VerifyToken
  <2>3. /\ s.cred.kind = "vwsk" => s.cred.sub \in Subject /\ token'[s.cred.sub] # None
        /\ s.late /\ program' # "open" => ~Accepts(req[r].cred)'
    <3>1. req'[r].cred = c /\ s.cred = c /\ token' = token /\ program' = program
      BY <1>3, <1>4, <2>2
    <3>2. ~Accepts(c) => ~Accepts(req[r].cred)'
      BY <1>4, <3>1
    <3> HIDE DEF Accepts
    <3> QED
      BY <1>1, <1>3, <3>1, <3>2
  <2>4. ASSUME NEW q \in Req, q # r, At(q, "auth")'
        PROVE  /\ req'[q].cred.kind = "vwsk" =>
                    req'[q].cred.sub \in Subject /\ token'[req'[q].cred.sub] # None
               /\ req'[q].late /\ program' # "open" => ~Accepts(req[q].cred)'
    BY <1>4, <2>1, <2>4 DEF LateIsRefused, At
  <2> QED
    BY <2>2, <2>3, <2>4 DEF LateIsRefused
<1>10. TokensRunOut' /\ DeniedIsStored'
  BY <1>4 DEF TokensRunOut, DeniedIsStored
<1>11. BlocksAddUp'
  <2>1. CASE UNCHANGED limiter
    BY <2>1 DEF BlocksAddUp
  <2>2. CASE /\ limit[a].until = 0
             /\ limit' = [limit EXCEPT ![a].seen[0] = @ + 1]
             /\ blocked' = [blocked EXCEPT ![a] = 0]
    <3>1. limit'[a].until = 0 /\ blocked'[a] = 0
      BY <1>6, <2>2 DEF TypeOK
    <3>2. \A b \in Addr \ {a} : limit'[b] = limit[b] /\ blocked'[b] = blocked[b]
      BY <2>2 DEF TypeOK
    <3> QED
      BY <3>1, <3>2 DEF BlocksAddUp
  <2> QED
    BY <1>4, <2>1, <2>2
<1> QED
  BY <1>7, <1>8, <1>9, <1>10, <1>11

(* The steps of a request that is being handled.                           *)
LEMMA StepKeeps ==
  ASSUME IInv, NEW r \in Req,
         \/ Authenticate(r) \/ Answer(r) \/ OpenSession(r) \/ UseSession(r) \/ CloseSession(r)
         \/ Tool(r) \/ Rotated(r) \/ \E on \in Resource : RotateSecret(r, on)
  PROVE  IInv'
<1> USE DEF IInv
<1>1. /\ req[r] \in Seat /\ session \in [Session -> Subject \cup {None, "unused", "closed"}]
      /\ Idle \in Seat /\ Idle.pc = "idle" /\ Nothing \in Credential
  BY DEF TypeOK, Idle, Seat, Nothing, Cred, Credential
<1>2. req[r].pc \in {"handle", "tool", "rotate"} /\ program # "open" => ~req[r].late
  BY DEF WithdrawnIsRefused
<1>3. ASSUME Done(r), UNCHANGED <<config, token, jwt, limiter, policies, changes>>,
             session' \in [Session -> Subject \cup {None, "unused", "closed"}]
      PROVE  IInv'
  BY <1>1, <1>3, SeatChanges DEF Done
<1>4. CASE Authenticate(r)
  <2> DEFINE s == [req[r] EXCEPT !.pc = "handle", !.sub = req[r].cred.sub, !.cred = Nothing]
  <2>1. CASE Accepts(req[r].cred)
    <3>1. /\ s \in Seat /\ s.pc = "handle" /\ s.late = req[r].late
          /\ req' = [req EXCEPT ![r] = s]
      BY <1>1, <1>4, <2>1 DEF Seat, Credential, Authenticate
    <3>2. program # "open" => ~req[r].late
      BY <1>4, <2>1 DEF Authenticate, LateIsRefused
    <3>3. UNCHANGED <<config, token, jwt, limiter, session, policies, changes>>
      BY <1>4 DEF Authenticate
    <3> HIDE DEF s
    <3> QED
      BY <1>1, <3>1, <3>2, <3>3, SeatChanges
  <2>2. CASE ~Accepts(req[r].cred)
    BY <1>1, <1>3, <1>4, <2>2 DEF Authenticate
  <2> QED
    BY <2>1, <2>2
<1>5. CASE Answer(r)
  BY <1>1, <1>3, <1>5 DEF Answer
<1>6. CASE OpenSession(r)
  <2>1. PICK x \in Session :
          /\ session' = [session EXCEPT ![x] = req[r].sub]
          /\ IF req[r].op = "initialize" THEN Done(r)
             ELSE req' = [req EXCEPT ![r].pc = "tool", ![r].of = x]
    BY <1>6 DEF OpenSession
  <2>2. /\ At(r, "handle") /\ program = "mcp"
        /\ UNCHANGED <<config, token, jwt, limiter, policies, changes>>
    BY <1>6 DEF OpenSession
  <2>3. session' \in [Session -> Subject \cup {None, "unused", "closed"}]
    BY <1>1, <2>1 DEF Seat
  <2>4. CASE req[r].op = "initialize"
    BY <1>3, <2>1, <2>2, <2>3, <2>4
  <2>5. CASE req[r].op # "initialize"
    <3> DEFINE s == [req[r] EXCEPT !.pc = "tool", !.of = x]
    <3>1. s \in Seat /\ s.pc = "tool" /\ s.late = req[r].late
      BY <1>1 DEF Seat
    <3>2. req' = [req EXCEPT ![r] = s]
      BY <2>1, <2>5
    <3>3. program # "open" => ~req[r].late
      BY <1>2, <2>2 DEF At
    <3> HIDE DEF s
    <3> QED
      BY <2>2, <2>3, <3>1, <3>2, <3>3, SeatChanges
  <2> QED
    BY <2>4, <2>5
<1>7. CASE UseSession(r)
  <2> DEFINE s == [req[r] EXCEPT !.pc = "tool", !.sub = session[req[r].of]]
  <2>1. session[req[r].of] \in Subject
    BY <1>7 DEF UseSession, Live
  <2>2. s \in Seat /\ s.pc = "tool" /\ s.late = req[r].late
    BY <1>1, <2>1 DEF Seat
  <2>3. req' = [req EXCEPT ![r] = s]
    BY <1>7 DEF UseSession
  <2>4. program # "open" => ~req[r].late
    BY <1>2, <1>7 DEF UseSession, At
  <2>5. UNCHANGED <<config, token, jwt, limiter, session, policies, changes>>
    BY <1>7 DEF UseSession
  <2> HIDE DEF s
  <2> QED
    BY <1>1, <2>2, <2>3, <2>4, <2>5, SeatChanges
<1>8. CASE CloseSession(r)
  <2>1. session' \in [Session -> Subject \cup {None, "unused", "closed"}]
    BY <1>1, <1>8 DEF CloseSession
  <2> QED
    BY <1>3, <1>8, <2>1 DEF CloseSession
<1>9. CASE Tool(r) \/ Rotated(r)
  BY <1>1, <1>3, <1>9 DEF Tool, Rotated
<1>10. ASSUME NEW on \in Resource, RotateSecret(r, on)
       PROVE  IInv'
  <2>0. UNCHANGED <<config, token, jwt, limiter, session, policies, changes>>
    BY <1>10 DEF RotateSecret
  <2>1. CASE Allows(req[r].sub, on)
    <3> DEFINE s == [req[r] EXCEPT !.pc = "rotate", !.on = on]
    <3>1. s \in Seat /\ s.pc = "rotate" /\ s.late = req[r].late
      BY <1>1 DEF Seat
    <3>2. req' = [req EXCEPT ![r] = s]
      BY <1>10, <2>1 DEF RotateSecret
    <3>3. program # "open" => ~req[r].late
      BY <1>2, <1>10 DEF RotateSecret, At
    <3> HIDE DEF s
    <3> QED
      BY <1>1, <2>0, <3>1, <3>2, <3>3, SeatChanges
  <2>2. CASE ~Allows(req[r].sub, on)
    BY <1>1, <1>3, <1>10, <2>0, <2>2 DEF RotateSecret
  <2> QED
    BY <2>1, <2>2
<1> QED
  BY <1>4, <1>5, <1>6, <1>7, <1>8, <1>9, <1>10

(* /auth/token: the tokens it signs are for a client of now.               *)
LEMMA IssueTokensKeeps ==
  ASSUME IInv, NEW r \in Req, IssueTokens(r)
  PROVE  IInv'
<1> DEFINE c == req[r].cred
           new == {Signed("access", c.sub, FALSE, AccessLife),
                   Signed("refresh", c.sub, FALSE, RefreshLife)}
<1> USE DEF IInv, config, limiter, policies
<1>1. /\ req' = [req EXCEPT ![r] = Idle] /\ Idle \in Seat /\ Idle.pc = "idle"
      /\ UNCHANGED <<config, token, limiter, session, policies, changes>>
  BY DEF IssueTokens, Done, Idle, Seat, Nothing, Cred, Credential
<1>2. /\ jwt' = jwt \/ jwt' = jwt \cup new
      /\ jwt' # jwt => c.sub \in clients
  BY DEF IssueTokens, MayHave
<1>3. AccessLife \in Nat \ {0} /\ RefreshLife \in Nat \ {0}
  BY AccessAssumption
<1>4. ASSUME c.sub \in Subject, NEW d \in new
      PROVE  /\ d \in Credential /\ d.kind \in {"access", "refresh"} /\ d.sub = c.sub
             /\ d.kind = "access" => d.life = AccessLife
  <2>1. d = Signed("access", c.sub, FALSE, AccessLife) \/ d = Signed("refresh", c.sub, FALSE, RefreshLife)
    BY <1>4
  <2>2. PICK t \in Subject : t = c.sub
    BY <1>4
  <2> HIDE DEF c, new
  <2>3. PICK k \in {"access", "refresh"}, n \in Nat \ {0} :
          d = Signed(k, t, FALSE, n) /\ (k = "access" => n = AccessLife)
    BY <1>3, <2>1, <2>2
  <2>4. d = [kind |-> k, sub |-> t, ok |-> FALSE, life |-> n, cert |-> FALSE]
    BY <2>3 DEF Signed, Cred
  <2>5. d.kind = k /\ d.sub = t /\ d.life = n
    BY <2>4
  <2>6. d \in Credential
    BY <2>4 DEF Credential
  <2>7. k = "access" => n = AccessLife
    BY <2>3
  <2>8. k \in {"access", "refresh"} /\ t = c.sub
    BY <2>2
  <2> QED
    BY <2>5, <2>6, <2>7, <2>8
<1> HIDE DEF new, c
<1>5. clients \subseteq Subject
  BY DEF TypeOK
<1>6. TypeOK'
  BY <1>1, <1>2, <1>4, <1>5 DEF TypeOK
<1>7. WithdrawnIsRefused' /\ BlocksAddUp' /\ DeniedIsStored'
  BY <1>1 DEF WithdrawnIsRefused, BlocksAddUp, DeniedIsStored, TypeOK
<1>8. LateIsRefused'
  BY <1>1 DEF LateIsRefused, TypeOK, At, Accepts, Workload, ResolveIdentity, Registry!Valid,
         OAuth2Auth, JwtAuth, MtlsAuth, VerifyToken
<1>9. TokensRunOut'
  <2>1. \A s \in clients' : gone'[s] = 0
    BY <1>1 DEF TokensRunOut
  <2>2. ASSUME NEW d \in jwt'
        PROVE  /\ d.kind \in {"access", "refresh"} /\ d.sub \in Subject
               /\ program' = "oauth2" /\ d.kind = "access" /\ d.life > 0 =>
                    d.life + gone'[d.sub] <= AccessLife
    <3>1. CASE d \in jwt
      BY <1>1, <3>1 DEF TokensRunOut
    <3>2. CASE d \notin jwt
      <4>1. d \in new /\ c.sub \in clients
        BY <1>2, <3>2
      <4>2. gone[c.sub] = 0 /\ c.sub \in Subject
        BY <1>5, <4>1 DEF TokensRunOut
      <4>3. /\ d.kind \in {"access", "refresh"} /\ d.sub = c.sub
            /\ d.kind = "access" => d.life = AccessLife
        BY <1>4, <4>1, <4>2
      <4>4. gone'[d.sub] = 0
        BY <1>1, <4>2, <4>3
      <4> QED
        BY <1>3, <4>2, <4>3, <4>4
    <3> QED
      BY <3>1, <3>2
  <2> QED
    BY <2>1, <2>2 DEF TokensRunOut
<1> QED
  BY <1>6, <1>7, <1>8, <1>9

(* Where nothing is counted, nothing has been seen.                        *)
LEMMA NothingSeen ==
  ASSUME TypeOK, NEW a \in Addr, \A t \in 0 .. Window - 1 : limit[a].seen[t] = 0
  PROVE  Seen(a) = 0
<1>1. {p \in (0 .. Window - 1) \X (1 .. Limit) : p[2] <= limit[a].seen[p[1]]} = {}
  BY AccessAssumption
<1> QED
  BY <1>1, FS_EmptySet DEF Seen

(* A refused request changes nothing of a running block, and one that      *)
(* starts a block was not preceded by a block it has not got past.         *)
LEMMA RefuseKeeps ==
  ASSUME IInv, NEW a \in Addr, Refuse(a)
  PROVE  IInv'
<1> USE DEF IInv, config, policies
<1>1. Window \in Nat \ {0}
  BY AccessAssumption
<1>2. limit[a].until \in Nat /\ \A b \in Addr : blocked[b] \in Nat
  BY DEF TypeOK
<1> DEFINE until == IF limit[a].until > 0 THEN limit[a].until ELSE Window
<1>3. /\ limit' = [limit EXCEPT ![a] = [@ EXCEPT !.until = until]]
      /\ UNCHANGED <<config, token, jwt, session, policies, req, blocked, changes>>
  BY DEF Refuse
<1>4. until \in Nat /\ until > 0
  BY <1>1, <1>2
<1>5. blocked[a] + until = Window /\ \A t \in 0 .. Window - 1 : t < blocked[a] => limit[a].seen[t] = 0
  <2>1. CASE limit[a].until > 0
    BY <1>2, <2>1 DEF BlocksAddUp
  <2>2. CASE limit[a].until = 0
    <3>1. Seen(a) >= Limit /\ Limit \in Nat \ {0}
      BY <2>2, AccessAssumption DEF Refuse
    <3>2. Seen(a) # 0
      <4> HIDE DEF IInv
      <4> QED
        BY <3>1
    <3>3. ~\A t \in 0 .. Window - 1 : limit[a].seen[t] = 0
      BY <3>2, NothingSeen
    <3>4. blocked[a] = 0
      BY <1>1, <2>2, <3>3 DEF BlocksAddUp
    <3> QED
      BY <1>1, <2>2, <3>4
  <2> QED
    BY <1>2, <2>1, <2>2
<1> HIDE DEF until
<1>6. TypeOK'
  <2>1. limit' \in [Addr -> [seen : [0 .. Window - 1 -> Nat], until : Nat]]
    BY <1>3, <1>4 DEF TypeOK
  <2> QED
    BY <1>3, <2>1 DEF TypeOK
<1>7. BlocksAddUp'
  <2>1. /\ limit'[a].until = until /\ limit'[a].seen = limit[a].seen
        /\ \A b \in Addr \ {a} : limit'[b] = limit[b]
    BY <1>3 DEF TypeOK
  <2> QED
    BY <1>3, <1>4, <1>5, <2>1 DEF BlocksAddUp
<1>8. WithdrawnIsRefused' /\ TokensRunOut' /\ DeniedIsStored'
  BY <1>3 DEF WithdrawnIsRefused, TokensRunOut, DeniedIsStored
<1>9. LateIsRefused'
  BY <1>3 DEF LateIsRefused, At, Accepts, Workload, ResolveIdentity, Registry!Valid,
         OAuth2Auth, JwtAuth, MtlsAuth, VerifyToken
<1> QED
  BY <1>6, <1>7, <1>8, <1>9

(* setPolicy and removePolicy, before and after the row is looked up.      *)
LEMMA PoliciesKeep ==
  ASSUME IInv, FindPolicy \/ \E p \in Row : SetPolicy(p) \/ RemovePolicy(p)
  PROVE  IInv'
<1> USE DEF IInv, config, limiter
<1>1. /\ UNCHANGED <<config, token, jwt, limiter, session, req>>
      /\ policy' \subseteq Row /\ admin' \in Row \cup {None}
      /\ denied' \subseteq Row /\ DeniedIsStored'
  <2>1. policy \subseteq Row /\ denied \subseteq Row /\ admin \in Row \cup {None}
    BY DEF TypeOK
  <2>2. ASSUME NEW p \in Row, SetPolicy(p)
        PROVE  <1>1!:
    BY <2>1, <2>2 DEF SetPolicy, DeniedIsStored
  <2>3. CASE FindPolicy
    BY <2>1, <2>3 DEF FindPolicy, DeniedIsStored
  <2>4. ASSUME NEW p \in Row, RemovePolicy(p)
        PROVE  <1>1!:
    BY <2>1, <2>4 DEF RemovePolicy, DeniedIsStored
  <2> QED
    BY <2>2, <2>3, <2>4
<1>2. TypeOK'
  BY <1>1 DEF TypeOK
<1>3. WithdrawnIsRefused' /\ TokensRunOut' /\ BlocksAddUp'
  BY <1>1 DEF WithdrawnIsRefused, TokensRunOut, BlocksAddUp
<1>4. LateIsRefused'
  BY <1>1 DEF LateIsRefused, At, Accepts, Workload, ResolveIdentity, Registry!Valid,
         OAuth2Auth, JwtAuth, MtlsAuth, VerifyToken
<1> QED
  BY <1>1, <1>2, <1>3, <1>4

(* Of the tokens in the registry only a rotated one can become valid, and  *)
(* then whoever has brought it is not late any more; nothing becomes of    *)
(* one that is revoked or has expired.                                     *)
LEMMA AdminTokenKeeps ==
  ASSUME IInv, NEW s \in Subject, AdminToken(s)
  PROVE  IInv'
<1> USE DEF IInv, config, limiter, policies
<1>1. UNCHANGED <<config, jwt, limiter, session, policies>>
  BY DEF AdminToken
<1>2. /\ 1 \in Registry!Time /\ Forever \in Registry!Time /\ None \notin Registry!Record
      /\ token \in [Subject -> Registry!Record \cup {None}]
      /\ req \in [Req -> Seat]
  BY AccessAssumption, RecordAssumption DEF TypeOK, Registry!Time
<1> DEFINE Over(rec) == rec.revoked \/ rec.life = 0
           lasting(q) == req[q].late /\ (Brings(req[q].cred, s) => Over(token[s]))
<1>3. /\ req' \in [Req -> Seat]
      /\ \A q \in Req : /\ req'[q].pc = req[q].pc /\ req'[q].cred = req[q].cred
                        /\ req'[q].late => req[q].late
  <2>1. ASSUME NEW q \in Req, NEW b \in BOOLEAN
        PROVE  /\ [req[q] EXCEPT !.late = b] \in Seat
               /\ [req[q] EXCEPT !.late = b].pc = req[q].pc
               /\ [req[q] EXCEPT !.late = b].cred = req[q].cred
               /\ [req[q] EXCEPT !.late = b].late = b
    BY <1>2 DEF Seat
  <2>2. \A q \in Req : lasting(q) \in BOOLEAN /\ (lasting(q) => req[q].late)
    BY <1>2 DEF Seat
  <2>3. req' = req \/ req' = [q \in Req |-> [req[q] EXCEPT !.late = lasting(q)]]
    BY DEF AdminToken
  <2> HIDE DEF lasting
  <2>4. CASE req' = [q \in Req |-> [req[q] EXCEPT !.late = lasting(q)]]
    BY <2>1, <2>2, <2>4
  <2> QED
    BY <1>2, <2>3, <2>4
<1>4. /\ token' \in [Subject -> Registry!Record \cup {None}]
      /\ \A t \in Subject : token[t] # None => token'[t] # None
      /\ \A t \in Subject \ {s} : token'[t] = token[t]
  <2>1. \E rec \in Registry!Record : token' = [token EXCEPT ![s] = rec]
    <3>1. ASSUME NEW life \in {1, Forever}, Registry!Issue(s, life)
          PROVE  \E rec \in Registry!Record : token' = [token EXCEPT ![s] = rec]
      <4> DEFINE new == [life |-> life, cut |-> Forever, revoked |-> FALSE]
      <4>1. new \in Registry!Record
        BY <1>2, <3>1 DEF Registry!Record
      <4>2. token' = [token EXCEPT ![s] = new]
        BY <3>1 DEF Registry!Issue
      <4> QED
        BY <4>1, <4>2
    <3>2. CASE Registry!Revoke(s)
      <4> DEFINE new == [token[s] EXCEPT !.revoked = TRUE]
      <4>1. token[s] \in Registry!Record /\ token' = [token EXCEPT ![s] = new]
        BY <1>2, <3>2 DEF Registry!Revoke
      <4>2. new \in Registry!Record
        BY <4>1 DEF Registry!Record
      <4> QED
        BY <4>1, <4>2
    <3>3. CASE Registry!Supersede(s, 1)
      <4> DEFINE new == [token[s] EXCEPT !.cut = 1]
      <4>1. token[s] \in Registry!Record /\ token' = [token EXCEPT ![s] = new]
        BY <1>2, <3>3 DEF Registry!Supersede
      <4>2. new \in Registry!Record
        BY <1>2, <4>1 DEF Registry!Record
      <4> QED
        BY <4>1, <4>2
    <3> QED
      BY <3>1, <3>2, <3>3 DEF AdminToken
  <2> QED
    BY <1>2, <2>1
<1>5. ASSUME NEW q \in Req, Brings(req[q].cred, s), token[s] # None,
             req'[q].late, ~Registry!Valid(s)
      PROVE  ~Registry!Valid(s)'
  <2>1. CASE Registry!Revoke(s)
    <3>1. token[s] \in Registry!Record /\ token'[s] = [token[s] EXCEPT !.revoked = TRUE]
      BY <1>2, <2>1 DEF Registry!Revoke
    <3>2. token'[s].revoked
      BY <3>1 DEF Registry!Record
    <3> QED
      BY <3>2 DEF Registry!Valid
  <2>2. CASE \E life \in {1, Forever} : Registry!Issue(s, life)
    BY <1>5, <2>2 DEF Registry!Issue
  <2>3. CASE /\ Registry!Supersede(s, 1)
             /\ req' = [r \in Req |-> [req[r] EXCEPT !.late = lasting(r)]]
    <3>1. token[s] \in Registry!Record /\ token'[s] = [token[s] EXCEPT !.cut = 1]
      BY <1>2, <2>3 DEF Registry!Supersede
    <3>2. token'[s].life = token[s].life /\ token'[s].revoked = token[s].revoked
      BY <3>1 DEF Registry!Record
    <3>3. lasting(q)
      BY <1>2, <1>5, <2>3 DEF Seat
    <3> QED
      BY <1>5, <3>2, <3>3 DEF Registry!Valid
  <2> QED
    BY <2>1, <2>2, <2>3 DEF AdminToken
<1>6. TypeOK'
  BY <1>1, <1>3, <1>4 DEF TypeOK
<1>7. WithdrawnIsRefused' /\ TokensRunOut' /\ BlocksAddUp' /\ DeniedIsStored'
  BY <1>1, <1>3 DEF WithdrawnIsRefused, TokensRunOut, BlocksAddUp, DeniedIsStored
<1>8. LateIsRefused'
  <2> SUFFICES ASSUME NEW q \in Req, At(q, "auth")'
               PROVE  /\ req'[q].cred.kind = "vwsk" =>
                           req'[q].cred.sub \in Subject /\ token'[req'[q].cred.sub] # None
                      /\ req'[q].late /\ program' # "open" => ~Accepts(req[q].cred)'
    BY DEF LateIsRefused
  <2> DEFINE c == req[q].cred
  <2>1. req'[q].cred = c /\ (req'[q].late => req[q].late)
    BY <1>3
  <2>2. /\ c.kind = "vwsk" => c.sub \in Subject /\ token[c.sub] # None
        /\ req[q].late /\ program # "open" => ~Accepts(c)
    BY <1>3 DEF LateIsRefused, At
  <2>3. ASSUME req'[q].late, ~ResolveIdentity(c)
        PROVE  ~ResolveIdentity(req[q].cred)'
    <3>1. CASE c.kind = "vwsk" /\ c.ok /\ c.sub = s
      BY <1>1, <1>5, <2>1, <2>2, <2>3, <3>1 DEF ResolveIdentity, Brings
    <3>2. CASE ~(c.kind = "vwsk" /\ c.ok /\ c.sub = s)
      BY <1>1, <1>4, <2>1, <2>2, <2>3, <3>2 DEF ResolveIdentity, Registry!Valid
    <3> QED
      BY <3>1, <3>2
  <2>4. ASSUME req'[q].late, ~Accepts(c)
        PROVE  ~Accepts(req[q].cred)'
    BY <1>1, <2>1, <2>3, <2>4 DEF Accepts, Workload, OAuth2Auth, JwtAuth, MtlsAuth, VerifyToken
  <2> HIDE DEF c
  <2> QED
    BY <1>1, <1>4, <2>1, <2>2, <2>4
<1> QED
  BY <1>6, <1>7, <1>8

(* A token that whoever holds JWT_SECRET signs.                            *)
LEMMA SignKeeps ==
  ASSUME IInv, NEW s \in Subject, NEW ok \in BOOLEAN, Sign(s, ok)
  PROVE  IInv'
<1> USE DEF IInv, config, limiter, policies
<1> DEFINE d == Signed("access", s, ok, AccessLife)
<1>1. /\ program = "mtls+jwt" /\ jwt' = jwt \cup {d}
      /\ UNCHANGED <<config, token, limiter, session, policies, req>>
  BY DEF Sign
<1>2. d \in Credential /\ d.kind = "access" /\ d.sub = s /\ d.life > 0
  <2>1. AccessLife \in Nat /\ AccessLife > 0
    BY AccessAssumption
  <2> QED
    BY <2>1, SignedIsTyped
<1> HIDE DEF d
<1>3. TypeOK'
  BY <1>1, <1>2 DEF TypeOK
<1>4. WithdrawnIsRefused' /\ TokensRunOut' /\ BlocksAddUp' /\ DeniedIsStored'
  BY <1>1, <1>2 DEF WithdrawnIsRefused, TokensRunOut, BlocksAddUp, DeniedIsStored
<1>5. LateIsRefused'
  BY <1>1 DEF LateIsRefused, At, Accepts, Workload, ResolveIdentity, Registry!Valid,
         OAuth2Auth, JwtAuth, MtlsAuth, VerifyToken
<1> QED
  BY <1>3, <1>4, <1>5

(* A restart ends every request, and a client again has never gone.        *)
LEMMA RestartKeeps ==
  ASSUME IInv, NEW cs \in SUBSET Subject, NEW on \in {legacy, FALSE}, Restart(cs, on)
  PROVE  IInv'
<1> USE DEF IInv, policies
<1>1. /\ clients' = cs /\ legacy' = on /\ UNCHANGED <<program, token, jwt, policies>>
      /\ gone' = [s \in Subject |-> IF s \in cs THEN 0 ELSE gone[s]]
      /\ req' = [r \in Req |-> Idle]
      /\ blocked' = [a \in Addr |-> 0]
      /\ session' = [x \in Session |-> IF session[x] = "unused" THEN session[x] ELSE "closed"]
  BY DEF Restart
<1>2. limit' = [a \in Addr |-> [seen |-> [t \in 0 .. Window - 1 |-> 0], until |-> 0]]
  BY DEF Restart
<1>3. /\ limit' \in [Addr -> [seen : [0 .. Window - 1 -> Nat], until : Nat]]
      /\ \A a \in Addr : limit'[a].until = 0
  BY <1>2
<1>4. Idle \in Seat /\ Idle.pc = "idle"
  BY DEF Idle, Seat, Nothing, Cred, Credential
<1>5. /\ gone' \in [Subject -> Nat] /\ \A s \in Subject : gone'[s] <= gone[s]
      /\ \A s \in Subject : gone[s] \in Nat
  BY <1>1 DEF TypeOK
<1>6. TypeOK'
  BY <1>1, <1>3, <1>4, <1>5 DEF TypeOK
<1>7. WithdrawnIsRefused' /\ LateIsRefused'
  BY <1>1, <1>4 DEF WithdrawnIsRefused, LateIsRefused, At
<1>8. TokensRunOut'
  <2>1. \A s \in clients' : gone'[s] = 0
    BY <1>1
  <2>2. ASSUME NEW d \in jwt
        PROVE  /\ d.kind \in {"access", "refresh"} /\ d.sub \in Subject
               /\ program' = "oauth2" /\ d.kind = "access" /\ d.life > 0 =>
                    d.life + gone'[d.sub] <= AccessLife
    <3>1. d.life \in Nat /\ d.sub \in Subject /\ AccessLife \in Nat
      BY AccessAssumption DEF TypeOK, TokensRunOut, Credential
    <3> DEFINE before == gone[d.sub]
               after == gone'[d.sub]
    <3>2. before \in Nat /\ after \in Nat /\ after <= before
      BY <1>5, <3>1
    <3>3. /\ d.kind \in {"access", "refresh"}
          /\ program = "oauth2" /\ d.kind = "access" /\ d.life > 0 =>
               d.life + before <= AccessLife
      BY DEF TokensRunOut
    <3> HIDE DEF before, after
    <3>4. program' = "oauth2" /\ d.kind = "access" /\ d.life > 0 => d.life + after <= AccessLife
      BY <1>1, <3>1, <3>2, <3>3
    <3> QED
      BY <3>1, <3>3, <3>4 DEF after
  <2> QED
    BY <1>1, <2>1, <2>2 DEF TokensRunOut
<1>9. BlocksAddUp' /\ DeniedIsStored'
  BY <1>1, <1>3 DEF BlocksAddUp, DeniedIsStored
<1> QED
  BY <1>6, <1>7, <1>8, <1>9

(* Time passes: what a credential proves, it proved before, and a token of *)
(* the registry stays there when it has expired.                           *)
LEMMA TokensAge ==
  ASSUME TypeOK, Registry!Age
  PROVE  /\ token' \in [Subject -> Registry!Record \cup {None}]
         /\ \A s \in Subject : token[s] # None =>
              token'[s] # None /\ (Registry!Valid(s)' => Registry!Valid(s))
<1>1. ASSUME NEW rec \in Registry!Record, NEW old, old = Registry!Older(rec)
      PROVE  /\ old \in Registry!Record /\ old # None
             /\ ~old.revoked => ~rec.revoked
             /\ old.life # 0 => rec.life # 0
             /\ old.cut # 0 => rec.cut # 0
  <2>1. old = [rec EXCEPT !.life = Registry!Sooner(@), !.cut = Registry!Sooner(@)]
    BY <1>1, RecordAssumption DEF Registry!Older
  <2>2. /\ rec.life \in Registry!Time /\ rec.cut \in Registry!Time
        /\ old.life = Registry!Sooner(rec.life) /\ old.cut = Registry!Sooner(rec.cut)
        /\ old.revoked = rec.revoked
    BY <2>1 DEF Registry!Record
  <2>3. /\ Registry!Sooner(rec.life) \in Registry!Time
        /\ Registry!Sooner(rec.life) # 0 => rec.life # 0
        /\ Registry!Sooner(rec.cut) \in Registry!Time
        /\ Registry!Sooner(rec.cut) # 0 => rec.cut # 0
    BY <2>2, AccessAssumption DEF Registry!Time, Registry!Sooner
  <2>4. old \in Registry!Record
    BY <2>1, <2>3 DEF Registry!Record
  <2> QED
    BY <2>2, <2>3, <2>4, RecordAssumption
<1>2. ASSUME NEW s \in Subject
      PROVE  /\ token'[s] \in Registry!Record \cup {None}
             /\ token[s] # None =>
                  token'[s] # None /\ (Registry!Valid(s)' => Registry!Valid(s))
  <2>1. token'[s] = Registry!Older(token[s]) /\ token[s] \in Registry!Record \cup {None}
    BY DEF Registry!Age, TypeOK
  <2>2. CASE token[s] = None
    BY <2>1, <2>2 DEF Registry!Older
  <2>3. CASE token[s] # None
    BY <1>1, <2>1, <2>3 DEF Registry!Valid
  <2> QED
    BY <2>2, <2>3
<1>3. token' = [s \in Subject |-> Registry!Older(token[s])]
  BY DEF Registry!Age
<1> QED
  BY <1>2, <1>3

(* Aging a credential shortens its life and changes nothing else.          *)
LEMMA AgedIsTyped ==
  ASSUME NEW c \in Credential
  PROVE  /\ Aged(c) \in Credential
         /\ Aged(c).kind = c.kind /\ Aged(c).sub = c.sub /\ Aged(c).ok = c.ok
         /\ Aged(c).cert = c.cert /\ Aged(c).life = Less(c.life)
         /\ c.life \in Nat /\ Less(c.life) \in Nat /\ Less(c.life) <= c.life
         /\ c.life > 0 => Less(c.life) = c.life - 1
BY DEF Credential, Aged, Less

(* A tick ages credentials, windows and blocks alike.                      *)
LEMMA TickKeeps ==
  ASSUME IInv, Tick
  PROVE  IInv'
<1> USE DEF IInv, policies
<1>1. /\ UNCHANGED <<program, clients, legacy, session, policies>>
      /\ req' = [r \in Req |-> [req[r] EXCEPT !.cred = Aged(@)]]
      /\ gone' = [s \in Subject |-> IF s \notin clients /\ gone[s] < AccessLife
                                    THEN gone[s] + 1 ELSE gone[s]]
      /\ blocked' = [a \in Addr |-> IF limit[a].until = 0 THEN blocked[a] ELSE blocked[a] + 1]
      /\ jwt' = {Aged(c) : c \in jwt}
  BY DEF Tick
<1>2. /\ token' \in [Subject -> Registry!Record \cup {None}]
      /\ \A s \in Subject : token[s] # None =>
           token'[s] # None /\ (Registry!Valid(s)' => Registry!Valid(s))
  BY TokensAge DEF Tick
<1>3. /\ limit' \in [Addr -> [seen : [0 .. Window - 1 -> Nat], until : Nat]]
      /\ \A a \in Addr :
           /\ limit'[a].until = Less(limit[a].until)
           /\ \A t \in 0 .. Window - 1 :
                limit'[a].seen[t] = IF t = 0 THEN 0 ELSE limit[a].seen[t - 1]
  <2>1. limit' = [a \in Addr |->
          [seen |-> [t \in 0 .. Window - 1 |-> IF t = 0 THEN 0 ELSE limit[a].seen[t - 1]],
           until |-> Less(limit[a].until)]]
    BY DEF Tick
  <2>2. ASSUME NEW a \in Addr
        PROVE  /\ Less(limit[a].until) \in Nat
               /\ [t \in 0 .. Window - 1 |-> IF t = 0 THEN 0 ELSE limit[a].seen[t - 1]]
                    \in [0 .. Window - 1 -> Nat]
    <3>1. /\ limit[a].until \in Nat /\ limit[a].seen \in [0 .. Window - 1 -> Nat]
          /\ Window \in Nat
      BY AccessAssumption DEF TypeOK
    <3>2. \A t \in 0 .. Window - 1 : t # 0 => t - 1 \in 0 .. Window - 1
      BY <3>1
    <3> QED
      BY <3>1, <3>2 DEF Less
  <2> QED
    BY <2>1, <2>2
<1>4. ASSUME NEW r \in Req
      PROVE  /\ req[r] \in Seat /\ req[r].cred \in Credential
             /\ req'[r] \in Seat /\ req'[r].pc = req[r].pc /\ req'[r].late = req[r].late
             /\ req'[r].cred = Aged(req[r].cred)
  <2>1. req[r] \in Seat /\ req[r].cred \in Credential
    BY DEF TypeOK, Seat
  <2>2. Aged(req[r].cred) \in Credential
    BY <2>1, AgedIsTyped
  <2> QED
    BY <1>1, <2>1, <2>2 DEF Seat
<1>5. \A d \in jwt' : \E c \in jwt : d = Aged(c)
  BY <1>1
<1>6. TypeOK'
  <2>1. jwt' \subseteq Credential
    BY <1>5, AgedIsTyped DEF TypeOK
  <2>2. req' \in [Req -> Seat]
    BY <1>1, <1>4
  <2>3. gone' \in [Subject -> Nat] /\ blocked' \in [Addr -> Nat]
    BY <1>1 DEF TypeOK
  <2> QED
    BY <1>1, <1>2, <1>3, <2>1, <2>2, <2>3 DEF TypeOK
<1>7. WithdrawnIsRefused' /\ DeniedIsStored'
  BY <1>1, <1>4 DEF WithdrawnIsRefused, DeniedIsStored
<1>8. LateIsRefused'
  <2> SUFFICES ASSUME NEW r \in Req, At(r, "auth")'
               PROVE  /\ req'[r].cred.kind = "vwsk" =>
                           req'[r].cred.sub \in Subject /\ token'[req'[r].cred.sub] # None
                      /\ req'[r].late /\ program' # "open" => ~Accepts(req[r].cred)'
    BY DEF LateIsRefused
  <2> DEFINE c == req[r].cred
             d == req'[r].cred
  <2>1. /\ d.kind = c.kind /\ d.sub = c.sub /\ d.ok = c.ok /\ d.cert = c.cert
        /\ d.life > 0 => c.life > 0
    <3>1. d = Aged(c) /\ c \in Credential
      BY <1>4
    <3> HIDE DEF c, d
    <3> QED
      BY <3>1, AgedIsTyped
  <2>2. /\ c.kind = "vwsk" => c.sub \in Subject /\ token[c.sub] # None
        /\ req[r].late /\ program # "open" => ~Accepts(c)
    BY <1>4 DEF LateIsRefused, At
  <2>3. req'[r].late = req[r].late
    BY <1>4
  <2>4. program' = program /\ clients' = clients /\ legacy' = legacy
    BY <1>1
  <2>5. Accepts(req[r].cred)' => Accepts(c)
    <3>1. ResolveIdentity(req[r].cred)' => ResolveIdentity(c)
      BY <1>2, <2>1, <2>2, <2>4 DEF ResolveIdentity
    <3>2. /\ OAuth2Auth(req[r].cred)' => OAuth2Auth(c)
          /\ JwtAuth(req[r].cred)' => JwtAuth(c)
          /\ MtlsAuth(req[r].cred)' => MtlsAuth(c)
      BY <2>1 DEF OAuth2Auth, JwtAuth, MtlsAuth, VerifyToken
    <3> QED
      BY <2>4, <3>1, <3>2 DEF Accepts, Workload
  <2> HIDE DEF c
  <2> QED
    BY <1>2, <2>1, <2>2, <2>3, <2>4, <2>5
<1>9. TokensRunOut'
  <2>1. \A s \in clients' : gone'[s] = 0
    BY <1>1 DEF TokensRunOut, TypeOK
  <2>2. ASSUME NEW d \in jwt'
        PROVE  /\ d.kind \in {"access", "refresh"} /\ d.sub \in Subject
               /\ program' = "oauth2" /\ d.kind = "access" /\ d.life > 0 =>
                    d.life + gone'[d.sub] <= AccessLife
    <3>1. PICK c \in jwt : d = Aged(c)
      BY <1>5
    <3>2. /\ c \in Credential /\ c.kind \in {"access", "refresh"}
          /\ c.sub \in Subject
          /\ program = "oauth2" /\ c.kind = "access" /\ c.life > 0 =>
               c.life + gone[c.sub] <= AccessLife
      BY DEF TypeOK, TokensRunOut
    <3>3. /\ d.kind = c.kind /\ d.sub = c.sub /\ c.life \in Nat
          /\ d.life > 0 => c.life > 0 /\ d.life = c.life - 1
      BY <3>1, <3>2, AgedIsTyped DEF Less
    <3>4. /\ gone[c.sub] \in Nat /\ gone'[c.sub] \in Nat
          /\ gone'[c.sub] <= gone[c.sub] + 1
      BY <1>1, <3>2 DEF TypeOK
    <3>5. AccessLife \in Nat
      BY AccessAssumption
    <3> QED
      BY <1>1, <3>1, <3>2, <3>3, <3>4, <3>5
  <2> QED
    BY <2>1, <2>2 DEF TokensRunOut
<1>10. BlocksAddUp'
  <2> DEFINE quiet(f, n) == \A t \in 0 .. Window - 1 : t < n => f[t] = 0
  <2>1. ASSUME NEW a \in Addr
        PROVE  IF limit'[a].until = 0 THEN blocked'[a] = 0 \/ quiet(limit'[a].seen, Window)
               ELSE blocked'[a] + limit'[a].until = Window /\ quiet(limit'[a].seen, blocked'[a])
    <3>1. limit[a].until \in Nat /\ blocked[a] \in Nat /\ Window \in Nat
      BY AccessAssumption DEF TypeOK
    <3>2. /\ limit'[a].until = Less(limit[a].until)
          /\ blocked'[a] = IF limit[a].until = 0 THEN blocked[a] ELSE blocked[a] + 1
      BY <1>1, <1>3
    <3>3. IF limit[a].until = 0 THEN blocked[a] = 0 \/ quiet(limit[a].seen, Window)
          ELSE blocked[a] + limit[a].until = Window /\ quiet(limit[a].seen, blocked[a])
      BY DEF BlocksAddUp
    <3>4. ASSUME NEW n \in Nat, quiet(limit[a].seen, n)
          PROVE  quiet(limit'[a].seen, n + 1)
      <4> SUFFICES ASSUME NEW t \in 0 .. Window - 1, t < n + 1
                   PROVE  limit'[a].seen[t] = 0
        OBVIOUS
      <4>1. limit'[a].seen[t] = IF t = 0 THEN 0 ELSE limit[a].seen[t - 1]
        BY <1>3
      <4>2. t # 0 => t - 1 \in 0 .. Window - 1 /\ t - 1 < n
        BY <3>1
      <4> QED
        BY <3>4, <4>1, <4>2
    <3>5. \A f : quiet(f, Window + 1) => quiet(f, Window)
      BY <3>1
    <3> HIDE DEF quiet
    <3>6. CASE limit[a].until = 0
      BY <3>1, <3>2, <3>3, <3>4, <3>5, <3>6 DEF Less
    <3>7. CASE limit[a].until # 0
      <4>1. /\ blocked'[a] = blocked[a] + 1 /\ limit'[a].until = limit[a].until - 1
            /\ blocked[a] + limit[a].until = Window
        BY <3>1, <3>2, <3>3, <3>7 DEF Less
      <4>2. quiet(limit'[a].seen, blocked'[a])
        BY <3>1, <3>3, <3>4, <3>7, <4>1
      <4>3. blocked'[a] + limit'[a].until = Window
        BY <3>1, <3>7, <4>1
      <4>4. limit'[a].until = 0 => blocked'[a] = Window
        BY <3>1, <3>7, <4>1
      <4> QED
        BY <4>2, <4>3, <4>4
    <3> QED
      BY <3>6, <3>7
  <2> QED
    BY <2>1 DEF BlocksAddUp
<1> QED
  BY <1>6, <1>7, <1>8, <1>9, <1>10

-----------------------------------------------------------------------------
(* The invariant holds at the start.                                       *)
LEMMA InitIsGood == Init => IInv
<1> SUFFICES ASSUME Init PROVE IInv
  OBVIOUS
<1> USE AccessAssumption DEF Init
<1>1. Idle \in Seat /\ Idle.pc = "idle"
  BY DEF Idle, Seat, Nothing, Cred, Credential
<1>2. token \in [Subject -> Registry!Record \cup {None}]
  <2>1. Issued \in Registry!Record
    BY DEF Issued, Registry!Record, Registry!Time
  <2>2. {None, Issued} \subseteq Registry!Record \cup {None}
    BY <2>1
  <2> QED
    BY <2>2
<1>3. limit \in [Addr -> [seen : [0 .. Window - 1 -> Nat], until : Nat]]
  OBVIOUS
<1>4. TypeOK
  BY <1>1, <1>2, <1>3 DEF TypeOK, Legacy
<1>5. WithdrawnIsRefused /\ LateIsRefused
  BY <1>1 DEF WithdrawnIsRefused, LateIsRefused, At
<1>6. TokensRunOut /\ BlocksAddUp /\ DeniedIsStored
  BY DEF TokensRunOut, BlocksAddUp, DeniedIsStored
<1> QED
  BY <1>4, <1>5, <1>6 DEF IInv

(* Every step keeps the invariant.                                         *)
LEMMA NextIsGood == IInv /\ [Next]_vars => IInv'
<1> SUFFICES ASSUME IInv, [Next]_vars PROVE IInv'
  OBVIOUS
<1>1. CASE Tick
  BY <1>1, TickKeeps
<1>2. ASSUME NEW s \in Subject, NEW ok \in BOOLEAN, AdminToken(s) \/ Sign(s, ok)
      PROVE  IInv'
  BY <1>2, AdminTokenKeeps, SignKeeps
<1>3. ASSUME NEW cs \in SUBSET Subject, Restart(cs, legacy) \/ Restart(cs, FALSE)
      PROVE  IInv'
  BY <1>3, RestartKeeps
<1>4. CASE FindPolicy \/ Operator
  BY <1>2, <1>3, <1>4, PoliciesKeep DEF Operator
<1>5. ASSUME NEW a \in Addr, Refuse(a)
      PROVE  IInv'
  BY <1>5, RefuseKeeps
<1>6. ASSUME NEW r \in Req, Step(r)
      PROVE  IInv'
  BY <1>6, StepKeeps, IssueTokensKeeps DEF Step
<1>7. ASSUME NEW r \in Req, NEW a \in Addr, NEW c \in Shown, Request(r, a, c)
      PROVE  IInv'
  <2>1. PICK x \in Session \cup {None}, op \in {"get", "token", "initialize", "close", "post"} :
          Receive(r, a, op, c, x)
    BY <1>7 DEF Request, Get, Call, GetCred, Token, Initialize, Close, Post
  <2> QED
    BY <2>1, ReceiveKeeps
<1>8. CASE UNCHANGED vars
  BY <1>8 DEF vars, config, limiter, policies, IInv, TypeOK, WithdrawnIsRefused, LateIsRefused,
              TokensRunOut, BlocksAddUp, DeniedIsStored, At, Accepts, Workload, ResolveIdentity,
              Registry!Valid, OAuth2Auth, JwtAuth, MtlsAuth, VerifyToken
<1> QED
  BY <1>1, <1>4, <1>5, <1>6, <1>7, <1>8 DEF Next

(* The invariant that the theorems below are read off.                     *)
THEOREM AccessInvariant == Spec => []IInv
<1>1. Init => IInv
  BY InitIsGood
<1>2. IInv /\ [Next]_vars => IInv'
  BY NextIsGood
<1> QED
  BY <1>1, <1>2, PTL DEF Spec

(* Whatever clients, operators and time do in between: a request whose     *)
(* credential was withdrawn when it came in never gets past the            *)
(* middleware, unless the token it brought is rotated once more.           *)
THEOREM WithdrawnAlwaysRefused == Spec => []WithdrawnIsRefused
<1>1. IInv => WithdrawnIsRefused
  BY DEF IInv
<1> QED
  BY <1>1, AccessInvariant, PTL

(* No address is kept out for longer than a window before a request of it  *)
(* is let in again, however often it is refused.                           *)
THEOREM BlocksAreShort == Spec => []BlockIsShort
<1>1. IInv => BlockIsShort
  <2> SUFFICES ASSUME IInv, NEW a \in Addr, limit[a].until > 0
               PROVE  blocked[a] < Window
    BY DEF BlockIsShort
  <2>1. limit[a].until \in Nat /\ blocked[a] \in Nat /\ Window \in Nat
    BY AccessAssumption DEF IInv, TypeOK
  <2>2. blocked[a] + limit[a].until = Window
    BY <2>1 DEF IInv, BlocksAddUp
  <2> QED
    BY <2>1, <2>2
<1> QED
  BY <1>1, AccessInvariant, PTL

-----------------------------------------------------------------------------
LetThrough(r) == req[r].pc # "rotate" /\ req'[r].pc = "rotate"

(* A rotation is let through by RotateSecret alone, which asks the table.  *)
LEMMA OnlyAllowedRotate ==
  ASSUME IInv, [Next]_vars, NEW r \in Req, LetThrough(r)
  PROVE  /\ policy' = policy /\ denied' = denied
         /\ Allows(req'[r].sub, req'[r].on)
<1> USE DEF LetThrough
<1>0. req \in [Req -> Seat] /\ Idle.pc = "idle"
  BY DEF IInv, TypeOK, Idle
<1>1. ASSUME NEW q \in Req, NEW s, req' = [req EXCEPT ![q] = s], s.pc # "rotate"
      PROVE  FALSE
  BY <1>0, <1>1
<1>2. ASSUME NEW q \in Req, Done(q)
      PROVE  FALSE
  BY <1>0, <1>1, <1>2 DEF Done
<1>3. ASSUME NEW q \in Req, Step(q)
      PROVE  \E on \in Resource : RotateSecret(q, on)
  <2>1. CASE Answer(q) \/ IssueTokens(q) \/ CloseSession(q) \/ Tool(q) \/ Rotated(q)
    BY <1>2, <2>1 DEF Answer, IssueTokens, CloseSession, Tool, Rotated
  <2>2. CASE Authenticate(q)
    <3> DEFINE s == [req[q] EXCEPT !.pc = "handle", !.sub = req[q].cred.sub, !.cred = Nothing]
    <3>1. s.pc = "handle"
      BY <1>0 DEF Seat
    <3>2. Done(q) \/ req' = [req EXCEPT ![q] = s]
      BY <2>2 DEF Authenticate
    <3> QED
      BY <1>1, <1>2, <3>1, <3>2
  <2>3. CASE OpenSession(q) \/ UseSession(q)
    <3>1. \/ Done(q)
          \/ \E x \in Session : req' = [req EXCEPT ![q] = [@ EXCEPT !.pc = "tool", !.of = x]]
          \/ req' = [req EXCEPT ![q] = [@ EXCEPT !.pc = "tool", !.sub = session[req[q].of]]]
      BY <2>3 DEF OpenSession, UseSession
    <3>2. \A x : /\ [req[q] EXCEPT !.pc = "tool", !.of = x].pc = "tool"
                 /\ [req[q] EXCEPT !.pc = "tool", !.sub = x].pc = "tool"
      BY <1>0 DEF Seat
    <3> QED
      BY <1>1, <1>2, <3>1, <3>2
  <2> QED
    BY <1>3, <2>1, <2>2, <2>3 DEF Step
<1>4. ASSUME NEW q \in Req, NEW on \in Resource, RotateSecret(q, on)
      PROVE  /\ policy' = policy /\ denied' = denied
             /\ Allows(req'[r].sub, req'[r].on)
  <2>1. policy' = policy /\ denied' = denied
    BY <1>4 DEF RotateSecret, policies
  <2>2. Allows(req[q].sub, on) /\ req' = [req EXCEPT ![q].pc = "rotate", ![q].on = on]
    BY <1>2, <1>4 DEF RotateSecret
  <2>3. q = r
    BY <1>0, <2>2
  <2>4. req'[r].sub = req[r].sub /\ req'[r].on = on
    BY <1>0, <2>2, <2>3 DEF Seat
  <2> QED
    BY <2>1, <2>2, <2>3, <2>4
<1>5. ASSUME NEW q \in Req, NEW a \in Addr, NEW c \in Shown, Request(q, a, c)
      PROVE  FALSE
  <2>1. PICK x \in Session \cup {None}, op \in {"get", "token", "initialize", "close", "post"} :
          Receive(q, a, op, c, x)
    BY <1>5 DEF Request, Get, Call, GetCred, Token, Initialize, Close, Post
  <2> DEFINE s == [Idle EXCEPT !.pc = IF op = "token" THEN "token" ELSE "auth", !.op = op,
                               !.cred = c, !.of = x, !.late = Withdrawn(c)]
  <2>2. req' = [req EXCEPT ![q] = s]
    BY <2>1 DEF Receive
  <2>3. s.pc \in {"token", "auth"}
    BY DEF Idle
  <2> HIDE DEF s
  <2> QED
    BY <1>1, <2>2, <2>3
<1>6. ASSUME Tick
      PROVE  FALSE
  BY <1>0, <1>6 DEF Tick, Seat
<1>7. ASSUME UNCHANGED req \/ req' = [q \in Req |-> Idle]
      PROVE  FALSE
  BY <1>0, <1>7
<1>8. ASSUME \/ FindPolicy \/ Operator \/ UNCHANGED vars
             \/ \E a \in Addr : Refuse(a)
      PROVE  FALSE
  <2>1. ASSUME NEW s \in Subject, AdminToken(s)
        PROVE  FALSE
    <3> DEFINE lasting(q) == req[q].late /\ (Brings(req[q].cred, s) =>
                                             token[s].revoked \/ token[s].life = 0)
    <3>1. \/ UNCHANGED req
          \/ req' = [q \in Req |-> [req[q] EXCEPT !.late = lasting(q)]]
      BY <2>1 DEF AdminToken
    <3> HIDE DEF lasting
    <3> QED
      BY <1>0, <1>7, <3>1 DEF Seat
  <2> QED
    BY <1>7, <1>8, <2>1 DEF FindPolicy, Operator, SetPolicy, RemovePolicy, Sign, Restart,
                            Refuse, vars
<1> QED
  BY <1>3, <1>4, <1>5, <1>6, <1>8 DEF Next

(* A denial that setPolicy has answered holds until it is removed: no      *)
(* other policy and no order of requests lets such a rotation through.     *)
THEOREM DenialsHold == Spec => DenyHolds
<1>1. ASSUME IInv, [Next]_vars, NEW r \in Req, LetThrough(r)
      PROVE  ~\E p \in denied : Covers(p, req'[r].sub, req'[r].on)
  <2>1. policy' = policy /\ denied' = denied /\ Allows(req'[r].sub, req'[r].on)
    BY <1>1, OnlyAllowedRotate
  <2>2. \A p \in denied : p \in policy /\ p.effect = "deny"
    BY <1>1 DEF IInv, DeniedIsStored
  <2> QED
    BY <2>1, <2>2 DEF Allows
<1>2. IInv /\ [Next]_vars =>
        [\A r \in Req : req[r].pc # "rotate" /\ req'[r].pc = "rotate" =>
           ~\E p \in denied : Covers(p, req'[r].sub, req'[r].on)]_vars
  BY <1>1 DEF LetThrough
<1> QED
  BY <1>2, AccessInvariant, PTL DEF Spec, DenyHolds
=============================================================================
