------------------------------- MODULE Access --------------------------------
(***************************************************************************)
(* The way into the servers: the middleware chain of the REST server under *)
(* each of its profiles, the /mcp endpoint with its sessions, the v2       *)
(* endpoint and the credential proxy. One server runs; what it shares with *)
(* the others is the registry of workload tokens and the policies.         *)
(*                                                                         *)
(* Times are relative to the present: the `life` of a JWT is what is left  *)
(* of it, a request was seen so many ticks ago, an address is blocked for  *)
(* `until` more ticks.                                                     *)
(***************************************************************************)
EXTENDS Naturals, FiniteSets

CONSTANTS Subject,      \* clients
          Addr, Inside, \* what getClientIP answers, and what of it is in the
                        \* whitelisted ranges (no address at all counts as in)
          Session,      \* session ids
          Resource,     \* logical secrets
          Req,          \* requests under way at a time
          Program,      \* the servers
          Window, Limit,            \* of the rate limiter
          AccessLife, RefreshLife,  \* of the JWTs
          MaxTime, Forever,         \* of the registry
          None,
          MaxChanges    \* bound on what operators change

ASSUME AccessAssumption ==
  /\ Program \subseteq {"open", "bearer", "oauth2", "mtls+jwt", "mcp", "mcp2", "proxy"}
  /\ {Window, Limit, AccessLife, RefreshLife} \subseteq Nat \ {0}
  /\ MaxChanges \in Nat /\ Inside \subseteq Addr /\ None \notin Subject \cup Session \cup Resource
  /\ MaxTime \in Nat \ {0} /\ Forever \notin Nat

VARIABLES program, \* the server
          clients, \* the subjects its configuration names
          legacy,  \* VW_LEGACY_TOKENS
          token,   \* the registry: a workload token for each subject
          jwt,     \* signed, with what is left of each
          limit,   \* of each address: requests seen, how long it is blocked
          session, \* the subject of each transport
          policy,  \* authz_policies
          admin,   \* the policy a setPolicy is looking for
          req,     \* the requests
          gone,    \* history: time since a subject was a client
          blocked, \* history: time an address has been blocked since it was let in
          denied,  \* history: what setPolicy has answered is denied
          changes  \* how much of MaxChanges has been used

vars == <<program, clients, legacy, token, jwt, limit, session, policy, admin, req,
          gone, blocked, denied, changes>>
config == <<program, clients, legacy, gone>>
limiter == <<limit, blocked>>
policies == <<policy, admin, denied>>

Registry == INSTANCE TokenRegistry WITH Token <- Subject

ASSUME RecordAssumption == None \notin Registry!Record

Issued == [life |-> Forever, cut |-> Forever, revoked |-> FALSE]

(* What a request brings along. `ok`: a workload token is for this server, *)
(* a JWT has the scope read:secrets. `cert`: the proxy in front has seen an*)
(* allowed certificate.                                                    *)
Cred(kind, sub, ok) == [kind |-> kind, sub |-> sub, ok |-> ok, life |-> 0, cert |-> FALSE]
Nothing == Cred("nothing", None, FALSE)

Idle == [pc |-> "idle", op |-> "none", cred |-> Nothing, sub |-> None,
         of |-> None, on |-> None, late |-> FALSE]

(* The policies about rotations: a pattern is the set of resources that it *)
(* covers. Rows for other actions, and those that do not parse, match none.*)
Row == [subject : Subject, covers : SUBSET Resource \ {{}}, effect : {"allow", "deny"}]

Workload == program \in {"bearer", "mcp", "mcp2", "proxy"}

(* Servers at which legacy tokens are tried. /mcp takes them too: that is  *)
(* left to mcp2, which authenticates with the same function.               *)
Legacy == program \in {"bearer", "mcp2", "proxy"}

(* Servers that know their clients by name.                                *)
Named == program \in {"bearer", "mcp2", "oauth2"}

Init ==
  /\ program \in Program
  /\ clients = Subject /\ legacy = Legacy
  /\ token \in [Subject -> IF Workload THEN {None, Issued} ELSE {None}]
  /\ jwt = {} /\ admin = None /\ changes = 0
  /\ limit = [a \in Addr |-> [seen |-> [t \in 0 .. Window - 1 |-> 0], until |-> 0]]
  /\ session = [x \in Session |-> "unused"]
  /\ policy \in IF program = "mcp" THEN SUBSET Row ELSE {{}}
  /\ denied = {p \in policy : p.effect = "deny"}
  /\ req = [r \in Req |-> Idle]
  /\ gone = [s \in Subject |-> 0] /\ blocked = [a \in Addr |-> 0]

-----------------------------------------------------------------------------
At(r, label) == req[r].pc = label
Done(r) == req' = [req EXCEPT ![r] = Idle]

(* The REST servers turn other addresses away before they count for the    *)
(* limiter.                                                                *)
IpWhitelist(a) == program \in {"mcp", "mcp2", "proxy"} \/ a \in Inside

Limited == program \in {"bearer", "oauth2", "mtls+jwt"}

(* A workload token for this server, or a legacy token unless switched off.*)
ResolveIdentity(c) ==
  \/ c.kind = "vwsk" /\ c.ok /\ Registry!Valid(c.sub)
  \/ c.kind = "legacy" /\ legacy /\ (program # "proxy" => c.sub \in clients)

VerifyToken(c) == c.kind \in {"access", "refresh"} /\ c.life > 0

OAuth2Auth(c) == VerifyToken(c) /\ c.kind = "access"
JwtAuth(c) == VerifyToken(c) /\ c.kind = "access" /\ c.ok
MtlsAuth(c) == c.cert

Accepts(c) ==
  \/ program = "open"
  \/ Workload /\ ResolveIdentity(c)
  \/ program = "oauth2" /\ OAuth2Auth(c)
  \/ program = "mtls+jwt" /\ MtlsAuth(c) /\ JwtAuth(c)

(* Whether those who run the server have taken back what makes a           *)
(* credential good, its time has passed, or nothing ever did. For anything *)
(* but a token of these three kinds, there is no route.                    *)
Withdrawn(c) ==
  CASE c.kind = "vwsk" ->
         LET t == token[c.sub] IN ~c.ok \/ t.revoked \/ t.life = 0 \/ t.cut = 0
    [] c.kind = "legacy" -> ~legacy \/ (program # "proxy" /\ c.sub \notin clients)
    [] c.kind = "access" ->
         \/ c.life = 0
         \/ program = "oauth2" /\ gone[c.sub] >= AccessLife
         \/ program = "mtls+jwt" /\ ~(c.cert /\ c.ok)
    [] OTHER -> TRUE

(* What can be in an Authorization header, or in the form of /auth/token.  *)
(* A token for another server stands for everything that is never good.    *)
WorkloadTokens == {c \in {Cred("vwsk", s, TRUE) : s \in Subject}
                          \cup {Cred("vwsk", s, FALSE) : s \in Subject} : token[c.sub] # None}
LegacyTokens == {Cred("legacy", s, FALSE) : s \in {t \in Subject : Legacy}}
Jwts == jwt \cup {[c EXCEPT !.cert = TRUE] : c \in {d \in jwt : program = "mtls+jwt"}}
Secrets == {Cred("secret", s, FALSE) : s \in {t \in Subject : program = "oauth2"}}

Shown == IF program = "open" THEN {Nothing}
         ELSE IF Workload THEN WorkloadTokens \cup LegacyTokens
         ELSE Jwts \cup Secrets

-----------------------------------------------------------------------------
(* The requests of the window: so many ticks ago, the first, the second ...*)
Seen(a) ==
  Cardinality({p \in (0 .. Window - 1) \X (1 .. Limit) : p[2] <= limit[a].seen[p[1]]})

Refuse_again(a) ==
  /\ IpWhitelist(a) /\ Limited
  /\ limit[a].until > 0 \/ Seen(a) >= Limit
  /\ limit' = [limit EXCEPT ![a].until = Window]
  /\ UNCHANGED <<config, token, jwt, session, policies, req, blocked, changes>>

(* A request from a blocked address, or one too many, which blocks it.     *)
Refuse(a) ==
  /\ IpWhitelist(a) /\ Limited
  /\ limit[a].until > 0 \/ Seen(a) >= Limit
  /\ limit' = [limit EXCEPT ![a].until = IF @ > 0 THEN @ ELSE Window]
  /\ UNCHANGED <<config, token, jwt, session, policies, req, blocked, changes>>

(* The chain takes a request in. /auth/token is not behind oauth2Auth.     *)
Receive(r, a, op, c, x) ==
  /\ At(r, "idle") /\ IpWhitelist(a)
  /\ IF Limited
     THEN /\ limit[a].until = 0 /\ Seen(a) < Limit
          /\ limit' = [limit EXCEPT ![a].seen[0] = @ + 1]
          /\ blocked' = [blocked EXCEPT ![a] = 0]
     ELSE UNCHANGED limiter
  /\ req' = [req EXCEPT ![r] =
       [Idle EXCEPT !.pc = IF op = "token" THEN "token" ELSE "auth", !.op = op,
                    !.cred = c, !.of = x, !.late = Withdrawn(c)]]
  /\ UNCHANGED <<config, token, jwt, session, policies, changes>>

(* A route of the REST server, a call of the v2 endpoint, which has no     *)
(* sessions, or a request for a credential; /auth/token; and /mcp.         *)
Get(r, a, c) ==
  program \notin {"mcp", "mcp2", "proxy"} /\ Receive(r, a, "get", c, None)
Call(r, a, c) == program = "mcp2" /\ Receive(r, a, "get", c, None)
GetCred(r, a, c) == program = "proxy" /\ Receive(r, a, "get", c, None)
Token(r, a, c) == program = "oauth2" /\ Receive(r, a, "token", c, None)
Initialize(r, a, c) == program = "mcp" /\ Receive(r, a, "initialize", c, None)
Close(r, a, c, x) == program = "mcp" /\ Receive(r, a, "close", c, x)
Post(r, a, c, x) == program = "mcp" /\ Receive(r, a, "post", c, x)

(* The awaited verification of the credential, some time later.            *)
Authenticate(r) ==
  /\ At(r, "auth")
  /\ IF Accepts(req[r].cred)
     THEN req' = [req EXCEPT ![r] = [@ EXCEPT !.pc = "handle", !.sub = req[r].cred.sub,
                                                !.cred = Nothing]]
     ELSE Done(r)
  /\ UNCHANGED <<config, token, jwt, limiter, session, policies, changes>>

(* The route, the audit record and, for trust-no-one, the seal.            *)
Answer(r) ==
  /\ At(r, "handle") /\ req[r].op = "get"
  /\ Done(r)
  /\ UNCHANGED <<config, token, jwt, limiter, session, policies, changes>>

Signed(kind, s, ok, life) == [Cred(kind, s, ok) EXCEPT !.life = life]

(* The two grants: a client's secret, or a refresh token of a client.      *)
MayHave(c) ==
  /\ c.sub \in clients
  /\ c.kind = "secret" \/ (c.kind = "refresh" /\ VerifyToken(c))

IssueTokens(r) ==
  LET c == req[r].cred IN
  /\ At(r, "token")
  /\ jwt' = jwt \cup IF MayHave(c) THEN {Signed("access", c.sub, FALSE, AccessLife),
                                          Signed("refresh", c.sub, FALSE, RefreshLife)}
                     ELSE {}
  /\ Done(r)
  /\ UNCHANGED <<config, token, limiter, session, policies, changes>>

-----------------------------------------------------------------------------
(* /mcp: an initialize and a request without a live session open one.      *)
Live(x) == x # None /\ session[x] \in Subject

OpenSession(r) ==
  /\ At(r, "handle") /\ program = "mcp"
  /\ req[r].op # "close" /\ (req[r].op = "initialize" \/ ~Live(req[r].of))
  /\ \E x \in Session :
       /\ session[x] = "unused"
       /\ session' = [session EXCEPT ![x] = req[r].sub]
       /\ IF req[r].op = "initialize" THEN Done(r)
          ELSE req' = [req EXCEPT ![r].pc = "tool", ![r].of = x]
  /\ UNCHANGED <<config, token, jwt, limiter, policies, changes>>

(* The tools of a session act for the subject that opened it.              *)
UseSession(r) ==
  /\ At(r, "handle") /\ req[r].op = "post" /\ Live(req[r].of)
  /\ req' = [req EXCEPT ![r].pc = "tool", ![r].sub = session[req[r].of]]
  /\ UNCHANGED <<config, token, jwt, limiter, session, policies, changes>>

(* DELETE /mcp closes the transport, or there is none.                     *)
CloseSession(r) ==
  /\ At(r, "handle") /\ req[r].op = "close"
  /\ session' = IF Live(req[r].of) THEN [session EXCEPT ![req[r].of] = "closed"] ELSE session
  /\ Done(r)
  /\ UNCHANGED <<config, token, jwt, limiter, policies, changes>>

(* Any tool but rotate_secret: SecretTools has them.                       *)
Tool(r) ==
  /\ At(r, "tool") /\ Done(r)
  /\ UNCHANGED <<config, token, jwt, limiter, session, policies, changes>>

(* AuthorizationEngine.decide: something allows it and nothing denies it.  *)
Covers(p, s, on) == p.subject = s /\ on \in p.covers

Allows(s, on) ==
  LET matches == {p \in policy : Covers(p, s, on)} IN
  matches # {} /\ \A p \in matches : p.effect = "allow"

(* rotate_secret, to which the engine puts this question first.            *)
RotateSecret(r, on) ==
  /\ At(r, "tool")
  /\ IF Allows(req[r].sub, on)
     THEN req' = [req EXCEPT ![r].pc = "rotate", ![r].on = on] ELSE Done(r)
  /\ UNCHANGED <<config, token, jwt, limiter, session, policies, changes>>

(* The rotation itself is RotationEngine's.                                *)
Rotated(r) ==
  /\ At(r, "rotate") /\ Done(r)
  /\ UNCHANGED <<config, token, jwt, limiter, session, policies, changes>>

-----------------------------------------------------------------------------
Change == changes < MaxChanges /\ changes' = changes + 1

(* setPolicy: the INSERT ... ON CONFLICT DO NOTHING ... The natural key of *)
(* a policy is all of it but its id.                                       *)
SetPolicy(p) ==
  /\ program = "mcp" /\ admin = None /\ Change
  /\ IF p \in policy
     THEN admin' = p /\ UNCHANGED <<policy, denied>>
     ELSE /\ policy' = policy \cup {p}
          /\ denied' = IF p.effect = "deny" THEN denied \cup {p} ELSE denied
          /\ UNCHANGED admin
  /\ UNCHANGED <<config, token, jwt, limiter, session, req>>

FindPolicy_blind ==
  /\ admin # None
  /\ admin' = None
  /\ denied' = IF admin.effect = "deny" THEN denied \cup {admin} ELSE denied
  /\ UNCHANGED <<config, token, jwt, limiter, session, policy, req, changes>>

(* ... and the SELECT after a conflict, which throws if the row has gone.  *)
FindPolicy ==
  /\ admin # None
  /\ admin' = None
  /\ denied' = IF admin.effect = "deny" /\ admin \in policy
               THEN denied \cup {admin} ELSE denied
  /\ UNCHANGED <<config, token, jwt, limiter, session, policy, req, changes>>

RemovePolicy(p) ==
  /\ p \in policy /\ Change
  /\ policy' = policy \ {p} /\ denied' = denied \ {p}
  /\ UNCHANGED <<config, token, jwt, limiter, session, admin, req>>

Brings(c, s) == c.kind = "vwsk" /\ c.sub = s /\ c.ok

(* identity-admin, as TokenRegistry has it. To rotate a token that has     *)
(* been cut off already gives it a new overlap: unless it is revoked or    *)
(* has expired, it is good again for whoever has brought it.               *)
AdminToken(s) ==
  /\ Workload /\ Change
  /\ \/ /\ Registry!Revoke(s) \/ \E life \in {1, Forever} : Registry!Issue(s, life)
        /\ UNCHANGED req
     \/ /\ Registry!Supersede(s, 1)
        /\ req' = [r \in Req |-> [req[r] EXCEPT !.late =
             @ /\ (Brings(req[r].cred, s) => token[s].revoked \/ token[s].life = 0)]]
  /\ UNCHANGED <<config, jwt, limiter, session, policies>>

(* Whoever holds JWT_SECRET signs the tokens of trust-no-one.              *)
Sign(s, ok) ==
  /\ program = "mtls+jwt" /\ Change
  /\ jwt' = jwt \cup {Signed("access", s, ok, AccessLife)}
  /\ UNCHANGED <<config, token, limiter, session, policies, req>>

(* The server restarts, possibly with other clients or without legacy      *)
(* tokens: requests, sessions and the limiter's memory are gone. With no   *)
(* client at all, the OAuth2 server exits instead.                         *)
Restart(cs, on) ==
  /\ Change /\ (cs # clients => Named) /\ (program = "oauth2" => cs # {})
  /\ clients' = cs /\ legacy' = on
  /\ gone' = [s \in Subject |-> IF s \in cs THEN 0 ELSE gone[s]]
  /\ limit' = [a \in Addr |-> [seen |-> [t \in 0 .. Window - 1 |-> 0], until |-> 0]]
  /\ session' = [x \in Session |-> IF session[x] = "unused" THEN session[x] ELSE "closed"]
  /\ req' = [r \in Req |-> Idle]
  /\ blocked' = [a \in Addr |-> 0]
  /\ UNCHANGED <<program, token, jwt, policies>>

Less(n) == IF n = 0 THEN 0 ELSE n - 1
Aged(c) == [c EXCEPT !.life = Less(@)]

Tick ==
  /\ Registry!Age
  /\ jwt' = {Aged(c) : c \in jwt}
  /\ req' = [r \in Req |-> [req[r] EXCEPT !.cred = Aged(@)]]
  /\ limit' = [a \in Addr |->
       [seen |-> [t \in 0 .. Window - 1 |-> IF t = 0 THEN 0 ELSE limit[a].seen[t - 1]],
        until |-> Less(limit[a].until)]]
  /\ gone' = [s \in Subject |-> IF s \notin clients /\ gone[s] < AccessLife
                                THEN gone[s] + 1 ELSE gone[s]]
  /\ blocked' = [a \in Addr |-> IF limit[a].until = 0 THEN blocked[a] ELSE blocked[a] + 1]
  /\ UNCHANGED <<program, clients, legacy, session, policies, changes>>

Step(r) == \/ Authenticate(r) \/ Answer(r) \/ IssueTokens(r)
           \/ OpenSession(r) \/ UseSession(r) \/ CloseSession(r)
           \/ Tool(r) \/ Rotated(r) \/ \E on \in Resource : RotateSecret(r, on)

Request(r, a, c) ==
  \/ Get(r, a, c) \/ Call(r, a, c) \/ GetCred(r, a, c) \/ Token(r, a, c) \/ Initialize(r, a, c)
  \/ \E x \in Session \cup {None} :
       /\ x = None \/ Live(x)
       /\ Close(r, a, c, x) \/ Post(r, a, c, x)

Operator ==
  \/ \E p \in Row : SetPolicy(p) \/ RemovePolicy(p)
  \/ \E s \in Subject : AdminToken(s) \/ \E ok \in BOOLEAN : Sign(s, ok)
  \/ \E cs \in SUBSET Subject : Restart(cs, legacy) \/ Restart(cs, FALSE)

Next ==
  \/ Tick \/ FindPolicy \/ Operator
  \/ \E a \in Addr : Refuse(a)
  \/ \E r \in Req : Step(r) \/ \E a \in Addr, c \in Shown : Request(r, a, c)

Spec == Init /\ [][Next]_vars

-----------------------------------------------------------------------------
(* A request that arrives with a credential that has expired, been revoked *)
(* or cut off, is not for this server or route, or is of somebody who      *)
(* stopped being a client a JWT's lifetime ago, gets past the middleware   *)
(* of no protected server: not by its session, not by refreshing in time,  *)
(* not by being slow - unless its token is rotated once more meanwhile.    *)
WithdrawnIsRefused ==
  \A r \in Req : req[r].pc \in {"handle", "tool", "rotate"} /\ program # "open" => ~req[r].late

(* Once setPolicy has answered that a rotation is denied, and until that   *)
(* policy is removed, none is let through, whatever else the table has.    *)
DenyHolds ==
  [][\A r \in Req : req[r].pc # "rotate" /\ req'[r].pc = "rotate" =>
       ~\E p \in denied : Covers(p, req'[r].sub, req'[r].on)]_vars

(* An address is blocked for no more than a window before a request of it  *)
(* is let in again, however often it tries in the meantime: neither does a *)
(* block grow, nor does the next one follow from what was refused.         *)
BlockIsShort == \A a \in Addr : limit[a].until > 0 => blocked[a] < Window
=============================================================================
