-------------------------- MODULE SecretLifecycle --------------------------
(***************************************************************************)
(* The metadata store of server/control-plane/lifecycle.ts: logical        *)
(* secrets, their immutable numbered versions, the aliases that point to   *)
(* versions, the idempotency keys and the audit ledger.                    *)
(*                                                                         *)
(* Every call is one BEGIN IMMEDIATE transaction (db.ts), so it is one     *)
(* action, whichever process makes it. A call that throws rolls back, and  *)
(* a call that is answered from an idempotency key or finds nothing to do  *)
(* writes nothing: those calls are stuttering steps.                       *)
(***************************************************************************)
EXTENDS Integers, Sequences, FiniteSets

CONSTANTS Secret,      \* secret names
          Alias,       \* alias names other than 'latest'
          Payload,     \* payload references
          Key,         \* idempotency keys
          Provenance,  \* importedFrom values
          None,
          MaxVersions, \* bound on the versions of a secret
          MaxLedger    \* bound on the number of mutations

ASSUME LifecycleAssumption ==
  /\ MaxVersions \in Nat /\ MaxLedger \in Nat
  /\ "latest" \notin Alias /\ None \notin Alias
  /\ None \notin Payload /\ None \notin Key
  /\ {"absent", "native"} \cap Provenance = {}

VARIABLES origin,   \* logical_secrets: absent, native or imported_from
          state,    \* secret_versions.state, per secret and number
          payload,  \* secret_versions.payload_ref
          alias,    \* secret_aliases: version number, 0 when unset
          keys,     \* idempotency_keys: the recorded answer
          ledger    \* audit_ledger and, row for row, outbox_events

vars == <<origin, state, payload, alias, keys, ledger>>

Number == 1 .. MaxVersions
State == {"ENABLED", "DISABLED", "DESTROYED"}
Name  == Alias \cup {"latest"}

NoAnswer == [scope |-> "none", secret |-> None, version |-> 0, payload |-> None]

Answer == {NoAnswer} \cup
  [scope : {"secret.create", "version.add", "secret.import"},
   secret : Secret, version : 0 .. MaxVersions, payload : Payload \cup {None}]

Entry == [action : {"secret.create", "secret.import", "version.add",
                    "version.enabled", "version.disabled",
                    "version.destroyed", "alias.move"},
          secret : Secret, name : Name \cup {None}, version : 0 .. MaxVersions]

(* Types; and a version has a payload reference until it is destroyed.     *)
TypeOK ==
  /\ origin \in [Secret -> {"absent", "native"} \cup Provenance]
  /\ state \in [Secret -> [Number -> State \cup {"absent"}]]
  /\ payload \in [Secret -> [Number -> Payload \cup {None}]]
  /\ alias \in [Secret -> [Name -> 0 .. MaxVersions]]
  /\ keys \in [Key -> Answer]
  /\ ledger \in Seq(Entry)
  /\ \A s \in Secret, n \in Number :
       payload[s][n] = None <=> state[s][n] \in {"absent", "DESTROYED"}

Init ==
  /\ origin = [s \in Secret |-> "absent"]
  /\ state = [s \in Secret |-> [n \in Number |-> "absent"]]
  /\ payload = [s \in Secret |-> [n \in Number |-> None]]
  /\ alias = [s \in Secret |-> [a \in Name |-> 0]]
  /\ keys = [k \in Key |-> NoAnswer]
  /\ ledger = <<>>

-----------------------------------------------------------------------------
Exists(s) == origin[s] # "absent"
Live(s, n) == state[s][n] \in {"ENABLED", "DISABLED"}

(* idempotent(): a fresh key, or no key at all, lets the work run; the     *)
(* answer is recorded under the key in the same transaction.               *)
Fresh(k) == k # None => keys[k] = NoAnswer
Remember(k, answer) ==
  keys' = IF k = None THEN keys ELSE [keys EXCEPT ![k] = answer]

(* auditMutation: one ledger row and one outbox event.                     *)
Log(action, s, name, n) ==
  /\ Len(ledger) < MaxLedger
  /\ ledger' = Append(ledger, [action |-> action, secret |-> s,
                               name |-> name, version |-> n])

CreateSecret(s, k) ==
  /\ Fresh(k)
  /\ Remember(k, [scope |-> "secret.create", secret |-> s, version |-> 0,
                  payload |-> None])
  /\ \/ /\ ~Exists(s)
        /\ origin' = [origin EXCEPT ![s] = "native"]
        /\ Log("secret.create", s, None, 0)
     \/ Exists(s) /\ UNCHANGED <<origin, ledger>>
  /\ UNCHANGED <<state, payload, alias>>

NextVersion_afterEnabled(s) ==
  1 + Cardinality({n \in Number : state[s][n] = "ENABLED"})

NextVersion_afterLive(s) ==
  CHOOSE n \in 1 .. MaxVersions + 1 :
    /\ \A m \in Number : Live(s, m) => m < n
    /\ n = 1 \/ Live(s, n - 1)

(* COALESCE(MAX(version), 0) + 1                                           *)
NextVersion(s) ==
  CHOOSE n \in 1 .. MaxVersions + 1 :
    /\ \A m \in Number : state[s][m] # "absent" => m < n
    /\ n = 1 \/ state[s][n - 1] # "absent"

(* The INSERT of a version, and updateLatest.                              *)
InsertVersion(s, n, p) ==
  /\ state' = [state EXCEPT ![s][n] = "ENABLED"]
  /\ payload' = [payload EXCEPT ![s][n] = p]
  /\ alias' = [alias EXCEPT ![s]["latest"] = n]

AddVersion(s, p, k) ==
  LET n == NextVersion(s) IN
  /\ Fresh(k) /\ Exists(s)
  /\ n \in Number
  /\ InsertVersion(s, n, p)
  /\ Remember(k, [scope |-> "version.add", secret |-> s, version |-> n,
                  payload |-> p])
  /\ Log("version.add", s, None, n)
  /\ UNCHANGED origin

(* importLegacy always has a key, given or derived from name and reference;*)
(* a secret of other provenance throws before the key is looked at; a    *)
(* known secret of the same provenance only gets the key.                  *)
ImportLegacy(s, p, from, k) ==
  /\ Fresh(k)
  /\ origin[s] \in {"absent", from}
  /\ Remember(k, [scope |-> "secret.import", secret |-> s, version |-> 0,
                  payload |-> None])
  /\ \/ /\ ~Exists(s) /\ 1 \in Number
        /\ origin' = [origin EXCEPT ![s] = from]
        /\ InsertVersion(s, 1, p)
        /\ Log("secret.import", s, None, 1)
     \/ Exists(s) /\ UNCHANGED <<origin, state, payload, alias, ledger>>

-----------------------------------------------------------------------------
(* transition(): enableVersion and disableVersion.                         *)
Enable(s, n) ==
  /\ state[s][n] = "DISABLED"
  /\ state' = [state EXCEPT ![s][n] = "ENABLED"]
  /\ Log("version.enabled", s, None, n)
  /\ UNCHANGED <<origin, payload, alias, keys>>

Disable(s, n) ==
  /\ state[s][n] = "ENABLED"
  /\ state' = [state EXCEPT ![s][n] = "DISABLED"]
  /\ Log("version.disabled", s, None, n)
  /\ UNCHANGED <<origin, payload, alias, keys>>

(* The newest ENABLED version, for `latest` once a version is destroyed.   *)
Replacement(s, n) ==
  LET Newest(m) == /\ m # n /\ state[s][m] = "ENABLED"
                   /\ \A o \in Number \ {n} : state[s][o] = "ENABLED" => o <= m
  IN IF \E m \in Number : Newest(m) THEN CHOOSE m \in Number : Newest(m) ELSE 0

Destroy_keepsReference(s, n) ==
  /\ Live(s, n)
  /\ \A a \in Alias : alias[s][a] # n
  /\ state' = [state EXCEPT ![s][n] = "DESTROYED"]
  /\ alias' = [alias EXCEPT ![s]["latest"] = Replacement(s, n)]
  /\ Log("version.destroyed", s, None, n)
  /\ UNCHANGED <<origin, payload, keys>>

Destroy_keepsLatest(s, n) ==
  /\ Live(s, n)
  /\ \A a \in Alias : alias[s][a] # n
  /\ state' = [state EXCEPT ![s][n] = "DESTROYED"]
  /\ payload' = [payload EXCEPT ![s][n] = None]
  /\ alias' = IF Replacement(s, n) = 0 THEN alias
              ELSE [alias EXCEPT ![s]["latest"] = Replacement(s, n)]
  /\ Log("version.destroyed", s, None, n)
  /\ UNCHANGED <<origin, keys>>

(* destroyVersion: refused while an alias other than `latest` targets the  *)
(* version; the reference is scrubbed and `latest` is dropped or repointed.*)
Destroy(s, n) ==
  /\ Live(s, n)
  /\ \A a \in Alias : alias[s][a] # n
  /\ state' = [state EXCEPT ![s][n] = "DESTROYED"]
  /\ payload' = [payload EXCEPT ![s][n] = None]
  /\ alias' = [alias EXCEPT ![s]["latest"] =
                 IF Replacement(s, n) # 0 THEN Replacement(s, n)
                 ELSE IF @ = n THEN 0 ELSE @]
  /\ Log("version.destroyed", s, None, n)
  /\ UNCHANGED <<origin, keys>>

MoveAlias_unaudited(s, a, n) ==
  /\ Exists(s) /\ Live(s, n)
  /\ alias' = [alias EXCEPT ![s][a] = n]
  /\ UNCHANGED <<origin, state, payload, keys, ledger>>

(* moveAlias, and moveAliasCas when the caller's expected version matches. *)
MoveAlias(s, a, n) ==
  /\ Exists(s) /\ Live(s, n)
  /\ alias' = [alias EXCEPT ![s][a] = n]
  /\ Log("alias.move", s, a, n)
  /\ UNCHANGED <<origin, state, payload, keys>>

MoveAliasCas(s, a, n, expected) == alias[s][a] = expected /\ MoveAlias(s, a, n)

Next ==
  \E s \in Secret :
    \/ \E k \in Key \cup {None} :
         CreateSecret(s, k) \/ \E p \in Payload : AddVersion(s, p, k)
    \/ \E k \in Key, p \in Payload, from \in Provenance :
         ImportLegacy(s, p, from, k)
    \/ \E n \in Number :
         \/ Enable(s, n) \/ Disable(s, n) \/ Destroy(s, n)
         \/ \E a \in Alias :
              \/ MoveAlias(s, a, n)
              \/ \E expected \in 0 .. MaxVersions : MoveAliasCas(s, a, n, expected)

Spec == Init /\ [][Next]_vars

-----------------------------------------------------------------------------
(* getVersion: what a number or an alias resolves to, 0 for null.          *)
Resolve(s, n) == IF n # 0 /\ Live(s, n) THEN n ELSE 0

(* No alias dangles: every alias that is set, `latest` included, resolves  *)
(* to a version that is not destroyed, however moves, destructions and     *)
(* insertions of different processes follow one another.                   *)
AliasesResolve ==
  \A s \in Secret, a \in Name : Resolve(s, alias[s][a]) = alias[s][a]

(* Two calls with different keys were never answered with the same         *)
(* version: numbers of destroyed versions are not handed out again.        *)
AnswersAreDistinct ==
  \A j, k \in Key :
    /\ keys[j].scope = "version.add" /\ keys[k].scope = "version.add"
    /\ keys[j].secret = keys[k].secret /\ keys[j].version = keys[k].version
    => j = k

(* The evidence is complete: the last ledger row about a version or an     *)
(* alias says what the tables say (design.md: "version allocation, alias   *)
(* updates, an audit entry, and the corresponding outbox event commit      *)
(* together").                                                             *)
LastAbout(s, actions, name, n) ==
  LET about == {i \in 1 .. Len(ledger) :
                  /\ ledger[i].secret = s /\ ledger[i].action \in actions
                  /\ name = None => ledger[i].version = n
                  /\ name # None => ledger[i].name = name}
  IN IF about = {} THEN [action |-> "none", version |-> 0]
     ELSE ledger[CHOOSE i \in about : \A j \in about : j <= i]

StateAfter(action) ==
  CASE action = "none"              -> "absent"
    [] action = "version.disabled"  -> "DISABLED"
    [] action = "version.destroyed" -> "DESTROYED"
    [] OTHER                        -> "ENABLED"

OfVersion == {"version.add", "secret.import", "version.enabled",
              "version.disabled", "version.destroyed"}

LedgerExplainsState ==
  \A s \in Secret :
    /\ \A n \in Number :
         state[s][n] = StateAfter(LastAbout(s, OfVersion, None, n).action)
    /\ \A a \in Alias : alias[s][a] = LastAbout(s, {"alias.move"}, a, 0).version

(* design.md: "`DESTROYED` is terminal", and an existing version keeps its *)
(* payload reference until then.                                           *)
VersionsAreImmutable ==
  [][\A s \in Secret, n \in Number :
       /\ state[s][n] = "DESTROYED" => state'[s][n] = "DESTROYED"
       /\ state[s][n] # "absent" =>
            payload'[s][n] = payload[s][n] \/ state'[s][n] = "DESTROYED"]_vars

(* design.md: "A destroyed version has its `payload_ref` scrubbed". No     *)
(* table still holds the reference of a destroyed version.                 *)
ScrubbedEverywhere ==
  \A k \in Key :
    /\ keys[k].scope = "version.add"
    /\ state[keys[k].secret][keys[k].version] = "DESTROYED"
    => keys[k].payload = None
=============================================================================
