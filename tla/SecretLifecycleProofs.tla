----------------------- MODULE SecretLifecycleProofs -----------------------
(***************************************************************************)
(* Proofs about SecretLifecycle. The invariant says, beside the types and  *)
(* that aliases resolve, that the versions of a secret are numbered from 1 *)
(* without gaps (so that the next number is free), that a secret which     *)
(* does not exist has none, and that a recorded answer names a version     *)
(* that was really inserted.                                               *)
(***************************************************************************)
EXTENDS SecretLifecycle, TLAPS

Numbered ==
  \A s \in Secret : \E top \in 0 .. MaxVersions : \A m \in Number :
    state[s][m] # "absent" <=> m <= top

NoneWithoutSecret ==
  \A s \in Secret : ~Exists(s) => \A m \in Number : state[s][m] = "absent"

AnswersExist ==
  \A k \in Key : keys[k].scope = "version.add" =>
    /\ keys[k].version \in Number
    /\ state[keys[k].secret][keys[k].version] # "absent"

IInv == /\ TypeOK /\ AliasesResolve /\ Numbered /\ NoneWithoutSecret
        /\ AnswersExist /\ AnswersAreDistinct

(* The number NextVersion chooses is above every number in use, and right  *)
(* above one of them unless it is the first.                               *)
LEMMA NextVersionIsFree ==
  ASSUME TypeOK, Numbered, NEW s \in Secret
  PROVE  /\ NextVersion(s) \in 1 .. MaxVersions + 1
         /\ \A m \in Number : state[s][m] # "absent" => m < NextVersion(s)
         /\ NextVersion(s) = 1 \/ state[s][NextVersion(s) - 1] # "absent"
<1> DEFINE P(n) == /\ \A m \in Number : state[s][m] # "absent" => m < n
                   /\ n = 1 \/ state[s][n - 1] # "absent"
<1>1. PICK top \in 0 .. MaxVersions : \A m \in Number :
        state[s][m] # "absent" <=> m <= top
  BY DEF Numbered
<1>2. top + 1 \in 1 .. MaxVersions + 1
  BY LifecycleAssumption
<1>3. P(top + 1)
  <2>1. \A m \in Number : state[s][m] # "absent" => m < top + 1
    BY <1>1, LifecycleAssumption DEF Number
  <2>2. ASSUME top # 0 PROVE state[s][(top + 1) - 1] # "absent"
    <3>1. top \in Number /\ (top + 1) - 1 = top
      BY <2>2, LifecycleAssumption DEF Number
    <3> QED BY <3>1, <1>1
  <2> QED BY <2>1, <2>2
<1>4. \E n \in 1 .. MaxVersions + 1 : P(n)
  BY <1>2, <1>3
<1>5. NextVersion(s) = CHOOSE n \in 1 .. MaxVersions + 1 : P(n)
  BY DEF NextVersion
<1> HIDE DEF P
<1>6. NextVersion(s) \in 1 .. MaxVersions + 1 /\ P(NextVersion(s))
  BY <1>4, <1>5
<1> QED BY <1>6 DEF P

(* In the initial state there is nothing.                                  *)
LEMMA LifecycleInit == Init => IInv
<1> SUFFICES ASSUME Init PROVE IInv
  OBVIOUS
<1>1. TypeOK
  BY LifecycleAssumption DEF Init, TypeOK, Answer, NoAnswer, Name, Number, Entry
<1>2. AliasesResolve
  BY DEF Init, AliasesResolve, Resolve, Name
<1>3. Numbered
  <2>1. 0 \in 0 .. MaxVersions /\ \A m \in Number : ~(m <= 0)
    BY LifecycleAssumption DEF Number
  <2> QED BY <2>1 DEF Init, Numbered
<1>4. NoneWithoutSecret /\ AnswersExist /\ AnswersAreDistinct
  BY DEF Init, NoneWithoutSecret, AnswersExist, AnswersAreDistinct, NoAnswer
<1> QED BY <1>1, <1>2, <1>3, <1>4 DEF IInv

(* A new version of a secret, at any number that was not in use.           *)
LEMMA InsertKeepsTables ==
  ASSUME IInv, NEW s \in Secret, NEW n \in Number, NEW p \in Payload,
         InsertVersion(s, n, p)
  PROVE  /\ state' \in [Secret -> [Number -> State \cup {"absent"}]]
         /\ payload' \in [Secret -> [Number -> Payload \cup {None}]]
         /\ alias' \in [Secret -> [Name -> 0 .. MaxVersions]]
         /\ \A t \in Secret, m \in Number :
              payload'[t][m] = None <=> state'[t][m] \in {"absent", "DESTROYED"}
         /\ \A t \in Secret, m \in Number :
              state'[t][m] = IF t = s /\ m = n THEN "ENABLED" ELSE state[t][m]
         /\ \A t \in Secret, m \in Number :
              (t # s \/ m # n) => payload'[t][m] = payload[t][m]
         /\ AliasesResolve'
<1> USE DEF IInv, TypeOK, InsertVersion
<1>1. state' \in [Secret -> [Number -> State \cup {"absent"}]]
  BY DEF State
<1>2. payload' \in [Secret -> [Number -> Payload \cup {None}]]
  OBVIOUS
<1>3. n \in 0 .. MaxVersions /\ "latest" \in Name
  BY LifecycleAssumption DEF Number, Name
<1>4. alias' \in [Secret -> [Name -> 0 .. MaxVersions]]
  BY <1>3
<1>5. \A t \in Secret, m \in Number :
        state'[t][m] = IF t = s /\ m = n THEN "ENABLED" ELSE state[t][m]
  OBVIOUS
<1>6. \A t \in Secret, m \in Number :
        payload'[t][m] = IF t = s /\ m = n THEN p ELSE payload[t][m]
  OBVIOUS
<1>7. \A t \in Secret, m \in Number :
        payload'[t][m] = None <=> state'[t][m] \in {"absent", "DESTROYED"}
  BY <1>5, <1>6, LifecycleAssumption
<1>8. AliasesResolve'
  <2> SUFFICES ASSUME NEW t \in Secret, NEW a \in Name
               PROVE  Resolve(t, alias[t][a])' = alias'[t][a]
    BY DEF AliasesResolve
  <2>1. alias'[t][a] = IF t = s /\ a = "latest" THEN n ELSE alias[t][a]
    BY <1>3
  <2>2. Resolve(t, alias[t][a]) = alias[t][a]
    BY DEF AliasesResolve
  <2>3. alias[t][a] \in 0 .. MaxVersions
    OBVIOUS
  <2>4. \A m \in Number : Live(t, m) => Live(t, m)'
    BY <1>5 DEF Live
  <2>5. Live(s, n)'
    BY <1>5 DEF Live
  <2>6. n # 0
    BY DEF Number
  <2>7. CASE t = s /\ a = "latest"
    BY <2>1, <2>5, <2>6, <2>7 DEF Resolve
  <2>8. CASE ~(t = s /\ a = "latest")
    <3>1. alias'[t][a] = alias[t][a]
      BY <2>1, <2>8
    <3>2. CASE alias[t][a] = 0
      BY <3>1, <3>2 DEF Resolve
    <3>3. CASE alias[t][a] # 0
      <4>1. alias[t][a] \in Number
        BY <3>3, <2>3, LifecycleAssumption DEF Number
      <4>2. Live(t, alias[t][a])
        BY <3>3, <2>2 DEF Resolve
      <4> QED BY <4>1, <4>2, <2>4, <3>1, <3>3 DEF Resolve, Live
    <3> QED BY <3>2, <3>3
  <2> QED BY <2>7, <2>8
<1> QED BY <1>1, <1>2, <1>4, <1>5, <1>6, <1>7, <1>8

(* What every action keeps when it leaves all versions as they are.        *)
LEMMA KeysKept ==
  ASSUME IInv, UNCHANGED keys,
         \A s \in Secret, m \in Number :
           state'[s][m] = "absent" <=> state[s][m] = "absent"
  PROVE  AnswersExist' /\ AnswersAreDistinct'
<1>1. \A k \in Key : keys[k].scope = "version.add" => keys[k].secret \in Secret
  BY DEF IInv, TypeOK, Answer, NoAnswer
<1>2. AnswersExist'
  BY <1>1 DEF IInv, AnswersExist
<1>3. AnswersAreDistinct'
  BY DEF IInv, AnswersAreDistinct
<1> QED BY <1>2, <1>3

(* What every action keeps when it also leaves the secrets as they are.    *)
LEMMA NumbersKept ==
  ASSUME IInv, UNCHANGED origin,
         \A s \in Secret, m \in Number :
           state'[s][m] = "absent" <=> state[s][m] = "absent"
  PROVE  Numbered' /\ NoneWithoutSecret'
<1>1. Numbered'
  BY DEF IInv, Numbered
<1>2. NoneWithoutSecret'
  BY DEF IInv, NoneWithoutSecret, Exists
<1> QED BY <1>1, <1>2

(* An answer that is no version.add is recorded, or nothing is.            *)
LEMMA OtherAnswers ==
  ASSUME IInv, NEW s \in Secret, NEW k \in Key \cup {None}, Fresh(k),
         NEW scope \in {"secret.create", "secret.import"},
         Remember(k, [scope |-> scope, secret |-> s, version |-> 0,
                      payload |-> None]),
         \A t \in Secret, m \in Number :
           state[t][m] # "absent" => state'[t][m] # "absent"
  PROVE  keys' \in [Key -> Answer] /\ AnswersExist' /\ AnswersAreDistinct'
<1> DEFINE answer == [scope |-> scope, secret |-> s, version |-> 0,
                      payload |-> None]
<1>1. answer \in Answer /\ answer.scope # "version.add"
  BY LifecycleAssumption DEF Answer
<1>2. keys \in [Key -> Answer]
  BY DEF IInv, TypeOK
<1> HIDE DEF answer
<1>3. keys' \in [Key -> Answer]
  BY <1>1, <1>2 DEF Remember, answer
<1>4. \A j \in Key : keys'[j] = keys[j] \/ keys'[j].scope # "version.add"
  BY <1>1, <1>2 DEF Remember, answer
<1>5. \A j \in Key : keys[j].scope = "version.add" => keys[j].secret \in Secret
  BY <1>2 DEF Answer, NoAnswer
<1>6. AnswersExist'
  BY <1>4, <1>5 DEF IInv, AnswersExist
<1>7. AnswersAreDistinct'
  BY <1>4 DEF IInv, AnswersAreDistinct
<1> QED BY <1>3, <1>6, <1>7

(* A row that Log appends is an entry of the ledger.                       *)
LEMMA LogKeepsType ==
  ASSUME TypeOK, NEW s \in Secret, NEW action, NEW name \in Name \cup {None},
         NEW n \in 0 .. MaxVersions, Log(action, s, name, n),
         action \in {"secret.create", "secret.import", "version.add",
                     "version.enabled", "version.disabled",
                     "version.destroyed", "alias.move"}
  PROVE  ledger' \in Seq(Entry)
<1>1. [action |-> action, secret |-> s, name |-> name, version |-> n] \in Entry
  BY DEF Entry
<1> QED BY <1>1 DEF Log, TypeOK

(* createSecret, also when it finds the secret or the answer.              *)
LEMMA CreateSecretKeeps ==
  ASSUME IInv, NEW s \in Secret, NEW k \in Key \cup {None}, CreateSecret(s, k)
  PROVE  IInv'
<1>1. keys' \in [Key -> Answer] /\ AnswersExist' /\ AnswersAreDistinct'
  BY OtherAnswers DEF CreateSecret
<1>2. ledger' \in Seq(Entry)
  BY LogKeepsType, LifecycleAssumption DEF CreateSecret, IInv, TypeOK
<1>3. origin' \in [Secret -> {"absent", "native"} \cup Provenance]
  BY DEF CreateSecret, IInv, TypeOK
<1>4. TypeOK'
  BY <1>1, <1>2, <1>3 DEF CreateSecret, IInv, TypeOK
<1>5. AliasesResolve' /\ Numbered'
  BY DEF CreateSecret, IInv, AliasesResolve, Resolve, Live, Numbered
<1>6. NoneWithoutSecret'
  BY DEF CreateSecret, IInv, TypeOK, NoneWithoutSecret, Exists
<1> QED BY <1>1, <1>4, <1>5, <1>6 DEF IInv

(* addVersion: the number is free, so neither a version nor an answer is   *)
(* lost.                                                                   *)
LEMMA AddVersionKeeps ==
  ASSUME IInv, NEW s \in Secret, NEW p \in Payload, NEW k \in Key \cup {None},
         AddVersion(s, p, k)
  PROVE  IInv'
<1> DEFINE n == NextVersion(s)
           answer == [scope |-> "version.add", secret |-> s, version |-> n,
                      payload |-> p]
<1>1. n \in Number /\ InsertVersion(s, n, p) /\ Remember(k, answer) /\ Fresh(k)
      /\ Exists(s) /\ Log("version.add", s, None, n) /\ UNCHANGED origin
  BY DEF AddVersion
<1>2. /\ \A m \in Number : state[s][m] # "absent" => m < n
      /\ n = 1 \/ state[s][n - 1] # "absent"
  BY NextVersionIsFree DEF IInv
<1> HIDE DEF n
<1>3. n \in 0 .. MaxVersions /\ n \in Nat \ {0}
  BY <1>1, LifecycleAssumption DEF Number
<1>4. answer \in Answer /\ answer.scope = "version.add" /\ answer.version = n
      /\ answer.secret = s
  BY <1>3 DEF Answer
<1> HIDE DEF answer
<1>5. /\ state' \in [Secret -> [Number -> State \cup {"absent"}]]
      /\ payload' \in [Secret -> [Number -> Payload \cup {None}]]
      /\ alias' \in [Secret -> [Name -> 0 .. MaxVersions]]
      /\ \A t \in Secret, m \in Number :
           payload'[t][m] = None <=> state'[t][m] \in {"absent", "DESTROYED"}
      /\ \A t \in Secret, m \in Number :
           state'[t][m] = IF t = s /\ m = n THEN "ENABLED" ELSE state[t][m]
      /\ AliasesResolve'
  BY <1>1, InsertKeepsTables
<1>6. \A t \in Secret, m \in Number :
         state'[t][m] = IF t = s /\ m = n THEN "ENABLED" ELSE state[t][m]
  BY <1>5
<1>7. keys \in [Key -> Answer] /\ keys' \in [Key -> Answer]
  BY <1>1, <1>4 DEF Remember, IInv, TypeOK
<1>8. ledger' \in Seq(Entry)
  BY <1>1, <1>3, LogKeepsType DEF IInv
<1>9. TypeOK'
  BY <1>1, <1>5, <1>7, <1>8 DEF TypeOK, IInv
<1>10. Numbered'
  <2> SUFFICES ASSUME NEW t \in Secret
               PROVE  \E top \in 0 .. MaxVersions : \A m \in Number :
                        state'[t][m] # "absent" <=> m <= top
    BY DEF Numbered
  <2>1. CASE t # s
    <3>1. \A m \in Number : state'[t][m] = state[t][m]
      BY <2>1, <1>6
    <3>2. \E top \in 0 .. MaxVersions : \A m \in Number :
            state[t][m] # "absent" <=> m <= top
      BY DEF IInv, Numbered
    <3> QED BY <3>1, <3>2
  <2>2. CASE t = s
    <3>1. PICK top \in 0 .. MaxVersions : \A m \in Number :
            state[s][m] # "absent" <=> m <= top
      BY DEF IInv, Numbered
    <3>2. top = n - 1
      <4>1. top < n
        <5>1. CASE top = 0
          BY <5>1, <1>3
        <5>2. CASE top # 0
          BY <5>2, <3>1, <1>2, LifecycleAssumption DEF Number
        <5> QED BY <5>1, <5>2
      <4>2. n - 1 <= top
        <5>1. CASE n = 1
          BY <5>1, LifecycleAssumption
        <5>2. CASE n # 1
          <6>1. n - 1 \in Number
            BY <5>2, <1>3, LifecycleAssumption DEF Number
          <6> QED BY <6>1, <5>2, <1>2, <3>1
        <5> QED BY <5>1, <5>2
      <4> QED BY <4>1, <4>2, <1>3, LifecycleAssumption
    <3>3. \A m \in Number : state'[s][m] # "absent" <=> m <= n
      <4> SUFFICES ASSUME NEW m \in Number
                   PROVE  state'[s][m] # "absent" <=> m <= n
        OBVIOUS
      <4>1. CASE m = n
        BY <4>1, <1>6, <1>3
      <4>2. CASE m # n
        <5>1. state'[s][m] = state[s][m]
          BY <4>2, <1>6
        <5>2. m \in Nat /\ (m <= n <=> m <= n - 1)
          BY <4>2, <1>3 DEF Number
        <5> QED BY <5>1, <5>2, <3>1, <3>2
      <4> QED BY <4>1, <4>2
    <3> QED BY <2>2, <3>3, <1>3
  <2> QED BY <2>1, <2>2
<1>11. NoneWithoutSecret'
  BY <1>1, <1>6 DEF IInv, NoneWithoutSecret, Exists
<1>12. \A j \in Key : keys[j].scope = "version.add" => keys[j].secret \in Secret
  BY <1>7 DEF Answer, NoAnswer
<1>13. \A j \in Key : keys'[j] = IF j = k THEN answer ELSE keys[j]
  BY <1>1, <1>7, LifecycleAssumption DEF Remember
<1>14. AnswersExist'
  <2> SUFFICES ASSUME NEW j \in Key, keys'[j].scope = "version.add"
               PROVE  /\ keys'[j].version \in Number
                      /\ state'[keys'[j].secret][keys'[j].version] # "absent"
    BY DEF AnswersExist
  <2>1. CASE j = k
    BY <2>1, <1>1, <1>4, <1>6, <1>13
  <2>2. CASE j # k
    <3>1. keys'[j] = keys[j]
      BY <2>2, <1>13
    <3>2. /\ keys[j].secret \in Secret /\ keys[j].version \in Number
          /\ state[keys[j].secret][keys[j].version] # "absent"
      BY <3>1, <1>12 DEF IInv, AnswersExist
    <3> HIDE DEF IInv
    <3> QED BY <3>1, <3>2, <1>6
  <2> QED BY <2>1, <2>2
<1>15. AnswersAreDistinct'
  <2> SUFFICES ASSUME NEW i \in Key, NEW j \in Key, i # j,
                      keys'[i].scope = "version.add",
                      keys'[j].scope = "version.add",
                      keys'[i].secret = keys'[j].secret,
                      keys'[i].version = keys'[j].version
               PROVE  FALSE
    BY DEF AnswersAreDistinct
  <2>1. \A l \in Key : keys[l].scope = "version.add" /\ keys[l].secret = s
                         => keys[l].version # n
    <3>1. n \in Number => state[s][n] = "absent"
      BY <1>2, <1>3
    <3> QED BY <3>1, <1>1 DEF IInv, AnswersExist
  <2>2. CASE i = k \/ j = k
    BY <2>1, <2>2, <1>4, <1>13
  <2>3. CASE i # k /\ j # k
    BY <2>3, <1>13 DEF IInv, AnswersAreDistinct
  <2> QED BY <2>2, <2>3
<1> QED BY <1>5, <1>9, <1>10, <1>11, <1>14, <1>15 DEF IInv

(* importLegacy: version 1 of a secret that had none.                      *)
LEMMA ImportLegacyKeeps ==
  ASSUME IInv, NEW s \in Secret, NEW p \in Payload, NEW from \in Provenance,
         NEW k \in Key, ImportLegacy(s, p, from, k)
  PROVE  IInv'
<1> DEFINE answer == [scope |-> "secret.import", secret |-> s, version |-> 0,
                      payload |-> None]
<1>1. Fresh(k) /\ Remember(k, answer)
  BY DEF ImportLegacy
<1>2. CASE Exists(s) /\ UNCHANGED <<origin, state, payload, alias, ledger>>
  <2>1. keys' \in [Key -> Answer] /\ AnswersExist' /\ AnswersAreDistinct'
    BY <1>1, <1>2, OtherAnswers
  <2>2. TypeOK'
    BY <2>1, <1>2 DEF IInv, TypeOK
  <2>3. AliasesResolve' /\ Numbered' /\ NoneWithoutSecret'
    BY <1>2 DEF IInv, AliasesResolve, Resolve, Live, Numbered,
                NoneWithoutSecret, Exists
  <2> QED BY <2>1, <2>2, <2>3 DEF IInv
<1>3. CASE /\ ~Exists(s) /\ 1 \in Number
           /\ origin' = [origin EXCEPT ![s] = from]
           /\ InsertVersion(s, 1, p)
           /\ Log("secret.import", s, None, 1)
  <2>1. /\ state' \in [Secret -> [Number -> State \cup {"absent"}]]
        /\ payload' \in [Secret -> [Number -> Payload \cup {None}]]
        /\ alias' \in [Secret -> [Name -> 0 .. MaxVersions]]
        /\ \A t \in Secret, m \in Number :
             payload'[t][m] = None <=> state'[t][m] \in {"absent", "DESTROYED"}
        /\ AliasesResolve'
    BY <1>3, InsertKeepsTables
  <2>2. \A t \in Secret, m \in Number :
          state'[t][m] = IF t = s /\ m = 1 THEN "ENABLED" ELSE state[t][m]
    BY <1>3, InsertKeepsTables
  <2>3. keys' \in [Key -> Answer] /\ AnswersExist' /\ AnswersAreDistinct'
    <3>1. \A t \in Secret, m \in Number :
            state[t][m] # "absent" => state'[t][m] # "absent"
      BY <2>2
    <3> QED BY <3>1, <1>1, OtherAnswers
  <2>4. ledger' \in Seq(Entry)
    BY <1>3, LogKeepsType, LifecycleAssumption DEF IInv, Number
  <2>5. origin' \in [Secret -> {"absent", "native"} \cup Provenance]
    BY <1>3 DEF IInv, TypeOK
  <2>6. TypeOK'
    BY <2>1, <2>3, <2>4, <2>5 DEF TypeOK
  <2>7. \A m \in Number : state[s][m] = "absent"
    BY <1>3 DEF IInv, NoneWithoutSecret
  <2>8. Numbered'
    <3> SUFFICES ASSUME NEW t \in Secret
                 PROVE  \E top \in 0 .. MaxVersions : \A m \in Number :
                          state'[t][m] # "absent" <=> m <= top
      BY DEF Numbered
    <3>1. CASE t # s
      BY <3>1, <2>2 DEF IInv, Numbered
    <3>2. CASE t = s
      <4>1. \A m \in Number : state'[s][m] # "absent" <=> m <= 1
        BY <2>2, <2>7, LifecycleAssumption DEF Number
      <4>2. 1 \in 0 .. MaxVersions
        BY <1>3, LifecycleAssumption DEF Number
      <4> QED BY <3>2, <4>1, <4>2
    <3> QED BY <3>1, <3>2
  <2>9. NoneWithoutSecret'
    <3>1. \A t \in Secret : t # s => origin'[t] = origin[t]
      BY <1>3 DEF IInv, TypeOK
    <3>2. origin'[s] # "absent"
      BY <1>3, LifecycleAssumption DEF IInv, TypeOK
    <3> QED BY <3>1, <3>2, <2>2 DEF IInv, NoneWithoutSecret, Exists
  <2> QED BY <2>1, <2>3, <2>6, <2>8, <2>9 DEF IInv
<1> QED BY <1>2, <1>3 DEF ImportLegacy

(* enableVersion and disableVersion.                                       *)
LEMMA TransitionKeeps ==
  ASSUME IInv, NEW s \in Secret, NEW n \in Number,
         Enable(s, n) \/ Disable(s, n)
  PROVE  IInv'
<1>1. PICK to \in {"ENABLED", "DISABLED"} :
        /\ state' = [state EXCEPT ![s][n] = to] /\ Live(s, n)
        /\ \/ Log("version.enabled", s, None, n)
           \/ Log("version.disabled", s, None, n)
        /\ UNCHANGED <<origin, payload, alias, keys>>
  BY DEF Enable, Disable, Live
<1>2. \A t \in Secret, m \in Number :
        state'[t][m] = IF t = s /\ m = n THEN to ELSE state[t][m]
  BY <1>1 DEF IInv, TypeOK
<1>3. ledger' \in Seq(Entry)
  BY <1>1, LogKeepsType, LifecycleAssumption DEF IInv, Number
<1>4. \A t \in Secret, m \in Number :
        /\ Live(t, m)' <=> Live(t, m)
        /\ state'[t][m] = "absent" <=> state[t][m] = "absent"
        /\ state'[t][m] = "DESTROYED" <=> state[t][m] = "DESTROYED"
  BY <1>1, <1>2 DEF Live
<1>5. TypeOK'
  <2>1. state' \in [Secret -> [Number -> State \cup {"absent"}]]
    BY <1>1 DEF IInv, TypeOK, State
  <2> QED BY <2>1, <1>1, <1>3, <1>4 DEF IInv, TypeOK
<1>6. AliasesResolve'
  <2> SUFFICES ASSUME NEW t \in Secret, NEW a \in Name, alias[t][a] # 0
               PROVE  Live(t, alias[t][a])'
    BY <1>1 DEF AliasesResolve, Resolve, Live
  <2>1. alias[t][a] \in Number /\ Live(t, alias[t][a])
    BY LifecycleAssumption
       DEF IInv, TypeOK, AliasesResolve, Resolve, Number
  <2> QED BY <2>1, <1>1, <1>4 DEF Live
<1>7. AnswersExist' /\ AnswersAreDistinct' /\ Numbered' /\ NoneWithoutSecret'
  BY <1>1, <1>4, KeysKept, NumbersKept
<1> QED BY <1>5, <1>6, <1>7 DEF IInv

(* The version `latest` is repointed to is another one, and enabled.       *)
LEMMA ReplacementIsEnabled ==
  ASSUME TypeOK, NEW s \in Secret, NEW n \in Number
  PROVE  \/ Replacement(s, n) = 0
         \/ Replacement(s, n) \in Number \ {n}
            /\ state[s][Replacement(s, n)] = "ENABLED"
BY DEF Replacement

(* destroyVersion: no alias is left at the destroyed version.              *)
LEMMA DestroyKeeps ==
  ASSUME IInv, NEW s \in Secret, NEW n \in Number, Destroy(s, n)
  PROVE  IInv'
<1> DEFINE r == Replacement(s, n)
<1>1. \/ r = 0
      \/ r \in Number /\ r # n /\ state[s][r] = "ENABLED"
  BY ReplacementIsEnabled DEF IInv
<1>2. alias' = [alias EXCEPT ![s]["latest"] = IF r # 0 THEN r
                             ELSE IF @ = n THEN 0 ELSE @]
  BY DEF Destroy
<1> HIDE DEF r
<1>3. "latest" \in Name /\ Number \subseteq 0 .. MaxVersions /\ 0 \notin Number
  BY LifecycleAssumption DEF Name, Number
<1>4. /\ Live(s, n) /\ \A a \in Alias : alias[s][a] # n
      /\ state' = [state EXCEPT ![s][n] = "DESTROYED"]
      /\ payload' = [payload EXCEPT ![s][n] = None]
      /\ Log("version.destroyed", s, None, n)
      /\ UNCHANGED <<origin, keys>>
  BY DEF Destroy
<1>5. \A t \in Secret, m \in Number :
        state'[t][m] = IF t = s /\ m = n THEN "DESTROYED" ELSE state[t][m]
  BY <1>4 DEF IInv, TypeOK
<1>6. \A t \in Secret, m \in Number :
        payload'[t][m] = IF t = s /\ m = n THEN None ELSE payload[t][m]
  BY <1>4 DEF IInv, TypeOK
<1>7. \A t \in Secret, a \in Name :
        alias'[t][a] = IF t = s /\ a = "latest"
                       THEN IF r # 0 THEN r
                            ELSE IF alias[s]["latest"] = n THEN 0
                            ELSE alias[s]["latest"]
                       ELSE alias[t][a]
  BY <1>2, <1>3 DEF IInv, TypeOK
<1>8. TypeOK'
  <2>1. state' \in [Secret -> [Number -> State \cup {"absent"}]]
    BY <1>4 DEF IInv, TypeOK, State
  <2>2. payload' \in [Secret -> [Number -> Payload \cup {None}]]
    BY <1>4 DEF IInv, TypeOK
  <2>3. alias' \in [Secret -> [Name -> 0 .. MaxVersions]]
    <3>1. \A t \in Secret, a \in Name : alias'[t][a] \in 0 .. MaxVersions
      <4>1. \A t \in Secret, a \in Name : alias[t][a] \in 0 .. MaxVersions
        BY DEF IInv, TypeOK
      <4>2. r \in 0 .. MaxVersions /\ 0 \in 0 .. MaxVersions
        BY <1>1, LifecycleAssumption DEF Number
      <4>3. ASSUME NEW t \in Secret, NEW a \in Name
            PROVE  \/ alias'[t][a] = r \/ alias'[t][a] = 0
                   \/ alias'[t][a] = alias[t][a]
        BY <1>7
      <4> QED BY <4>1, <4>2, <4>3
    <3>2. alias' = [t \in Secret |-> [a \in Name |-> alias'[t][a]]]
      BY <1>2 DEF IInv, TypeOK
    <3> QED BY <3>1, <3>2
  <2>4. ledger' \in Seq(Entry)
    BY <1>3, <1>4, LogKeepsType DEF IInv
  <2>5. \A t \in Secret, m \in Number :
          payload'[t][m] = None <=> state'[t][m] \in {"absent", "DESTROYED"}
    BY <1>5, <1>6 DEF IInv, TypeOK
  <2> QED BY <2>1, <2>2, <2>3, <2>4, <2>5, <1>4 DEF IInv, TypeOK
<1>9. AliasesResolve'
  <2> DEFINE Lives(t, m) == state'[t][m] \in {"ENABLED", "DISABLED"}
  <2> SUFFICES ASSUME NEW t \in Secret, NEW a \in Name, alias'[t][a] # 0
               PROVE  Lives(t, alias'[t][a])
    BY DEF AliasesResolve, Resolve, Live
  <2>1. \A m \in Number : Live(t, m) /\ (t # s \/ m # n) => Lives(t, m)
    BY <1>5 DEF Live
  <2>2. \A b \in Name : alias[t][b] # 0 =>
          alias[t][b] \in Number /\ Live(t, alias[t][b])
    BY LifecycleAssumption
       DEF IInv, TypeOK, AliasesResolve, Resolve, Number
  <2> HIDE DEF Lives
  <2>3. CASE t # s
    BY <2>1, <2>2, <2>3, <1>7
  <2>4. CASE t = s /\ a # "latest"
    <3>1. a \in Alias /\ alias'[t][a] = alias[s][a] /\ alias[s][a] # n
      BY <2>4, <1>4, <1>7 DEF Name
    <3> QED BY <3>1, <2>1, <2>2, <2>4
  <2>5. CASE t = s /\ a = "latest"
    <3>1. CASE r # 0
      <4>1. alias'[t][a] = r /\ r \in Number /\ r # n /\ Live(s, r)
        BY <3>1, <2>5, <1>1, <1>7 DEF Live
      <4> QED BY <4>1, <2>1, <2>5
    <3>2. CASE r = 0
      <4>1. alias'[t][a] = alias[s]["latest"] /\ alias[s]["latest"] # n
        BY <3>2, <2>5, <1>7
      <4> QED BY <4>1, <2>1, <2>2, <2>5, <1>3
    <3> QED BY <3>1, <3>2
  <2> QED BY <2>3, <2>4, <2>5
<1>10. \A t \in Secret, m \in Number :
         state'[t][m] = "absent" <=> state[t][m] = "absent"
  BY <1>4, <1>5 DEF Live
<1>11. AnswersExist' /\ AnswersAreDistinct' /\ Numbered' /\ NoneWithoutSecret'
  BY <1>4, <1>10, KeysKept, NumbersKept
<1> QED BY <1>8, <1>9, <1>11 DEF IInv

(* moveAlias, and with it moveAliasCas: the target is not destroyed.       *)
LEMMA MoveAliasKeeps ==
  ASSUME IInv, NEW s \in Secret, NEW a \in Alias, NEW n \in Number,
         MoveAlias(s, a, n)
  PROVE  IInv'
<1>1. n \in 0 .. MaxVersions /\ n # 0 /\ a \in Name
  BY LifecycleAssumption DEF Number, Name
<1>2. /\ Live(s, n) /\ alias' = [alias EXCEPT ![s][a] = n]
      /\ Log("alias.move", s, a, n)
      /\ UNCHANGED <<origin, state, payload, keys>>
  BY DEF MoveAlias
<1>3. ledger' \in Seq(Entry)
  BY <1>1, <1>2, LogKeepsType DEF IInv
<1>4. TypeOK'
  <2>1. alias' \in [Secret -> [Name -> 0 .. MaxVersions]]
    BY <1>1, <1>2 DEF IInv, TypeOK
  <2> QED BY <2>1, <1>2, <1>3 DEF IInv, TypeOK
<1>5. AliasesResolve'
  <2> SUFFICES ASSUME NEW t \in Secret, NEW b \in Name
               PROVE  alias'[t][b] = 0 \/ Live(t, alias'[t][b])
    BY <1>2 DEF AliasesResolve, Resolve, Live
  <2>1. alias'[t][b] = IF t = s /\ b = a THEN n ELSE alias[t][b]
    BY <1>1, <1>2 DEF IInv, TypeOK
  <2>2. alias[t][b] = 0 \/ Live(t, alias[t][b])
    BY DEF IInv, AliasesResolve, Resolve
  <2> QED BY <1>2, <2>1, <2>2
<1>6. AnswersExist' /\ AnswersAreDistinct' /\ Numbered' /\ NoneWithoutSecret'
  BY <1>2, KeysKept, NumbersKept
<1> QED BY <1>4, <1>5, <1>6 DEF IInv

(* Every step keeps the invariant.                                         *)
LEMMA LifecycleNext == IInv /\ [Next]_vars => IInv'
<1> SUFFICES ASSUME IInv, [Next]_vars PROVE IInv'
  OBVIOUS
<1>1. CASE UNCHANGED vars
  BY <1>1 DEF vars, IInv, TypeOK, AliasesResolve, Resolve, Live, Numbered,
              NoneWithoutSecret, Exists, AnswersExist, AnswersAreDistinct
<1>2. CASE Next
  <2>1. PICK s \in Secret :
          \/ \E k \in Key \cup {None} :
               CreateSecret(s, k) \/ \E p \in Payload : AddVersion(s, p, k)
          \/ \E k \in Key, p \in Payload, from \in Provenance :
               ImportLegacy(s, p, from, k)
          \/ \E n \in Number :
               \/ Enable(s, n) \/ Disable(s, n) \/ Destroy(s, n)
               \/ \E a \in Alias : MoveAlias(s, a, n)
    BY <1>2 DEF Next, MoveAliasCas
  <2>2. CASE \E k \in Key \cup {None} :
               CreateSecret(s, k) \/ \E p \in Payload : AddVersion(s, p, k)
    BY <2>2, CreateSecretKeeps, AddVersionKeeps
  <2>3. CASE \E k \in Key, p \in Payload, from \in Provenance :
               ImportLegacy(s, p, from, k)
    BY <2>3, ImportLegacyKeeps
  <2>4. CASE \E n \in Number :
               \/ Enable(s, n) \/ Disable(s, n) \/ Destroy(s, n)
               \/ \E a \in Alias : MoveAlias(s, a, n)
    BY <2>4, TransitionKeeps, DestroyKeeps, MoveAliasKeeps
  <2> QED BY <2>1, <2>2, <2>3, <2>4
<1> QED BY <1>1, <1>2

-----------------------------------------------------------------------------
(* The ledger. LastAbout picks the newest row about something from all of  *)
(* them; the invariant names that row, or says that there is none.         *)
IsAbout(row, s, actions, name, n) ==
  /\ row.secret = s /\ row.action \in actions
  /\ name = None => row.version = n
  /\ name # None => row.name = name

About(s, actions, name, n) ==
  {i \in 1 .. Len(ledger) : IsAbout(ledger[i], s, actions, name, n)}

VersionExplained(s, n) ==
  LET about == About(s, OfVersion, None, n) IN
  \/ about = {} /\ state[s][n] = "absent"
  \/ \E i \in about : /\ \A j \in about : j <= i
                      /\ state[s][n] = StateAfter(ledger[i].action)

AliasExplained(s, a) ==
  LET about == About(s, {"alias.move"}, a, 0) IN
  \/ about = {} /\ alias[s][a] = 0
  \/ \E i \in about : /\ \A j \in about : j <= i
                      /\ alias[s][a] = ledger[i].version

LedgerInv == /\ \A s \in Secret, n \in Number : VersionExplained(s, n)
             /\ \A s \in Secret, a \in Alias : AliasExplained(s, a)

(* The newest row is what LastAbout returns.                               *)
LEMMA LastIsNewest ==
  ASSUME NEW s, NEW actions, NEW name, NEW n,
         NEW i \in About(s, actions, name, n),
         \A j \in About(s, actions, name, n) : j <= i
  PROVE  LastAbout(s, actions, name, n) = ledger[i]
<1> DEFINE about == About(s, actions, name, n)
           last == CHOOSE k \in about : \A j \in about : j <= k
<1>1. LastAbout(s, actions, name, n) =
        IF about = {} THEN [action |-> "none", version |-> 0] ELSE ledger[last]
  BY DEF LastAbout, About, IsAbout
<1>2. about \subseteq Int
  BY DEF About
<1> HIDE DEF about
<1>3. last \in about /\ \A j \in about : j <= last
  BY DEF about
<1>4. last = i
  <2> HIDE DEF last
  <2>1. i \in about /\ \A j \in about : j <= i
    BY DEF about
  <2>2. i <= last /\ last <= i /\ i \in Int /\ last \in Int
    BY <2>1, <1>2, <1>3
  <2> QED BY <2>2
<1> QED BY <1>1, <1>4 DEF about

(* What the rows explain is what LedgerExplainsState says.                 *)
LEMMA ExplainedIsExplained == LedgerInv => LedgerExplainsState
<1> SUFFICES ASSUME LedgerInv, NEW s \in Secret
             PROVE  /\ \A n \in Number : state[s][n] =
                         StateAfter(LastAbout(s, OfVersion, None, n).action)
                    /\ \A a \in Alias : alias[s][a] =
                         LastAbout(s, {"alias.move"}, a, 0).version
  BY DEF LedgerExplainsState
<1>1. ASSUME NEW actions, NEW name, NEW n, About(s, actions, name, n) = {}
      PROVE  LastAbout(s, actions, name, n) = [action |-> "none", version |-> 0]
  BY <1>1 DEF LastAbout, About, IsAbout
<1>2. ASSUME NEW n \in Number
      PROVE  state[s][n] = StateAfter(LastAbout(s, OfVersion, None, n).action)
  <2>1. VersionExplained(s, n)
    BY DEF LedgerInv
  <2>2. CASE About(s, OfVersion, None, n) = {} /\ state[s][n] = "absent"
    <3>1. LastAbout(s, OfVersion, None, n).action = "none"
      BY <2>2, <1>1
    <3> QED BY <2>2, <3>1 DEF StateAfter
  <2>3. CASE \E i \in About(s, OfVersion, None, n) :
               /\ \A j \in About(s, OfVersion, None, n) : j <= i
               /\ state[s][n] = StateAfter(ledger[i].action)
    BY <2>3, LastIsNewest
  <2> QED BY <2>1, <2>2, <2>3 DEF VersionExplained
<1>3. ASSUME NEW a \in Alias
      PROVE  alias[s][a] = LastAbout(s, {"alias.move"}, a, 0).version
  <2>1. AliasExplained(s, a)
    BY DEF LedgerInv
  <2>2. CASE About(s, {"alias.move"}, a, 0) = {} /\ alias[s][a] = 0
    BY <2>2, <1>1
  <2>3. CASE \E i \in About(s, {"alias.move"}, a, 0) :
               /\ \A j \in About(s, {"alias.move"}, a, 0) : j <= i
               /\ alias[s][a] = ledger[i].version
    BY <2>3, LastIsNewest
  <2> QED BY <2>1, <2>2, <2>3 DEF AliasExplained
<1> QED BY <1>2, <1>3

(* A row that is appended is the newest about what it is about, and leaves *)
(* everything else as it was told before.                                  *)
LEMMA RowAppended ==
  ASSUME TypeOK, NEW action, NEW s, NEW name, NEW n, Log(action, s, name, n),
         NEW t, NEW actions, NEW what, NEW m
  PROVE  LET row == [action |-> action, secret |-> s, name |-> name,
                     version |-> n]
             new == Len(ledger) + 1
         IN /\ ledger'[new] = row
            /\ \A i \in About(t, actions, what, m) : ledger'[i] = ledger[i]
            /\ IsAbout(row, t, actions, what, m) =>
                 /\ new \in About(t, actions, what, m)'
                 /\ \A j \in About(t, actions, what, m)' : j <= new
            /\ ~IsAbout(row, t, actions, what, m) =>
                 About(t, actions, what, m)' = About(t, actions, what, m)
<1> DEFINE row == [action |-> action, secret |-> s, name |-> name,
                   version |-> n]
           new == Len(ledger) + 1
<1>1. ledger \in Seq(Entry) /\ ledger' = Append(ledger, row)
  BY DEF Log, TypeOK
<1> HIDE DEF row
<1>2. /\ Len(ledger') = new /\ Len(ledger) \in Nat
      /\ \A i \in 1 .. Len(ledger) : ledger'[i] = ledger[i]
      /\ ledger'[new] = row
  BY <1>1
<1>3. About(t, actions, what, m)' =
        {i \in 1 .. Len(ledger') : IsAbout(ledger'[i], t, actions, what, m)}
  BY DEF About, IsAbout
<1>4. 1 .. Len(ledger') = (1 .. Len(ledger)) \cup {new}
  BY <1>2
<1>5. \A i \in About(t, actions, what, m) : ledger'[i] = ledger[i]
  BY <1>2 DEF About
<1>6. ASSUME IsAbout(row, t, actions, what, m)
      PROVE  /\ new \in About(t, actions, what, m)'
             /\ \A j \in About(t, actions, what, m)' : j <= new
  BY <1>2, <1>3, <1>4, <1>6
<1>7. ASSUME ~IsAbout(row, t, actions, what, m)
      PROVE  About(t, actions, what, m)' = About(t, actions, what, m)
  <2>1. new \notin 1 .. Len(ledger)
    BY <1>2
  <2>2. About(t, actions, what, m)' =
          {i \in 1 .. Len(ledger) : IsAbout(ledger'[i], t, actions, what, m)}
    BY <1>2, <1>3, <1>4, <1>7
  <2> QED BY <2>2, <1>2 DEF About
<1> QED BY <1>2, <1>5, <1>6, <1>7 DEF row

(* A mutation whose row says what it did to a version and to an alias      *)
(* leaves everything explained.                                            *)
LEMMA LoggedIsExplained ==
  ASSUME TypeOK, LedgerInv,
         NEW action, NEW s \in Secret, NEW name, NEW n,
         Log(action, s, name, n),
         \A t \in Secret, m \in Number :
           state'[t][m] = IF action \in OfVersion /\ t = s /\ m = n
                          THEN StateAfter(action) ELSE state[t][m],
         \A t \in Secret, a \in Alias :
           alias'[t][a] = IF action = "alias.move" /\ t = s /\ a = name
                          THEN n ELSE alias[t][a]
  PROVE  LedgerInv'
<1> DEFINE row == [action |-> action, secret |-> s, name |-> name,
                   version |-> n]
           new == Len(ledger) + 1
<1>1. ASSUME NEW t \in Secret, NEW m \in Number
      PROVE  VersionExplained(t, m)'
  <2> DEFINE about == About(t, OfVersion, None, m)
  <2>1. IsAbout(row, t, OfVersion, None, m)
          <=> action \in OfVersion /\ t = s /\ m = n
    BY DEF IsAbout
  <2>2. /\ ledger'[new] = row /\ row.action = action
        /\ \A i \in about : ledger'[i] = ledger[i]
        /\ IsAbout(row, t, OfVersion, None, m) =>
             new \in about' /\ \A j \in about' : j <= new
        /\ ~IsAbout(row, t, OfVersion, None, m) => about' = about
    BY RowAppended
  <2>3. VersionExplained(t, m)' <=>
          \/ about' = {} /\ state'[t][m] = "absent"
          \/ \E i \in about' : /\ \A j \in about' : j <= i
                               /\ state'[t][m] = StateAfter(ledger'[i].action)
    BY DEF VersionExplained, StateAfter
  <2>4. VersionExplained(t, m)
    BY DEF LedgerInv
  <2> HIDE DEF row, new, about
  <2>5. CASE IsAbout(row, t, OfVersion, None, m)
    <3>1. state'[t][m] = StateAfter(ledger'[new].action)
      BY <2>1, <2>2, <2>5
    <3> QED BY <3>1, <2>2, <2>3, <2>5
  <2>6. CASE ~IsAbout(row, t, OfVersion, None, m)
    <3>1. state'[t][m] = state[t][m] /\ about' = about
      BY <2>1, <2>2, <2>6
    <3>2. \/ about = {} /\ state[t][m] = "absent"
          \/ \E i \in about : /\ \A j \in about : j <= i
                              /\ state[t][m] = StateAfter(ledger[i].action)
      BY <2>4 DEF VersionExplained, about
    <3> QED BY <3>1, <3>2, <2>2, <2>3
  <2> QED BY <2>5, <2>6
<1>2. ASSUME NEW t \in Secret, NEW a \in Alias
      PROVE  AliasExplained(t, a)'
  <2> DEFINE about == About(t, {"alias.move"}, a, 0)
  <2>1. IsAbout(row, t, {"alias.move"}, a, 0)
          <=> action = "alias.move" /\ t = s /\ a = name
    BY LifecycleAssumption DEF IsAbout
  <2>2. /\ ledger'[new] = row /\ row.version = n
        /\ \A i \in about : ledger'[i] = ledger[i]
        /\ IsAbout(row, t, {"alias.move"}, a, 0) =>
             new \in about' /\ \A j \in about' : j <= new
        /\ ~IsAbout(row, t, {"alias.move"}, a, 0) => about' = about
    BY RowAppended
  <2>3. AliasExplained(t, a)' <=>
          \/ about' = {} /\ alias'[t][a] = 0
          \/ \E i \in about' : /\ \A j \in about' : j <= i
                               /\ alias'[t][a] = ledger'[i].version
    BY DEF AliasExplained
  <2>4. AliasExplained(t, a)
    BY DEF LedgerInv
  <2> HIDE DEF row, new, about
  <2>5. CASE IsAbout(row, t, {"alias.move"}, a, 0)
    <3>1. alias'[t][a] = ledger'[new].version
      BY <2>1, <2>2, <2>5
    <3> QED BY <3>1, <2>2, <2>3, <2>5
  <2>6. CASE ~IsAbout(row, t, {"alias.move"}, a, 0)
    <3>1. alias'[t][a] = alias[t][a] /\ about' = about
      BY <2>1, <2>2, <2>6
    <3>2. \/ about = {} /\ alias[t][a] = 0
          \/ \E i \in about : /\ \A j \in about : j <= i
                              /\ alias[t][a] = ledger[i].version
      BY <2>4 DEF AliasExplained, about
    <3> QED BY <3>1, <3>2, <2>2, <2>3
  <2> QED BY <2>5, <2>6
<1> QED BY <1>1, <1>2 DEF LedgerInv

(* A call that writes no row changes neither versions nor aliases.         *)
LEMMA UnloggedIsExplained ==
  ASSUME LedgerInv, UNCHANGED <<state, alias, ledger>>
  PROVE  LedgerInv'
<1>1. \A s \in Secret, n \in Number : VersionExplained(s, n)'
  BY DEF LedgerInv, VersionExplained, About, IsAbout, StateAfter
<1>2. \A s \in Secret, a \in Alias : AliasExplained(s, a)'
  BY DEF LedgerInv, AliasExplained, About, IsAbout
<1> QED BY <1>1, <1>2 DEF LedgerInv

(* The insertion of a version moves no alias but `latest`, which has no    *)
(* row of its own.                                                         *)
LEMMA InsertIsExplained ==
  ASSUME IInv, LedgerInv, NEW s \in Secret, NEW n \in Number, NEW p \in Payload,
         NEW action \in {"version.add", "secret.import"},
         InsertVersion(s, n, p), Log(action, s, None, n)
  PROVE  LedgerInv'
<1>1. \A t \in Secret, m \in Number :
        state'[t][m] = IF t = s /\ m = n THEN "ENABLED" ELSE state[t][m]
  BY InsertKeepsTables
<1>2. \A t \in Secret, a \in Alias : alias'[t][a] = alias[t][a]
  BY LifecycleAssumption DEF InsertVersion, IInv, TypeOK, Name
<1>3. action \in OfVersion /\ action # "alias.move"
      /\ StateAfter(action) = "ENABLED"
  BY DEF OfVersion, StateAfter
<1> QED BY <1>1, <1>2, <1>3, LoggedIsExplained DEF IInv

(* An empty ledger explains empty tables.                                  *)
LEMMA LedgerInit == Init => LedgerInv
<1> SUFFICES ASSUME Init PROVE LedgerInv
  OBVIOUS
<1>1. Len(ledger) = 0
  BY DEF Init
<1>2. \A s, actions, name, n : About(s, actions, name, n) = {}
  BY <1>1 DEF About
<1> QED BY <1>2 DEF Init, LedgerInv, VersionExplained, AliasExplained, Name

(* Every call writes the row that says what it did, or does nothing to     *)
(* versions and aliases.                                                   *)
LEMMA LedgerNext == IInv /\ LedgerInv /\ [Next]_vars => LedgerInv'
<1> SUFFICES ASSUME IInv, LedgerInv, [Next]_vars PROVE LedgerInv'
  OBVIOUS
<1>t. TypeOK
  BY DEF IInv
<1>1. CASE UNCHANGED vars
  BY <1>1, UnloggedIsExplained DEF vars
<1>2. ASSUME NEW s \in Secret, NEW k \in Key \cup {None}, CreateSecret(s, k)
      PROVE  LedgerInv'
  <2>1. CASE UNCHANGED ledger
    BY <1>2, <2>1, UnloggedIsExplained DEF CreateSecret
  <2>2. CASE Log("secret.create", s, None, 0)
    <3>1. "secret.create" \notin OfVersion
      BY DEF OfVersion
    <3>2. UNCHANGED <<state, alias>>
      BY <1>2 DEF CreateSecret
    <3>3. "secret.create" # "alias.move"
      OBVIOUS
    <3> DEFINE action == "secret.create"
               n == 0
    <3>4. Log(action, s, None, n) /\ action \notin OfVersion
          /\ action # "alias.move"
      BY <2>2, <3>1, <3>3
    <3> HIDE DEF action, n
    <3> QED BY <3>2, <3>4, <1>t, LoggedIsExplained
  <2> QED BY <1>2, <2>1, <2>2 DEF CreateSecret
<1>3. ASSUME NEW s \in Secret, NEW p \in Payload, NEW k \in Key \cup {None},
             AddVersion(s, p, k)
      PROVE  LedgerInv'
  <2>1. /\ NextVersion(s) \in Number /\ InsertVersion(s, NextVersion(s), p)
        /\ Log("version.add", s, None, NextVersion(s))
    BY <1>3 DEF AddVersion
  <2> QED BY <2>1, InsertIsExplained
<1>4. ASSUME NEW s \in Secret, NEW p \in Payload, NEW from \in Provenance,
             NEW k \in Key, ImportLegacy(s, p, from, k)
      PROVE  LedgerInv'
  <2>1. CASE UNCHANGED <<state, alias, ledger>>
    BY <2>1, UnloggedIsExplained
  <2>2. CASE /\ 1 \in Number /\ InsertVersion(s, 1, p)
             /\ Log("secret.import", s, None, 1)
    BY <2>2, InsertIsExplained
  <2> QED BY <1>4, <2>1, <2>2 DEF ImportLegacy
<1>5. ASSUME NEW s \in Secret, NEW n \in Number, Enable(s, n) \/ Disable(s, n)
      PROVE  LedgerInv'
  <2>1. PICK action \in {"version.enabled", "version.disabled"} :
          /\ state' = [state EXCEPT ![s][n] = StateAfter(action)]
          /\ Log(action, s, None, n) /\ UNCHANGED alias
    BY <1>5 DEF Enable, Disable, StateAfter
  <2>2. action \in OfVersion /\ action # "alias.move"
    BY DEF OfVersion
  <2> DEFINE to == StateAfter(action)
  <2>3. \A t \in Secret, m \in Number :
          state'[t][m] = IF t = s /\ m = n THEN to ELSE state[t][m]
    <3>1. state' = [state EXCEPT ![s][n] = to]
      BY <2>1
    <3> HIDE DEF to
    <3> QED BY <3>1, <1>t DEF TypeOK
  <2> QED BY <2>1, <2>2, <2>3, <1>t, LoggedIsExplained
<1>6. ASSUME NEW s \in Secret, NEW n \in Number, Destroy(s, n)
      PROVE  LedgerInv'
  <2>1. /\ state' = [state EXCEPT ![s][n] = "DESTROYED"]
        /\ Log("version.destroyed", s, None, n)
    BY <1>6 DEF Destroy
  <2>2. \A t \in Secret, m \in Number :
          state'[t][m] = IF t = s /\ m = n THEN "DESTROYED" ELSE state[t][m]
    BY <2>1, <1>t DEF TypeOK
  <2>3. \A t \in Secret, a \in Alias : alias'[t][a] = alias[t][a]
    <3>1. PICK new : alias' = [alias EXCEPT ![s]["latest"] = new]
      BY <1>6, <1>t DEF Destroy, TypeOK
    <3> QED BY <3>1, <1>t, LifecycleAssumption DEF TypeOK, Name
  <2>4. "version.destroyed" \in OfVersion
        /\ StateAfter("version.destroyed") = "DESTROYED"
    BY DEF OfVersion, StateAfter
  <2> QED BY <2>1, <2>2, <2>3, <2>4, <1>t, LoggedIsExplained
<1>7. ASSUME NEW s \in Secret, NEW a \in Alias, NEW n \in Number,
             MoveAlias(s, a, n)
      PROVE  LedgerInv'
  <2>1. /\ alias' = [alias EXCEPT ![s][a] = n] /\ UNCHANGED state
        /\ Log("alias.move", s, a, n)
    BY <1>7 DEF MoveAlias
  <2>2. \A t \in Secret, b \in Alias :
          alias'[t][b] = IF t = s /\ b = a THEN n ELSE alias[t][b]
    BY <2>1, <1>t DEF TypeOK, Name
  <2>3. "alias.move" \notin OfVersion
    BY DEF OfVersion
  <2> QED BY <2>1, <2>2, <2>3, <1>t, LoggedIsExplained
<1> QED BY <1>1, <1>2, <1>3, <1>4, <1>5, <1>6, <1>7 DEF Next, MoveAliasCas

-----------------------------------------------------------------------------
(* The invariant holds in every reachable state, for any number of secrets,*)
(* versions, aliases and keys.                                             *)
THEOREM LifecycleInvariant == Spec => []IInv
BY LifecycleInit, LifecycleNext, PTL DEF Spec

(* The tables keep their types, and a version has a payload reference      *)
(* exactly until it is destroyed.                                          *)
THEOREM LifecycleTypeCorrect == Spec => []TypeOK
BY LifecycleInvariant, PTL DEF IInv

(* No alias, `latest` included, is ever left pointing at a version that    *)
(* getVersion would refuse.                                                *)
THEOREM AliasesAlwaysResolve == Spec => []AliasesResolve
BY LifecycleInvariant, PTL DEF IInv

(* Under two idempotency keys no version number is ever answered twice.    *)
THEOREM AnswersAlwaysDistinct == Spec => []AnswersAreDistinct
BY LifecycleInvariant, PTL DEF IInv

(* The evidence is complete in every history: the newest ledger row about  *)
(* a version or an alias says what the tables say of it.                   *)
THEOREM LedgerAlwaysExplains == Spec => []LedgerExplainsState
<1>1. Spec => []LedgerInv
  BY LedgerInit, LedgerNext, LifecycleInvariant, PTL DEF Spec
<1> QED BY <1>1, ExplainedIsExplained, PTL

(* Nothing a step does revives a destroyed version or changes the payload  *)
(* reference of a living one: the numbers that are handed out are free.    *)
THEOREM VersionsNeverChange == Spec => VersionsAreImmutable
<1> DEFINE Keeps(s, n) ==
      /\ state[s][n] = "DESTROYED" => state'[s][n] = "DESTROYED"
      /\ state[s][n] # "absent" =>
           payload'[s][n] = payload[s][n] \/ state'[s][n] = "DESTROYED"
<1>1. IInv /\ [Next]_vars => [\A s \in Secret, n \in Number : Keeps(s, n)]_vars
  <2> SUFFICES ASSUME IInv, Next
               PROVE  \A t \in Secret, m \in Number : Keeps(t, m)
    OBVIOUS
  <2>1. ASSUME NEW s \in Secret, NEW n \in Number, NEW p \in Payload,
               InsertVersion(s, n, p), state[s][n] = "absent"
        PROVE  \A t \in Secret, m \in Number : Keeps(t, m)
    <3>1. \A t \in Secret, m \in Number :
            state'[t][m] = IF t = s /\ m = n THEN "ENABLED" ELSE state[t][m]
      BY <2>1, InsertKeepsTables
    <3>2. \A t \in Secret, m \in Number :
            (t # s \/ m # n) => payload'[t][m] = payload[t][m]
      BY <2>1, InsertKeepsTables
    <3> QED BY <2>1, <3>1, <3>2
  <2>2. ASSUME NEW s \in Secret, NEW p \in Payload, NEW k \in Key \cup {None},
               AddVersion(s, p, k)
        PROVE  \A t \in Secret, m \in Number : Keeps(t, m)
    <3>1. /\ NextVersion(s) \in Number
          /\ InsertVersion(s, NextVersion(s), p)
      BY <2>2 DEF AddVersion
    <3>2. state[s][NextVersion(s)] = "absent"
      BY <3>1, NextVersionIsFree, LifecycleAssumption DEF IInv, Number
    <3> QED BY <2>1, <3>1, <3>2
  <2>3. ASSUME NEW s \in Secret, NEW p \in Payload, NEW from \in Provenance,
               NEW k \in Key, ImportLegacy(s, p, from, k)
        PROVE  \A t \in Secret, m \in Number : Keeps(t, m)
    <3>1. CASE UNCHANGED <<state, payload>>
      BY <3>1
    <3>2. CASE ~Exists(s) /\ 1 \in Number /\ InsertVersion(s, 1, p)
      BY <3>2, <2>1 DEF IInv, NoneWithoutSecret
    <3> QED BY <2>3, <3>1, <3>2 DEF ImportLegacy
  <2>4. ASSUME NEW s \in Secret, NEW n \in Number,
               Enable(s, n) \/ Disable(s, n) \/ Destroy(s, n)
        PROVE  \A t \in Secret, m \in Number : Keeps(t, m)
    <3>1. CASE Enable(s, n) \/ Disable(s, n)
      <4>1. PICK to \in {"ENABLED", "DISABLED"} :
              /\ state' = [state EXCEPT ![s][n] = to]
              /\ state[s][n] # "DESTROYED" /\ UNCHANGED payload
        BY <3>1 DEF Enable, Disable
      <4>2. \A t \in Secret, m \in Number :
              state'[t][m] = IF t = s /\ m = n THEN to ELSE state[t][m]
        BY <4>1 DEF IInv, TypeOK
      <4> QED BY <4>1, <4>2
    <3>2. CASE Destroy(s, n)
      <4>1. /\ state' = [state EXCEPT ![s][n] = "DESTROYED"]
            /\ payload' = [payload EXCEPT ![s][n] = None]
        BY <3>2 DEF Destroy
      <4> QED BY <4>1 DEF IInv, TypeOK
    <3> QED BY <2>4, <3>1, <3>2
  <2>5. ASSUME UNCHANGED <<state, payload>>
        PROVE  \A t \in Secret, m \in Number : Keeps(t, m)
    BY <2>5
  <2> QED BY <2>2, <2>3, <2>4, <2>5 DEF Next, CreateSecret, MoveAliasCas, MoveAlias
<1> QED BY <1>1, LifecycleInvariant, PTL DEF Spec, VersionsAreImmutable
=============================================================================
