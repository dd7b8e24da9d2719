--------------------------- MODULE RotationEngine ---------------------------
(***************************************************************************)
(* The rotation engine of server/rotation/engine.ts driving the rotations  *)
(* of ONE secret: the job rows, the control plane's versions and alias,    *)
(* the provider's credentials, and executors that interleave at every      *)
(* await, crash, stall past their lease and resume.                        *)
(*                                                                         *)
(* A job is named by its idempotency key. The lease is the tenure that     *)
(* module RotationLease implements: `lease` is the execution whose fenced  *)
(* writes land, so an expired row and a missing row are the same thing.    *)
(* Every execution has an owner uuid of its own; an element of Exec is a   *)
(* slot in which executions run one after the other.                       *)
(***************************************************************************)
EXTENDS Naturals, Sequences, FiniteSets

CONSTANTS Key,          \* idempotency keys
          Exec,         \* concurrent executions
          Consumer,     \* allowlisted consumers every job reloads
          Deniable,     \* subset of {"move-alias", "revoke", "rollback"}
          None,
          Ghost,        \* owner uuid of an execution whose process died
          MaxAttempts,  \* deps.maxAttempts
          MaxCrashes,   \* bound on process deaths
          MaxStalls,    \* bound on live executions outliving their lease
          MaxFaults,    \* bound on failing or unanswered effects
          MaxEmitFaults \* bound on failing audit or outbox appends

ASSUME EngineAssumption ==
  /\ MaxAttempts \in Nat \ {0}
  /\ {MaxCrashes, MaxStalls, MaxFaults, MaxEmitFaults} \subseteq Nat
  /\ Deniable \subseteq {"move-alias", "revoke", "rollback"}
  /\ None \notin Key \cup Exec \cup {Ghost} /\ None \notin Key \X Nat
  /\ Ghost \notin Exec

VARIABLES job,       \* rotation_jobs, by idempotency key
          errors,    \* error checkpoints per job and stage
          newer,     \* <<j, k>>: the row of j was updated after that of k
          versions,  \* secret_versions: entry n is version n
          alias,     \* version the job alias points to, 0 when unset
          minted,    \* tokens the provider ever minted per job
          live,      \* tokens that authenticate at the provider
          reconciles,\* operation records marked reconcile-required
          lease,     \* execution holding the lease, Ghost or None
          ex,        \* program counter and locals of each execution
          used,      \* how much of each bound has been used
          probed,    \* history: tokens verify() has authenticated as
          served,    \* history: keys whose version the alias has pointed to
          rejected   \* history: keys for which verify() returned false

store   == <<job, errors, newer, versions, alias, reconciles>>
cloud   == <<minted, live>>
history == <<probed, served, rejected>>
vars    == <<store, cloud, lease, ex, used, history>>

-----------------------------------------------------------------------------
Happy == {"requested", "provider-created", "staged", "consumers-reloaded",
          "verified", "alias-moved", "old-revoked"}
Terminal == {"done", "rolled-back", "reconcile-required"}
Stage == Happy \cup Terminal \cup {"failed", "rolling-back"}
Published == {"done", "old-revoked", "reconcile-required"}

Transitions ==
  [s \in Stage |->
    CASE s = "requested"          -> {"provider-created", "failed"}
      [] s = "provider-created"   -> {"staged", "failed"}
      [] s = "staged"             -> {"consumers-reloaded", "failed"}
      [] s = "consumers-reloaded" -> {"verified", "failed"}
      [] s = "verified"           -> {"alias-moved", "failed"}
      [] s = "alias-moved"  -> {"old-revoked", "failed", "reconcile-required"}
      [] s = "old-revoked"  -> {"done", "reconcile-required"}
      [] s = "failed"       -> {"rolling-back", "reconcile-required"}
      [] s = "rolling-back" -> {"rolled-back", "reconcile-required"}
      [] OTHER              -> {}]

CanTransition(from, to) == to \in Transitions[from]

Retryable == {"requested", "provider-created", "staged",
              "consumers-reloaded", "alias-moved"}
PostPublish == {"alias-moved", "old-revoked"}

(* The n-th token minted under the job-scoped name of key k; payloadRef,   *)
(* checksum and providerRef of a job are the token they stand for.         *)
Token == Key \X (Nat \ {0})

NoRow == [stage |-> "absent", intent |-> FALSE, token |-> None, version |-> 0,
          expected |-> 0, old |-> None, reloaded |-> {}]

Idle == [pc |-> "idle", key |-> None, at |-> "absent", row |-> NoRow,
         token |-> None, version |-> 0, expected |-> 0, to |-> "absent",
         ctx |-> "stage"]

Row == [stage : Stage \cup {"absent"}, intent : BOOLEAN,
        token : Token \cup {None}, version : Nat, expected : Nat,
        old : Token \cup {None}, reloaded : SUBSET Consumer]

Label == {"idle", "lookup", "acquire", "insert", "loop", "intent", "clean",
          "mint", "persist", "addVersion", "readAlias", "reload", "reloaded",
          "verify", "checkAlias", "moveAlias", "authRevoke", "revoke",
          "guardRollback", "authRollback", "rollback", "rollbackError",
          "mark", "commit", "emit", "error", "emitError"}

Execution == [pc : Label, key : Key \cup {None}, at : Stage \cup {"absent"},
              row : Row, token : Token \cup {None}, version : Nat,
              expected : Nat, to : Stage \cup {"absent"},
              ctx : {"stage", "try", "handler", "resume"}]

TypeOK ==
  /\ job \in [Key -> Row]
  /\ errors \in [Key -> [Stage -> Nat]]
  /\ newer \subseteq Key \X Key
  /\ versions \in Seq([key : Key, token : Token])
  /\ alias \in 0 .. Len(versions)
  /\ minted \in [Key -> Nat]
  /\ live \subseteq Token
  /\ reconciles \subseteq Key \X ({"revoke", "rollback"} \cup Stage)
  /\ lease \in Exec \cup {Ghost, None}
  /\ ex \in [Exec -> Execution]
  /\ used \in [{"crash", "stall", "fault", "emit"} -> Nat]
  /\ probed \subseteq Token
  /\ served \subseteq Key /\ rejected \subseteq Key

Init ==
  /\ job = [k \in Key |-> NoRow]
  /\ errors = [k \in Key |-> [s \in Stage |-> 0]]
  /\ newer = {} /\ versions = <<>> /\ alias = 0
  /\ minted = [k \in Key |-> 0] /\ live = {}
  /\ reconciles = {}
  /\ lease = None
  /\ ex = [e \in Exec |-> Idle]
  /\ used = [b \in {"crash", "stall", "fault", "emit"} |-> 0]
  /\ probed = {} /\ served = {} /\ rejected = {}

-----------------------------------------------------------------------------
(* Control flow of an execution.                                           *)
At(e, label)      == ex[e].pc = label
Become(e, locals) == ex' = [ex EXCEPT ![e] = locals]
Goto(e, label)    == Become(e, [ex[e] EXCEPT !.pc = label])
CommitTo(e, stage, ctx) ==
  Become(e, [ex[e] EXCEPT !.pc = "commit", !.to = stage, !.ctx = ctx])
MarkReconcile_rowOnly(e, ctx) == CommitTo(e, "reconcile-required", ctx)
MarkReconcile(e, ctx) ==
  Become(e, [ex[e] EXCEPT !.pc = "mark", !.ctx = ctx])

(* Leaving rotate() or resumePending()'s iteration: `finally` releases.    *)
Leave(e) ==
  /\ Become(e, Idle)
  /\ lease' = IF lease = e THEN None ELSE lease

(* Where an error thrown by the statement at ex[e].pc is caught: by the    *)
(* try blocks of stageRevoke and stageRollback, by nobody when onStageError*)
(* is already running, and otherwise by runStage, which hands the row it   *)
(* dispatched on to onStageError.                                          *)
InnerTry(e) == \/ ex[e].pc \in {"revoke", "rollback"}
               \/ ex[e].ctx = "try"

Throw(e) ==
  \/ /\ InnerTry(e) /\ ex[e].at = "alias-moved"
     /\ MarkReconcile(e, "stage")
     /\ UNCHANGED lease
  \/ /\ InnerTry(e) /\ ex[e].at # "alias-moved"
     /\ Goto(e, "rollbackError")
     /\ UNCHANGED lease
  \/ /\ ~InnerTry(e) /\ ex[e].ctx = "handler"
     /\ Leave(e)
  \/ /\ ~InnerTry(e) /\ ex[e].ctx # "handler"
     /\ Become(e, [ex[e] EXCEPT !.pc = "error", !.row.stage = ex[e].at])
     /\ UNCHANGED lease

(* A FencedOutError ends the execution unless an inner try swallows it.    *)
FencedOut(e) == IF InnerTry(e) THEN Throw(e) ELSE Leave(e)

Holds(e) == lease = e

(* updateJob: the row changes and becomes the most recently updated one.   *)
Touch(k) ==
  LET others == {j \in Key \ {k} : job[j].stage # "absent"} IN
  newer' = (newer \cap (others \X others)) \cup ({k} \X others)
UpdateJob(k, row) == job' = [job EXCEPT ![k] = row] /\ Touch(k)

Spend(bound, max) == used[bound] < max /\ used' = [used EXCEPT ![bound] = @ + 1]

Served == IF alias = 0 THEN None ELSE versions[alias].token

-----------------------------------------------------------------------------
(* Starting and claiming jobs.                                             *)

(* getLastPublishedJob: the last updated row that looks published.         *)
LooksPublished(k) == job[k].stage \in Published /\ job[k].token # None
LastPublished == {k \in Key : /\ LooksPublished(k)
                              /\ \A j \in Key : LooksPublished(j) => <<j, k>> \notin newer}
Superseded == IF LastPublished = {} THEN {None}
              ELSE {job[k].token : k \in LastPublished}

(* rotate_secret resolves the superseded refs before it calls rotate(). A  *)
(* duplicate of a key whose row exists changes nothing.                    *)
Request(e, k) ==
  /\ At(e, "idle") /\ job[k].stage = "absent"
  /\ \E old \in Superseded :
       Become(e, [Idle EXCEPT !.pc = "lookup", !.key = k, !.row.old = old])
  /\ UNCHANGED <<store, cloud, lease, used, history>>

Lookup(e) ==
  /\ At(e, "lookup")
  /\ IF job[ex[e].key].stage = "absent" THEN Goto(e, "acquire") /\ UNCHANGED lease
                                        ELSE Leave(e)
  /\ UNCHANGED <<store, cloud, used, history>>

(* One iteration of resumePending over a row that listPending returned.    *)
Resume(e, k) ==
  /\ At(e, "idle") /\ job[k].stage \notin Terminal \cup {"absent"}
  /\ Become(e, [Idle EXCEPT !.pc = "acquire", !.key = k, !.ctx = "resume"])
  /\ UNCHANGED <<store, cloud, lease, used, history>>

Acquire(e) ==
  /\ At(e, "acquire")
  /\ \/ /\ lease = None
        /\ lease' = e
        /\ Goto(e, IF ex[e].ctx = "resume" THEN "loop" ELSE "insert")
     \/ /\ lease # None
        /\ Leave(e)
  /\ UNCHANGED <<store, cloud, used, history>>

(* insertJob is not fenced, its 'entered' checkpoint is; a second row for  *)
(* the key is refused by the UNIQUE column.                                *)
Insert(e) ==
  LET k == ex[e].key IN
  /\ At(e, "insert")
  /\ \/ /\ job[k].stage = "absent"
        /\ UpdateJob(k, [ex[e].row EXCEPT !.stage = "requested"])
        /\ IF Holds(e) THEN Goto(e, "loop") /\ UNCHANGED lease ELSE Leave(e)
     \/ /\ job[k].stage # "absent"
        /\ Leave(e)
        /\ UNCHANGED <<job, newer>>
  /\ UNCHANGED <<errors, versions, alias, reconciles, cloud, used, history>>

-----------------------------------------------------------------------------
(* drive() and runStage(): re-read the row, stop at a terminal stage,      *)
(* renew or give up, dispatch on the stage.                                *)
Dispatch(e, row) ==
  LET locals == [Idle EXCEPT !.key = ex[e].key, !.row = row, !.at = row.stage]
      go(label)     == Become(e, [locals EXCEPT !.pc = label])
      commit(stage) == Become(e, [locals EXCEPT !.pc = "commit", !.to = stage])
  IN
  \/ /\ row.stage = "requested"
     /\ IF row.token # None THEN commit("provider-created")
        ELSE IF row.intent THEN go("clean") ELSE go("intent")
  \/ row.stage = "provider-created" /\ go("addVersion")
  \/ row.stage = "staged" /\ go("reload")
  \/ row.stage = "consumers-reloaded" /\ go("verify")
  \/ row.stage = "verified" /\ go("checkAlias")
  \/ /\ row.stage = "alias-moved"
     /\ IF row.old = None THEN commit("old-revoked") ELSE go("authRevoke")
  \/ row.stage = "old-revoked" /\ commit("done")
  \/ row.stage \in {"failed", "rolling-back"} /\ go("guardRollback")

Drive(e) ==
  LET row == job[ex[e].key] IN
  /\ At(e, "loop")
  /\ IF row.stage \in Terminal \/ ~Holds(e)
     THEN Leave(e)
     ELSE Dispatch(e, row) /\ UNCHANGED lease
  /\ UNCHANGED <<store, cloud, used, history>>

-----------------------------------------------------------------------------
(* requested -> provider-created                                           *)

Intent(e) ==
  LET k == ex[e].key IN
  /\ At(e, "intent")
  /\ IF Holds(e)
     THEN /\ UpdateJob(k, [job[k] EXCEPT !.intent = TRUE])
          /\ Goto(e, "clean") /\ UNCHANGED lease
     ELSE FencedOut(e) /\ UNCHANGED <<job, newer>>
  /\ UNCHANGED <<errors, versions, alias, reconciles, cloud, used, history>>

Clean_keepsOrphans(e) ==
  /\ At(e, "clean")
  /\ ex[e].row.old = None \/ ex[e].row.old \in live
  /\ Goto(e, "mint")
  /\ UNCHANGED <<store, cloud, lease, used, history>>

Orphans(k) == {t \in live : t[1] = k}

(* CloudflareConnector.create reads the old token's policies, then lists   *)
(* and deletes every token with the job-scoped name.                       *)
Clean(e) ==
  LET old == ex[e].row.old IN
  /\ At(e, "clean")
  /\ \/ /\ old = None \/ old \in live
        /\ live' = live \ Orphans(ex[e].key)
        /\ Goto(e, "mint") /\ UNCHANGED lease
     \/ /\ old # None /\ old \notin live
        /\ Throw(e) /\ UNCHANGED live
  /\ UNCHANGED <<store, minted, used, history>>

(* POST the token and write it to the vault.                               *)
Mint(e) ==
  LET k == ex[e].key
      token == <<k, minted[k] + 1>> IN
  /\ At(e, "mint")
  /\ minted' = [minted EXCEPT ![k] = @ + 1]
  /\ live' = live \cup {token}
  /\ \/ /\ Become(e, [ex[e] EXCEPT !.pc = "persist", !.token = token])
        /\ UNCHANGED <<lease, used>>
     \/ /\ Spend("fault", MaxFaults)   \* minted, then the vault write fails
        /\ Throw(e)
  /\ UNCHANGED <<store, history>>

Persist_unfenced(e) ==
  LET k == ex[e].key
      row == [job[k] EXCEPT !.token = ex[e].token] IN
  /\ At(e, "persist")
  /\ UpdateJob(k, row)
  /\ Become(e, [ex[e] EXCEPT !.pc = "commit", !.to = "provider-created",
                             !.row = row, !.token = None])
  /\ UNCHANGED <<lease, errors, versions, alias, reconciles, cloud, used, history>>

Persist(e) ==
  LET k == ex[e].key
      row == [job[k] EXCEPT !.token = ex[e].token] IN
  /\ At(e, "persist")
  /\ IF Holds(e)
     THEN /\ UpdateJob(k, row)
          /\ Become(e, [ex[e] EXCEPT !.pc = "commit", !.to = "provider-created",
                                     !.row = row, !.token = None])
          /\ UNCHANGED lease
     ELSE FencedOut(e) /\ UNCHANGED <<job, newer>>
  /\ UNCHANGED <<errors, versions, alias, reconciles, cloud, used, history>>

-----------------------------------------------------------------------------
(* provider-created -> staged                                              *)

(* addVersion answers a known idempotency key with the recorded version.   *)
VersionOf(k) == {n \in 1 .. Len(versions) : versions[n].key = k}

AddVersion_offByOne(e) ==
  LET k == ex[e].key IN
  /\ At(e, "addVersion")
  /\ VersionOf(k) = {}
  /\ versions' = Append(versions, [key |-> k, token |-> ex[e].row.token])
  /\ Become(e, [ex[e] EXCEPT !.pc = "readAlias", !.version = Len(versions') + 1])
  /\ UNCHANGED <<job, errors, newer, alias, reconciles, cloud, lease, used, history>>

AddVersion(e) ==
  LET k == ex[e].key IN
  /\ At(e, "addVersion")
  /\ \/ /\ VersionOf(k) = {}
        /\ versions' = Append(versions, [key |-> k, token |-> ex[e].row.token])
        /\ Become(e, [ex[e] EXCEPT !.pc = "readAlias", !.version = Len(versions')])
     \/ \E n \in VersionOf(k) :
          /\ Become(e, [ex[e] EXCEPT !.pc = "readAlias", !.version = n])
          /\ UNCHANGED versions
  /\ UNCHANGED <<job, errors, newer, alias, reconciles, cloud, lease, used, history>>

ReadAlias(e) ==
  /\ At(e, "readAlias")
  /\ Become(e, [ex[e] EXCEPT !.pc = "commit", !.to = "staged", !.expected = alias])
  /\ UNCHANGED <<store, cloud, lease, used, history>>

-----------------------------------------------------------------------------
(* staged -> consumers-reloaded -> verified                                *)

Reload(e) ==
  /\ At(e, "reload")
  /\ IF ex[e].row.reloaded = Consumer
     THEN CommitTo(e, "consumers-reloaded", "stage")
     ELSE Goto(e, "reloaded")
  /\ UNCHANGED <<store, cloud, lease, used, history>>

Reloaded(e) ==
  LET k == ex[e].key IN
  /\ At(e, "reloaded")
  /\ IF Holds(e)
     THEN \E c \in Consumer \ ex[e].row.reloaded :
            LET done == ex[e].row.reloaded \cup {c} IN
            /\ UpdateJob(k, [job[k] EXCEPT !.reloaded = done])
            /\ Become(e, [ex[e] EXCEPT !.pc = "reload", !.row.reloaded = done])
            /\ UNCHANGED lease
     ELSE FencedOut(e) /\ UNCHANGED <<job, newer>>
  /\ UNCHANGED <<errors, versions, alias, reconciles, cloud, used, history>>

Verify_failOpen(e) ==
  LET token == ex[e].row.token IN
  /\ At(e, "verify")
  /\ probed' = IF token \in live THEN probed \cup {token} ELSE probed
  /\ CommitTo(e, "verified", "stage")
  /\ UNCHANGED <<lease, used, rejected, store, cloud, served>>

(* verify() probes as the new token; it answers false, never throws.       *)
Verify(e) ==
  LET k == ex[e].key
      token == ex[e].row.token IN
  /\ At(e, "verify")
  /\ \/ /\ token \in live
        /\ probed' = probed \cup {token}
        /\ CommitTo(e, "verified", "stage")
        /\ UNCHANGED <<lease, used, rejected>>
     \/ /\ \/ token \notin live /\ UNCHANGED used
           \/ token \in live /\ Spend("fault", MaxFaults)
        /\ rejected' = rejected \cup {k}
        /\ Throw(e)
        /\ UNCHANGED probed
  /\ UNCHANGED <<store, cloud, served>>

-----------------------------------------------------------------------------
(* verified -> alias-moved                                                 *)

CheckAlias(e) ==
  /\ At(e, "checkAlias")
  /\ \/ /\ alias = ex[e].row.version
        /\ CommitTo(e, "alias-moved", "stage") /\ UNCHANGED lease
     \/ /\ alias # ex[e].row.version
        /\ Goto(e, "moveAlias") /\ UNCHANGED lease
     \/ /\ alias # ex[e].row.version /\ "move-alias" \in Deniable
        /\ Throw(e)
  /\ UNCHANGED <<store, cloud, used, history>>

(* moveAliasCas                                                            *)
MoveAlias(e) ==
  /\ At(e, "moveAlias")
  /\ \/ /\ alias = ex[e].row.expected
        /\ alias' = ex[e].row.version
        /\ served' = served \cup {ex[e].key}
        /\ CommitTo(e, "alias-moved", "stage") /\ UNCHANGED lease
     \/ /\ alias # ex[e].row.expected
        /\ Throw(e) /\ UNCHANGED <<alias, served>>
  /\ UNCHANGED <<job, errors, newer, versions, reconciles, cloud, used,
                 probed, rejected>>

-----------------------------------------------------------------------------
(* alias-moved -> old-revoked                                              *)

AuthorizeRevoke(e) ==
  /\ At(e, "authRevoke")
  /\ \/ Goto(e, "revoke")
     \/ "revoke" \in Deniable /\ MarkReconcile(e, "try")
  /\ UNCHANGED <<store, cloud, lease, used, history>>

(* DELETE a token: an error when it does not exist. The answer may be lost.*)
Delete(e, token, next) ==
  \/ /\ token \in live
     /\ live' = live \ {token}
     /\ \/ CommitTo(e, next, "stage") /\ UNCHANGED <<lease, used>>
        \/ Spend("fault", MaxFaults) /\ Throw(e)
  \/ /\ token \notin live
     /\ Throw(e) /\ UNCHANGED <<live, used>>

Revoke_unawaited(e) ==
  /\ At(e, "revoke")
  /\ CommitTo(e, "old-revoked", "stage")
  /\ UNCHANGED <<store, cloud, lease, used, history>>

Revoke(e) ==
  /\ At(e, "revoke")
  /\ Delete(e, ex[e].row.old, "old-revoked")
  /\ UNCHANGED <<store, minted, history>>

-----------------------------------------------------------------------------
(* failed -> rolling-back -> rolled-back                                   *)

GuardRollback_unguarded(e) ==
  /\ At(e, "guardRollback")
  /\ IF ex[e].row.stage = "failed" THEN CommitTo(e, "rolling-back", "stage")
                                   ELSE Goto(e, "authRollback")
  /\ UNCHANGED <<store, cloud, lease, used, history>>

GuardRollback(e) ==
  LET row == ex[e].row IN
  /\ At(e, "guardRollback")
  /\ \/ /\ row.version # 0 /\ alias = row.version
        /\ MarkReconcile(e, "stage")
     \/ /\ row.version = 0 \/ alias # row.version
        /\ IF row.stage = "failed" THEN CommitTo(e, "rolling-back", "stage")
                                   ELSE Goto(e, "authRollback")
  /\ UNCHANGED <<store, cloud, lease, used, history>>

AuthorizeRollback(e) ==
  /\ At(e, "authRollback")
  /\ \/ Goto(e, "rollback")
     \/ "rollback" \in Deniable /\ MarkReconcile(e, "try")
  /\ UNCHANGED <<store, cloud, lease, used, history>>

Rollback(e) ==
  /\ At(e, "rollback")
  /\ \/ /\ ex[e].row.token = None
        /\ CommitTo(e, "rolled-back", "stage")
        /\ UNCHANGED <<live, lease, used>>
     \/ /\ ex[e].row.token # None
        /\ Delete(e, ex[e].row.token, "rolled-back")
  /\ UNCHANGED <<store, minted, history>>

(* The catch of stageRollback: count the attempt, retry or give up.        *)
RollbackError(e) ==
  LET k == ex[e].key
      attempts == errors[k]["rolling-back"] + 1 IN
  /\ At(e, "rollbackError")
  /\ IF Holds(e)
     THEN /\ errors' = [errors EXCEPT ![k]["rolling-back"] = attempts]
          /\ UNCHANGED lease
          /\ IF attempts < MaxAttempts THEN Goto(e, "loop")
                                       ELSE MarkReconcile(e, "stage")
     ELSE Leave(e) /\ UNCHANGED errors
  /\ UNCHANGED <<job, newer, versions, alias, reconciles, cloud, used, history>>

-----------------------------------------------------------------------------
(* transition(), markReconcile() and onStageError()                        *)

(* The `op` the callers of markReconcile pass.                             *)
ReconcileOp(e) ==
  CASE ex[e].ctx = "handler"                 -> ex[e].at
    [] ex[e].at \in {"failed", "rolling-back"} -> "rollback"
    [] OTHER                                 -> "revoke"

Mark_recordOnly(e) ==
  /\ At(e, "mark")
  /\ reconciles' = reconciles \cup {<<ex[e].key, ReconcileOp(e)>>}
  /\ Goto(e, "loop")
  /\ UNCHANGED <<job, errors, newer, versions, alias, cloud, lease, used, history>>

(* Open and mark an operation in the control plane; not fenced.            *)
Mark(e) ==
  /\ At(e, "mark")
  /\ reconciles' = reconciles \cup {<<ex[e].key, ReconcileOp(e)>>}
  /\ Become(e, [ex[e] EXCEPT !.pc = "commit", !.to = "reconcile-required"])
  /\ UNCHANGED <<job, errors, newer, versions, alias, cloud, lease, used, history>>

(* Only the patch and the stage are written, not the whole in-memory row.  *)
Patched(e) ==
  LET row == [job[ex[e].key] EXCEPT !.stage = ex[e].to] IN
  IF ex[e].to = "staged"
  THEN [row EXCEPT !.version = ex[e].version, !.expected = ex[e].expected]
  ELSE row

Commit_unfenced(e) ==
  LET k == ex[e].key IN
  /\ At(e, "commit")
  /\ IF CanTransition(ex[e].row.stage, ex[e].to)
     THEN UpdateJob(k, Patched(e)) /\ Goto(e, "emit") /\ UNCHANGED lease
     ELSE Throw(e) /\ UNCHANGED <<job, newer>>
  /\ UNCHANGED <<errors, versions, alias, reconciles, cloud, used, history>>

Commit(e) ==
  LET k == ex[e].key
      legal == CanTransition(ex[e].row.stage, ex[e].to) IN
  /\ At(e, "commit")
  /\ \/ /\ legal /\ Holds(e)
        /\ UpdateJob(k, Patched(e))
        /\ Goto(e, "emit") /\ UNCHANGED lease
     \/ /\ legal /\ ~Holds(e)
        /\ FencedOut(e) /\ UNCHANGED <<job, newer>>
     \/ /\ ~legal   \* InvalidTransitionError
        /\ Throw(e) /\ UNCHANGED <<job, newer>>
  /\ UNCHANGED <<errors, versions, alias, reconciles, cloud, used, history>>

(* The fenced 'ok' checkpoint, then audit and outbox, after the row.       *)
Emit(e) ==
  /\ At(e, "emit")
  /\ \/ /\ ~Holds(e)
        /\ FencedOut(e) /\ UNCHANGED used
     \/ /\ Holds(e)
        /\ IF ex[e].to = "rolling-back"
           THEN Become(e, [ex[e] EXCEPT !.pc = "authRollback", !.row = job[ex[e].key]])
           ELSE Goto(e, "loop")
        /\ UNCHANGED <<lease, used>>
     \/ /\ Holds(e) /\ Spend("emit", MaxEmitFaults)
        /\ Throw(e)
  /\ UNCHANGED <<store, cloud, history>>

(* onStageError: fenced error checkpoint ...                               *)
StageError(e) ==
  LET k == ex[e].key
      s == ex[e].at IN
  /\ At(e, "error")
  /\ IF Holds(e)
     THEN /\ errors' = [errors EXCEPT ![k][s] = @ + 1]
          /\ Become(e, [ex[e] EXCEPT !.pc = "emitError", !.ctx = "handler"])
          /\ UNCHANGED lease
     ELSE Leave(e) /\ UNCHANGED errors
  /\ UNCHANGED <<job, newer, versions, alias, reconciles, cloud, used, history>>

(* ... then emit, then retry, reconcile or fail. The attempt number was    *)
(* read when the stage began, one less than the checkpoint just written.   *)
AfterStageError(e) ==
  LET s == ex[e].at
      retry == errors[ex[e].key][s] < MaxAttempts /\ s \in Retryable IN
  /\ At(e, "emitError")
  /\ \/ Spend("emit", MaxEmitFaults) /\ Leave(e)
     \/ /\ retry /\ Goto(e, "loop") /\ UNCHANGED <<lease, used>>
     \/ /\ ~retry /\ s \in PostPublish
        /\ MarkReconcile(e, "handler") /\ UNCHANGED <<lease, used>>
     \/ /\ ~retry /\ s \notin PostPublish
        /\ CommitTo(e, "failed", "handler") /\ UNCHANGED <<lease, used>>
  /\ UNCHANGED <<store, cloud, history>>

-----------------------------------------------------------------------------
(* The environment.                                                        *)

(* A remote call, a hook or a control-plane transaction fails without      *)
(* having had an effect.                                                   *)
EffectFails(e) ==
  /\ ex[e].pc \in {"clean", "mint", "addVersion", "readAlias", "reload",
                   "checkAlias", "moveAlias", "revoke", "guardRollback",
                   "rollback", "mark"}
  /\ Spend("fault", MaxFaults)
  /\ Throw(e)
  /\ UNCHANGED <<store, cloud, history>>

Crash(e) ==
  /\ ~At(e, "idle")
  /\ Spend("crash", MaxCrashes)
  /\ Become(e, Idle)
  /\ lease' = IF Holds(e) THEN Ghost ELSE lease
  /\ UNCHANGED <<store, cloud, history>>

(* The lease of a dead execution runs out.                                 *)
GhostExpires ==
  /\ lease = Ghost
  /\ lease' = None
  /\ UNCHANGED <<store, cloud, ex, used, history>>

(* A live execution is held up at an await until its lease has run out.    *)
Stall(e) ==
  /\ Holds(e)
  /\ Spend("stall", MaxStalls)
  /\ lease' = None
  /\ UNCHANGED <<store, cloud, ex, history>>

Step(e) ==
  \/ Lookup(e) \/ Acquire(e) \/ Insert(e) \/ Drive(e)
  \/ Intent(e) \/ Clean(e) \/ Mint(e) \/ Persist(e)
  \/ AddVersion(e) \/ ReadAlias(e) \/ Reload(e) \/ Reloaded(e) \/ Verify(e)
  \/ CheckAlias(e) \/ MoveAlias(e) \/ AuthorizeRevoke(e) \/ Revoke(e)
  \/ GuardRollback(e) \/ AuthorizeRollback(e) \/ Rollback(e)
  \/ RollbackError(e) \/ Mark(e) \/ Commit(e) \/ Emit(e)
  \/ StageError(e) \/ AfterStageError(e)

Next ==
  \/ GhostExpires
  \/ \E e \in Exec, k \in Key : Request(e, k) \/ Resume(e, k)
  \/ \E e \in Exec : Step(e) \/ EffectFails(e) \/ Crash(e) \/ Stall(e)

Spec == Init /\ [][Next]_vars

(* Executors run on, a dead owner's lease runs out, and pending jobs are   *)
(* resumed: the operator's duty in docs/rotation.md, "Resume after crash". *)
FairSpec ==
  /\ Spec
  /\ WF_vars(GhostExpires)
  /\ \A e \in Exec : WF_vars(Step(e))
  /\ \A k \in Key : WF_vars(\E e \in Exec : Resume(e, k))

-----------------------------------------------------------------------------
(* No downtime (docs/pilot-cutover.md): the credential of the version the  *)
(* alias points to authenticates at the provider, whatever crashed, failed *)
(* or was retried. Revoke, rollback and orphan removal must all miss it.   *)
ServedCredentialLive == alias # 0 => Served \in live

(* "At most one LIVE token per job, regardless of crashes" (create in      *)
(* connectors/cloudflare.ts): the orphan of a lost mint is gone before the *)
(* next one is minted.                                                     *)
AtMostOneLivePerJob == \A k \in Key : Cardinality(Orphans(k)) <= 1

(* Rollback deletes a credential only while the alias is elsewhere, even   *)
(* when the move was committed by an execution that then died, or whose    *)
(* audit append failed and turned the published job into a failed one.     *)
ServedJobNotRolledBack ==
  alias # 0 => job[versions[alias].key].stage # "rolled-back"

(* Proven before published: the alias only ever reaches a credential that  *)
(* verify() has seen authenticate, even when executions overlap.           *)
ServedWasProbed == alias # 0 => Served \in probed

(* A superseded execution cannot drag a job's row along: the stage moves   *)
(* along an edge of TRANSITIONS, whoever the writer is (the check in       *)
(* transition() reads the in-memory job, not the row). Only an append that *)
(* failed after `done` was written leads off the graph (TerminalIsFinal).  *)
RowFollowsGraph ==
  [][\A k \in Key : job'[k].stage # job[k].stage =>
       \/ job[k].stage = "absent" /\ job'[k].stage = "requested"
       \/ job[k].stage # "absent" /\ CanTransition(job[k].stage, job'[k].stage)
       \/ /\ job[k].stage = "done" /\ job'[k].stage = "reconcile-required"
          /\ used["emit"] # 0]_vars

(* A recorded credential is adopted, never replaced: the row, the staged   *)
(* version and the rollback target of a job are one token for good.        *)
AdoptedCredentialIsFinal ==
  [][\A k \in Key : job[k].token # None => job'[k].token = job[k].token]_vars

(* A job that gave up is visible to operators: the control plane holds a   *)
(* reconcile record for it (two databases, no common transaction).         *)
ReconcileHasRecord ==
  \A k \in Key : job[k].stage = "reconcile-required" =>
    \E r \in reconciles : r[1] = k

(* A job counted done has retired the credential it was told to supersede. *)
DoneRetiredOld ==
  \A k \in Key : job[k].stage = "done" => job[k].old \notin live

(* Every started job reaches a terminal stage: retries are bounded, no     *)
(* two executions wait on one another, no stage throws for ever.           *)
EveryJobSettles ==
  \A k \in Key : (job[k].stage # "absent") ~> (job[k].stage \in Terminal)

-----------------------------------------------------------------------------
(* Claims of the comments and documents that the code does not keep.       *)

(* engine.ts and docs/rotation.md: an executor "that lost the lease aborts *)
(* before mutating". Effects at the provider and alias moves happen under  *)
(* the lease.                                                              *)
EffectUnderLease ==
  [][\A e \in Exec :
       (ex'[e] # ex[e] /\ (live' # live \/ alias' # alias)) => Holds(e)]_vars

(* states.ts: "Terminal stages: no outbound transitions".                  *)
TerminalIsFinal ==
  [][\A k \in Key : job[k].stage \in Terminal =>
       job'[k].stage = job[k].stage]_vars

(* Never rollback after publish (header of engine.ts): "once the alias may *)
(* point at the new version, any failure fails closed to                   *)
(* reconcile-required". A rolled-back job never had the alias.             *)
RolledBackNeverServed ==
  \A k \in Key : job[k].stage = "rolled-back" => k \notin served

(* store-sqlite.ts: the job that getLastPublishedJob finds has "moved the  *)
(* alias to its new version".                                              *)
PublishedMeansAliasMoved == LastPublished \subseteq served

(* wiring.ts: the resolved refs are "exactly what the next rotation        *)
(* supersedes". A published job is about to revoke the credential of the   *)
(* version it has just replaced.                                           *)
RevokeTargetIsSuperseded ==
  \A k \in Key : job[k].stage = "alias-moved" /\ job[k].expected # 0 =>
    job[k].old = versions[job[k].expected].token

(* docs/rotation.md: "Verification failure is not retried against a bad    *)
(* credential; it goes straight to failed".                                *)
VerifyFailureNotRetried ==
  [][\A k \in Key : k \in rejected /\ job'[k].stage = "verified" =>
       job[k].stage = "verified"]_vars

(* docs/rotation.md, on a record with op = rollback: "the old credential   *)
(* and alias were never changed".                                          *)
RollbackRecordMeansUntouched ==
  \A k \in Key : <<k, "rollback">> \in reconciles => k \notin served

(* docs/rotation.md: "a retry can never publish a stale alias". The alias  *)
(* never goes back to a version older than the one it is on.               *)
NoStalePublish == [][alias' >= alias]_vars
=============================================================================
