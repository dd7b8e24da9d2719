# Verification of vaultwarden-secrets

TLA+ models of vaultwarden-secrets, the TLC runs that check them on small
instances, and theorems about them proved with TLAPS. Every definition is
translated from the code; `PROJECT.json` maps each one to the lines it stands
for.

## The system

vaultwarden-secrets serves secrets kept in Vaultwarden (through the `bw`
command), keeps metadata about them in SQLite, and rotates provider credentials.

| Component | State it keeps | Operations | Interacts with |
| --- | --- | --- | --- |
| Rotation lease (`server/rotation/store-sqlite.ts`) | `rotation_leases`, `rotation_fence_seq`; handles in memory | acquire, renew, validate, release, fenced writes | every execution of the engine |
| Rotation engine (`server/rotation/engine.ts`, `states.ts`, `wiring.ts`, `connectors/cloudflare.ts`, `rotate_secret` in `mcp.ts`) | `rotation_jobs`, `rotation_checkpoints` | rotate, resumePending, one step per stage | lease; control plane (versions, alias, audit, outbox, reconcile records); the provider; authorization |
| Secret lifecycle (`server/control-plane/lifecycle.ts`) | secrets, versions, aliases, idempotency keys | create, add version, enable, disable, destroy, move alias (plain and CAS), import | ledger and outbox, in the same transaction |
| Audit ledger (`server/control-plane/audit.ts`) | `audit_ledger`, `ledger_head` | append, verify | all mutations |
| Outbox (`server/control-plane/outbox.ts`) | `outbox_events` | enqueue, deliverPending | workers, a handler |
| Cross-store operations (`server/control-plane/store.ts`) | `operations`, `reconciliation_records` | perform, mark reconcile-required, reconcile | the vault, the engine |
| Database and migrations (`server/control-plane/db.ts`) | schema version | open, migrate, transaction | all of the above |
| Workload identity (`server/identity/`, `scripts/identity-admin.ts`) | token records in a file, a lock file | issue, rotate, revoke; verify | operators' processes; every server verifies against the file |
| Authorization (`server/authz/`) | `authz_policies` | setPolicy, removePolicy, decide | rotation engine |
| Client library (`index.ts`, `cache.ts`, `snapshot.ts`) | cache file, snapshot file, a copy of each in every process | get, get all fields, list, refresh, clear | `bw`; every server links it |
| MCP servers, REST routes, credential proxy (`mcp.ts`, `mcp-v2.ts`, `main.ts`, `routes/`, `cred-proxy.ts`, `folder-scope.ts`) | resolved folders, MCP sessions | the tools and routes | client library, engine |
| Middleware (`server/middleware/`, `routes/auth.ts`) | rate-limit windows, OAuth2 clients, signed JWTs at the clients | authenticate, limit, issue and refresh tokens | identity; in front of the routes |
| Keychain, CLI, migration tool, backup and operations scripts, deployment | files | one-shot commands | `bw`, the operating system |

### What is hard, and what makes each part correct

* **Lease.** Executors act on clock readings of any age, stall and come back.
  Correct when only the holder's writes land, a fence that was superseded never
  matches again, and writes land in fence order.
* **Engine.** Every `await` is a point where the process may die, the lease
  may run out, or another execution may run; provider calls may work and lose
  their answer; three stores (rotation database, control-plane database,
  provider) have no common transaction. Correct when the served credential
  works, only a proven credential is published, a job leaves at most one token,
  the old one is retired before a job is done, and every job ends.
* **Lifecycle.** Transactions make each call atomic; the difficulty is in long
  sequences: destruction against aliases and `latest`, version numbers, replayed
  idempotency keys. Correct when aliases resolve, versions are immutable,
  answers are distinct and the ledger explains the tables.
* **Ledger.** Tail truncation and renumbering. Correct when a ledger that verifies
  is the whole truth.
* **Outbox.** At-least-once delivery with leases, stale clocks and crashes.
  Correct when no event is in two hands, retries are bounded, a key succeeds
  once and every event settles.
* **Operations.** Writes outside a transaction, repaired by any number of
  processes. Correct when what is committed was applied, what is in doubt has
  an open record, and open records get closed.
* **Identity.** A lock file that is broken when it looks stale, operators' processes
  that die or give up waiting, two separately locked writes per rotation. Correct
  when what was reported is in the file, a token is only cut off once its successor is
  there, the file behaves as one table of tokens, and every call returns.
* **Client.** Two files shared by processes that each keep a copy, requests that
  interleave at every `await`, a vault that people change in the meantime. Correct when a
  cached answer has not been out of date for longer than its time to live, a name that has
  been withdrawn from a folder is found by nobody who is scoped to it, and tools scoped to a
  folder write to nothing that never lay in it.
* **Access.** Credentials of five kinds that expire, are revoked or cut off at any
  time, sessions that outlive them, refresh tokens that renew them, restarts with
  another configuration. Correct when a withdrawn credential gets past no middleware, no
  address is kept out for a window or more, however often it tries, and a rotation that was
  reported denied is not let through.

The hazards, each at its line with the properties that cover it, are listed in
`PROJECT.json`.

## The modules

| Module | Models | State | Actions |
| --- | --- | --- | --- |
| `ExclusiveTenure` | what the lease promises, without fences, clocks and rows | tenant, last author | Grant, Vacate, Write |
| `RotationLease` | `acquireLease`, `renewLease`, `releaseLease`, `withFence` | clock, sequence, lease rows, handles, last fenced write | the cases of the upsert in `acquireOnce` (fresh, takeover, again, refused), Renew, Release, FencedWrite, Crash, Tick |
| `RotationEngine` | `engine.ts` for one secret with one alias, the Cloudflare connector, `rotate_secret`, `resumePending` | job rows, error checkpoints, versions, alias, tokens at the provider, reconcile records, lease, a program counter and locals per execution | one per statement between two awaits; Crash, Stall, EffectFails, lost answers |
| `SecretLifecycle` | `lifecycle.ts` | origin, versions, payload references, aliases, answers, ledger | one per operation (each is one transaction) |
| `AuditLedger` | `audit.ts` | rows, head, the rows ever appended, how often each table was changed | AppendAudit, DamageRows, DamageHead; `Verified` is `verifyLedger` |
| `Outbox` | `outbox.ts` | events, their order, each worker's pass | Enqueue; Begin, Claim, Check, Handle, Settle, Fail of a pass; Crash, Tick |
| `Operations` | `store.ts` | operations, records, whether the vault holds the write, callers, reconcilers | Begin, Write, Commit, Mark; Scan, Repair, Resolve; deaths |
| `TokenRegistry` | what the identity store promises: a table of tokens | one record per token | Issue, Revoke, Supersede, Age |
| `Identity` | `identity.ts` over `store.ts`, one process per operator's command | the store file, the lock file, a program counter and locals per process | the constructor (Start, Make), the calls, acquireLock (Acquire, FindStale, Break, GiveUp), Read, Write, Release; Crash, Tick |
| `SecretClient` | `cache.ts`, `snapshot.ts`, `index.ts` | vault, cache file, snapshot file and its `.tmp`; cache, snapshot and startup data of each process; requests in flight | one per stretch between two awaits |
| `SecretTools` (extends it) | the handlers of `mcp.ts`, `mcp-v2.ts`, `main.ts`, `routes/secrets-read.ts`, `cred-proxy.ts` with their folder scopes | the same | one per tool or route that starts a request, and what the handlers do with the library's answers; Boot, Crash, Operator, Tick |
| `Access` | the middleware chain of each profile, `/auth/token`, the sessions of `/mcp`, authorization | configuration, registry, JWTs, limiter, sessions, policies, requests | arrival, authentication and handling of a request; operators; Restart, Tick |
| `RotationLeaseProofs`, `RotationEngineProofs`, `SecretLifecycleProofs`, `OutboxProofs`, `IdentityProofs`, `AccessProofs`, `SecretToolsProofs`; `ControlPlaneProofs` (of `Operations` and `AuditLedger`) | the theorems about the module each extends | | |
| `MC...` | instances of each module for TLC (symmetry sets) | | |

`RotationEngine` uses the lease as one variable, the execution whose fenced writes
land. That this is all an execution can observe of the lease is what
`RotationLease` shows by implementing `ExclusiveTenure`; an unowned row and an
expired row are the same thing to an execution. `SecretLifecycle` carries
the ledger as the sequence of rows its transactions append, and `AuditLedger`
shows what that sequence is worth once the tables are damaged. `Access` lets a
request through to a handler, whose work is in `SecretTools`, or, for
`rotate_secret`, in `RotationEngine`; it contains `TokenRegistry`, which `Identity`
is shown to implement.

Definitions named `X_...` next to a definition `X` are faulty variants of it: each
is a plausible mistake at that place, and the property listed with it in
`PROJECT.json` fails when it takes the place of `X`. Properties are stated over history
variables and predicates of their own (`Withdrawn`, `housed`, `since`, ...) rather than over
the checks they are about, so that a check that is missing is noticed.

### Abstractions

* A credential, its vault item and its provider reference are one token, `<<job, n>>`;
  payloads and names are model values. Token names are the job they belong to:
  the cut at 120 characters in `cloudflare.ts:159` is not modelled.
* A fault of a remote call either has no effect or has the effect and loses the
  answer; which calls can lose one is decided by their code (create, delete).
* Audit and outbox appends of the engine are one step, `Emit`, which may throw after
  the row was written.
* `sha256` is free of collisions. What is claimed of a damaged ledger is claimed while only
  one of its tables was changed, however often: coordinated changes of both (the newest
  rows and the two columns of the head) give a shorter ledger that verifies.
* An UPDATE that throws inside the outbox's `try` after the handler succeeded is not
  modelled; nor is the 64-stage guard of `drive`, which the retry budget of the runs
  keeps out of reach.
* In `Identity`, what is within one step is what no other process can tell apart. File
  operations that hit what another process has put there since it was looked at are
  counted, and `MaxRaces` of them are allowed; see the claims below for what one does.
* In `SecretClient`, an item is its name, its secret and whether it lies in the folder
  callers are scoped to; upper and lower case are not told apart; a
  snapshot has no secrets in it; a query that matches no name exactly is `None` and the
  ranking of candidates is any of them. All categories have one time to live.
  Whether the keychain has a session and whether the CLI answers is open at
  each call. Eviction is part of `Fill`. A write of the cache file may be seen half done
  (`Torn`) by another process or be cut short by a crash. Time does not pass while a
  secret is being encrypted for the cache. What two requests do to each other in the
  middle of an operation is counted, as in `Identity`: a load of the snapshot by a process
  that is refreshing it, or that has another load under way of a different file; two
  refreshes at a time. Left out: several vaults, the discarding of a file whose HMAC or key is
  wrong.
* What a caller asks for is a path. The handlers take it, or what comes before its first dot,
  for a name; the library makes an item of it with `resolveAlias`, `applyFolder` and
  `parseSecretPath`. `Meant` says which names the library may make of a name, with any
  choice among several, and `Resolve` applies it. The theorems hold for every `Meant`; a run
  fixes one. For a name that no item has, the CLI may return the single item that its
  search turns up (`Found`).
* In `Access`, one server runs; it shares only the registry and the policies with the others.
  A workload token for another server stands for every credential that is never
  good. The ranges of the IP whitelist are a set of addresses. CORS, `/health` and the
  certificate's format are left out. Legacy tokens at `/mcp` are left to the v2 server,
  which authenticates with the same function. A token may be rotated any number of times, and each time has a new
  cutoff. Whether a request came `late` is judged by `Withdrawn`, from what was done to the
  credential, and not by the middleware's own checks. Policies are about the actions of a
  rotation.
* Outbox times are relative to the present, which keeps the state finite without
  bounding the clock.

## The runs

Passing runs:

| Run | Instance | What it shows |
| --- | --- | --- |
| `lease` | 2 secrets, 3 executors, TTL 2, clock to 3, sequence to 4 | fenced writes are exclusive and in order, a stale handle stays stale, the lease implements exclusive tenure |
| `engine_failstop` | 3 rotations, 2 executors, one crash, one fault, rollback may be denied | the served credential is alive at the provider and no job has two live tokens |
| `engine_overlap` | 2 rotations, 2 executors, one lease outlived, one fault, every authorization may be denied, one consumer | only probed credentials are published, the rows follow the stage graph, a recorded token is never replaced, a given-up job has a reconcile record, a done job has retired the old token |
| `engine_settles` | 2 rotations, 2 executors, one fault, one append that fails after the row, rollback may be denied, fair | every job ends in a terminal stage, and a served job is not rolled back |
| `lifecycle` | 1 secret, 3 versions, 2 aliases, 2 payloads, 2 keys, 7 mutations | aliases resolve, versions are immutable, answers distinct, ledger explains the tables |
| `ledger` | 4 appends, 2 contents, 3 changes behind the rows or the head | unless both tables were changed, verification means truth and numbers are not reused |
| `outbox` | 2 events of 1 key, 2 workers, 1 crash, pass shorter than the lease, fair | no event in two hands, one success per key, bounded calls as long as no two passes overlap, every event settles |
| `operations` | 2 operations, 2 reconcilers, 2 failing transactions, 2 deaths, fair | committed means applied, open record exactly when reconcile is required, open records get closed |
| `identity` | 2 tokens, 2 processes, 1 death, lives and overlaps of 1 tick or unlimited or not a number, fair | what is reported is in the file, a cut-off token has a successor with its remaining life, every call returns, the file implements `TokenRegistry` |
| `client_scope` | 1 process of any of the four servers, 2 requests, 1 item, 2 changes of the vault or 1 and a crash, every tool | a withdrawn name passes no scope check and is in no scoped list; nothing is edited or deleted that never lay in the folder |
| `client_cache` | 2 REST processes, 2 requests, 1 item, 2 names that mean one, 2 secrets, 1 change of the vault, 2 ticks | no cached answer has been out of date for longer than its time to live |
| `access` | each of 7 servers, 2 clients, 2 requests, 2 sessions, 2 addresses of which 1 is whitelisted, 1 resource, 2 changes by operators, a window of 2 ticks | withdrawn credentials are refused, denials hold, blocks are short |

**Why the bounds are enough.** The engine's faulty behaviours need at most a
holder, a successor and a rotation that replaces what they published: two executors
and three rotations. A retry budget of 2 distinguishes first, retried and exhausted
attempts. One fault of each kind at every possible place is combined with one crash
or one outlived lease; two faults exhaust a budget in the runs that need it through
the error the first one leaves behind (a dead token). A lease of 2 ticks and a clock
of 3 let it expire, be taken over and expire again; three executors let the
stale holder of the first tenure meet the third. Three versions are the least for
`latest` to be repointed to a version that is neither the destroyed nor
the next. In the outbox, a lease of 2 and a pass of 1 put a pass's stale clock
between claim and expiry; two events of one key are what a duplicate takes.

Two identity processes suffice for one to wait for, break or outlive the other's lock;
two tokens, for a rotation and its successor. In `client_scope` a
name must be gone, be listed by a refresh, and be asked for: one item, two changes and two
requests give every order of them, and a crash, which takes the place of one
change (`TwoEvents`), lets a fresh process start from the file; names that several items
share need a second item, which exceeds what TLC explores in minutes. No refreshes and loads race (`MaxRaces = 0`): that is the condition of
`WithdrawnIsNotFound`, which says so; `WritesStayInFolder` has no such condition, and what
others write between its look-up and its write is bounded by nothing but the two changes. In
`client_cache` there is no snapshot at the start and folders play no part (`CacheInit`); an entry must be filled, age past its time to live of 1
and meet the other process's file: two ticks. In `access` a JWT lives 1 tick, a refresh
token 2, so that the one outlives the other and a removed client's; two changes are two
rotations of one token, a revocation and a restart, or a policy and its opposite. At the start
(`MCInit`) both clients of the MCP server have a token, every rotation is allowed and those of
one client are denied too, so that a denial set again, removed before its conflict
is looked up and missed by a request takes two changes.

The liveness run of the engine replaces the crash by an append that fails inside
`onStageError`, which leaves a job just as pending as a crash does, for its successor to
resume; crashes are combined with everything else in `engine_failstop`.

**Deadlock** is checked in the lease, outbox, identity, client and access runs, whose clocks
always move or whose events or callers always leave something to do. The engine, lifecycle, ledger and operations
runs switch it off: rotations end, and the counters that bound mutations, appends and
faults run out.

**Fairness.** Code that has an `await` outstanding continues (`WF` of each
execution's steps, of the callers' and of a worker's). A dead owner's lease runs
out. Pending jobs are resumed, `deliverPending` and `reconcile` are called again
and again: the code has no scheduler for these, and `docs/rotation.md` ("Resume
after crash") and the design note give them to the operator, so the liveness
results hold under that duty and not without it. Executions may lose the race for
the lease and give up; nothing is assumed about who wins. An operator's process that has
not died runs on, and clocks advance (`FairSpec` of `Identity`); that anybody calls is
not assumed.

### Claims the code does not keep

Four configurations that are not among the listed runs show a claim violated; TLC's
trace is a behaviour of the code.

* `EngineRevokeTargetIsSuperseded.cfg` (`MCRotationEngine`): `rotate_secret` looks up the
  credential to revoke before `rotate()` takes the lease (`mcp.ts:802`). A rotation that
  publishes in between makes the answer stale, and the credential actually replaced is
  never revoked. `wiring.ts:408-409` says that the prior published job "is exactly what
  the next rotation supersedes".
* `EngineServedUnderStall.cfg` (`MCRotationEngine`): an executor that outlives its lease
  at the orphan removal deletes the token its successor has minted, verified and
  publishes (`cloudflare.ts:125`), which lines 115-116 say "cannot affect a live consumer".
  The lease is renewed once per stage and not before each effect, as the header of
  `engine.ts` says.
* `OutboxRetries.cfg` (`MCOutbox`): two workers with equally old batches write the same
  attempt count, so the handler is called more often than `maxAttempts`
  (`outbox.ts:139`; `docs/control-plane/design.md:51`: "bounded exponential retries").
* `SecretUpdate.cfg` (`MCSecretTools`, `UpdateKeepsTheRest`): `update_secret` reads the item
  and puts it back whole with what it was asked to change. What anybody else has written to
  the item between `bwGetItem` and `bwEditItem`, its name and its folder included, is
  overwritten (`mcp.ts:686-695`).

The modules state more such claims as definitions, so that a change of the code can be
checked against them; they are not among the listed runs. In `RotationEngine`:
`EffectUnderLease`, `TerminalIsFinal` (an append that fails after `done` was written
marks the job reconcile-required), `RolledBackNeverServed` (crash between the alias move and
its row, another rotation, then the resumed job loses the CAS and deletes its once
published token), `PublishedMeansAliasMoved` (`getLastPublishedJob` takes any
reconcile-required job), `VerifyFailureNotRetried` (`consumers-reloaded` is retryable),
`RollbackRecordMeansUntouched` (a refused rollback is recorded as op `rollback`) and
`NoStalePublish` (the CAS value is read when the job is staged). In `RotationLease`:
`GlobalFenceMonotonic` (a takeover uses row + 1, not the sequence). In
`SecretLifecycle`: `ScrubbedEverywhere` (a recorded answer keeps the reference). In
`Outbox`: `DeadLetterIsTerminal` (a late worker overwrites it). In `Identity`: `CutoffIsHard` (a second rotation moves the cutoff that
`docs/runtime/identity.md:102` calls hard) and `RevokedHasNoSuccessor` (`rotateToken` does
not ask whether the token is still valid). In `Operations`:
`RepairedOnce` (two reconcilers list the same record) and `PendingIsReconciled` (an
operation whose process died has no record).

With `MaxRaces = 1` two of the properties above fail, each because something is read and
acted on later without a lock:

* `ReportedIsDurable`: `ensureFile` looks for the store file and writes an empty one without
  the lock (`identity/store.ts:121`), over a first token issued in between.
* `WithdrawnIsNotFound` without its condition `races = 0`: the first load of the snapshot awaits its decryption and then
  keeps it in memory over a newer one that has been put there meanwhile, by a refresh of the
  same process or by another first load that read the file after some process had replaced
  it (`snapshot.ts:82-110`); two refreshes share one `.tmp` file and may finish in the wrong
  order. The second of these came out of the proof: it takes two processes, so
  `client_scope` does not meet it. `SecretFleet.cfg`, not among the listed runs, has two
  processes and three requests: it passes, and is violated if `ReadSnapshot` does not count
  that race.

Two properties state their limits. `WithdrawnIsNotFound` speaks of the name that a scoped
caller passes the check or is listed with; which item the library then looks up is decided
by its own reading of the path (`index.ts:47-128`) and by the CLI's search
(`index.ts:186`), so nothing is claimed of the secret in the answer. `WithdrawnIsRefused`
of `Access` says that a withdrawn token stays refused unless it is rotated once more:
`rotateToken` sets a new `supersededAt` whenever it is called (`identity.ts:182-205`), which
gives a token whose cutoff has passed, and a late request on its way, time again.

Further behaviours the models follow, without a property about them: a server that finds no
session at startup is not scoped for as long as it runs (`mcp.ts:103-106`), and
`filterByScope` without a snapshot filters nothing; the credential proxy calls its
folder fallback "deferred" then but never resolves it (`cred-proxy.ts:157`); `POST
/cache/clear` answers `cleared: true` whether or not the folders could be looked up again
(`main.ts:282-287`); a torn cache file makes every call of a process fail that had not
loaded it; a save brings back entries that another process has cleared; a read may
return what was there before a write that has been answered; `--overlap` with no number makes
`rotateToken` throw after the successor has been stored. Tokens from `/auth/token` carry the scope
`secrets:read`, while the JWT check of the mTLS profile asks for `read:secrets` and
`/auth` is not mounted there. With
`IP_WHITELIST=disable` (`README.md:415` of the repository), the server says that the whitelist is
disabled and then installs the detected range all the same (`main.ts:102-120`); a range
`/0` admits one address only, for `-1 << 32` is `-1` (`ip-whitelist.ts:37`).
`loadOAuthClients` parses `Bun.file(...).toString()`, which is not the file's text
(`routes/auth.ts:27`). A request with an unknown session id opens a transport that
only `DELETE` removes.

## The proofs

The eight proof modules are checked by TLAPS for every value of the constants. They
use only the assumptions on constants named in the modules (`LeaseAssumption`,
`EngineAssumption`, `LifecycleAssumption`, `LedgerAssumption`, `OutboxAssumption`,
`OperationsAssumption`, `IdentityAssumption`, `AccessAssumption`,
`RecordAssumption` of the last two, `SecretClientAssumption`, `NoneAssumption` and
`SecretToolsAssumption`), which TLC evaluates in every run: values that stand
for absence are not in the sets, bounds are natural numbers, times that mean "never" or
"not a number" are no numbers, the sets of operations and events are finite, programs are
those there are. Two theorems assume more and say so in their statement: `LeasesExclude`
that a pass is shorter than the outbox lease, `FileIsTheTable` that no race happens.

**Lease.** `TypeOK` and exclusivity are not inductive: nothing in them
says that a fence about to be handed out differs from those already in
somebody's hands, because fences come from two sources, the sequence for a fresh row and
row + 1 for a takeover. `LeaseInv` adds the bound that makes them one: every fence
handed out for a secret is at most `Top`, the row's fence while there is a row
and the sequence when there is none, and no row's fence exceeds the sequence (each takeover
also bumps it). From it follow, in this order, `LeaseInvariant`, `LeaseTypeCorrect`,
`FencedWritesExclusive`, and the action properties `StaleHandles` and `FencesInOrder`.
`LeaseImplementsTenure` maps each step to a grant, a vacation, a write or a
stutter of `ExclusiveTenure`; the write case needs exclusivity's lemma that a matching
handle owns the row.

**Engine: what an executor knows.** An executor acts on a copy of a row, and between
reading and acting others write rows, add versions, move the alias and delete tokens.
`ServedWasProbed` follows from what the copy still tells it, so `IInv` says that for each
program counter and local (`LocalOK`): a credential in the copy is the one in the row, a
version in the copy was added by this job, and past `verified` the credential in the
copy has authenticated. The rows themselves satisfy the same needs (`JobsOK`), and a
version holds the credential of the job that added it (`VersionsOK`). All of this is
stable because credentials are recorded once, which is `MintsOnce`: under the lease,
only an executor of a job without a credential mints. `KnowledgeIsStable` states the
stability once, for any growth of rows, versions and probed tokens; `Control` names
what every move of an executor must respect, and the lemmas `...IsControl` show it for each
kind of move (going on, throwing, being fenced out, leaving). Each action is
then a control move (`LocalStep`), the write of one row (`RowStep`), or one of the
three that add a version, probe a credential or move the alias. `PublishedWasProbed`
and `EngineTypeCorrect` are its conjuncts; `RecordedIsFinal` looks at the five actions
that write rows, and `MintsOnce` decides the only one that writes a credential.

**Engine: what becomes of a job.** Rows are read without the lease and written with it, so
the stage an executor has in its copy is the row's only while it holds the lease;
`StageInv` says so for every program counter. `RowsFollowGraph` reads the writers' guards
off it: no row leaves the graph of `states.ts`, whatever overlaps, with the one exception
the property names (a job goes from `done` to `reconcile-required` after an append
failed behind `done`). `RecordInv` follows a job that gives up to the record it opens
(`GivenUpIsRecorded`), and `SupersedeInv` follows the credential to be superseded: it is
fixed when the row is inserted, belongs to another job that has published it, is never
minted again, and an executor that has passed the revocation has seen it gone
(`DoneHasRetired`). These three,
like the theorems above, hold with any number of crashes, outlived leases, faults and
failing appends, also together, which the runs separate.

**Engine: what is alive at the provider.** `ServedStaysLive`, `RollbackMissesServed` and
`OneLivePerJob` hold in every state before the first live executor has outlived its lease
(`used["stall"] = 0`). None of them holds without that condition: TLC violates the first with
`EngineServedUnderStall.cfg`, the third with the same bounds (`AtMostOneLivePerJob` as the
invariant), the second with those of `EngineOverlap.cfg`. Crashes, faults, denials and failed appends are not
restricted. The argument: until then whoever is at work on a secret holds its lease
(`Serial`), so what it has read stays so; the versions of different jobs differ, so the
alias serves at most one job, and whoever deletes a token does so for its own job
or for a superseded one. `RollbackInv` says that a job which is or was rolled back does
not serve, `MovedInv` that once the alias has moved what it was moved from does not serve
either, `LiveInv` that the served credential and those verified to be served next are live,
`OneInv` that at most one token of a job is.

**Lifecycle.** `IInv` strengthens `TypeOK`, `AliasesResolve` and
`AnswersAreDistinct` with: versions are numbered without gaps (so `MAX + 1` is free),
a secret that does not exist has no versions (so `importLegacy` may insert
version 1), and a recorded answer names a version that exists (so a new number
differs from all answers). `LifecycleInvariant` proves it action by action;
`LifecycleTypeCorrect`, `AliasesAlwaysResolve` and `AnswersAlwaysDistinct` follow, and
`VersionsNeverChange` uses that the inserted version's number was absent.
`LedgerAlwaysExplains` needs no induction over the history: `LedgerInv` names, for each
version and alias, the index of the newest row about it and what it says;
`RowAppended` shows that a row appended is the newest about what it is about and
changes nothing else, and each action then has to have written the row that says
what it did.

**Ledger.** The walk of `verifyLedger` does not have to be unrolled. Nobody but
`appendAudit` computes a hash, so the columns `prev_hash` and `hash` of any row are those of a
row that was appended (`HashesAreOriginal`), and a row whose hash is right is that row.
If the rows were left alone they are the truth (`RowsAreTruth`); if the head was left
alone it counts the appended rows and ends their chain (`HeadIsTruth`), and a set of
appended rows that is numbered without gaps up to the head's count is all of them.
`VerificationMeansTruth` combines the two cases, `NumbersAreFresh` uses the head or, when the
head was changed, the uniqueness of the numbers of the rows; `NoFalseAlarm` is the case of no
change.

**Outbox.** `Typed`, `ListedOnce`, `BatchesOK` and `BatchesListed` hold however passes
overlap. `LeaseIsKept` says that who works on an event holds its row, until `Lease` after
the clock its pass has read; as no pass gets older than `MaxPass`, nobody else finds
the row due, which is `LeasesExclude`. `Solo` holds until two passes overlap, with
or without crashes: one pass at a time, its batch has the table's attempt counts,
and calls (successes) are at most attempts on record (1 per key) plus the one in hand plus
crashes. `CallsAreBounded` and `SuccessesAreBounded` are read off; `OutboxRetries.cfg` shows
that the first fails when passes overlap. `OutboxTypeCorrect` needs to know that the
delays of `Backoff` grow. It is a recursive function, of which a prover knows nothing but
that it is some solution of its equation if there is one: `ApproxExists` and `ApproxAgree`
construct one, each by the least number (`LeastNat`) at which it would fail, and
`BackoffUnfolds` and `BackoffGrows` follow. `Table` then adds to `IInv` that every row has all
its columns and lies no further ahead than the longest retry or the lease.

**Operations.** `OpenIffRequired` and `CommittedMeansApplied` are preserved because
a process performing an operation is the only one that touches it until it is gone
(`CallerIsAlone`), every list a reconciler works from names operations that once had a
record, even when the list is old (`ListsHadRecords`), and whoever is about to report
a commit has seen the write applied (`AppliedBeforeSaid`).

**Identity.** The file store cannot test a lock's age and remove it in one step, so a
process may remove a lock that is held; after that everything can be lost, and the claims
below say what. The theorems are about the states before the first such race, for any
`MaxRaces`: `LockExcludes`, `ReportsAreDurable` and `SuccessorsAreThere` say `races = 0 => ...`.
`Solid` is what holds until then: the lock is that of the call in its critical section
(`HolderOnly`), whose copy is the file (`CopyIsFile`), and `OnTheirWay` says
for each call how far it has come, which carries a rotation across its two locked writes
(between them other calls may revoke either token or let it expire). `FileIsTheTable`
maps each write to `Issue`, `Revoke` or `Supersede` of `TokenRegistry`, a tick to `Age`, and
everything else, crashes and broken locks included, to a stutter.

**Access.** A request waits at `auth` with a credential that was judged when it arrived
(`late`, by `Withdrawn`), while operators, restarts and time go on. `LateIsRefused` connects
that judgement with the server's own check: while it stands, `Accepts` refuses the credential.
A revocation is for good, a cutoff until the token is rotated once more, which `Supersede` may
do at any time and which clears the judgement (`Brings`); for OAuth2 it needs `TokensRunOut`:
what is left of the life of an access token and the time since its client was removed add
up to at most `AccessLife`. With it `WithdrawnAlwaysRefused` is inductive. `BlocksAreShort`
comes from `BlocksAddUp`: time blocked and time to go make up one window, and
meanwhile nothing is counted, so that when a block ends the limiter remembers no request from
which the next could follow; and `DenialsHold` from `DeniedIsStored` and the order in which the authorizer looks for
a denial before it looks for a permission.

**Client and servers.** `ClientInv` is the type invariant with what a request at a label can
rely on (`Placed`): its process is up, and the name, the item, the id or the file that the
next statement uses is there. `ClientInvariant` proves it for the requests, the
servers' starts, crashes, the operator and time; `ClientTypeCorrect` is a part of it.

`CachedSecretsAreRecent` compares two clocks: `since`, how long a secret has not been
the vault's, and the age of an entry. `FreshInv` says that the first never exceeds the
second, in every memory and in the file, and that what is on its way into the cache has
not been replaced at all. It holds through loads that merge the file into what
memory has, saves over another process's file, torn files and crashes; time raises both. So an
entry that `get()` accepts is within its time to live.

`WritesStayHoused` follows from `HousedInv`. Snapshots are of any age, and what was in
the folder when one was taken may have left it, so the history `housed` keeps every id that
ever lay in it. Every listing, in memory, in a file or in the hands of a request, shows in
the folder only such ids (`ListingsHoused`, `RequestsHoused`), and a request of a server with
a folder that is about to read, edit or remove has an id of that kind (`Holds`): only
`FindScoped` gives it one, and afterwards neither the id nor the server's folder changes
while the process lives. `ReadsHoused` covers the steps that leave the vault alone, through
what they do to the request (`Carries`) and to the files (`ReadsFiles`), and
`VaultBecomesHoused` those that change it.

`WithdrawnStaysWithdrawn` is about every state before the first race, with any number of
processes. A name a server knows to be gone from the folder may come back from
the snapshot file, the `.tmp` file, the memory of that process or of a request that is
loading, listing or writing one; `WithdrawnInv` says that it is in none of these. Its part
`Settled` holds always (a request holds a snapshot only while it loads or refreshes, what
it has seen gone is not in the vault's folder now, names are withheld only from scoped
callers); its part `Agreed` says, before the first race, that what the file says is gone is
not in it, that each process's memory and each request agree with what that process knows
(`ProcsAgreed`, `Faithful`), and that requests keep out of each other's way (`Apart`:
one refresh at a time, and the loads of one process have read the same file).
A scoped request asks the snapshot, or on the REST server the map of its clients'
folders, before it goes on to a path, and has then passed the check; what comes after is not
part of the claim. `LandsSettles` covers the steps that only move a request, `Assembled` the
ones that touch files or memory.

**Only model-checked.** Liveness (`EveryJobSettles`, `EveryEventSettles`, `EveryRecordCloses`, `EveryCallReturns`) is out of the
prover's reach, as is ENABLED. Beyond the conditions named above nothing is proved: about identity or what is withdrawn after a race, the number of handler calls once passes overlap, and `AtMostOneLivePerJob` and `ServedJobNotRolledBack` once a live
executor has outlived its lease. The type
invariants of the lease, the engine, the lifecycle and the operations are proved and no
longer part of a run.

## Not modelled

Migrations of the schema, the leak guard (there are no bytes in the models), keychain
and CLI wrappers, the one-shot `.env` importer, backup, reports, test doubles and
deployment scripts: they keep no shared state, or only do process I/O. Within the
engine: several aliases of one secret, `drive`'s guard, long token names, a
`resumePending` that stops at the first job that throws. Of the servers: the arithmetic of
address ranges, TLS, log lines, search scores, notes of services, MCP resources and prompts. The reasons per component
are in `PROJECT.json`.

## Plan

Done: all modules above; theorems that state every safety and action property of the
runs. Left to TLC is liveness.

Left:

1. `RotationEngine` with two aliases of a secret: `getLastPublishedJob` looks at the
   secret only, so a rotation of one alias may revoke what another serves.
2. `Backup`: what a crash or a failed upload leaves behind, retention; the
   migration executor's rollback.
