------------------------- MODULE RotationEngineProofs -------------------------
(***************************************************************************)
(* Theorems about RotationEngine, for any number of jobs, executions,      *)
(* crashes, faults and failing appends.                                    *)
(*                                                                         *)
(* Also when executions overlap: the alias reaches only credentials that   *)
(* verify() has seen authenticate, a recorded credential is never          *)
(* replaced, rows move along the graph of stages, a job that gave up has a *)
(* record, and a job counted done has retired what it superseded. While no *)
(* live execution outlives its lease: what the alias serves authenticates, *)
(* no job it serves is rolled back, and a job has at most one live token.  *)
(*                                                                         *)
(* An executor acts on a row it read earlier, in another database than the *)
(* versions and the alias. The first invariant (IInv) says what its copy   *)
(* still tells it after others have acted, the second (StageInv) how far   *)
(* the row may be ahead of the copy. The others build on these: records,   *)
(* superseded credentials, versions, and what is alive at the provider.    *)
(***************************************************************************)
EXTENDS RotationEngine, SequenceTheorems, FiniteSetTheorems, TLAPS

(* The places of an execution before it is dispatched, those of            *)
(* stageProviderCreate before a credential is recorded, and the stages     *)
(* past which a row must hold a credential, a version and a credential     *)
(* that has authenticated.                                                 *)
Early   == {"lookup", "acquire", "insert", "loop"}
Minting == {"intent", "clean", "mint", "persist"}
AfterVerify == {"verified", "alias-moved", "old-revoked", "done"}
AfterStaged == {"staged", "consumers-reloaded"} \cup AfterVerify
AfterCreate == {"provider-created"} \cup AfterStaged

(* What a row (or a copy of one) must hold at stage s, with p the tokens   *)
(* that have authenticated.                                                *)
Needs(s, row, p) ==
  /\ s \in AfterCreate => row.token # None
  /\ s \in AfterStaged => row.version # 0
  /\ s \in AfterVerify => row.token \in p

(* n is no version, or a version the job k has added to v.                 *)
VersionIs(k, n, v) == n # 0 => n \in 1 .. Len(v) /\ v[n].key = k

(* What the locals x of an execution know of the jobs j and versions v.    *)
KnowsJob(x, j, v) ==
  /\ x.key \in Key
  /\ x.pc \notin Early => j[x.key].stage # "absent"
  /\ x.pc \in {"lookup", "acquire", "insert"} =>
       x.row.token = None /\ x.row.version = 0
  /\ x.row.token # None => j[x.key].token = x.row.token
  /\ x.row.version # 0 => j[x.key].version # 0
  /\ VersionIs(x.key, x.row.version, v) /\ VersionIs(x.key, x.version, v)

(* Where an execution may be, by the stage it was dispatched on.           *)
KnowsStage(x, p) ==
  /\ Needs(x.row.stage, x.row, p) /\ Needs(x.at, x.row, p)
  /\ x.pc \notin Early => x.at # "absent"
  /\ x.pc \in {"addVersion", "readAlias"} => x.at = "provider-created"
  /\ x.pc = "readAlias" => x.version # 0
  /\ x.pc \in {"reload", "reloaded"} => x.at = "staged"
  /\ x.pc = "verify" => x.at = "consumers-reloaded"
  /\ x.pc \in {"checkAlias", "moveAlias"} => x.at = "verified"
  /\ x.pc \in {"authRevoke", "revoke"} => x.at = "alias-moved"
  /\ x.pc = "persist" => x.token # None

(* A transition is about to be written only with what its stage needs.     *)
MayCommit(x, p) == x.pc = "commit" =>
  /\ x.to # "absent"
  /\ x.to \in AfterCreate => x.row.token # None
  /\ x.to = "staged" => x.version # 0
  /\ x.to \in AfterStaged \ {"staged"} => x.row.version # 0
  /\ x.to \in AfterVerify => x.row.token \in p

LocalOK(x, j, v, p) ==
  x.pc # "idle" => KnowsJob(x, j, v) /\ KnowsStage(x, p) /\ MayCommit(x, p)

JobOK(k, row, v, p) ==
  /\ row.stage = "absent" => row.token = None /\ row.version = 0
  /\ VersionIs(k, row.version, v)
  /\ Needs(row.stage, row, p)

LocalsOK == \A e \in Exec : LocalOK(ex[e], job, versions, probed)
JobsOK == \A k \in Key : JobOK(k, job[k], versions, probed)

(* A version holds the credential of the job that added it.                *)
VersionsOK ==
  \A n \in 1 .. Len(versions) : job[versions[n].key].token = versions[n].token

(* Who mints under the lease mints for a job without a credential.         *)
MintsOnce ==
  \A e \in Exec : lease = e /\ ex[e].pc \in Minting =>
    job[ex[e].key].token = None

IInv == /\ TypeOK /\ LocalsOK /\ JobsOK /\ VersionsOK /\ MintsOnce
        /\ ServedWasProbed

-----------------------------------------------------------------------------
(* Knowledge is stable: jobs keep their credentials and stay staged,       *)
(* versions are appended, tokens that have authenticated have done so.     *)
LEMMA KnowledgeIsStable ==
  ASSUME NEW x, NEW j, NEW jj, NEW v, NEW vv, NEW p, NEW pp,
         LocalOK(x, j, v, p),
         \A k \in Key : /\ j[k].token # None => jj[k].token = j[k].token
                        /\ j[k].version # 0 => jj[k].version # 0
                        /\ j[k].stage # "absent" => jj[k].stage # "absent",
         \A n \in 1 .. Len(v) : n \in 1 .. Len(vv) /\ vv[n] = v[n],
         p \subseteq pp
  PROVE  LocalOK(x, jj, vv, pp)
<1> SUFFICES ASSUME x.pc # "idle" PROVE LocalOK(x, jj, vv, pp)
  BY DEF LocalOK
<1>1. KnowsJob(x, jj, vv)
  BY DEF LocalOK, KnowsJob, VersionIs
<1>2. KnowsStage(x, pp)
  BY DEF LocalOK, KnowsStage, Needs
<1>3. MayCommit(x, pp)
  BY DEF LocalOK, MayCommit
<1> QED
  BY <1>1, <1>2, <1>3 DEF LocalOK

(* The execution e moves on to locals x; the others stay where they are.   *)
MovesTo(e, x) == /\ ex' \in [Exec -> Execution]
                 /\ ex'[e] = x
                 /\ \A f \in Exec \ {e} : ex'[f] = ex[f]

(* A move of e that keeps what executions must know: e knows what its new  *)
(* place needs, and it does not start to mint without knowing that nothing *)
(* is recorded. The lease stays, is taken by e, goes free or dies with e.  *)
Control(e) ==
  \E x \in Execution :
    /\ MovesTo(e, x)
    /\ LocalOK(x, job, versions, probed)
    /\ lease' \in {lease, e, None, Ghost}
    /\ lease' = e /\ x.pc \in Minting => job[x.key].token = None

(* The variables that no execution relies on.                              *)
EffectTypes ==
  /\ errors \in [Key -> [Stage -> Nat]]
  /\ minted \in [Key -> Nat] /\ live \subseteq Token
  /\ reconciles \subseteq Key \X ({"revoke", "rollback"} \cup Stage)
  /\ used \in [{"crash", "stall", "fault", "emit"} -> Nat]
  /\ served \subseteq Key /\ rejected \subseteq Key

(* A step of e that writes no row, version or alias and probes nothing.    *)
LEMMA LocalStep ==
  ASSUME IInv, NEW e \in Exec, Control(e), EffectTypes',
         UNCHANGED <<job, newer, versions, alias, probed>>
  PROVE  IInv'
<1>1. PICK x \in Execution :
        /\ MovesTo(e, x)
        /\ LocalOK(x, job, versions, probed)
        /\ lease' \in {lease, e, None, Ghost}
        /\ lease' = e /\ x.pc \in Minting => job[x.key].token = None
  BY DEF Control
<1>2. TypeOK'
  BY <1>1 DEF IInv, TypeOK, EffectTypes, MovesTo
<1>3. LocalsOK'
  BY <1>1 DEF IInv, LocalsOK, MovesTo
<1>4. JobsOK' /\ VersionsOK' /\ ServedWasProbed'
  BY DEF IInv, JobsOK, VersionsOK, ServedWasProbed, Served
<1>5. MintsOnce'
  <2> SUFFICES ASSUME NEW f \in Exec, lease' = f, ex'[f].pc \in Minting
               PROVE  job[ex'[f].key].token = None
    BY DEF MintsOnce
  <2>1. CASE f = e
    BY <1>1, <2>1 DEF MovesTo
  <2>2. CASE f # e
    <3>1. lease = f
      BY <1>1, <2>2, EngineAssumption
    <3> QED
      BY <1>1, <2>2, <3>1 DEF IInv, MintsOnce, MovesTo
  <2> QED
    BY <2>1, <2>2
<1> QED
  BY <1>2, <1>3, <1>4, <1>5 DEF IInv

-----------------------------------------------------------------------------
(* The moves an execution makes, as records of locals.                     *)
LEMMA IdleIsExecution == Idle \in Execution
<1>1. NoRow \in Row
  BY DEF NoRow, Row
<1> QED
  BY <1>1 DEF Idle, Execution, Label

(* The labels that the moves below go to.                                  *)
LEMMA Labels ==
  /\ "lookup" \in Label /\ "acquire" \in Label /\ "commit" \in Label
  /\ "mark" \in Label /\ "error" \in Label /\ "emitError" \in Label
  /\ "persist" \in Label /\ "readAlias" \in Label /\ "reload" \in Label
  /\ "authRollback" \in Label
BY DEF Label

(* Replacing the locals of e by x moves e to x.                            *)
LEMMA PutMoves ==
  ASSUME ex \in [Exec -> Execution], NEW e \in Exec, NEW x \in Execution,
         ex' = [ex EXCEPT ![e] = x]
  PROVE  MovesTo(e, x)
BY DEF MovesTo

(* Where an execution may go whatever it knows, as long as it has begun.   *)
Anywhere == {"loop", "intent", "clean", "mint", "guardRollback",
             "authRollback", "rollback", "rollbackError", "mark", "emit",
             "error", "emitError"}

Context == {"stage", "try", "handler", "resume"}

(* Going on to a label keeps what is known, if what the label needs is.    *)
LEMMA GotoKnows ==
  ASSUME NEW y \in Execution, NEW j, NEW v, NEW p, LocalOK(y, j, v, p),
         y.pc # "idle", NEW label \in Label,
         \/ label = "loop"
         \/ label \in Anywhere /\ y.pc \notin Early
         \/ label \in {"acquire", "insert"} /\ y.pc \in {"lookup", "acquire"}
         \/ label = "reloaded" /\ y.pc = "reload"
         \/ label = "moveAlias" /\ y.pc = "checkAlias"
         \/ label = "revoke" /\ y.pc = "authRevoke"
  PROVE  /\ [y EXCEPT !.pc = label] \in Execution
         /\ LocalOK([y EXCEPT !.pc = label], j, v, p)
<1> DEFINE x == [y EXCEPT !.pc = label]
<1>1. x \in Execution
  BY DEF Execution
<1>2. /\ x.pc = label /\ x.key = y.key /\ x.at = y.at /\ x.row = y.row
      /\ x.token = y.token /\ x.version = y.version
  BY DEF Execution
<1>3. KnowsJob(x, j, v) /\ KnowsStage(x, p) /\ MayCommit(x, p)
  <2> HIDE DEF x
  <2> QED
    BY <1>2 DEF LocalOK, KnowsJob, KnowsStage, MayCommit, Anywhere, Early
<1> QED
  BY <1>1, <1>3 DEF LocalOK

(* Going to write a stage needs what the stage needs of the copy.          *)
LEMMA CommitKnows ==
  ASSUME NEW y \in Execution, NEW j, NEW v, NEW p, LocalOK(y, j, v, p),
         y.pc \notin Early \cup {"idle"}, NEW stage \in Stage, NEW ctx \in Context,
         stage # "staged", Needs(stage, y.row, p)
  PROVE  LET x == [y EXCEPT !.pc = "commit", !.to = stage, !.ctx = ctx] IN
         x \in Execution /\ LocalOK(x, j, v, p)
<1> DEFINE x == [y EXCEPT !.pc = "commit", !.to = stage, !.ctx = ctx]
<1>1. x \in Execution
  BY Labels DEF Execution, Context
<1>2. /\ x.pc = "commit" /\ x.key = y.key /\ x.at = y.at /\ x.row = y.row
      /\ x.token = y.token /\ x.version = y.version /\ x.to = stage
  BY DEF Execution
<1>3. KnowsJob(x, j, v) /\ KnowsStage(x, p) /\ MayCommit(x, p)
  <2> HIDE DEF x
  <2> QED
    BY <1>2 DEF LocalOK, KnowsJob, KnowsStage, MayCommit, Needs, Early, Stage,
                Happy, Terminal
<1> QED
  BY <1>1, <1>3 DEF LocalOK

(* Going to mark a job reconcile-required needs nothing.                   *)
LEMMA MarkKnows ==
  ASSUME NEW y \in Execution, NEW j, NEW v, NEW p, LocalOK(y, j, v, p),
         y.pc \notin Early \cup {"idle"}, NEW ctx \in Context
  PROVE  LET x == [y EXCEPT !.pc = "mark", !.ctx = ctx] IN
         x \in Execution /\ LocalOK(x, j, v, p)
<1> DEFINE x == [y EXCEPT !.pc = "mark", !.ctx = ctx]
<1>1. x \in Execution
  BY Labels DEF Execution, Context
<1>2. /\ x.pc = "mark" /\ x.key = y.key /\ x.at = y.at /\ x.row = y.row
      /\ x.token = y.token /\ x.version = y.version
  BY DEF Execution
<1>3. KnowsJob(x, j, v) /\ KnowsStage(x, p) /\ MayCommit(x, p)
  <2> HIDE DEF x
  <2> QED
    BY <1>2 DEF LocalOK, KnowsJob, KnowsStage, MayCommit, Early
<1> QED
  BY <1>1, <1>3 DEF LocalOK

(* What runStage hands to onStageError: the row as it was dispatched on.   *)
LEMMA ErrorKnows ==
  ASSUME NEW y \in Execution, NEW j, NEW v, NEW p, LocalOK(y, j, v, p),
         y.pc \notin Early \cup {"idle"}
  PROVE  LET x == [y EXCEPT !.pc = "error", !.row.stage = y.at] IN
         x \in Execution /\ LocalOK(x, j, v, p)
<1> DEFINE row == [y.row EXCEPT !.stage = y.at]
           x == [y EXCEPT !.pc = "error", !.row.stage = y.at]
<1>1. y.row \in Row /\ y.at \in Stage \cup {"absent"}
  BY DEF Execution
<1>2. row \in Row /\ row.stage = y.at /\ row.token = y.row.token
      /\ row.version = y.row.version
  <2> DEFINE r == y.row
             a == y.at
  <2>1. r \in Row /\ a \in Stage \cup {"absent"}
    BY <1>1
  <2> HIDE DEF r, a
  <2>2. [r EXCEPT !.stage = a] \in Row
    BY <2>1 DEF Row
  <2>3. /\ [r EXCEPT !.stage = a].stage = a
        /\ [r EXCEPT !.stage = a].token = r.token
        /\ [r EXCEPT !.stage = a].version = r.version
    BY <2>1 DEF Row
  <2> QED
    BY <2>2, <2>3 DEF r, a
<1>3. x = [y EXCEPT !.pc = "error", !.row = row]
  OBVIOUS
<1> HIDE DEF row, x
<1>4. x \in Execution
  BY <1>2, <1>3 DEF Execution, Label
<1>5. /\ x.pc = "error" /\ x.key = y.key /\ x.at = y.at /\ x.row = row
      /\ x.token = y.token /\ x.version = y.version
  BY <1>3 DEF Execution
<1>6. KnowsJob(x, j, v) /\ KnowsStage(x, p) /\ MayCommit(x, p)
  BY <1>2, <1>5 DEF LocalOK, KnowsJob, KnowsStage, MayCommit, Needs
<1>7. LocalOK(x, j, v, p)
  BY <1>6 DEF LocalOK
<1> QED
  BY <1>4, <1>7 DEF x

(* The control moves of RotationEngine, from any state that satisfies the  *)
(* invariant.                                                              *)
LEMMA LeaveIsControl ==
  ASSUME IInv, NEW e \in Exec, Leave(e)
  PROVE  Control(e)
<1>1. MovesTo(e, Idle)
  BY IdleIsExecution, PutMoves DEF IInv, TypeOK, Leave, Become
<1>2. lease' \in {lease, None}
  BY DEF Leave
<1>3. LocalOK(Idle, job, versions, probed) /\ Idle.pc \notin Minting
  BY DEF LocalOK, Idle, Minting
<1> QED
  BY <1>1, <1>2, <1>3, IdleIsExecution DEF Control

(* Going on to a label.                                                    *)
LEMMA GotoIsControl ==
  ASSUME IInv, NEW e \in Exec, ex[e].pc # "idle", NEW label \in Label,
         Goto(e, label), lease' \in {lease, e},
         \/ label = "loop"
         \/ label \in Anywhere \ Minting /\ ex[e].pc \notin Early
         \/ label = "mint" /\ ex[e].pc = "clean" /\ UNCHANGED lease
         \/ label \in {"acquire", "insert"} /\ ex[e].pc \in {"lookup", "acquire"}
         \/ label = "reloaded" /\ ex[e].pc = "reload"
         \/ label = "moveAlias" /\ ex[e].pc = "checkAlias"
         \/ label = "revoke" /\ ex[e].pc = "authRevoke"
  PROVE  Control(e)
<1> DEFINE y == ex[e]
           x == [y EXCEPT !.pc = label]
<1>1. y \in Execution /\ LocalOK(y, job, versions, probed)
  BY DEF IInv, TypeOK, LocalsOK
<1>2. x \in Execution /\ LocalOK(x, job, versions, probed)
  BY <1>1, GotoKnows DEF Anywhere, Early
<1>3. MovesTo(e, x)
  BY <1>2, PutMoves DEF IInv, TypeOK, Goto, Become
<1>4. x.pc = label /\ x.key = y.key
  BY <1>1 DEF Execution
<1>5. lease' = e /\ x.pc \in Minting => job[x.key].token = None
  <2> HIDE DEF x
  <2> QED
    BY <1>4 DEF IInv, MintsOnce, Minting
<1> QED
  BY <1>2, <1>3, <1>5 DEF Control

(* Going to write a stage other than `staged`.                             *)
LEMMA CommitIsControl ==
  ASSUME IInv, NEW e \in Exec, ex[e].pc \notin Early \cup {"idle"}, NEW stage \in Stage,
         NEW ctx \in Context, CommitTo(e, stage, ctx), UNCHANGED lease,
         stage # "staged", Needs(stage, ex[e].row, probed)
  PROVE  Control(e)
<1> DEFINE y == ex[e]
           x == [y EXCEPT !.pc = "commit", !.to = stage, !.ctx = ctx]
<1>1. y \in Execution /\ LocalOK(y, job, versions, probed)
  BY DEF IInv, TypeOK, LocalsOK
<1>2. x \in Execution /\ LocalOK(x, job, versions, probed)
  BY <1>1, CommitKnows
<1>3. MovesTo(e, x)
  BY <1>2, PutMoves DEF IInv, TypeOK, CommitTo, Become
<1>4. x.pc \notin Minting
  BY <1>1 DEF Execution, Minting
<1> QED
  BY <1>2, <1>3, <1>4 DEF Control

(* Going to mark a job reconcile-required.                                 *)
LEMMA MarkIsControl ==
  ASSUME IInv, NEW e \in Exec, ex[e].pc \notin Early \cup {"idle"}, NEW ctx \in Context,
         MarkReconcile(e, ctx), UNCHANGED lease
  PROVE  Control(e)
<1> DEFINE y == ex[e]
           x == [y EXCEPT !.pc = "mark", !.ctx = ctx]
<1>1. y \in Execution /\ LocalOK(y, job, versions, probed)
  BY DEF IInv, TypeOK, LocalsOK
<1>2. x \in Execution /\ LocalOK(x, job, versions, probed)
  BY <1>1, MarkKnows
<1>3. MovesTo(e, x)
  BY <1>2, PutMoves DEF IInv, TypeOK, MarkReconcile, Become
<1>4. x.pc \notin Minting
  BY <1>1 DEF Execution, Minting
<1> QED
  BY <1>2, <1>3, <1>4 DEF Control

(* An error, wherever it is caught.                                        *)
LEMMA ThrowIsControl ==
  ASSUME IInv, NEW e \in Exec, ex[e].pc \notin Early \cup {"idle"}, Throw(e)
  PROVE  Control(e)
<1>1. CASE MarkReconcile(e, "stage") /\ UNCHANGED lease
  BY <1>1, MarkIsControl DEF Context
<1>2. CASE Goto(e, "rollbackError") /\ UNCHANGED lease
  BY <1>2, GotoIsControl DEF Anywhere, Minting, Label
<1>3. CASE Leave(e)
  BY <1>3, LeaveIsControl
<1>4. CASE /\ Become(e, [ex[e] EXCEPT !.pc = "error", !.row.stage = ex[e].at])
           /\ UNCHANGED lease
  <2> DEFINE y == ex[e]
             x == [y EXCEPT !.pc = "error", !.row.stage = y.at]
  <2>1. y \in Execution /\ LocalOK(y, job, versions, probed)
    BY DEF IInv, TypeOK, LocalsOK
  <2>2. x \in Execution /\ LocalOK(x, job, versions, probed)
    BY <2>1, ErrorKnows
  <2>3. MovesTo(e, x)
    BY <1>4, <2>2, PutMoves DEF IInv, TypeOK, Become
  <2>4. x.pc \notin Minting
    BY <2>1 DEF Execution, Minting
  <2> QED
    BY <1>4, <2>2, <2>3, <2>4 DEF Control
<1> QED
  BY <1>1, <1>2, <1>3, <1>4 DEF Throw

(* A write refused by the fence.                                           *)
LEMMA FencedOutIsControl ==
  ASSUME IInv, NEW e \in Exec, ex[e].pc \notin Early \cup {"idle"}, FencedOut(e)
  PROVE  Control(e)
BY ThrowIsControl, LeaveIsControl DEF FencedOut

-----------------------------------------------------------------------------
(* The actions that only move an execution and act outside the database.   *)
LEMMA SpendTypes ==
  ASSUME TypeOK, NEW bound \in {"crash", "stall", "fault", "emit"}, NEW max,
         Spend(bound, max)
  PROVE  used' \in [{"crash", "stall", "fault", "emit"} -> Nat]
BY DEF TypeOK, Spend

(* The types the invariant gives those variables.                          *)
LEMMA EffectsTyped == IInv => EffectTypes
BY DEF IInv, TypeOK, EffectTypes

(* Requests, look-ups and the race for the lease.                          *)
LEMMA ClaimingKeeps ==
  ASSUME IInv, NEW e \in Exec, NEW k \in Key,
         Request(e, k) \/ Lookup(e) \/ Resume(e, k) \/ Acquire(e)
  PROVE  IInv'
<1>0. EffectTypes /\ UNCHANGED <<store, cloud, used, history>>
  BY EffectsTyped DEF Request, Lookup, Resume, Acquire
<1>1. CASE Request(e, k)
  <2>1. PICK old \in Superseded :
          Become(e, [Idle EXCEPT !.pc = "lookup", !.key = k, !.row.old = old])
    BY <1>1 DEF Request
  <2>2. old \in Token \cup {None}
    BY DEF Superseded, LastPublished, IInv, TypeOK, Row
  <2> DEFINE row == [NoRow EXCEPT !.old = old]
             y == Idle
             x == [y EXCEPT !.pc = "lookup", !.key = k, !.row = row]
  <2>3. row \in Row /\ row.token = None /\ row.version = 0
        /\ row.stage = "absent"
    BY <2>2 DEF NoRow, Row
  <2>4. /\ y \in Execution /\ y.row = NoRow /\ y.at = "absent"
        /\ y.version = 0
    BY IdleIsExecution DEF Idle
  <2>5. x = [y EXCEPT !.pc = "lookup", !.key = k, !.row.old = old]
    BY <2>4
  <2> HIDE DEF row, y
  <2>6. /\ x \in Execution /\ x.pc = "lookup" /\ x.key = k /\ x.at = "absent"
        /\ x.row = row /\ x.version = 0
    BY <2>3, <2>4, Labels DEF Execution
  <2> HIDE DEF x
  <2>7. LocalOK(x, job, versions, probed)
    BY <2>3, <2>6 DEF LocalOK, KnowsJob, KnowsStage, MayCommit, Needs,
                      VersionIs, Early, AfterCreate, AfterStaged, AfterVerify
  <2>8. Become(e, x)
    BY <2>1, <2>5 DEF y
  <2>9. MovesTo(e, x) /\ x.pc \notin Minting
    BY <2>6, <2>8, PutMoves DEF IInv, TypeOK, Become, Minting
  <2>10. Control(e)
    BY <1>1, <2>6, <2>7, <2>9 DEF Control, Request
  <2> QED
    BY <1>0, <2>10, LocalStep DEF EffectTypes, store, cloud, history
<1>2. CASE Lookup(e)
  <2>1. Control(e)
    BY <1>2, LeaveIsControl, GotoIsControl DEF Lookup, At, Label
  <2> QED
    BY <1>0, <2>1, LocalStep DEF EffectTypes, store, cloud, history
<1>3. CASE Resume(e, k)
  <2> DEFINE y == Idle
             x == [y EXCEPT !.pc = "acquire", !.key = k, !.ctx = "resume"]
  <2>1. /\ y \in Execution /\ y.row = NoRow /\ y.at = "absent"
        /\ y.version = 0
    BY IdleIsExecution DEF Idle
  <2>2. /\ NoRow.token = None /\ NoRow.version = 0 /\ NoRow.stage = "absent"
    BY DEF NoRow
  <2>3. Become(e, x)
    BY <1>3 DEF Resume
  <2> HIDE DEF y
  <2>4. /\ x \in Execution /\ x.pc = "acquire" /\ x.key = k
        /\ x.at = "absent" /\ x.row = NoRow /\ x.version = 0
    BY <2>1, Labels DEF Execution
  <2> HIDE DEF x
  <2>5. LocalOK(x, job, versions, probed)
    BY <2>2, <2>4 DEF LocalOK, KnowsJob, KnowsStage, MayCommit, Needs,
                      VersionIs, Early, AfterCreate, AfterStaged, AfterVerify
  <2>6. MovesTo(e, x) /\ x.pc \notin Minting
    BY <2>3, <2>4, PutMoves DEF IInv, TypeOK, Become, Minting
  <2>7. Control(e)
    BY <1>3, <2>4, <2>5, <2>6 DEF Control, Resume
  <2> QED
    BY <1>0, <2>7, LocalStep DEF EffectTypes, store, cloud, history
<1>4. CASE Acquire(e)
  <2>1. Control(e)
    BY <1>4, LeaveIsControl, GotoIsControl DEF Acquire, At, Label, Anywhere,
                                               Minting
  <2> QED
    BY <1>0, <2>1, LocalStep DEF EffectTypes, store, cloud, history
<1> QED
  BY <1>1, <1>2, <1>3, <1>4

(* The locals an execution is dispatched with: the row it has just read.   *)
Read(k) == [Idle EXCEPT !.key = k, !.row = job[k], !.at = job[k].stage]

(* Reading a row gives locals of the right types.                          *)
LEMMA ReadKnows ==
  ASSUME IInv, NEW k \in Key
  PROVE  /\ Read(k) \in Execution
         /\ Read(k).key = k /\ Read(k).row = job[k] /\ Read(k).version = 0
         /\ Read(k).at = job[k].stage /\ Read(k).token = None
         /\ job[k] \in Row
<1> DEFINE y == Idle
<1>1. job[k] \in Row /\ job[k].stage \in Stage \cup {"absent"}
  BY DEF IInv, TypeOK, Row
<1>2. y \in Execution /\ y.version = 0 /\ y.token = None
  BY IdleIsExecution DEF Idle
<1>3. Read(k) = [y EXCEPT !.key = k, !.row = job[k], !.at = job[k].stage]
  BY DEF Read
<1> HIDE DEF y
<1> QED
  BY <1>1, <1>2, <1>3 DEF Execution

(* runStage: every stage is entered with what it needs.                    *)
LEMMA DispatchIsControl ==
  ASSUME IInv, NEW e \in Exec, ex[e].key \in Key, Dispatch(e, job[ex[e].key]),
         UNCHANGED lease
  PROVE  Control(e)
<1> DEFINE k == ex[e].key
           row == job[k]
           y == Read(k)
<1>0. k \in Key
  OBVIOUS
<1>1. /\ y \in Execution /\ y.key = k /\ y.row = row /\ y.version = 0
      /\ y.at = row.stage
  BY ReadKnows
<1>2. JobOK(k, row, versions, probed)
  BY <1>0 DEF IInv, JobsOK
<1>c. row.stage # "absent"
  BY DEF Dispatch
<1>3. ASSUME NEW label \in Label, Become(e, [y EXCEPT !.pc = label]),
             \/ label \in {"intent", "clean"} /\ row.token = None
             \/ label = "addVersion" /\ row.stage = "provider-created"
             \/ label = "reload" /\ row.stage = "staged"
             \/ label = "verify" /\ row.stage = "consumers-reloaded"
             \/ label = "checkAlias" /\ row.stage = "verified"
             \/ label = "authRevoke" /\ row.stage = "alias-moved"
             \/ label = "guardRollback"
      PROVE  Control(e)
  <2> DEFINE x == [y EXCEPT !.pc = label]
  <2> HIDE DEF y
  <2>1. /\ x \in Execution /\ x.pc = label /\ x.key = k /\ x.row = row
        /\ x.version = 0 /\ x.at = row.stage
    BY <1>1 DEF Execution
  <2>2. MovesTo(e, x)
    BY <1>3, <2>1, PutMoves DEF IInv, TypeOK, Become
  <2> HIDE DEF x
  <2>3. KnowsJob(x, job, versions)
    BY <1>0, <1>2, <1>3, <1>c, <2>1 DEF KnowsJob, JobOK, VersionIs
  <2>4. KnowsStage(x, probed)
    BY <1>2, <1>3, <1>c, <2>1 DEF KnowsStage, JobOK
  <2>5. MayCommit(x, probed)
    BY <1>3, <2>1 DEF MayCommit
  <2>6. x.pc \in Minting => job[x.key].token = None
    BY <1>3, <2>1 DEF Minting
  <2> QED
    BY <2>1, <2>2, <2>3, <2>4, <2>5, <2>6 DEF Control, LocalOK
<1>4. ASSUME NEW stage \in {"provider-created", "old-revoked", "done"},
             Become(e, [y EXCEPT !.pc = "commit", !.to = stage]),
             \/ stage = "provider-created" /\ row.token # None
             \/ stage = "old-revoked" /\ row.stage = "alias-moved"
             \/ stage = "done" /\ row.stage = "old-revoked"
      PROVE  Control(e)
  <2> DEFINE x == [y EXCEPT !.pc = "commit", !.to = stage]
  <2> HIDE DEF y
  <2>0. stage \in Stage
    BY DEF Stage, Happy, Terminal
  <2>1. /\ x \in Execution /\ x.pc = "commit" /\ x.key = k /\ x.row = row
        /\ x.version = 0 /\ x.at = row.stage /\ x.to = stage
    BY <1>1, <2>0, Labels DEF Execution
  <2>2. MovesTo(e, x)
    BY <1>4, <2>1, PutMoves DEF IInv, TypeOK, Become
  <2> HIDE DEF x
  <2>3. KnowsJob(x, job, versions)
    BY <1>0, <1>2, <1>c, <2>1 DEF KnowsJob, JobOK, VersionIs
  <2>4. KnowsStage(x, probed)
    BY <1>2, <1>c, <2>1 DEF KnowsStage, JobOK
  <2>5. MayCommit(x, probed)
    BY <1>2, <1>4, <2>1 DEF MayCommit, JobOK, Needs, AfterCreate, AfterStaged,
                            AfterVerify
  <2> QED
    BY <2>1, <2>2, <2>3, <2>4, <2>5 DEF Control, LocalOK, Minting
<1>5. Read(k) = [Idle EXCEPT !.key = ex[e].key, !.row = row, !.at = row.stage]
  BY DEF Read
<1> HIDE DEF y, row, k
<1>6. Dispatch(e, row)
  BY DEF row, k
<1>7. CASE row.stage = "requested"
  <2>1. \/ row.token # None /\ Become(e, [y EXCEPT !.pc = "commit", !.to = "provider-created"])
        \/ row.token = None /\ Become(e, [y EXCEPT !.pc = "clean"])
        \/ row.token = None /\ Become(e, [y EXCEPT !.pc = "intent"])
    BY <1>5, <1>6, <1>7 DEF Dispatch, y
  <2> QED
    BY <1>3, <1>4, <2>1 DEF Label
<1>8. CASE row.stage = "alias-moved"
  <2>1. \/ Become(e, [y EXCEPT !.pc = "commit", !.to = "old-revoked"])
        \/ Become(e, [y EXCEPT !.pc = "authRevoke"])
    BY <1>5, <1>6, <1>8 DEF Dispatch, y
  <2> QED
    BY <1>3, <1>4, <1>8, <2>1 DEF Label
<1>9. CASE row.stage = "old-revoked"
  <2>1. Become(e, [y EXCEPT !.pc = "commit", !.to = "done"])
    BY <1>5, <1>6, <1>9 DEF Dispatch, y
  <2> QED
    BY <1>4, <1>9, <2>1
<1>10. CASE row.stage \notin {"requested", "alias-moved", "old-revoked"}
  <2>1. \/ row.stage = "provider-created" /\ Become(e, [y EXCEPT !.pc = "addVersion"])
        \/ row.stage = "staged" /\ Become(e, [y EXCEPT !.pc = "reload"])
        \/ row.stage = "consumers-reloaded" /\ Become(e, [y EXCEPT !.pc = "verify"])
        \/ row.stage = "verified" /\ Become(e, [y EXCEPT !.pc = "checkAlias"])
        \/ Become(e, [y EXCEPT !.pc = "guardRollback"])
    BY <1>5, <1>6, <1>10 DEF Dispatch, y
  <2> QED
    BY <1>3, <2>1 DEF Label
<1> QED
  BY <1>7, <1>8, <1>9, <1>10

(* drive(): read the row, then stop, give up or dispatch.                  *)
LEMMA DriveKeeps ==
  ASSUME IInv, NEW e \in Exec, Drive(e)
  PROVE  IInv'
<1>1. ex[e].key \in Key
  BY DEF Drive, At, IInv, LocalsOK, LocalOK, KnowsJob
<1>2. Control(e)
  BY <1>1, LeaveIsControl, DispatchIsControl DEF Drive
<1> QED
  BY <1>2, EffectsTyped, LocalStep DEF Drive, EffectTypes, store, cloud, history

(* What the locals of a running execution know, spelled out once.          *)
LEMMA Knows ==
  ASSUME IInv, NEW e \in Exec, ex[e].pc # "idle"
  PROVE  /\ ex[e] \in Execution /\ ex \in [Exec -> Execution]
         /\ KnowsJob(ex[e], job, versions) /\ KnowsStage(ex[e], probed)
         /\ MayCommit(ex[e], probed)
         /\ ex[e].key \in Key /\ job[ex[e].key] \in Row
BY DEF IInv, TypeOK, LocalsOK, LocalOK, KnowsJob

(* A move to locals x that the statements below spell out field by field.  *)
LEMMA BecomeIsControl ==
  ASSUME IInv, NEW e \in Exec, NEW x \in Execution, Become(e, x),
         UNCHANGED lease, LocalOK(x, job, versions, probed),
         lease = e /\ x.pc \in Minting => job[x.key].token = None
  PROVE  Control(e)
<1>1. MovesTo(e, x)
  BY PutMoves DEF IInv, TypeOK, Become
<1> QED
  BY <1>1 DEF Control

(* The provider's calls: tokens come and go, no row is written.            *)
LEMMA ProviderKeeps ==
  ASSUME IInv, NEW e \in Exec, Clean(e) \/ Mint(e) \/ Revoke(e) \/ Rollback(e)
  PROVE  IInv'
<1>0. /\ ex[e].pc \notin Early \cup {"idle"} /\ UNCHANGED <<store, history>>
      /\ EffectTypes
  BY EffectsTyped DEF Clean, Mint, Revoke, Rollback, At, Early
<1>1. CASE Clean(e)
  <2>3. Control(e)
    BY <1>0, <1>1, ThrowIsControl, GotoIsControl DEF Clean, At, Label
  <2>4. EffectTypes'
    BY <1>0, <1>1 DEF Clean, EffectTypes, store, history
  <2> QED
    BY <1>0, <2>3, <2>4, LocalStep DEF store, history
<1>2. CASE Mint(e)
  <2> DEFINE k == ex[e].key
             token == <<k, minted[k] + 1>>
             y == ex[e]
             x == [y EXCEPT !.pc = "persist", !.token = token]
  <2>1. k \in Key /\ minted[k] \in Nat
    BY <1>0, Knows DEF EffectTypes
  <2>2. token \in Token
    BY <2>1 DEF Token
  <2>3. EffectTypes'
    <3>1. minted' \in [Key -> Nat] /\ live' \subseteq Token
      <4>1. live' = live \cup {token} /\ minted' = [minted EXCEPT ![k] = minted[k] + 1]
        BY <1>2 DEF Mint
      <4>2. minted[k] + 1 \in Nat /\ minted \in [Key -> Nat] /\ live \subseteq Token
        BY <1>0, <2>1 DEF EffectTypes
      <4> HIDE DEF token, k
      <4> QED
        BY <2>2, <4>1, <4>2
    <3>2. used' \in [{"crash", "stall", "fault", "emit"} -> Nat]
      BY <1>0, <1>2, SpendTypes DEF Mint, IInv, TypeOK
    <3> QED
      BY <1>0, <3>1, <3>2 DEF EffectTypes, store, history
  <2>4. token # None
    <3>1. token \in Key \X Nat
      BY <2>1
    <3> HIDE DEF token
    <3> QED
      BY <3>1, EngineAssumption
  <2>5. ASSUME Become(e, x), UNCHANGED lease
        PROVE  Control(e)
    <3>1. y \in Execution /\ y.pc = "mint" /\ KnowsJob(y, job, versions)
          /\ KnowsStage(y, probed)
      BY <1>0, <1>2, Knows DEF Mint, At
    <3> HIDE DEF y, token
    <3>2. /\ x \in Execution /\ x.pc = "persist" /\ x.key = y.key
          /\ x.row = y.row /\ x.version = y.version /\ x.at = y.at
          /\ x.token = token
      BY <2>2, <3>1 DEF Execution, Label
    <3> HIDE DEF x
    <3>3. LocalOK(x, job, versions, probed)
      BY <2>4, <3>1, <3>2 DEF LocalOK, KnowsJob, KnowsStage, MayCommit, Early
    <3>4. lease = e => job[x.key].token = None
      BY <3>1, <3>2 DEF IInv, MintsOnce, Minting, y
    <3> QED
      BY <2>5, <3>2, <3>3, <3>4, BecomeIsControl
  <2>6. Control(e)
    BY <1>0, <1>2, <2>5, ThrowIsControl DEF Mint
  <2> QED
    BY <1>0, <2>3, <2>6, LocalStep DEF store, history
<1>3. CASE Revoke(e) \/ Rollback(e)
  <2>1. ASSUME NEW token, NEW next \in {"old-revoked", "rolled-back"},
               Delete(e, token, next),
               next = "old-revoked" => ex[e].at = "alias-moved"
        PROVE  /\ Control(e) /\ live' \subseteq Token
               /\ used' \in [{"crash", "stall", "fault", "emit"} -> Nat]
    <3>1. next \in Stage \ {"staged"} /\ Needs(next, ex[e].row, probed)
      BY <1>0, <2>1, Knows DEF Stage, Happy, Terminal, KnowsStage, Needs,
                               AfterCreate, AfterStaged, AfterVerify
    <3>2. Control(e)
      BY <1>0, <2>1, <3>1, ThrowIsControl, CommitIsControl DEF Delete, Context
    <3>3. live' \subseteq Token
      BY <1>0, <2>1 DEF Delete, EffectTypes
    <3>4. used' \in [{"crash", "stall", "fault", "emit"} -> Nat]
      BY <2>1, SpendTypes DEF Delete, IInv, TypeOK
    <3> QED
      BY <3>2, <3>3, <3>4
  <2>2. CASE Revoke(e)
    <3>1. ex[e].at = "alias-moved"
      BY <1>0, <2>2, Knows DEF Revoke, At, KnowsStage
    <3>2. /\ Control(e) /\ live' \subseteq Token
          /\ used' \in [{"crash", "stall", "fault", "emit"} -> Nat]
      BY <2>1, <2>2, <3>1 DEF Revoke
    <3>3. EffectTypes'
      BY <1>0, <2>2, <3>2 DEF Revoke, EffectTypes, store, history
    <3> QED
      BY <1>0, <3>2, <3>3, LocalStep DEF store, history
  <2>3. CASE Rollback(e)
    <3>1. CASE CommitTo(e, "rolled-back", "stage") /\ UNCHANGED <<live, lease, used>>
      <4>1. Control(e)
        BY <1>0, <3>1, CommitIsControl DEF Stage, Terminal, Context, Needs,
                                AfterCreate, AfterStaged, AfterVerify
      <4> QED
        BY <1>0, <2>3, <3>1, <4>1, LocalStep DEF Rollback, EffectTypes, store, history
    <3>2. CASE Delete(e, ex[e].row.token, "rolled-back")
      <4>1. /\ Control(e) /\ live' \subseteq Token
            /\ used' \in [{"crash", "stall", "fault", "emit"} -> Nat]
        BY <2>1, <3>2
      <4> QED
        BY <1>0, <2>3, <4>1, LocalStep DEF Rollback, EffectTypes, store, history
    <3> QED
      BY <2>3, <3>1, <3>2 DEF Rollback
  <2> QED
    BY <1>3, <2>2, <2>3
<1> QED
  BY <1>1, <1>2, <1>3

(* Reads, checks and authorizations: only the locals of e change.          *)
LEMMA LocalsKeep ==
  ASSUME IInv, NEW e \in Exec,
         \/ ReadAlias(e) \/ Reload(e) \/ CheckAlias(e) \/ AuthorizeRevoke(e)
         \/ GuardRollback(e) \/ AuthorizeRollback(e)
  PROVE  IInv'
<1>0. /\ ex[e].pc \notin Early \cup {"idle"} /\ UNCHANGED <<store, cloud, used, history>>
      /\ EffectTypes
  BY EffectsTyped DEF ReadAlias, Reload, CheckAlias, AuthorizeRevoke,
                      GuardRollback, AuthorizeRollback, At, Early
<1>a. {"staged", "consumers-reloaded", "alias-moved", "rolling-back"} \subseteq Stage
  BY DEF Stage, Happy
<1> DEFINE y == ex[e]
<1>b. Needs(y.at, y.row, probed)
  BY <1>0, Knows DEF KnowsStage
<1>1. CASE ReadAlias(e)
  <2> DEFINE x == [y EXCEPT !.pc = "commit", !.to = "staged", !.expected = alias]
  <2>1. Become(e, x) /\ UNCHANGED lease
    BY <1>1 DEF ReadAlias
  <2>2. /\ y \in Execution /\ y.pc = "readAlias" /\ KnowsJob(y, job, versions)
        /\ KnowsStage(y, probed) /\ alias \in Nat
    BY <1>0, <1>1, Knows DEF ReadAlias, At, IInv, TypeOK
  <2> HIDE DEF y
  <2>3. /\ x \in Execution /\ x.pc = "commit" /\ x.key = y.key
        /\ x.row = y.row /\ x.version = y.version /\ x.at = y.at
        /\ x.to = "staged"
    BY <1>a, <2>2, Labels DEF Execution
  <2> HIDE DEF x
  <2>4. LocalOK(x, job, versions, probed)
    BY <2>2, <2>3 DEF LocalOK, KnowsJob, KnowsStage, MayCommit, Needs,
                      Early, AfterCreate, AfterStaged, AfterVerify
  <2>5. Control(e)
    BY <2>1, <2>3, <2>4, BecomeIsControl DEF Minting
  <2> QED
    BY <1>0, <2>5, LocalStep DEF EffectTypes, store, cloud, history
<1>2. CASE Reload(e)
  <2>1. y.at = "staged" /\ y.pc = "reload" /\ UNCHANGED lease
    BY <1>0, <1>2, Knows DEF Reload, At, KnowsStage
  <2>2. Needs("consumers-reloaded", y.row, probed)
    BY <1>b, <2>1 DEF Needs, AfterCreate, AfterStaged, AfterVerify
  <2>3. Control(e)
    BY <1>0, <1>2, <1>a, <2>1, <2>2, CommitIsControl, GotoIsControl
       DEF Reload, Context, Label
  <2> QED
    BY <1>0, <2>3, LocalStep DEF EffectTypes, store, cloud, history
<1>3. CASE CheckAlias(e)
  <2>1. y.at = "verified" /\ y.pc = "checkAlias"
    BY <1>0, <1>3, Knows DEF CheckAlias, At, KnowsStage
  <2>2. Needs("alias-moved", y.row, probed)
    BY <1>b, <2>1 DEF Needs, AfterCreate, AfterStaged, AfterVerify
  <2>3. Control(e)
    BY <1>0, <1>3, <1>a, <2>1, <2>2, CommitIsControl, GotoIsControl, ThrowIsControl
       DEF CheckAlias, Context, Label
  <2> QED
    BY <1>0, <2>3, LocalStep DEF EffectTypes, store, cloud, history
<1>4. CASE AuthorizeRevoke(e)
  <2>1. Control(e)
    BY <1>0, <1>4, GotoIsControl, MarkIsControl
       DEF AuthorizeRevoke, At, Context, Label
  <2> QED
    BY <1>0, <2>1, LocalStep DEF EffectTypes, store, cloud, history
<1>5. CASE GuardRollback(e)
  <2>1. Needs("rolling-back", y.row, probed)
    BY DEF Needs, AfterCreate, AfterStaged, AfterVerify
  <2>2. Control(e)
    BY <1>0, <1>5, <1>a, <2>1, GotoIsControl, MarkIsControl, CommitIsControl
       DEF GuardRollback, At, Context, Label, Anywhere, Minting
  <2> QED
    BY <1>0, <2>2, LocalStep DEF EffectTypes, store, cloud, history
<1>6. CASE AuthorizeRollback(e)
  <2>1. Control(e)
    BY <1>0, <1>6, GotoIsControl, MarkIsControl
       DEF AuthorizeRollback, Context, Label, Anywhere, Minting
  <2> QED
    BY <1>0, <2>1, LocalStep DEF EffectTypes, store, cloud, history
<1> QED
  BY <1>1, <1>2, <1>3, <1>4, <1>5, <1>6

(* Error handling, reconcile records and the appends after a commit.       *)
LEMMA HandlersKeep ==
  ASSUME IInv, NEW e \in Exec,
         \/ RollbackError(e) \/ Mark(e) \/ Emit(e)
         \/ StageError(e) \/ AfterStageError(e)
  PROVE  IInv'
<1> DEFINE y == ex[e]
<1>0. /\ y.pc \notin Early \cup {"idle"} /\ UNCHANGED <<job, newer, versions, alias, cloud, history>>
      /\ EffectTypes
  BY EffectsTyped DEF RollbackError, Mark, Emit, StageError, AfterStageError,
                      At, Early, store
<1>a. y \in Execution /\ LocalOK(y, job, versions, probed) /\ y.key \in Key
  BY <1>0, Knows DEF LocalOK
<1>b. "reconcile-required" \in Stage /\ "failed" \in Stage
  BY DEF Stage, Terminal
<1>1. CASE RollbackError(e)
  <2>1. Control(e)
    BY <1>0, <1>1, GotoIsControl, MarkIsControl, LeaveIsControl
       DEF RollbackError, Context, Label, Anywhere, Minting
  <2>2. errors' \in [Key -> [Stage -> Nat]]
    <3> DEFINE k == y.key
               n == errors[k]["rolling-back"] + 1
    <3>1. errors' = [errors EXCEPT ![k] = [errors[k] EXCEPT !["rolling-back"] = n]]
          \/ errors' = errors
      BY <1>1 DEF RollbackError
    <3>2. errors \in [Key -> [Stage -> Nat]] /\ "rolling-back" \in Stage
      BY <1>0 DEF EffectTypes, Stage
    <3>3. k \in Key /\ n \in Nat
      BY <1>a, <3>2
    <3> HIDE DEF k, n
    <3> QED
      BY <3>1, <3>2, <3>3
  <2> QED
    BY <1>0, <1>1, <2>1, <2>2, LocalStep DEF RollbackError, EffectTypes, cloud, history
<1>2. CASE Mark(e)
  <2> DEFINE x == [y EXCEPT !.pc = "commit", !.to = "reconcile-required"]
  <2>1. Become(e, x) /\ UNCHANGED lease
    BY <1>2 DEF Mark
  <2> HIDE DEF y
  <2>2. /\ x \in Execution /\ x.pc = "commit" /\ x.key = y.key
        /\ x.row = y.row /\ x.version = y.version /\ x.at = y.at
        /\ x.to = "reconcile-required"
    BY <1>a, <1>b, Labels DEF Execution
  <2> HIDE DEF x
  <2>3. LocalOK(x, job, versions, probed)
    BY <1>0, <1>a, <2>2 DEF LocalOK, KnowsJob, KnowsStage, MayCommit,
                      AfterCreate, AfterStaged, AfterVerify
  <2>4. Control(e)
    BY <2>1, <2>2, <2>3, BecomeIsControl DEF Minting
  <2>5. ReconcileOp(e) \in {"revoke", "rollback"} \cup Stage
    <3>1. ex[e].at \in Stage \cup {"absent"}
      BY <1>a DEF y, Execution
    <3>2. ex[e].at # "absent"
      BY <1>0, <1>a DEF y, LocalOK, KnowsStage
    <3> QED
      BY <3>1, <3>2 DEF ReconcileOp
  <2>6. reconciles' \subseteq Key \X ({"revoke", "rollback"} \cup Stage)
    <3> DEFINE op == ReconcileOp(e)
    <3>1. reconciles' = reconciles \cup {<<y.key, op>>}
      BY <1>2 DEF Mark, y
    <3> HIDE DEF op
    <3> QED
      BY <1>0, <1>a, <2>5, <3>1 DEF EffectTypes, op
  <2> QED
    BY <1>0, <1>2, <2>4, <2>6, LocalStep DEF Mark, EffectTypes, cloud, history
<1>3. CASE Emit(e)
  <2>1. used' \in [{"crash", "stall", "fault", "emit"} -> Nat]
    BY <1>0, <1>3, SpendTypes DEF Emit, IInv, TypeOK
  <2>2. ASSUME Become(e, [y EXCEPT !.pc = "authRollback", !.row = job[y.key]]),
               UNCHANGED lease
        PROVE  Control(e)
    <3> DEFINE row == job[y.key]
               x == [y EXCEPT !.pc = "authRollback", !.row = row]
    <3>1. row \in Row /\ JobOK(y.key, row, versions, probed)
      BY <1>a DEF IInv, TypeOK, JobsOK
    <3>2. /\ x \in Execution /\ x.pc = "authRollback" /\ x.key = y.key
          /\ x.row = row /\ x.version = y.version /\ x.at = y.at
      BY <1>a, <3>1, Labels DEF Execution
    <3>3. KnowsJob(x, job, versions)
      BY <1>0, <1>a, <3>1, <3>2 DEF LocalOK, KnowsJob, JobOK
    <3>4. Needs(y.at, row, probed)
      <4>1. None \notin probed
        BY EngineAssumption DEF IInv, TypeOK, Token
      <4> QED
        BY <1>0, <1>a, <4>1 DEF LocalOK, KnowsJob, KnowsStage, Needs
    <3> HIDE DEF x, row
    <3>5. KnowsStage(x, probed) /\ MayCommit(x, probed)
      BY <1>0, <1>a, <3>1, <3>2, <3>4
         DEF LocalOK, KnowsStage, MayCommit, JobOK
    <3> QED
      BY <2>2, <3>2, <3>3, <3>5, BecomeIsControl DEF LocalOK, Minting, row, x
  <2>3. Control(e)
    BY <1>0, <1>3, <2>2, GotoIsControl, ThrowIsControl, FencedOutIsControl
       DEF Emit, Label
  <2> QED
    BY <1>0, <1>3, <2>1, <2>3, LocalStep DEF Emit, EffectTypes, store, cloud, history
<1>4. CASE StageError(e)
  <2> DEFINE x == [y EXCEPT !.pc = "emitError", !.ctx = "handler"]
  <2>1. /\ x \in Execution /\ LocalOK(x, job, versions, probed)
        /\ x.pc = "emitError"
    <3>1. /\ x \in Execution /\ x.pc = "emitError" /\ x.key = y.key
          /\ x.row = y.row /\ x.version = y.version /\ x.at = y.at
      BY <1>a, Labels DEF Execution
    <3> HIDE DEF x, y
    <3>2. LocalOK(x, job, versions, probed)
      BY <1>0, <1>a, <3>1 DEF LocalOK, KnowsJob, KnowsStage, MayCommit
    <3> QED
      BY <3>1, <3>2
  <2>2. Control(e)
    BY <1>4, <2>1, LeaveIsControl, BecomeIsControl DEF StageError, Minting
  <2>3. errors' \in [Key -> [Stage -> Nat]]
    <3> DEFINE k == y.key
               s == y.at
    <3>1. errors' = [errors EXCEPT ![k] = [errors[k] EXCEPT ![s] = errors[k][s] + 1]]
          \/ errors' = errors
      BY <1>4 DEF StageError
    <3>2. errors \in [Key -> [Stage -> Nat]] /\ k \in Key
      BY <1>0, <1>a DEF EffectTypes
    <3>3. s \in Stage
      BY <1>0, <1>a DEF Execution, LocalOK, KnowsStage
    <3> HIDE DEF k, s
    <3> QED
      BY <3>1, <3>2, <3>3
  <2> QED
    BY <1>0, <1>4, <2>2, <2>3, LocalStep DEF StageError, EffectTypes, cloud, history
<1>5. CASE AfterStageError(e)
  <2>1. used' \in [{"crash", "stall", "fault", "emit"} -> Nat]
    BY <1>0, <1>5, SpendTypes DEF AfterStageError, IInv, TypeOK
  <2>2. Needs("failed", y.row, probed)
    BY DEF Needs, AfterCreate, AfterStaged, AfterVerify
  <2>3. Control(e)
    BY <1>0, <1>5, <1>b, <2>2, GotoIsControl, LeaveIsControl, MarkIsControl,
       CommitIsControl DEF AfterStageError, Label, Context
  <2> QED
    BY <1>0, <1>5, <2>1, <2>3, LocalStep
       DEF AfterStageError, EffectTypes, store, cloud, history
<1> QED
  BY <1>1, <1>2, <1>3, <1>4, <1>5

(* What the environment does: failing effects, deaths and outlived leases. *)
LEMMA EnvironmentKeeps ==
  ASSUME IInv, NEW e \in Exec,
         EffectFails(e) \/ Crash(e) \/ Stall(e)
  PROVE  IInv'
<1>0. EffectTypes /\ UNCHANGED <<store, cloud, history>>
  BY EffectsTyped DEF EffectFails, Crash, Stall
<1>1. used' \in [{"crash", "stall", "fault", "emit"} -> Nat]
  BY SpendTypes DEF EffectFails, Crash, Stall, IInv, TypeOK
<1>2. EffectTypes'
  BY <1>0, <1>1 DEF EffectTypes, store, cloud, history
<1>3. CASE EffectFails(e)
  <2>1. Control(e)
    BY <1>3, ThrowIsControl DEF EffectFails, Early
  <2> QED
    BY <1>0, <1>2, <2>1, LocalStep DEF store, history
<1>4. CASE Crash(e)
  <2>1. MovesTo(e, Idle)
    BY <1>4, IdleIsExecution, PutMoves DEF Crash, Become, IInv, TypeOK
  <2>2. LocalOK(Idle, job, versions, probed) /\ Idle.pc \notin Minting
    BY DEF LocalOK, Idle, Minting
  <2>3. Control(e)
    BY <1>4, <2>1, <2>2, IdleIsExecution DEF Control, Crash
  <2> QED
    BY <1>0, <1>2, <2>3, LocalStep DEF store, history
<1>5. CASE Stall(e)
  <2>1. ex[e] \in Execution /\ MovesTo(e, ex[e]) /\ lease' = None
    BY <1>5 DEF Stall, MovesTo, IInv, TypeOK
  <2>2. LocalOK(ex[e], job, versions, probed)
    BY DEF IInv, LocalsOK
  <2>3. Control(e)
    BY <2>1, <2>2, EngineAssumption DEF Control
  <2> QED
    BY <1>0, <1>2, <2>3, LocalStep DEF store, history
<1> QED
  BY <1>3, <1>4, <1>5

(* A dead owner's lease running out changes nothing an execution knows.    *)
LEMMA GhostKeeps == IInv /\ GhostExpires => IInv'
<1> SUFFICES ASSUME IInv, GhostExpires PROVE IInv'
  OBVIOUS
<1>1. UNCHANGED <<store, cloud, ex, used, history>> /\ lease' = None
  BY DEF GhostExpires
<1>2. TypeOK'
  BY <1>1 DEF IInv, TypeOK, store, cloud, history
<1>3. LocalsOK' /\ JobsOK' /\ VersionsOK' /\ ServedWasProbed'
  BY <1>1 DEF IInv, LocalsOK, JobsOK, VersionsOK, ServedWasProbed, Served,
              store, cloud, history
<1>4. MintsOnce'
  BY <1>1, EngineAssumption DEF MintsOnce
<1> QED
  BY <1>2, <1>3, <1>4 DEF IInv

-----------------------------------------------------------------------------
(* The actions that write a row, append a version, probe a credential or   *)
(* move the alias.                                                         *)

(* A write of the row of job k that keeps a recorded credential and does   *)
(* not unstage the job. Only the holder of the lease records a credential. *)
LEMMA RowStep ==
  ASSUME IInv, NEW e \in Exec, NEW k \in Key, NEW row \in Row,
         UpdateJob(k, row),
         UNCHANGED <<errors, versions, alias, reconciles, cloud, used, history>>,
         job[k].token # None => row.token = job[k].token,
         job[k].version # 0 => row.version # 0, row.stage # "absent",
         row.token # job[k].token => lease = e,
         JobOK(k, row, versions, probed),
         NEW x \in Execution, MovesTo(e, x), lease' \in {lease, None},
         LocalOK(x, job', versions, probed),
         lease' = e /\ x.pc \in Minting => job'[x.key].token = None
  PROVE  IInv'
<1>1. /\ job \in [Key -> Row] /\ job' = [job EXCEPT ![k] = row]
      /\ job' \in [Key -> Row]
      /\ job'[k] = row /\ \A j \in Key \ {k} : job'[j] = job[j]
  BY DEF UpdateJob, IInv, TypeOK
<1>2. newer' \subseteq Key \X Key
  BY DEF UpdateJob, Touch, IInv, TypeOK
<1>3. TypeOK'
  BY <1>1, <1>2 DEF IInv, TypeOK, MovesTo, cloud, history
<1>4. \A j \in Key : /\ job[j].token # None => job'[j].token = job[j].token
                     /\ job[j].version # 0 => job'[j].version # 0
                     /\ job[j].stage # "absent" => job'[j].stage # "absent"
  BY <1>1
<1>5. LocalsOK'
  <2> SUFFICES ASSUME NEW f \in Exec
               PROVE  LocalOK(ex'[f], job', versions, probed)
    BY DEF LocalsOK, history
  <2>1. CASE f = e
    BY <2>1 DEF MovesTo
  <2>2. CASE f # e
    <3>1. LocalOK(ex[f], job, versions, probed)
      BY DEF IInv, LocalsOK
    <3>2. LocalOK(ex[f], job', versions, probed)
      BY <1>4, <3>1, KnowledgeIsStable
    <3> QED
      BY <2>2, <3>2 DEF MovesTo
  <2> QED
    BY <2>1, <2>2
<1>6. JobsOK'
  BY <1>1 DEF IInv, JobsOK, history
<1>7. VersionsOK'
  <2> SUFFICES ASSUME NEW n \in 1 .. Len(versions)
               PROVE  job'[versions[n].key].token = versions[n].token
    BY DEF VersionsOK
  <2>1. versions[n].key \in Key /\ versions[n].token \in Token
    <3>1. versions \in Seq([key : Key, token : Token])
      BY DEF IInv, TypeOK
    <3>2. versions[n] \in [key : Key, token : Token]
      BY <3>1, ElementOfSeq
    <3> QED
      BY <3>2
  <2>2. versions[n].token # None
    BY <2>1, EngineAssumption DEF Token
  <2>3. job[versions[n].key].token = versions[n].token
    BY DEF IInv, VersionsOK
  <2> QED
    BY <1>4, <2>1, <2>2, <2>3
<1>8. MintsOnce'
  <2> SUFFICES ASSUME NEW f \in Exec, lease' = f, ex'[f].pc \in Minting
               PROVE  job'[ex'[f].key].token = None
    BY DEF MintsOnce
  <2>1. CASE f = e
    BY <2>1 DEF MovesTo
  <2>2. CASE f # e
    <3>1. lease = f /\ ex'[f] = ex[f]
      BY <2>2, EngineAssumption DEF MovesTo
    <3>2. job[ex[f].key].token = None
      BY <3>1 DEF IInv, MintsOnce
    <3>3. ex[f].key \in Key
      BY <3>1 DEF IInv, LocalsOK, LocalOK, KnowsJob, Minting
    <3> QED
      BY <1>1, <2>2, <3>1, <3>2, <3>3
  <2> QED
    BY <2>1, <2>2
<1>9. ServedWasProbed'
  BY DEF IInv, ServedWasProbed, Served, history
<1> QED
  BY <1>3, <1>5, <1>6, <1>7, <1>8, <1>9 DEF IInv

(* Inserting the row of a new job: it has recorded nothing.                *)
LEMMA InsertKeeps ==
  ASSUME IInv, NEW e \in Exec, Insert(e)
  PROVE  IInv'
<1> DEFINE y == ex[e]
           k == y.key
           row == [y.row EXCEPT !.stage = "requested"]
<1>0. /\ y \in Execution /\ y.pc = "insert" /\ KnowsJob(y, job, versions)
      /\ KnowsStage(y, probed) /\ k \in Key /\ y.row \in Row
      /\ LocalOK(y, job, versions, probed)
  BY Knows DEF Insert, At, Execution, IInv, LocalsOK
<1>1. CASE job[k].stage = "absent"
  <2>1. UpdateJob(k, row)
    BY <1>1 DEF Insert
  <2>2. job[k].token = None /\ job[k].version = 0 /\ job[k] \in Row
    BY <1>0, <1>1 DEF IInv, JobsOK, JobOK, TypeOK
  <2>3. /\ row \in Row /\ row.stage = "requested" /\ row.token = None
        /\ row.version = 0
    <3> DEFINE r == y.row
    <3>1. r \in Row /\ r.token = None /\ r.version = 0
      BY <1>0 DEF KnowsJob
    <3> HIDE DEF r
    <3>2. [r EXCEPT !.stage = "requested"] \in Row
      BY <3>1 DEF Row, Stage, Happy
    <3>3. /\ [r EXCEPT !.stage = "requested"].stage = "requested"
          /\ [r EXCEPT !.stage = "requested"].token = None
          /\ [r EXCEPT !.stage = "requested"].version = 0
      BY <3>1 DEF Row
    <3> QED
      BY <3>2, <3>3 DEF r
  <2> HIDE DEF row
  <2>4. JobOK(k, row, versions, probed)
    BY <2>3 DEF JobOK, VersionIs, Needs, AfterCreate, AfterStaged, AfterVerify
  <2>5. job' = [job EXCEPT ![k] = row] /\ job \in [Key -> Row]
    BY <2>1 DEF UpdateJob, IInv, TypeOK
  <2>6. \A j \in Key : /\ job[j].token # None => job'[j].token = job[j].token
                       /\ job[j].version # 0 => job'[j].version # 0
                       /\ job[j].stage # "absent" => job'[j].stage # "absent"
    BY <1>0, <2>2, <2>3, <2>5
  <2>7. PICK x \in Execution : /\ MovesTo(e, x) /\ lease' \in {lease, None}
                               /\ LocalOK(x, job, versions, probed)
                               /\ x.pc \notin Minting
    <3>1. CASE Goto(e, "loop") /\ UNCHANGED lease
      <4> DEFINE z == [y EXCEPT !.pc = "loop"]
      <4>1. z \in Execution /\ LocalOK(z, job, versions, probed)
        BY <1>0, GotoKnows DEF Label
      <4>2. MovesTo(e, z)
        BY <3>1, <4>1, PutMoves DEF IInv, TypeOK, Goto, Become
      <4>3. z.pc \notin Minting
        BY <1>0 DEF Execution, Minting
      <4> QED
        BY <3>1, <4>1, <4>2, <4>3
    <3>2. CASE Leave(e)
      <4>1. MovesTo(e, Idle) /\ lease' \in {lease, None}
        BY <3>2, IdleIsExecution, PutMoves DEF IInv, TypeOK, Leave, Become
      <4>2. LocalOK(Idle, job, versions, probed) /\ Idle.pc \notin Minting
        BY DEF LocalOK, Idle, Minting
      <4> QED
        BY <4>1, <4>2, IdleIsExecution
    <3> QED
      BY <1>1, <3>1, <3>2 DEF Insert
  <2>8. LocalOK(x, job', versions, probed)
    BY <2>6, <2>7, KnowledgeIsStable
  <2> HIDE DEF k, y
  <2>9. UNCHANGED <<errors, versions, alias, reconciles, cloud, used, history>>
    BY DEF Insert
  <2> QED
    BY <1>0, <2>1, <2>2, <2>3, <2>4, <2>7, <2>8, <2>9, RowStep
<1>2. CASE job[k].stage # "absent"
  <2>1. Control(e)
    BY <1>2, LeaveIsControl DEF Insert
  <2> QED
    BY <1>2, <2>1, EffectsTyped, LocalStep DEF Insert, EffectTypes, cloud, history
<1> QED
  BY <1>1, <1>2

(* A row that differs from the one read in columns that nobody relies on.  *)
LEMMA IntentKeeps ==
  ASSUME IInv, NEW e \in Exec, Intent(e)
  PROVE  IInv'
<1> DEFINE y == ex[e]
           k == y.key
           r == job[k]
           row == [r EXCEPT !.intent = TRUE]
           x == [y EXCEPT !.pc = "clean"]
<1>0. /\ y \in Execution /\ y.pc = "intent" /\ k \in Key /\ r \in Row
      /\ LocalOK(y, job, versions, probed) /\ JobOK(k, r, versions, probed)
      /\ r.stage # "absent"
  BY Knows DEF Intent, At, IInv, LocalsOK, JobsOK, KnowsJob, Early
<1>1. UNCHANGED <<errors, versions, alias, reconciles, cloud, used, history>>
  BY DEF Intent
<1>2. CASE Holds(e)
  <2>1. UpdateJob(k, row) /\ Goto(e, "clean") /\ UNCHANGED lease
    BY <1>2 DEF Intent
  <2>2. r.token = None
    BY <1>0, <1>2 DEF IInv, MintsOnce, Minting, Holds
  <2>3. x \in Execution /\ LocalOK(x, job, versions, probed)
    <3>1. "clean" \in Label /\ "clean" \in Anywhere
      BY DEF Label, Anywhere
    <3>2. y.pc \notin Early /\ y.pc # "idle"
      BY <1>0 DEF Early
    <3> QED
      BY <1>0, <3>1, <3>2, GotoKnows
  <2>a. x.key = k
    BY <1>0 DEF Execution
  <2>4. MovesTo(e, x)
    BY <2>1, <2>3, PutMoves DEF IInv, TypeOK, Goto, Become
  <2>5. job' = [job EXCEPT ![k] = row] /\ job \in [Key -> Row]
    BY <2>1 DEF UpdateJob, IInv, TypeOK
  <2> HIDE DEF r, x, y, k
  <2>6. /\ row \in Row /\ row.stage = r.stage /\ row.token = r.token
        /\ row.version = r.version
    BY <1>0 DEF Row
  <2> HIDE DEF row
  <2>7. JobOK(k, row, versions, probed)
    BY <1>0, <2>6 DEF JobOK, Needs
  <2>8. job'[k] = row /\ \A j \in Key \ {k} : job'[j] = job[j]
    BY <1>0, <2>5
  <2>9. LocalOK(x, job', versions, probed)
    BY <2>3, <2>6, <2>8, KnowledgeIsStable DEF r
  <2> QED
    BY <1>0, <1>1, <2>1, <2>2, <2>3, <2>a, <2>4, <2>6, <2>7, <2>8, <2>9, RowStep DEF r
<1>3. CASE ~Holds(e)
  <2>1. Control(e)
    BY <1>0, <1>3, FencedOutIsControl DEF Intent, Early
  <2> QED
    BY <1>3, <2>1, EffectsTyped, LocalStep DEF Intent, EffectTypes, cloud, history
<1> QED
  BY <1>2, <1>3

(* Recording the credential: the step that MintsOnce is there for.         *)
LEMMA PersistKeeps ==
  ASSUME IInv, NEW e \in Exec, Persist(e)
  PROVE  IInv'
<1> DEFINE y == ex[e]
           k == y.key
           r == job[k]
           t == y.token
           row == [r EXCEPT !.token = t]
           x == [y EXCEPT !.pc = "commit", !.to = "provider-created",
                          !.row = row, !.token = None]
<1>0. /\ y \in Execution /\ y.pc = "persist" /\ k \in Key /\ r \in Row
      /\ LocalOK(y, job, versions, probed) /\ JobOK(k, r, versions, probed)
      /\ r.stage # "absent" /\ t \in Token /\ t # None
  <2>1. y \in Execution /\ y.pc = "persist" /\ k \in Key /\ r \in Row
    BY Knows DEF Persist, At
  <2>2. LocalOK(y, job, versions, probed) /\ JobOK(k, r, versions, probed)
    BY <2>1 DEF IInv, LocalsOK, JobsOK
  <2>3. r.stage # "absent" /\ t # None
    BY <2>1, <2>2 DEF LocalOK, KnowsJob, KnowsStage, Early
  <2> QED
    BY <2>1, <2>2, <2>3 DEF Execution
<1>s. "provider-created" \in Stage
  BY DEF Stage, Happy
<1>1. UNCHANGED <<errors, versions, alias, reconciles, cloud, used, history>>
  BY DEF Persist
<1>2. CASE Holds(e)
  <2>1. UpdateJob(k, row) /\ Become(e, x) /\ UNCHANGED lease
    BY <1>2 DEF Persist
  <2>2. r.token = None
    BY <1>0, <1>2 DEF IInv, MintsOnce, Minting, Holds
  <2>3. None \notin probed
    BY EngineAssumption DEF IInv, TypeOK, Token
  <2>4. job' = [job EXCEPT ![k] = row] /\ job \in [Key -> Row]
    BY <2>1 DEF UpdateJob, IInv, TypeOK
  <2>5. r.token # None => r.token = y.row.token
    BY <2>2
  <2>6. KnowsJob(y, job, versions) /\ KnowsStage(y, probed)
    BY <1>0 DEF LocalOK
  <2>a. y.row.token = None /\ (y.row.version # 0 => r.version # 0)
    BY <2>2, <2>6 DEF KnowsJob
  <2> HIDE DEF r, y, k, t
  <2>7. /\ row \in Row /\ row.stage = r.stage /\ row.token = t
        /\ row.version = r.version
    BY <1>0 DEF Row
  <2> HIDE DEF row
  <2>8. JobOK(k, row, versions, probed)
    BY <1>0, <2>2, <2>3, <2>7 DEF JobOK, Needs
  <2>9. job'[k] = row /\ \A j \in Key \ {k} : job'[j] = job[j]
    BY <1>0, <2>4
  <2>10. /\ x \in Execution /\ x.pc = "commit" /\ x.key = y.key
         /\ x.row = row /\ x.version = y.version /\ x.at = y.at
         /\ x.to = "provider-created"
    BY <1>0, <1>s, <2>7, Labels DEF Execution
  <2> HIDE DEF x
  <2>11. KnowsJob(x, job', versions)
    BY <1>0, <2>6, <2>7, <2>8, <2>9, <2>10 DEF KnowsJob, JobOK, k
  <2>12. KnowsStage(x, probed) /\ MayCommit(x, probed)
    BY <1>0, <2>3, <2>6, <2>a, <2>7, <2>8, <2>10
       DEF KnowsStage, MayCommit, JobOK, Needs, Early, AfterCreate, AfterStaged,
           AfterVerify
  <2>13. LocalOK(x, job', versions, probed) /\ x.pc \notin Minting
    BY <2>10, <2>11, <2>12 DEF LocalOK, Minting
  <2>14. MovesTo(e, x)
    BY <2>1, <2>10, PutMoves DEF IInv, TypeOK, Become
  <2> QED
    BY <1>0, <1>1, <1>2, <2>1, <2>2, <2>7, <2>8, <2>10, <2>13, <2>14, RowStep
       DEF r, Holds
<1>3. CASE ~Holds(e)
  <2>1. Control(e)
    BY <1>0, <1>3, FencedOutIsControl DEF Persist, Early
  <2> QED
    BY <1>3, <2>1, EffectsTyped, LocalStep DEF Persist, EffectTypes, cloud, history
<1> QED
  BY <1>2, <1>3

(* Recording a reloaded consumer, in the row and in the copy.              *)
LEMMA ReloadedKeeps ==
  ASSUME IInv, NEW e \in Exec, Reloaded(e)
  PROVE  IInv'
<1> DEFINE y == ex[e]
           k == y.key
           r == job[k]
<1>0. /\ y \in Execution /\ y.pc = "reloaded" /\ k \in Key /\ r \in Row
      /\ LocalOK(y, job, versions, probed) /\ JobOK(k, r, versions, probed)
      /\ r.stage # "absent"
  BY Knows DEF Reloaded, At, IInv, LocalsOK, JobsOK, KnowsJob, Early
<1>1. UNCHANGED <<errors, versions, alias, reconciles, cloud, used, history>>
  BY DEF Reloaded
<1>2. CASE Holds(e)
  <2>1. PICK c \in Consumer \ y.row.reloaded :
          LET done == y.row.reloaded \cup {c} IN
          /\ UpdateJob(k, [r EXCEPT !.reloaded = done])
          /\ Become(e, [y EXCEPT !.pc = "reload", !.row.reloaded = done])
          /\ UNCHANGED lease
    BY <1>2 DEF Reloaded
  <2> DEFINE l == y.row
             done == l.reloaded \cup {c}
             row == [r EXCEPT !.reloaded = done]
             local == [l EXCEPT !.reloaded = done]
             x == [y EXCEPT !.pc = "reload", !.row = local]
  <2>2. UpdateJob(k, row) /\ Become(e, x) /\ UNCHANGED lease
    BY <2>1
  <2>3. job' = [job EXCEPT ![k] = row] /\ job \in [Key -> Row]
    BY <2>2 DEF UpdateJob, IInv, TypeOK
  <2>4. l \in Row /\ done \subseteq Consumer
    BY <1>0 DEF Execution, Row
  <2> HIDE DEF r, l, done
  <2>5. /\ row \in Row /\ row.stage = r.stage /\ row.token = r.token
        /\ row.version = r.version
    BY <1>0, <2>4 DEF Row
  <2>6. /\ local \in Row /\ local.stage = l.stage /\ local.token = l.token
        /\ local.version = l.version
    BY <2>4 DEF Row
  <2> HIDE DEF row, local, y, k
  <2>7. JobOK(k, row, versions, probed)
    BY <1>0, <2>5 DEF JobOK, Needs
  <2>8. job'[k] = row /\ \A j \in Key \ {k} : job'[j] = job[j]
    BY <1>0, <2>3
  <2>9. /\ x \in Execution /\ x.pc = "reload" /\ x.key = y.key
        /\ x.row = local /\ x.version = y.version /\ x.at = y.at
    BY <1>0, <2>6 DEF Execution, Label
  <2> HIDE DEF x
  <2>10. LocalOK(x, job, versions, probed)
    BY <1>0, <2>6, <2>9 DEF LocalOK, KnowsJob, KnowsStage, MayCommit, Needs,
                            Early, l
  <2>11. LocalOK(x, job', versions, probed)
    BY <1>0, <2>5, <2>8, <2>10, KnowledgeIsStable DEF r
  <2>12. MovesTo(e, x) /\ x.pc \notin Minting
    BY <2>2, <2>9, PutMoves DEF IInv, TypeOK, Become, Minting
  <2> QED
    BY <1>0, <1>1, <2>2, <2>5, <2>7, <2>9, <2>11, <2>12, RowStep DEF r
<1>3. CASE ~Holds(e)
  <2>1. Control(e)
    BY <1>0, <1>3, FencedOutIsControl DEF Reloaded, Early
  <2> QED
    BY <1>3, <2>1, EffectsTyped, LocalStep DEF Reloaded, EffectTypes, cloud, history
<1> QED
  BY <1>2, <1>3

(* The fenced write of a stage: the row may hold more than the copy, never *)
(* less.                                                                   *)
LEMMA CommitKeeps ==
  ASSUME IInv, NEW e \in Exec, Commit(e)
  PROVE  IInv'
<1> DEFINE y == ex[e]
           k == y.key
           r == job[k]
           row == Patched(e)
           x == [y EXCEPT !.pc = "emit"]
<1>0. /\ y \in Execution /\ y.pc = "commit" /\ k \in Key /\ r \in Row
      /\ KnowsJob(y, job, versions) /\ MayCommit(y, probed)
      /\ LocalOK(y, job, versions, probed) /\ JobOK(k, r, versions, probed)
  BY Knows DEF Commit, At, IInv, LocalsOK, JobsOK
<1>1. UNCHANGED <<errors, versions, alias, reconciles, cloud, used, history>>
  BY DEF Commit
<1>2. CASE UpdateJob(k, row) /\ Goto(e, "emit") /\ UNCHANGED lease
  <2>1. x \in Execution /\ LocalOK(x, job, versions, probed)
    <3>1. "emit" \in Label /\ "emit" \in Anywhere
      BY DEF Label, Anywhere
    <3>2. y.pc \notin Early /\ y.pc # "idle"
      BY <1>0 DEF Early
    <3> QED
      BY <1>0, <3>1, <3>2, GotoKnows
  <2>2. MovesTo(e, x) /\ x.pc \notin Minting
    BY <1>0, <1>2, <2>1, PutMoves
       DEF IInv, TypeOK, Goto, Become, Execution, Minting
  <2>3. job' = [job EXCEPT ![k] = row] /\ job \in [Key -> Row]
    BY <1>2 DEF UpdateJob, IInv, TypeOK
  <2>4. y.to \in Stage /\ y.version \in Nat /\ y.expected \in Nat
    BY <1>0 DEF Execution, MayCommit
  <2> DEFINE to == y.to
             version == y.version
             expected == y.expected
             staged == [r EXCEPT !.stage = to, !.version = version,
                                 !.expected = expected]
             plain == [r EXCEPT !.stage = to]
  <2>5. row = IF to = "staged" THEN staged ELSE plain
    <3>1. [[r EXCEPT !.stage = to] EXCEPT !.version = version, !.expected = expected]
            = staged
      OBVIOUS
    <3> QED
      BY <3>1 DEF Patched
  <2> HIDE DEF r, to, version, expected, row
  <2>6. /\ staged \in Row /\ staged.stage = to /\ staged.token = r.token
        /\ staged.version = version
    BY <1>0, <2>4 DEF Row, to, version, expected
  <2>7. /\ plain \in Row /\ plain.stage = to /\ plain.token = r.token
        /\ plain.version = r.version
    BY <1>0, <2>4 DEF Row, to
  <2> HIDE DEF staged, plain
  <2>8. /\ row \in Row /\ row.stage = to /\ row.token = r.token
        /\ row.version = IF to = "staged" THEN version ELSE r.version
    BY <2>5, <2>6, <2>7
  <2>9. to = "staged" => version # 0
    BY <1>0 DEF MayCommit, to, version
  <2>10. to # "absent"
    BY <1>0 DEF MayCommit, to
  <2>11. JobOK(k, row, versions, probed)
    <3>1. VersionIs(k, row.version, versions)
      BY <1>0, <2>8 DEF KnowsJob, JobOK, version
    <3>2. to \in AfterCreate => r.token # None
      BY <1>0 DEF KnowsJob, MayCommit, to, r
    <3>3. to \in AfterStaged => row.version # 0
      BY <1>0, <2>8, <2>9 DEF KnowsJob, MayCommit, to, r
    <3>4. to \in AfterVerify => r.token \in probed
      BY <1>0 DEF KnowsJob, MayCommit, to, r, AfterCreate, AfterStaged, AfterVerify
    <3> QED
      BY <2>8, <2>10, <3>1, <3>2, <3>3, <3>4 DEF JobOK, Needs
  <2>12. job'[k] = row /\ \A j \in Key \ {k} : job'[j] = job[j]
    BY <1>0, <2>3
  <2>13. /\ r.token # None => row.token = r.token
         /\ r.version # 0 => row.version # 0
         /\ row.stage # "absent"
    BY <2>8, <2>9, <2>10
  <2> HIDE DEF x, k, y
  <2>14. LocalOK(x, job', versions, probed)
    BY <2>1, <2>12, <2>13, KnowledgeIsStable DEF r
  <2> QED
    BY <1>0, <1>1, <1>2, <2>1, <2>2, <2>8, <2>11, <2>13, <2>14, RowStep DEF r
<1>3. CASE (FencedOut(e) \/ Throw(e)) /\ UNCHANGED <<job, newer>>
  <2>1. Control(e)
    BY <1>0, <1>3, FencedOutIsControl, ThrowIsControl DEF Early
  <2> QED
    BY <1>1, <1>3, <2>1, EffectsTyped, LocalStep DEF EffectTypes, cloud, history
<1> QED
  BY <1>2, <1>3 DEF Commit

(* Adding a version to the vault: known by its job ever after.             *)
LEMMA AddVersionKeeps ==
  ASSUME IInv, NEW e \in Exec, AddVersion(e)
  PROVE  IInv'
<1> DEFINE y == ex[e]
           k == y.key
           entry == [key |-> k, token |-> y.row.token]
<1>0. /\ y \in Execution /\ y.pc = "addVersion" /\ k \in Key
      /\ LocalOK(y, job, versions, probed)
      /\ KnowsJob(y, job, versions) /\ KnowsStage(y, probed)
      /\ versions \in Seq([key : Key, token : Token])
  BY Knows DEF AddVersion, At, IInv, TypeOK, LocalsOK
<1>1. UNCHANGED <<job, errors, newer, alias, reconciles, cloud, lease, used, history>>
  BY DEF AddVersion
<1>2. y.row.token # None /\ y.row.token \in Token /\ job[k].token = y.row.token
  <2>1. y.row.token # None
    BY <1>0 DEF KnowsStage, Needs, AfterCreate
  <2> QED
    BY <1>0, <2>1 DEF KnowsJob, Execution, Row
<1>3. entry \in [key : Key, token : Token]
  BY <1>0, <1>2
<1> DEFINE at(n) == [y EXCEPT !.pc = "readAlias", !.version = n]
<1>4. PICK n \in Nat :
        /\ Become(e, at(n))
        /\ n \in 1 .. Len(versions') /\ versions'[n].key = k
        /\ versions' = Append(versions, entry) \/ versions' = versions
  <2>1. CASE /\ versions' = Append(versions, entry)
             /\ Become(e, at(Len(versions')))
    <3> HIDE DEF at
    <3>1. /\ Len(versions') = Len(versions) + 1 /\ Len(versions) \in Nat
          /\ versions'[Len(versions) + 1] = entry
      BY <1>0, <1>3, <2>1, AppendProperties
    <3>2. Len(versions') \in Nat /\ Len(versions') \in 1 .. Len(versions')
          /\ versions'[Len(versions')].key = k
      BY <3>1
    <3> QED
      BY <2>1, <3>2
  <2>2. CASE \E n \in VersionOf(k) : Become(e, at(n)) /\ UNCHANGED versions
    <3> HIDE DEF at
    <3> QED
      BY <2>2 DEF VersionOf
  <2> QED
    BY <2>1, <2>2 DEF AddVersion
<1> DEFINE x == at(n)
<1>5. /\ versions' \in Seq([key : Key, token : Token])
      /\ Len(versions) <= Len(versions')
      /\ \A i \in 1 .. Len(versions) : /\ i \in 1 .. Len(versions')
                                      /\ versions'[i] = versions[i]
      /\ \A i \in 1 .. Len(versions') :
            versions'[i] = entry \/ (i \in 1 .. Len(versions) /\ versions'[i] = versions[i])
  <2>1. CASE versions' = Append(versions, entry)
    <3> HIDE DEF entry
    <3> QED
      BY <1>0, <1>3, <2>1, AppendProperties
  <2>2. CASE versions' = versions
    BY <1>0, <2>2
  <2> QED
    BY <1>4, <2>1, <2>2
<1>6. /\ x \in Execution /\ x.pc = "readAlias" /\ x.key = k /\ x.row = y.row
      /\ x.version = n /\ x.at = y.at
  <2> HIDE DEF y
  <2> QED
    BY <1>0 DEF Execution, Label
<1> HIDE DEF x
<1>7. LocalOK(y, job, versions', probed)
  BY <1>0, <1>5, KnowledgeIsStable
<1>8. LocalOK(x, job, versions', probed)
  <2>1. n # 0 /\ VersionIs(k, n, versions')
    BY <1>4 DEF VersionIs
  <2> QED
    BY <1>0, <1>6, <1>7, <2>1
       DEF LocalOK, KnowsJob, KnowsStage, MayCommit, Early
<1>9. MovesTo(e, x)
  BY <1>4, <1>6, PutMoves DEF IInv, TypeOK, Become, x
<1>10. TypeOK'
  <2>1. alias \in 0 .. Len(versions')
    BY <1>0, <1>5 DEF IInv, TypeOK
  <2> QED
    BY <1>1, <1>5, <1>9, <2>1 DEF IInv, TypeOK, MovesTo, cloud, history
<1>11. LocalsOK'
  <2> SUFFICES ASSUME NEW f \in Exec
               PROVE  LocalOK(ex'[f], job, versions', probed)
    BY <1>1 DEF LocalsOK, history
  <2>1. CASE f = e
    BY <1>8, <1>9, <2>1 DEF MovesTo
  <2>2. CASE f # e
    <3>1. LocalOK(ex[f], job, versions, probed)
      BY DEF IInv, LocalsOK
    <3>2. LocalOK(ex[f], job, versions', probed)
      BY <1>5, <3>1, KnowledgeIsStable
    <3> QED
      BY <1>9, <2>2, <3>2 DEF MovesTo
  <2> QED
    BY <2>1, <2>2
<1>12. JobsOK'
  <2> SUFFICES ASSUME NEW j \in Key PROVE JobOK(j, job[j], versions', probed)
    BY <1>1 DEF JobsOK, history
  <2>1. JobOK(j, job[j], versions, probed)
    BY DEF IInv, JobsOK
  <2> QED
    BY <1>5, <2>1 DEF JobOK, VersionIs
<1>13. VersionsOK'
  BY <1>1, <1>2, <1>5 DEF IInv, VersionsOK
<1>14. MintsOnce' /\ ServedWasProbed'
  <2>1. MintsOnce'
    BY <1>1, <1>6, <1>9 DEF IInv, MintsOnce, MovesTo, Minting
  <2>2. alias # 0 => alias \in 1 .. Len(versions)
    BY DEF IInv, TypeOK
  <2> QED
    BY <1>1, <1>5, <2>1, <2>2 DEF IInv, ServedWasProbed, Served, history
<1> QED
  BY <1>10, <1>11, <1>12, <1>13, <1>14 DEF IInv

(* A credential that authenticates is remembered as probed, and its job    *)
(* may go on to `verified`.                                                *)
LEMMA VerifyKeeps ==
  ASSUME IInv, NEW e \in Exec, Verify(e)
  PROVE  IInv'
<1> DEFINE y == ex[e]
           t == y.row.token
<1>0. /\ y \in Execution /\ y.pc = "verify" /\ y.key \in Key
      /\ LocalOK(y, job, versions, probed)
      /\ KnowsJob(y, job, versions) /\ KnowsStage(y, probed)
  BY Knows DEF Verify, At, IInv, LocalsOK
<1>1. UNCHANGED <<store, cloud, served>>
  BY DEF Verify
<1>2. CASE /\ t \in live /\ probed' = probed \cup {t}
           /\ CommitTo(e, "verified", "stage") /\ UNCHANGED <<lease, used, rejected>>
  <2>1. t \in Token /\ t # None
    BY <1>2, EngineAssumption DEF IInv, TypeOK, Token
  <2>2. y.at = "consumers-reloaded"
    BY <1>0 DEF KnowsStage
  <2>3. Needs("verified", y.row, probed')
    BY <1>0, <1>2, <2>1, <2>2 DEF KnowsStage, Needs, AfterCreate, AfterStaged
  <2>4. LocalOK(y, job, versions, probed')
    BY <1>0, <1>2, KnowledgeIsStable
  <2> DEFINE x == [y EXCEPT !.pc = "commit", !.to = "verified", !.ctx = "stage"]
  <2>5. x \in Execution /\ LocalOK(x, job, versions, probed')
    <3>1. "verified" \in Stage /\ "stage" \in Context
      BY DEF Stage, Happy, Context
    <3>2. y.pc \notin Early \cup {"idle"}
      BY <1>0 DEF Early
    <3> QED
      BY <1>0, <2>3, <2>4, <3>1, <3>2, CommitKnows
  <2>6. MovesTo(e, x)
    BY <1>2, <2>5, PutMoves DEF IInv, TypeOK, CommitTo, Become
  <2>7. x.pc \notin Minting
    BY <1>0 DEF Execution, Minting
  <2> HIDE DEF x
  <2>8. TypeOK'
    BY <1>1, <1>2, <2>1, <2>6 DEF IInv, TypeOK, MovesTo, store, cloud
  <2>9. LocalsOK'
    <3> SUFFICES ASSUME NEW f \in Exec
                 PROVE  LocalOK(ex'[f], job, versions, probed')
      BY <1>1 DEF LocalsOK, store
    <3>1. CASE f = e
      BY <2>5, <2>6, <3>1 DEF MovesTo
    <3>2. CASE f # e
      <4>1. LocalOK(ex[f], job, versions, probed)
        BY DEF IInv, LocalsOK
      <4>2. LocalOK(ex[f], job, versions, probed')
        BY <1>2, <4>1, KnowledgeIsStable
      <4> QED
        BY <2>6, <3>2, <4>2 DEF MovesTo
    <3> QED
      BY <3>1, <3>2
  <2>10. JobsOK' /\ VersionsOK' /\ ServedWasProbed'
    BY <1>1, <1>2 DEF IInv, JobsOK, JobOK, Needs, VersionsOK, ServedWasProbed,
                      Served, store
  <2>11. MintsOnce'
    BY <1>1, <1>2, <2>6, <2>7 DEF IInv, MintsOnce, MovesTo, store
  <2> QED
    BY <2>8, <2>9, <2>10, <2>11 DEF IInv
<1>3. CASE Throw(e) /\ rejected' = rejected \cup {y.key} /\ UNCHANGED probed
  <2>1. Control(e)
    BY <1>0, <1>3, ThrowIsControl DEF Early
  <2>2. used' \in [{"crash", "stall", "fault", "emit"} -> Nat]
    BY SpendTypes DEF Verify, IInv, TypeOK
  <2>3. EffectTypes'
    BY <1>0, <1>1, <1>3, <2>2, EffectsTyped DEF EffectTypes, store, cloud
  <2> QED
    BY <1>1, <1>3, <2>1, <2>3, LocalStep DEF store
<1> QED
  BY <1>2, <1>3 DEF Verify

(* The alias reaches the version of a verified job, which holds the        *)
(* credential that has been probed.                                        *)
LEMMA MoveAliasKeeps ==
  ASSUME IInv, NEW e \in Exec, MoveAlias(e)
  PROVE  IInv'
<1> DEFINE y == ex[e]
           n == y.row.version
<1>0. /\ y \in Execution /\ y.pc = "moveAlias" /\ y.key \in Key
      /\ LocalOK(y, job, versions, probed)
      /\ KnowsJob(y, job, versions) /\ KnowsStage(y, probed)
  BY Knows DEF MoveAlias, At, IInv, LocalsOK
<1>1. UNCHANGED <<job, errors, newer, versions, reconciles, cloud, used,
                  probed, rejected>>
  BY DEF MoveAlias
<1>2. CASE /\ alias' = n /\ served' = served \cup {y.key}
           /\ CommitTo(e, "alias-moved", "stage") /\ UNCHANGED lease
  <2>1. /\ y.row.token \in probed /\ y.row.token # None
        /\ n \in 1 .. Len(versions) /\ versions[n].key = y.key
    <3>1. y.at = "verified"
      BY <1>0 DEF KnowsStage
    <3>2. y.row.token # None /\ n # 0 /\ y.row.token \in probed
      BY <1>0, <3>1 DEF KnowsStage, Needs, AfterCreate, AfterStaged, AfterVerify
    <3> QED
      BY <1>0, <3>2 DEF KnowsJob, VersionIs
  <2>2. versions[n].token = y.row.token
    BY <1>0, <2>1 DEF IInv, VersionsOK, KnowsJob
  <2>3. Needs("alias-moved", y.row, probed)
    BY <1>0, <2>1 DEF Needs
  <2> DEFINE x == [y EXCEPT !.pc = "commit", !.to = "alias-moved", !.ctx = "stage"]
  <2>5. x \in Execution /\ LocalOK(x, job, versions, probed)
    <3>1. "alias-moved" \in Stage /\ "stage" \in Context
      BY DEF Stage, Happy, Context
    <3>2. y.pc \notin Early \cup {"idle"}
      BY <1>0 DEF Early
    <3> QED
      BY <1>0, <2>3, <3>1, <3>2, CommitKnows
  <2>6. MovesTo(e, x)
    BY <1>2, <2>5, PutMoves DEF IInv, TypeOK, CommitTo, Become
  <2>7. x.pc \notin Minting
    BY <1>0 DEF Execution, Minting
  <2> HIDE DEF x
  <2>8. TypeOK'
    <3>1. alias' \in 0 .. Len(versions') /\ served' \subseteq Key
      BY <1>0, <1>1, <1>2, <2>1 DEF IInv, TypeOK
    <3> HIDE DEF n, y
    <3> QED
      BY <1>1, <1>2, <2>6, <3>1 DEF IInv, TypeOK, MovesTo, cloud
  <2>9. LocalsOK' /\ JobsOK' /\ VersionsOK'
    BY <1>1, <2>5, <2>6 DEF IInv, LocalsOK, JobsOK, VersionsOK, MovesTo
  <2>10. MintsOnce'
    BY <1>1, <1>2, <2>6, <2>7 DEF IInv, MintsOnce, MovesTo
  <2>11. ServedWasProbed'
    BY <1>1, <1>2, <2>1, <2>2 DEF ServedWasProbed, Served
  <2> QED
    BY <2>8, <2>9, <2>10, <2>11 DEF IInv
<1>3. CASE Throw(e) /\ UNCHANGED <<alias, served>>
  <2>1. Control(e)
    BY <1>0, <1>3, ThrowIsControl DEF Early
  <2> QED
    BY <1>1, <1>3, <2>1, EffectsTyped, LocalStep DEF EffectTypes, cloud
<1> QED
  BY <1>2, <1>3 DEF MoveAlias

-----------------------------------------------------------------------------
(* Nothing has been requested yet.                                         *)
LEMMA EngineInit == Init => IInv
<1> SUFFICES ASSUME Init PROVE IInv
  OBVIOUS
<1>1. NoRow \in Row /\ Idle \in Execution
  BY IdleIsExecution DEF NoRow, Row
<1>2. TypeOK
  <2>1. /\ job \in [Key -> Row] /\ ex \in [Exec -> Execution]
        /\ errors \in [Key -> [Stage -> Nat]] /\ minted \in [Key -> Nat]
        /\ used \in [{"crash", "stall", "fault", "emit"} -> Nat]
    BY <1>1 DEF Init
  <2>2. versions \in Seq([key : Key, token : Token]) /\ alias \in 0 .. Len(versions)
    BY DEF Init
  <2> QED
    BY <2>1, <2>2 DEF Init, TypeOK
<1>3. LocalsOK
  BY DEF Init, LocalsOK, LocalOK, Idle
<1>4. JobsOK
  BY DEF Init, JobsOK, JobOK, NoRow, VersionIs, Needs, AfterCreate, AfterStaged,
         AfterVerify
<1>5. VersionsOK /\ MintsOnce /\ ServedWasProbed
  BY DEF Init, VersionsOK, MintsOnce, ServedWasProbed, Idle, Minting
<1> QED
  BY <1>2, <1>3, <1>4, <1>5 DEF IInv

(* Every step keeps the invariant.                                         *)
LEMMA EngineNext == IInv /\ [Next]_vars => IInv'
<1> SUFFICES ASSUME IInv, [Next]_vars PROVE IInv'
  OBVIOUS
<1>1. ASSUME NEW e \in Exec, Step(e) PROVE IInv'
  <2>1. CASE Lookup(e) \/ Acquire(e)
    <3>1. ex[e].key \in Key
      BY <2>1 DEF Lookup, Acquire, At, IInv, LocalsOK, LocalOK, KnowsJob
    <3> QED
      BY <2>1, <3>1, ClaimingKeeps
  <2> QED
    BY <1>1, <2>1, InsertKeeps, DriveKeeps, IntentKeeps, ProviderKeeps,
       PersistKeeps, AddVersionKeeps, LocalsKeep, ReloadedKeeps, VerifyKeeps,
       MoveAliasKeeps, HandlersKeep, CommitKeeps DEF Step
<1>2. CASE UNCHANGED vars
  BY <1>2 DEF vars, store, cloud, history, IInv, TypeOK, LocalsOK, JobsOK,
              VersionsOK, MintsOnce, ServedWasProbed, Served
<1> QED
  BY <1>1, <1>2, GhostKeeps, ClaimingKeeps, EnvironmentKeeps DEF Next

(* The inductive invariant holds in every reachable state.                 *)
THEOREM EngineInvariant == Spec => []IInv
<1> QED
  BY EngineInit, EngineNext, PTL DEF Spec

(* Rows, checkpoints, versions, tokens and the locals of executions stay   *)
(* what their types say; the alias points to a version that exists.        *)
THEOREM EngineTypeCorrect == Spec => []TypeOK
<1>1. IInv => TypeOK
  BY DEF IInv
<1> QED
  BY <1>1, EngineInvariant, PTL

(* Proven before published: whatever overlaps, dies, stalls or fails, the  *)
(* alias points to a credential that verify() has seen authenticate.       *)
THEOREM PublishedWasProbed == Spec => []ServedWasProbed
<1>1. IInv => ServedWasProbed
  BY DEF IInv
<1> QED
  BY <1>1, EngineInvariant, PTL

(* Only Persist writes the credential of a row, and only into an empty one.*)
LEMMA CredentialStays ==
  ASSUME IInv, [Next]_vars, NEW k \in Key, job[k].token # None
  PROVE  job'[k].token = job[k].token
<1>0. job \in [Key -> Row] /\ job[k] \in Row
  BY DEF IInv, TypeOK
<1>1. ASSUME NEW e \in Exec,
             Insert(e) \/ Intent(e) \/ Persist(e) \/ Reloaded(e) \/ Commit(e)
      PROVE  job'[k].token = job[k].token
  <2> DEFINE y == ex[e]
  <2>1. y.pc # "idle"
    BY <1>1 DEF Insert, Intent, Persist, Reloaded, Commit, At
  <2>2. y.key \in Key
    BY <2>1, Knows
  <2>3. CASE UNCHANGED job
    BY <2>3
  <2>4. CASE y.key # k
    BY <1>0, <1>1, <2>2, <2>4 DEF Insert, Intent, Persist, Reloaded, Commit, UpdateJob
  <2>5. CASE y.key = k
    <3>1. CASE Insert(e)
      <4>1. job[k].stage # "absent"
        BY DEF IInv, JobsOK, JobOK
      <4> QED
        BY <2>5, <3>1, <4>1 DEF Insert
    <3>2. CASE Intent(e)
      BY <1>0, <2>3, <2>5, <3>2 DEF Intent, UpdateJob, Row
    <3>3. CASE Persist(e)
      <4>1. ~Holds(e)
        BY <2>5, <3>3 DEF Persist, At, IInv, MintsOnce, Minting, Holds
      <4> QED
        BY <3>3, <4>1 DEF Persist
    <3>4. CASE Reloaded(e)
      <4>1. ASSUME NEW done, job' = [job EXCEPT ![k] = [job[k] EXCEPT !.reloaded = done]]
            PROVE  job'[k].token = job[k].token
        BY <1>0, <4>1 DEF Row
      <4> QED
        BY <2>3, <2>5, <3>4, <4>1 DEF Reloaded, UpdateJob
    <3>5. CASE Commit(e)
      <4>1. CASE job' = [job EXCEPT ![k] = Patched(e)]
        <5>1. Patched(e).token = job[k].token
          BY <1>0, <2>5 DEF Patched, Row
        <5> QED
          BY <1>0, <4>1, <5>1
      <4> QED
        BY <2>3, <2>5, <3>5, <4>1 DEF Commit, UpdateJob
    <3> QED
      BY <1>1, <3>1, <3>2, <3>3, <3>4, <3>5
  <2> QED
    BY <2>4, <2>5
<1>2. ASSUME NEW e \in Exec,
             \/ \E j \in Key : Request(e, j) \/ Resume(e, j)
             \/ EffectFails(e) \/ Crash(e) \/ Stall(e)
             \/ /\ Step(e)
                /\ ~(Insert(e) \/ Intent(e) \/ Persist(e) \/ Reloaded(e) \/ Commit(e))
      PROVE  UNCHANGED job
  BY <1>2 DEF Step, Request, Resume, EffectFails, Crash, Stall, Lookup, Acquire,
     Drive, Clean, Mint, AddVersion, ReadAlias, Reload, Verify, CheckAlias,
     MoveAlias, AuthorizeRevoke, Revoke, GuardRollback, AuthorizeRollback,
     Rollback, RollbackError, Mark, Emit, StageError, AfterStageError, store
<1>3. GhostExpires \/ UNCHANGED vars => UNCHANGED job
  BY DEF GhostExpires, vars, store
<1> QED
  BY <1>1, <1>2, <1>3 DEF Next

(* A recorded credential is adopted: no retry, resume or stale executor    *)
(* replaces it in the row of its job.                                      *)
THEOREM RecordedIsFinal == Spec => AdoptedCredentialIsFinal
<1>1. IInv /\ [Next]_vars =>
        [\A k \in Key : job[k].token # None => job'[k].token = job[k].token]_vars
  BY CredentialStays
<1> QED
  BY <1>1, EngineInvariant, PTL DEF Spec, AdoptedCredentialIsFinal
-----------------------------------------------------------------------------
(* What a move leaves in the locals of an execution, field by field.       *)
Same(x, y) == /\ x.key = y.key /\ x.at = y.at /\ x.row = y.row
              /\ x.token = y.token /\ x.version = y.version

OthersStay(e) == \A f \in Exec \ {e} : ex'[f] = ex[f]

(* Going on to a label.                                                    *)
LEMMA GotoMove ==
  ASSUME IInv, NEW e \in Exec, NEW label, Goto(e, label)
  PROVE  /\ OthersStay(e)
         /\ ex'[e].pc = label /\ Same(ex'[e], ex[e])
         /\ ex'[e].to = ex[e].to /\ ex'[e].ctx = ex[e].ctx
<1>1. ex \in [Exec -> Execution] /\ ex[e] \in Execution
  BY DEF IInv, TypeOK
<1>2. ex' = [ex EXCEPT ![e] = [ex[e] EXCEPT !.pc = label]]
  BY DEF Goto, Become
<1> QED
  BY <1>1, <1>2 DEF OthersStay, Same, Execution

(* Turning to the write of a stage.                                        *)
LEMMA CommitMove ==
  ASSUME IInv, NEW e \in Exec, NEW stage, NEW ctx, CommitTo(e, stage, ctx)
  PROVE  /\ OthersStay(e)
         /\ ex'[e].pc = "commit" /\ ex'[e].to = stage /\ ex'[e].ctx = ctx
         /\ Same(ex'[e], ex[e])
<1>1. ex \in [Exec -> Execution] /\ ex[e] \in Execution
  BY DEF IInv, TypeOK
<1>2. ex' = [ex EXCEPT ![e] = [ex[e] EXCEPT !.pc = "commit", !.to = stage, !.ctx = ctx]]
  BY DEF CommitTo, Become
<1> QED
  BY <1>1, <1>2 DEF OthersStay, Same, Execution

(* Turning to markReconcile.                                               *)
LEMMA MarkMove ==
  ASSUME IInv, NEW e \in Exec, NEW ctx, MarkReconcile(e, ctx)
  PROVE  /\ OthersStay(e)
         /\ ex'[e].pc = "mark" /\ ex'[e].ctx = ctx /\ Same(ex'[e], ex[e])
<1>1. ex \in [Exec -> Execution] /\ ex[e] \in Execution
  BY DEF IInv, TypeOK
<1>2. ex' = [ex EXCEPT ![e] = [ex[e] EXCEPT !.pc = "mark", !.ctx = ctx]]
  BY DEF MarkReconcile, Become
<1> QED
  BY <1>1, <1>2 DEF OthersStay, Same, Execution

(* Leaving: idle, and without the lease.                                   *)
LEMMA LeaveMove ==
  ASSUME IInv, NEW e \in Exec, Leave(e)
  PROVE  /\ OthersStay(e) /\ ex'[e] = Idle /\ ex'[e].pc = "idle" /\ lease' # e
         /\ lease' \in {lease, None}
<1>1. ex \in [Exec -> Execution] /\ ex' = [ex EXCEPT ![e] = Idle]
  BY DEF IInv, TypeOK, Leave, Become
<1>2. lease' # e /\ lease' \in {lease, None}
  BY EngineAssumption DEF Leave
<1> QED
  BY <1>1, <1>2 DEF OthersStay, Idle

(* The four places an error may be caught at.                              *)
LEMMA ThrowMove ==
  ASSUME IInv, NEW e \in Exec, Throw(e)
  PROVE  /\ OthersStay(e) /\ lease' \in {lease, None}
         /\ \/ /\ ex'[e].pc = "mark" /\ ex'[e].ctx = "stage"
               /\ Same(ex'[e], ex[e])
               /\ InnerTry(e) /\ ex[e].at = "alias-moved"
            \/ /\ ex'[e].pc = "rollbackError" /\ ex'[e].ctx = ex[e].ctx
               /\ Same(ex'[e], ex[e])
               /\ InnerTry(e) /\ ex[e].at # "alias-moved"
            \/ ex'[e] = Idle /\ ex'[e].pc = "idle" /\ lease' # e
            \/ /\ ex'[e].pc = "error" /\ ex'[e].ctx = ex[e].ctx
               /\ ~InnerTry(e) /\ ex[e].ctx # "handler"
               /\ ex'[e].key = ex[e].key /\ ex'[e].at = ex[e].at
               /\ ex'[e].token = ex[e].token
               /\ ex'[e].row.stage = ex[e].at
               /\ ex'[e].row.old = ex[e].row.old
<1>1. CASE MarkReconcile(e, "stage") /\ UNCHANGED lease /\ InnerTry(e) /\ ex[e].at = "alias-moved"
  BY <1>1, MarkMove
<1>2. CASE Goto(e, "rollbackError") /\ UNCHANGED lease /\ InnerTry(e) /\ ex[e].at # "alias-moved"
  BY <1>2, GotoMove
<1>3. CASE Leave(e)
  BY <1>3, LeaveMove
<1>4. CASE /\ Become(e, [ex[e] EXCEPT !.pc = "error", !.row.stage = ex[e].at])
           /\ UNCHANGED lease /\ ~InnerTry(e) /\ ex[e].ctx # "handler"
  <2> DEFINE y == ex[e]
             r == y.row
             row == [r EXCEPT !.stage = y.at]
             x == [y EXCEPT !.pc = "error", !.row = row]
  <2>1. ex \in [Exec -> Execution] /\ y \in Execution /\ r \in Row
    BY DEF IInv, TypeOK, Execution
  <2>2. ex' = [ex EXCEPT ![e] = x]
    BY <1>4 DEF Become
  <2> HIDE DEF r
  <2>3. row.stage = y.at /\ row.old = r.old
    BY <2>1 DEF Row
  <2> HIDE DEF row
  <2>4. /\ x.pc = "error" /\ x.ctx = y.ctx /\ x.key = y.key /\ x.at = y.at
        /\ x.token = y.token /\ x.row = row
    BY <2>1 DEF Execution
  <2> HIDE DEF x
  <2>5. ex'[e] = x /\ OthersStay(e)
    BY <2>1, <2>2 DEF OthersStay
  <2> QED
    BY <1>4, <2>3, <2>4, <2>5 DEF r
<1> QED
  BY <1>1, <1>2, <1>3, <1>4 DEF Throw

(* A FencedOutError leaves the others and the lease of others alone.       *)
LEMMA FencedOutMove ==
  ASSUME IInv, NEW e \in Exec, FencedOut(e), ~Holds(e)
  PROVE  OthersStay(e) /\ lease' \in {lease, None} /\ lease' # e
<1>1. lease # e /\ None # e
  BY EngineAssumption DEF Holds
<1> QED
  BY <1>1, ThrowMove, LeaveMove DEF FencedOut

(* A request and a resume start from fresh locals.                         *)
LEMMA AskMove ==
  ASSUME IInv, NEW e \in Exec, NEW k \in Key, Request(e, k) \/ Resume(e, k)
  PROVE  /\ OthersStay(e) /\ ex'[e].pc \in {"lookup", "acquire"}
         /\ ex'[e].token = None /\ ex'[e].row.old \in Superseded \cup {None}
<1> DEFINE x == ex'[e]
           i == Idle
           r == i.row
           row(old) == [r EXCEPT !.old = old]
           asked(old) == [i EXCEPT !.pc = "lookup", !.key = k, !.row = row(old)]
           resumed == [i EXCEPT !.pc = "acquire", !.key = k, !.ctx = "resume"]
<1>1. \/ \E old \in Superseded : Become(e, asked(old))
      \/ Become(e, resumed)
  BY DEF Request, Resume
<1>2. \/ \E old \in Superseded : ex' = [ex EXCEPT ![e] = asked(old)]
      \/ ex' = [ex EXCEPT ![e] = resumed]
  <2> HIDE DEF asked, resumed
  <2> QED
    BY <1>1 DEF Become
<1>3. i \in Execution /\ r \in Row /\ r.old = None /\ i.token = None
  BY IdleIsExecution DEF Idle, NoRow, Execution
<1>4. ex \in [Exec -> Execution]
  BY DEF IInv, TypeOK
<1> HIDE DEF r
<1>5. \A old : row(old).old = old
  BY <1>3 DEF Row
<1> HIDE DEF i, row
<1>6. \A old : /\ asked(old).pc = "lookup" /\ asked(old).token = None
               /\ asked(old).row = row(old)
  BY <1>3 DEF Execution
<1>7. resumed.pc = "acquire" /\ resumed.token = None /\ resumed.row = r
  BY <1>3 DEF Execution, r
<1> HIDE DEF asked, resumed
<1> QED
  BY <1>2, <1>3, <1>4, <1>5, <1>6, <1>7 DEF OthersStay

-----------------------------------------------------------------------------
(* What a step does to the rows.                                           *)
SameRow(r, s) == /\ r.stage = s.stage /\ r.version = s.version /\ r.old = s.old
                 /\ r.expected = s.expected

OtherRowsStay(k) == \A j \in Key \ {k} : job'[j] = job[j]

(* Intents, credentials and reloaded consumers, under the lease.           *)
LEMMA NoteWrite ==
  ASSUME IInv, NEW e \in Exec, Intent(e) \/ Persist(e) \/ Reloaded(e)
  PROVE  \/ UNCHANGED job /\ ~Holds(e)
         \/ /\ Holds(e) /\ ex[e].key \in Key /\ OtherRowsStay(ex[e].key)
            /\ SameRow(job'[ex[e].key], job[ex[e].key])
            /\ job'[ex[e].key].token =
                 IF ex[e].pc = "persist" THEN ex[e].token
                                         ELSE job[ex[e].key].token
<1> DEFINE y == ex[e]
           k == y.key
           r == job[k]
<1>1. k \in Key /\ r \in Row /\ job \in [Key -> Row]
      /\ y.pc \in {"intent", "persist", "reloaded"}
  <2>1. y.pc \in {"intent", "persist", "reloaded"}
    BY DEF Intent, Persist, Reloaded, At
  <2> QED
    BY <2>1, Knows DEF IInv, TypeOK
<1>2. CASE ~Holds(e)
  BY <1>2 DEF Intent, Persist, Reloaded
<1>3. CASE Holds(e) /\ Intent(e)
  <2>1. job' = [job EXCEPT ![k] = [r EXCEPT !.intent = TRUE]] /\ y.pc = "intent"
    BY <1>3 DEF Intent, UpdateJob, At
  <2> HIDE DEF r
  <2> QED
    BY <1>1, <1>3, <2>1 DEF OtherRowsStay, SameRow, Row, r
<1>4. CASE Holds(e) /\ Persist(e)
  <2>1. job' = [job EXCEPT ![k] = [r EXCEPT !.token = y.token]] /\ y.pc = "persist"
    BY <1>4 DEF Persist, UpdateJob, At
  <2> HIDE DEF r
  <2> QED
    BY <1>1, <1>4, <2>1 DEF OtherRowsStay, SameRow, Row, r
<1>5. CASE Holds(e) /\ Reloaded(e)
  <2>1. PICK done : job' = [job EXCEPT ![k] = [r EXCEPT !.reloaded = done]]
    BY <1>5 DEF Reloaded, UpdateJob
  <2>2. y.pc = "reloaded"
    BY <1>5 DEF Reloaded, At
  <2> HIDE DEF r
  <2> QED
    BY <1>1, <1>5, <2>1, <2>2 DEF OtherRowsStay, SameRow, Row, r
<1> QED
  BY <1>2, <1>3, <1>4, <1>5

(* A transition is written under the lease, if the copy allows it.         *)
LEMMA CommitWrite ==
  ASSUME IInv, NEW e \in Exec, Commit(e)
  PROVE  \/ /\ UNCHANGED job
            /\ \/ ~Holds(e) /\ FencedOut(e)
               \/ Throw(e)
         \/ /\ Holds(e) /\ ex[e].key \in Key /\ OtherRowsStay(ex[e].key)
            /\ CanTransition(ex[e].row.stage, ex[e].to)
            /\ Goto(e, "emit") /\ UNCHANGED lease
            /\ job'[ex[e].key].stage = ex[e].to
            /\ job'[ex[e].key].old = job[ex[e].key].old
            /\ job'[ex[e].key].token = job[ex[e].key].token
            /\ job'[ex[e].key].version =
                 IF ex[e].to = "staged" THEN ex[e].version
                                        ELSE job[ex[e].key].version
<1> DEFINE y == ex[e]
           k == y.key
           r == job[k]
<1>1. k \in Key /\ r \in Row /\ job \in [Key -> Row]
  BY Knows DEF Commit, At, IInv, TypeOK
<1>2. CASE /\ Holds(e) /\ CanTransition(y.row.stage, y.to)
           /\ UpdateJob(k, Patched(e)) /\ Goto(e, "emit") /\ UNCHANGED lease
  <2> DEFINE row == Patched(e)
             plain == [r EXCEPT !.stage = y.to]
             staged == [r EXCEPT !.stage = y.to, !.version = y.version,
                                 !.expected = y.expected]
  <2>1. row = IF y.to = "staged" THEN staged ELSE plain
    <3>1. [[r EXCEPT !.stage = y.to] EXCEPT !.version = y.version, !.expected = y.expected]
            = staged
      OBVIOUS
    <3> QED
      BY <3>1 DEF Patched
  <2>2. job' = [job EXCEPT ![k] = row]
    BY <1>2 DEF UpdateJob
  <2> HIDE DEF r, row
  <2>3. /\ row.stage = y.to /\ row.old = r.old /\ row.token = r.token
        /\ row.version = IF y.to = "staged" THEN y.version ELSE r.version
    BY <1>1, <2>1 DEF Row
  <2>4. job'[k] = row /\ OtherRowsStay(k)
    BY <1>1, <2>2 DEF OtherRowsStay
  <2> QED
    BY <1>1, <1>2, <2>3, <2>4 DEF r
<1> QED
  BY <1>2 DEF Commit

(* A row is inserted where there is none.                                  *)
LEMMA InsertWrite ==
  ASSUME IInv, NEW e \in Exec, Insert(e)
  PROVE  /\ OthersStay(e) /\ lease' \in {lease, None}
         /\ ex'[e].pc \in {"loop", "idle"}
         /\ ex'[e].pc = "idle" => ex'[e] = Idle
         /\ ex'[e].pc = "loop" => Same(ex'[e], ex[e])
         /\ \/ UNCHANGED job
            \/ /\ ex[e].key \in Key /\ OtherRowsStay(ex[e].key)
               /\ job[ex[e].key].stage = "absent"
               /\ job'[ex[e].key].stage = "requested"
               /\ job'[ex[e].key].old = ex[e].row.old
               /\ job'[ex[e].key].token = None
               /\ job'[ex[e].key].version = 0
<1> DEFINE y == ex[e]
           k == y.key
           r == y.row
           row == [r EXCEPT !.stage = "requested"]
<1>1. /\ k \in Key /\ job \in [Key -> Row] /\ r \in Row
      /\ r.token = None /\ r.version = 0
  BY Knows DEF Insert, At, IInv, TypeOK, KnowsJob, Execution
<1>2. \/ UNCHANGED job
      \/ job[k].stage = "absent" /\ job' = [job EXCEPT ![k] = row]
  BY DEF Insert, UpdateJob
<1>3. \/ Goto(e, "loop") /\ UNCHANGED lease
      \/ Leave(e)
  BY DEF Insert
<1> HIDE DEF r
<1>4. /\ row.stage = "requested" /\ row.old = r.old /\ row.token = None
      /\ row.version = 0
  BY <1>1 DEF Row
<1> HIDE DEF row
<1>5. \/ UNCHANGED job
      \/ /\ job[k].stage = "absent" /\ job'[k] = row /\ OtherRowsStay(k)
  BY <1>1, <1>2 DEF OtherRowsStay
<1>6. /\ OthersStay(e) /\ lease' \in {lease, None}
      /\ \/ ex'[e].pc = "idle" /\ ex'[e] = Idle
         \/ ex'[e].pc = "loop" /\ Same(ex'[e], ex[e])
  BY <1>3, GotoMove, LeaveMove
<1> QED
  BY <1>1, <1>4, <1>5, <1>6 DEF r

(* All other actions leave the rows alone.                                 *)
Writes(e) == Insert(e) \/ Intent(e) \/ Persist(e) \/ Reloaded(e) \/ Commit(e)

(* Whatever is not one of the five writes leaves every row as it is.       *)
LEMMA RowsStay ==
  ASSUME NEW e \in Exec,
         \/ \E k \in Key : Request(e, k) \/ Resume(e, k)
         \/ EffectFails(e) \/ Crash(e) \/ Stall(e)
         \/ Step(e) /\ ~Writes(e)
  PROVE  UNCHANGED job
BY DEF Writes, Step, Request, Resume, EffectFails, Crash, Stall, Lookup, Acquire,
   Drive, Clean, Mint, AddVersion, ReadAlias, Reload, Verify, CheckAlias,
   MoveAlias, AuthorizeRevoke, Revoke, GuardRollback, AuthorizeRollback,
   Rollback, RollbackError, Mark, Emit, StageError, AfterStageError, store

-----------------------------------------------------------------------------
(* What the holder of the lease knows of the stage of its row r: the check *)
(* in transition() looks at the copy, but the row is not far ahead of it.  *)

(* The places of an execution whose copy is the row it has just read.      *)
InStage == {"intent", "clean", "mint", "persist", "addVersion", "readAlias",
            "reload", "reloaded", "verify", "checkAlias", "moveAlias",
            "authRevoke", "revoke", "guardRollback"}
Undoing == {"failed", "rolling-back"}
Live == Happy \cup Undoing

(* The stages that what is dispatched on s may have written; `failed` is   *)
(* left to onStageError.                                                   *)
Reached(s) == {s} \cup (Transitions[s] \ {"failed"})
              \cup {t \in {"rolled-back"} : s = "failed"}

MayGiveUp(s) == s \in PostPublish \cup {"done", "reconcile-required"} \cup Undoing

(* An edge of the graph, no change, or the one step that leaves the graph: *)
(* an append that fails after `done` was written.                          *)
Follows(s, to) == \/ to = s \/ to \in Transitions[s]
                  \/ s = "done" /\ to = "reconcile-required"

KnowsHandlers(x, s) ==
  /\ x.pc = "rollbackError" =>
       x.at \in Undoing /\ s \in {"rolling-back", "reconcile-required"}
  /\ x.ctx = "try" =>
       \/ x.at = "alias-moved" /\ s \in {"alias-moved", "reconcile-required"}
       \/ x.at \in Undoing /\ s \in {"rolling-back", "reconcile-required"}
  /\ x.pc \in {"error", "emitError"} => x.row.stage = x.at
  /\ x.pc = "mark" => x.at \in PostPublish \cup Undoing /\ MayGiveUp(s)

KnowsCommit(x, s) ==
  /\ x.pc = "commit" /\ CanTransition(x.row.stage, x.to) =>
       /\ Follows(s, x.to)
       /\ x.ctx = "handler" \/ x.to \in Reached(x.at)
  /\ x.pc = "commit" /\ x.ctx = "try" => x.to = "reconcile-required"
  /\ x.pc = "emit" => x.to = s
  /\ x.pc \in {"commit", "emit"} /\ x.to = "rolling-back" =>
       x.at = "failed" /\ x.ctx = "stage"

StageKnown(x, r, emits) == x.pc \notin Early \cup {"idle"} =>
  /\ x.at \in Live
  /\ (x.pc = "emit" /\ x.ctx = "handler") \/ r.stage \in Reached(x.at)
  /\ x.pc \in InStage => /\ r.stage = x.at /\ x.row.stage = x.at
                         /\ x.ctx = "stage" /\ x.row.version = r.version
  /\ x.pc = "guardRollback" => x.at \in Undoing
  /\ x.pc \in {"authRollback", "rollback"} =>
       /\ x.at \in Undoing /\ x.ctx = "stage"
       /\ r.stage = "rolling-back" /\ x.row.stage = "rolling-back"
  /\ KnowsHandlers(x, r.stage) /\ KnowsCommit(x, r.stage)
  /\ x.pc # "emit" /\ r.stage = "done" => emits # 0

StageInv == \A e \in Exec :
  lease = e => StageKnown(ex[e], job[ex[e].key], used["emit"])

(* The graph, stage by stage.                                              *)
LEMMA Graph ==
  /\ Transitions["requested"] = {"provider-created", "failed"}
  /\ Transitions["provider-created"] = {"staged", "failed"}
  /\ Transitions["staged"] = {"consumers-reloaded", "failed"}
  /\ Transitions["consumers-reloaded"] = {"verified", "failed"}
  /\ Transitions["verified"] = {"alias-moved", "failed"}
  /\ Transitions["alias-moved"] = {"old-revoked", "failed", "reconcile-required"}
  /\ Transitions["old-revoked"] = {"done", "reconcile-required"}
  /\ Transitions["failed"] = {"rolling-back", "reconcile-required"}
  /\ Transitions["rolling-back"] = {"rolled-back", "reconcile-required"}
  /\ Transitions["done"] = {} /\ Transitions["rolled-back"] = {}
  /\ Transitions["reconcile-required"] = {}
<1>1. {"requested", "provider-created", "staged", "consumers-reloaded", "verified",
       "alias-moved", "old-revoked", "done", "rolled-back", "reconcile-required",
       "failed", "rolling-back"} \subseteq Stage
  BY DEF Stage, Happy, Terminal
<1> QED
  BY <1>1 DEF Transitions

(* A step of e that keeps what holders of the lease know.                  *)
LEMMA StageStep ==
  ASSUME IInv, StageInv, NEW e \in Exec, OthersStay(e),
         lease' \in {lease, e, None, Ghost},
         \A k \in Key : job[k].stage # "absent" /\ lease # e =>
           job'[k].stage = job[k].stage /\ job'[k].version = job[k].version,
         used["emit"] # 0 => used'["emit"] # 0,
         lease' = e => StageKnown(ex'[e], job'[ex'[e].key], used'["emit"])
  PROVE  StageInv'
<1> SUFFICES ASSUME NEW f \in Exec, lease' = f, f # e
             PROVE  StageKnown(ex'[f], job'[ex'[f].key], used'["emit"])
  BY DEF StageInv
<1>1. lease = f /\ lease # e /\ ex'[f] = ex[f]
  BY EngineAssumption DEF OthersStay
<1>2. StageKnown(ex[f], job[ex[f].key], used["emit"])
  BY <1>1 DEF StageInv
<1>3. CASE ex[f].pc \in Early \cup {"idle"}
  BY <1>1, <1>3 DEF StageKnown
<1>4. CASE ex[f].pc \notin Early \cup {"idle"}
  <2>1. ex[f].key \in Key /\ job[ex[f].key].stage # "absent"
    BY <1>4, Knows DEF KnowsJob
  <2>2. /\ job'[ex[f].key].stage = job[ex[f].key].stage
        /\ job'[ex[f].key].version = job[ex[f].key].version
    BY <1>1, <2>1
  <2> QED
    BY <1>1, <1>2, <2>2 DEF StageKnown
<1> QED
  BY <1>3, <1>4

(* An error keeps what the holder knows: where it is caught, the row may   *)
(* be ahead of the stage that was dispatched on.                           *)
LEMMA ThrowStage ==
  ASSUME IInv, NEW e \in Exec, ex[e].pc \notin Early \cup {"idle"}, Throw(e),
         NEW r, NEW n, NEW m, StageKnown(ex[e], r, n), n # 0 => m # 0,
         ex[e].pc = "emit" => m # 0
  PROVE  lease' = e => StageKnown(ex'[e], r, m)
<1> DEFINE y == ex[e]
           x == ex'[e]
<1>1. KnowsStage(y, probed)
  BY Knows
<1>2. CASE x.pc = "mark" /\ x.ctx = "stage" /\ Same(x, y) /\ InnerTry(e) /\ y.at = "alias-moved"
  <2>1. r.stage \in {"alias-moved", "reconcile-required"}
    BY <1>2 DEF InnerTry, StageKnown, KnowsHandlers, Undoing, InStage
  <2>2. r.stage \in Reached(y.at)
    BY <2>1, <1>2, Graph DEF Reached
  <2> QED
    BY <1>2, <2>1, <2>2 DEF StageKnown, KnowsHandlers, KnowsCommit, Same, InStage,
                            MayGiveUp, PostPublish, Live, Happy
<1>3. CASE x.pc = "rollbackError" /\ x.ctx = y.ctx /\ Same(x, y) /\ InnerTry(e) /\ y.at # "alias-moved"
  <2>1. y.at \in Undoing /\ r.stage \in {"rolling-back", "reconcile-required"}
    BY <1>1, <1>3 DEF InnerTry, StageKnown, KnowsHandlers, KnowsStage
  <2>2. r.stage \in Reached(y.at)
    BY <2>1, Graph DEF Reached, Undoing
  <2> QED
    BY <1>3, <2>1, <2>2 DEF StageKnown, KnowsHandlers, KnowsCommit, Same, InStage, Live
<1>4. CASE /\ x.pc = "error" /\ x.ctx = y.ctx /\ ~InnerTry(e) /\ y.ctx # "handler"
           /\ x.at = y.at /\ x.row.stage = y.at
  <2>1. y.at \in Live /\ r.stage \in Reached(y.at) /\ (r.stage = "done" => m # 0)
    BY <1>4 DEF StageKnown
  <2>2. y.ctx # "try"
    BY <1>4 DEF InnerTry
  <2> QED
    BY <1>4, <2>1, <2>2 DEF StageKnown, KnowsHandlers, KnowsCommit, InStage
<1> QED
  BY <1>2, <1>3, <1>4, ThrowMove

(* Claiming jobs: nothing is known before a row is read.                   *)
LEMMA ClaimingStage ==
  ASSUME IInv, StageInv, NEW e \in Exec, NEW k \in Key,
         \/ Request(e, k) \/ Resume(e, k) \/ Lookup(e) \/ Acquire(e)
         \/ Insert(e) \/ Crash(e)
  PROVE  StageInv'
<1>1. OthersStay(e) /\ lease' \in {lease, e, None, Ghost}
      /\ ex'[e].pc \in Early \cup {"idle"}
  <2>1. CASE Request(e, k) \/ Resume(e, k)
    BY <2>1, AskMove DEF Request, Resume, Early
  <2>2. CASE Lookup(e) \/ Acquire(e) \/ Insert(e)
    BY <2>2, LeaveMove, GotoMove DEF Lookup, Acquire, Insert, Early
  <2>3. CASE Crash(e)
    BY <2>3 DEF Crash, Become, IInv, TypeOK, OthersStay, Idle
  <2> QED
    BY <2>1, <2>2, <2>3
<1>2. \A j \in Key : job[j].stage # "absent" => job'[j] = job[j]
  <2>1. CASE Insert(e)
    BY <2>1, InsertWrite DEF OtherRowsStay
  <2>2. CASE ~Insert(e)
    BY <2>2 DEF Request, Resume, Lookup, Acquire, Crash, store
  <2> QED
    BY <2>1, <2>2
<1>3. used["emit"] # 0 => used'["emit"] # 0
  BY DEF Request, Resume, Lookup, Acquire, Insert, Crash, Spend, IInv, TypeOK
<1>4. StageKnown(ex'[e], job'[ex'[e].key], used'["emit"])
  BY <1>1 DEF StageKnown
<1> QED
  BY <1>1, <1>2, <1>3, <1>4, StageStep

(* Failing effects spend no append.                                        *)
LEMMA SpendEmits ==
  ASSUME TypeOK, NEW bound \in {"crash", "stall", "fault", "emit"}, NEW max,
         Spend(bound, max)
  PROVE  used'["emit"] = IF bound = "emit" THEN used["emit"] + 1 ELSE used["emit"]
BY DEF Spend, TypeOK

(* Reading the row and being dispatched on it.                             *)
LEMMA DriveMove ==
  ASSUME IInv, NEW e \in Exec, Drive(e)
  PROVE  LET k == ex[e].key
             s == job[k].stage
             x == ex'[e] IN
         /\ UNCHANGED <<job, used>> /\ k \in Key
         /\ \/ Leave(e)
            \/ /\ OthersStay(e) /\ UNCHANGED lease /\ s \in Live
               /\ x.key = k /\ x.row = job[k] /\ x.at = s /\ x.ctx = "stage"
               /\ x.token = None
               /\ \/ /\ x.pc \in InStage \ {"mint"}
                     /\ x.pc = "guardRollback" => s \in Undoing
                  \/ /\ x.pc = "commit"
                     /\ \/ s = "requested" /\ x.to = "provider-created"
                        \/ /\ s = "alias-moved" /\ x.to = "old-revoked"
                           /\ job[k].old = None
                        \/ s = "old-revoked" /\ x.to = "done"
<1> DEFINE k == ex[e].key
           row == job[k]
           y == Read(k)
<1>1. UNCHANGED <<job, used>> /\ k \in Key
  BY Knows DEF Drive, At, store
<1>2. /\ y \in Execution /\ y.key = k /\ y.row = row /\ y.version = 0
      /\ y.at = row.stage /\ row \in Row /\ y.ctx = "stage" /\ y.token = None
  <2>1. Read(k) = [Idle EXCEPT !.key = k, !.row = job[k], !.at = job[k].stage]
    BY DEF Read
  <2> QED
    BY <1>1, <2>1, ReadKnows DEF Idle
<1>3. CASE Dispatch(e, row) /\ UNCHANGED lease /\ row.stage \notin Terminal
  <2>1. Read(k) = [Idle EXCEPT !.key = ex[e].key, !.row = row, !.at = row.stage]
    BY DEF Read
  <2> DEFINE goes(label) == ex' = [ex EXCEPT ![e] = [y EXCEPT !.pc = label]]
             commits(stage) ==
               ex' = [ex EXCEPT ![e] = [y EXCEPT !.pc = "commit", !.to = stage]]
             done == \/ row.stage = "requested" /\ commits("provider-created")
                     \/ row.stage = "requested" /\ (goes("clean") \/ goes("intent"))
                     \/ row.stage = "provider-created" /\ goes("addVersion")
                     \/ row.stage = "staged" /\ goes("reload")
                     \/ row.stage = "consumers-reloaded" /\ goes("verify")
                     \/ row.stage = "verified" /\ goes("checkAlias")
                     \/ /\ row.stage = "alias-moved" /\ commits("old-revoked")
                        /\ row.old = None
                     \/ row.stage = "alias-moved" /\ goes("authRevoke")
                     \/ row.stage = "old-revoked" /\ commits("done")
                     \/ row.stage \in Undoing /\ goes("guardRollback")
  <2>b. done
    <3>1. Dispatch(e, row)
      BY <1>3
    <3> HIDE DEF row, k
    <3> QED
      BY <2>1, <3>1 DEF Dispatch, Become, Undoing, y
  <2> HIDE DEF goes, commits
  <2>2. PICK label, stage :
          /\ \/ /\ goes(label) /\ label \in InStage \ {"mint"}
                /\ label = "guardRollback" => row.stage \in Undoing
             \/ commits(stage) /\ label = "commit"
                /\ \/ row.stage = "requested" /\ stage = "provider-created"
                   \/ /\ row.stage = "alias-moved" /\ stage = "old-revoked"
                      /\ row.old = None
                   \/ row.stage = "old-revoked" /\ stage = "done"
          /\ row.stage \in Live
    BY <2>b DEF InStage, Undoing, Live, Happy
  <2> HIDE DEF y, row, k
  <2>3. /\ ex'[e].pc = label /\ ex'[e].key = k /\ ex'[e].row = row
        /\ ex'[e].at = row.stage /\ ex'[e].ctx = "stage" /\ ex'[e].token = None
        /\ label = "commit" => ex'[e].to = stage
        /\ OthersStay(e)
    <3>1. ex \in [Exec -> Execution]
      BY DEF IInv, TypeOK
    <3>2. CASE goes(label) /\ label \in InStage
      BY <1>2, <3>1, <3>2 DEF goes, OthersStay, Execution, InStage
    <3>3. CASE commits(stage) /\ label = "commit"
      BY <1>2, <3>1, <3>3 DEF commits, OthersStay, Execution
    <3> QED
      BY <2>2, <3>2, <3>3
  <2> QED
    BY <1>1, <1>3, <2>2, <2>3 DEF k, row
<1>4. Leave(e) \/ (Dispatch(e, row) /\ UNCHANGED lease /\ row.stage \notin Terminal)
  BY DEF Drive
<1> QED
  BY <1>1, <1>3, <1>4

(* What is dispatched on a row knows its stage.                            *)
LEMMA DriveStage ==
  ASSUME IInv, StageInv, NEW e \in Exec, Drive(e)
  PROVE  StageInv'
<1> DEFINE k == ex[e].key
           s == job[k].stage
           x == ex'[e]
<1>1. UNCHANGED <<job, used>> /\ k \in Key
  BY DriveMove
<1>2. CASE Leave(e)
  BY <1>1, <1>2, LeaveMove, StageStep
<1>3. CASE /\ OthersStay(e) /\ UNCHANGED lease /\ s \in Live
           /\ x.key = k /\ x.row = job[k] /\ x.at = s /\ x.ctx = "stage"
           /\ \/ /\ x.pc \in InStage \ {"mint"}
                 /\ x.pc = "guardRollback" => s \in Undoing
              \/ /\ x.pc = "commit"
                 /\ \/ s = "requested" /\ x.to = "provider-created"
                    \/ s = "alias-moved" /\ x.to = "old-revoked"
                    \/ s = "old-revoked" /\ x.to = "done"
  <2>1. s \in Reached(s) /\ s # "done"
    BY <1>3 DEF Reached, Live, Happy, Undoing
  <2>2. KnowsHandlers(x, s)
    BY <1>3 DEF KnowsHandlers, InStage
  <2>3. KnowsCommit(x, s)
    BY <1>3, Graph DEF KnowsCommit, InStage, Follows, Reached
  <2>4. StageKnown(x, job[k], used["emit"])
    BY <1>3, <2>1, <2>2, <2>3 DEF StageKnown, InStage
  <2> QED
    BY <1>1, <1>3, <2>4, StageStep
<1> QED
  BY <1>2, <1>3, DriveMove

-----------------------------------------------------------------------------
(* The actions whose moves also change a local.                            *)
SameJob(x, y) == x.key = y.key /\ x.at = y.at

(* The new token is a local until it is persisted.                         *)
LEMMA MintMove ==
  ASSUME IInv, NEW e \in Exec, Mint(e)
  PROVE  \/ /\ OthersStay(e) /\ UNCHANGED <<lease, used>>
            /\ ex'[e].pc = "persist" /\ SameJob(ex'[e], ex[e])
            /\ ex'[e].token = <<ex[e].key, minted[ex[e].key] + 1>>
            /\ ex'[e].row = ex[e].row /\ ex'[e].ctx = ex[e].ctx
         \/ Throw(e) /\ Spend("fault", MaxFaults)
<1> DEFINE y == ex[e]
           t == <<y.key, minted[y.key] + 1>>
           x == [y EXCEPT !.pc = "persist", !.token = t]
<1>1. ex \in [Exec -> Execution] /\ y \in Execution
  BY DEF IInv, TypeOK
<1>2. \/ ex' = [ex EXCEPT ![e] = x] /\ UNCHANGED <<lease, used>>
      \/ Throw(e) /\ Spend("fault", MaxFaults)
  BY DEF Mint, Become
<1> HIDE DEF t
<1>3. /\ x.pc = "persist" /\ SameJob(x, y) /\ x.token = t /\ x.row = y.row
      /\ x.ctx = y.ctx
  BY <1>1 DEF SameJob, Execution
<1> HIDE DEF x
<1>4. ex' = [ex EXCEPT ![e] = x] => ex'[e] = x /\ OthersStay(e)
  BY <1>1 DEF OthersStay
<1> QED
  BY <1>2, <1>3, <1>4 DEF t

(* The copy becomes the row that now holds the credential.                 *)
LEMMA PersistMove ==
  ASSUME IInv, NEW e \in Exec, Persist(e), Holds(e)
  PROVE  /\ OthersStay(e) /\ UNCHANGED lease
         /\ ex'[e].pc = "commit" /\ ex'[e].to = "provider-created"
         /\ SameJob(ex'[e], ex[e]) /\ ex'[e].token = None
         /\ ex'[e].row = job'[ex[e].key] /\ ex'[e].ctx = ex[e].ctx
<1> DEFINE y == ex[e]
           row == [job[y.key] EXCEPT !.token = y.token]
           x == [y EXCEPT !.pc = "commit", !.to = "provider-created",
                          !.row = row, !.token = None]
<1>1. ex \in [Exec -> Execution] /\ y \in Execution /\ job \in [Key -> Row]
      /\ y.key \in Key
  BY Knows DEF IInv, TypeOK, Persist, At
<1>2. ex' = [ex EXCEPT ![e] = x] /\ job' = [job EXCEPT ![y.key] = row]
      /\ UNCHANGED lease
  BY DEF Persist, Become, UpdateJob
<1> HIDE DEF row
<1>3. /\ x.pc = "commit" /\ x.to = "provider-created" /\ SameJob(x, y)
      /\ x.token = None /\ x.row = row /\ x.ctx = y.ctx
  BY <1>1 DEF SameJob, Execution
<1> HIDE DEF x
<1>4. ex'[e] = x /\ OthersStay(e) /\ job'[y.key] = row
  BY <1>1, <1>2 DEF OthersStay
<1> QED
  BY <1>2, <1>3, <1>4

(* The version is a local until the stage is written.                      *)
LEMMA AddVersionMove ==
  ASSUME IInv, NEW e \in Exec, AddVersion(e)
  PROVE  /\ OthersStay(e) /\ UNCHANGED lease
         /\ ex'[e].pc = "readAlias" /\ SameJob(ex'[e], ex[e])
         /\ ex'[e].row = ex[e].row /\ ex'[e].token = ex[e].token
         /\ ex'[e].ctx = ex[e].ctx
<1> DEFINE y == ex[e]
           x(n) == [y EXCEPT !.pc = "readAlias", !.version = n]
<1>1. ex \in [Exec -> Execution] /\ y \in Execution
  BY DEF IInv, TypeOK
<1>2. PICK n : ex' = [ex EXCEPT ![e] = x(n)]
  BY DEF AddVersion, Become
<1>3. /\ x(n).pc = "readAlias" /\ SameJob(x(n), y) /\ x(n).row = y.row
      /\ x(n).token = y.token /\ x(n).ctx = y.ctx
  BY <1>1 DEF SameJob, Execution
<1> HIDE DEF x
<1>4. ex'[e] = x(n) /\ OthersStay(e) /\ UNCHANGED lease
  BY <1>1, <1>2 DEF OthersStay, AddVersion
<1> QED
  BY <1>3, <1>4

(* The CAS value is read, the stage is about to be written.                *)
LEMMA ReadAliasMove ==
  ASSUME IInv, NEW e \in Exec, ReadAlias(e)
  PROVE  /\ OthersStay(e) /\ UNCHANGED lease
         /\ ex'[e].pc = "commit" /\ ex'[e].to = "staged"
         /\ Same(ex'[e], ex[e]) /\ ex'[e].ctx = ex[e].ctx
<1> DEFINE y == ex[e]
           x == [y EXCEPT !.pc = "commit", !.to = "staged", !.expected = alias]
<1>1. ex \in [Exec -> Execution] /\ y \in Execution
  BY DEF IInv, TypeOK
<1>2. ex' = [ex EXCEPT ![e] = x] /\ UNCHANGED lease
  BY DEF ReadAlias, Become
<1>3. x.pc = "commit" /\ x.to = "staged" /\ Same(x, y) /\ x.ctx = y.ctx
  BY <1>1 DEF Same, Execution
<1> HIDE DEF x
<1>4. ex'[e] = x /\ OthersStay(e)
  BY <1>1, <1>2 DEF OthersStay
<1> QED
  BY <1>2, <1>3, <1>4

(* A reloaded consumer is noted in the copy.                               *)
LEMMA ReloadedMove ==
  ASSUME IInv, NEW e \in Exec, Reloaded(e), Holds(e)
  PROVE  /\ OthersStay(e) /\ UNCHANGED lease
         /\ ex'[e].pc = "reload" /\ SameJob(ex'[e], ex[e])
         /\ SameRow(ex'[e].row, ex[e].row) /\ ex'[e].row.token = ex[e].row.token
         /\ ex'[e].token = ex[e].token /\ ex'[e].ctx = ex[e].ctx
<1> DEFINE y == ex[e]
           l == y.row
<1>1. ex \in [Exec -> Execution] /\ y \in Execution /\ l \in Row
  BY DEF IInv, TypeOK, Execution
<1>2. PICK done :
        Become(e, [y EXCEPT !.pc = "reload", !.row.reloaded = done]) /\ UNCHANGED lease
  BY DEF Reloaded
<1> DEFINE row == [l EXCEPT !.reloaded = done]
           x == [y EXCEPT !.pc = "reload", !.row = row]
<1>3. ex' = [ex EXCEPT ![e] = x]
  BY <1>2 DEF Become
<1> HIDE DEF l
<1>4. SameRow(row, l) /\ row.token = l.token
  BY <1>1 DEF SameRow, Row
<1> HIDE DEF row
<1>5. /\ x.pc = "reload" /\ SameJob(x, y) /\ x.row = row /\ x.token = y.token
      /\ x.ctx = y.ctx
  BY <1>1 DEF SameJob, Execution
<1> HIDE DEF x
<1>6. ex'[e] = x /\ OthersStay(e)
  BY <1>1, <1>3 DEF OthersStay
<1> QED
  BY <1>2, <1>4, <1>5, <1>6 DEF l

(* The record is there, the stage is about to be written.                  *)
LEMMA MarkedMove ==
  ASSUME IInv, NEW e \in Exec, Mark(e)
  PROVE  /\ OthersStay(e) /\ UNCHANGED lease
         /\ ex'[e].pc = "commit" /\ ex'[e].to = "reconcile-required"
         /\ Same(ex'[e], ex[e]) /\ ex'[e].ctx = ex[e].ctx
<1> DEFINE y == ex[e]
           x == [y EXCEPT !.pc = "commit", !.to = "reconcile-required"]
<1>1. ex \in [Exec -> Execution] /\ y \in Execution
  BY DEF IInv, TypeOK
<1>2. ex' = [ex EXCEPT ![e] = x] /\ UNCHANGED lease
  BY DEF Mark, Become
<1>3. /\ x.pc = "commit" /\ x.to = "reconcile-required" /\ Same(x, y)
      /\ x.ctx = y.ctx
  BY <1>1 DEF Same, Execution
<1> HIDE DEF x
<1>4. ex'[e] = x /\ OthersStay(e)
  BY <1>1, <1>2 DEF OthersStay
<1> QED
  BY <1>2, <1>3, <1>4

(* onStageError goes on to its appends.                                    *)
LEMMA HandlerMove ==
  ASSUME IInv, NEW e \in Exec, StageError(e), Holds(e)
  PROVE  /\ OthersStay(e) /\ UNCHANGED lease
         /\ ex'[e].pc = "emitError" /\ ex'[e].ctx = "handler"
         /\ Same(ex'[e], ex[e])
<1> DEFINE y == ex[e]
           x == [y EXCEPT !.pc = "emitError", !.ctx = "handler"]
<1>1. ex \in [Exec -> Execution] /\ y \in Execution
  BY DEF IInv, TypeOK
<1>2. ex' = [ex EXCEPT ![e] = x] /\ UNCHANGED lease
  BY DEF StageError, Become
<1>3. x.pc = "emitError" /\ x.ctx = "handler" /\ Same(x, y)
  BY <1>1 DEF Same, Execution
<1> HIDE DEF x
<1>4. ex'[e] = x /\ OthersStay(e)
  BY <1>1, <1>2 DEF OthersStay
<1> QED
  BY <1>2, <1>3, <1>4

(* The appends after a stage is written.                                   *)
LEMMA EmitMove ==
  ASSUME IInv, NEW e \in Exec, Emit(e)
  PROVE  \/ ~Holds(e) /\ FencedOut(e) /\ UNCHANGED used
         \/ Holds(e) /\ Throw(e) /\ Spend("emit", MaxEmitFaults)
         \/ /\ Holds(e) /\ ex[e].to # "rolling-back"
            /\ Goto(e, "loop") /\ UNCHANGED <<lease, used>>
         \/ /\ Holds(e) /\ ex[e].to = "rolling-back" /\ UNCHANGED <<lease, used>>
            /\ OthersStay(e) /\ ex'[e].pc = "authRollback"
            /\ SameJob(ex'[e], ex[e]) /\ ex'[e].row = job[ex[e].key]
            /\ ex'[e].token = ex[e].token /\ ex'[e].ctx = ex[e].ctx
<1> DEFINE y == ex[e]
           row == job[y.key]
           x == [y EXCEPT !.pc = "authRollback", !.row = row]
<1>1. ex \in [Exec -> Execution] /\ y \in Execution
  BY DEF IInv, TypeOK
<1>2. \/ ~Holds(e) /\ FencedOut(e) /\ UNCHANGED used
      \/ Holds(e) /\ Throw(e) /\ Spend("emit", MaxEmitFaults)
      \/ Holds(e) /\ y.to # "rolling-back" /\ Goto(e, "loop") /\ UNCHANGED <<lease, used>>
      \/ /\ Holds(e) /\ y.to = "rolling-back" /\ UNCHANGED <<lease, used>>
         /\ ex' = [ex EXCEPT ![e] = x]
  BY DEF Emit, Become
<1> HIDE DEF row
<1>3. /\ x.pc = "authRollback" /\ SameJob(x, y) /\ x.row = row
      /\ x.token = y.token /\ x.ctx = y.ctx
  BY <1>1 DEF SameJob, Execution
<1> HIDE DEF x
<1>4. ex' = [ex EXCEPT ![e] = x] => ex'[e] = x /\ OthersStay(e)
  BY <1>1 DEF OthersStay
<1> QED
  BY <1>2, <1>3, <1>4 DEF row

-----------------------------------------------------------------------------
(* Within a stage the copy is the row, so what transition() allows is an   *)
(* edge from the row's stage.                                              *)
LEMMA WithinStage ==
  ASSUME NEW x, NEW y, NEW r, NEW s, NEW n, NEW m, StageKnown(y, r, n),
         y.pc \in InStage, SameJob(x, y), x.ctx = "stage",
         x.row.stage = y.row.stage, s.stage = r.stage, n # 0 => m # 0,
         \/ /\ x.pc \in InStage \ {"guardRollback"}
            /\ x.row.version = y.row.version /\ s.version = r.version
         \/ /\ x.pc = "commit" /\ x.to # "failed"
            /\ x.to = "rolling-back" => y.at = "failed"
  PROVE  StageKnown(x, s, m)
<1>1. y.pc \notin Early \cup {"idle"} /\ y.pc # "emit"
  BY DEF InStage, Early
<1>2. /\ y.at \in Live /\ r.stage = y.at /\ y.row.stage = y.at
      /\ y.row.version = r.version /\ (r.stage = "done" => n # 0)
  BY <1>1 DEF StageKnown
<1>3. x.at = y.at /\ s.stage \in Reached(x.at)
  BY <1>2 DEF SameJob, Reached
<1>4. CASE x.pc \in InStage \ {"guardRollback"}
  <2>1. KnowsHandlers(x, s.stage) /\ KnowsCommit(x, s.stage)
    BY <1>4 DEF KnowsHandlers, KnowsCommit, InStage
  <2> QED
    BY <1>2, <1>3, <1>4, <2>1 DEF StageKnown, InStage
<1>5. CASE x.pc = "commit" /\ x.to # "failed" /\ (x.to = "rolling-back" => y.at = "failed")
  <2>1. KnowsHandlers(x, s.stage)
    BY <1>5 DEF KnowsHandlers
  <2>2. KnowsCommit(x, s.stage)
    BY <1>2, <1>3, <1>5 DEF KnowsCommit, Follows, Reached, CanTransition
  <2> QED
    BY <1>2, <1>3, <1>5, <2>1, <2>2 DEF StageKnown, InStage
<1> QED
  BY <1>4, <1>5

(* The fenced notes of a stage.                                            *)
LEMMA NoteStage ==
  ASSUME IInv, StageInv, NEW e \in Exec, Intent(e) \/ Persist(e) \/ Reloaded(e)
  PROVE  StageInv'
<1> DEFINE y == ex[e]
           k == y.key
<1>1. UNCHANGED used /\ y.pc \in InStage
  BY DEF Intent, Persist, Reloaded, At, InStage
<1>2. CASE ~Holds(e)
  <2>1. UNCHANGED job /\ FencedOut(e)
    BY <1>2 DEF Intent, Persist, Reloaded
  <2> QED
    BY <1>1, <1>2, <2>1, FencedOutMove, StageStep
<1>3. CASE Holds(e)
  <2>1. /\ k \in Key /\ OtherRowsStay(k) /\ SameRow(job'[k], job[k]) /\ lease = e
    BY <1>3, NoteWrite DEF Holds
  <2>2. StageKnown(y, job[k], used["emit"])
    BY <2>1 DEF StageInv
  <2>0. y.ctx = "stage" /\ job[k].stage = y.row.stage
    BY <1>1, <2>2 DEF StageKnown, InStage, Early
  <2>3. OthersStay(e) /\ UNCHANGED lease /\ StageKnown(ex'[e], job'[k], used["emit"])
        /\ ex'[e].key = k
    <3>1. CASE Intent(e)
      <4>1. Goto(e, "clean") /\ UNCHANGED lease
        BY <1>3, <3>1 DEF Intent
      <4> QED
        BY <1>1, <2>1, <2>2, <2>0, <4>1, GotoMove, WithinStage
           DEF Same, SameJob, SameRow, InStage
    <3>2. CASE Persist(e)
      BY <1>1, <1>3, <2>1, <2>2, <2>0, <3>2, PersistMove, WithinStage
         DEF SameJob, SameRow
    <3>3. CASE Reloaded(e)
      BY <1>1, <1>3, <2>1, <2>2, <2>0, <3>3, ReloadedMove, WithinStage
         DEF SameJob, SameRow, InStage
    <3> QED
      BY <3>1, <3>2, <3>3
  <2> QED
    BY <1>1, <2>1, <2>3, StageStep
<1> QED
  BY <1>2, <1>3

(* The other statements of a stage: they write no row.                     *)
LEMMA WorkStage ==
  ASSUME IInv, StageInv, NEW e \in Exec,
         \/ Clean(e) \/ Mint(e) \/ AddVersion(e) \/ ReadAlias(e) \/ Reload(e)
         \/ Verify(e) \/ CheckAlias(e) \/ MoveAlias(e) \/ AuthorizeRevoke(e)
         \/ Revoke(e) \/ GuardRollback(e)
  PROVE  StageInv'
<1> DEFINE y == ex[e]
           k == y.key
           x == ex'[e]
<1>1. /\ UNCHANGED job /\ y.pc \in InStage
      /\ y.pc \notin Early \cup {"idle"} /\ y.pc # "emit"
  BY DEF Clean, Mint, AddVersion, ReadAlias, Reload, Verify, CheckAlias,
         MoveAlias, AuthorizeRevoke, Revoke, GuardRollback, At, InStage, Early, store
<1>2. used'["emit"] = used["emit"]
  BY SpendEmits DEF Clean, Mint, AddVersion, ReadAlias, Reload, Verify, CheckAlias,
         MoveAlias, AuthorizeRevoke, Revoke, GuardRollback, Delete, IInv, TypeOK
<1>0. KnowsStage(y, probed)
  BY <1>1, Knows
<1>3. \/ Throw(e)
      \/ /\ OthersStay(e) /\ UNCHANGED lease /\ SameJob(x, y)
         /\ x.row = y.row /\ x.ctx \in {y.ctx, "stage"}
         /\ \/ x.pc \in InStage \ {"guardRollback"}
            \/ /\ x.pc = "commit" /\ x.to # "failed"
               /\ x.to = "rolling-back" => y.row.stage = "failed"
      \/ /\ OthersStay(e) /\ UNCHANGED lease /\ Same(x, y)
         /\ \/ y.pc = "authRevoke" /\ x.pc = "mark" /\ x.ctx = "try"
            \/ y.pc = "guardRollback" /\ x.pc = "mark" /\ x.ctx = "stage"
            \/ /\ y.pc = "guardRollback" /\ x.pc = "authRollback"
               /\ x.ctx = y.ctx /\ y.row.stage # "failed"
  <2>1. CASE Clean(e)
    BY <2>1, GotoMove DEF Clean, InStage, Same, SameJob
  <2>2. CASE Mint(e)
    BY <2>2, MintMove DEF InStage, SameJob
  <2>3. CASE AddVersion(e)
    BY <2>3, AddVersionMove DEF InStage
  <2>4. CASE ReadAlias(e)
    BY <2>4, ReadAliasMove DEF Same, SameJob
  <2>5. CASE Reload(e)
    BY <2>5, CommitMove, GotoMove DEF Reload, InStage, Same, SameJob
  <2>6. CASE Verify(e)
    BY <2>6, CommitMove DEF Verify, Same, SameJob
  <2>7. CASE CheckAlias(e)
    BY <2>7, CommitMove, GotoMove DEF CheckAlias, InStage, Same, SameJob
  <2>8. CASE MoveAlias(e)
    BY <2>8, CommitMove DEF MoveAlias, Same, SameJob
  <2>9. CASE AuthorizeRevoke(e)
    BY <2>9, GotoMove, MarkMove DEF AuthorizeRevoke, At, InStage, Same, SameJob
  <2>10. CASE Revoke(e)
    BY <2>10, CommitMove DEF Revoke, Delete, Same, SameJob
  <2>11. CASE GuardRollback(e)
    BY <2>11, CommitMove, GotoMove, MarkMove DEF GuardRollback, At, Same, SameJob
  <2> QED
    BY <2>1, <2>2, <2>3, <2>4, <2>5, <2>6, <2>7, <2>8, <2>9, <2>10, <2>11
<1>4. ASSUME lease = e, lease' = e
      PROVE  StageKnown(x, job[k], used["emit"]) /\ x.key = k
  <2>1. StageKnown(y, job[k], used["emit"])
    BY <1>4 DEF StageInv
  <2>2. /\ y.ctx = "stage" /\ job[k].stage = y.row.stage /\ y.at = y.row.stage
        /\ y.at \in Live /\ (job[k].stage = "done" => used["emit"] # 0)
    BY <1>1, <2>1 DEF StageKnown
  <2>3. CASE Throw(e)
    <3>1. x.key = k
      BY <1>4, <2>3, ThrowMove DEF Same
    <3> QED
      BY <1>1, <1>4, <2>1, <2>3, <3>1, ThrowStage
  <2>4. CASE /\ SameJob(x, y) /\ x.row = y.row /\ x.ctx \in {y.ctx, "stage"}
             /\ \/ x.pc \in InStage \ {"guardRollback"}
                \/ /\ x.pc = "commit" /\ x.to # "failed"
                   /\ x.to = "rolling-back" => y.row.stage = "failed"
    <3>1. y.row.version = job[k].version
      BY <1>1, <2>1 DEF StageKnown
    <3>2. StageKnown(x, job[k], used["emit"])
      BY <1>1, <2>1, <2>2, <2>4, <3>1, WithinStage
    <3> QED
      BY <2>4, <3>2 DEF SameJob
  <2>5. CASE /\ Same(x, y)
             /\ \/ y.pc = "authRevoke" /\ x.pc = "mark" /\ x.ctx = "try"
                \/ y.pc = "guardRollback" /\ x.pc = "mark" /\ x.ctx = "stage"
    <3>1. \/ y.at = "alias-moved" /\ x.ctx = "try"
          \/ y.at \in Undoing /\ x.ctx = "stage"
      BY <1>0, <1>1, <2>1, <2>5 DEF StageKnown, KnowsStage
    <3>2. x.at = y.at /\ x.key = k /\ x.pc = "mark"
      BY <2>5 DEF Same
    <3>3. y.at \in Reached(y.at)
      BY DEF Reached
    <3>4. KnowsHandlers(x, job[k].stage) /\ KnowsCommit(x, job[k].stage)
      BY <2>2, <3>1, <3>2 DEF KnowsHandlers, KnowsCommit, MayGiveUp, PostPublish
    <3> QED
      BY <2>2, <3>1, <3>2, <3>3, <3>4 DEF StageKnown, InStage
  <2>6. CASE /\ Same(x, y) /\ y.pc = "guardRollback" /\ x.pc = "authRollback"
             /\ x.ctx = y.ctx /\ y.row.stage # "failed"
    <3>1. y.at = "rolling-back"
      BY <1>1, <2>1, <2>2, <2>6 DEF StageKnown, Undoing
    <3>2. /\ x.at = y.at /\ x.key = k /\ x.row = y.row /\ x.ctx = "stage"
      BY <2>2, <2>6 DEF Same
    <3>3. y.at \in Reached(y.at)
      BY DEF Reached
    <3>4. KnowsHandlers(x, job[k].stage) /\ KnowsCommit(x, job[k].stage)
      BY <2>6, <3>2 DEF KnowsHandlers, KnowsCommit
    <3> QED
      BY <2>2, <2>6, <3>1, <3>2, <3>3, <3>4 DEF StageKnown, InStage, Undoing
  <2> QED
    BY <1>3, <2>3, <2>4, <2>5, <2>6
<1>5. OthersStay(e) /\ lease' \in {lease, None}
  BY <1>3, ThrowMove
<1>6. lease' = e => lease = e
  BY <1>5, EngineAssumption
<1>7. lease' = e => StageKnown(x, job'[x.key], used'["emit"])
  BY <1>1, <1>2, <1>4, <1>6
<1> QED
  BY <1>1, <1>2, <1>5, <1>7, StageStep

(* Rolling back, handling errors and giving up.                            *)
LEMMA UndoStage ==
  ASSUME IInv, StageInv, NEW e \in Exec,
         \/ AuthorizeRollback(e) \/ Rollback(e) \/ RollbackError(e) \/ Mark(e)
         \/ StageError(e) \/ AfterStageError(e) \/ EffectFails(e)
  PROVE  StageInv'
<1> DEFINE y == ex[e]
           k == y.key
           x == ex'[e]
<1>1. /\ UNCHANGED job /\ y.pc \notin Early \cup {"idle"} /\ y.pc # "emit"
      /\ used["emit"] # 0 => used'["emit"] # 0
  <2>1. UNCHANGED job /\ y.pc \notin Early \cup {"idle"} /\ y.pc # "emit"
    BY DEF AuthorizeRollback, Rollback, RollbackError, Mark, StageError,
           AfterStageError, EffectFails, At, Early, store
  <2>2. used' = used \/ Spend("fault", MaxFaults) \/ Spend("emit", MaxEmitFaults)
    BY DEF AuthorizeRollback, Rollback, RollbackError, Mark, StageError,
           AfterStageError, EffectFails, Delete
  <2>3. used["emit"] # 0 => used'["emit"] # 0
    BY <2>2, SpendEmits DEF IInv, TypeOK
  <2> QED
    BY <2>1, <2>3
<1>0. KnowsStage(y, probed)
  BY <1>1, Knows
<1>2. \/ Throw(e)
      \/ Leave(e)
      \/ OthersStay(e) /\ UNCHANGED lease /\ x.pc = "loop" /\ x.key = k
      \/ /\ OthersStay(e) /\ UNCHANGED lease /\ Same(x, y)
         /\ \/ y.pc = "authRollback" /\ x.pc = "rollback" /\ x.ctx = y.ctx
            \/ y.pc = "authRollback" /\ x.pc = "mark" /\ x.ctx = "try"
            \/ /\ y.pc = "rollback" /\ x.pc = "commit" /\ x.to = "rolled-back"
               /\ x.ctx = "stage"
            \/ y.pc = "rollbackError" /\ x.pc = "mark" /\ x.ctx = "stage"
            \/ /\ y.pc = "mark" /\ x.pc = "commit" /\ x.ctx = y.ctx
               /\ x.to = "reconcile-required"
            \/ y.pc = "error" /\ x.pc = "emitError" /\ x.ctx = "handler"
            \/ /\ y.pc = "emitError" /\ x.pc = "mark" /\ x.ctx = "handler"
               /\ y.at \in PostPublish
            \/ /\ y.pc = "emitError" /\ x.pc = "commit" /\ x.ctx = "handler"
               /\ x.to = "failed" /\ y.at \notin PostPublish
  <2>1. CASE AuthorizeRollback(e)
    BY <2>1, GotoMove, MarkMove DEF AuthorizeRollback, At
  <2>2. CASE Rollback(e)
    BY <2>2, CommitMove DEF Rollback, Delete, At
  <2>3. CASE RollbackError(e)
    BY <2>3, GotoMove, MarkMove DEF RollbackError, At, Same
  <2>4. CASE Mark(e)
    BY <2>4, MarkedMove DEF Mark, At
  <2>5. CASE StageError(e)
    <3>1. CASE Holds(e)
      BY <2>5, <3>1, HandlerMove DEF StageError, At
    <3> QED
      BY <2>5, <3>1 DEF StageError
  <2>6. CASE AfterStageError(e)
    BY <2>6, GotoMove, MarkMove, CommitMove DEF AfterStageError, At, Same
  <2>7. CASE EffectFails(e)
    BY <2>7 DEF EffectFails
  <2> QED
    BY <2>1, <2>2, <2>3, <2>4, <2>5, <2>6, <2>7
<1>4. ASSUME lease = e, lease' = e
      PROVE  StageKnown(x, job[k], used'["emit"]) /\ x.key = k
  <2>1. StageKnown(y, job[k], used["emit"])
    BY <1>4 DEF StageInv
  <2> DEFINE s == job[k].stage
             m == used'["emit"]
  <2>2. /\ y.at \in Live /\ s \in Reached(y.at) /\ (s = "done" => m # 0)
        /\ KnowsHandlers(y, s)
    BY <1>1, <2>1 DEF StageKnown
  <2>3. CASE Throw(e)
    <3>1. x.key = k
      BY <1>4, <2>3, ThrowMove DEF Same
    <3> QED
      BY <1>1, <1>4, <2>1, <2>3, <3>1, ThrowStage
  <2>4. CASE Leave(e)
    BY <1>4, <2>4, LeaveMove
  <2>5. CASE x.pc = "loop" /\ x.key = k
    BY <2>5 DEF StageKnown, Early
  <2>6. ASSUME Same(x, y), x.pc \notin InStage \cup {"authRollback"},
               KnowsHandlers(x, s), KnowsCommit(x, s), x.pc # "emit",
               x.pc = "rollback" => y.pc = "authRollback" /\ x.ctx = y.ctx
        PROVE  StageKnown(x, job[k], m) /\ x.key = k
    <3>1. x.at = y.at /\ x.key = k /\ x.row = y.row
      BY <2>6 DEF Same
    <3>2. x.pc = "rollback" => /\ x.at \in Undoing /\ x.ctx = "stage"
            /\ job[k].stage = "rolling-back" /\ x.row.stage = "rolling-back"
      BY <1>1, <2>1, <2>6, <3>1 DEF StageKnown
    <3>3. x.pc # "guardRollback"
      BY <2>6 DEF InStage
    <3> QED
      BY <2>2, <2>6, <3>1, <3>2, <3>3 DEF StageKnown
  <2>7. CASE Same(x, y) /\ y.pc = "authRollback" /\ x.pc = "rollback" /\ x.ctx = y.ctx
    <3>1. KnowsHandlers(x, s) /\ KnowsCommit(x, s)
      BY <2>2, <2>7 DEF KnowsHandlers, KnowsCommit, Same
    <3> QED
      BY <2>6, <2>7, <3>1 DEF InStage
  <2>8. CASE Same(x, y) /\ y.pc = "authRollback" /\ x.pc = "mark" /\ x.ctx = "try"
    <3>1. y.at \in Undoing /\ s = "rolling-back"
      BY <1>1, <2>1, <2>8 DEF StageKnown
    <3>2. KnowsHandlers(x, s) /\ KnowsCommit(x, s)
      BY <2>8, <3>1 DEF KnowsHandlers, KnowsCommit, Same, MayGiveUp, Undoing
    <3> QED
      BY <2>6, <2>8, <3>2 DEF InStage
  <2>9. CASE /\ Same(x, y) /\ y.pc = "rollback" /\ x.pc = "commit"
             /\ x.to = "rolled-back" /\ x.ctx = "stage"
    <3>1. y.at \in Undoing /\ s = "rolling-back"
      BY <1>1, <2>1, <2>9 DEF StageKnown
    <3>2. KnowsHandlers(x, s) /\ KnowsCommit(x, s)
      BY <2>9, <3>1, Graph
         DEF KnowsHandlers, KnowsCommit, Same, Follows, Reached, Undoing
    <3> QED
      BY <2>6, <2>9, <3>2 DEF InStage
  <2>10. CASE Same(x, y) /\ y.pc = "rollbackError" /\ x.pc = "mark" /\ x.ctx = "stage"
    <3>1. KnowsHandlers(x, s) /\ KnowsCommit(x, s)
      BY <2>2, <2>10 DEF KnowsHandlers, KnowsCommit, Same, MayGiveUp, Undoing
    <3> QED
      BY <2>6, <2>10, <3>1 DEF InStage
  <2>11. CASE /\ Same(x, y) /\ y.pc = "mark" /\ x.pc = "commit" /\ x.ctx = y.ctx
              /\ x.to = "reconcile-required"
    <3>1. /\ y.at \in PostPublish \cup Undoing /\ MayGiveUp(s)
          /\ KnowsHandlers(x, s)
      BY <2>2, <2>11 DEF KnowsHandlers, Same
    <3>2. Follows(s, "reconcile-required")
      BY <3>1, Graph DEF MayGiveUp, PostPublish, Undoing, Follows
    <3>3. "reconcile-required" \in Reached(y.at)
      BY <3>1, Graph DEF PostPublish, Undoing, Reached
    <3>4. KnowsCommit(x, s)
      BY <2>11, <3>2, <3>3 DEF KnowsCommit, Same
    <3> QED
      BY <2>6, <2>11, <3>1, <3>4 DEF InStage
  <2>12. CASE Same(x, y) /\ y.pc = "error" /\ x.pc = "emitError" /\ x.ctx = "handler"
    <3>1. KnowsHandlers(x, s) /\ KnowsCommit(x, s)
      BY <2>2, <2>12 DEF KnowsHandlers, KnowsCommit, Same
    <3> QED
      BY <2>6, <2>12, <3>1 DEF InStage
  <2>13. CASE /\ Same(x, y) /\ y.pc = "emitError" /\ x.pc = "mark"
              /\ x.ctx = "handler" /\ y.at \in PostPublish
    <3>1. MayGiveUp(s)
      BY <2>2, <2>13, Graph DEF MayGiveUp, PostPublish, Reached
    <3>2. KnowsHandlers(x, s) /\ KnowsCommit(x, s)
      BY <2>13, <3>1 DEF KnowsHandlers, KnowsCommit, Same
    <3> QED
      BY <2>6, <2>13, <3>2 DEF InStage
  <2>14. CASE /\ Same(x, y) /\ y.pc = "emitError" /\ x.pc = "commit"
              /\ x.ctx = "handler" /\ x.to = "failed" /\ y.at \notin PostPublish
    <3>1. x.row.stage = y.at
      BY <2>2, <2>14 DEF KnowsHandlers, Same
    <3>2. CanTransition(y.at, "failed") => Follows(s, "failed")
      <4>1. y.at \in Happy \cup Undoing
        BY <2>2 DEF Live
      <4> QED
        BY <2>2, <2>14, <4>1, Graph
           DEF CanTransition, Follows, Reached, PostPublish, Happy, Undoing
    <3>3. KnowsHandlers(x, s) /\ KnowsCommit(x, s)
      BY <2>14, <3>1, <3>2 DEF KnowsHandlers, KnowsCommit
    <3> QED
      BY <2>6, <2>14, <3>3 DEF InStage
  <2> QED
    BY <1>2, <2>3, <2>4, <2>5, <2>7, <2>8, <2>9, <2>10, <2>11, <2>12, <2>13,
       <2>14
<1>5. OthersStay(e) /\ lease' \in {lease, None}
  BY <1>2, ThrowMove, LeaveMove
<1>6. lease' = e => lease = e
  BY <1>5, EngineAssumption
<1>7. lease' = e => StageKnown(x, job'[x.key], used'["emit"])
  BY <1>1, <1>4, <1>6
<1> QED
  BY <1>1, <1>5, <1>7, StageStep

(* Writing the stage, and the appends after it.                            *)
LEMMA WriteStage ==
  ASSUME IInv, StageInv, NEW e \in Exec, Commit(e) \/ Emit(e)
  PROVE  StageInv'
<1> DEFINE y == ex[e]
           k == y.key
           x == ex'[e]
<1>1. y.pc \notin Early \cup {"idle"}
  BY DEF Commit, Emit, At, Early
<1>2. CASE UNCHANGED job /\ ~Holds(e) /\ FencedOut(e) /\ UNCHANGED used
  BY <1>2, FencedOutMove, StageStep
<1>3. CASE /\ UNCHANGED job /\ Throw(e) /\ (used["emit"] # 0 => used'["emit"] # 0)
           /\ y.pc = "emit" => used'["emit"] # 0
  <2>1. OthersStay(e) /\ lease' \in {lease, None}
    BY <1>3, ThrowMove
  <2>2. ASSUME lease' = e PROVE StageKnown(x, job'[x.key], used'["emit"])
    <3>1. lease = e
      BY <2>1, <2>2, EngineAssumption
    <3>2. StageKnown(y, job[k], used["emit"])
      BY <3>1 DEF StageInv
    <3>3. x.key = k
      BY <1>3, <2>2, ThrowMove DEF Same
    <3> QED
      BY <1>1, <1>3, <2>2, <3>2, <3>3, ThrowStage
  <2> QED
    BY <1>3, <2>1, <2>2, StageStep
<1>4. CASE Commit(e)
  <2>1. UNCHANGED used /\ y.pc = "commit"
    BY <1>4 DEF Commit, At
  <2>2. CASE /\ Holds(e) /\ k \in Key /\ OtherRowsStay(k)
             /\ CanTransition(y.row.stage, y.to)
             /\ Goto(e, "emit") /\ UNCHANGED lease
             /\ job'[k].stage = y.to
    <3>1. StageKnown(y, job[k], used["emit"])
      BY <2>2 DEF StageInv, Holds
    <3>2. /\ OthersStay(e) /\ Same(x, y) /\ x.pc = "emit" /\ x.to = y.to
          /\ x.ctx = y.ctx
      BY <2>2, GotoMove
    <3>3. /\ y.at \in Live /\ KnowsHandlers(y, job[k].stage)
          /\ KnowsCommit(y, job[k].stage)
      BY <1>1, <3>1 DEF StageKnown
    <3>4. KnowsHandlers(x, y.to)
      BY <2>1, <3>2, <3>3 DEF KnowsHandlers, KnowsCommit, Same
    <3>5. KnowsCommit(x, y.to) /\ (x.ctx = "handler" \/ y.to \in Reached(x.at))
      BY <2>1, <2>2, <3>2, <3>3 DEF KnowsCommit, Same
    <3>6. StageKnown(x, job'[k], used'["emit"]) /\ x.key = k
      BY <2>1, <2>2, <3>2, <3>3, <3>4, <3>5 DEF StageKnown, InStage, Same
    <3> QED
      BY <2>1, <2>2, <3>2, <3>6, StageStep DEF Holds
  <2> QED
    BY <1>2, <1>3, <1>4, <2>1, <2>2, CommitWrite
<1>5. CASE Emit(e)
  <2>1. UNCHANGED job /\ y.pc = "emit"
    BY <1>5 DEF Emit, At, store
  <2>2. CASE Holds(e) /\ Throw(e) /\ Spend("emit", MaxEmitFaults)
    <3>1. used["emit"] \in Nat /\ used'["emit"] = used["emit"] + 1
      BY <2>2, SpendEmits DEF IInv, TypeOK
    <3>2. used'["emit"] # 0
      BY <3>1
    <3> QED
      BY <1>3, <2>1, <2>2, <3>2
  <2>3. CASE Goto(e, "loop") /\ UNCHANGED <<lease, used>>
    <3>1. OthersStay(e) /\ StageKnown(x, job'[x.key], used'["emit"])
      BY <2>3, GotoMove DEF StageKnown, Early
    <3> QED
      BY <2>1, <2>3, <3>1, StageStep
  <2>4. CASE /\ Holds(e) /\ y.to = "rolling-back" /\ UNCHANGED <<lease, used>>
             /\ OthersStay(e) /\ x.pc = "authRollback" /\ SameJob(x, y)
             /\ x.row = job[k] /\ x.ctx = y.ctx
    <3>1. StageKnown(y, job[k], used["emit"])
      BY <2>4 DEF StageInv, Holds
    <3>2. /\ x.at = "failed" /\ x.ctx = "stage" /\ x.key = k
          /\ job[k].stage = "rolling-back"
      BY <1>1, <2>1, <2>4, <3>1 DEF StageKnown, KnowsCommit, SameJob
    <3>3. KnowsHandlers(x, job[k].stage) /\ KnowsCommit(x, job[k].stage)
      BY <2>4, <3>2 DEF KnowsHandlers, KnowsCommit
    <3>4. job[k].stage \in Reached(x.at)
      BY <3>2, Graph DEF Reached
    <3>5. StageKnown(x, job[k], used["emit"])
      BY <2>4, <3>2, <3>3, <3>4 DEF StageKnown, InStage, Live, Undoing
    <3> QED
      BY <2>1, <2>4, <3>2, <3>5, StageStep
  <2> QED
    BY <1>2, <1>5, <2>1, <2>2, <2>3, <2>4, EmitMove
<1> QED
  BY <1>4, <1>5

(* Every step keeps what the holder of the lease knows.                    *)
LEMMA StageNext == IInv /\ StageInv /\ [Next]_vars => StageInv'
<1> SUFFICES ASSUME IInv, StageInv, [Next]_vars PROVE StageInv'
  OBVIOUS
<1>1. ASSUME NEW e \in Exec, Step(e) PROVE StageInv'
  <2>1. CASE Lookup(e) \/ Acquire(e) \/ Insert(e)
    <3>1. ex[e].key \in Key
      BY <2>1, Knows DEF Lookup, Acquire, Insert, At
    <3> QED
      BY <2>1, <3>1, ClaimingStage
  <2> QED
    BY <1>1, <2>1, DriveStage, NoteStage, WorkStage, UndoStage, WriteStage DEF Step
<1>2. ASSUME NEW e \in Exec, Crash(e) PROVE StageInv'
  <2>1. ex[e].key \in Key
    BY <1>2, Knows DEF Crash, At
  <2> QED
    BY <1>2, <2>1, ClaimingStage
<1>3. ASSUME NEW e \in Exec, Stall(e) PROVE StageInv'
  <2>1. UNCHANGED <<job, ex>> /\ lease' = None
    BY <1>3 DEF Stall, store
  <2> QED
    BY <2>1, EngineAssumption DEF StageInv
<1>4. CASE GhostExpires
  BY <1>4, EngineAssumption DEF GhostExpires, StageInv
<1>5. CASE UNCHANGED vars
  BY <1>5 DEF vars, store, StageInv
<1> QED
  BY <1>1, <1>2, <1>3, <1>4, <1>5, ClaimingStage, UndoStage DEF Next

(* The holder of the lease knows the stage of its row.                     *)
THEOREM StageInvariant == Spec => []StageInv
<1>1. Init => StageInv
  BY EngineAssumption DEF Init, StageInv
<1> QED
  BY <1>1, StageNext, EngineInvariant, PTL DEF Spec

(* What a step may do to the stage of a row.                               *)
LEMMA RowsFollow ==
  ASSUME IInv, StageInv, [Next]_vars, NEW k \in Key, job'[k].stage # job[k].stage
  PROVE  \/ job[k].stage = "absent" /\ job'[k].stage = "requested"
         \/ job[k].stage # "absent" /\ CanTransition(job[k].stage, job'[k].stage)
         \/ /\ job[k].stage = "done" /\ job'[k].stage = "reconcile-required"
            /\ used["emit"] # 0
<1>1. PICK e \in Exec : Writes(e)
  <2>1. GhostExpires \/ UNCHANGED vars => UNCHANGED job
    BY DEF GhostExpires, vars, store
  <2> QED
    BY <2>1, RowsStay DEF Next
<1>2. CASE Insert(e)
  BY <1>2, InsertWrite DEF OtherRowsStay
<1>3. CASE Intent(e) \/ Persist(e) \/ Reloaded(e)
  BY <1>3, NoteWrite DEF OtherRowsStay, SameRow
<1>4. CASE Commit(e)
  <2> DEFINE y == ex[e]
  <2>1. /\ Holds(e) /\ y.key \in Key /\ OtherRowsStay(y.key)
        /\ CanTransition(y.row.stage, y.to) /\ job'[y.key].stage = y.to
    BY <1>4, CommitWrite
  <2>2. y.key = k
    BY <2>1 DEF OtherRowsStay
  <2>3. y.pc = "commit" /\ y.pc \notin Early \cup {"idle"}
    BY <1>4 DEF Commit, At, Early
  <2>4. StageKnown(y, job[k], used["emit"])
    BY <2>1, <2>2 DEF StageInv, Holds
  <2>5. Follows(job[k].stage, y.to) /\ (job[k].stage = "done" => used["emit"] # 0)
    BY <2>1, <2>3, <2>4 DEF StageKnown, KnowsCommit
  <2>6. job[k].stage # "absent"
    BY <2>2, <2>3, Knows DEF KnowsJob
  <2> QED
    BY <2>1, <2>2, <2>5, <2>6 DEF Follows, CanTransition
<1> QED
  BY <1>1, <1>2, <1>3, <1>4 DEF Writes

(* Whoever writes, whatever overlaps: rows move along the edges of the     *)
(* graph, but for a job reopened after an append failed behind `done`.     *)
THEOREM RowsFollowGraph == Spec => RowFollowsGraph
<1>1. IInv /\ StageInv /\ [Next]_vars =>
        [\A k \in Key : job'[k].stage # job[k].stage =>
           \/ job[k].stage = "absent" /\ job'[k].stage = "requested"
           \/ job[k].stage # "absent" /\ CanTransition(job[k].stage, job'[k].stage)
           \/ /\ job[k].stage = "done" /\ job'[k].stage = "reconcile-required"
              /\ used["emit"] # 0]_vars
  BY RowsFollow
<1> QED
  BY <1>1, StageInvariant, EngineInvariant, PTL DEF Spec, RowFollowsGraph

-----------------------------------------------------------------------------
(* Where the locals x of an execution come from when e moves from y to x.  *)

(* The places on the way to deleting the credential of a job.              *)
Retreating(x) == \/ x.pc \in {"authRollback", "rollback"}
                 \/ x.pc = "commit" /\ x.to \in {"rolling-back", "rolled-back"}
                 \/ x.pc = "emit" /\ x.to = "rolling-back"
Gone == {"old-revoked", "done"}

(* The job, its credential and the one it supersedes.                      *)
JobFrom(x, y, e) ==
  /\ x.pc \notin {"idle", "lookup", "acquire"} => x.key = y.key
  /\ x.pc \notin Early \cup {"idle"} =>
       \/ /\ y.pc \notin Early \cup {"idle"}
          /\ x.row.old = y.row.old
       \/ x.row.old = job'[x.key].old
  /\ x.pc \in {"lookup", "acquire", "insert"} =>
       \/ x.row.old \in Superseded \cup {None}
       \/ /\ y.pc \in {"lookup", "acquire"}
          /\ x.row.old = y.row.old
  /\ x.token # None =>
       /\ x.key = y.key
       /\ \/ x.token = y.token
          \/ x.token = <<y.key, minted[y.key] + 1>> /\ Mint(e)

(* Transitions about to be written.                                        *)
CommitFrom(x, y, e) == x.pc = "commit" =>
  /\ x.to = "reconcile-required" => Mark(e)
  /\ x.to \in Gone =>
       \/ live' = live \ {y.row.old} /\ x.row.old = y.row.old
       \/ /\ UNCHANGED live /\ x.row.old = job[x.key].old
          /\ x.row.old = None \/ job[x.key].stage = "old-revoked"
  /\ x.to = "verified" =>
       UNCHANGED live /\ x.row.token = y.row.token /\ y.row.token \in live
  /\ x.to = "alias-moved" =>
       alias' = x.row.version /\ x.row.version = y.row.version

(* Steps towards a rollback and towards a mint.                            *)
EffectFrom(x, y, e) ==
  /\ Retreating(x) =>
       \/ Retreating(y)
       \/ /\ y.pc = "guardRollback" /\ GuardRollback(e)
          /\ y.row.version = 0 \/ alias # y.row.version
  /\ x.pc = "mint" => live' = live \ Orphans(y.key)

From(e) == /\ JobFrom(ex'[e], ex[e], e) /\ CommitFrom(ex'[e], ex[e], e)
           /\ EffectFrom(ex'[e], ex[e], e)

(* An error, or leaving, leads to none of these places.                    *)
LEMMA ThrowFrom ==
  ASSUME IInv, NEW e \in Exec, ex[e].pc \notin Early \cup {"idle"},
         Throw(e) \/ Leave(e) \/ FencedOut(e)
  PROVE  OthersStay(e) /\ lease' \in {lease, None} /\ From(e)
<1> DEFINE y == ex[e]
           x == ex'[e]
<1>1. /\ OthersStay(e) /\ lease' \in {lease, None}
      /\ \/ x.pc = "idle" /\ x = Idle
         \/ /\ x.pc \in {"mark", "rollbackError", "error"}
            /\ x.key = y.key /\ x.token = y.token /\ x.row.old = y.row.old
  BY ThrowMove, LeaveMove DEF FencedOut, Same
<1> HIDE DEF x, y
<1>2. CASE x.pc = "idle" /\ x = Idle
  <2>1. x.token = None
    BY <1>2 DEF Idle
  <2>2. JobFrom(x, y, e) /\ CommitFrom(x, y, e) /\ EffectFrom(x, y, e)
    BY <1>2, <2>1 DEF JobFrom, CommitFrom, EffectFrom, Retreating, Early
  <2> QED
    BY <1>1, <2>2 DEF From, x, y
<1>3. CASE /\ x.pc \in {"mark", "rollbackError", "error"}
           /\ x.key = y.key /\ x.token = y.token /\ x.row.old = y.row.old
  <2>1. y.pc \notin Early \cup {"idle"}
    BY DEF y
  <2>2. JobFrom(x, y, e) /\ CommitFrom(x, y, e) /\ EffectFrom(x, y, e)
    BY <1>3, <2>1 DEF JobFrom, CommitFrom, EffectFrom, Retreating
  <2> QED
    BY <1>1, <2>2 DEF From, x, y
<1> QED
  BY <1>1, <1>2, <1>3

(* A move that keeps the job and starts neither a rollback nor a mint.     *)
LEMMA MoveFrom ==
  ASSUME NEW e \in Exec, ex[e].pc \notin Early \cup {"idle"},
         ex'[e].key = ex[e].key, ex'[e].row.old = ex[e].row.old,
         ex'[e].token \in {ex[e].token, None},
         ex'[e].pc \notin {"lookup", "acquire", "insert", "mint"},
         Retreating(ex'[e]) => Retreating(ex[e]),
         CommitFrom(ex'[e], ex[e], e)
  PROVE  From(e)
<1> DEFINE y == ex[e]
           x == ex'[e]
<1> HIDE DEF x, y
<1>1. JobFrom(x, y, e) /\ EffectFrom(x, y, e)
  BY DEF JobFrom, EffectFrom, x, y
<1> QED
  BY <1>1 DEF From, x, y

(* Claiming a job and reading its row.                                     *)
LEMMA ClaimFrom ==
  ASSUME IInv, NEW e \in Exec, NEW k \in Key,
         Request(e, k) \/ Resume(e, k) \/ Lookup(e) \/ Acquire(e) \/ Insert(e)
  PROVE  OthersStay(e) /\ From(e)
<1> DEFINE y == ex[e]
           x == ex'[e]
<1>1. CASE Request(e, k) \/ Resume(e, k)
  <2>1. /\ OthersStay(e) /\ x.pc \in {"lookup", "acquire"} /\ x.token = None
        /\ x.row.old \in Superseded \cup {None}
    BY <1>1, AskMove
  <2> QED
    BY <2>1 DEF From, JobFrom, CommitFrom, EffectFrom, Retreating, Early
<1>2. CASE Lookup(e) \/ Acquire(e) \/ Insert(e)
  <2>1. /\ OthersStay(e)
        /\ \/ x.pc = "idle" /\ x = Idle
           \/ /\ Same(x, y)
              /\ \/ x.pc \in {"acquire", "insert"} /\ y.pc \in {"lookup", "acquire"}
                 \/ x.pc = "loop"
    BY <1>2, GotoMove, LeaveMove DEF Lookup, Acquire, Insert, At
  <2>2. x = Idle => x.token = None
    BY DEF Idle
  <2> HIDE DEF x
  <2>3. JobFrom(x, y, e) /\ CommitFrom(x, y, e) /\ EffectFrom(x, y, e)
    BY <2>1, <2>2 DEF JobFrom, CommitFrom, EffectFrom, Retreating, Early, Same
  <2> QED
    BY <2>1, <2>3 DEF From, x
<1> QED
  BY <1>1, <1>2

(* Being dispatched on a row.                                              *)
LEMMA DriveFrom ==
  ASSUME IInv, NEW e \in Exec, Drive(e)
  PROVE  OthersStay(e) /\ From(e)
<1> DEFINE k == ex[e].key
           s == job[k].stage
           y == ex[e]
           x == ex'[e]
<1>1. UNCHANGED <<job, live>>
  BY DEF Drive, store, cloud
<1>2. /\ OthersStay(e)
      /\ \/ x.pc = "idle" /\ x.token = None
         \/ /\ x.key = k /\ x.row = job[k] /\ x.token = None
            /\ \/ x.pc \in InStage \ {"mint"}
               \/ /\ x.pc = "commit"
                  /\ \/ x.to = "provider-created"
                     \/ x.to = "old-revoked" /\ job[k].old = None
                     \/ x.to = "done" /\ s = "old-revoked"
  BY DriveMove, LeaveMove DEF Idle
<1> HIDE DEF x
<1>3. CASE x.pc = "idle" /\ x.token = None
  BY <1>2, <1>3 DEF From, JobFrom, CommitFrom, EffectFrom, Retreating, x
<1>4. CASE /\ x.key = k /\ x.row = job[k] /\ x.token = None
           /\ \/ x.pc \in InStage \ {"mint"}
              \/ /\ x.pc = "commit"
                 /\ \/ x.to = "provider-created"
                    \/ x.to = "old-revoked" /\ job[k].old = None
                    \/ x.to = "done" /\ s = "old-revoked"
  <2>1. JobFrom(x, y, e)
    BY <1>1, <1>4 DEF JobFrom, InStage
  <2>2. CommitFrom(x, y, e)
    BY <1>1, <1>4 DEF CommitFrom, InStage, Gone
  <2>3. EffectFrom(x, y, e)
    BY <1>4 DEF EffectFrom, InStage, Retreating
  <2> QED
    BY <1>2, <2>1, <2>2, <2>3 DEF From, x
<1> QED
  BY <1>2, <1>3, <1>4

(* Minting: the orphans are gone, then the token is new.                   *)
LEMMA MintFrom ==
  ASSUME IInv, NEW e \in Exec, Intent(e) \/ Clean(e) \/ Mint(e) \/ Persist(e)
  PROVE  OthersStay(e) /\ From(e)
<1> DEFINE y == ex[e]
           x == ex'[e]
<1>1. y.pc \notin Early \cup {"idle"} /\ ~Retreating(y)
  BY DEF Intent, Clean, Mint, Persist, At, Early, Retreating
<1>2. CASE Throw(e) \/ FencedOut(e)
  BY <1>1, <1>2, ThrowFrom
<1>3. CASE Goto(e, "clean")
  <2>1. OthersStay(e) /\ Same(x, y) /\ x.pc = "clean"
    BY <1>3, GotoMove
  <2>2. CommitFrom(x, y, e) /\ ~Retreating(x)
    BY <2>1 DEF CommitFrom, Retreating
  <2> QED
    BY <1>1, <2>1, <2>2, MoveFrom DEF Same
<1>4. CASE Clean(e) /\ Goto(e, "mint") /\ live' = live \ Orphans(y.key)
  <2>1. OthersStay(e) /\ Same(x, y) /\ x.pc = "mint"
    BY <1>4, GotoMove
  <2> HIDE DEF x
  <2>2. JobFrom(x, y, e)
    BY <1>1, <2>1 DEF JobFrom, Same
  <2>3. CommitFrom(x, y, e) /\ EffectFrom(x, y, e)
    BY <1>4, <2>1 DEF CommitFrom, EffectFrom, Retreating
  <2> QED
    BY <2>1, <2>2, <2>3 DEF From, x
<1>5. CASE Mint(e) /\ ~Throw(e)
  <2>1. /\ OthersStay(e) /\ SameJob(x, y) /\ x.pc = "persist"
        /\ x.token = <<y.key, minted[y.key] + 1>> /\ x.row = y.row
    BY <1>5, MintMove
  <2> HIDE DEF x
  <2>2. JobFrom(x, y, e)
    BY <1>1, <1>5, <2>1 DEF JobFrom, SameJob
  <2>3. CommitFrom(x, y, e) /\ EffectFrom(x, y, e)
    BY <2>1 DEF CommitFrom, EffectFrom, Retreating
  <2> QED
    BY <2>1, <2>2, <2>3 DEF From, x
<1>6. CASE Persist(e) /\ Holds(e)
  <2>1. /\ OthersStay(e) /\ SameJob(x, y) /\ x.pc = "commit"
        /\ x.to = "provider-created" /\ x.token = None /\ x.row = job'[y.key]
    BY <1>6, PersistMove
  <2> HIDE DEF x
  <2>2. JobFrom(x, y, e)
    BY <2>1 DEF JobFrom, SameJob
  <2>3. CommitFrom(x, y, e) /\ EffectFrom(x, y, e)
    BY <2>1 DEF CommitFrom, EffectFrom, Retreating, Gone
  <2> QED
    BY <2>1, <2>2, <2>3 DEF From, x
<1>7. \/ Throw(e) \/ FencedOut(e) \/ Goto(e, "clean")
      \/ Clean(e) /\ Goto(e, "mint") /\ live' = live \ Orphans(y.key)
      \/ Mint(e)
      \/ Persist(e) /\ Holds(e)
  BY DEF Intent, Clean, Persist
<1> QED
  BY <1>2, <1>3, <1>4, <1>5, <1>6, <1>7

(* Staging, reloading the consumers, verifying and moving the alias.       *)
LEMMA PublishFrom ==
  ASSUME IInv, NEW e \in Exec,
         \/ AddVersion(e) \/ ReadAlias(e) \/ Reload(e) \/ Reloaded(e)
         \/ Verify(e) \/ CheckAlias(e) \/ MoveAlias(e)
  PROVE  OthersStay(e) /\ From(e)
<1> DEFINE y == ex[e]
           x == ex'[e]
<1>1. y.pc \notin Early \cup {"idle"}
  BY DEF AddVersion, ReadAlias, Reload, Reloaded, Verify, CheckAlias, MoveAlias,
         At, Early
<1>2. CASE Throw(e) \/ FencedOut(e)
  BY <1>1, <1>2, ThrowFrom
<1>3. CASE /\ OthersStay(e) /\ x.key = y.key /\ x.row.old = y.row.old
           /\ x.token = y.token
           /\ \/ x.pc \in {"readAlias", "reload", "reloaded", "moveAlias"}
              \/ x.pc = "commit" /\ x.to \in {"staged", "consumers-reloaded"}
              \/ /\ x.pc = "commit" /\ x.to = "verified" /\ UNCHANGED live
                 /\ x.row = y.row /\ y.row.token \in live
              \/ /\ x.pc = "commit" /\ x.to = "alias-moved"
                 /\ x.row = y.row /\ alias' = y.row.version
  <2>1. CommitFrom(x, y, e)
    BY <1>3 DEF CommitFrom, Gone
  <2>2. ~Retreating(x)
    BY <1>3 DEF Retreating
  <2> QED
    BY <1>1, <1>3, <2>1, <2>2, MoveFrom
<1>4. CASE AddVersion(e)
  BY <1>3, <1>4, AddVersionMove DEF SameJob
<1>5. CASE ReadAlias(e)
  BY <1>3, <1>5, ReadAliasMove DEF Same
<1>6. CASE Reload(e)
  BY <1>3, <1>6, CommitMove, GotoMove DEF Reload, Same
<1>7. CASE Reloaded(e)
  <2>1. CASE Holds(e)
    BY <1>3, <1>7, <2>1, ReloadedMove DEF SameJob, SameRow
  <2> QED
    BY <1>2, <1>7, <2>1 DEF Reloaded
<1>8. CASE Verify(e)
  <2>1. \/ Throw(e)
        \/ CommitTo(e, "verified", "stage") /\ UNCHANGED live /\ y.row.token \in live
    BY <1>8 DEF Verify, cloud
  <2> QED
    BY <1>2, <1>3, <2>1, CommitMove DEF Same
<1>9. CASE CheckAlias(e)
  <2>1. \/ Throw(e) \/ Goto(e, "moveAlias")
        \/ CommitTo(e, "alias-moved", "stage") /\ alias' = y.row.version
    BY <1>9 DEF CheckAlias, store
  <2> QED
    BY <1>2, <1>3, <2>1, CommitMove, GotoMove DEF Same
<1>10. CASE MoveAlias(e)
  <2>1. \/ Throw(e)
        \/ CommitTo(e, "alias-moved", "stage") /\ alias' = y.row.version
    BY <1>10 DEF MoveAlias
  <2> QED
    BY <1>2, <1>3, <2>1, CommitMove DEF Same
<1> QED
  BY <1>4, <1>5, <1>6, <1>7, <1>8, <1>9, <1>10

(* Revoking, rolling back and giving up.                                   *)
LEMMA UndoFrom ==
  ASSUME IInv, NEW e \in Exec,
         \/ AuthorizeRevoke(e) \/ Revoke(e) \/ GuardRollback(e)
         \/ AuthorizeRollback(e) \/ Rollback(e) \/ RollbackError(e) \/ Mark(e)
         \/ StageError(e) \/ AfterStageError(e) \/ EffectFails(e)
  PROVE  OthersStay(e) /\ From(e)
<1> DEFINE y == ex[e]
           x == ex'[e]
<1>1. y.pc \notin Early \cup {"idle"}
  BY DEF AuthorizeRevoke, Revoke, GuardRollback, AuthorizeRollback, Rollback,
         RollbackError, Mark, StageError, AfterStageError, EffectFails, At, Early
<1>2. CASE Throw(e) \/ Leave(e)
  BY <1>1, <1>2, ThrowFrom
<1>3. CASE /\ OthersStay(e) /\ Same(x, y)
           /\ \/ x.pc \in {"revoke", "mark", "loop", "emitError"}
              \/ x.pc = "rollback" /\ y.pc = "authRollback"
              \/ x.pc = "commit" /\ x.to = "failed"
              \/ x.pc = "commit" /\ x.to = "reconcile-required" /\ Mark(e)
              \/ x.pc = "commit" /\ x.to = "rolled-back" /\ y.pc = "rollback"
              \/ /\ x.pc = "commit" /\ x.to = "old-revoked"
                 /\ live' = live \ {y.row.old}
  <2>1. CommitFrom(x, y, e)
    BY <1>3 DEF CommitFrom, Gone, Same
  <2>2. Retreating(x) => Retreating(y)
    BY <1>3 DEF Retreating
  <2> QED
    BY <1>1, <1>3, <2>1, <2>2, MoveFrom DEF Same
<1>4. CASE AuthorizeRevoke(e) \/ AuthorizeRollback(e)
  BY <1>3, <1>4, GotoMove, MarkMove DEF AuthorizeRevoke, AuthorizeRollback, At
<1>5. CASE Revoke(e)
  <2>1. \/ Throw(e)
        \/ CommitTo(e, "old-revoked", "stage") /\ live' = live \ {y.row.old}
    BY <1>5 DEF Revoke, Delete
  <2> QED
    BY <1>2, <1>3, <2>1, CommitMove
<1>6. CASE GuardRollback(e)
  <2>1. CASE MarkReconcile(e, "stage")
    BY <1>3, <2>1, MarkMove
  <2>2. CASE /\ y.row.version = 0 \/ alias # y.row.version
             /\ \/ CommitTo(e, "rolling-back", "stage")
                \/ Goto(e, "authRollback")
    <3>1. /\ OthersStay(e) /\ Same(x, y)
          /\ \/ x.pc = "commit" /\ x.to = "rolling-back"
             \/ x.pc = "authRollback"
      BY <2>2, CommitMove, GotoMove
    <3>2. y.pc = "guardRollback"
      BY <1>6 DEF GuardRollback, At
    <3> HIDE DEF x, y
    <3>3. JobFrom(x, y, e)
      BY <3>1, <3>2 DEF JobFrom, Same, Early
    <3>4. CommitFrom(x, y, e) /\ EffectFrom(x, y, e)
      BY <1>6, <2>2, <3>1, <3>2 DEF CommitFrom, EffectFrom, Gone
    <3> QED
      BY <3>1, <3>3, <3>4 DEF From, x, y
  <2> QED
    BY <1>6, <2>1, <2>2 DEF GuardRollback
<1>7. CASE Rollback(e)
  <2>1. Throw(e) \/ (CommitTo(e, "rolled-back", "stage") /\ y.pc = "rollback")
    BY <1>7 DEF Rollback, Delete, At
  <2> QED
    BY <1>2, <1>3, <2>1, CommitMove
<1>8. CASE RollbackError(e)
  BY <1>2, <1>3, <1>8, GotoMove, MarkMove DEF RollbackError
<1>9. CASE Mark(e)
  BY <1>3, <1>9, MarkedMove
<1>10. CASE StageError(e)
  <2>1. CASE Holds(e)
    BY <1>3, <1>10, <2>1, HandlerMove
  <2> QED
    BY <1>2, <1>10, <2>1 DEF StageError
<1>11. CASE AfterStageError(e)
  BY <1>2, <1>3, <1>11, GotoMove, MarkMove, CommitMove DEF AfterStageError
<1>12. CASE EffectFails(e)
  BY <1>2, <1>12 DEF EffectFails
<1> QED
  BY <1>4, <1>5, <1>6, <1>7, <1>8, <1>9, <1>10, <1>11, <1>12

(* Writing a stage, and the appends after it.                              *)
LEMMA WriteFrom ==
  ASSUME IInv, NEW e \in Exec, Commit(e) \/ Emit(e)
  PROVE  OthersStay(e) /\ From(e)
<1> DEFINE y == ex[e]
           x == ex'[e]
<1>1. y.pc \notin Early \cup {"idle"}
  BY DEF Commit, Emit, At, Early
<1>2. CASE Throw(e) \/ FencedOut(e)
  BY <1>1, <1>2, ThrowFrom
<1>3. CASE Commit(e) /\ Goto(e, "emit")
  <2>1. OthersStay(e) /\ Same(x, y) /\ x.pc = "emit" /\ x.to = y.to
    BY <1>3, GotoMove
  <2>2. CommitFrom(x, y, e) /\ (Retreating(x) => Retreating(y))
    BY <1>3, <2>1 DEF CommitFrom, Retreating, Commit, At
  <2> QED
    BY <1>1, <2>1, <2>2, MoveFrom DEF Same
<1>4. CASE Goto(e, "loop")
  <2>1. OthersStay(e) /\ Same(x, y) /\ x.pc = "loop"
    BY <1>4, GotoMove
  <2>2. CommitFrom(x, y, e) /\ ~Retreating(x)
    BY <2>1 DEF CommitFrom, Retreating
  <2> QED
    BY <1>1, <2>1, <2>2, MoveFrom DEF Same
<1>5. CASE /\ Emit(e) /\ y.to = "rolling-back" /\ OthersStay(e)
           /\ x.pc = "authRollback" /\ SameJob(x, y) /\ x.row = job[y.key]
           /\ x.token = y.token
  <2>1. y.pc = "emit" /\ UNCHANGED job
    BY <1>5 DEF Emit, At, store
  <2> HIDE DEF x
  <2>2. JobFrom(x, y, e)
    BY <1>5, <2>1 DEF JobFrom, SameJob
  <2>3. CommitFrom(x, y, e) /\ EffectFrom(x, y, e)
    BY <1>5, <2>1 DEF CommitFrom, EffectFrom, Retreating
  <2> QED
    BY <1>5, <2>2, <2>3 DEF From, x
<1>6. Commit(e) => Throw(e) \/ FencedOut(e) \/ Goto(e, "emit")
  BY DEF Commit
<1> QED
  BY <1>2, <1>3, <1>4, <1>5, <1>6, EmitMove

-----------------------------------------------------------------------------
(* Every step is a step of one execution, or moves none.                   *)
Acts(e) == \/ Step(e) \/ EffectFails(e) \/ Crash(e)
           \/ \E k \in Key : Request(e, k) \/ Resume(e, k)

Rests == UNCHANGED <<store, cloud, ex>>

(* Besides executions only the lease and the bounds move.                  *)
LEMMA NextActs ==
  ASSUME IInv, [Next]_vars
  PROVE  \/ \E e \in Exec : Acts(e)
         \/ /\ Rests
            /\ \/ UNCHANGED <<lease, used>>
               \/ lease = Ghost /\ UNCHANGED used
               \/ Spend("stall", MaxStalls)
BY DEF Next, Acts, Rests, vars, GhostExpires, Stall

(* What an execution that acts leaves behind in its locals.                *)
LEMMA ActsFrom ==
  ASSUME IInv, NEW e \in Exec, Acts(e)
  PROVE  OthersStay(e) /\ From(e)
<1>1. CASE Lookup(e) \/ Acquire(e) \/ Insert(e)
  <2>1. ex[e].key \in Key
    BY <1>1, Knows DEF Lookup, Acquire, Insert, At
  <2> QED
    BY <1>1, <2>1, ClaimFrom
<1>2. CASE Crash(e)
  <2>1. ex \in [Exec -> Execution] /\ ex' = [ex EXCEPT ![e] = Idle]
    BY <1>2 DEF IInv, TypeOK, Crash, Become
  <2>2. ex'[e].pc = "idle" /\ ex'[e].token = None /\ OthersStay(e)
    BY <2>1 DEF Idle, OthersStay
  <2> QED
    BY <2>2 DEF From, JobFrom, CommitFrom, EffectFrom, Retreating
<1> QED
  BY <1>1, <1>2, ClaimFrom, DriveFrom, MintFrom, PublishFrom, UndoFrom, WriteFrom
     DEF Acts, Step

(* What it does to a row.                                                  *)
LEMMA RowWrite ==
  ASSUME IInv, NEW e \in Exec, Acts(e), NEW k \in Key
  PROVE  \/ UNCHANGED job[k]
         \/ /\ Insert(e) /\ ex[e].key = k /\ ex[e].pc = "insert"
            /\ job[k].stage = "absent" /\ job'[k].stage = "requested"
            /\ job'[k].old = ex[e].row.old /\ job'[k].token = None
            /\ job'[k].version = 0
         \/ /\ Holds(e) /\ ex[e].key = k /\ SameRow(job'[k], job[k])
            /\ \/ job'[k].token = job[k].token
               \/ ex[e].pc = "persist" /\ job'[k].token = ex[e].token
         \/ /\ Holds(e) /\ ex[e].key = k /\ ex[e].pc = "commit"
            /\ CanTransition(ex[e].row.stage, ex[e].to)
            /\ job'[k].stage = ex[e].to /\ job'[k].old = job[k].old
            /\ job'[k].token = job[k].token
            /\ job'[k].version = IF ex[e].to = "staged" THEN ex[e].version
                                                       ELSE job[k].version
<1>1. CASE Insert(e)
  <2>1. ex[e].pc = "insert"
    BY <1>1 DEF Insert, At
  <2> QED
    BY <1>1, <2>1, InsertWrite DEF OtherRowsStay
<1>2. CASE Intent(e) \/ Persist(e) \/ Reloaded(e)
  BY <1>2, NoteWrite DEF OtherRowsStay
<1>3. CASE Commit(e)
  <2>1. ex[e].pc = "commit"
    BY <1>3 DEF Commit, At
  <2> QED
    BY <1>3, <2>1, CommitWrite DEF OtherRowsStay
<1>4. CASE ~Writes(e)
  BY <1>4, RowsStay DEF Acts
<1> QED
  BY <1>1, <1>2, <1>3, <1>4 DEF Writes

(* What it does at the provider.                                           *)
LEMMA LiveWrite ==
  ASSUME IInv, NEW e \in Exec, Acts(e)
  PROVE  \/ UNCHANGED <<live, minted>>
         \/ /\ ex[e].pc = "clean" /\ UNCHANGED minted
            /\ live' = live \ Orphans(ex[e].key)
         \/ /\ Mint(e) /\ ex[e].pc = "mint"
            /\ live' = live \cup {<<ex[e].key, minted[ex[e].key] + 1>>}
            /\ minted' = [minted EXCEPT ![ex[e].key] = @ + 1]
         \/ /\ ex[e].pc = "revoke" /\ UNCHANGED minted
            /\ live' = live \ {ex[e].row.old}
         \/ /\ ex[e].pc = "rollback" /\ ex[e].row.token # None
            /\ UNCHANGED minted /\ live' = live \ {ex[e].row.token}
<1>1. CASE Clean(e)
  BY <1>1 DEF Clean, At
<1>2. CASE Mint(e)
  BY <1>2 DEF Mint, At
<1>3. CASE Revoke(e) \/ Rollback(e)
  BY <1>3 DEF Revoke, Rollback, Delete, At
<1>4. CASE ~(Clean(e) \/ Mint(e) \/ Revoke(e) \/ Rollback(e))
  BY <1>4 DEF Acts, Step, Request, Resume, EffectFails, Crash, Lookup, Acquire,
     Insert, Drive, Intent, Persist, AddVersion, ReadAlias, Reload, Reloaded,
     Verify, CheckAlias, MoveAlias, AuthorizeRevoke, GuardRollback,
     AuthorizeRollback, RollbackError, Mark, Commit, Emit, StageError,
     AfterStageError, cloud
<1> QED
  BY <1>1, <1>2, <1>3, <1>4

(* What it does to the alias, the versions and the records.                *)
LEMMA StoreWrite ==
  ASSUME IInv, NEW e \in Exec, Acts(e)
  PROVE  /\ \/ UNCHANGED alias
            \/ ex[e].pc = "moveAlias" /\ alias' = ex[e].row.version
         /\ \/ UNCHANGED versions
            \/ /\ VersionOf(ex[e].key) = {} /\ ex[e].pc = "addVersion"
               /\ versions' = Append(versions, [key |-> ex[e].key,
                                               token |-> ex[e].row.token])
         /\ \/ UNCHANGED reconciles
            \/ /\ Mark(e)
               /\ reconciles' = reconciles \cup {<<ex[e].key, ReconcileOp(e)>>}
<1>1. CASE MoveAlias(e)
  BY <1>1 DEF MoveAlias, At
<1>2. CASE AddVersion(e)
  BY <1>2 DEF AddVersion, At
<1>3. CASE Mark(e)
  BY <1>3 DEF Mark
<1>4. CASE ~(MoveAlias(e) \/ AddVersion(e) \/ Mark(e))
  BY <1>4 DEF Acts, Step, Request, Resume, EffectFails, Crash, Lookup, Acquire,
     Insert, Drive, Intent, Clean, Mint, Persist, ReadAlias, Reload, Reloaded,
     Verify, CheckAlias, AuthorizeRevoke, Revoke, GuardRollback, Rollback,
     AuthorizeRollback, RollbackError, Commit, Emit, StageError,
     AfterStageError, store
<1> QED
  BY <1>1, <1>2, <1>3, <1>4

-----------------------------------------------------------------------------
(* The record comes before the stage it explains.                          *)
HasRecord(k) == \E r \in reconciles : r[1] = k

RecordInv ==
  /\ \A e \in Exec : ex[e].pc = "commit" /\ ex[e].to = "reconcile-required" =>
       HasRecord(ex[e].key)
  /\ ReconcileHasRecord

(* markReconcile opens the record before it writes the stage.              *)
LEMMA RecordNext == IInv /\ RecordInv /\ [Next]_vars => RecordInv'
<1> SUFFICES ASSUME IInv, RecordInv, [Next]_vars PROVE RecordInv'
  OBVIOUS
<1>1. CASE Rests
  BY <1>1 DEF Rests, store, RecordInv, HasRecord, ReconcileHasRecord
<1>2. ASSUME NEW e \in Exec, Acts(e) PROVE RecordInv'
  <2>1. reconciles \subseteq reconciles'
    BY <1>2, StoreWrite
  <2>3. ASSUME NEW f \in Exec, ex'[f].pc = "commit", ex'[f].to = "reconcile-required"
        PROVE  \E r \in reconciles' : r[1] = ex'[f].key
    <3>1. CASE f # e
      <4>1. ex'[f] = ex[f]
        BY <1>2, <3>1, ActsFrom DEF OthersStay
      <4>2. HasRecord(ex[f].key)
        BY <2>3, <4>1 DEF RecordInv
      <4> QED
        BY <2>1, <4>1, <4>2 DEF HasRecord
    <3>2. CASE f = e
      <4>1. ex'[e].key = ex[e].key /\ Mark(e)
        BY <1>2, <2>3, <3>2, ActsFrom DEF From, JobFrom, CommitFrom
      <4>2. <<ex[e].key, ReconcileOp(e)>> \in reconciles'
        BY <4>1 DEF Mark
      <4> QED
        BY <3>2, <4>1, <4>2
    <3> QED
      BY <3>1, <3>2
  <2>4. ASSUME NEW k \in Key, job'[k].stage = "reconcile-required"
        PROVE  \E r \in reconciles' : r[1] = k
    <3>1. CASE job[k].stage = "reconcile-required"
      BY <2>1, <3>1 DEF RecordInv, ReconcileHasRecord
    <3>2. CASE job[k].stage # "reconcile-required"
      <4>1. ex[e].pc = "commit" /\ ex[e].to = "reconcile-required" /\ ex[e].key = k
        BY <1>2, <2>4, <3>2, RowWrite DEF SameRow
      <4> QED
        BY <2>1, <4>1 DEF RecordInv, HasRecord
    <3> QED
      BY <3>1, <3>2
  <2> QED
    BY <2>3, <2>4 DEF RecordInv, HasRecord, ReconcileHasRecord
<1> QED
  BY <1>1, <1>2, NextActs

(* A job that gave up is visible to operators (ReconcileHasRecord).        *)
THEOREM GivenUpIsRecorded == Spec => []ReconcileHasRecord
<1>1. Init => RecordInv
  BY DEF Init, RecordInv, ReconcileHasRecord, Idle, NoRow
<1>2. RecordInv => ReconcileHasRecord
  BY DEF RecordInv
<1> QED
  BY <1>1, <1>2, RecordNext, EngineInvariant, PTL DEF Spec

-----------------------------------------------------------------------------
(* Credentials are numbered per job, and a job supersedes the credential   *)
(* of another one that was published before it was requested.              *)
Own(t, k) == t # None => t[1] = k /\ t[2] <= minted[k]

TokenInv == /\ \A k \in Key : Own(job[k].token, k)
            /\ \A e \in Exec : Own(ex[e].token, ex[e].key)

WasPublished(t) == t # None => /\ t[1] \in Key /\ job[t[1]].stage \in Published
                               /\ job[t[1]].token = t

OldInv ==
  /\ \A k \in Key : /\ WasPublished(job[k].old)
                    /\ job[k].old # None => job[k].old[1] # k
                    /\ job[k].stage = "absent" => job[k].old = None
  /\ \A e \in Exec :
       /\ ex[e].pc \in {"lookup", "acquire", "insert"} =>
            WasPublished(ex[e].row.old)
       /\ ex[e].pc \notin Early \cup {"idle"} => ex[e].row.old = job[ex[e].key].old

(* Numbers only grow.                                                      *)
LEMMA OwnStays ==
  ASSUME NEW t \in Token \cup {None}, NEW k \in Key, Own(t, k),
         minted[k] \in Nat, minted'[k] \in Nat, minted[k] <= minted'[k]
  PROVE  t # None => t[1] = k /\ t[2] <= minted'[k]
BY DEF Own, Token

(* Whoever mints numbers the credential of its own job.                    *)
LEMMA TokenNext == IInv /\ TokenInv /\ [Next]_vars => TokenInv'
<1> SUFFICES ASSUME IInv, TokenInv, [Next]_vars PROVE TokenInv'
  OBVIOUS
<1>1. CASE Rests
  BY <1>1 DEF Rests, store, cloud, TokenInv, Own
<1>2. ASSUME NEW e \in Exec, Acts(e) PROVE TokenInv'
  <2>1. \A k \in Key : /\ minted[k] \in Nat /\ minted'[k] \in Nat
                       /\ minted[k] <= minted'[k]
    <3>1. minted \in [Key -> Nat]
      BY DEF IInv, TypeOK
    <3>2. UNCHANGED minted \/ minted' = [minted EXCEPT ![ex[e].key] = @ + 1]
      BY <1>2, LiveWrite
    <3> QED
      BY <3>1, <3>2
  <2>2. ASSUME NEW k \in Key PROVE Own(job[k].token, k)'
    <3>1. job[k].token \in Token \cup {None}
      BY DEF IInv, TypeOK, Row
    <3>2. \/ job'[k].token \in {job[k].token, None}
          \/ job'[k].token = ex[e].token /\ ex[e].key = k
      BY <1>2, RowWrite
    <3>3. ex[e].token \in Token \cup {None} /\ Own(ex[e].token, ex[e].key)
      BY DEF IInv, TypeOK, Execution, TokenInv
    <3>4. Own(job[k].token, k)
      BY DEF TokenInv
    <3> QED
      BY <2>1, <3>1, <3>2, <3>3, <3>4, OwnStays DEF Own
  <2>3. ASSUME NEW f \in Exec PROVE Own(ex[f].token, ex[f].key)'
    <3>1. ex[f].token \in Token \cup {None} /\ Own(ex[f].token, ex[f].key)
      BY DEF IInv, TypeOK, Execution, TokenInv
    <3>a. ex[f].token # None => ex[f].key \in Key
      BY <3>1 DEF Own, Token
    <3>b. ex[f].token # None => /\ ex[f].token[1] = ex[f].key
                                /\ ex[f].token[2] <= minted'[ex[f].key]
      BY <2>1, <3>1, <3>a, OwnStays
    <3>2. CASE ex'[f] = ex[f]
      BY <3>2, <3>b DEF Own
    <3>3. CASE f = e /\ ex'[e].token # None
      <4>1. /\ ex'[e].key = ex[e].key
            /\ \/ ex'[e].token = ex[e].token
               \/ ex'[e].token = <<ex[e].key, minted[ex[e].key] + 1>> /\ Mint(e)
        BY <1>2, <3>3, ActsFrom DEF From, JobFrom
      <4>2. CASE ex'[e].token = ex[e].token
        BY <3>3, <3>b, <4>1, <4>2 DEF Own
      <4>3. CASE ex'[e].token = <<ex[e].key, minted[ex[e].key] + 1>> /\ Mint(e)
        <5>1. ex[e].key \in Key
          BY <4>3, Knows DEF Mint, At
        <5>2. minted'[ex[e].key] = minted[ex[e].key] + 1
          BY <4>3, <5>1 DEF Mint, IInv, TypeOK
        <5> DEFINE n == minted[ex[e].key] + 1
        <5>3. n \in Nat
          BY <2>1, <5>1
        <5> HIDE DEF n
        <5>4. ex'[e].token[1] = ex'[e].key /\ ex'[e].token[2] = n
              /\ minted'[ex'[e].key] = n
          BY <4>1, <4>3, <5>2 DEF n
        <5> QED
          BY <3>3, <5>3, <5>4 DEF Own
      <4> QED
        BY <4>1, <4>2, <4>3
    <3>4. CASE ex'[f].token = None
      BY <3>4 DEF Own
    <3> QED
      BY <1>2, <3>2, <3>3, <3>4, ActsFrom DEF OthersStay
  <2> QED
    BY <2>2, <2>3 DEF TokenInv
<1> QED
  BY <1>1, <1>2, NextActs

(* What was published stays published, and keeps its credential.           *)
LEMMA PublishedStays ==
  ASSUME IInv, StageInv, [Next]_vars, NEW t \in Token \cup {None}, WasPublished(t)
  PROVE  WasPublished(t)'
<1>1. SUFFICES ASSUME t # None PROVE job'[t[1]].stage \in Published /\ job'[t[1]].token = t
  BY DEF WasPublished
<1> DEFINE k == t[1]
<1>2. k \in Key /\ job[k].stage \in Published /\ job[k].token = t
  BY <1>1 DEF WasPublished
<1>3. job'[k].token = t
  BY <1>1, <1>2, CredentialStays
<1>4. job'[k].stage \in Published
  BY <1>2, RowsFollow, Graph DEF Published, CanTransition
<1> QED
  BY <1>3, <1>4

(* Whatever a request may be told to supersede was published.              *)
LEMMA SupersededPublished ==
  ASSUME IInv, TokenInv, NEW t \in Superseded
  PROVE  t \in Token \cup {None} /\ WasPublished(t)
<1>1. t = None \/ \E k \in Key : LooksPublished(k) /\ t = job[k].token
  BY DEF Superseded, LastPublished
<1>2. \A k \in Key : job[k].token \in Token \cup {None} /\ Own(job[k].token, k)
  BY DEF IInv, TypeOK, Row, TokenInv
<1> QED
  BY <1>1, <1>2 DEF WasPublished, LooksPublished, Own

(* A row, once it is there, keeps what it supersedes.                      *)
LEMMA OldStays ==
  ASSUME IInv, NEW e \in Exec, Acts(e), NEW k \in Key, job[k].stage # "absent"
  PROVE  job'[k].old = job[k].old /\ job'[k].stage # "absent"
<1>1. ex[e].pc = "commit" => ex[e].to # "absent"
  BY Knows DEF MayCommit
<1> QED
  BY <1>1, RowWrite DEF SameRow

(* What is superseded was published, and stays so.                         *)
LEMMA OldNext == IInv /\ StageInv /\ TokenInv /\ OldInv /\ [Next]_vars => OldInv'
<1> SUFFICES ASSUME IInv, StageInv, TokenInv, OldInv, [Next]_vars PROVE OldInv'
  OBVIOUS
<1>1. CASE Rests
  BY <1>1 DEF Rests, store, OldInv, WasPublished
<1>2. ASSUME NEW e \in Exec, Acts(e) PROVE OldInv'
  <2>1. ASSUME NEW k \in Key
        PROVE  /\ WasPublished(job[k].old)'
               /\ job'[k].old # None => job'[k].old[1] # k
               /\ job'[k].stage = "absent" => job'[k].old = None
    <3>1. job[k].old \in Token \cup {None} /\ WasPublished(job[k].old)
          /\ job[k].stage \in Stage \cup {"absent"}
      BY DEF IInv, TypeOK, Row, OldInv
    <3>2. CASE job'[k].old = job[k].old
      <4>1. WasPublished(job[k].old)'
        <5> DEFINE t == job[k].old
        <5>1. t \in Token \cup {None} /\ WasPublished(t)
          BY <3>1
        <5>2. t # None => /\ t[1] \in Key /\ job'[t[1]].stage \in Published
                          /\ job'[t[1]].token = t
          <6> HIDE DEF t
          <6> QED
            BY <5>1, PublishedStays DEF WasPublished
        <5> QED
          BY <3>2, <5>2 DEF WasPublished
      <4>2. job'[k].stage = "absent" => job[k].stage = "absent"
        BY <1>2, OldStays
      <4> QED
        BY <3>2, <4>1, <4>2 DEF OldInv
    <3>3. CASE /\ ex[e].key = k /\ ex[e].pc = "insert"
               /\ job[k].stage = "absent" /\ job'[k].stage = "requested"
               /\ job'[k].old = ex[e].row.old
      <4> DEFINE t == ex[e].row.old
      <4>1. t \in Token \cup {None} /\ WasPublished(t)
        BY <3>3 DEF IInv, TypeOK, Execution, Row, OldInv
      <4> HIDE DEF t
      <4>2. t # None => /\ t[1] \in Key /\ job'[t[1]].stage \in Published
                        /\ job'[t[1]].token = t
        BY <4>1, PublishedStays DEF WasPublished
      <4>3. t # None => t[1] # k
        BY <3>3, <4>1 DEF WasPublished, Published
      <4> QED
        BY <3>3, <4>2, <4>3 DEF WasPublished, t
    <3> QED
      BY <1>2, <3>2, <3>3, RowWrite DEF SameRow
  <2>2. ASSUME NEW f \in Exec, ex'[f].pc \in {"lookup", "acquire", "insert"}
        PROVE  WasPublished(ex[f].row.old)'
    <3> DEFINE t == ex'[f].row.old
    <3>1. t \in Token \cup {None} /\ WasPublished(t)
      <4>1. CASE f # e
        <5>1. ex'[f] = ex[f] /\ ex[f] \in Execution
          BY <1>2, <4>1, ActsFrom DEF OthersStay, IInv, TypeOK
        <5> QED
          BY <2>2, <5>1 DEF Execution, Row, OldInv
      <4>2. CASE f = e
        <5>1. \/ t \in Superseded \cup {None}
              \/ /\ ex[e].pc \in {"lookup", "acquire"}
                 /\ t = ex[e].row.old
          BY <1>2, <2>2, <4>2, ActsFrom DEF From, JobFrom
        <5>2. ex[e].row.old \in Token \cup {None}
          BY DEF IInv, TypeOK, Execution, Row
        <5>3. WasPublished(None)
          BY DEF WasPublished
        <5> HIDE DEF t
        <5> QED
          BY <5>1, <5>2, <5>3, SupersededPublished DEF OldInv
      <4> QED
        BY <4>1, <4>2
    <3>2. t # None => /\ t[1] \in Key /\ job'[t[1]].stage \in Published
                      /\ job'[t[1]].token = t
      <4> HIDE DEF t
      <4> QED
        BY <3>1, PublishedStays DEF WasPublished
    <3> QED
      BY <3>2 DEF WasPublished
  <2>3. ASSUME NEW f \in Exec, ex'[f].pc \notin Early \cup {"idle"}
        PROVE  ex'[f].row.old = job'[ex'[f].key].old
    <3>1. CASE ex[f].pc \notin Early \cup {"idle"} /\ ex'[f].key = ex[f].key
               /\ ex'[f].row.old = ex[f].row.old
      <4>1. ex[f].row.old = job[ex[f].key].old
        BY <3>1 DEF OldInv
      <4>2. ex[f].key \in Key /\ job[ex[f].key].stage # "absent"
        BY <3>1, Knows DEF KnowsJob
      <4> QED
        BY <1>2, <3>1, <4>1, <4>2, OldStays
    <3>2. CASE f # e
      BY <1>2, <2>3, <3>1, <3>2, ActsFrom DEF OthersStay
    <3>3. CASE f = e
      BY <1>2, <2>3, <3>1, <3>3, ActsFrom DEF From, JobFrom, Early
    <3> QED
      BY <3>2, <3>3
  <2> QED
    BY <2>1, <2>2, <2>3 DEF OldInv
<1> QED
  BY <1>1, <1>2, NextActs

-----------------------------------------------------------------------------
(* What a job has superseded is gone for good.                             *)
RetiredInv ==
  /\ \A k \in Key : job[k].stage \in Gone => job[k].old \notin live
  /\ \A e \in Exec : ex[e].pc = "commit" /\ ex[e].to \in Gone =>
       ex[e].row.old \notin live

(* A credential that was published is not minted again.                    *)
LEMMA RetiredStays ==
  ASSUME IInv, TokenInv, NEW e \in Exec, Acts(e), NEW t \in Token \cup {None},
         WasPublished(t), t \notin live
  PROVE  t \notin live'
<1>1. CASE live' \subseteq live
  BY <1>1
<1>2. CASE live' = live \cup {<<ex[e].key, minted[ex[e].key] + 1>>} /\ Mint(e)
  <2>1. ex[e].key \in Key /\ minted[ex[e].key] \in Nat
    BY <1>2, Knows DEF Mint, At, IInv, TypeOK
  <2>2. ASSUME t = <<ex[e].key, minted[ex[e].key] + 1>> PROVE FALSE
    <3>1. t # None
      BY <2>1, <2>2, EngineAssumption
    <3>2. t[1] = ex[e].key /\ t[2] = minted[ex[e].key] + 1
      BY <2>2
    <3>3. Own(job[t[1]].token, t[1]) /\ job[t[1]].token = t
      BY <3>1 DEF TokenInv, WasPublished
    <3>4. t[2] <= minted[ex[e].key]
      BY <3>1, <3>2, <3>3 DEF Own
    <3> QED
      BY <2>1, <3>2, <3>4
  <2> QED
    BY <1>2, <2>2
<1> QED
  BY <1>1, <1>2, LiveWrite

(* The credential is deleted before the stage that says so is written.     *)
LEMMA RetiredNext ==
  IInv /\ StageInv /\ TokenInv /\ OldInv /\ RetiredInv /\ [Next]_vars => RetiredInv'
<1> SUFFICES ASSUME IInv, StageInv, TokenInv, OldInv, RetiredInv, [Next]_vars
             PROVE  RetiredInv'
  OBVIOUS
<1>1. CASE Rests
  BY <1>1 DEF Rests, store, cloud, RetiredInv
<1>2. ASSUME NEW e \in Exec, Acts(e) PROVE RetiredInv'
  <2>1. \A k \in Key : job[k].old \in Token \cup {None} /\ WasPublished(job[k].old)
    BY DEF IInv, TypeOK, Row, OldInv
  <2>2. \A f \in Exec : ex[f].pc \notin Early \cup {"idle"} =>
          /\ ex[f].key \in Key /\ ex[f].row.old = job[ex[f].key].old
          /\ ex[f].row.old \in Token \cup {None} /\ WasPublished(ex[f].row.old)
    BY <2>1, Knows DEF OldInv
  <2>3. ASSUME NEW k \in Key, job'[k].stage \in Gone PROVE job'[k].old \notin live'
    <3>1. job'[k].old = job[k].old /\ job[k].old \notin live
      <4>1. CASE job'[k].old = job[k].old /\ job'[k].stage = job[k].stage
        BY <2>3, <4>1 DEF RetiredInv
      <4>2. CASE /\ ex[e].key = k /\ ex[e].pc = "commit" /\ job'[k].stage = ex[e].to
                 /\ job'[k].old = job[k].old
        BY <2>2, <2>3, <4>2 DEF RetiredInv, Early
      <4> QED
        BY <1>2, <2>3, <4>1, <4>2, RowWrite DEF SameRow, Gone
    <3> QED
      BY <1>2, <2>1, <3>1, RetiredStays
  <2>4. ASSUME NEW f \in Exec, ex'[f].pc = "commit", ex'[f].to \in Gone
        PROVE  ex'[f].row.old \notin live'
    <3>1. CASE f # e
      <4>1. ex'[f] = ex[f] /\ ex[f].row.old \notin live
        BY <1>2, <2>4, <3>1, ActsFrom DEF OthersStay, RetiredInv
      <4>2. ex[f].row.old \in Token \cup {None} /\ WasPublished(ex[f].row.old)
        BY <2>2, <2>4, <4>1 DEF Early
      <4> QED
        BY <1>2, <4>1, <4>2, RetiredStays
    <3>2. CASE f = e
      <4>1. \/ live' = live \ {ex[e].row.old} /\ ex'[e].row.old = ex[e].row.old
            \/ /\ UNCHANGED live /\ ex'[e].row.old = job[ex'[e].key].old
               /\ \/ ex'[e].row.old = None
                  \/ job[ex'[e].key].stage = "old-revoked"
        BY <1>2, <2>4, <3>2, ActsFrom DEF From, CommitFrom
      <4>2. None \notin live
        BY EngineAssumption DEF IInv, TypeOK, Token
      <4>3. ex'[e].key \in Key
        <5>1. IInv'
          BY EngineNext
        <5> QED
          BY <2>4, <3>2, <5>1 DEF IInv, LocalsOK, LocalOK, KnowsJob
      <4> QED
        BY <3>2, <4>1, <4>2, <4>3 DEF RetiredInv, Gone
    <3> QED
      BY <3>1, <3>2
  <2> QED
    BY <2>3, <2>4 DEF RetiredInv
<1> QED
  BY <1>1, <1>2, NextActs

SupersedeInv == TokenInv /\ OldInv /\ RetiredInv

(* The three hold together.                                                *)
LEMMA SupersedeInvariant == Spec => []SupersedeInv
<1>1. Init => SupersedeInv
  BY EngineAssumption DEF Init, SupersedeInv, TokenInv, OldInv, RetiredInv, Own,
     WasPublished, Gone, Idle, NoRow
<1>2. IInv /\ StageInv /\ SupersedeInv /\ [Next]_vars => SupersedeInv'
  BY TokenNext, OldNext, RetiredNext DEF SupersedeInv
<1> QED
  BY <1>1, <1>2, EngineInvariant, StageInvariant, PTL DEF Spec

(* Whatever crashed, stalled or overlapped: a job counted done has retired *)
(* the credential it was told to supersede, and nobody mints it again.     *)
THEOREM DoneHasRetired == Spec => []DoneRetiredOld
<1>1. SupersedeInv => DoneRetiredOld
  BY DEF SupersedeInv, RetiredInv, DoneRetiredOld, Gone
<1> QED
  BY <1>1, SupersedeInvariant, PTL

-----------------------------------------------------------------------------
(* A job has one version, and the alias points to the one of its job.      *)
VersionInv ==
  /\ \A m, n \in 1 .. Len(versions) : versions[m].key = versions[n].key => m = n
  /\ alias # 0 => job[versions[alias].key].version = alias

(* Versions are appended.                                                  *)
LEMMA VersionsGrow ==
  ASSUME IInv, NEW e \in Exec, Acts(e)
  PROVE  /\ Len(versions) \in Nat /\ Len(versions') \in Nat
         /\ Len(versions) <= Len(versions')
         /\ \A n \in 1 .. Len(versions) :
              versions'[n] = versions[n] /\ versions[n].key \in Key
         /\ \/ UNCHANGED versions
            \/ /\ VersionOf(ex[e].key) = {} /\ Len(versions') = Len(versions) + 1
               /\ versions'[Len(versions')].key = ex[e].key
<1> DEFINE Version == [key : Key, token : Token]
<1>1. versions \in Seq(Version) /\ Len(versions) \in Nat
  BY DEF IInv, TypeOK
<1>2. \A n \in 1 .. Len(versions) : versions[n].key \in Key
  <2>1. \A v \in Version : v.key \in Key
    OBVIOUS
  <2> HIDE DEF Version
  <2> QED
    BY <1>1, <2>1
<1>3. CASE UNCHANGED versions
  BY <1>1, <1>2, <1>3
<1>4. CASE /\ VersionOf(ex[e].key) = {} /\ ex[e].pc = "addVersion"
           /\ versions' = Append(versions, [key |-> ex[e].key,
                                            token |-> ex[e].row.token])
  <2> DEFINE r == [key |-> ex[e].key, token |-> ex[e].row.token]
  <2>0. r.key = ex[e].key /\ r \in [key : Key, token : Token]
    <3>1. ex[e].key \in Key /\ ex[e].row.token \in Token \cup {None}
      BY <1>4, Knows DEF Execution, Row
    <3>2. ex[e].row.token # None
      BY <1>4, Knows DEF KnowsStage, Needs, AfterCreate
    <3> QED
      BY <3>1, <3>2
  <2> HIDE DEF r
  <2>1. versions' = Append(versions, r)
    BY <1>4 DEF r
  <2>2. /\ Len(versions') = Len(versions) + 1
        /\ \A n \in 1 .. Len(versions) : versions'[n] = versions[n]
        /\ versions'[Len(versions) + 1] = r
    BY <1>1, <2>0, <2>1
  <2> QED
    BY <1>1, <1>2, <1>4, <2>0, <2>2
<1> QED
  BY <1>3, <1>4, StoreWrite

(* The alias moves to the version of the job that moves it.                *)
LEMMA AliasMoves ==
  ASSUME IInv, VersionInv, NEW e \in Exec, ex[e].pc = "moveAlias"
  PROVE  LET n == ex[e].row.version
             k == ex[e].key IN
         /\ k \in Key /\ n # 0 /\ n \in 1 .. Len(versions) /\ versions[n].key = k
         /\ job[k].version = n
<1> DEFINE n == ex[e].row.version
           k == ex[e].key
           m == job[k].version
<1>1. /\ k \in Key /\ KnowsJob(ex[e], job, versions) /\ KnowsStage(ex[e], probed)
  BY Knows
<1>2. n # 0
  BY <1>1 DEF KnowsStage, Needs, AfterStaged, AfterVerify
<1>3. n \in 1 .. Len(versions) /\ versions[n].key = k /\ m # 0
  BY <1>1, <1>2 DEF KnowsJob, VersionIs
<1>4. m \in 1 .. Len(versions) /\ versions[m].key = k
  BY <1>1, <1>3 DEF IInv, JobsOK, JobOK, VersionIs
<1> HIDE DEF n, k, m
<1>5. m = n
  BY <1>3, <1>4 DEF VersionInv
<1> QED
  BY <1>1, <1>2, <1>3, <1>5 DEF n, k, m

(* A staged job keeps its version.                                         *)
LEMMA VersionStays ==
  ASSUME IInv, VersionInv, NEW e \in Exec, Acts(e), NEW k \in Key,
         job[k].version # 0
  PROVE  job'[k].version = job[k].version
<1> DEFINE m == job[k].version
           n == ex[e].version
<1>1. m \in 1 .. Len(versions) /\ versions[m].key = k /\ job[k].stage # "absent"
  BY DEF IInv, JobsOK, JobOK, VersionIs
<1>2. CASE ex[e].key = k /\ ex[e].pc = "commit" /\ ex[e].to = "staged"
  <2>1. n # 0 /\ VersionIs(k, n, versions)
    BY <1>2, Knows DEF KnowsJob, MayCommit
  <2>2. n \in 1 .. Len(versions) /\ versions[n].key = k
    BY <2>1 DEF VersionIs
  <2>3. n = m
    <3> HIDE DEF n, m
    <3> QED
      BY <1>1, <2>2 DEF VersionInv
  <2> QED
    BY <1>1, <1>2, <2>3, RowWrite DEF SameRow
<1> QED
  BY <1>1, <1>2, RowWrite DEF SameRow

(* A job adds one version, and the alias moves to it only.                 *)
LEMMA VersionNext == IInv /\ VersionInv /\ [Next]_vars => VersionInv'
<1> SUFFICES ASSUME IInv, VersionInv, [Next]_vars PROVE VersionInv'
  OBVIOUS
<1>0. alias \in 0 .. Len(versions) /\ Len(versions) \in Nat
  BY DEF IInv, TypeOK
<1>1. CASE Rests
  BY <1>1 DEF Rests, store, VersionInv
<1>2. ASSUME NEW e \in Exec, Acts(e) PROVE VersionInv'
  <2>1. ASSUME NEW m \in 1 .. Len(versions'), NEW n \in 1 .. Len(versions'),
               versions'[m].key = versions'[n].key
        PROVE  m = n
    <3>1. CASE UNCHANGED versions
      BY <2>1, <3>1 DEF VersionInv
    <3>2. CASE /\ VersionOf(ex[e].key) = {} /\ Len(versions') = Len(versions) + 1
               /\ versions'[Len(versions')].key = ex[e].key
      <4>1. \A i \in 1 .. Len(versions) : versions'[i].key # ex[e].key
        BY <1>2, <3>2, VersionsGrow DEF VersionOf
      <4>2. \A i \in 1 .. Len(versions) : versions'[i] = versions[i]
        BY <1>2, VersionsGrow
      <4>3. CASE m \in 1 .. Len(versions) /\ n \in 1 .. Len(versions)
        BY <2>1, <4>2, <4>3 DEF VersionInv
      <4>4. \A i \in 1 .. Len(versions') : i \in 1 .. Len(versions) \/ i = Len(versions')
        BY <1>0, <3>2
      <4> QED
        BY <2>1, <3>2, <4>1, <4>3, <4>4
    <3> QED
      BY <1>2, <3>1, <3>2, VersionsGrow
  <2>2. ASSUME alias' # 0 PROVE job'[versions'[alias'].key].version = alias'
    <3>1. alias' \in 1 .. Len(versions) /\ versions[alias'].key \in Key
          /\ job[versions[alias'].key].version = alias'
      <4>1. CASE UNCHANGED alias
        BY <1>0, <1>2, <2>2, <4>1, VersionsGrow DEF VersionInv
      <4>2. CASE ex[e].pc = "moveAlias" /\ alias' = ex[e].row.version
        BY <4>2, AliasMoves
      <4> QED
        BY <1>2, <4>1, <4>2, StoreWrite
    <3>2. versions'[alias'] = versions[alias']
      BY <1>2, <3>1, VersionsGrow
    <3> QED
      BY <1>2, <2>2, <3>1, <3>2, VersionStays
  <2> QED
    BY <2>1, <2>2 DEF VersionInv
<1> QED
  BY <1>1, <1>2, NextActs

(* The alias and the row of its job agree.                                 *)
LEMMA VersionInvariant == Spec => []VersionInv
<1>1. Init => VersionInv
  BY DEF Init, VersionInv
<1> QED
  BY <1>1, VersionNext, EngineInvariant, PTL DEF Spec

-----------------------------------------------------------------------------
(* As long as no live execution has outlived its lease, who works holds it.*)
Waiting == {"idle", "lookup", "acquire"}
Calm == used["stall"] = 0

Serial == Calm => \A e \in Exec : ex[e].pc \notin Waiting => lease = e

(* How a step moves the lease.                                             *)
LEMMA LeaseMoves ==
  ASSUME IInv, NEW e \in Exec, Acts(e)
  PROVE  /\ Calm' => Calm
         /\ \/ ex'[e].pc \in Waiting /\ (lease = e \/ UNCHANGED lease)
            \/ ex[e].pc \notin Waiting /\ UNCHANGED lease
            \/ lease = None /\ lease' = e
<1>1. \/ UNCHANGED used \/ Spend("crash", MaxCrashes)
      \/ Spend("fault", MaxFaults) \/ Spend("emit", MaxEmitFaults)
  BY DEF Acts, Step, Request, Resume, EffectFails, Crash, Lookup, Acquire,
     Insert, Drive, Intent, Clean, Mint, Persist, AddVersion, ReadAlias, Reload,
     Reloaded, Verify, CheckAlias, MoveAlias, AuthorizeRevoke, Revoke,
     GuardRollback, AuthorizeRollback, Rollback, RollbackError, Mark, Commit,
     Emit, StageError, AfterStageError, Delete
<1>2. Calm' => Calm
  BY <1>1 DEF Calm, Spend, IInv, TypeOK
<1>3. CASE Leave(e)
  BY <1>2, <1>3, LeaveMove DEF Leave, Waiting
<1>4. CASE Crash(e)
  <2>1. ex \in [Exec -> Execution] /\ ex' = [ex EXCEPT ![e] = Idle]
    BY <1>4 DEF IInv, TypeOK, Crash, Become
  <2>2. ex'[e].pc = "idle"
    BY <2>1 DEF Idle
  <2> QED
    BY <1>2, <1>4, <2>2 DEF Crash, Holds, Waiting
<1>5. CASE \E k \in Key : Request(e, k) \/ Resume(e, k)
  BY <1>2, <1>5, AskMove DEF Request, Resume, Waiting
<1>6. CASE Lookup(e)
  BY <1>2, <1>3, <1>6, GotoMove DEF Lookup, Waiting
<1>7. CASE Acquire(e)
  BY <1>2, <1>3, <1>7 DEF Acquire
<1>8. CASE ~Leave(e) /\ (EffectFails(e) \/ (Step(e) /\ ~Lookup(e) /\ ~Acquire(e)))
  <2>1. ex[e].pc \notin Waiting
    BY <1>8 DEF Step, EffectFails, At, Waiting, Insert, Drive, Intent, Clean,
       Mint, Persist, AddVersion, ReadAlias, Reload, Reloaded, Verify,
       CheckAlias, MoveAlias, AuthorizeRevoke, Revoke, GuardRollback,
       AuthorizeRollback, Rollback, RollbackError, Mark, Commit, Emit,
       StageError, AfterStageError
  <2>2. UNCHANGED lease
    BY <1>8 DEF Step, EffectFails, Insert, Drive, Intent, Clean, Throw, FencedOut,
       Mint, Persist, AddVersion, ReadAlias, Reload, Reloaded, Verify,
       CheckAlias, MoveAlias, AuthorizeRevoke, Revoke, GuardRollback,
       AuthorizeRollback, Rollback, RollbackError, Mark, Commit, Emit,
       StageError, AfterStageError, Delete
  <2> QED
    BY <1>2, <2>1, <2>2
<1> QED
  BY <1>2, <1>3, <1>4, <1>5, <1>6, <1>7, <1>8 DEF Acts

(* The lease is taken when nobody works.                                   *)
LEMMA SerialNext == IInv /\ Serial /\ [Next]_vars => Serial'
<1> SUFFICES ASSUME IInv, Serial, [Next]_vars, Calm',
                    NEW f \in Exec, ex'[f].pc \notin Waiting
             PROVE  lease' = f
  BY DEF Serial
<1>1. CASE /\ Rests
           /\ \/ UNCHANGED <<lease, used>>
              \/ lease = Ghost /\ UNCHANGED used
              \/ Spend("stall", MaxStalls)
  <2>1. ~Spend("stall", MaxStalls)
    BY DEF Spend, Calm, IInv, TypeOK
  <2>2. ex' = ex /\ UNCHANGED used /\ (UNCHANGED lease \/ lease = Ghost)
    BY <1>1, <2>1 DEF Rests
  <2> QED
    BY <2>2, EngineAssumption DEF Serial, Calm
<1>2. ASSUME NEW e \in Exec, Acts(e) PROVE lease' = f
  <2>1. \A g \in Exec : ex[g].pc \notin Waiting => lease = g
    BY <1>2, LeaseMoves DEF Serial
  <2>2. f # e => ex'[f] = ex[f]
    BY <1>2, ActsFrom DEF OthersStay
  <2> QED
    BY <1>2, <2>1, <2>2, LeaseMoves, EngineAssumption
<1> QED
  BY <1>1, <1>2, NextActs

(* While no lease is outlived, who works holds it.                         *)
LEMMA SerialInvariant == Spec => []Serial
<1>1. Init => Serial
  BY DEF Init, Serial, Waiting, Idle
<1> QED
  BY <1>1, SerialNext, EngineInvariant, PTL DEF Spec

-----------------------------------------------------------------------------
(* Without an outlived lease: a rollback is on its way only for a job that *)
(* does not serve, and what serves, or is about to, authenticates.         *)
NotServing(k) == alias # 0 => versions[alias].key # k

RollbackInv ==
  /\ \A k \in Key : job[k].stage = "rolled-back" => NotServing(k)
  /\ \A e \in Exec : Retreating(ex[e]) => NotServing(ex[e].key)

MovedInv ==
  /\ \A k \in Key : job[k].stage = "alias-moved" /\ job[k].old # None =>
       NotServing(job[k].old[1])
  /\ \A e \in Exec : ex[e].pc = "commit" /\ ex[e].to = "alias-moved" =>
       alias = ex[e].row.version

LiveInv ==
  /\ \A k \in Key : job[k].stage = "verified" => job[k].token \in live
  /\ \A e \in Exec : ex[e].pc = "commit" /\ ex[e].to = "verified" =>
       ex[e].row.token \in live
  /\ ServedCredentialLive

OneInv ==
  /\ \A e \in Exec : ex[e].pc = "mint" => Orphans(ex[e].key) = {}
  /\ \A t, u \in live : t[1] = u[1] => t = u

CalmInv == Calm => RollbackInv /\ MovedInv /\ LiveInv /\ OneInv

(* What the invariants proved so far give.                                 *)
Known == /\ IInv /\ StageInv /\ TokenInv /\ OldInv /\ VersionInv
         /\ Serial /\ Calm

(* Who is past claiming works alone, on the row it has read.               *)
LEMMA Alone ==
  ASSUME Known, NEW e \in Exec, ex[e].pc \notin Early \cup {"idle"}
  PROVE  /\ lease = e /\ StageKnown(ex[e], job[ex[e].key], used["emit"])
         /\ ex[e].key \in Key
         /\ \A f \in Exec \ {e} : ex[f].pc \in Waiting
<1>1. lease = e
  BY DEF Known, Serial, Waiting, Early
<1> QED
  BY <1>1, Knows DEF Known, Serial, StageInv

(* The alias moves for a verified job.                                     *)
LEMMA AliasStep ==
  ASSUME Known, NEW e \in Exec, Acts(e)
  PROVE  \/ /\ UNCHANGED alias
            /\ \A k \in Key : NotServing(k) => NotServing(k)'
            /\ alias # 0 => /\ versions'[alias] = versions[alias]
                            /\ versions[alias].key \in Key
         \/ /\ ex[e].pc = "moveAlias" /\ job[ex[e].key].stage = "verified"
            /\ ex[e].key \in Key /\ alias' = ex[e].row.version /\ alias' # 0
            /\ versions'[alias'].key = ex[e].key
            /\ versions'[alias'].token = job[ex[e].key].token
<1>0. /\ alias \in 0 .. Len(versions) /\ Len(versions) \in Nat
      /\ alias # 0 => versions'[alias] = versions[alias] /\ versions[alias].key \in Key
  <2>1. IInv
    BY DEF Known
  <2>2. alias \in 0 .. Len(versions) /\ Len(versions) \in Nat
    BY <2>1 DEF IInv, TypeOK
  <2> QED
    BY <2>1, <2>2, VersionsGrow
<1>1. CASE UNCHANGED alias
  BY <1>0, <1>1 DEF NotServing
<1>2. CASE ex[e].pc = "moveAlias" /\ alias' = ex[e].row.version
  <2> DEFINE n == ex[e].row.version
             k == ex[e].key
  <2>1. k \in Key /\ n # 0 /\ n \in 1 .. Len(versions) /\ versions[n].key = k
    BY <1>2, AliasMoves DEF Known
  <2>2. versions'[n] = versions[n] /\ versions[n].token = job[k].token
    BY <2>1, VersionsGrow DEF Known, IInv, VersionsOK
  <2>3. job[k].stage = "verified"
    <3>1. StageKnown(ex[e], job[k], used["emit"])
      BY <1>2, Alone DEF Early
    <3>2. ex[e].at = "verified"
      BY <1>2, Knows DEF KnowsStage, Known
    <3> QED
      BY <1>2, <3>1, <3>2 DEF StageKnown, InStage, Early
  <2> QED
    BY <1>2, <2>1, <2>2, <2>3
<1> QED
  BY <1>1, <1>2, StoreWrite DEF Known

(* The alias leaves a job alone that is not about to publish.              *)
LEMMA NotServingStays ==
  ASSUME Known, NEW e \in Exec, Acts(e), NEW k \in Key, NotServing(k),
         job[k].stage # "verified" \/ ex[e].key # k \/ ex[e].pc # "moveAlias"
  PROVE  NotServing(k)'
BY AliasStep DEF NotServing

(* Rollback is for jobs that do not serve.                                 *)
LEMMA RollbackNext ==
  ASSUME Known, RollbackInv, NEW e \in Exec, Acts(e)
  PROVE  RollbackInv'
<1>1. ASSUME NEW k \in Key, job'[k].stage = "rolled-back" PROVE NotServing(k)'
  <2>1. CASE job[k].stage = "rolled-back"
    BY <2>1, NotServingStays DEF RollbackInv
  <2>2. CASE ex[e].pc = "commit" /\ ex[e].to = "rolled-back" /\ ex[e].key = k
    <3>1. NotServing(k)
      BY <2>2 DEF RollbackInv, Retreating
    <3> QED
      BY <2>2, <3>1, NotServingStays
  <2> QED
    BY <1>1, <2>1, <2>2, RowWrite DEF SameRow, Known
<1>2. ASSUME NEW f \in Exec, Retreating(ex'[f])
      PROVE  alias' # 0 => versions'[alias'].key # ex'[f].key
  <2>1. CASE f # e
    <3>1. ex'[f] = ex[f]
      BY <2>1, ActsFrom DEF OthersStay, Known
    <3>2. ex[f].pc \notin Early \cup {"idle"} /\ NotServing(ex[f].key)
      BY <1>2, <3>1 DEF Retreating, RollbackInv, Early
    <3>3. ex[f].key \in Key /\ ex[e].pc \in Waiting
      BY <2>1, <3>2, Alone
    <3>4. NotServing(ex[f].key)'
      <4> DEFINE k == ex[f].key
      <4>1. k \in Key /\ NotServing(k) /\ ex[e].pc # "moveAlias"
        BY <3>2, <3>3 DEF Waiting
      <4>2. UNCHANGED alias /\ (alias # 0 => versions'[alias] = versions[alias])
        BY <4>1, AliasStep
      <4> QED
        BY <3>1, <4>1, <4>2 DEF NotServing
    <3> QED
      BY <3>1, <3>4 DEF NotServing
  <2>2. CASE f = e
    <3> DEFINE k == ex[e].key
    <3>1. /\ ex'[e].key = k
          /\ \/ Retreating(ex[e])
             \/ /\ ex[e].pc = "guardRollback"
                /\ ex[e].row.version = 0 \/ alias # ex[e].row.version
      BY <1>2, <2>2, ActsFrom DEF Known, From, EffectFrom, JobFrom, Retreating
    <3>2. ex[e].pc \notin Early \cup {"idle"} /\ ex[e].pc # "moveAlias"
      BY <3>1 DEF Retreating, Early
    <3>3. k \in Key /\ StageKnown(ex[e], job[k], used["emit"])
      BY <3>2, Alone
    <3>4. NotServing(k)
      <4>1. CASE Retreating(ex[e])
        BY <4>1 DEF RollbackInv
      <4>2. CASE /\ ex[e].pc = "guardRollback"
                 /\ ex[e].row.version = 0 \/ alias # ex[e].row.version
        <5>1. ex[e].row.version = job[k].version
          BY <3>2, <3>3, <4>2 DEF StageKnown, InStage
        <5> QED
          BY <4>2, <5>1 DEF NotServing, Known, VersionInv
      <4> QED
        BY <3>1, <4>1, <4>2
    <3>5. UNCHANGED alias /\ (alias # 0 => versions'[alias] = versions[alias])
      BY <3>2, AliasStep
    <3> QED
      BY <2>2, <3>1, <3>4, <3>5 DEF NotServing
  <2> QED
    BY <2>1, <2>2
<1> QED
  BY <1>1, <1>2 DEF RollbackInv, NotServing

(* What an alias that has moved leaves behind does not serve.              *)
LEMMA MovedNext ==
  ASSUME Known, MovedInv, NEW e \in Exec, Acts(e)
  PROVE  MovedInv'
<1>1. ASSUME NEW k \in Key, job'[k].stage = "alias-moved", job'[k].old # None
      PROVE  alias' # 0 => versions'[alias'].key # job'[k].old[1]
  <2> DEFINE t == job[k].old
  <2>0. job'[k].old = t /\ t # None
    BY <1>1, RowWrite DEF SameRow, Known
  <2>1. /\ t[1] \in Key /\ job[t[1]].stage \in Published /\ t[1] # k
    BY <2>0 DEF Known, OldInv, WasPublished
  <2>2. NotServing(t[1])
    <3>1. CASE job[k].stage = "alias-moved"
      BY <2>0, <3>1 DEF MovedInv
    <3>2. CASE ex[e].pc = "commit" /\ ex[e].to = "alias-moved" /\ ex[e].key = k
      <4> DEFINE n == ex[e].row.version
      <4>1. alias = n /\ n # 0 /\ VersionIs(k, n, versions)
        BY <3>2, Knows DEF MovedInv, Known, MayCommit, KnowsJob, AfterStaged, AfterVerify
      <4>2. versions[alias].key = k
        BY <4>1 DEF VersionIs
      <4> QED
        BY <2>1, <4>2 DEF NotServing
    <3> QED
      BY <1>1, <3>1, <3>2, RowWrite DEF SameRow, Known
  <2>3. NotServing(t[1])'
    <3> DEFINE k1 == t[1]
    <3>1. k1 \in Key /\ NotServing(k1) /\ job[k1].stage # "verified"
      BY <2>1, <2>2 DEF Published
    <3>2. alias' # 0 => versions'[alias'].key # k1
      <4> HIDE DEF k1
      <4> QED
        BY <3>1, NotServingStays DEF NotServing
    <3> QED
      BY <2>0, <3>2 DEF NotServing
  <2> QED
    BY <2>0, <2>3 DEF NotServing
<1>2. ASSUME NEW f \in Exec, ex'[f].pc = "commit", ex'[f].to = "alias-moved"
      PROVE  alias' = ex'[f].row.version
  <2>1. CASE f # e
    <3>1. ex'[f] = ex[f]
      BY <2>1, ActsFrom DEF OthersStay, Known
    <3>2. ex[e].pc \in Waiting
      BY <1>2, <2>1, <3>1, Alone DEF Early
    <3>3. UNCHANGED alias
      BY <3>2, StoreWrite DEF Waiting, Known
    <3> QED
      BY <1>2, <3>1, <3>3 DEF MovedInv
  <2>2. CASE f = e
    BY <1>2, <2>2, ActsFrom DEF Known, From, CommitFrom
  <2> QED
    BY <2>1, <2>2
<1> QED
  BY <1>1, <1>2 DEF MovedInv, NotServing

(* A credential that stops authenticating is neither served nor verified.  *)
LEMMA Lost ==
  ASSUME Known, RollbackInv, MovedInv, NEW e \in Exec, Acts(e),
         NEW k \in Key, job[k].token \in live, job[k].token \notin live'
  PROVE  /\ ex[e].pc \in {"clean", "revoke", "rollback"}
         /\ NotServing(k) /\ job[k].stage # "verified"
<1> DEFINE y == ex[e]
           t == job[k].token
<1>1. t \in Token /\ t # None /\ t[1] = k
  <2>1. t \in Token /\ Own(t, k)
    BY DEF Known, IInv, TypeOK, TokenInv
  <2>2. t # None
    BY <2>1, EngineAssumption DEF Token
  <2> QED
    BY <2>1, <2>2 DEF Own
<1>2. \/ y.pc = "clean" /\ t \in Orphans(y.key)
      \/ y.pc = "revoke" /\ t = y.row.old
      \/ y.pc = "rollback" /\ t = y.row.token
  BY LiveWrite DEF Known
<1>3. y.pc \notin Early \cup {"idle"}
  BY <1>2 DEF Early
<1>4. /\ lease = e /\ StageKnown(y, job[y.key], used["emit"]) /\ y.key \in Key
  BY <1>3, Alone
<1>5. ~(y.pc = "clean" /\ t \in Orphans(y.key))
  <2>1. y.pc = "clean" => job[y.key].token = None
    BY <1>4 DEF Known, IInv, MintsOnce, Minting
  <2> QED
    BY <1>1, <2>1 DEF Orphans
<1>6. CASE y.pc = "revoke" /\ t = y.row.old
  <2>1. y.row.old = job[y.key].old
    BY <1>3 DEF Known, OldInv
  <2>2. job[y.key].stage = "alias-moved"
    <3>1. y.at = "alias-moved"
      BY <1>6, Knows DEF Known, KnowsStage
    <3> QED
      BY <1>3, <1>4, <1>6, <3>1 DEF StageKnown, InStage
  <2>3. NotServing(t[1])
    BY <1>1, <1>4, <1>6, <2>1, <2>2 DEF MovedInv
  <2>4. job[t[1]].stage \in Published
    BY <1>1, <1>4, <1>6, <2>1 DEF Known, OldInv, WasPublished
  <2> QED
    BY <1>1, <1>6, <2>3, <2>4 DEF Published
<1>7. CASE y.pc = "rollback" /\ t = y.row.token
  <2>1. job[y.key].token = t
    BY <1>1, <1>7, Knows DEF Known, KnowsJob
  <2>2. t[1] = y.key
    BY <1>1, <1>4, <2>1 DEF Known, TokenInv, Own
  <2>3. NotServing(y.key) /\ job[y.key].stage = "rolling-back"
    BY <1>3, <1>4, <1>7 DEF RollbackInv, Retreating, StageKnown
  <2> QED
    BY <1>1, <1>7, <2>2, <2>3
<1> QED
  BY <1>2, <1>5, <1>6, <1>7

(* What serves, or is about to, authenticates.                             *)
LEMMA LiveNext ==
  ASSUME Known, RollbackInv, MovedInv, LiveInv, NEW e \in Exec, Acts(e), [Next]_vars
  PROVE  LiveInv'
<1>1. ASSUME NEW k \in Key, job'[k].stage = "verified" PROVE job'[k].token \in live'
  <2>1. job[k].token \in live
    <3>1. CASE job[k].stage = "verified"
      BY <3>1 DEF LiveInv
    <3>2. CASE ex[e].pc = "commit" /\ ex[e].to = "verified" /\ ex[e].key = k
      <4>1. ex[e].row.token \in live
        BY <3>2 DEF LiveInv
      <4>2. ex[e].row.token # None
        BY <3>2, Knows DEF Known, MayCommit, AfterCreate, AfterStaged, AfterVerify
      <4>3. job[k].token = ex[e].row.token
        BY <3>2, <4>2, Knows DEF Known, KnowsJob
      <4> QED
        BY <4>1, <4>3
    <3> QED
      BY <1>1, <3>1, <3>2, RowWrite DEF SameRow, Known
  <2>2. job'[k].token = job[k].token
    <3>1. job[k].token # None
      BY <2>1, EngineAssumption DEF Known, IInv, TypeOK, Token
    <3> QED
      BY <3>1, CredentialStays DEF Known
  <2>3. job[k].token \in live'
    <3>1. SUFFICES ASSUME job[k].token \notin live' PROVE FALSE
      OBVIOUS
    <3>2. ex[e].pc # "commit" /\ job[k].stage # "verified"
      BY <2>1, <3>1, Lost
    <3> QED
      BY <1>1, <3>2, RowWrite DEF SameRow, Known
  <2> QED
    BY <2>2, <2>3
<1>2. ASSUME NEW f \in Exec, ex'[f].pc = "commit", ex'[f].to = "verified"
      PROVE  ex'[f].row.token \in live'
  <2>1. CASE f # e
    <3>1. ex'[f] = ex[f]
      BY <2>1, ActsFrom DEF OthersStay, Known
    <3>2. ex[e].pc \in Waiting
      BY <1>2, <2>1, <3>1, Alone DEF Early
    <3>3. UNCHANGED live
      BY <3>2, LiveWrite DEF Waiting, Known
    <3> QED
      BY <1>2, <3>1, <3>3 DEF LiveInv
  <2>2. CASE f = e
    BY <1>2, <2>2, ActsFrom DEF Known, From, CommitFrom
  <2> QED
    BY <2>1, <2>2
<1>3. ASSUME alias' # 0 PROVE versions'[alias'].token \in live'
  <2>1. CASE /\ UNCHANGED alias /\ versions'[alias] = versions[alias]
             /\ versions[alias].key \in Key
    <3> DEFINE k == versions[alias].key
    <3>1. versions[alias].token \in live
      BY <1>3, <2>1 DEF LiveInv, ServedCredentialLive, Served
    <3>2. k \in Key /\ job[k].token = versions[alias].token /\ ~NotServing(k)
      <4>1. alias \in 1 .. Len(versions)
        BY <1>3, <2>1 DEF Known, IInv, TypeOK
      <4> QED
        BY <1>3, <2>1, <4>1 DEF Known, IInv, VersionsOK, NotServing
    <3> HIDE DEF k
    <3> QED
      BY <2>1, <3>1, <3>2, Lost
  <2>2. CASE /\ ex[e].pc = "moveAlias" /\ job[ex[e].key].stage = "verified"
             /\ ex[e].key \in Key
             /\ versions'[alias'].token = job[ex[e].key].token
    <3>1. UNCHANGED live
      BY <2>2, LiveWrite DEF Known
    <3> QED
      BY <2>2, <3>1 DEF LiveInv
  <2> QED
    BY <1>3, <2>1, <2>2, AliasStep
<1> QED
  BY <1>1, <1>2, <1>3 DEF LiveInv, ServedCredentialLive, Served

(* At most one token authenticates as a job.                               *)
LEMMA OneNext ==
  ASSUME Known, OneInv, NEW e \in Exec, Acts(e)
  PROVE  OneInv'
<1>1. ASSUME NEW f \in Exec, ex'[f].pc = "mint"
      PROVE  \A t \in live' : t[1] # ex'[f].key
  <2>1. CASE f # e
    <3>1. ex'[f] = ex[f]
      BY <2>1, ActsFrom DEF OthersStay, Known
    <3>2. ex[e].pc \in Waiting
      BY <1>1, <2>1, <3>1, Alone DEF Early
    <3>3. UNCHANGED live
      BY <3>2, LiveWrite DEF Waiting, Known
    <3> QED
      BY <1>1, <3>1, <3>3 DEF OneInv, Orphans
  <2>2. CASE f = e
    <3>1. ex'[e].key = ex[e].key /\ live' = live \ Orphans(ex[e].key)
      BY <1>1, <2>2, ActsFrom DEF Known, From, JobFrom, EffectFrom
    <3> QED
      BY <2>2, <3>1 DEF Orphans
  <2> QED
    BY <2>1, <2>2
<1>2. ASSUME NEW t \in live', NEW u \in live', t[1] = u[1] PROVE t = u
  <2>1. CASE live' \subseteq live
    BY <1>2, <2>1 DEF OneInv
  <2>2. CASE /\ ex[e].pc = "mint"
             /\ live' = live \cup {<<ex[e].key, minted[ex[e].key] + 1>>}
    <3> DEFINE n == <<ex[e].key, minted[ex[e].key] + 1>>
    <3>1. \A v \in live : v[1] # ex[e].key
      BY <2>2 DEF OneInv, Orphans
    <3>2. n[1] = ex[e].key /\ live' = live \cup {n}
      BY <2>2
    <3> HIDE DEF n
    <3> QED
      BY <1>2, <3>1, <3>2 DEF OneInv
  <2> QED
    BY <2>1, <2>2, LiveWrite DEF Known
<1> QED
  BY <1>1, <1>2 DEF OneInv, Orphans

(* Together they are kept while no lease is outlived.                      *)
LEMMA CalmNext ==
  /\ IInv /\ StageInv /\ TokenInv /\ OldInv /\ VersionInv /\ Serial
  /\ CalmInv /\ [Next]_vars
  => CalmInv'
<1> SUFFICES ASSUME IInv, StageInv, TokenInv, OldInv, VersionInv, Serial,
                    CalmInv, [Next]_vars, Calm'
             PROVE  RollbackInv' /\ MovedInv' /\ LiveInv' /\ OneInv'
  BY DEF CalmInv
<1>1. CASE /\ Rests
           /\ \/ UNCHANGED <<lease, used>>
              \/ lease = Ghost /\ UNCHANGED used
              \/ Spend("stall", MaxStalls)
  <2>1. ~Spend("stall", MaxStalls)
    BY DEF Spend, Calm, IInv, TypeOK
  <2>2. RollbackInv /\ MovedInv /\ LiveInv /\ OneInv
    BY <1>1, <2>1 DEF CalmInv, Calm
  <2>3. UNCHANGED <<job, versions, alias, live, ex>>
    BY <1>1 DEF Rests, store, cloud
  <2> QED
    BY <2>2, <2>3 DEF RollbackInv, MovedInv, LiveInv, OneInv, NotServing,
       ServedCredentialLive, Served, Orphans
<1>2. ASSUME NEW e \in Exec, Acts(e)
      PROVE  RollbackInv' /\ MovedInv' /\ LiveInv' /\ OneInv'
  <2>1. Calm /\ RollbackInv /\ MovedInv /\ LiveInv /\ OneInv
    BY <1>2, LeaseMoves DEF CalmInv
  <2>2. Known
    BY <2>1 DEF Known
  <2> QED
    BY <1>2, <2>1, <2>2, RollbackNext, MovedNext, LiveNext, OneNext
<1> QED
  BY <1>1, <1>2, NextActs

(* They hold while no lease is outlived.                                   *)
LEMMA CalmInvariant == Spec => []CalmInv
<1>1. Init => CalmInv
  BY DEF Init, CalmInv, RollbackInv, MovedInv, LiveInv, OneInv, NotServing,
     Retreating, ServedCredentialLive, Idle, NoRow
<1>2. SupersedeInv => TokenInv /\ OldInv
  BY DEF SupersedeInv
<1> QED
  BY <1>1, <1>2, CalmNext, EngineInvariant, StageInvariant, SupersedeInvariant,
     VersionInvariant, SerialInvariant, PTL DEF Spec

(* No downtime (ServedCredentialLive), while no live execution outlives    *)
(* its lease: crashes, failed and unanswered effects, denials and retries  *)
(* in any order never revoke, roll back or clean up what the alias serves. *)
THEOREM ServedStaysLive == Spec => [](used["stall"] = 0 => ServedCredentialLive)
<1>1. CalmInv => (used["stall"] = 0 => ServedCredentialLive)
  BY DEF CalmInv, Calm, LiveInv
<1> QED
  BY <1>1, CalmInvariant, PTL

(* Rollback passes the served job by, under the same condition.            *)
THEOREM RollbackMissesServed ==
  Spec => [](used["stall"] = 0 => ServedJobNotRolledBack)
<1>1. IInv /\ CalmInv => (used["stall"] = 0 => ServedJobNotRolledBack)
  <2> SUFFICES ASSUME IInv, RollbackInv, alias # 0
               PROVE  job[versions[alias].key].stage # "rolled-back"
    BY DEF CalmInv, Calm, ServedJobNotRolledBack
  <2> DEFINE Version == [key : Key, token : Token]
  <2>1. alias \in 1 .. Len(versions) /\ versions \in Seq(Version)
    BY DEF IInv, TypeOK
  <2>2. versions[alias].key \in Key
    <3>1. \A v \in Version : v.key \in Key
      OBVIOUS
    <3> HIDE DEF Version
    <3> QED
      BY <2>1, <3>1
  <2> QED
    BY <2>2 DEF RollbackInv, NotServing
<1> QED
  BY <1>1, EngineInvariant, CalmInvariant, PTL

(* At most one live token per job, under the same condition.               *)
THEOREM OneLivePerJob == Spec => [](used["stall"] = 0 => AtMostOneLivePerJob)
<1>1. CalmInv => (used["stall"] = 0 => AtMostOneLivePerJob)
  <2> SUFFICES ASSUME OneInv, NEW k \in Key PROVE Cardinality(Orphans(k)) <= 1
    BY DEF CalmInv, Calm, AtMostOneLivePerJob
  <2>1. CASE Orphans(k) = {}
    BY <2>1, FS_EmptySet
  <2>2. CASE Orphans(k) # {}
    <3>1. PICK t : t \in Orphans(k)
      BY <2>2
    <3>2. Orphans(k) = {t}
      BY <3>1 DEF Orphans, OneInv
    <3> QED
      BY <3>2, FS_Singleton
  <2> QED
    BY <2>1, <2>2
<1> QED
  BY <1>1, CalmInvariant, PTL
=============================================================================
