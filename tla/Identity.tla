------------------------------ MODULE Identity ------------------------------
(***************************************************************************)
(* The workload tokens of server/identity: IdentityService over the file   *)
(* store, called by operators' processes (scripts/identity-admin.ts) while *)
(* servers read the file to verify.                                        *)
(*                                                                         *)
(* A call is a process of its own. Between any two steps of it the others  *)
(* may act, it may die, and time may pass; what is within one step nobody  *)
(* else can tell apart. The lock file is all that keeps two mutations      *)
(* apart. Times are relative to the present, as in TokenRegistry, and so   *)
(* is the age of the lock file.                                            *)
(***************************************************************************)
EXTENDS Naturals

CONSTANTS Token,      \* token ids that can be drawn
          Proc,       \* processes running an operator's command
          Life,       \* values of --ttl, Forever when it is not given
          Overlap,    \* values of --overlap, Invalid when it is no number
          None, Forever, Invalid,
          Stale,      \* LOCK_STALE_MS
          Timeout,    \* LOCK_TIMEOUT_MS
          MaxTime,    \* bound on Life and Overlap
          MaxCrashes, \* bound on processes dying in a call
          MaxRaces    \* bound on file operations that hit what another
                      \* process has put there since it was looked at, or
                      \* whose lock it has outlived

ASSUME IdentityAssumption ==
  /\ Stale \in Nat /\ Timeout \in Nat /\ MaxTime \in Nat \ {0}
  /\ MaxCrashes \in Nat /\ MaxRaces \in Nat
  /\ Forever \notin Nat /\ Invalid \notin Nat /\ Invalid # Forever
  /\ Life \subseteq 0 .. MaxTime \cup {Forever}
  /\ Overlap \subseteq 0 .. MaxTime \cup {Invalid}
  /\ None \notin Token /\ None \notin Proc

VARIABLES exists,  \* whether identities.json is there
          file,    \* its records
          lock,    \* the lock file: whose it is and how old, or NoLock
          proc,    \* each process's place in its call and its locals
          drawn,   \* ids drawn so far
          parent,  \* history: the token whose rotation drew an id
          shown,   \* history: tokens printed for the operator
          dropped, \* history: tokens whose revocation was reported
          replaced,\* history: tokens whose rotation was reported
          crashes, races  \* how much of the bounds has been used

reports == <<shown, dropped, replaced>>
vars == <<exists, file, lock, proc, drawn, parent, reports, crashes, races>>

Registry == INSTANCE TokenRegistry WITH token <- file

ASSUME RecordAssumption == None \notin Registry!Record

Record == Registry!Record \cup {None}
Empty == [t \in Token |-> None]
NoLock == [owner |-> None, age |-> 0, there |-> FALSE]
Off == [pc |-> "idle", op |-> "none", old |-> None, new |-> None,
        life |-> Forever, cut |-> Forever, copy |-> Empty, wait |-> 0]

Critical == {"read", "write", "release"}

(* Where a process can be in a call, and its locals.                       *)
Place ==
  [pc : {"idle", "make", "find", "acquire", "break"} \cup Critical,
   op : {"none", "issue", "revoke", "rotate", "supersede"},
   old : Token \cup {None}, new : Token \cup {None},
   life : Registry!Time, cut : Registry!Time \cup {Invalid},
   copy : [Token -> Record], wait : 0 .. Timeout + 1]

TypeOK ==
  /\ exists \in BOOLEAN /\ file \in [Token -> Record]
  /\ lock \in [owner : Proc \cup {None}, age : 0 .. Stale + 1, there : BOOLEAN]
  /\ proc \in [Proc -> Place]
  /\ drawn \subseteq Token /\ parent \in [Token -> Token \cup {None}]
  /\ shown \subseteq Token /\ dropped \subseteq Token /\ replaced \subseteq Token
  /\ crashes \in 0 .. MaxCrashes /\ races \in 0 .. MaxRaces

Init ==
  /\ exists = FALSE /\ file = Empty /\ lock = NoLock
  /\ proc = [p \in Proc |-> Off]
  /\ drawn = {} /\ parent = [t \in Token |-> None]
  /\ shown = {} /\ dropped = {} /\ replaced = {}
  /\ crashes = 0 /\ races = 0

-----------------------------------------------------------------------------
At(p, label) == proc[p].pc = label
Goto(p, label) == proc' = [proc EXCEPT ![p].pc = label]
Return(p) == proc' = [proc EXCEPT ![p] = Off]

(* Whether an operation hits what another process has put there since.     *)
Race(hit) == IF hit THEN races < MaxRaces /\ races' = races + 1 ELSE races' = races

(* The constructor looks for the store file ...                            *)
Start(p) ==
  /\ At(p, "idle")
  /\ Goto(p, IF exists THEN "find" ELSE "make")
  /\ UNCHANGED <<exists, file, lock, drawn, parent, reports, crashes, races>>

(* ... and writes an empty one, without the lock, if there was none.       *)
Make(p) ==
  /\ At(p, "make")
  /\ Race(file # Empty)
  /\ exists' = TRUE /\ file' = Empty
  /\ Goto(p, "find")
  /\ UNCHANGED <<lock, drawn, parent, reports, crashes>>

(* What a call has worked out before it waits for the lock.                *)
Request(p, op, old, new, life, cut) ==
  /\ At(p, "find")
  /\ proc' = [proc EXCEPT ![p] = [Off EXCEPT !.pc = "acquire", !.op = op, !.old = old,
                                             !.new = new, !.life = life, !.cut = cut]]
  /\ UNCHANGED <<exists, file, lock, reports, crashes, races>>

Issue(p, new, life) ==
  /\ new \notin drawn /\ drawn' = drawn \cup {new}
  /\ Request(p, "issue", None, new, life, Forever)
  /\ UNCHANGED parent

Revoke(p, old) ==
  /\ file[old] # None
  /\ Request(p, "revoke", old, None, Forever, Forever)
  /\ UNCHANGED <<drawn, parent>>

(* rotateToken reads the old record and draws a token with what is left of *)
(* its life, at least a second. Whether the old one is still valid it does *)
(* not ask.                                                                *)
Rotate(p, old, new, overlap) ==
  LET left == file[old].life IN
  /\ file[old] # None /\ new \notin drawn
  /\ drawn' = drawn \cup {new} /\ parent' = [parent EXCEPT ![new] = old]
  /\ Request(p, "rotate", old, new, IF left = 0 THEN 1 ELSE left, overlap)

(* An unknown id: revokeToken returns, rotateToken throws.                 *)
Unknown(p) ==
  /\ At(p, "find") /\ \E t \in Token : file[t] = None
  /\ Return(p)
  /\ UNCHANGED <<exists, file, lock, drawn, parent, reports, crashes, races>>

-----------------------------------------------------------------------------
Acquire_whateverIsThere(p) ==
  /\ At(p, "acquire")
  /\ lock' = [owner |-> p, age |-> 0, there |-> TRUE]
  /\ Goto(p, "read")
  /\ UNCHANGED <<exists, file, drawn, parent, reports, crashes, races>>

(* acquireLock: the create that fails when the file exists.                *)
Acquire(p) ==
  /\ At(p, "acquire") /\ ~lock.there
  /\ lock' = [owner |-> p, age |-> 0, there |-> TRUE]
  /\ Goto(p, "read")
  /\ UNCHANGED <<exists, file, drawn, parent, reports, crashes, races>>

FindStale_never(p) == FALSE /\ At(p, "acquire") /\ UNCHANGED vars

(* It exists and is too old: it will be removed.                           *)
FindStale(p) ==
  /\ At(p, "acquire") /\ lock.age > Stale
  /\ Goto(p, "break")
  /\ UNCHANGED <<exists, file, lock, drawn, parent, reports, crashes, races>>

(* The unlink takes whatever lock file is there by now.                    *)
Break(p) ==
  /\ At(p, "break")
  /\ Race(lock.owner # None)
  /\ lock' = NoLock
  /\ Goto(p, "acquire")
  /\ UNCHANGED <<exists, file, drawn, parent, reports, crashes>>

GiveUp_supersedesAnyway(p) ==
  /\ At(p, "acquire") /\ lock.there /\ lock.age <= Stale
  /\ proc[p].wait > Timeout
  /\ IF proc[p].op = "rotate" /\ proc[p].cut # Invalid
     THEN proc' = [proc EXCEPT ![p] = [@ EXCEPT !.op = "supersede", !.wait = 0]]
     ELSE Return(p)
  /\ UNCHANGED <<exists, file, lock, drawn, parent, reports, crashes, races>>

(* The lock is held and the deadline has passed: the call throws.          *)
GiveUp(p) ==
  /\ At(p, "acquire") /\ lock.there /\ lock.age <= Stale
  /\ proc[p].wait > Timeout
  /\ Return(p)
  /\ UNCHANGED <<exists, file, lock, drawn, parent, reports, crashes, races>>

(* withLockedMutation loads the container ...                              *)
Read(p) ==
  /\ At(p, "read")
  /\ proc' = [proc EXCEPT ![p].pc = "write", ![p].copy = file]
  /\ UNCHANGED <<exists, file, lock, drawn, parent, reports, crashes, races>>

Mutated_replaces(p) ==
  LET c == proc[p].copy
      old == proc[p].old
      fresh == [life |-> proc[p].life, cut |-> Forever, revoked |-> FALSE]
  IN CASE proc[p].op \in {"issue", "rotate"} -> [c EXCEPT ![proc[p].new] = fresh]
       [] proc[p].op = "revoke" /\ c[old] # None ->
            [c EXCEPT ![old] = [fresh EXCEPT !.revoked = TRUE]]
       [] proc[p].op = "supersede" /\ c[old] # None ->
            [c EXCEPT ![old] = [fresh EXCEPT !.cut = proc[p].cut]]
       [] OTHER -> c

(* ... changes it: put appends, update merges a patch into a known id ...  *)
Mutated(p) ==
  LET c == proc[p].copy
      old == proc[p].old
  IN CASE proc[p].op \in {"issue", "rotate"} ->
            [c EXCEPT ![proc[p].new] = [life |-> proc[p].life, cut |-> Forever,
                                        revoked |-> FALSE]]
       [] proc[p].op = "revoke" /\ c[old] # None -> [c EXCEPT ![old].revoked = TRUE]
       [] proc[p].op = "supersede" /\ c[old] # None -> [c EXCEPT ![old].cut = proc[p].cut]
       [] OTHER -> c

(* ... and renames the changed one into place.                             *)
Write(p) ==
  /\ At(p, "write")
  /\ file' = Mutated(p)
  /\ proc' = [proc EXCEPT ![p].pc = "release", ![p].copy = Empty]
  /\ UNCHANGED <<exists, lock, drawn, parent, reports, crashes, races>>

(* releaseLock unlinks whatever lock file is there. The call returns, or,  *)
(* a rotation, goes on to mark the old token; an overlap that is no number *)
(* throws instead.                                                         *)
Release(p) ==
  LET op == proc[p].op
      old == proc[p].old
      new == proc[p].new
  IN
  /\ At(p, "release")
  /\ lock' = NoLock
  /\ IF op = "rotate" /\ proc[p].cut # Invalid
     THEN proc' = [proc EXCEPT ![p] = [@ EXCEPT !.pc = "acquire", !.op = "supersede",
                                                !.life = Forever, !.wait = 0]]
     ELSE Return(p)
  /\ shown' = IF op \in {"issue", "supersede"} THEN shown \cup {new} ELSE shown
  /\ dropped' = IF op = "revoke" THEN dropped \cup {old} ELSE dropped
  /\ replaced' = IF op = "supersede" THEN replaced \cup {old} ELSE replaced
  /\ UNCHANGED <<exists, file, drawn, parent, crashes, races>>

-----------------------------------------------------------------------------
(* A process dies in its call; its lock file stays.                        *)
Crash(p) ==
  /\ ~At(p, "idle") /\ crashes < MaxCrashes
  /\ Return(p)
  /\ lock' = IF lock.owner = p THEN [lock EXCEPT !.owner = None] ELSE lock
  /\ crashes' = crashes + 1
  /\ UNCHANGED <<exists, file, drawn, parent, reports, races>>

(* As if the process had looked only now: the executions in which the      *)
(* races that MaxRaces rules out do not happen.                            *)
LookAgain(p) ==
  /\ \/ At(p, "make") /\ exists /\ Goto(p, "find")
     \/ At(p, "break") /\ lock.age <= Stale /\ Goto(p, "acquire")
  /\ UNCHANGED <<exists, file, lock, drawn, parent, reports, crashes, races>>

Later(n, bound) == IF n > bound THEN n ELSE n + 1

(* Time passes for the lock, the records and what calls have computed. A   *)
(* living holder only outlives the limit when races are to be considered.  *)
Tick ==
  /\ lock.owner # None /\ lock.age = Stale => races < MaxRaces
  /\ lock' = IF lock.there THEN [lock EXCEPT !.age = Later(@, Stale)] ELSE lock
  /\ file' = [t \in Token |-> Registry!Older(file[t])]
  /\ proc' = [p \in Proc |-> [proc[p] EXCEPT
       !.life = Registry!Sooner(@),
       !.cut = IF @ = Invalid \/ proc[p].op = "rotate" THEN @ ELSE Registry!Sooner(@),
       !.copy = [t \in Token |-> Registry!Older(@[t])],
       !.wait = IF proc[p].pc \in {"acquire", "break"} THEN Later(@, Timeout) ELSE @]]
  /\ UNCHANGED <<exists, drawn, parent, reports, crashes, races>>

Step(p) ==
  \/ Make(p) \/ LookAgain(p) \/ Unknown(p)
  \/ \E t \in Token :
       \/ Revoke(p, t)
       \/ \E n \in Life : Issue(p, t, n)
       \/ \E old \in Token, n \in Overlap : Rotate(p, old, t, n)
  \/ Acquire(p) \/ FindStale(p) \/ Break(p) \/ GiveUp(p)
  \/ Read(p) \/ Write(p) \/ Release(p)

Next == Tick \/ \E p \in Proc : Start(p) \/ Step(p) \/ Crash(p)

Spec == Init /\ [][Next]_vars

(* Processes run on, and time passes.                                      *)
FairSpec == Spec /\ WF_vars(Tick) /\ \A p \in Proc : WF_vars(Step(p))

-----------------------------------------------------------------------------
(* What a call has reported done is in the file, whatever other calls wait *)
(* for, die of or do at the same time, until one acts on what it has       *)
(* looked at and another has replaced (MaxRaces): printed tokens are       *)
(* known, revoked ones revoked, and rotated ones have their cutoff.        *)
ReportedIsDurable ==
  /\ \A t \in shown : file[t] # None
  /\ \A t \in dropped : file[t] # None /\ file[t].revoked
  /\ \A t \in replaced : file[t] # None /\ file[t].cut # Forever

(* A token is only cut off once its successor is in the file, with what    *)
(* was left of its life: a rotation that dies or times out half way never  *)
(* leaves a workload with a dying token and none to follow it.             *)
SupersededHasSuccessor ==
  \A t \in Token : file[t] # None /\ file[t].cut # Forever =>
    \E c \in Token : /\ parent[c] = t /\ file[c] # None
                     /\ file[c].life = file[t].life \/ file[t].life = 0

(* Each step of the file store is a step of the table it stands for.       *)
ImplementsRegistry == Registry!Spec

(* Every call returns or throws: a waiting one gets the lock, breaks it or *)
(* gives up.                                                               *)
EveryCallReturns == \A p \in Proc : ~At(p, "idle") ~> At(p, "idle")

(* docs/runtime/identity.md: a "hard cutoff". A second rotation of the     *)
(* same token moves it.                                                    *)
CutoffIsHard ==
  [][\A t \in Token : file[t] # None /\ file[t].cut # Forever =>
       file'[t].cut \in 0 .. file[t].cut]_vars

(* A revoked token leaves its holder nothing: rotateToken does not ask     *)
(* whether the token it replaces is still valid.                           *)
RevokedHasNoSuccessor ==
  \A t, c \in Token : parent[c] = t /\ t \in dropped => ~Registry!Valid(c)
=============================================================================
