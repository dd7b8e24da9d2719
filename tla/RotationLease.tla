--------------------------- MODULE RotationLease ---------------------------
(***************************************************************************)
(* The fenced per-secret lease of server/rotation/store-sqlite.ts: the     *)
(* tables rotation_leases and rotation_fence_seq, the handles executors    *)
(* keep in memory, and the fenced writes to rotation_jobs and              *)
(* rotation_checkpoints.                                                   *)
(*                                                                         *)
(* Every store method takes the caller's `now`. The caller read the clock  *)
(* some time before the transaction runs, so each action takes any t that  *)
(* the clock has already shown.                                            *)
(***************************************************************************)
EXTENDS Integers

CONSTANTS Secret,    \* names with a row in rotation_leases
          Executor,  \* per-execution owner uuids
          NoOwner,   \* stands for the absence of a row or of a writer
          TTL,       \* leaseTtlMs
          MaxClock,  \* bound on the clock
          MaxSeq     \* bound on rotation_fence_seq

ASSUME LeaseAssumption ==
  /\ NoOwner \notin Executor
  /\ TTL \in Nat \ {0}
  /\ MaxClock \in Nat
  /\ MaxSeq \in Nat

VARIABLES clock,    \* the time, shared by all processes of the host
          seq,      \* rotation_fence_seq.value
          lease,    \* rotation_leases: one row per secret, or NoLease
          held,     \* fence of the LeaseHandle an executor keeps, 0 for none
          written   \* fence and writer of the last fenced write per secret

vars == <<clock, seq, lease, held, written>>

Time == 0 .. MaxClock

NoLease == [owner |-> NoOwner, fence |-> 0, expires |-> 0]
NoWrite == [by |-> NoOwner, fence |-> 0]

(* Types; and a row never carries fence 0, the value withFence reads for   *)
(* "no live lease".                                                        *)
TypeOK ==
  /\ clock \in Time
  /\ seq \in Nat
  /\ lease \in [Secret -> [owner : Executor \cup {NoOwner},
                           fence : Nat, expires : Nat]]
  /\ held \in [Executor -> [Secret -> Nat]]
  /\ written \in [Secret -> [by : Executor \cup {NoOwner}, fence : Nat]]
  /\ \A s \in Secret : lease[s].fence = 0 <=> lease[s].owner = NoOwner

HasRow(s) == lease[s].owner # NoOwner

(* liveFence: the fence of an unexpired row, 0 when there is none.         *)
LiveFence(s, t) == IF HasRow(s) /\ lease[s].expires > t
                   THEN lease[s].fence ELSE 0

FenceMatches_lowerToo(e, s, t) == held[e][s] # 0 /\ LiveFence(s, t) >= held[e][s]
FenceMatches_unchecked(e, s, t) == held[e][s] # 0

(* withFence lets the write of a handle through.                           *)
FenceMatches(e, s, t) == held[e][s] # 0 /\ LiveFence(s, t) = held[e][s]

(* The row is still the one this handle was returned for.                  *)
OwnsRow(e, s) == /\ held[e][s] # 0
                 /\ lease[s].owner = e
                 /\ lease[s].fence = held[e][s]

Init ==
  /\ clock = 0
  /\ seq = 0
  /\ lease = [s \in Secret |-> NoLease]
  /\ held = [e \in Executor |-> [s \in Secret |-> 0]]
  /\ written = [s \in Secret |-> NoWrite]

-----------------------------------------------------------------------------
(* acquireOnce bumps the sequence first, whether it then acquires or not.  *)
NextFence == seq < MaxSeq /\ seq' = seq + 1

Take(e, s, fence, t) ==
  /\ lease' = [lease EXCEPT ![s] = [owner |-> e, fence |-> fence,
                                    expires |-> t + TTL]]
  /\ held' = [held EXCEPT ![e][s] = fence]

AcquireFresh_beforeBump(e, s, t) ==
  ~HasRow(s) /\ NextFence /\ Take(e, s, seq, t) /\ UNCHANGED <<clock, written>>
AcquireFresh_fromOne(e, s, t) ==
  ~HasRow(s) /\ NextFence /\ Take(e, s, 1, t) /\ UNCHANGED <<clock, written>>

(* INSERT of a new row: the fence comes from the sequence.                 *)
AcquireFresh(e, s, t) ==
  /\ ~HasRow(s)
  /\ NextFence
  /\ Take(e, s, seq + 1, t)
  /\ UNCHANGED <<clock, written>>

TakeOver_sameFence(e, s, t) ==
  /\ HasRow(s) /\ lease[s].owner # e
  /\ lease[s].expires <= t
  /\ NextFence
  /\ Take(e, s, lease[s].fence, t)
  /\ UNCHANGED <<clock, written>>

(* ON CONFLICT with an expired row of another owner: row fence + 1.        *)
TakeOver(e, s, t) ==
  /\ HasRow(s) /\ lease[s].owner # e
  /\ lease[s].expires <= t
  /\ NextFence
  /\ Take(e, s, lease[s].fence + 1, t)
  /\ UNCHANGED <<clock, written>>

(* ON CONFLICT with this owner's own row, live or not: same fence.         *)
AcquireAgain(e, s, t) ==
  /\ lease[s].owner = e
  /\ NextFence
  /\ Take(e, s, lease[s].fence, t)
  /\ UNCHANGED <<clock, written>>

(* The ON CONFLICT guard rejects the row; only the sequence has moved.     *)
Refused(e, s, t) ==
  /\ HasRow(s) /\ lease[s].owner # e
  /\ lease[s].expires > t
  /\ NextFence
  /\ UNCHANGED <<clock, lease, held, written>>

(* renewLease; the refusal of a lost or expired lease changes nothing.     *)
Renew(e, s, t) ==
  /\ OwnsRow(e, s) /\ lease[s].expires > t
  /\ lease' = [lease EXCEPT ![s].expires = t + TTL]
  /\ UNCHANGED <<clock, seq, held, written>>

(* releaseLease, in the `finally` of every execution: only this handle's   *)
(* row is deleted, expired or not; the handle is gone either way.          *)
Release(e, s) ==
  /\ held[e][s] # 0
  /\ lease' = [lease EXCEPT ![s] = IF OwnsRow(e, s) THEN NoLease ELSE @]
  /\ held' = [held EXCEPT ![e][s] = 0]
  /\ UNCHANGED <<clock, seq, written>>

(* updateJob or appendCheckpoint with a fence.                             *)
FencedWrite(e, s, t) ==
  /\ FenceMatches(e, s, t)
  /\ written' = [written EXCEPT ![s] = [by |-> e, fence |-> held[e][s]]]
  /\ UNCHANGED <<clock, seq, lease, held>>

(* The process dies: its handles are lost, its rows stay.                  *)
Crash(e) ==
  /\ held' = [held EXCEPT ![e] = [s \in Secret |-> 0]]
  /\ UNCHANGED <<clock, seq, lease, written>>

Tick ==
  /\ clock < MaxClock
  /\ clock' = clock + 1
  /\ UNCHANGED <<seq, lease, held, written>>

Next ==
  \/ Tick
  \/ \E e \in Executor : Crash(e)
  \/ \E e \in Executor, s \in Secret : Release(e, s)
  \/ \E e \in Executor, s \in Secret, t \in 0 .. clock :
       \/ AcquireFresh(e, s, t) \/ TakeOver(e, s, t)
       \/ AcquireAgain(e, s, t) \/ Refused(e, s, t)
       \/ Renew(e, s, t) \/ FencedWrite(e, s, t)

Spec == Init /\ [][Next]_vars
-----------------------------------------------------------------------------
(* At most one executor's writes can land on the rows of a secret, however *)
(* wrong the clock reading each of them uses is (withFence compares fences *)
(* only; it never looks at the owner column).                              *)
FencedWriteExclusive ==
  \A s \in Secret, d, e \in Executor, t, u \in Time :
    FenceMatches(d, s, t) /\ FenceMatches(e, s, u) => d = e

(* Once the row of a secret has left the fence of a handle, no later       *)
(* release, fresh insert or takeover brings that fence back: a zombie      *)
(* stays fenced out (acquireOnce mixes a global sequence with row + 1).    *)
StaleHandleStaysStale ==
  [][\A e \in Executor, s \in Secret :
       /\ held[e][s] # 0 /\ held'[e][s] = held[e][s]
       /\ lease[s].fence # held[e][s]
       => lease'[s].fence # held[e][s]]_vars

(* The fence column of a secret's checkpoints never decreases: the writes  *)
(* of a superseded execution never follow those of its successor.          *)
FenceNeverGoesBack ==
  [][\A s \in Secret : written'[s].fence >= written[s].fence]_vars

(* The comment on acquireLease: "fences stay globally monotonic across     *)
(* secrets and takeovers". A newly minted fence exceeds every fence any    *)
(* secret's row shows.                                                     *)
GlobalFenceMonotonic ==
  [][\A s \in Secret :
       lease'[s].fence \notin {0, lease[s].fence} =>
         \A r \in Secret : lease'[s].fence > lease[r].fence]_vars

(* The inductive strengthening. Top bounds every fence ever handed out for *)
(* a secret: the row's own fence while there is a row, the sequence when   *)
(* the row is gone and the next fence will come from it.                   *)
Top(s) == IF HasRow(s) THEN lease[s].fence ELSE seq

FencesBounded ==
  \A s \in Secret :
    /\ lease[s].fence <= seq
    /\ written[s].fence <= Top(s)
    /\ \A e \in Executor : held[e][s] <= Top(s)

MatchingHandleOwns ==
  \A e \in Executor, s \in Secret :
    HasRow(s) /\ lease[s].fence = held[e][s] => lease[s].owner = e

LeaseInv == TypeOK /\ FencesBounded /\ MatchingHandleOwns

(* The lease implements exclusive tenure.                                  *)
Tenure == INSTANCE ExclusiveTenure WITH
            tenant <- [s \in Secret |-> lease[s].owner],
            author <- [s \in Secret |-> written[s].by]

ImplementsTenure == Tenure!Spec
=============================================================================
