----------------------------- MODULE Operations -----------------------------
(***************************************************************************)
(* The cross-store operations of server/control-plane/store.ts: an         *)
(* operation is recorded as pending, the vault is written outside any      *)
(* transaction, and the outcome is recorded; what could not be confirmed   *)
(* is left to reconcile(), which any number of processes may run.          *)
(***************************************************************************)
EXTENDS Naturals, Sequences, FiniteSets

CONSTANTS Op,         \* operation ids
          Reconciler, \* processes calling reconcile()
          MaxFaults,  \* bound on transactions that throw
          MaxCrashes  \* bound on processes that die

ASSUME OperationsAssumption ==
  IsFiniteSet(Op) /\ MaxFaults \in Nat /\ MaxCrashes \in Nat

VARIABLES state,    \* operations.state
          record,   \* reconciliation_records.state
          applied,  \* whether the vault holds what the operation is about
          caller,   \* where the process performing each operation is
          rec,      \* each reconciler: the rows it has read, where it is
          repairs,  \* history: how often each operation was repaired
          faults, crashes

vars == <<state, record, applied, caller, rec, repairs, faults, crashes>>

Resting == [pc |-> "idle", rows |-> <<>>]

Init ==
  /\ state = [o \in Op |-> "absent"]
  /\ record = [o \in Op |-> "none"]
  /\ applied = [o \in Op |-> FALSE]
  /\ caller = [o \in Op |-> "begin"]
  /\ rec = [r \in Reconciler |-> Resting]
  /\ repairs = [o \in Op |-> 0]
  /\ faults = 0 /\ crashes = 0

TypeOK ==
  /\ state \in [Op -> {"absent", "pending", "committed", "reconcile-required"}]
  /\ record \in [Op -> {"none", "open", "resolved"}]
  /\ applied \in [Op -> BOOLEAN]
  /\ caller \in [Op -> {"begin", "write", "commit", "mark", "gone"}]
  /\ rec \in [Reconciler -> [pc : {"idle", "repair", "resolve"}, rows : Seq(Op)]]
  /\ \A r \in Reconciler : rec[r].pc = "idle" <=> rec[r].rows = <<>>
  /\ repairs \in [Op -> Nat]
  /\ faults \in 0 .. MaxFaults /\ crashes \in 0 .. MaxCrashes

-----------------------------------------------------------------------------
Await(o, label) == caller' = [caller EXCEPT ![o] = label]

(* beginOperation, for a vault write or for a rotation that reports an     *)
(* outcome it could not settle (markReconcileRequired of wiring.ts).       *)
Begin(o) ==
  /\ caller[o] = "begin"
  /\ state' = [state EXCEPT ![o] = "pending"]
  /\ \E next \in {"write", "mark"} : Await(o, next)
  /\ UNCHANGED <<record, applied, rec, repairs, faults, crashes>>

Write_anyAnswer(o) ==
  /\ caller[o] = "write"
  /\ applied' \in {applied, [applied EXCEPT ![o] = TRUE]}
  /\ Await(o, "commit")
  /\ UNCHANGED <<state, record, rec, repairs, faults, crashes>>

(* The awaited vaultWrite; one that throws may have written all the same.  *)
Write(o) ==
  /\ caller[o] = "write"
  /\ \/ applied' = [applied EXCEPT ![o] = TRUE] /\ Await(o, "commit")
     \/ applied' \in {applied, [applied EXCEPT ![o] = TRUE]} /\ Await(o, "mark")
  /\ UNCHANGED <<state, record, rec, repairs, faults, crashes>>

(* commitOperation; when it throws, the catch marks the operation.         *)
Commit(o) ==
  /\ caller[o] = "commit"
  /\ \/ /\ state' = [state EXCEPT ![o] = "committed"]
        /\ Await(o, "gone") /\ UNCHANGED faults
     \/ /\ faults < MaxFaults /\ faults' = faults + 1
        /\ Await(o, "mark") /\ UNCHANGED state
  /\ UNCHANGED <<record, applied, rec, repairs, crashes>>

Mark_stateOnly(o) ==
  /\ caller[o] = "mark"
  /\ state' = [state EXCEPT ![o] = "reconcile-required"]
  /\ Await(o, "gone")
  /\ UNCHANGED <<record, applied, rec, repairs, faults, crashes>>

(* markReconcileRequired; when it throws, so does its caller.              *)
Mark(o) ==
  /\ caller[o] = "mark" /\ Await(o, "gone")
  /\ \/ /\ state' = [state EXCEPT ![o] = "reconcile-required"]
        /\ record' = [record EXCEPT ![o] = "open"]
        /\ UNCHANGED faults
     \/ /\ faults < MaxFaults /\ faults' = faults + 1
        /\ UNCHANGED <<state, record>>
  /\ UNCHANGED <<applied, rec, repairs, crashes>>

CallerDies(o) ==
  /\ caller[o] \in {"write", "commit", "mark"}
  /\ crashes < MaxCrashes /\ crashes' = crashes + 1
  /\ Await(o, "gone")
  /\ UNCHANGED <<state, record, applied, rec, repairs, faults>>

-----------------------------------------------------------------------------
(* reconcile(): the open records are read once, with no transaction.       *)
(* Records opened in the same millisecond come in any order.               *)
Scan(r) ==
  /\ rec[r].pc = "idle"
  /\ \E rows \in [1 .. Cardinality({o \in Op : record[o] = "open"}) ->
                    {o \in Op : record[o] = "open"}] :
       /\ rows # <<>>
       /\ \A i, j \in DOMAIN rows : rows[i] = rows[j] => i = j
       /\ rec' = [rec EXCEPT ![r] = [pc |-> "repair", rows |-> rows]]
  /\ UNCHANGED <<state, record, applied, caller, repairs, faults, crashes>>

(* On to the next row of the list.                                         *)
NextRow(r) ==
  rec' = [rec EXCEPT ![r] = IF Len(@.rows) = 1 THEN Resting
                            ELSE [pc |-> "repair", rows |-> Tail(@.rows)]]

Repair_skipsApplied(r) ==
  LET o == Head(rec[r].rows) IN
  /\ rec[r].pc = "repair"
  /\ \/ /\ applied[o]
        /\ NextRow(r) /\ UNCHANGED <<applied, repairs>>
     \/ /\ ~applied[o]
        /\ applied' = [applied EXCEPT ![o] = TRUE]
        /\ repairs' = [repairs EXCEPT ![o] = @ + 1]
        /\ rec' = [rec EXCEPT ![r].pc = "resolve"]
  /\ UNCHANGED <<state, record, caller, faults, crashes>>

(* The awaited repair callback; its error, or evidence that is refused,    *)
(* ends the whole pass.                                                    *)
Repair(r) ==
  LET o == Head(rec[r].rows) IN
  /\ rec[r].pc = "repair"
  /\ \/ /\ applied' = [applied EXCEPT ![o] = TRUE]
        /\ repairs' = [repairs EXCEPT ![o] = @ + 1]
        /\ rec' = [rec EXCEPT ![r].pc = "resolve"]
        /\ UNCHANGED faults
     \/ /\ faults < MaxFaults /\ faults' = faults + 1
        /\ applied' \in {applied, [applied EXCEPT ![o] = TRUE]}
        /\ rec' = [rec EXCEPT ![r] = Resting]
        /\ UNCHANGED repairs
  /\ UNCHANGED <<state, record, caller, crashes>>

Resolve_pastTheEnd(r) ==
  /\ rec[r].pc = "resolve"
  /\ state' = [state EXCEPT ![Head(rec[r].rows)] = "committed"]
  /\ record' = [record EXCEPT ![Head(rec[r].rows)] = "resolved"]
  /\ rec' = [rec EXCEPT ![r] = [pc |-> "repair", rows |-> Tail(@.rows)]]
  /\ UNCHANGED <<applied, caller, repairs, faults, crashes>>

(* The transaction that closes the record, whatever it says by now.        *)
Resolve(r) ==
  LET o == Head(rec[r].rows) IN
  /\ rec[r].pc = "resolve"
  /\ \/ /\ state' = [state EXCEPT ![o] = "committed"]
        /\ record' = [record EXCEPT ![o] = "resolved"]
        /\ NextRow(r) /\ UNCHANGED faults
     \/ /\ faults < MaxFaults /\ faults' = faults + 1
        /\ rec' = [rec EXCEPT ![r] = Resting]
        /\ UNCHANGED <<state, record>>
  /\ UNCHANGED <<applied, caller, repairs, crashes>>

ReconcilerDies(r) ==
  /\ rec[r].pc # "idle"
  /\ crashes < MaxCrashes /\ crashes' = crashes + 1
  /\ rec' = [rec EXCEPT ![r] = Resting]
  /\ UNCHANGED <<state, record, applied, caller, repairs, faults>>

Perform(o) == Begin(o) \/ Write(o) \/ Commit(o) \/ Mark(o)
Reconcile(r) == Scan(r) \/ Repair(r) \/ Resolve(r)

Next ==
  \/ \E o \in Op : Perform(o) \/ CallerDies(o)
  \/ \E r \in Reconciler : Reconcile(r) \/ ReconcilerDies(r)

Spec == Init /\ [][Next]_vars

(* A caller that has begun goes on, and reconcile() is called repeatedly.  *)
FairSpec ==
  Spec /\ \A o \in Op : WF_vars(Write(o) \/ Commit(o) \/ Mark(o))
       /\ \A r \in Reconciler : WF_vars(Reconcile(r))

-----------------------------------------------------------------------------
(* Nothing is reported reconcile-required that reconcile() would not see,  *)
(* and nothing it sees is reported settled.                                *)
OpenIffRequired ==
  \A o \in Op : record[o] = "open" <=> state[o] = "reconcile-required"

(* An operation is committed only over a vault that holds its write, even  *)
(* when two reconcilers work from the same stale list.                     *)
CommittedMeansApplied ==
  \A o \in Op : state[o] = "committed" => applied[o]

(* Every open record is closed and stays closed, though passes break off.  *)
EveryRecordCloses ==
  \A o \in Op : (record[o] = "open") ~> [](record[o] = "resolved")

(* design.md: "`reconcile()` resolves each open record once, so repeated   *)
(* runs are no-ops"; store.ts: "Repair open records once".                 *)
RepairedOnce == \A o \in Op : repairs[o] <= 1

(* README.md: "An idempotent `reconcile()` for pending/committed           *)
(* operations".                                                            *)
PendingIsReconciled ==
  \A o \in Op : (state[o] = "pending") ~> (state[o] = "committed")
=============================================================================
