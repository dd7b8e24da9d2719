------------------------- MODULE ControlPlaneProofs -------------------------
(***************************************************************************)
(* Theorems about two of the tables a control plane's transactions write   *)
(* side by side: operations and repairs (Operations) and the audit ledger  *)
(* (AuditLedger).                                                          *)
(*                                                                         *)
(* Operations: for any number of operations, reconcilers, failing          *)
(* transactions and deaths, nothing is reported committed that the vault   *)
(* does not hold, and what needs repair is on the list of repairs.         *)
(*                                                                         *)
(* Ledger: for any number of rows and of changes made behind appendAudit's *)
(* back, a ledger that verifies is the truth as long as one of its two     *)
(* tables has been left alone, and numbers are not used twice. No          *)
(* induction over the chain is needed: the columns prev_hash and hash of a *)
(* row are as appendAudit wrote them, so a row whose hash is right is a    *)
(* row that appendAudit wrote.                                             *)
(***************************************************************************)
EXTENDS Operations, AuditLedger, FiniteSetTheorems, SequenceTheorems, TLAPS

(* The process performing an operation is the only one to touch it until   *)
(* it is gone: before that there is no record a reconciler could have read.*)
CallerIsAlone ==
  \A o \in Op :
    /\ caller[o] = "begin" => state[o] = "absent"
    /\ caller[o] \in {"write", "commit", "mark"} => state[o] = "pending"
    /\ caller[o] # "gone" => record[o] = "none"

(* A reconciler's list, however old, names operations that had a record.   *)
ListsHadRecords ==
  \A r \in Reconciler : \A i \in 1 .. Len(rec[r].rows) :
    record[rec[r].rows[i]] # "none"

(* Whoever is about to say "committed" has seen the write applied.         *)
AppliedBeforeSaid ==
  /\ \A o \in Op : caller[o] = "commit" => applied[o]
  /\ \A r \in Reconciler :
       rec[r].pc = "resolve" => applied[Head(rec[r].rows)]

IInv == /\ TypeOK /\ OpenIffRequired /\ CommittedMeansApplied
        /\ CallerIsAlone /\ ListsHadRecords /\ AppliedBeforeSaid

(* What moving on to the next row of a list does to the types and lists.   *)
LEMMA NextRowMovesOn ==
  ASSUME TypeOK, NEW r \in Reconciler, rec[r].pc # "idle", NextRow(r)
  PROVE  /\ rec' \in [Reconciler -> [pc : {"idle", "repair", "resolve"},
                                     rows : Seq(Op)]]
         /\ \A q \in Reconciler : rec'[q].pc = "idle" <=> rec'[q].rows = <<>>
         /\ \A q \in Reconciler : q # r => rec'[q] = rec[q]
         /\ rec'[r].pc # "resolve"
         /\ \A i \in 1 .. Len(rec'[r].rows) :
              \E j \in 1 .. Len(rec[r].rows) : rec'[r].rows[i] = rec[r].rows[j]
<1> DEFINE list == rec[r].rows
<1>1. list \in Seq(Op) /\ list # <<>> /\ Len(list) \in Nat \ {0}
  BY DEF TypeOK
<1>2. CASE Len(list) = 1
  <2>1. rec' = [rec EXCEPT ![r] = Resting]
    BY <1>2 DEF NextRow
  <2> QED
    BY <1>1, <2>1 DEF TypeOK, Resting
<1>3. CASE Len(list) # 1
  <2>1. rec' = [rec EXCEPT ![r] = [pc |-> "repair", rows |-> Tail(list)]]
    BY <1>3 DEF NextRow
  <2>2. /\ Tail(list) \in Seq(Op) /\ Len(Tail(list)) = Len(list) - 1
        /\ \A i \in 1 .. Len(list) - 1 : Tail(list)[i] = list[i + 1]
    BY <1>1
  <2>3. Tail(list) # <<>>
    <3>1. Len(Tail(list)) # 0
      BY <1>1, <1>3, <2>2
    <3>2. Len(<<>>) = 0
      OBVIOUS
    <3> QED
      BY <3>1, <3>2
  <2>4. rec'[r] = [pc |-> "repair", rows |-> Tail(list)]
    BY <2>1 DEF TypeOK
  <2>5. \A i \in 1 .. Len(rec'[r].rows) :
          i + 1 \in 1 .. Len(list) /\ rec'[r].rows[i] = list[i + 1]
    BY <1>1, <2>2, <2>4
  <2>6. \A q \in Reconciler : q # r => rec'[q] = rec[q]
    BY <2>1 DEF TypeOK
  <2>7. rec' \in [Reconciler -> [pc : {"idle", "repair", "resolve"}, rows : Seq(Op)]]
    BY <2>1, <2>2 DEF TypeOK
  <2>8. ASSUME NEW q \in Reconciler PROVE rec'[q].pc = "idle" <=> rec'[q].rows = <<>>
    <3>1. CASE q = r
      <4>1. /\ [pc |-> "repair", rows |-> Tail(list)].pc = "repair"
            /\ [pc |-> "repair", rows |-> Tail(list)].rows = Tail(list)
        OBVIOUS
      <4>2. rec'[q].pc = "repair" /\ rec'[q].rows = Tail(list)
        BY <2>4, <3>1, <4>1, Zenon
      <4> QED
        BY <2>3, <4>2
    <3>2. CASE q # r
      BY <2>6, <3>2 DEF TypeOK
    <3> QED
      BY <3>1, <3>2
  <2> QED
    BY <2>4, <2>5, <2>6, <2>7, <2>8
<1> QED
  BY <1>2, <1>3

(* No operation has been begun, and no reconciler has read anything.       *)
LEMMA OperationsInit == Init => IInv
<1> SUFFICES ASSUME Init PROVE IInv
  OBVIOUS
<1>1. TypeOK
  BY OperationsAssumption DEF Init, TypeOK, Resting
<1>2. OpenIffRequired /\ CommittedMeansApplied /\ CallerIsAlone
  BY DEF Init, OpenIffRequired, CommittedMeansApplied, CallerIsAlone
<1>3. ListsHadRecords /\ AppliedBeforeSaid
  BY DEF Init, ListsHadRecords, AppliedBeforeSaid, Resting
<1> QED
  BY <1>1, <1>2, <1>3 DEF IInv

(* The steps of the process performing an operation. None of them touches  *)
(* a list, closes a record or takes back a write.                          *)
LEMMA PerformKeeps ==
  ASSUME IInv, NEW o \in Op, Perform(o) \/ CallerDies(o)
  PROVE  IInv'
<1> USE DEF IInv
<1>1. CASE Begin(o)
  <2>1. TypeOK'
    BY <1>1 DEF Begin, Await, TypeOK
  <2>2. record' = record /\ applied' = applied /\ rec' = rec
    BY <1>1 DEF Begin
  <2>3. OpenIffRequired' /\ CommittedMeansApplied' /\ CallerIsAlone'
    BY <1>1, <2>2 DEF Begin, Await, TypeOK, OpenIffRequired,
                      CommittedMeansApplied, CallerIsAlone
  <2>4. ListsHadRecords' /\ AppliedBeforeSaid'
    BY <1>1, <2>2 DEF Begin, Await, TypeOK, ListsHadRecords, AppliedBeforeSaid
  <2> QED
    BY <2>1, <2>3, <2>4
<1>2. CASE Write(o)
  <2>1. TypeOK'
    BY <1>2 DEF Write, Await, TypeOK
  <2>2. /\ record' = record /\ state' = state /\ rec' = rec
        /\ \A q \in Op : applied[q] => applied'[q]
    BY <1>2 DEF Write, TypeOK
  <2>3. OpenIffRequired' /\ CommittedMeansApplied' /\ CallerIsAlone'
    BY <1>2, <2>2 DEF Write, Await, TypeOK, OpenIffRequired,
                      CommittedMeansApplied, CallerIsAlone
  <2>4. ListsHadRecords'
    BY <2>2 DEF ListsHadRecords
  <2>5. \A r \in Reconciler : rec[r].pc = "resolve" => Head(rec[r].rows) \in Op
    BY DEF TypeOK
  <2>6. AppliedBeforeSaid'
    BY <1>2, <2>2, <2>5 DEF Write, Await, TypeOK, AppliedBeforeSaid
  <2> QED
    BY <2>1, <2>3, <2>4, <2>6
<1>3. CASE Commit(o)
  <2>0. /\ state' \in [Op -> {"absent", "pending", "committed", "reconcile-required"}]
        /\ caller' \in [Op -> {"begin", "write", "commit", "mark", "gone"}]
    BY <1>3 DEF Commit, Await, TypeOK
  <2>a. faults' \in 0 .. MaxFaults
    BY <1>3, OperationsAssumption DEF Commit, TypeOK
  <2>1. TypeOK'
    BY <1>3, <2>0, <2>a DEF Commit, TypeOK
  <2>2. record' = record /\ applied' = applied /\ rec' = rec
    BY <1>3 DEF Commit
  <2>3. OpenIffRequired' /\ CommittedMeansApplied' /\ CallerIsAlone'
    BY <1>3, <2>2 DEF Commit, Await, TypeOK, OpenIffRequired, AppliedBeforeSaid,
                      CommittedMeansApplied, CallerIsAlone
  <2>4. ListsHadRecords' /\ AppliedBeforeSaid'
    BY <1>3, <2>2 DEF Commit, Await, TypeOK, ListsHadRecords, AppliedBeforeSaid
  <2> QED
    BY <2>1, <2>3, <2>4
<1>4. CASE Mark(o)
  <2>0. /\ state' \in [Op -> {"absent", "pending", "committed", "reconcile-required"}]
        /\ record' \in [Op -> {"none", "open", "resolved"}]
        /\ caller' \in [Op -> {"begin", "write", "commit", "mark", "gone"}]
    BY <1>4 DEF Mark, Await, TypeOK
  <2>a. faults' \in 0 .. MaxFaults
    BY <1>4, OperationsAssumption DEF Mark, TypeOK
  <2>1. TypeOK'
    BY <1>4, <2>0, <2>a DEF Mark, TypeOK
  <2>2. /\ applied' = applied /\ rec' = rec
        /\ \A q \in Op : record[q] # "none" => record'[q] # "none"
    BY <1>4 DEF Mark, TypeOK
  <2>3. OpenIffRequired' /\ CommittedMeansApplied' /\ CallerIsAlone'
    BY <1>4, <2>2 DEF Mark, Await, TypeOK, OpenIffRequired,
                      CommittedMeansApplied, CallerIsAlone
  <2>4. \A r \in Reconciler : \A i \in 1 .. Len(rec[r].rows) : rec[r].rows[i] \in Op
    BY DEF TypeOK
  <2>5. ListsHadRecords' /\ AppliedBeforeSaid'
    BY <1>4, <2>2, <2>4 DEF Mark, Await, TypeOK, ListsHadRecords, AppliedBeforeSaid
  <2> QED
    BY <2>1, <2>3, <2>5
<1>5. CASE CallerDies(o)
  <2>1. TypeOK'
    BY <1>5, OperationsAssumption DEF CallerDies, Await, TypeOK
  <2>2. OpenIffRequired' /\ CommittedMeansApplied' /\ CallerIsAlone'
    BY <1>5 DEF CallerDies, Await, TypeOK, OpenIffRequired,
                CommittedMeansApplied, CallerIsAlone
  <2>3. ListsHadRecords' /\ AppliedBeforeSaid'
    BY <1>5 DEF CallerDies, Await, TypeOK, ListsHadRecords, AppliedBeforeSaid
  <2> QED
    BY <2>1, <2>2, <2>3
<1> QED
  BY <1>1, <1>2, <1>3, <1>4, <1>5 DEF Perform

(* The steps of a reconciler. A list it works from may be out of date, but *)
(* no process performs any of its operations any more.                     *)
LEMMA ReconcileKeeps ==
  ASSUME IInv, NEW r \in Reconciler, Reconcile(r) \/ ReconcilerDies(r)
  PROVE  IInv'
<1> USE DEF IInv
<1>0. ASSUME rec[r].pc # "idle"
      PROVE  /\ Head(rec[r].rows) \in Op /\ record[Head(rec[r].rows)] # "none"
             /\ rec[r].rows \in Seq(Op) /\ rec[r].rows # <<>>
  <2>1. rec[r].rows \in Seq(Op) /\ rec[r].rows # <<>>
    BY <1>0 DEF TypeOK
  <2>2. 1 \in 1 .. Len(rec[r].rows) /\ Head(rec[r].rows) = rec[r].rows[1]
    BY <2>1
  <2> QED
    BY <2>1, <2>2 DEF ListsHadRecords
<1>1. CASE Scan(r)
  <2> DEFINE open == {o \in Op : record[o] = "open"}
  <2>1. Cardinality(open) \in Nat
    BY OperationsAssumption, FS_Subset, FS_CardinalityType
  <2>2. PICK list \in [1 .. Cardinality(open) -> open] :
          list # <<>> /\ rec' = [rec EXCEPT ![r] = [pc |-> "repair", rows |-> list]]
    BY <1>1 DEF Scan
  <2>3. list \in Seq(Op) /\ \A i \in 1 .. Len(list) : record[list[i]] = "open"
    <3>1. list \in [1 .. Cardinality(open) -> Op]
      BY <2>2
    <3>2. list \in Seq(Op)
      BY <2>1, <3>1, SeqDef
    <3>3. 1 .. Len(list) = 1 .. Cardinality(open)
      BY <3>1, <3>2, LenProperties
    <3> QED
      BY <2>2, <3>2, <3>3
  <2>4. /\ rec'[r] = [pc |-> "repair", rows |-> list]
        /\ \A q \in Reconciler : q # r => rec'[q] = rec[q]
    BY <2>2 DEF TypeOK
  <2>5. UNCHANGED <<state, record, applied, caller, repairs, faults, crashes>>
    BY <1>1 DEF Scan
  <2>6. TypeOK'
    <3>1. rec' \in [Reconciler -> [pc : {"idle", "repair", "resolve"}, rows : Seq(Op)]]
      BY <2>2, <2>3 DEF TypeOK
    <3>2. \A q \in Reconciler : rec'[q].pc = "idle" <=> rec'[q].rows = <<>>
      BY <2>2, <2>4 DEF TypeOK
    <3> QED
      BY <2>5, <3>1, <3>2 DEF TypeOK
  <2>7. OpenIffRequired' /\ CommittedMeansApplied' /\ CallerIsAlone'
    BY <2>5 DEF OpenIffRequired, CommittedMeansApplied, CallerIsAlone
  <2>8. ListsHadRecords'
    <3>1. ASSUME NEW q \in Reconciler, NEW i \in 1 .. Len(rec'[q].rows)
          PROVE  record[rec'[q].rows[i]] # "none"
      <4>1. CASE q = r
        <5>1. rec'[q].rows = list
          BY <2>4, <4>1
        <5> QED
          BY <2>3, <3>1, <5>1
      <4>2. CASE q # r
        BY <2>4, <4>2 DEF ListsHadRecords
      <4> QED
        BY <4>1, <4>2
    <3> QED
      BY <2>5, <3>1 DEF ListsHadRecords
  <2>9. AppliedBeforeSaid'
    BY <2>4, <2>5 DEF AppliedBeforeSaid
  <2> QED
    BY <2>6, <2>7, <2>8, <2>9
<1>2. CASE Repair(r)
  <2> DEFINE o == Head(rec[r].rows)
  <2>1. rec[r].pc = "repair" /\ o \in Op /\ rec[r].rows # <<>>
    BY <1>0, <1>2 DEF Repair
  <2>2. UNCHANGED <<state, record, caller, crashes>>
    BY <1>2 DEF Repair
  <2>3. \A q \in Op : applied[q] => applied'[q]
    BY <1>2 DEF Repair, TypeOK
  <2>4. \A q \in Reconciler : q # r => rec'[q] = rec[q]
    BY <1>2 DEF Repair, TypeOK
  <2>5. \/ /\ rec'[r] = [pc |-> "resolve", rows |-> rec[r].rows]
           /\ applied'[o]
        \/ rec'[r] = [pc |-> "idle", rows |-> <<>>]
    <3>1. CASE /\ applied' = [applied EXCEPT ![o] = TRUE]
               /\ rec' = [rec EXCEPT ![r].pc = "resolve"]
      BY <2>1, <3>1 DEF TypeOK
    <3>2. CASE rec' = [rec EXCEPT ![r] = Resting]
      BY <3>2 DEF TypeOK, Resting
    <3> QED
      BY <1>2, <3>1, <3>2 DEF Repair
  <2>6. TypeOK'
    <3>1. applied' \in [Op -> BOOLEAN] /\ repairs' \in [Op -> Nat]
      <4>1. applied' = [applied EXCEPT ![o] = TRUE] \/ applied' = applied
        BY <1>2 DEF Repair
      <4>2. repairs' = [repairs EXCEPT ![o] = @ + 1] \/ repairs' = repairs
        BY <1>2 DEF Repair
      <4>3. applied' \in [Op -> BOOLEAN]
        BY <4>1, Zenon DEF TypeOK
      <4>4. repairs' \in [Op -> Nat]
        <5>1. repairs \in [Op -> Nat]
          BY DEF TypeOK
        <5>2. repairs[o] + 1 \in Nat
          BY <2>1, <5>1
        <5>3. [repairs EXCEPT ![o] = repairs[o] + 1] \in [Op -> Nat]
          BY <5>1, <5>2, Zenon
        <5> QED
          BY <4>2, <5>1, <5>3, Zenon
      <4> QED
        BY <4>3, <4>4
    <3>2. faults' \in 0 .. MaxFaults
      BY <1>2, OperationsAssumption DEF Repair, TypeOK
    <3>3. rec' \in [Reconciler -> [pc : {"idle", "repair", "resolve"}, rows : Seq(Op)]]
      <4>1. CASE rec' = [rec EXCEPT ![r].pc = "resolve"]
        BY <4>1 DEF TypeOK
      <4>2. CASE rec' = [rec EXCEPT ![r] = Resting]
        BY <4>2 DEF TypeOK, Resting
      <4> QED
        BY <1>2, <4>1, <4>2 DEF Repair
    <3>4. ASSUME NEW q \in Reconciler
          PROVE  rec'[q].pc = "idle" <=> rec'[q].rows = <<>>
      <4>1. CASE q # r
        BY <2>4, <4>1 DEF TypeOK
      <4>2. CASE rec'[r] = [pc |-> "idle", rows |-> <<>>]
        BY <4>1, <4>2
      <4>3. CASE rec'[r] = [pc |-> "resolve", rows |-> rec[r].rows]
        BY <2>1, <4>1, <4>3
      <4> QED
        BY <2>5, <4>1, <4>2, <4>3
    <3> QED
      BY <2>2, <3>1, <3>2, <3>3, <3>4 DEF TypeOK
  <2>7. OpenIffRequired' /\ CommittedMeansApplied' /\ CallerIsAlone'
    BY <2>2, <2>3 DEF OpenIffRequired, CommittedMeansApplied, CallerIsAlone
  <2>8. ListsHadRecords'
    <3>1. Len(<<>>) = 0
      OBVIOUS
    <3>2. ASSUME NEW q \in Reconciler, NEW i \in 1 .. Len(rec'[q].rows)
          PROVE  record[rec'[q].rows[i]] # "none"
      <4>1. rec'[q].rows = rec[q].rows \/ rec'[q].rows = <<>>
        BY <2>4, <2>5
      <4> QED
        BY <3>1, <3>2, <4>1 DEF ListsHadRecords
    <3> QED
      BY <2>2, <3>2 DEF ListsHadRecords
  <2>9. AppliedBeforeSaid'
    <3>1. \A q \in Op : caller'[q] = "commit" => applied'[q]
      BY <2>2, <2>3 DEF AppliedBeforeSaid
    <3>2. ASSUME NEW q \in Reconciler, rec'[q].pc = "resolve"
          PROVE  applied'[Head(rec'[q].rows)]
      <4>1. CASE q = r
        BY <2>5, <3>2, <4>1
      <4>2. CASE q # r
        <5>1. rec'[q] = rec[q]
          BY <2>4, <4>2
        <5>2. Head(rec[q].rows) \in Op
          BY <3>2, <5>1 DEF TypeOK
        <5> QED
          BY <2>3, <3>2, <5>1, <5>2 DEF AppliedBeforeSaid
      <4> QED
        BY <4>1, <4>2
    <3> QED
      BY <3>1, <3>2 DEF AppliedBeforeSaid
  <2> QED
    BY <2>6, <2>7, <2>8, <2>9
<1>3. CASE Resolve(r)
  <2> DEFINE o == Head(rec[r].rows)
  <2>1. rec[r].pc = "resolve" /\ UNCHANGED <<applied, caller, repairs, crashes>>
    BY <1>3 DEF Resolve
  <2>2. o \in Op /\ record[o] # "none" /\ caller[o] = "gone" /\ applied[o]
    BY <1>0, <2>1 DEF CallerIsAlone, AppliedBeforeSaid
  <2>3. CASE /\ state' = [state EXCEPT ![o] = "committed"]
             /\ record' = [record EXCEPT ![o] = "resolved"]
             /\ NextRow(r) /\ UNCHANGED faults
    <3>1. TypeOK'
      BY <2>1, <2>3, NextRowMovesOn DEF TypeOK
    <3>2. OpenIffRequired' /\ CommittedMeansApplied' /\ CallerIsAlone'
      BY <2>1, <2>2, <2>3 DEF TypeOK, OpenIffRequired, CommittedMeansApplied,
                              CallerIsAlone
    <3>3. \A p \in Op : record[p] # "none" => record'[p] # "none"
      BY <2>3 DEF TypeOK
    <3>4. \A q \in Reconciler : \A i \in 1 .. Len(rec[q].rows) :
            rec[q].rows[i] \in Op
      BY DEF TypeOK
    <3>5. /\ \A q \in Reconciler : q # r => rec'[q] = rec[q]
          /\ rec'[r].pc # "resolve"
          /\ \A i \in 1 .. Len(rec'[r].rows) :
               \E j \in 1 .. Len(rec[r].rows) : rec'[r].rows[i] = rec[r].rows[j]
      BY <2>1, <2>3, NextRowMovesOn
    <3>6. ListsHadRecords'
      <4> SUFFICES ASSUME NEW q \in Reconciler, NEW i \in 1 .. Len(rec'[q].rows)
                   PROVE  record'[rec'[q].rows[i]] # "none"
        BY DEF ListsHadRecords
      <4>1. PICK j \in 1 .. Len(rec[q].rows) : rec'[q].rows[i] = rec[q].rows[j]
        BY <3>5
      <4>2. record[rec[q].rows[j]] # "none" /\ rec[q].rows[j] \in Op
        BY <3>4 DEF ListsHadRecords
      <4> QED
        BY <3>3, <4>1, <4>2
    <3>7. AppliedBeforeSaid'
      BY <2>1, <3>5 DEF AppliedBeforeSaid
    <3> QED
      BY <3>1, <3>2, <3>6, <3>7
  <2>4. CASE /\ faults < MaxFaults /\ faults' = faults + 1
             /\ rec' = [rec EXCEPT ![r] = Resting]
             /\ UNCHANGED <<state, record>>
    <3>1. TypeOK'
      BY <2>1, <2>4, OperationsAssumption DEF TypeOK, Resting
    <3>2. OpenIffRequired' /\ CommittedMeansApplied' /\ CallerIsAlone'
      BY <2>1, <2>4 DEF OpenIffRequired, CommittedMeansApplied, CallerIsAlone
    <3>3. ListsHadRecords' /\ AppliedBeforeSaid'
      BY <2>1, <2>4 DEF TypeOK, Resting, ListsHadRecords, AppliedBeforeSaid
    <3> QED
      BY <3>1, <3>2, <3>3
  <2> QED
    BY <1>3, <2>3, <2>4 DEF Resolve
<1>4. CASE ReconcilerDies(r)
  <2>1. TypeOK'
    BY <1>4, OperationsAssumption DEF ReconcilerDies, TypeOK, Resting
  <2>2. OpenIffRequired' /\ CommittedMeansApplied' /\ CallerIsAlone'
    BY <1>4 DEF ReconcilerDies, OpenIffRequired, CommittedMeansApplied, CallerIsAlone
  <2>3. ListsHadRecords' /\ AppliedBeforeSaid'
    BY <1>4 DEF ReconcilerDies, TypeOK, Resting, ListsHadRecords, AppliedBeforeSaid
  <2> QED
    BY <2>1, <2>2, <2>3
<1> QED
  BY <1>1, <1>2, <1>3, <1>4 DEF Reconcile

(* The inductive invariant of Operations.                                  *)
THEOREM OperationsInvariant == Spec => []IInv
<1>1. IInv /\ [Next]_vars => IInv'
  <2> SUFFICES ASSUME IInv, [Next]_vars PROVE IInv'
    OBVIOUS
  <2>1. CASE Next
    BY <2>1, PerformKeeps, ReconcileKeeps DEF Next
  <2>2. CASE UNCHANGED vars
    BY <2>2 DEF vars, IInv, TypeOK, OpenIffRequired, CommittedMeansApplied,
                CallerIsAlone, ListsHadRecords, AppliedBeforeSaid
  <2> QED
    BY <2>1, <2>2
<1> QED
  BY <1>1, OperationsInit, PTL DEF Spec

(* The tables and the lists of the reconcilers keep their types.           *)
THEOREM OperationsTypeCorrect == Spec => []TypeOK
BY OperationsInvariant, PTL DEF IInv

(* Every operation reported reconcile-required has an open record for      *)
(* reconcile() to find, and an open record is about no other operation.    *)
THEOREM RequiredIsOpen == Spec => []OpenIffRequired
BY OperationsInvariant, PTL DEF IInv

(* What is reported committed is in the vault, whether the caller said so  *)
(* or any number of reconcilers working from stale lists.                  *)
THEOREM CommittedIsApplied == Spec => []CommittedMeansApplied
BY OperationsInvariant, PTL DEF IInv

-----------------------------------------------------------------------------
IsRow(r) ==
  /\ r = [sequence |-> r.sequence, entry |-> r.entry, prev |-> r.prev, hash |-> r.hash]
  /\ r.sequence \in Nat \ {0} /\ r.entry \in Entry

Inserted == {truth[i] : i \in 1 .. Len(truth)}

RowsOK ==
  /\ IsFiniteSet(rows) /\ \A r \in rows : IsRow(r)
  /\ \A q, r \in rows : q.sequence = r.sequence => q = r

HeadOK == head = [sequence |-> head.sequence, hash |-> head.hash] /\ head.sequence \in Nat

DamageOK == damage \in [rows : 0 .. MaxDamage, head : 0 .. MaxDamage]
            /\ damage.rows + damage.head <= MaxDamage

(* Every row was hashed when it was appended ...                           *)
TruthOK ==
  /\ truth \in Seq(Inserted) /\ Len(truth) <= MaxAppends
  /\ \A i \in 1 .. Len(truth) :
       /\ IsRow(truth[i])
       /\ truth[i].hash = Hash(truth[i].prev, truth[i].sequence, truth[i].entry)

(* ... and whatever has become of it, its hashes are still those.          *)
HashesAreOriginal ==
  \A r \in rows : \E i \in 1 .. Len(truth) :
    r.hash = truth[i].hash /\ r.prev = truth[i].prev

(* The rows, if nobody but appendAudit changed them.                       *)
RowsAreTruth ==
  damage.rows = 0 => rows = Inserted /\ Cardinality(rows) = Len(truth)

(* The hash that the n-th row is chained to.                               *)
ChainedTo(n) == IF n = 1 THEN Genesis ELSE truth[n - 1].hash

(* The head, if nobody but appendAudit changed it.                         *)
HeadIsTruth ==
  damage.head = 0 =>
    /\ head.sequence = Len(truth) /\ head.hash = ChainedTo(Len(truth) + 1)
    /\ \A i \in 1 .. Len(truth) : truth[i].sequence = i /\ truth[i].prev = ChainedTo(i)

LedgerInv == /\ RowsOK /\ HeadOK /\ DamageOK /\ TruthOK
        /\ HashesAreOriginal /\ RowsAreTruth /\ HeadIsTruth

-----------------------------------------------------------------------------
(* The invariant holds of an empty ledger.                                 *)
LEMMA InitIsGood == ASSUME LedgerInit PROVE LedgerInv
<1> USE LedgerAssumption
<1>1. /\ rows = {} /\ truth = <<>> /\ Len(truth) = 0 /\ damage = [rows |-> 0, head |-> 0]
      /\ head = [sequence |-> 0, hash |-> Genesis]
  BY EmptySeq DEF LedgerInit
<1>2. Inserted = {} /\ 1 .. Len(truth) = {}
  BY <1>1 DEF Inserted
<1>3. RowsOK /\ RowsAreTruth
  BY <1>1, <1>2, FS_EmptySet DEF RowsOK, RowsAreTruth
<1>4. HeadOK /\ DamageOK
  BY <1>1 DEF HeadOK, DamageOK
<1>5. TruthOK
  BY <1>1, <1>2, EmptySeq DEF TruthOK
<1>6. HashesAreOriginal /\ HeadIsTruth
  BY <1>1, <1>2 DEF HashesAreOriginal, HeadIsTruth, ChainedTo
<1> QED
  BY <1>3, <1>4, <1>5, <1>6 DEF LedgerInv

(* appendAudit: the new row continues the head, damaged or not.            *)
LEMMA AppendKeeps ==
  ASSUME LedgerInv, NEW entry \in Entry, AppendAudit(entry)
  PROVE  LedgerInv'
<1> USE LedgerAssumption
<1> DEFINE n == head.sequence + 1
           row == [sequence |-> n, entry |-> entry, prev |-> head.hash,
                   hash |-> Hash(head.hash, n, entry)]
<1>1. /\ RowsOK /\ HeadOK /\ DamageOK /\ TruthOK
      /\ HashesAreOriginal /\ RowsAreTruth /\ HeadIsTruth
  BY DEF LedgerInv
<1>2. /\ rows' = rows \cup {row} /\ head' = [sequence |-> n, hash |-> row.hash]
      /\ truth' = Append(truth, row) /\ damage' = damage
      /\ n \notin Sequences /\ Len(truth) < MaxAppends
  BY DEF AppendAudit
<1>3. /\ IsRow(row) /\ row.sequence = n /\ row.prev = head.hash /\ n \in Nat \ {0}
      /\ row.hash = Hash(row.prev, row.sequence, row.entry)
  BY <1>1 DEF IsRow, HeadOK
<1> HIDE DEF row, n
<1>4. /\ Len(truth) \in Nat /\ Len(truth') = Len(truth) + 1
      /\ \A i \in 1 .. Len(truth) : truth'[i] = truth[i]
      /\ truth'[Len(truth) + 1] = row
      /\ truth' \in Seq(Inserted \cup {row})
  <2>1. truth \in Seq(Inserted) /\ Inserted \subseteq Inserted \cup {row}
    BY <1>1 DEF TruthOK
  <2>2. truth \in Seq(Inserted \cup {row}) /\ row \in Inserted \cup {row}
    BY <2>1, SeqMonotonic
  <2> QED
    BY <1>2, <2>2, AppendProperties, LenProperties
<1>5. Inserted' = Inserted \cup {row}
  BY <1>4 DEF Inserted
<1>6. row \notin rows
  BY <1>2, <1>3 DEF Sequences
<1>7. RowsOK'
  <2>1. IsFiniteSet(rows')
    BY <1>1, <1>2, FS_AddElement DEF RowsOK
  <2>2. \A r \in rows' : IsRow(r)
    BY <1>1, <1>2, <1>3 DEF RowsOK
  <2>3. \A r \in rows : r.sequence # row.sequence
    BY <1>2, <1>3 DEF Sequences
  <2>4. \A q, r \in rows' : q.sequence = r.sequence => q = r
    BY <1>1, <1>2, <2>3 DEF RowsOK
  <2> QED
    BY <2>1, <2>2, <2>4 DEF RowsOK, IsRow
<1>8. HeadOK' /\ DamageOK'
  BY <1>1, <1>2, <1>3 DEF HeadOK, DamageOK
<1>9. TruthOK'
  <2>1. truth' \in Seq(Inserted')
    BY <1>4, <1>5
  <2>2. Len(truth') <= MaxAppends
    BY <1>2, <1>4
  <2>3. \A i \in 1 .. Len(truth') :
          /\ IsRow(truth'[i])
          /\ truth'[i].hash = Hash(truth'[i].prev, truth'[i].sequence, truth'[i].entry)
    BY <1>1, <1>3, <1>4 DEF TruthOK
  <2> QED
    BY <2>1, <2>2, <2>3 DEF TruthOK, IsRow, Hash
<1>10. HashesAreOriginal'
  <2>1. ASSUME NEW r \in rows' PROVE \E i \in 1 .. Len(truth') :
           r.hash = truth'[i].hash /\ r.prev = truth'[i].prev
    <3>1. CASE r \in rows
      <4>1. PICK i \in 1 .. Len(truth) : r.hash = truth[i].hash /\ r.prev = truth[i].prev
        BY <1>1, <3>1 DEF HashesAreOriginal
      <4>2. i \in 1 .. Len(truth') /\ truth'[i] = truth[i]
        BY <1>4
      <4> QED
        BY <4>1, <4>2
    <3>2. CASE r = row
      <4>1. Len(truth) + 1 \in 1 .. Len(truth')
        BY <1>4
      <4> QED
        BY <1>4, <3>2, <4>1
    <3> QED
      BY <1>2, <2>1, <3>1, <3>2
  <2> QED
    BY <2>1 DEF HashesAreOriginal
<1>11. RowsAreTruth'
  <2>1. Cardinality(rows') = Cardinality(rows) + 1
    BY <1>1, <1>2, <1>6, FS_AddElement DEF RowsOK
  <2> QED
    BY <1>1, <1>2, <1>4, <1>5, <2>1 DEF RowsAreTruth
<1>12. HeadIsTruth'
  <2> SUFFICES ASSUME damage.head = 0
               PROVE  /\ head'.sequence = Len(truth')
                      /\ head'.hash = ChainedTo(Len(truth) + 1)'
                      /\ \A i \in 1 .. Len(truth') :
                           truth'[i].sequence = i /\ truth'[i].prev = ChainedTo(i)'
    BY <1>2, <1>4 DEF HeadIsTruth, ChainedTo
  <2>1. n = Len(truth) + 1 /\ head.hash = ChainedTo(Len(truth) + 1)
    BY <1>1 DEF HeadIsTruth, n
  <2>2. \A i \in 1 .. Len(truth) + 1 : ChainedTo(i)' = ChainedTo(i)
    BY <1>4 DEF ChainedTo
  <2>3. head'.sequence = Len(truth') /\ head'.hash = row.hash
    BY <1>2, <1>4, <2>1
  <2>4. head'.hash = ChainedTo(Len(truth) + 1)'
    BY <1>4, <2>3 DEF ChainedTo
  <2>5. ASSUME NEW i \in 1 .. Len(truth')
        PROVE  truth'[i].sequence = i /\ truth'[i].prev = ChainedTo(i)'
    <3>1. CASE i \in 1 .. Len(truth)
      BY <1>1, <1>4, <2>2, <3>1 DEF HeadIsTruth
    <3>2. CASE i = Len(truth) + 1
      BY <1>3, <1>4, <2>1, <2>2, <3>2
    <3> QED
      BY <1>4, <3>1, <3>2
  <2> QED
    BY <2>3, <2>4, <2>5
<1> QED
  BY <1>7, <1>8, <1>9, <1>10, <1>11, <1>12 DEF LedgerInv

(* A row that is changed behind the code's back keeps its hashes.          *)
LEMMA DamageRowsKeeps == ASSUME LedgerInv, DamageRows PROVE LedgerInv'
<1> USE LedgerAssumption
<1>1. /\ RowsOK /\ HeadOK /\ DamageOK /\ TruthOK
      /\ HashesAreOriginal /\ RowsAreTruth /\ HeadIsTruth
  BY DEF LedgerInv
<1>2. /\ head' = head /\ truth' = truth /\ damage' = [damage EXCEPT !.rows = @ + 1]
      /\ damage.rows + damage.head < MaxDamage
  BY DEF DamageRows
<1>3. damage'.rows = damage.rows + 1 /\ damage'.head = damage.head /\ damage'.rows # 0
      /\ damage' \in [rows : 0 .. MaxDamage, head : 0 .. MaxDamage]
      /\ damage'.rows + damage'.head <= MaxDamage
  BY <1>1, <1>2 DEF DamageOK
<1>4. PICK r \in rows :
        \/ rows' = rows \ {r}
        \/ \E entry \in Entry : rows' = (rows \ {r}) \cup {[r EXCEPT !.entry = entry]}
        \/ \E n \in (1 .. MaxAppends + 1) \ Sequences :
             rows' = (rows \ {r}) \cup {[r EXCEPT !.sequence = n]}
  BY DEF DamageRows
<1>5. IsFiniteSet(rows \ {r}) /\ IsRow(r)
  BY <1>1, FS_RemoveElement DEF RowsOK
<1>6. \E new :
        /\ rows' \subseteq (rows \ {r}) \cup {new} /\ IsRow(new)
        /\ new.hash = r.hash /\ new.prev = r.prev
        /\ \A q \in rows \ {r} : q.sequence # new.sequence
  <2>1. \A q \in rows \ {r} : q.sequence # r.sequence
    BY <1>1 DEF RowsOK
  <2>2. CASE rows' = rows \ {r}
    BY <1>5, <2>1, <2>2
  <2>3. ASSUME NEW entry \in Entry, rows' = (rows \ {r}) \cup {[r EXCEPT !.entry = entry]}
        PROVE  \E new :
                 /\ rows' \subseteq (rows \ {r}) \cup {new} /\ IsRow(new)
                 /\ new.hash = r.hash /\ new.prev = r.prev
                 /\ \A q \in rows \ {r} : q.sequence # new.sequence
    <3> DEFINE new == [r EXCEPT !.entry = entry]
    <3>1. /\ new.hash = r.hash /\ new.prev = r.prev /\ new.sequence = r.sequence /\ IsRow(new)
      BY <1>5 DEF IsRow
    <3>2. rows' \subseteq (rows \ {r}) \cup {new}
      BY <2>3
    <3> HIDE DEF new
    <3> QED
      BY <2>1, <3>1, <3>2
  <2>4. ASSUME NEW n \in (1 .. MaxAppends + 1) \ Sequences,
               rows' = (rows \ {r}) \cup {[r EXCEPT !.sequence = n]}
        PROVE  \E new :
                 /\ rows' \subseteq (rows \ {r}) \cup {new} /\ IsRow(new)
                 /\ new.hash = r.hash /\ new.prev = r.prev
                 /\ \A q \in rows \ {r} : q.sequence # new.sequence
    <3> DEFINE new == [r EXCEPT !.sequence = n]
    <3>1. /\ new.hash = r.hash /\ new.prev = r.prev /\ new.sequence = n /\ IsRow(new)
      BY <1>5 DEF IsRow
    <3>2. rows' \subseteq (rows \ {r}) \cup {new} /\ \A q \in rows : q.sequence # n
      BY <2>4 DEF Sequences
    <3> HIDE DEF new
    <3> QED
      BY <3>1, <3>2
  <2> QED
    BY <1>4, <2>2, <2>3, <2>4
<1>7. PICK new :
        /\ rows' \subseteq (rows \ {r}) \cup {new} /\ IsRow(new)
        /\ new.hash = r.hash /\ new.prev = r.prev
        /\ \A q \in rows \ {r} : q.sequence # new.sequence
  BY <1>6
<1>8. RowsOK'
  <2>1. IsFiniteSet(rows')
    <3>1. IsFiniteSet((rows \ {r}) \cup {new})
      BY <1>5, FS_AddElement
    <3> QED
      BY <1>7, <3>1, FS_Subset
  <2>2. \A q \in rows' : IsRow(q)
    BY <1>1, <1>7 DEF RowsOK
  <2>3. \A p, q \in rows' : p.sequence = q.sequence => p = q
    BY <1>1, <1>7 DEF RowsOK
  <2> QED
    BY <2>1, <2>2, <2>3 DEF RowsOK, IsRow
<1>9. HashesAreOriginal'
  BY <1>1, <1>2, <1>7 DEF HashesAreOriginal
<1>10. HeadOK' /\ DamageOK' /\ TruthOK' /\ RowsAreTruth' /\ HeadIsTruth'
  BY <1>1, <1>2, <1>3
     DEF HeadOK, DamageOK, TruthOK, RowsAreTruth, HeadIsTruth, ChainedTo, Inserted, IsRow
<1> QED
  BY <1>8, <1>9, <1>10 DEF LedgerInv

(* A head that is changed behind the code's back leaves the rows alone.    *)
LEMMA DamageHeadKeeps == ASSUME LedgerInv, DamageHead PROVE LedgerInv'
<1> USE LedgerAssumption
<1>1. /\ RowsOK /\ HeadOK /\ DamageOK /\ TruthOK
      /\ HashesAreOriginal /\ RowsAreTruth /\ HeadIsTruth
  BY DEF LedgerInv
<1>2. /\ rows' = rows /\ truth' = truth /\ damage' = [damage EXCEPT !.head = @ + 1]
      /\ damage.rows + damage.head < MaxDamage
  BY DEF DamageHead
<1>3. damage'.head = damage.head + 1 /\ damage'.rows = damage.rows /\ damage'.head # 0
      /\ damage' \in [rows : 0 .. MaxDamage, head : 0 .. MaxDamage]
      /\ damage'.rows + damage'.head <= MaxDamage
  BY <1>1, <1>2 DEF DamageOK
<1>4. HeadOK'
  <2>1. \/ \E n \in 0 .. MaxAppends : head' = [head EXCEPT !.sequence = n]
        \/ \E h : head' = [head EXCEPT !.hash = h]
    BY DEF DamageHead
  <2> QED
    BY <1>1, <2>1 DEF HeadOK
<1>5. RowsOK' /\ DamageOK' /\ HashesAreOriginal' /\ HeadIsTruth'
  BY <1>1, <1>2, <1>3 DEF RowsOK, DamageOK, HashesAreOriginal, HeadIsTruth, IsRow
<1>6. TruthOK' /\ RowsAreTruth'
  BY <1>1, <1>2, <1>3 DEF TruthOK, RowsAreTruth, Inserted, IsRow
<1> QED
  BY <1>4, <1>5, <1>6 DEF LedgerInv

(* Every step keeps the invariant.                                         *)
LEMMA NextIsGood == ASSUME LedgerInv, [LedgerNext]_ledgerVars PROVE LedgerInv'
<1>1. CASE UNCHANGED ledgerVars
  BY <1>1
     DEF ledgerVars, LedgerInv, RowsOK, HeadOK, DamageOK, TruthOK, HashesAreOriginal,
         RowsAreTruth, HeadIsTruth, Inserted, IsRow, ChainedTo
<1> QED
  BY <1>1, AppendKeeps, DamageRowsKeeps, DamageHeadKeeps DEF LedgerNext

-----------------------------------------------------------------------------
(* The hashes of every row stay those it was appended with, and a table    *)
(* that only appendAudit has written says what it did.                     *)
THEOREM LedgerInvariant == LedgerSpec => []LedgerInv
<1>1. LedgerInit => LedgerInv
  BY InitIsGood
<1>2. LedgerInv /\ [LedgerNext]_ledgerVars => LedgerInv'
  BY NextIsGood
<1> QED
  BY <1>1, <1>2, PTL DEF LedgerSpec

(* Types of the two tables, and one row per sequence number.               *)
THEOREM LedgerTypeCorrect == LedgerSpec => []LedgerTypeOK
<1>1. LedgerInv => LedgerTypeOK
  BY DEF LedgerInv, LedgerTypeOK, RowsOK, IsRow, HeadOK, TruthOK, DamageOK
<1> QED
  BY <1>1, LedgerInvariant, PTL

(* However often rows were lost, edited and renumbered, or the head was    *)
(* overwritten: unless both happened, verifyLedger accepts nothing but     *)
(* exactly the rows that appendAudit inserted.                             *)
THEOREM VerificationMeansTruth == LedgerSpec => []VerifiedIsTruth
<1>1. LedgerInv => VerifiedIsTruth
  <2> SUFFICES ASSUME LedgerInv, Verified, OneTableIntact PROVE rows = Inserted
    BY DEF VerifiedIsTruth, Inserted
  <2>1. CASE damage.rows = 0
    BY <2>1 DEF LedgerInv, RowsAreTruth
  <2>2. CASE damage.head = 0
    <3>1. /\ Sequences = 1 .. Cardinality(rows) /\ head.sequence = Cardinality(rows)
          /\ \A r \in rows : r.hash = Hash(r.prev, r.sequence, r.entry)
      BY DEF Verified
    <3>2. head.sequence = Len(truth) /\ \A i \in 1 .. Len(truth) : truth[i].sequence = i
      BY <2>2 DEF LedgerInv, HeadIsTruth
    <3>3. \A i \in 1 .. Len(truth) :
            /\ IsRow(truth[i])
            /\ truth[i].hash = Hash(truth[i].prev, truth[i].sequence, truth[i].entry)
      BY DEF LedgerInv, TruthOK
    <3>4. ASSUME NEW r \in rows
          PROVE  r.sequence \in 1 .. Len(truth) /\ r = truth[r.sequence]
      <4>1. PICK i \in 1 .. Len(truth) : r.hash = truth[i].hash /\ r.prev = truth[i].prev
        BY DEF LedgerInv, HashesAreOriginal
      <4>2. Hash(r.prev, r.sequence, r.entry)
            = Hash(truth[i].prev, truth[i].sequence, truth[i].entry)
        BY <3>1, <3>3, <4>1
      <4>3. r.sequence = truth[i].sequence /\ r.entry = truth[i].entry
        BY <4>2 DEF Hash
      <4>4. IsRow(r) /\ IsRow(truth[i])
        BY <3>3 DEF LedgerInv, RowsOK
      <4>5. r = truth[i]
        BY <4>1, <4>3, <4>4 DEF IsRow
      <4> QED
        BY <3>2, <4>5
    <3>5. rows \subseteq Inserted
      BY <3>4 DEF Inserted
    <3>6. ASSUME NEW i \in 1 .. Len(truth) PROVE truth[i] \in rows
      <4>1. i \in Sequences
        BY <3>1, <3>2
      <4>2. PICK r \in rows : r.sequence = i
        BY <4>1 DEF Sequences
      <4> QED
        BY <3>4, <4>2
    <3> QED
      BY <3>5, <3>6 DEF Inserted
  <2> QED
    BY <2>1, <2>2 DEF OneTableIntact
<1> QED
  BY <1>1, LedgerInvariant, PTL

(* verifyLedger does not cry wolf: a ledger that only appendAudit has      *)
(* written verifies, from the empty one on.                                *)
THEOREM NoFalseAlarm == LedgerSpec => []UndamagedVerifies
<1>1. LedgerInv => UndamagedVerifies
  <2> SUFFICES ASSUME LedgerInv, damage.rows = 0, damage.head = 0 PROVE Verified
    BY DEF UndamagedVerifies
  <2>1. /\ rows = Inserted /\ Cardinality(rows) = Len(truth) /\ head.sequence = Len(truth)
        /\ head.hash = ChainedTo(Len(truth) + 1) /\ Len(truth) \in Nat
        /\ \A i \in 1 .. Len(truth) : truth[i].sequence = i /\ truth[i].prev = ChainedTo(i)
    BY LenProperties DEF LedgerInv, RowsAreTruth, HeadIsTruth, TruthOK
  <2>2. \A i \in 1 .. Len(truth) : truth[i] \in rows
    BY <2>1 DEF Inserted
  <2>3. Sequences = 1 .. Len(truth)
    BY <2>1 DEF Sequences, Inserted
  <2>4. \A i \in 1 .. Len(truth) : RowAt(i) = truth[i]
    <3>1. ASSUME NEW i \in 1 .. Len(truth) PROVE RowAt(i) = truth[i]
      <4>1. truth[i] \in rows /\ truth[i].sequence = i
        BY <2>1, <2>2
      <4>2. RowAt(i) \in rows /\ RowAt(i).sequence = i
        BY <4>1 DEF RowAt
      <4> QED
        BY <4>1, <4>2 DEF LedgerInv, RowsOK
    <3> QED
      BY <3>1
  <2>5. \A n \in 1 .. Len(truth) + 1 : HashBefore(n) = ChainedTo(n)
    BY <2>1, <2>4 DEF HashBefore, ChainedTo
  <2>6. ASSUME NEW r \in rows
        PROVE  /\ r.prev = HashBefore(r.sequence)
               /\ r.hash = Hash(r.prev, r.sequence, r.entry)
    <3>1. PICK i \in 1 .. Len(truth) : r = truth[i]
      BY <2>1 DEF Inserted
    <3>2. /\ r.sequence = i /\ r.prev = ChainedTo(i)
          /\ r.hash = Hash(r.prev, r.sequence, r.entry)
      BY <2>1, <3>1 DEF LedgerInv, TruthOK
    <3> QED
      BY <2>1, <2>5, <3>1, <3>2
  <2>7. head = [sequence |-> Cardinality(rows), hash |-> HashBefore(Cardinality(rows) + 1)]
    BY <2>1, <2>5 DEF LedgerInv, HeadOK
  <2> QED
    BY <2>1, <2>3, <2>6, <2>7 DEF Verified
<1> QED
  BY <1>1, LedgerInvariant, PTL

(* Nor does appendAudit give a row a number that any row before it had,    *)
(* deleted or not, unless both tables were changed behind its back.        *)
THEOREM NumbersAreFresh == LedgerSpec => SequencesNotReused
<1> DEFINE Fresh == truth' # truth /\ OneTableIntact =>
             \A i \in 1 .. Len(truth) : truth'[Len(truth')].sequence # truth[i].sequence
<1>1. LedgerInv /\ [LedgerNext]_ledgerVars => [Fresh]_ledgerVars
  <2> SUFFICES ASSUME LedgerInv, LedgerNext, truth' # truth, OneTableIntact,
                      NEW i \in 1 .. Len(truth)
               PROVE  truth'[Len(truth')].sequence # truth[i].sequence
    OBVIOUS
  <2>1. PICK entry \in Entry : AppendAudit(entry)
    BY DEF LedgerNext, DamageRows, DamageHead
  <2> DEFINE n == head.sequence + 1
             row == [sequence |-> n, entry |-> entry, prev |-> head.hash,
                     hash |-> Hash(head.hash, n, entry)]
  <2>2. truth' = Append(truth, row) /\ n \notin Sequences /\ row.sequence = n
    BY <2>1 DEF AppendAudit
  <2> HIDE DEF row
  <2>3. Len(truth) \in Nat /\ truth'[Len(truth')] = row
    <3>1. truth \in Seq(Inserted) /\ Inserted \subseteq Inserted \cup {row}
      BY DEF LedgerInv, TruthOK
    <3>2. truth \in Seq(Inserted \cup {row}) /\ row \in Inserted \cup {row}
      BY <3>1, SeqMonotonic
    <3> QED
      BY <2>2, <3>2, AppendProperties, LenProperties
  <2>4. CASE damage.rows = 0
    <3>1. truth[i] \in rows
      BY <2>4 DEF LedgerInv, RowsAreTruth, Inserted
    <3> QED
      BY <2>2, <2>3, <3>1 DEF Sequences
  <2>5. CASE damage.head = 0
    <3>1. head.sequence = Len(truth) /\ truth[i].sequence = i
      BY <2>5 DEF LedgerInv, HeadIsTruth
    <3> QED
      BY <2>2, <2>3, <3>1
  <2> QED
    BY <2>4, <2>5 DEF OneTableIntact
<1> QED
  BY <1>1, LedgerInvariant, PTL DEF LedgerSpec, SequencesNotReused
=============================================================================
