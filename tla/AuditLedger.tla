---------------------------- MODULE AuditLedger ----------------------------
(***************************************************************************)
(* The hash-chained audit ledger of server/control-plane/audit.ts: the     *)
(* tables audit_ledger and ledger_head, appendAudit, and verifyLedger over *)
(* tables that something other than appendAudit has damaged.               *)
(*                                                                         *)
(* sha256 is modelled as free of collisions: the hash of a row is the pair *)
(* of what was hashed.                                                     *)
(***************************************************************************)
EXTENDS Integers, Sequences, FiniteSets

CONSTANTS Entry,      \* actor, action, resource, outcome, correlation, ts
          MaxAppends, \* bound on appended rows
          MaxDamage   \* bound on changes made behind appendAudit's back

ASSUME LedgerAssumption == MaxAppends \in Nat /\ MaxDamage \in Nat

VARIABLES rows,    \* audit_ledger: a set of rows, one per sequence number
          head,    \* ledger_head: last_sequence and last_hash
          truth,   \* history: the rows appendAudit has inserted, in order
          damage   \* history: number of changes made to each table

ledgerVars == <<rows, head, truth, damage>>

Genesis == <<"genesis">>

Hash(prev, sequence, entry) == <<prev, sequence, entry>>

LedgerInit ==
  /\ rows = {} /\ head = [sequence |-> 0, hash |-> Genesis]
  /\ truth = <<>> /\ damage = [rows |-> 0, head |-> 0]

-----------------------------------------------------------------------------
Sequences == {r.sequence : r \in rows}

Append_toLastRow(entry) ==
  LET n == Cardinality(rows) + 1
      row == [sequence |-> n, entry |-> entry, prev |-> head.hash,
              hash |-> Hash(head.hash, n, entry)]
  IN
  /\ Len(truth) < MaxAppends
  /\ n \notin Sequences
  /\ rows' = rows \cup {row}
  /\ head' = [sequence |-> n, hash |-> row.hash]
  /\ truth' = Append(truth, row)
  /\ UNCHANGED damage

Append_unchecked(entry) ==
  LET n == head.sequence + 1
      row == [sequence |-> n, entry |-> entry, prev |-> head.hash,
              hash |-> Hash(head.hash, n, entry)]
  IN
  /\ Len(truth) < MaxAppends
  /\ rows' = rows \cup {row}
  /\ head' = [sequence |-> n, hash |-> row.hash]
  /\ truth' = Append(truth, row)
  /\ UNCHANGED damage

Append_headSequenceOnly(entry) ==
  LET n == head.sequence + 1
      row == [sequence |-> n, entry |-> entry, prev |-> head.hash,
              hash |-> Hash(head.hash, n, entry)]
  IN
  /\ Len(truth) < MaxAppends
  /\ rows' = rows \cup {row}
  /\ head' = [head EXCEPT !.sequence = n]
  /\ truth' = Append(truth, row)
  /\ UNCHANGED damage

(* appendAudit: next number and predecessor come from the head, never from *)
(* the rows; a number that is taken throws.                                *)
AppendAudit(entry) ==
  LET n == head.sequence + 1
      row == [sequence |-> n, entry |-> entry, prev |-> head.hash,
              hash |-> Hash(head.hash, n, entry)]
  IN
  /\ Len(truth) < MaxAppends
  /\ n \notin Sequences
  /\ rows' = rows \cup {row}
  /\ head' = [sequence |-> n, hash |-> row.hash]
  /\ truth' = Append(truth, row)
  /\ UNCHANGED damage

(* Something else writes to the tables: a row is lost, edited in place or  *)
(* renumbered, ...                                                         *)
DamageRows ==
  /\ damage.rows + damage.head < MaxDamage
  /\ damage' = [damage EXCEPT !.rows = @ + 1]
  /\ \E r \in rows :
       \/ rows' = rows \ {r}
       \/ \E entry \in Entry : rows' = (rows \ {r}) \cup {[r EXCEPT !.entry = entry]}
       \/ \E n \in (1 .. MaxAppends + 1) \ Sequences :
            rows' = (rows \ {r}) \cup {[r EXCEPT !.sequence = n]}
  /\ UNCHANGED <<head, truth>>

(* ... or a column of the head is overwritten.                             *)
DamageHead ==
  /\ damage.rows + damage.head < MaxDamage
  /\ damage' = [damage EXCEPT !.head = @ + 1]
  /\ \/ \E n \in 0 .. MaxAppends : head' = [head EXCEPT !.sequence = n]
     \/ \E h \in {Genesis} \cup {r.hash : r \in rows} : head' = [head EXCEPT !.hash = h]
  /\ UNCHANGED <<rows, truth>>

LedgerNext == DamageRows \/ DamageHead \/ \E entry \in Entry : AppendAudit(entry)

LedgerSpec == LedgerInit /\ [][LedgerNext]_ledgerVars

-----------------------------------------------------------------------------
RowAt(n) == CHOOSE r \in rows : r.sequence = n

(* verifyLedger: the walk over the rows in order, then the head.           *)
HashBefore(n) == IF n = 1 THEN Genesis ELSE RowAt(n - 1).hash

Verified_noHead ==
  /\ Sequences = 1 .. Cardinality(rows)
  /\ \A r \in rows : /\ r.prev = HashBefore(r.sequence)
                     /\ r.hash = Hash(r.prev, r.sequence, r.entry)

Verified ==
  /\ Sequences = 1 .. Cardinality(rows)
  /\ \A r \in rows : /\ r.prev = HashBefore(r.sequence)
                     /\ r.hash = Hash(r.prev, r.sequence, r.entry)
  /\ head = [sequence |-> Cardinality(rows),
             hash |-> HashBefore(Cardinality(rows) + 1)]

(* Types; and one row per sequence number.                                 *)
LedgerTypeOK ==
  /\ \A r \in rows : r.sequence \in Nat \ {0} /\ r.entry \in Entry
  /\ \A q, r \in rows : q.sequence = r.sequence => q = r
  /\ head.sequence \in Nat
  /\ Len(truth) <= MaxAppends
  /\ damage \in [rows : 0 .. MaxDamage, head : 0 .. MaxDamage]

(* One of the two tables is as appendAudit left it.                        *)
OneTableIntact == damage.rows = 0 \/ damage.head = 0

(* A ledger that verifies is the whole truth: every row appendAudit ever   *)
(* inserted, unchanged, and no other; no later append hides the damage.    *)
(* Only changes to rows and head together could be covered up.             *)
VerifiedIsTruth ==
  Verified /\ OneTableIntact => rows = {truth[i] : i \in 1 .. Len(truth)}

(* And an undamaged ledger always verifies.                                *)
UndamagedVerifies == damage.rows = 0 /\ damage.head = 0 => Verified

(* design.md: "audit sequences never reuse deleted numbers": a row gets a  *)
(* number that no row was ever appended with, with the same proviso.       *)
SequencesNotReused ==
  [][truth' # truth /\ OneTableIntact =>
       \A i \in 1 .. Len(truth) : truth'[Len(truth')].sequence # truth[i].sequence]_ledgerVars
=============================================================================
