SPECIFICATION LedgerSpec
CONSTANTS
  Entry = {e, f}
  MaxAppends = 4
  MaxDamage = 3
INVARIANTS LedgerTypeOK VerifiedIsTruth UndamagedVerifies
PROPERTIES SequencesNotReused
CHECK_DEADLOCK FALSE
