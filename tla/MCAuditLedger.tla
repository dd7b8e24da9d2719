--------------------------- MODULE MCAuditLedger ---------------------------
(* A small instance of AuditLedger.                                        *)
EXTENDS AuditLedger
=============================================================================
