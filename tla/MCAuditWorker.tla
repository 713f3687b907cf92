---------------------------- MODULE MCAuditWorker ----------------------------
(* Small instances of AuditWorker.                                           *)
EXTENDS AuditWorker, TLC
==============================================================================
