---------------------------- MODULE MCAuditBuffer ---------------------------
(* A small instance of AuditBuffer for TLC.                                *)
EXTENDS AuditBuffer
=============================================================================
