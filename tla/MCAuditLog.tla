---------------------------- MODULE MCAuditLog ----------------------------
(* AuditLog on small instances: see README.md for what each run shows.     *)
EXTENDS AuditLog
=============================================================================
