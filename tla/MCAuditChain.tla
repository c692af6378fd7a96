---------------------------- MODULE MCAuditChain ----------------------------
(* Model-checking instances of AuditChain. *)
EXTENDS AuditChain

=============================================================================
