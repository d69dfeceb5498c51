------------------------------ MODULE MCAudit ------------------------------
(***************************************************************************)
(* Small instances of Audit for TLC.                                       *)
(***************************************************************************)
EXTENDS Audit
=============================================================================
