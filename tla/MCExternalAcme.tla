---------------------------- MODULE MCExternalAcme --------------------------
(***************************************************************************)
(* Small instances of ExternalAcme: an account to order with, an account   *)
(* of an earlier release, a web thread and the worker of the listener.     *)
(***************************************************************************)
EXTENDS ExternalAcme

=============================================================================
