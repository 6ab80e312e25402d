----------------------------- MODULE MCStartup -----------------------------
(***************************************************************************)
(* Two renewals of the listener's certificate, two time keys.              *)
(***************************************************************************)
EXTENDS Startup

=============================================================================
