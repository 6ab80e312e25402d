---------------------------- MODULE MCSignedTime ---------------------------
(***************************************************************************)
(* A small instance of SignedTime.  The unit of time is 2 s: the code's    *)
(* 2 s, 5 s and 15 s become 1, 2 and 7 units.                              *)
(***************************************************************************)
EXTENDS SignedTime

=============================================================================
