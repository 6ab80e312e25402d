------------------------- MODULE MCEnrollmentWindow ------------------------
(***************************************************************************)
(* Two saves at a time against the requests of one client.                 *)
(***************************************************************************)
EXTENDS EnrollmentWindow, TLC

Symmetry == Permutations(Admins) \cup Permutations(Handlers)

=============================================================================
