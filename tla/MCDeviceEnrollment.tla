------------------------ MODULE MCDeviceEnrollment -------------------------
(***************************************************************************)
(* Small instances of DeviceEnrollment: every enrollment is for the same   *)
(* host name, so that enrollments and renewals compete for one public      *)
(* identity.                                                               *)
(***************************************************************************)
EXTENDS DeviceEnrollment, TLC

CONSTANT portal

MCPortalHost == [e \in Enrollments |-> portal]

Symmetry ==
    Permutations(Threads) \cup Permutations(Renewals) \cup Permutations(ValidRequests)

=============================================================================
