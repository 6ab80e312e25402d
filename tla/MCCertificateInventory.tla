----------------------- MODULE MCCertificateInventory ----------------------
(***************************************************************************)
(* Small instances of CertificateInventory: an empty table or one in which *)
(* releases before 0.4.5 left two active public certificates of one name.  *)
(***************************************************************************)
EXTENDS CertificateInventory, TLC

Left(name) == [Signed("legacy-public", name) EXCEPT !.status = "active"]

MCHistories == {<<>>} \cup {<<Left(n), Left(n)>> : n \in Names}

Symmetry == Permutations(WebThreads) \cup Permutations(Names)

=============================================================================
