------------------------------ MODULE MCExports -----------------------------
(***************************************************************************)
(* Small instances of Exports: one setup that may be retried, a leaf       *)
(* export, and two threads.                                                *)
(***************************************************************************)
EXTENDS Exports, TLC

Symmetry == Permutations(Threads)

=============================================================================
