----------------------------- MODULE MCDiskCache -----------------------------
(* Model checking of DiskCache: one process after the other, any of which  *)
(* may be killed, and two at a time.                                       *)
EXTENDS DiskCache, TLC

Symmetry == Permutations(Procs)
=============================================================================
