--------------------------- MODULE MCIdentity ---------------------------
(***************************************************************************)
(* Instances of Identity for TLC: a daemon and one more process.           *)
(***************************************************************************)
EXTENDS Identity, TLC

\* Processes are interchangeable.
ProcSymmetry == Permutations(Procs)

=============================================================================
