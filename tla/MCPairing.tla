------------------------------ MODULE MCPairing ------------------------------
(***************************************************************************)
(* Instances of Pairing for TLC.                                           *)
(***************************************************************************)
EXTENDS Pairing, TLC

\* Devices and requesting sockets are interchangeable.
PairingSymmetry == Permutations(Device) \cup Permutations(Requester)

=============================================================================
