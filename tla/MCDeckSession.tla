--------------------------- MODULE MCDeckSession ---------------------------
(***************************************************************************)
(* Instances of DeckSession for TLC.                                       *)
(***************************************************************************)
EXTENDS DeckSession, TLC

\* The slots for asynchronous calls are interchangeable, and so are connections.
SlotSymmetry == Permutations(Flow) \cup Permutations(Conn)

=============================================================================
