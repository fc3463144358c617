---------------------------- MODULE MCLiveLayout ----------------------------
(***************************************************************************)
(* Instances of LiveLayout for TLC: two layouts that differ in a button.   *)
(***************************************************************************)
EXTENDS LiveLayout

OneButton(id) ==
  [grid |-> [cols |-> 1, rows |-> 1],
   pages |-> <<[id |-> 1, buttons |-> <<[id |-> id, col |-> 0, row |-> 0,
     on_tap |-> "input.text", on_long_press |-> "none"]>>]>>]

a == OneButton(1)
b == OneButton(2)
MCLayouts == {a, b}

=============================================================================
