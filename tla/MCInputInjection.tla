-------------------------- MODULE MCInputInjection --------------------------
(***************************************************************************)
(* Instances of InputInjection for TLC: the requests that decks send.      *)
(***************************************************************************)
EXTENDS InputInjection

CONSTANTS Ctrl, Shift, C, PrtSc, Left, Play

Combo(keys, t) == [kind |-> "combo", keys |-> keys, hold |-> t]
Media(c) == [kind |-> "media", command |-> c]
Mouse(a) == [kind |-> "mouse", action |-> a, button |-> Left]
One(op, step) == [op |-> op, steps |-> <<step>>]

Combos == { One("key_combo", Combo(<<Ctrl, C>>, 0)),
            One("key_combo", Combo(<<Ctrl, PrtSc>>, 0)),
            One("key_combo", Combo(<<C, Ctrl>>, 0)) }

\* Two combos and a pause; one with a malformed second combo; one too long.
Sequences == { [op |-> "key_sequence",
                steps |-> <<Combo(<<Ctrl, C>>, 1), Pause(1), Combo(<<Shift>>, 1)>>],
               [op |-> "key_sequence",
                steps |-> <<Combo(<<C>>, 0), Combo(<<C, PrtSc>>, 0)>>],
               [op |-> "key_sequence", steps |-> <<Combo(<<C>>, 0), Pause(4)>>],
               [op |-> "key_sequence", steps |-> <<>>] }

Others == { Paced(1, 1), Paced(2, 1),
            One("media", Media(Play)), One("media", Media(Stop)),
            One("mouse", Mouse("down")), One("mouse", Mouse("up")),
            One("mouse", Mouse("click")), One("mouse", Mouse("move")) }

MCRequest == Combos \cup Sequences \cup Others

=============================================================================
