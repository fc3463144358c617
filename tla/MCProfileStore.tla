--------------------------- MODULE MCProfileStore ---------------------------
(***************************************************************************)
(* ProfileStore for TLC: three profiles, and requests that break one rule  *)
(* each, or none.                                                          *)
(***************************************************************************)
EXTENDS ProfileStore

B(id, col, tap, long) ==
  [id |-> id, col |-> col, row |-> 0, on_tap |-> tap, on_long_press |-> long]
Key(id, col) == B(id, col, "input.key_combo", NoAction)
Page(id, buttons) == [id |-> id, buttons |-> buttons]
Grid(cols, rows, pages) == [grid |-> [cols |-> cols, rows |-> rows], pages |-> pages]
Pages(pages) == Grid(2, 1, pages)
OnePage(buttons) == Pages(<<Page(1, buttons)>>)

\* The default, one page, and two whose buttons share a position but no page.
Good == {DefaultProfile,
         OnePage(<<B(1, 0, "profile.activate", "settings.set"), Key(2, 1)>>),
         Pages(<<Page(1, <<Key(1, 0)>>), Page(2, <<Key(2, 0)>>)>>)}

Bad == {Pages(<<>>), Grid(0, 1, <<Page(1, <<>>)>>), Grid(1, 0, <<Page(1, <<>>)>>),
        Pages(<<Page(1, <<>>), Page(1, <<>>)>>),
        Pages(<<Page(1, <<Key(1, 0)>>), Page(2, <<Key(1, 1)>>)>>),
        OnePage(<<Key(1, 0), Key(1, 1)>>), OnePage(<<Key(1, 0), Key(2, 0)>>),
        OnePage(<<Key(1, 2)>>),
        OnePage(<<B(1, 0, "no.such.op", NoAction)>>),
        OnePage(<<B(1, 0, NoAction, "session.hello")>>),
        OnePage(<<B(1, 0, "device.changed", NoAction)>>)}

MCLayouts == Good \cup Bad

=============================================================================
