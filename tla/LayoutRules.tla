---------------------------- MODULE LayoutRules ----------------------------
(***************************************************************************)
(* What profile.set accepts (store.rs, validate and check_action): one     *)
(* pass over the pages and their buttons that collects the identifiers and *)
(* the positions it has met.  Sound is the same said without the pass, of  *)
(* any two buttons: the rules of docs/PROTOCOL.md, section 4.5.            *)
(***************************************************************************)
EXTENDS Naturals, Sequences, SequencesExt

\* The shapes that serde lets through: positions and grids are u16, an
\* identifier may be any, and so may the name of an op.
U16 == 0 .. 65535
DeckButton == [id : Nat, col : U16, row : U16, on_tap : STRING, on_long_press : STRING]
DeckPage == [id : Nat, buttons : Seq(DeckButton)]
DeckProfile == [grid : [cols : U16, rows : U16], pages : Seq(DeckPage)]

PreAuthOps == {"session.hello", "session.auth", "pair.request"}
EventOps == {"profile.changed", "telemetry.update", "device.changed", "pairing.state",
             "engine.shutdown"}
AdminOps == {"pair.begin", "pair.cancel", "pair.list_devices", "pair.revoke", "action.set",
             "action.delete", "profile.set", "profile.delete", "settings.get", "settings.set"}
DeckOps == {"system.ping", "input.key_combo", "input.key_sequence", "input.text",
            "input.media", "input.mouse", "action.run", "action.list", "profile.get",
            "profile.list", "profile.subscribe", "telemetry.subscribe", "profile.activate"}

NoAction == "none"

\* check_action: an op that is unknown, that comes before authentication or
\* that only the engine sends is nobody's to store.
MayStore(role, op) ==
    op \in {NoAction} \cup DeckOps \cup IF role = "admin" THEN AdminOps ELSE {}

InGrid(grid, button) == button.col < grid.cols /\ button.row < grid.rows

\* The loop's body for a button; an error ends validate, here it ends `ok`.
CheckButton(grid, role, seen, button) ==
    [seen EXCEPT
        !.ok = @ /\ button.id \notin seen.buttons
                 /\ InGrid(grid, button)
                 /\ <<button.col, button.row>> \notin seen.occupied
                 /\ MayStore(role, button.on_tap)
                 /\ MayStore(role, button.on_long_press),
        !.buttons = @ \cup {button.id},
        !.occupied = @ \cup {<<button.col, button.row>>}]

\* ... and for a page: positions are a page's own, identifiers are not.
CheckPage_ForgetsButtons(grid, role, seen, page) ==
    FoldLeft(LAMBDA s, b : CheckButton(grid, role, s, b),
             [ok |-> seen.ok /\ page.id \notin seen.pages, pages |-> seen.pages \cup {page.id},
              buttons |-> {}, occupied |-> {}],
             page.buttons)

CheckPage(grid, role, seen, page) ==
    FoldLeft(LAMBDA s, b : CheckButton(grid, role, s, b),
             [ok |-> seen.ok /\ page.id \notin seen.pages, pages |-> seen.pages \cup {page.id},
              buttons |-> seen.buttons, occupied |-> {}],
             page.buttons)

Unseen == [ok |-> TRUE, pages |-> {}, buttons |-> {}, occupied |-> {}]

\* validate.
Accepts(profile, role) ==
    /\ profile.pages # <<>>
    /\ profile.grid.cols > 0 /\ profile.grid.rows > 0
    /\ FoldLeft(LAMBDA s, p : CheckPage(profile.grid, role, s, p), Unseen, profile.pages).ok

\* default_profile: fifteen shortcuts, one in each cell of its only page.
DefaultProfile ==
    [grid |-> [cols |-> 5, rows |-> 3],
     pages |-> <<[id |-> 1,
                  buttons |-> [i \in 1 .. 15 |->
                      [id |-> i, col |-> (i - 1) % 5, row |-> (i - 1) \div 5,
                       on_tap |-> "input.key_combo", on_long_press |-> NoAction]]]>>]

-----------------------------------------------------------------------------
\* Where the buttons of a profile are: the page, and the place on it.
Places(profile) ==
    UNION {{i} \X DOMAIN profile.pages[i].buttons : i \in DOMAIN profile.pages}

ButtonAt(profile, x) == profile.pages[x[1]].buttons[x[2]]

\* A layout is sound when a page and a button can be named by their identifiers,
\* no button hides another or lies outside, and each sends what may be sent.
Sound(profile) ==
    /\ Len(profile.pages) > 0 /\ profile.grid.cols * profile.grid.rows > 0
    /\ \A i, j \in DOMAIN profile.pages :
          profile.pages[i].id = profile.pages[j].id => i = j
    /\ \A x \in Places(profile) : LET b == ButtonAt(profile, x) IN
          /\ b.col \in 0 .. profile.grid.cols - 1 /\ b.row \in 0 .. profile.grid.rows - 1
          /\ {b.on_tap, b.on_long_press} \ {NoAction}
                \subseteq DeckOps \cup AdminOps
    /\ \A x, y \in Places(profile) : LET b == ButtonAt(profile, x) c == ButtonAt(profile, y) IN
          \/ x = y
          \/ b.id # c.id /\ (x[1] = y[1] => <<b.col, b.row>> # <<c.col, c.row>>)
=============================================================================
