------------------------- MODULE ProfileStoreProofs -------------------------
(***************************************************************************)
(* Proofs about module ProfileStore, for every set of profiles and of      *)
(* layouts.                                                                *)
(***************************************************************************)
EXTENDS ProfileStore, WellFoundedInduction, TLAPS

\* The first key of a map that is not empty (BTreeMap's keys().next()).
First(S) == CHOOSE q \in S : \A r \in S : q <= r

\* A set of numbers that is not empty has a least one.
LEMMA LeastExists ==
  ASSUME NEW S, S \subseteq Nat, S # {}
  PROVE  \E q \in S : \A r \in S : q <= r
<1>1. PICK q \in S : \A r \in S : ~ (<<r, q>> \in OpToRel(<, Nat))
  BY NatLessThanWellFounded, WFMin, Zenon
<1>2. \A r \in S : ~(r < q)
  BY <1>1 DEF OpToRel
<1> QED
  BY <1>2

\* A set of identifiers that is not empty has a first one.
LEMMA FirstExists ==
  ASSUME NEW S, S \subseteq Profile, S # {}
  PROVE  First(S) \in S
<1>1. \E q \in S : \A r \in S : q <= r
  BY LeastExists, ProfileStoreAssumption, Zenon
<1> QED
  BY <1>1 DEF First

-----------------------------------------------------------------------------
(* The inductive invariant.                                                *)

\* What is on disk is a store of its own right.
StoreInv == TypeOK /\ ActiveIsReal

\* A map on some of the profiles is on the shelf, and nothing else is.
LEMMA OnShelf ==
  ASSUME NEW S, S \subseteq Profile, NEW f, f \in [S -> Layout]
  PROVE  f \in Shelf
<1>1. [S -> Layout] \in {[T -> Layout] : T \in SUBSET Profile}
  OBVIOUS
<1> QED
  BY <1>1 DEF Shelf

\* ... and what is on the shelf is such a map.
LEMMA ShelfIs ==
  ASSUME NEW f \in Shelf
  PROVE  DOMAIN f \subseteq Profile /\ f \in [DOMAIN f -> Layout]
  BY DEF Shelf

\* Writing a store that satisfies the invariant keeps it, written or not.
LEMMA PersistKeeps ==
  ASSUME StoreInv, NEW ok \in BOOLEAN, Persist(ok),
         profiles' \in Shelf, active' \in Profile, active' \in DOMAIN profiles'
  PROVE  StoreInv'
<1>1. CASE ok
  BY <1>1 DEF StoreInv, TypeOK, ActiveIsReal, Persist, StoreFile
<1>2. CASE ~ok
  BY <1>2 DEF StoreInv, TypeOK, ActiveIsReal, Persist
<1> QED
  BY <1>1, <1>2

\* The first start satisfies the invariant.
LEMMA InitStoreInv == Init => StoreInv
<1> SUFFICES ASSUME Init PROVE StoreInv
  OBVIOUS
<1>1. profiles \in Shelf
  <2>1. profiles \in [{Default} -> Layout]
    BY ProfileStoreAssumption DEF Init
  <2> QED
    BY <2>1, OnShelf, ProfileStoreAssumption
<1> QED
  BY <1>1, ProfileStoreAssumption DEF Init, StoreInv, TypeOK, ActiveIsReal, StoreFile

\* Every operation keeps the invariant.
LEMMA NextStoreInv == StoreInv /\ [Next]_vars => StoreInv'
<1> SUFFICES ASSUME StoreInv, [Next]_vars PROVE StoreInv'
  OBVIOUS
<1>0. /\ profiles \in [DOMAIN profiles -> Layout] /\ DOMAIN profiles \subseteq Profile
      /\ active \in DOMAIN profiles
      /\ WriteOutcomes \subseteq BOOLEAN
  BY ShelfIs, ProfileStoreAssumption DEF StoreInv, TypeOK, ActiveIsReal
<1>1. ASSUME NEW p \in Profile, NEW l \in Layout, NEW ok \in WriteOutcomes, Set(p, l, ok)
      PROVE StoreInv'
  <2>1. profiles' \in [DOMAIN profiles \cup {p} -> Layout]
    BY <1>0, <1>1 DEF Set
  <2>2. profiles' \in Shelf
    BY <1>0, <2>1, OnShelf
  <2>3. active' = active /\ active' \in DOMAIN profiles' /\ active' \in Profile
    BY <1>0, <1>1, <2>1 DEF Set
  <2> QED
    BY <1>0, <1>1, <2>2, <2>3, PersistKeeps DEF Set
<1>2. ASSUME NEW p \in Profile, NEW ok \in WriteOutcomes, Delete(p, ok) PROVE StoreInv'
  <2>1. profiles' \in [DOMAIN profiles \ {p} -> Layout] /\ DOMAIN profiles' = DOMAIN profiles \ {p}
    BY <1>0, <1>2 DEF Delete
  <2>2. profiles' \in Shelf
    BY <1>0, <2>1, OnShelf
  <2>3. active' \in DOMAIN profiles'
    <3>1. CASE active = p
      <4>1. active' = First(DOMAIN profiles')
        BY <1>2, <3>1 DEF Delete, First
      <4>2. DOMAIN profiles' # {}
        BY <1>0, <1>2, <2>1 DEF Delete
      <4> QED
        BY <1>0, <2>1, <4>1, <4>2, FirstExists
    <3>2. CASE active # p
      BY <1>0, <1>2, <2>1, <3>2 DEF Delete
    <3> QED
      BY <3>1, <3>2
  <2> QED
    BY <1>0, <1>2, <2>1, <2>2, <2>3, PersistKeeps DEF Delete
<1>3. ASSUME NEW p \in Profile, NEW ok \in WriteOutcomes, Activate(p, ok) PROVE StoreInv'
  <2>1. profiles' \in Shelf /\ active' \in DOMAIN profiles' /\ active' \in Profile
    BY <1>0, <1>3 DEF Activate, StoreInv, TypeOK
  <2> QED
    BY <1>0, <1>3, <2>1, PersistKeeps DEF Activate
<1>4. CASE Restart
  BY <1>4 DEF Restart, StoreInv, TypeOK, StoreFile, ActiveIsReal
<1>5. CASE UNCHANGED vars
  BY <1>5 DEF vars, StoreInv, TypeOK, ActiveIsReal
<1> QED
  BY <1>1, <1>2, <1>3, <1>4, <1>5 DEF Next

\* Every reachable state of the store and its file is well typed.
THEOREM TypeCorrect == Spec => []TypeOK
<1>1. StoreInv => TypeOK
  BY DEF StoreInv
<1> QED
  BY InitStoreInv, NextStoreInv, <1>1, PTL DEF Spec

\* There is always an active profile, in memory and in the file: store.rs never
\* deletes the last profile and moves the pointer when it deletes the active one.
THEOREM ActiveCorrect == Spec => []ActiveIsReal
<1>1. StoreInv => ActiveIsReal
  BY DEF StoreInv
<1> QED
  BY InitStoreInv, NextStoreInv, <1>1, PTL DEF Spec

\* Unless the last write failed, a restart changes nothing.
THEOREM SavedCorrect == Spec => []AnsweredIsSaved
<1>1. Init => AnsweredIsSaved
  BY DEF Init, AnsweredIsSaved
<1>2. StoreInv /\ AnsweredIsSaved /\ [Next]_vars => AnsweredIsSaved'
  <2> SUFFICES ASSUME StoreInv, AnsweredIsSaved, [Next]_vars PROVE AnsweredIsSaved'
    OBVIOUS
  <2>1. ASSUME NEW ok \in WriteOutcomes, Persist(ok) PROVE AnsweredIsSaved'
    BY <2>1, ProfileStoreAssumption DEF Persist, AnsweredIsSaved
  <2>2. CASE Restart
    BY <2>2 DEF Restart, AnsweredIsSaved, StoreInv, TypeOK, StoreFile
  <2>3. CASE UNCHANGED vars
    BY <2>3 DEF vars, AnsweredIsSaved
  <2> QED
    BY <2>1, <2>2, <2>3 DEF Next, Set, Delete, Activate
<1> QED
  BY InitStoreInv, NextStoreInv, <1>1, <1>2, PTL DEF Spec

-----------------------------------------------------------------------------
(* Folds over a sequence.  FoldLeft walks the domain from its greatest     *)
(* index down, as a recursive function on the sets of indices: Folding is  *)
(* the equation it is chosen by, with the step of index i as a function.   *)

Folding(it, n, base, F) ==
  it = [s \in SUBSET (1 .. n) |->
          IF s = {} THEN base ELSE F[Max(s)][it[s \ {Max(s)}]]]

\* What 0 has and each number hands on to the next, all numbers up to n have.
LEMMA Climb ==
  ASSUME NEW n \in Nat, NEW S, 0 \in S,
         \A k \in 0 .. n : k \in S /\ k < n => k + 1 \in S
  PROVE  \A k \in 0 .. n : k \in S
<1>1. SUFFICES ASSUME NEW x \in (0 .. n) \ S PROVE FALSE
  OBVIOUS
<1>2. (0 .. n) \ S \subseteq Nat /\ (0 .. n) \ S # {}
  BY <1>1
<1>3. PICK q \in (0 .. n) \ S : \A r \in (0 .. n) \ S : q <= r
  BY <1>2, LeastExists, Zenon
<1>4. q # 0 /\ q - 1 \in 0 .. n /\ q - 1 < n /\ (q - 1) + 1 = q
  BY <1>3
<1>5. q - 1 \in S
  BY <1>3, <1>4
<1> QED
  BY <1>3, <1>4, <1>5

\* The indices up to k + 1, from those up to k.
LEMMA Indices ==
  ASSUME NEW k \in Nat
  PROVE  /\ Max(1 .. k + 1) = k + 1
         /\ (1 .. k + 1) \ {k + 1} = 1 .. k
         /\ 1 .. k + 1 # {}
         /\ 1 .. 0 = {}
<1>1. k + 1 \in 1 .. k + 1 /\ \A y \in 1 .. k + 1 : k + 1 >= y
  OBVIOUS
<1>2. \A x \in 1 .. k + 1 : (\A y \in 1 .. k + 1 : x >= y) => x = k + 1
  BY <1>1
<1>3. Max(1 .. k + 1) = k + 1
  BY <1>1, <1>2 DEF Max
<1> QED
  BY <1>1, <1>3

\* The greatest of a set of such indices is one of them.
LEMMA GreatestIn ==
  ASSUME NEW n \in Nat, NEW s \in SUBSET (1 .. n), s # {}
  PROVE  Max(s) \in s
<1> DEFINE T == {m \in 0 .. n : n - m \in s}
<1>1. T \subseteq Nat /\ T # {}
  <2>1. PICK x \in s : x \in 1 .. n
    OBVIOUS
  <2>2. n - x \in 0 .. n /\ n - (n - x) = x
    BY <2>1
  <2>3. n - x \in T
    BY <2>2
  <2>4. T \subseteq Nat
    OBVIOUS
  <2> HIDE DEF T
  <2> QED
    BY <2>3, <2>4
<1>2. PICK q \in T : \A r \in T : q <= r
  <2> HIDE DEF T
  <2> QED
    BY <1>1, LeastExists, Zenon
<1>3. ASSUME NEW y \in s PROVE n - q >= y
  <2>1. y \in 1 .. n /\ n - y \in 0 .. n /\ n - (n - y) = y
    OBVIOUS
  <2>2. n - y \in T
    BY <2>1
  <2>3. q <= n - y /\ q \in 0 .. n
    BY <1>2, <2>2
  <2> QED
    BY <2>1, <2>3
<1>4. n - q \in s
  BY <1>2
<1> QED
  BY <1>3, <1>4 DEF Max

\* A fold has a function to be: for every base and every step within V.
LEMMA FoldExists ==
  ASSUME NEW n \in Nat, NEW V, NEW base \in V, NEW F \in [1 .. n -> [V -> V]]
  PROVE  \E it \in [SUBSET (1 .. n) -> V] : Folding(it, n, base, F)
<1> DEFINE K == {k \in 0 .. n : \E it \in [SUBSET (1 .. k) -> V] : Folding(it, k, base, F)}
<1>1. 0 \in K
  <2> DEFINE it == [s \in SUBSET (1 .. 0) |-> base]
  <2>1. \A s \in SUBSET (1 .. 0) : s = {}
    OBVIOUS
  <2>2. it \in [SUBSET (1 .. 0) -> V] /\ Folding(it, 0, base, F)
    BY <2>1 DEF Folding
  <2> QED
    BY <2>2
<1>2. \A k \in 0 .. n : k \in K /\ k < n => k + 1 \in K
  <2> SUFFICES ASSUME NEW k \in 0 .. n, k \in K, k < n PROVE k + 1 \in K
    OBVIOUS
  <2>1. PICK old \in [SUBSET (1 .. k) -> V] : Folding(old, k, base, F)
    OBVIOUS
  <2>2. k + 1 \in 1 .. n /\ k \in Nat /\ k + 1 \in 0 .. n
    OBVIOUS
  <2> DEFINE it == [s \in SUBSET (1 .. k + 1) |->
                      IF k + 1 \in s THEN F[k + 1][old[s \ {k + 1}]] ELSE old[s]]
  <2>3. \A s \in SUBSET (1 .. k + 1) : s \ {k + 1} \in SUBSET (1 .. k)
    BY <2>2
  <2>4. F[k + 1] \in [V -> V]
    BY <2>2
  <2>5. ASSUME NEW s \in SUBSET (1 .. k + 1)
        PROVE  IF k + 1 \in s THEN F[k + 1][old[s \ {k + 1}]] \in V ELSE old[s] \in V
    <3>1. old[s \ {k + 1}] \in V
      BY <2>3
    <3>2. k + 1 \notin s => s \in SUBSET (1 .. k)
      BY <2>3, Zenon
    <3> QED
      BY <2>4, <3>1, <3>2
  <2>6. it \in [SUBSET (1 .. k + 1) -> V]
    BY <2>5
  <2>7. ASSUME NEW s \in SUBSET (1 .. k + 1)
        PROVE  it[s] = IF s = {} THEN base ELSE F[Max(s)][it[s \ {Max(s)}]]
    <3>1. CASE k + 1 \in s
      <4>1. Max(s) = k + 1
        <5>1. \A y \in s : y \in Nat /\ k + 1 >= y
          BY <2>2
        <5>2. \A x \in s : (\A y \in s : x >= y) => x = k + 1
          BY <3>1, <5>1
        <5> QED
          BY <3>1, <5>1, <5>2 DEF Max
      <4>2. s \ {k + 1} \in SUBSET (1 .. k + 1) /\ k + 1 \notin s \ {k + 1} /\ s # {}
        BY <3>1
      <4>3. it[s \ {k + 1}] = old[s \ {k + 1}]
        BY <4>2
      <4>4. it[s] = F[k + 1][old[s \ {k + 1}]]
        BY <3>1
      <4> HIDE DEF it
      <4> QED
        BY <4>1, <4>2, <4>3, <4>4, Zenon
    <3>2. CASE k + 1 \notin s
      <4>1. s \in SUBSET (1 .. k)
        BY <2>3, <3>2, Zenon
      <4>2. s \ {Max(s)} \in SUBSET (1 .. k) /\ s \ {Max(s)} \in SUBSET (1 .. k + 1)
            /\ k + 1 \notin s \ {Max(s)}
        BY <3>2, <4>1, Zenon
      <4>3. it[s] = old[s] /\ it[s \ {Max(s)}] = old[s \ {Max(s)}]
        BY <3>2, <4>2
      <4>4. old[s] = IF s = {} THEN base ELSE F[Max(s)][old[s \ {Max(s)}]]
        BY <2>1, <4>1, Zenon DEF Folding
      <4> HIDE DEF it
      <4> QED
        BY <4>3, <4>4, Zenon
    <3> QED
      BY <3>1, <3>2
  <2>8. Folding(it, k + 1, base, F)
    <3>1. it = [s \in SUBSET (1 .. k + 1) |-> it[s]]
      BY <2>6, Zenon
    <3> HIDE DEF it
    <3> QED
      BY <2>7, <3>1, Zenon DEF Folding
  <2> HIDE DEF it
  <2> QED
    BY <2>2, <2>6, <2>8
<1>3. \A k \in 0 .. n : k \in K
  <2> HIDE DEF K
  <2> QED
    BY <1>1, <1>2, Climb, Zenon
<1>4. n \in 0 .. n
  OBVIOUS
<1> QED
  BY <1>3, <1>4, Zenon

-----------------------------------------------------------------------------
(* The pass of validate over the buttons of a page.                        *)

\* What the two sets of identifiers, the set of positions and `ok` can be.
Seen == [ok : BOOLEAN, pages : SUBSET Nat, buttons : SUBSET Nat, occupied : SUBSET (U16 \X U16)]

\* A button that may stay, and two that may stay beside each other.
Fits(grid, role, b) ==
  InGrid(grid, b) /\ MayStore(role, b.on_tap) /\ MayStore(role, b.on_long_press)

Differ(b, c) == b.id # c.id /\ <<b.col, b.row>> # <<c.col, c.row>>

\* What the pass starts a page with: the page met, no place taken.
Opened(seen, page) ==
  [ok |-> seen.ok /\ page.id \notin seen.pages, pages |-> seen.pages \cup {page.id},
   buttons |-> seen.buttons, occupied |-> {}]

\* The function FoldLeft chooses for the pass over the buttons.
ButtonFold(grid, role, base, buttons) ==
  CHOOSE it : it = [s \in SUBSET DOMAIN buttons |->
                      IF s = {} THEN base
                      ELSE CheckButton(grid, role, it[s \ {Max(s)}], buttons[Max(s)])]

\* CheckPage is that function at all the buttons.
LEMMA CheckPageFolds ==
  ASSUME NEW grid, NEW role, NEW seen, NEW page
  PROVE  CheckPage(grid, role, seen, page)
           = ButtonFold(grid, role, Opened(seen, page), page.buttons)[DOMAIN page.buttons]
BY DEF CheckPage, Opened, ButtonFold, FoldLeft, MapThenFoldSet

\* A button looked at, field by field.
Checked(grid, role, seen, b) ==
  [ok |-> /\ seen.ok /\ b.id \notin seen.buttons /\ <<b.col, b.row>> \notin seen.occupied
          /\ Fits(grid, role, b),
   pages |-> seen.pages, buttons |-> seen.buttons \cup {b.id},
   occupied |-> seen.occupied \cup {<<b.col, b.row>>}]

\* The body of the loop, with its conditions gathered.
LEMMA CheckButtonIs ==
  ASSUME NEW grid, NEW role, NEW seen \in Seen, NEW b \in DeckButton
  PROVE  /\ CheckButton(grid, role, seen, b) = Checked(grid, role, seen, b)
         /\ CheckButton(grid, role, seen, b) \in Seen
<1> DEFINE ok == /\ seen.ok /\ b.id \notin seen.buttons
                 /\ InGrid(grid, b) /\ <<b.col, b.row>> \notin seen.occupied
                 /\ MayStore(role, b.on_tap) /\ MayStore(role, b.on_long_press)
           fit == /\ seen.ok /\ b.id \notin seen.buttons
                  /\ <<b.col, b.row>> \notin seen.occupied
                  /\ Fits(grid, role, b)
           u == [ok |-> ok, pages |-> seen.pages, buttons |-> seen.buttons \cup {b.id},
                 occupied |-> seen.occupied \cup {<<b.col, b.row>>}]
<1>1. CheckButton(grid, role, seen, b) = u
  <2>1. CheckButton(grid, role, seen, b)
          = [seen EXCEPT !.ok = ok, !.buttons = @ \cup {b.id},
                         !.occupied = @ \cup {<<b.col, b.row>>}]
    BY DEF CheckButton
  <2> HIDE DEF ok
  <2> QED
    BY <2>1 DEF Seen
<1>2. ok \in BOOLEAN /\ ok = fit
  BY Zenon DEF InGrid, MayStore, Fits
<1>3. b.id \in Nat /\ <<b.col, b.row>> \in U16 \X U16
  BY DEF DeckButton
<1>4. u \in Seen
  <2> HIDE DEF ok
  <2> QED
    BY <1>2, <1>3 DEF Seen
<1>5. u = Checked(grid, role, seen, b)
  <2> HIDE DEF ok
  <2> QED
    BY <1>2, Zenon DEF Checked
<1> QED
  BY <1>1, <1>4, <1>5, Zenon

\* It starts from base, and each button is checked after those before it.
ButtonSteps(it, grid, role, base, buttons) ==
  /\ it[{}] = base
  /\ \A k \in 0 .. Len(buttons) - 1 :
       it[1 .. k + 1] = CheckButton(grid, role, it[1 .. k], buttons[k + 1])

\* The pass goes from the first button to the last, one CheckButton each.
LEMMA ButtonFoldSteps ==
  ASSUME NEW grid, NEW role, NEW base \in Seen, NEW buttons \in Seq(DeckButton)
  PROVE  ButtonSteps(ButtonFold(grid, role, base, buttons), grid, role, base, buttons)
<1> DEFINE n == Len(buttons)
           F == [i \in 1 .. n |-> [v \in Seen |-> CheckButton(grid, role, v, buttons[i])]]
           Step(g) == [s \in SUBSET DOMAIN buttons |->
                          IF s = {} THEN base
                          ELSE CheckButton(grid, role, g[s \ {Max(s)}], buttons[Max(s)])]
<1>1. n \in Nat /\ DOMAIN buttons = 1 .. n /\ \A i \in 1 .. n : buttons[i] \in DeckButton
  OBVIOUS
<1>2. F \in [1 .. n -> [Seen -> Seen]]
  BY <1>1, CheckButtonIs
<1>3. PICK f \in [SUBSET (1 .. n) -> Seen] : Folding(f, n, base, F)
  <2> HIDE DEF n, F
  <2> QED
    BY <1>1, <1>2, FoldExists, Zenon
<1>4. f = Step(f)
  <2>1. ASSUME NEW s \in SUBSET (1 .. n), s # {}
        PROVE  F[Max(s)][f[s \ {Max(s)}]]
                 = CheckButton(grid, role, f[s \ {Max(s)}], buttons[Max(s)])
    <3>1. Max(s) \in 1 .. n
      BY <1>1, <2>1, GreatestIn
    <3>2. f[s \ {Max(s)}] \in Seen
      OBVIOUS
    <3> HIDE DEF n
    <3> QED
      BY <3>1, <3>2
  <2>2. f = [s \in SUBSET (1 .. n) |->
                IF s = {} THEN base ELSE F[Max(s)][f[s \ {Max(s)}]]]
    BY <1>3, Zenon DEF Folding
  <2> HIDE DEF n, F
  <2> QED
    BY <1>1, <2>1, <2>2
<1> DEFINE it == ButtonFold(grid, role, base, buttons)
<1>5. it = Step(it)
  BY <1>4 DEF ButtonFold
<1>6. \A s \in SUBSET (1 .. n) : it[s] = IF s = {} THEN base
                    ELSE CheckButton(grid, role, it[s \ {Max(s)}], buttons[Max(s)])
  <2> HIDE DEF n, it
  <2> QED
    BY <1>1, <1>5
<1>7. ASSUME NEW k \in 0 .. n - 1
      PROVE  it[1 .. k + 1] = CheckButton(grid, role, it[1 .. k], buttons[k + 1])
  <2>1. k \in Nat /\ 1 .. k + 1 \in SUBSET (1 .. n)
    BY <1>1
  <2>2. Max(1 .. k + 1) = k + 1 /\ (1 .. k + 1) \ {k + 1} = 1 .. k /\ 1 .. k + 1 # {}
    BY <2>1, Indices, Zenon
  <2> HIDE DEF n, it
  <2> QED
    BY <1>6, <2>1, <2>2, Zenon
<1> HIDE DEF n, it
<1>8. {} \in SUBSET (1 .. n)
  OBVIOUS
<1> QED
  BY <1>6, <1>7, <1>8, Zenon DEF n, it, ButtonSteps

\* What the pass has found out after k buttons.
ButtonsSeen(grid, role, base, buttons, k, s) ==
  /\ s \in Seen
  /\ s.pages = base.pages
  /\ s.buttons = base.buttons \cup {buttons[i].id : i \in 1 .. k}
  /\ s.occupied = base.occupied \cup {<<buttons[i].col, buttons[i].row>> : i \in 1 .. k}
  /\ s.ok <=> /\ base.ok
              /\ \A i \in 1 .. k : /\ Fits(grid, role, buttons[i])
                                   /\ buttons[i].id \notin base.buttons
                                   /\ <<buttons[i].col, buttons[i].row>> \notin base.occupied
              /\ \A i, j \in 1 .. k : i # j => Differ(buttons[i], buttons[j])

\* One button more: the heart of the induction over a page.
LEMMA NextButton ==
  ASSUME NEW grid, NEW role, NEW base \in Seen, NEW buttons \in Seq(DeckButton),
         NEW k \in Nat, k < Len(buttons), NEW s,
         ButtonsSeen(grid, role, base, buttons, k, s)
  PROVE  ButtonsSeen(grid, role, base, buttons, k + 1, CheckButton(grid, role, s, buttons[k + 1]))
<1> DEFINE b == buttons[k + 1]
           t == CheckButton(grid, role, s, b)
<1>1. b \in DeckButton
  OBVIOUS
<1>2. s \in Seen
  BY DEF ButtonsSeen
<1>3. /\ t \in Seen
      /\ t.ok <=> /\ s.ok /\ b.id \notin s.buttons /\ <<b.col, b.row>> \notin s.occupied
                  /\ Fits(grid, role, b)
      /\ t.pages = s.pages
      /\ t.buttons = s.buttons \cup {b.id}
      /\ t.occupied = s.occupied \cup {<<b.col, b.row>>}
  <2> HIDE DEF b
  <2>1. t \in Seen /\ t = Checked(grid, role, s, b)
    BY <1>1, <1>2, CheckButtonIs, Zenon
  <2> HIDE DEF t
  <2> QED
    BY <2>1 DEF Checked
<1> HIDE DEF t
<1>4. \A i : i \in 1 .. k + 1 <=> i \in 1 .. k \/ i = k + 1
  OBVIOUS
<1>5. ASSUME NEW i \in 1 .. k PROVE i # k + 1
  OBVIOUS
<1>6. /\ t.buttons = base.buttons \cup {buttons[i].id : i \in 1 .. k + 1}
      /\ t.occupied = base.occupied \cup {<<buttons[i].col, buttons[i].row>> : i \in 1 .. k + 1}
  BY <1>3, <1>4 DEF ButtonsSeen
<1>7. /\ s.ok <=> /\ base.ok
                  /\ \A i \in 1 .. k : /\ Fits(grid, role, buttons[i])
                                       /\ buttons[i].id \notin base.buttons
                                       /\ <<buttons[i].col, buttons[i].row>> \notin base.occupied
                  /\ \A i, j \in 1 .. k : i # j => Differ(buttons[i], buttons[j])
      /\ b.id \notin s.buttons <=> /\ b.id \notin base.buttons
                                   /\ \A i \in 1 .. k : buttons[i].id # b.id
      /\ <<b.col, b.row>> \notin s.occupied
           <=> /\ <<b.col, b.row>> \notin base.occupied
               /\ \A i \in 1 .. k : <<buttons[i].col, buttons[i].row>> # <<b.col, b.row>>
  <2> HIDE DEF b
  <2> QED
    BY Zenon DEF ButtonsSeen
<1>8. t.ok <=> /\ base.ok
               /\ \A i \in 1 .. k + 1 : /\ Fits(grid, role, buttons[i])
                                        /\ buttons[i].id \notin base.buttons
                                        /\ <<buttons[i].col, buttons[i].row>> \notin base.occupied
               /\ \A i, j \in 1 .. k + 1 : i # j => Differ(buttons[i], buttons[j])
  <2>1. /\ b.id \notin s.buttons /\ <<b.col, b.row>> \notin s.occupied
        <=> /\ b.id \notin base.buttons /\ <<b.col, b.row>> \notin base.occupied
            /\ \A i \in 1 .. k : Differ(buttons[i], b) /\ Differ(b, buttons[i])
    <3> HIDE DEF b
    <3> QED
      BY <1>7, Zenon DEF Differ
  <2>2. (\A i, j \in 1 .. k + 1 : i # j => Differ(buttons[i], buttons[j]))
        <=> /\ \A i, j \in 1 .. k : i # j => Differ(buttons[i], buttons[j])
            /\ \A i \in 1 .. k : Differ(buttons[i], b) /\ Differ(b, buttons[i])
    BY <1>4, <1>5, Zenon
  <2>3. (\A i \in 1 .. k + 1 : /\ Fits(grid, role, buttons[i])
                               /\ buttons[i].id \notin base.buttons
                               /\ <<buttons[i].col, buttons[i].row>> \notin base.occupied)
        <=> /\ \A i \in 1 .. k : /\ Fits(grid, role, buttons[i])
                                 /\ buttons[i].id \notin base.buttons
                                 /\ <<buttons[i].col, buttons[i].row>> \notin base.occupied
            /\ Fits(grid, role, b) /\ b.id \notin base.buttons
            /\ <<b.col, b.row>> \notin base.occupied
    BY <1>4, Zenon
  <2> HIDE DEF b
  <2> QED
    BY <1>3, <1>7, <2>1, <2>2, <2>3, Zenon
<1>9. t \in Seen /\ t.pages = base.pages
  BY <1>3, Zenon DEF ButtonsSeen
<1> QED
  BY <1>6, <1>8, <1>9, Zenon DEF ButtonsSeen, t, b

\* What the pass over a page has found out at its last button.
LEMMA PageSeen ==
  ASSUME NEW grid, NEW role, NEW seen \in Seen, NEW page \in DeckPage
  PROVE  ButtonsSeen(grid, role, Opened(seen, page), page.buttons, Len(page.buttons),
                     CheckPage(grid, role, seen, page))
<1> DEFINE buttons == page.buttons
           base == Opened(seen, page)
           n == Len(buttons)
           it == ButtonFold(grid, role, base, buttons)
           K == {k \in 0 .. n : ButtonsSeen(grid, role, base, buttons, k, it[1 .. k])}
<1>1. buttons \in Seq(DeckButton) /\ n \in Nat /\ DOMAIN buttons = 1 .. n /\ page.id \in Nat
  BY DEF DeckPage
<1>2. base \in Seen
  BY <1>1 DEF Seen, Opened
<1> HIDE DEF base, buttons
<1>3. ButtonSteps(it, grid, role, base, buttons)
  BY <1>1, <1>2, ButtonFoldSteps, Zenon
<1> HIDE DEF it
<1>4. /\ it[{}] = base
      /\ \A k \in 0 .. n - 1 : it[1 .. k + 1] = CheckButton(grid, role, it[1 .. k], buttons[k + 1])
  BY <1>3, Zenon DEF ButtonSteps
<1>5. 0 \in K
  <2>1. 1 .. 0 = {} /\ 0 \in 0 .. n
    BY <1>1
  <2>2. ButtonsSeen(grid, role, base, buttons, 0, base)
    BY <1>2 DEF ButtonsSeen
  <2> QED
    BY <1>4, <2>1, <2>2
<1>6. \A k \in 0 .. n : k \in K /\ k < n => k + 1 \in K
  <2> SUFFICES ASSUME NEW k \in 0 .. n, k \in K, k < n PROVE k + 1 \in K
    OBVIOUS
  <2>1. k \in Nat /\ k < Len(buttons) /\ k \in 0 .. n - 1 /\ k + 1 \in 0 .. n
    BY <1>1
  <2>2. ButtonsSeen(grid, role, base, buttons, k, it[1 .. k])
    OBVIOUS
  <2>3. ButtonsSeen(grid, role, base, buttons, k + 1, it[1 .. k + 1])
    <3>1. it[1 .. k + 1] = CheckButton(grid, role, it[1 .. k], buttons[k + 1])
      BY <1>4, <2>1, Zenon
    <3> QED
      BY <1>1, <1>2, <2>1, <2>2, <3>1, NextButton, Zenon
  <2> QED
    BY <2>1, <2>3
<1>7. \A k \in 0 .. n : k \in K
  <2> HIDE DEF K, n
  <2> QED
    BY <1>1, <1>5, <1>6, Climb, Zenon
<1>8. ButtonsSeen(grid, role, base, buttons, n, it[1 .. n])
  <2>1. n \in 0 .. n
    BY <1>1
  <2> QED
    BY <1>7, <2>1, Zenon
<1> QED
  BY <1>1, <1>8, CheckPageFolds DEF base, buttons, it

-----------------------------------------------------------------------------
(* The pass over the pages.                                                *)

\* The function FoldLeft chooses for the pass over the pages.
PageFold(grid, role, base, pages) ==
  CHOOSE it : it = [s \in SUBSET DOMAIN pages |->
                      IF s = {} THEN base
                      ELSE CheckPage(grid, role, it[s \ {Max(s)}], pages[Max(s)])]

\* It starts from base, and each page is checked after those before it.
PageSteps(it, grid, role, base, pages) ==
  /\ it[{}] = base
  /\ \A k \in 0 .. Len(pages) - 1 :
       it[1 .. k + 1] = CheckPage(grid, role, it[1 .. k], pages[k + 1])

\* Accepts asks that function at all the pages.
LEMMA AcceptsFolds ==
  ASSUME NEW profile, NEW role
  PROVE  Accepts(profile, role)
           <=> /\ profile.pages # <<>> /\ profile.grid.cols > 0 /\ profile.grid.rows > 0
               /\ PageFold(profile.grid, role, Unseen, profile.pages)[DOMAIN profile.pages].ok
BY DEF Accepts, PageFold, FoldLeft, MapThenFoldSet

\* The pass goes from the first page to the last, one CheckPage each.
LEMMA PageFoldSteps ==
  ASSUME NEW grid, NEW role, NEW base \in Seen, NEW pages \in Seq(DeckPage)
  PROVE  PageSteps(PageFold(grid, role, base, pages), grid, role, base, pages)
<1> DEFINE n == Len(pages)
           F == [i \in 1 .. n |-> [v \in Seen |-> CheckPage(grid, role, v, pages[i])]]
           Step(g) == [s \in SUBSET DOMAIN pages |->
                          IF s = {} THEN base
                          ELSE CheckPage(grid, role, g[s \ {Max(s)}], pages[Max(s)])]
<1>1. n \in Nat /\ DOMAIN pages = 1 .. n /\ \A i \in 1 .. n : pages[i] \in DeckPage
  OBVIOUS
<1>2. F \in [1 .. n -> [Seen -> Seen]]
  <2>1. \A i \in 1 .. n, v \in Seen : CheckPage(grid, role, v, pages[i]) \in Seen
    BY <1>1, PageSeen, Zenon DEF ButtonsSeen
  <2> HIDE DEF n
  <2> QED
    BY <2>1
<1>3. PICK f \in [SUBSET (1 .. n) -> Seen] : Folding(f, n, base, F)
  <2> HIDE DEF n, F
  <2> QED
    BY <1>1, <1>2, FoldExists, Zenon
<1>4. f = Step(f)
  <2>1. ASSUME NEW s \in SUBSET (1 .. n), s # {}
        PROVE  F[Max(s)][f[s \ {Max(s)}]]
                 = CheckPage(grid, role, f[s \ {Max(s)}], pages[Max(s)])
    <3>1. Max(s) \in 1 .. n
      BY <1>1, <2>1, GreatestIn
    <3>2. f[s \ {Max(s)}] \in Seen
      OBVIOUS
    <3> HIDE DEF n
    <3> QED
      BY <3>1, <3>2
  <2>2. f = [s \in SUBSET (1 .. n) |->
                IF s = {} THEN base ELSE F[Max(s)][f[s \ {Max(s)}]]]
    BY <1>3, Zenon DEF Folding
  <2> HIDE DEF n, F
  <2> QED
    BY <1>1, <2>1, <2>2
<1> DEFINE it == PageFold(grid, role, base, pages)
<1>5. it = Step(it)
  BY <1>4 DEF PageFold
<1>6. \A s \in SUBSET (1 .. n) : it[s] = IF s = {} THEN base
                    ELSE CheckPage(grid, role, it[s \ {Max(s)}], pages[Max(s)])
  <2> HIDE DEF n, it
  <2> QED
    BY <1>1, <1>5
<1>7. ASSUME NEW k \in 0 .. n - 1
      PROVE  it[1 .. k + 1] = CheckPage(grid, role, it[1 .. k], pages[k + 1])
  <2>1. k \in Nat /\ 1 .. k + 1 \in SUBSET (1 .. n)
    BY <1>1
  <2>2. Max(1 .. k + 1) = k + 1 /\ (1 .. k + 1) \ {k + 1} = 1 .. k /\ 1 .. k + 1 # {}
    BY <2>1, Indices, Zenon
  <2> HIDE DEF n, it
  <2> QED
    BY <1>6, <2>1, <2>2, Zenon
<1> HIDE DEF n, it
<1>8. {} \in SUBSET (1 .. n)
  OBVIOUS
<1> QED
  BY <1>6, <1>7, <1>8, Zenon DEF n, it, PageSteps

\* The names of a page's buttons.
IdsOf(page) == {page.buttons[x].id : x \in DOMAIN page.buttons}

\* Two pages that may be in one profile.
Apart(page, other) == page.id # other.id /\ IdsOf(page) \cap IdsOf(other) = {}

\* A page that may be in a profile.
GoodPage(grid, role, page) ==
  /\ \A x \in DOMAIN page.buttons : Fits(grid, role, page.buttons[x])
  /\ \A x, y \in DOMAIN page.buttons : x # y => Differ(page.buttons[x], page.buttons[y])

\* What the pass has found out after k pages.
PagesSeen(grid, role, pages, k, s) ==
  /\ s \in Seen
  /\ s.pages = {pages[i].id : i \in 1 .. k}
  /\ s.buttons = UNION {IdsOf(pages[i]) : i \in 1 .. k}
  /\ s.ok <=> /\ \A i \in 1 .. k : GoodPage(grid, role, pages[i])
              /\ \A i, j \in 1 .. k : i # j => Apart(pages[i], pages[j])

\* The same of one page more: what CheckPage adds to what was seen before it.
LEMMA CheckPageAdds ==
  ASSUME NEW grid, NEW role, NEW seen \in Seen, NEW page \in DeckPage,
         NEW t, t = CheckPage(grid, role, seen, page)
  PROVE  /\ t \in Seen
         /\ t.pages = seen.pages \cup {page.id}
         /\ t.buttons = seen.buttons \cup IdsOf(page)
         /\ t.ok <=> /\ seen.ok /\ page.id \notin seen.pages
                     /\ GoodPage(grid, role, page)
                     /\ IdsOf(page) \cap seen.buttons = {}
<1> DEFINE base == Opened(seen, page)
           buttons == page.buttons
           n == Len(buttons)
<1>1. ButtonsSeen(grid, role, base, buttons, n, t)
  BY PageSeen
<1>2. buttons \in Seq(DeckButton)
  BY DEF DeckPage
<1>3. DOMAIN buttons = 1 .. n
  BY <1>2
<1>4. /\ base.pages = seen.pages \cup {page.id} /\ base.buttons = seen.buttons
      /\ base.ok <=> seen.ok /\ page.id \notin seen.pages
      /\ base.occupied = {}
  BY DEF Opened
<1> HIDE DEF base
<1>5. t \in Seen /\ t.pages = base.pages /\ t.buttons = base.buttons \cup IdsOf(page)
  BY <1>1, <1>3, Zenon DEF ButtonsSeen, IdsOf
<1>6. t.ok <=> /\ base.ok
               /\ \A i \in 1 .. n : /\ Fits(grid, role, buttons[i])
                                    /\ buttons[i].id \notin base.buttons
               /\ \A i, j \in 1 .. n : i # j => Differ(buttons[i], buttons[j])
  BY <1>1, <1>4, Zenon DEF ButtonsSeen
<1>7. (IdsOf(page) \cap base.buttons = {}) <=> \A i \in 1 .. n : buttons[i].id \notin base.buttons
  <2> HIDE DEF n
  <2> QED
    BY <1>3 DEF IdsOf
<1>8. GoodPage(grid, role, page)
        <=> /\ \A i \in 1 .. n : Fits(grid, role, buttons[i])
            /\ \A i, j \in 1 .. n : i # j => Differ(buttons[i], buttons[j])
  BY <1>3, Zenon DEF GoodPage
<1>9. t.ok <=> base.ok /\ GoodPage(grid, role, page) /\ IdsOf(page) \cap base.buttons = {}
  BY <1>6, <1>7, <1>8, Zenon
<1> QED
  BY <1>4, <1>5, <1>9

\* One page more: the heart of the induction over a profile.
LEMMA NextPage ==
  ASSUME NEW grid, NEW role, NEW pages \in Seq(DeckPage),
         NEW k \in Nat, k < Len(pages), NEW s, PagesSeen(grid, role, pages, k, s)
  PROVE  PagesSeen(grid, role, pages, k + 1, CheckPage(grid, role, s, pages[k + 1]))
<1> DEFINE page == pages[k + 1]
           t == CheckPage(grid, role, s, page)
<1>1. page \in DeckPage
  OBVIOUS
<1>2. s \in Seen
  BY DEF PagesSeen
<1>3. /\ t \in Seen
      /\ t.pages = s.pages \cup {page.id}
      /\ t.buttons = s.buttons \cup IdsOf(page)
      /\ t.ok <=> /\ s.ok /\ page.id \notin s.pages
                  /\ GoodPage(grid, role, page)
                  /\ IdsOf(page) \cap s.buttons = {}
  <2> HIDE DEF page
  <2> QED
    BY <1>1, <1>2, CheckPageAdds
<1> HIDE DEF t
<1>4. \A i : i \in 1 .. k + 1 <=> i \in 1 .. k \/ i = k + 1
  OBVIOUS
<1>5. ASSUME NEW i \in 1 .. k PROVE i # k + 1
  OBVIOUS
<1>6. /\ t.pages = {pages[i].id : i \in 1 .. k + 1}
      /\ t.buttons = UNION {IdsOf(pages[i]) : i \in 1 .. k + 1}
  BY <1>3, <1>4 DEF PagesSeen
<1>7. /\ page.id \notin s.pages <=> \A i \in 1 .. k : pages[i].id # page.id
      /\ (IdsOf(page) \cap s.buttons = {})
           <=> \A i \in 1 .. k : IdsOf(page) \cap IdsOf(pages[i]) = {}
      /\ s.ok <=> /\ \A i \in 1 .. k : GoodPage(grid, role, pages[i])
                  /\ \A i, j \in 1 .. k : i # j => Apart(pages[i], pages[j])
  <2> HIDE DEF page
  <2> QED
    BY DEF PagesSeen
<1>8. t.ok <=> /\ \A i \in 1 .. k + 1 : GoodPage(grid, role, pages[i])
               /\ \A i, j \in 1 .. k + 1 : i # j => Apart(pages[i], pages[j])
  <2>1. page.id \notin s.pages /\ IdsOf(page) \cap s.buttons = {}
        <=> \A i \in 1 .. k : Apart(pages[i], page) /\ Apart(page, pages[i])
    <3>1. \A i \in 1 .. k : IdsOf(page) \cap IdsOf(pages[i]) = IdsOf(pages[i]) \cap IdsOf(page)
      OBVIOUS
    <3> HIDE DEF page
    <3> QED
      BY <1>7, <3>1, Zenon DEF Apart
  <2>2. (\A i, j \in 1 .. k + 1 : i # j => Apart(pages[i], pages[j]))
        <=> /\ \A i, j \in 1 .. k : i # j => Apart(pages[i], pages[j])
            /\ \A i \in 1 .. k : Apart(pages[i], page) /\ Apart(page, pages[i])
    BY <1>4, <1>5, Zenon
  <2>3. (\A i \in 1 .. k + 1 : GoodPage(grid, role, pages[i]))
        <=> (\A i \in 1 .. k : GoodPage(grid, role, pages[i])) /\ GoodPage(grid, role, page)
    BY <1>4, Zenon
  <2> HIDE DEF page
  <2> QED
    BY <1>3, <1>7, <2>1, <2>2, <2>3, Zenon
<1> QED
  BY <1>3, <1>6, <1>8, Zenon DEF PagesSeen, t, page

\* validate accepts the profiles whose pages are good and share no name.
LEMMA AcceptsIs ==
  ASSUME NEW profile \in DeckProfile, NEW role
  PROVE  Accepts(profile, role)
           <=> /\ profile.pages # <<>> /\ profile.grid.cols > 0 /\ profile.grid.rows > 0
               /\ \A i \in DOMAIN profile.pages : GoodPage(profile.grid, role, profile.pages[i])
               /\ \A i, j \in DOMAIN profile.pages :
                    i # j => Apart(profile.pages[i], profile.pages[j])
<1> DEFINE pages == profile.pages
           grid == profile.grid
           n == Len(pages)
           it == PageFold(grid, role, Unseen, pages)
           K == {k \in 0 .. n : PagesSeen(grid, role, pages, k, it[1 .. k])}
<1>1. pages \in Seq(DeckPage) /\ n \in Nat /\ DOMAIN pages = 1 .. n
  BY DEF DeckProfile
<1>2. Unseen \in Seen
  BY DEF Unseen, Seen
<1>3. Accepts(profile, role)
        <=> /\ pages # <<>> /\ grid.cols > 0 /\ grid.rows > 0
            /\ it[DOMAIN pages].ok
  BY AcceptsFolds
<1> HIDE DEF pages, grid
<1>4. PageSteps(it, grid, role, Unseen, pages)
  BY <1>1, <1>2, PageFoldSteps, Zenon
<1> HIDE DEF it
<1>5. /\ it[{}] = Unseen
      /\ \A k \in 0 .. n - 1 : it[1 .. k + 1] = CheckPage(grid, role, it[1 .. k], pages[k + 1])
  BY <1>4, Zenon DEF PageSteps
<1>6. 0 \in K
  <2>1. 1 .. 0 = {} /\ 0 \in 0 .. n
    BY <1>1
  <2>2. PagesSeen(grid, role, pages, 0, Unseen)
    BY <1>2, <2>1 DEF PagesSeen, Unseen
  <2> QED
    BY <1>5, <2>1, <2>2
<1>7. \A k \in 0 .. n : k \in K /\ k < n => k + 1 \in K
  <2> SUFFICES ASSUME NEW k \in 0 .. n, k \in K, k < n PROVE k + 1 \in K
    OBVIOUS
  <2>1. k \in Nat /\ k < Len(pages) /\ k \in 0 .. n - 1 /\ k + 1 \in 0 .. n
    BY <1>1
  <2>2. PagesSeen(grid, role, pages, k, it[1 .. k])
    OBVIOUS
  <2>3. PagesSeen(grid, role, pages, k + 1, it[1 .. k + 1])
    <3>1. it[1 .. k + 1] = CheckPage(grid, role, it[1 .. k], pages[k + 1])
      BY <1>5, <2>1, Zenon
    <3> QED
      BY <1>1, <2>1, <2>2, <3>1, NextPage, Zenon
  <2> QED
    BY <2>1, <2>3
<1>8. \A k \in 0 .. n : k \in K
  <2> HIDE DEF K, n
  <2> QED
    BY <1>1, <1>6, <1>7, Climb, Zenon
<1>9. PagesSeen(grid, role, pages, n, it[1 .. n])
  <2>1. n \in 0 .. n
    BY <1>1
  <2> QED
    BY <1>8, <2>1, Zenon
<1> QED
  BY <1>1, <1>3, <1>9, Zenon DEF PagesSeen, pages, grid

\* What an administrator may have stored is what a deck or an administrator
\* may invoke.
LEMMA MayStoreIs ==
  ASSUME NEW op
  PROVE  MayStore("admin", op) <=> op = NoAction \/ op \in DeckOps \cup AdminOps
BY DEF MayStore

\* A place is a page and a button of it.
LEMMA PlacesAre ==
  ASSUME NEW profile, NEW x \in Places(profile)
  PROVE  /\ x = <<x[1], x[2]>>
         /\ x[1] \in DOMAIN profile.pages
         /\ x[2] \in DOMAIN profile.pages[x[1]].buttons
BY DEF Places

\* ... and a page and a button of it are a place.
LEMMA PlaceOf ==
  ASSUME NEW profile, NEW i \in DOMAIN profile.pages, NEW x \in DOMAIN profile.pages[i].buttons
  PROVE  /\ <<i, x>> \in Places(profile)
         /\ ButtonAt(profile, <<i, x>>) = profile.pages[i].buttons[x]
<1>1. <<i, x>> \in {i} \X DOMAIN profile.pages[i].buttons
  OBVIOUS
<1>2. {i} \X DOMAIN profile.pages[i].buttons
        \in {{j} \X DOMAIN profile.pages[j].buttons : j \in DOMAIN profile.pages}
  OBVIOUS
<1> QED
  BY <1>1, <1>2 DEF Places, ButtonAt

\* Columns and rows are numbers.
LEMMA U16Nat == U16 \subseteq Nat
BY SMT DEF U16

\* The shapes of a profile's parts.
LEMMA ProfileShape ==
  ASSUME NEW profile \in DeckProfile
  PROVE  /\ profile.pages \in Seq(DeckPage)
         /\ profile.grid.cols \in Nat /\ profile.grid.rows \in Nat
         /\ \A i \in DOMAIN profile.pages : profile.pages[i].buttons \in Seq(DeckButton)
<1>1. profile.pages \in Seq(DeckPage) /\ profile.grid \in [cols : U16, rows : U16]
  BY DEF DeckProfile
<1>2. \A i \in DOMAIN profile.pages : profile.pages[i] \in DeckPage
  BY <1>1
<1>3. \A p \in DeckPage : p.buttons \in Seq(DeckButton)
  BY DEF DeckPage
<1>4. profile.grid.cols \in U16 /\ profile.grid.rows \in U16
  BY <1>1
<1>5. profile.grid.cols \in Nat /\ profile.grid.rows \in Nat
  BY <1>4, U16Nat, Zenon
<1> QED
  BY <1>1, <1>2, <1>3, <1>5

\* ... a button's too.
LEMMA ButtonShape ==
  ASSUME NEW b \in DeckButton
  PROVE  b.col \in Nat /\ b.row \in Nat
<1>1. b.col \in U16 /\ b.row \in U16
  BY DEF DeckButton
<1> QED
  BY <1>1, U16Nat, Zenon

\* What validate accepts from an administrator is sound: the pass over pages and
\* buttons says as much as the rules that speak of any two of them.
LEMMA AcceptedIsSound ==
  ASSUME NEW profile \in DeckProfile, Accepts(profile, "admin")
  PROVE  Sound(profile)
<1>1. /\ profile.pages \in Seq(DeckPage)
      /\ profile.grid.cols \in Nat /\ profile.grid.rows \in Nat
      /\ \A i \in DOMAIN profile.pages : profile.pages[i].buttons \in Seq(DeckButton)
  BY ProfileShape, Zenon
<1>2. /\ profile.pages # <<>> /\ profile.grid.cols > 0 /\ profile.grid.rows > 0
      /\ \A i \in DOMAIN profile.pages : GoodPage(profile.grid, "admin", profile.pages[i])
      /\ \A i, j \in DOMAIN profile.pages : i # j => Apart(profile.pages[i], profile.pages[j])
  BY AcceptsIs, Zenon
<1>3. Len(profile.pages) > 0 /\ profile.grid.cols * profile.grid.rows > 0
  <2>2. Len(profile.pages) > 0
    BY <1>1, <1>2
  <2>3. \A c, r \in Nat : c > 0 /\ r > 0 => c * r > 0
    OBVIOUS
  <2> QED
    BY <1>1, <1>2, <2>2, <2>3
<1>4. \A i, j \in DOMAIN profile.pages : profile.pages[i].id = profile.pages[j].id => i = j
  BY <1>2, Zenon DEF Apart
<1>5. ASSUME NEW x \in Places(profile), NEW b, b = ButtonAt(profile, x)
      PROVE  /\ b.col \in 0 .. profile.grid.cols - 1 /\ b.row \in 0 .. profile.grid.rows - 1
             /\ {b.on_tap, b.on_long_press} \ {NoAction} \subseteq DeckOps \cup AdminOps
  <2>1. x[1] \in DOMAIN profile.pages /\ x[2] \in DOMAIN profile.pages[x[1]].buttons
    BY PlacesAre, Zenon
  <2>2. Fits(profile.grid, "admin", b)
    BY <1>5, <1>2, <2>1, Zenon DEF GoodPage, ButtonAt
  <2>3. b \in DeckButton
    BY <1>1, <1>5, <2>1 DEF ButtonAt
  <2>4. b.col \in Nat /\ b.row \in Nat
    BY <2>3, ButtonShape
  <2>5. b.col \in 0 .. profile.grid.cols - 1 /\ b.row \in 0 .. profile.grid.rows - 1
    <3>1. b.col < profile.grid.cols /\ b.row < profile.grid.rows
      BY <2>2, Zenon DEF Fits, InGrid
    <3> QED
      BY <1>1, <2>4, <3>1
  <2>6. /\ b.on_tap = NoAction \/ b.on_tap \in DeckOps \cup AdminOps
        /\ b.on_long_press = NoAction \/ b.on_long_press \in DeckOps \cup AdminOps
    BY <2>2, MayStoreIs, Zenon DEF Fits
  <2> QED
    BY <2>5, <2>6, Zenon
<1>6. ASSUME NEW x \in Places(profile), NEW y \in Places(profile), x # y,
             NEW b, b = ButtonAt(profile, x), NEW c, c = ButtonAt(profile, y)
      PROVE  b.id # c.id /\ (x[1] = y[1] => <<b.col, b.row>> # <<c.col, c.row>>)
  <2>1. /\ x[1] \in DOMAIN profile.pages /\ x[2] \in DOMAIN profile.pages[x[1]].buttons
        /\ y[1] \in DOMAIN profile.pages /\ y[2] \in DOMAIN profile.pages[y[1]].buttons
        /\ x = <<x[1], x[2]>> /\ y = <<y[1], y[2]>>
    BY PlacesAre, Zenon
  <2>2. CASE x[1] = y[1]
    <3>1. x[2] # y[2]
      BY <1>6, <2>1, <2>2, Zenon
    <3>2. Differ(b, c)
      BY <1>6, <1>2, <2>1, <2>2, <3>1, Zenon DEF GoodPage, ButtonAt
    <3> QED
      BY <3>2, Zenon DEF Differ
  <2>3. CASE x[1] # y[1]
    <3>1. IdsOf(profile.pages[x[1]]) \cap IdsOf(profile.pages[y[1]]) = {}
      BY <1>2, <2>1, <2>3, Zenon DEF Apart
    <3>2. b.id \in IdsOf(profile.pages[x[1]]) /\ c.id \in IdsOf(profile.pages[y[1]])
      BY <1>6, <2>1, Zenon DEF IdsOf, ButtonAt
    <3> QED
      BY <2>3, <3>1, <3>2, Zenon
  <2> QED
    BY <2>2, <2>3, Zenon
<1> QED
  BY <1>3, <1>4, <1>5, <1>6 DEF Sound

\* What is sound validate accepts: it refuses no layout that keeps the rules.
LEMMA SoundIsAccepted ==
  ASSUME NEW profile \in DeckProfile, Sound(profile)
  PROVE  Accepts(profile, "admin")
<1> DEFINE pages == profile.pages
           grid == profile.grid
<1>1. /\ pages \in Seq(DeckPage) /\ grid.cols \in Nat /\ grid.rows \in Nat
      /\ \A i \in DOMAIN pages : pages[i].buttons \in Seq(DeckButton)
  BY ProfileShape, Zenon
<1>2. Len(pages) > 0 /\ grid.cols * grid.rows > 0
  BY DEF Sound
<1>3. pages # <<>> /\ grid.cols > 0 /\ grid.rows > 0
  <2>1. \A c, r \in Nat : c * r > 0 => c > 0 /\ r > 0
    OBVIOUS
  <2> HIDE DEF pages, grid
  <2>2. pages # <<>>
    BY <1>1, <1>2
  <2> QED
    BY <1>1, <1>2, <2>1, <2>2
<1>4. ASSUME NEW i \in DOMAIN pages, NEW x \in DOMAIN pages[i].buttons,
             NEW b, b = pages[i].buttons[x]
      PROVE  Fits(grid, "admin", b)
  <2>1. <<i, x>> \in Places(profile) /\ ButtonAt(profile, <<i, x>>) = b
    BY <1>4, PlaceOf, Zenon
  <2>2. /\ b.col \in 0 .. grid.cols - 1 /\ b.row \in 0 .. grid.rows - 1
        /\ {b.on_tap, b.on_long_press} \ {NoAction} \subseteq DeckOps \cup AdminOps
    BY <2>1 DEF Sound
  <2>3. b.col < grid.cols /\ b.row < grid.rows
    BY <1>1, <2>2
  <2>4. MayStore("admin", b.on_tap) /\ MayStore("admin", b.on_long_press)
    BY <2>2, MayStoreIs, Zenon
  <2> QED
    BY <2>3, <2>4, Zenon DEF Fits, InGrid
<1>5. ASSUME NEW i \in DOMAIN pages, NEW x \in DOMAIN pages[i].buttons,
             NEW j \in DOMAIN pages, NEW y \in DOMAIN pages[j].buttons,
             <<i, x>> # <<j, y>>,
             NEW b, b = pages[i].buttons[x], NEW c, c = pages[j].buttons[y]
      PROVE  b.id # c.id /\ (i = j => <<b.col, b.row>> # <<c.col, c.row>>)
  <2>1. /\ <<i, x>> \in Places(profile) /\ ButtonAt(profile, <<i, x>>) = b
        /\ <<j, y>> \in Places(profile) /\ ButtonAt(profile, <<j, y>>) = c
    BY <1>5, PlaceOf, Zenon
  <2>2. <<i, x>>[1] = i /\ <<j, y>>[1] = j
    OBVIOUS
  <2> QED
    BY <1>5, <2>1, <2>2 DEF Sound
<1>6. \A i \in DOMAIN pages : GoodPage(grid, "admin", pages[i])
  <2> SUFFICES ASSUME NEW i \in DOMAIN pages PROVE GoodPage(grid, "admin", pages[i])
    OBVIOUS
  <2>1. \A x \in DOMAIN pages[i].buttons : Fits(grid, "admin", pages[i].buttons[x])
    BY <1>4, Zenon
  <2>2. ASSUME NEW x \in DOMAIN pages[i].buttons, NEW y \in DOMAIN pages[i].buttons, x # y
        PROVE  Differ(pages[i].buttons[x], pages[i].buttons[y])
    <3> DEFINE b == pages[i].buttons[x]
               c == pages[i].buttons[y]
    <3>1. <<i, x>> # <<i, y>>
      BY <2>2
    <3> HIDE DEF pages, grid
    <3>2. /\ i \in DOMAIN pages /\ x \in DOMAIN pages[i].buttons
          /\ y \in DOMAIN pages[i].buttons /\ i = i
      BY <2>2, Zenon
    <3>3. b = pages[i].buttons[x] /\ c = pages[i].buttons[y]
      BY Zenon
    <3> HIDE DEF b, c
    <3>4. b.id # c.id /\ <<b.col, b.row>> # <<c.col, c.row>>
      BY <1>5, <3>1, <3>2, <3>3
    <3>5. Differ(b, c)
      BY <3>4, Zenon DEF Differ
    <3> QED
      BY <3>3, <3>5, Zenon
  <2> QED
    BY <2>1, <2>2, Zenon DEF GoodPage
<1>7. \A i, j \in DOMAIN pages : i # j => Apart(pages[i], pages[j])
  <2> SUFFICES ASSUME NEW i \in DOMAIN pages, NEW j \in DOMAIN pages, i # j
               PROVE  Apart(pages[i], pages[j])
    OBVIOUS
  <2>1. pages[i].id # pages[j].id
    BY Zenon DEF Sound
  <2>2. ASSUME NEW x \in DOMAIN pages[i].buttons, NEW y \in DOMAIN pages[j].buttons
        PROVE  pages[i].buttons[x].id # pages[j].buttons[y].id
    <3>1. <<i, x>> # <<j, y>>
      OBVIOUS
    <3> QED
      BY <1>5, <3>1, Zenon
  <2>3. IdsOf(pages[i]) \cap IdsOf(pages[j]) = {}
    BY <2>2, Zenon DEF IdsOf
  <2> QED
    BY <2>1, <2>3, Zenon DEF Apart
<1> QED
  BY <1>3, <1>6, <1>7, AcceptsIs, Zenon

\* The pass of validate over pages and buttons, and the rules of PROTOCOL.md 4.5
\* that speak of any two of them, agree on every layout of any size.
THEOREM ValidateExact ==
  \A profile \in DeckProfile : Accepts(profile, "admin") <=> Sound(profile)
BY AcceptedIsSound, SoundIsAccepted, Zenon

\* The layout of a fresh install is sound, although no one validates it.
LEMMA DefaultIsSound == Sound(DefaultProfile)
<1> DEFINE pages == DefaultProfile.pages
           made(i) == [id |-> i, col |-> (i - 1) % 5, row |-> (i - 1) \div 5,
                       on_tap |-> "input.key_combo", on_long_press |-> NoAction]
<1>1. /\ DOMAIN pages = {1} /\ pages[1].id = 1 /\ Len(pages) = 1
      /\ DOMAIN pages[1].buttons = 1 .. 15
      /\ \A i \in 1 .. 15 : pages[1].buttons[i] = made(i)
      /\ DefaultProfile.grid.cols = 5 /\ DefaultProfile.grid.rows = 3
  BY DEF DefaultProfile
<1>2. ASSUME NEW x \in Places(DefaultProfile)
      PROVE  x[1] = 1 /\ x[2] \in 1 .. 15 /\ x = <<1, x[2]>> /\ ButtonAt(DefaultProfile, x) = made(x[2])
  <2>1. /\ x = <<x[1], x[2]>> /\ x[1] \in DOMAIN pages
        /\ x[2] \in DOMAIN pages[x[1]].buttons
    BY PlacesAre, Zenon
  <2>2. x[1] = 1 /\ x[2] \in 1 .. 15
    BY <1>1, <2>1
  <2> QED
    BY <1>1, <2>1, <2>2 DEF ButtonAt
<1>3. \A i \in 1 .. 15 : (i - 1) % 5 \in 0 .. 4 /\ (i - 1) \div 5 \in 0 .. 2
  OBVIOUS
<1>4. \A i, j \in 1 .. 15 :
         (i - 1) % 5 = (j - 1) % 5 /\ (i - 1) \div 5 = (j - 1) \div 5 => i = j
  OBVIOUS
<1>5. "input.key_combo" \in DeckOps
  BY DEF DeckOps
<1>6. /\ Len(DefaultProfile.pages) > 0
      /\ DefaultProfile.grid.cols * DefaultProfile.grid.rows > 0
  BY <1>1
<1>7. \A i, j \in DOMAIN DefaultProfile.pages :
         DefaultProfile.pages[i].id = DefaultProfile.pages[j].id => i = j
  BY <1>1
<1>8. ASSUME NEW x \in Places(DefaultProfile), NEW e, e = ButtonAt(DefaultProfile, x)
      PROVE  /\ e.col \in 0 .. DefaultProfile.grid.cols - 1
             /\ e.row \in 0 .. DefaultProfile.grid.rows - 1
             /\ {e.on_tap, e.on_long_press} \ {NoAction} \subseteq DeckOps \cup AdminOps
  <2>1. /\ e.col = (x[2] - 1) % 5 /\ e.row = (x[2] - 1) \div 5
        /\ e.on_tap = "input.key_combo" /\ e.on_long_press = NoAction
    BY <1>2, <1>8
  <2>2. e.col \in 0 .. 4 /\ e.row \in 0 .. 2
    BY <1>2, <1>3, <2>1
  <2>3. {e.on_tap, e.on_long_press} \ {NoAction} \subseteq DeckOps \cup AdminOps
    BY <1>5, <2>1, Zenon
  <2>4. DefaultProfile.grid.cols - 1 = 4 /\ DefaultProfile.grid.rows - 1 = 2
    BY <1>1
  <2> QED
    BY <2>2, <2>3, <2>4
<1>9. ASSUME NEW x \in Places(DefaultProfile), NEW y \in Places(DefaultProfile), x # y,
             NEW e, e = ButtonAt(DefaultProfile, x), NEW c, c = ButtonAt(DefaultProfile, y)
      PROVE  e.id # c.id /\ <<e.col, e.row>> # <<c.col, c.row>>
  <2>1. x[2] # y[2] /\ x[2] \in 1 .. 15 /\ y[2] \in 1 .. 15
    BY <1>2, <1>9
  <2>2. /\ e.id = x[2] /\ e.col = (x[2] - 1) % 5 /\ e.row = (x[2] - 1) \div 5
        /\ c.id = y[2] /\ c.col = (y[2] - 1) % 5 /\ c.row = (y[2] - 1) \div 5
    BY <1>2, <1>9
  <2>3. e.col # c.col \/ e.row # c.row
    BY <1>4, <2>1, <2>2
  <2> QED
    BY <2>1, <2>2, <2>3
<1>10. \A x \in Places(DefaultProfile) : LET b == ButtonAt(DefaultProfile, x) IN
          /\ b.col \in 0 .. DefaultProfile.grid.cols - 1
          /\ b.row \in 0 .. DefaultProfile.grid.rows - 1
          /\ {b.on_tap, b.on_long_press} \ {NoAction} \subseteq DeckOps \cup AdminOps
  BY <1>8, Zenon
<1>11. \A x, y \in Places(DefaultProfile) :
          LET b == ButtonAt(DefaultProfile, x) c == ButtonAt(DefaultProfile, y)
          IN  \/ x = y
              \/ b.id # c.id /\ (x[1] = y[1] => <<b.col, b.row>> # <<c.col, c.row>>)
  <2>1. ASSUME NEW x \in Places(DefaultProfile), NEW y \in Places(DefaultProfile), x # y
        PROVE  LET b == ButtonAt(DefaultProfile, x) c == ButtonAt(DefaultProfile, y)
               IN  b.id # c.id /\ <<b.col, b.row>> # <<c.col, c.row>>
    BY <1>9, <2>1
  <2> QED
    BY <2>1, Zenon
<1> HIDE DEF pages, made
<1> QED
  BY <1>6, <1>7, <1>10, <1>11, Zenon DEF Sound

-----------------------------------------------------------------------------
(* Soundness of the store.                                                 *)

\* Every layout of a map is sound.
AllSound(s) == \A p \in DOMAIN s : Sound(s[p])

\* Writing a store of sound layouts keeps the file sound, written or not.
LEMMA PersistSound ==
  ASSUME StoredIsSound, NEW ok \in BOOLEAN, Persist(ok), AllSound(profiles')
  PROVE  StoredIsSound'
<1>1. AllSound(disk.profiles)
  BY Zenon DEF StoredIsSound, AllSound
<1>2. disk'.profiles = profiles' \/ disk' = disk
  BY DEF Persist
<1>3. AllSound(disk'.profiles)
  BY <1>1, <1>2, Zenon
<1> QED
  BY <1>3, Zenon DEF StoredIsSound, AllSound

\* A fresh install holds the default layout, in memory and in the file.
LEMMA InitSound ==
  ASSUME DefaultLayout = DefaultProfile, Init
  PROVE  StoredIsSound
<1>1. \A p \in DOMAIN profiles : Sound(profiles[p])
  BY DefaultIsSound DEF Init
<1>2. disk.profiles = profiles
  BY DEF Init
<1> QED
  BY <1>1, <1>2, Zenon DEF StoredIsSound

\* No operation stores a layout that is not sound.
LEMMA NextSound == TypeOK /\ StoredIsSound /\ [Next]_vars => StoredIsSound'
<1> SUFFICES ASSUME TypeOK, StoredIsSound, [Next]_vars PROVE StoredIsSound'
  OBVIOUS
<1>0. WriteOutcomes \subseteq BOOLEAN /\ Layout \subseteq DeckProfile
  BY ProfileStoreAssumption
<1>1. AllSound(profiles) /\ AllSound(disk.profiles)
  BY Zenon DEF StoredIsSound, AllSound
<1>2. ASSUME NEW p \in Profile, NEW l \in Layout, NEW ok \in WriteOutcomes, Set(p, l, ok)
      PROVE  StoredIsSound'
  <2>1. Sound(l)
    BY <1>0, <1>2, AcceptedIsSound, Zenon DEF Set
  <2>2. /\ DOMAIN profiles' = DOMAIN profiles \cup {p}
        /\ \A q \in DOMAIN profiles' : profiles'[q] = IF q = p THEN l ELSE profiles[q]
    BY <1>2 DEF Set
  <2>3. AllSound(profiles')
    BY <1>1, <2>1, <2>2, Zenon DEF AllSound
  <2> QED
    BY <1>0, <1>2, <2>3, PersistSound, Zenon DEF Set
<1>3. ASSUME NEW p \in Profile, NEW ok \in WriteOutcomes, Delete(p, ok) PROVE StoredIsSound'
  <2>1. /\ DOMAIN profiles' = DOMAIN profiles \ {p}
        /\ \A q \in DOMAIN profiles' : profiles'[q] = profiles[q]
    BY <1>3 DEF Delete
  <2>2. AllSound(profiles')
    BY <1>1, <2>1, Zenon DEF AllSound
  <2> QED
    BY <1>0, <1>3, <2>2, PersistSound, Zenon DEF Delete
<1>4. ASSUME NEW p \in Profile, NEW ok \in WriteOutcomes, Activate(p, ok) PROVE StoredIsSound'
  <2>1. profiles' = profiles
    BY <1>4 DEF Activate
  <2>2. AllSound(profiles')
    BY <1>1, <2>1, Zenon
  <2> QED
    BY <1>0, <1>4, <2>2, PersistSound, Zenon DEF Activate
<1>5. CASE Restart
  BY <1>1, <1>5, Zenon DEF Restart, StoredIsSound, AllSound
<1>6. CASE UNCHANGED vars
  BY <1>6 DEF vars, StoredIsSound
<1> QED
  BY <1>2, <1>3, <1>4, <1>5, <1>6 DEF Next

\* No request puts an unsound layout in the store or in its file, whatever fails
\* and restarts, for layouts of any shape and size: Store::set behind validate,
\* from the default layout of store.rs on.
THEOREM SoundCorrect ==
  ASSUME DefaultLayout = DefaultProfile
  PROVE  Spec => []StoredIsSound
<1>1. Init => StoredIsSound
  BY InitSound
<1>2. StoreInv => TypeOK
  BY DEF StoreInv
<1> QED
  BY InitStoreInv, NextStoreInv, NextSound, <1>1, <1>2, PTL DEF Spec

=============================================================================
