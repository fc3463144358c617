---------------------------- MODULE ProfileStore ----------------------------
(***************************************************************************)
(* The profile store (store.rs): the deck layouts, which one is active,    *)
(* and profiles.json.  Every operation runs under the store mutex and ends *)
(* with a write of the whole file, which may fail: the change in memory    *)
(* stays, and the caller is told of an error.  A refused operation - a     *)
(* layout that does not validate, an unknown profile, the last profile     *)
(* deleted - changes nothing.                                              *)
(***************************************************************************)
EXTENDS LayoutRules

CONSTANTS Profile,        \* Profile identifiers, ordered as strings are.
          Default,        \* DEFAULT_PROFILE_ID.
          Layout,         \* What a request may carry, sound or not.
          DefaultLayout,  \* default_profile().
          WriteOutcomes   \* What a write may do: BOOLEAN, or {TRUE}.

ASSUME ProfileStoreAssumption ==
  /\ Profile \subseteq Nat
  /\ Default \in Profile
  /\ Layout \subseteq DeckProfile
  /\ DefaultLayout \in Layout
  /\ WriteOutcomes \subseteq BOOLEAN

VARIABLES
  profiles,   \* StoreFile::profiles: a function on the profiles there are.
  active,     \* StoreFile::active.
  disk,       \* The contents of profiles.json.
  ahead       \* History: the last write failed, memory is ahead of the disk.

vars == <<profiles, active, disk, ahead>>

Shelf == UNION {[S -> Layout] : S \in SUBSET Profile}
StoreFile == [profiles : Shelf, active : Profile]

TypeOK ==
  /\ profiles \in Shelf
  /\ active \in Profile
  /\ disk \in StoreFile
  /\ ahead \in BOOLEAN

\* Store::persist.
Persist(ok) ==
  /\ disk' = IF ok THEN [profiles |-> profiles', active |-> active'] ELSE disk
  /\ ahead' = ~ok

\* StoreFile::default, written at once by the first Store::load.
Init ==
  /\ profiles = [p \in {Default} |-> DefaultLayout]
  /\ active = Default
  /\ disk = [profiles |-> profiles, active |-> active]
  /\ ahead = FALSE

\* Store::set, which only administrators may call: validate, then the map.
Set(p, l, ok) ==
  /\ Accepts(l, "admin")
  /\ profiles' = [q \in DOMAIN profiles \cup {p} |-> IF q = p THEN l ELSE profiles[q]]
  /\ UNCHANGED active
  /\ Persist(ok)

\* Mutant of Delete: the active pointer is left where it was.
Delete_Dangling(p, ok) ==
  /\ p \in DOMAIN profiles
  /\ DOMAIN profiles # {p}
  /\ profiles' = [q \in DOMAIN profiles \ {p} |-> profiles[q]]
  /\ UNCHANGED active
  /\ Persist(ok)

\* Mutant of Delete: deleting the active profile leaves none active.
Delete_NoneActive(p, ok) ==
  /\ p \in DOMAIN profiles
  /\ DOMAIN profiles # {p}
  /\ profiles' = [q \in DOMAIN profiles \ {p} |-> profiles[q]]
  /\ active' = IF active = p THEN 0 ELSE active
  /\ Persist(ok)

\* Store::delete: never the only profile; the active pointer moves to the
\* first profile left.
Delete(p, ok) ==
  /\ p \in DOMAIN profiles
  /\ DOMAIN profiles # {p}
  /\ profiles' = [q \in DOMAIN profiles \ {p} |-> profiles[q]]
  /\ active' = IF active = p
               THEN CHOOSE q \in DOMAIN profiles' : \A r \in DOMAIN profiles' : q <= r
               ELSE active
  /\ Persist(ok)

\* Store::activate.
Activate(p, ok) ==
  /\ p \in DOMAIN profiles
  /\ active' = p
  /\ UNCHANGED profiles
  /\ Persist(ok)

\* Store::active, with its fallback to the first profile.
Active ==
  IF active \in DOMAIN profiles THEN active
  ELSE CHOOSE q \in DOMAIN profiles : \A r \in DOMAIN profiles : q <= r

\* Store::load after a restart of the daemon: the file is there.
Restart ==
  /\ profiles' = disk.profiles
  /\ active' = disk.active
  /\ ahead' = FALSE
  /\ UNCHANGED disk

Next ==
  \/ \E p \in Profile, ok \in WriteOutcomes :
       \/ \E l \in Layout : Set(p, l, ok)
       \/ Delete(p, ok)
       \/ Activate(p, ok)
  \/ Restart

Spec == Init /\ [][Next]_vars

-----------------------------------------------------------------------------
\* There is always a layout to show, and the active pointer names it: in memory
\* and in the file, whatever is set, deleted, activated, not written or reloaded.
ActiveIsReal ==
  /\ active \in DOMAIN profiles
  /\ disk.active \in DOMAIN disk.profiles

\* Every layout that is stored, in memory or in the file, is sound by the rules
\* of docs/PROTOCOL.md 4.5: no request, however it is formed, puts two buttons
\* in one place or under one name, or an action in one that its author may not
\* invoke.  Of Store::set and default_profile.
StoredIsSound ==
  \A s \in {profiles, disk.profiles} : \A p \in DOMAIN s : Sound(s[p])

\* Unless the last write failed, a restart would change nothing: every operation
\* that was answered without an error is in the file.
AnsweredIsSaved ==
  ~ahead => disk = [profiles |-> profiles, active |-> active]

=============================================================================
