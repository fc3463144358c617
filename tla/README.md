# MuxDeck in TLA+

MuxDeck turns a phone or tablet into a macro deck for a desktop.  A daemon on
the desktop (`engine/`, Rust) owns everything: a TLS WebSocket server, the
registry of paired devices, the store of deck layouts, and the injection of
input.  Its clients are *decks* (`apps/client`, Flutter), which pair once by a
code and then authenticate with a key, and the *panel* (`apps/server`,
Flutter), which connects over loopback with a token and administers it.  The
two Flutter applications share `packages/muxdeck_protocol`.

This directory models the parts of it in which something can go wrong that a
unit test would hardly reach, checks the models with TLC, and proves the most
important facts with TLAPS.  Paths below are relative to `src/`; `PROJECT.json`
maps every definition to the lines it models.

1. [Inventory](#1-inventory)
2. [Modules](#2-modules)
3. [Runs](#3-runs)
4. [Bounds and fairness](#4-bounds-and-fairness)
5. [Proofs](#5-proofs)
6. [What was seen while modelling](#6-what-was-seen-while-modelling)
7. [Not modelled, and the plan](#7-not-modelled-and-the-plan)

## 1. Inventory

### How the parts interact

A client opens a socket; `connection()` in `server.rs` gives it a `Session` and
a receiver on the event bus and then loops over `select!`: a frame from the
client, or an event from the bus.  A frame is parsed, authorised against the
session's state and role (`dispatch.rs`), routed to a handler and answered on
the same socket, so that each socket has one handler at a time.  Handlers of
different sockets run in parallel on a multi-threaded runtime.  They share the
`Engine`: the registry, the connected set, the pairing window, the profile and
action stores and the settings, **each under a mutex of its own** that a handler
takes and gives back several times.  A handler that has changed something
publishes an event *after* it has released the mutex.  Input is injected on
blocking threads.  The stores write through to JSON files.

### Components

| Component | State | Operations | What is hard | What makes it correct |
|---|---|---|---|---|
| Device registry (`registry.rs`, `config.rs`) | the devices, `devices.json` | load, insert, revoke, touch | a write that fails after memory has changed; restarts | an answered pairing survives; nothing but pairing adds a device |
| Sessions (`session.rs`, `server.rs`, `dispatch.rs`) | each socket's state, role, challenge; the connected set | open, hello, auth, list, revoke, ping, end | handlers of several sockets interleave between mutexes; deadlines; several sockets of one device | a session rests on its own, fresh challenge; the connected set follows the sockets; unauthenticated sockets are closed |
| Pairing (`pairing.rs`, `server.rs`) | the window, its code and expiry | begin, request, cancel, expire | read, check, insert and close under different mutexes | one device per window; a spent window stays closed |
| Event bus (`server.rs`) | a bounded broadcast ring, a receiver and subscriptions per socket | publish, receive, lag, subscribe | a slow socket; audiences decided at receipt | order, no duplicate, no event to whom it is not for, nothing recent lost |
| Profile store and its rules (`store.rs`, `profile.rs`) | profiles, the active one, `profiles.json` | set (validate, check_action), delete, activate, load | failing writes, deleting the active profile; one pass that must see what two buttons share | the active profile exists in memory and on disk; no layout that breaks a rule is stored |
| Live layout (`server.rs`, `profile_controller.dart`, `editor_controller.dart`) | what each viewer shows | get, subscribe, push, edit | changes between get and subscribe; events out of order; lag; loads that overlap; a load of a profile that is no longer the active one | the deck shows the last change; it ends up showing what is stored, and the profile that is active |
| Input (`input_dispatch.rs`, `muxdeck-input`) | requests under way, what is down on the desktop | key_combo, key_sequence, text, media, mouse | partial injection, failing steps, two sockets at once, the daemon's death | nothing stays latched; "ok" means injected; a refused request leaves nothing |
| Deck session (`session_controller.dart`, `protocol_client.dart`, `lan_transport.dart`) | state, timers, transport, client | connect, reconnectNow, disconnect, ping, retry | asynchronous calls overlap and share fields; timeouts against late answers | a wanted connection is never given up silently; a dead one is noticed; no retry after an exit |
| Host identity (`identity.rs`, `secret_file.rs`) | the key, the certificate, its private key, the admin token: four files and their temporaries | load, generate, reset | a crash between two files; a daemon, a command and a reset at the same files | the files are of one generation; a paired deck finds its host again |
| Auto-start (`service.rs`) | a task, a plist or a unit; the platform's word on it | install, uninstall, status | a series of files and platform tools, some of whose failures are ignored, some of which stop the very daemon that runs them | what was answered is what happens at the next logon |
| Settings (`engine.rs`, `config.rs`) | the settings in memory and in `settings.json` | settings.set with all its effects | overlapping patches; a failure half way; the daemon's death in between | an absent key is left alone; an error changes nothing |
| mDNS (`discovery.rs`, `engine.rs`) | a slot with the advertisement | advertise, readvertise, stop | startup and requests exchange advertisements outside the lock | none is forgotten on the network; the name is the host's |
| Shell actions, telemetry (`actions.rs`, `telemetry.rs`) | actions; the sampler's clock | set, delete, run; tick | the switch is read in one place and used in another | nothing runs that was sent after "off" was answered |
| Panel (`admin_session.dart`, controllers) | the panel's view | connect, start the daemon, listen, save | fetch-then-listen gaps, a daemon that dies | the panel shows what is the case |
| Deck pairing (`pairing_controller.dart`, `host_store.dart`, `device_identity.dart`) | the key, the hosts | pair, save | an answer that is lost, two first loads | both sides agree on who is paired |
| Wire types, signing, icons, key tables, user interface | none, or data | | encodings | compared by the repository's fixtures |

The hazards of this code, each at its line and with the properties that watch
it, are listed in `PROJECT.json` under `hazards`.

## 2. Modules

```
Registry <--EXTENDS-- Sessions            OrderedFeed <--refined by-- EventBus
    ^                                                                   ^
    +-------EXTENDS-- Pairing                                           |
                                                                        |
LayoutRules <--EXTENDS-- ProfileStore <--INSTANCE-- LiveLayout --EXTENDS+
AutoStart   <--EXTENDS-- Settings

DeckSession      InputInjection      Identity

<M>Proofs EXTENDS <M>, TLAPS         MC<M> EXTENDS <M>
(LiveLayoutProofs is about EventBus as well)
```

**Registry** - the device registry and its file.  Every operation runs under
the registry's mutex and is one step: memory first, then `Persist`, which
installs the new file or, failing, leaves the old (`write_atomic` renames).
Names and timestamps are left out.

**Sessions** - `state[s]`, `dev[s]`, `nonce[s]` are the `State` enum of
`session.rs`; `pc[s]` names the critical section in which the handler of socket
`s` goes on.  `session.auth` is `Auth`, `MarkConnected`, `TouchDevice`, then
`CloneConnected`, `ListDevices` and `Publish`: the two locks of `list_devices`
and the publication of `device.changed`.  `pair.revoke` and the end of
`connection()` share those sections.  A signature is the challenge it answers;
`Verifies` compares what `verify_strict` compares.  A refused frame changes
nothing and is a stuttering step.  History variables (`issued`, `answered`,
`openedAt`) remember which challenge made which session ready.

**Pairing** - one step per lock of `pair.request` (`Request`, `Enrol`,
`ClosePairing`, `AnnounceClosed`, `Reply`), of `pair.begin` and of
`pair.cancel`, with expiry, failing writes, revocations and restarts in between.
A window is its code.

**EventBus**, **OrderedFeed** - `log` is everything ever published; the tokio
ring is its last `Capacity` entries; `next[s]` is a receiver.  `OrderedFeed` is
the promise to a client - events in order, none twice, perhaps with gaps - and
`FeedIsOrdered` says that the bus implements it.

**LayoutRules** - `validate` and `check_action` as the code has them: one pass
over pages and buttons (`FoldLeft`) that collects the identifiers and positions
it has met, and the first error ends it.  `Sound` says the same rules
(docs/PROTOCOL.md 4.5) of any two buttons, without a pass.  Names, icons and
colours are left out.

**ProfileStore** - the store's operations, each with its validation and its
write, which may fail; `ahead` remembers that it did.  `StoredIsSound` ties it to
`Sound`.

**LiveLayout** - extends the bus and instantiates the store, and composes them
with the `profile.*` handlers (change under the mutex, publish afterwards), one
viewer's socket, and the viewer's controller: fetch, subscribe, listen, and once
more whenever its session's state is set, which on a deck every answered ping
does, **whether or not an earlier load has finished** (`build()` does not await
`_load`).  `up` holds the requests that have not been answered, in the order they
were sent; a load that has no request in `up` has its answer in `down`, and `Loads`
counts them.  `bodies` holds the payloads of the events in the bus's `log`; `down`
is what the viewer's socket has sent, answers and events in one order, as the
engine's loop writes them.  `target` is the profile the handshake named, which is
what every load asks for.  The history variable `fetched` remembers whether a
`profile.get` has been answered since the socket last passed a change on.  Until
then the screen, at rest, must show that change; from then on, what was fetched.

**DeckSession** - the controller's fields, and a set of *flows*: the
asynchronous calls under way, each suspended at an `await`.  What needs nothing
but the event loop (`Microtask`) runs before anything from outside; the order of
two microtasks is left open.  `_teardown` reads `_client` and `_transport` when
it gets there, not when it was called, and that is how calls come to act on each
other's connections.

**InputInjection** - `job[s]` is the request of socket `s` and how far it has
come: step, batch within the step (press, release), events of the batch the OS
has been given.  Windows and Linux hand over a batch in one call, macOS one event
at a time; the OS may take the first `n`.  `seen[s]` is every event the desktop was
given for that request - presses, releases and movements - with its place in the
request and the modifiers it came with; `down` is what the desktop holds, `stuck`
what the code could not release.  `Failed` is what a refusal by the OS does to the
answer, of a press and of a release alike.  Which platform, and whether permission
was granted, is chosen at the start.  Key codes, pointer coordinates, scrolling,
the chunks of a long text and payloads that do not parse are left out.

**Identity** - any number of processes of the one binary, each started as a
daemon, as a command or as a reset.  `pc[p]`, `at[p]` say where a process is and
at which of the files: `Check`, `Read`, then either on to `LoadRegistry`, `Bind`
and `Serve`, or through `WriteTmp`, `FillTmp`, `Install` for each secret and
`CreateCert`, `FillCert` for the certificate, which is written in place and last.
A file holds the number of the generation that wrote it, or is `Missing` or
`Torn`.  `Stop` ends a process anywhere.  `Pair` and `Revoke` are what an
identity is kept for: `promised` remembers which pin a deck was given.
`overlapped` remembers that two processes were at the files at once, which
nothing in the code prevents; `cut` that a reset has taken the key from under a
certificate.

**AutoStart** - `install` and `uninstall` on the three platforms, one action per
file or tool, each with the outcomes the code distinguishes: `Create`, `Delete`
(Windows); `Unload`, `WriteUnit`, `Load`, `Disable`, `RemoveUnit` (macOS);
`WriteUnit`, `Reload`, `Enable`, `WriteRule`, `Disable`, `RemoveUnit` (Linux).
`svc[c]` is where caller `c` is: a `settings.set` handler, or `muxdeckd service`.
`StartsAtLogon` is what the platform will find.  Tools that stop the daemon take
the handler that called them along.

**Settings** - `apply_settings` step by step, `step[t]` for each handler and for
the daemon's main thread: `Receive` copies the settings under the lock and makes
the next record; then the service (of AutoStart), `WriteTmp`, `Rename`,
`SetMemory`, and, if the name changed, `Take`, `Withdraw`, `StartAd`, `Replace`
and `Withdraw` again, which the startup goes through too; `Respond`.  `Launch`,
`Die` and the platform start and stop the daemon.  `RunAction` asks the settings,
`Spawn` comes later.  Of the settings the three keys with an effect are kept;
`settings.tmp` is written in one step.

A definition called `X_Y` is a plausible slip in `X` - a dropped guard, an
off-by-one, a missing reset.  Putting it in place of `X` makes TLC refute the
property it is listed with in `PROJECT.json`: so each property can be seen to
depend on the code.

## 3. Runs

| Run | What it asks |
|---|---|
| `MCSessions` | Two sockets of one device, one of them on loopback, failing writes and restarts.  `FreshChallenge`, `ChallengeUsedOnce`: no session is ready on an old challenge or on another's.  `ConnectedIsLive`: whatever interleaves, nobody stays connected without a socket.  `OnlyPairingAdds`: a late touch or a reload never brings a revoked device back.  `AuthDeadline`, `GoneIsNoticed`: the deadline bites, a dead socket is noticed. |
| `MCPairing` | Two requesters and a panel.  `StoredSurvives`: an answered pairing outlives other devices' failing writes and restarts.  `SpentStaysClosed`: nobody pairs by a code that has been answered. |
| `MCPairingOne` | Violated: two requests that overlap pair two devices in one window. |
| `MCEventBus` | A ring of two, four events: `AudienceRespected`, `RecentNotLost`, the refinement `FeedIsOrdered`, and `Drains`. |
| `MCProfileStore` | Three profiles, three sound layouts and eleven requests that break one rule each, failing writes and restarts: `ActiveIsReal`, and `StoredIsSound`: what the pass accepts is sound. |
| `MCLiveLayout` | Two handlers that edit, activate and delete, and a deck with up to two loads under way at once.  `DeckShowsLast`: once no handler runs and nothing is on its way, a deck that was subscribed when the last change was published shows exactly that change - or, if a `profile.get` was answered after it, what the store holds of the profile its handshake named.  That this is the active profile it does not say: see the next run.  `DeckCatchesUp`: with the profile its handshake named staying active, the deck ends up showing what is stored, although single events come late, out of order, or never. |
| `MCLiveLayoutSwitch` | Violated, with one handler and no failure: a subscribed deck is pushed a switch of the active profile and shows it, its next answered ping loads the profile of the handshake again, and at rest it is back on the profile that is no longer active (`DeckShowsActive`). |
| `MCDeckSession` | Two overlapping calls, two connections: `RetryOnlyWhenWanted`, `NotStuck`, `DeadIsNoticed`. |
| `MCInputInjection` | Two sockets on each of the four platforms: `NothingLatched`, `ModifiersNotLost`, `RefusedLeavesNothing`, `Answered`, and `OkMeansInjected`: every event of every step of a request answered "ok" was taken, a release after a good press and a movement too.  It may stop when the requests of the model are used up, and does not check for deadlock. |
| `MCIdentity` | Two processes, each a daemon, a command or a reset, that may die at any step.  `CertificateCommits`: a certificate on disk has its key, its private key and its token beside it, of its own generation.  `OneIdentity`: whoever has loaded since the last reset holds the same identity.  `PairedStaysPaired`: a deck whose pairing was answered finds the host it pinned in every later daemon. |
| `MCSettings` | Two `settings.set` handlers, the command line, the daemon's startup and a deck that runs actions, on each platform, with tools and writes that fail and a daemon that dies.  `AnsweredTakesEffect`: an install or uninstall that ended well has decided what happens at the next logon.  `AnsweredSettingsKept`: one request after the other, the settings answered last are those in memory and on disk.  `OffIsOff`: nothing runs that was sent after "off" was answered.  `NoOrphanAdvert`: no advertisement is forgotten on the network. |
| `MCSettingsAbsent` | Violated: of two requests that overlap, one that does not name `shell_actions_enabled` switches on what the other has switched off. |

Four further configurations are kept beside these, each of which TLC refutes at
once.  They state what the code does *not* do, and are read with section 6:

| Configuration | Property | What happens |
|---|---|---|
| `MCSessionsRevoke` | `RevokeClosesSockets` | `pair.revoke` leaves the device's sockets open, against docs/PROTOCOL.md:347: "Revoking closes any live socket for that device immediately" |
| `MCDeckSessionClient` | `ReadyHasClient` | two attempts that overlap leave a ready session without a client |
| `MCInputHold` | `HoldsEntireCombo` | a combo that is held loses a modifier to the combo of another socket |
| `MCIdentityAll` | `AllOrNothing` | a crash while the certificate is written leaves a torn one |

## 4. Bounds and fairness

*Bounds.*  Two actors of each kind are what the interleavings need: every hazard
above is between two handlers, two calls or two sockets.  Two challenges give
one that is stale; a ring of two and four events give a lag of one and of two;
two windows give one that replaces another; three missed pings are the code's
own limit, and two pings in flight are what a ten-second timeout over five-second
ticks allows.  A counter that only grows (`MaxNonce`, `MaxWindow`, `MaxEvents`,
`MaxRequests`, `MaxKills`) is bounded by a guard; the proofs hold for every
value of these.  `MCLiveLayout` has two loads at once (`MaxLoads`), so that the answer
to one crosses the request of the other, two handlers that edit, activate and
delete two profiles, and a ring of one with two events, so that one change is lost
to a lag; a ring of two with three events gives 931,436 states and no other result.
`MCInputInjection` sends the shapes of request that differ for
the code - a combo with one, two or no plain key, a key a platform lacks, a
sequence with a malformed last step, one that is too long, an empty one, a paced
text, a command a platform lacks, every mouse action - with the limits scaled
down to three milliseconds and one character.  `MCProfileStore` has a request for
each rule of `validate`, and the layouts that come closest to breaking one.
`MCIdentity` has two generations and one reset: one identity that is replaced, by
a reset or because a crash left it incomplete.  `MCSettings` has three requests
(`MaxSets`): two that overlap and one that finds what they left; and room for
three advertisements (`MaxAds`), the startup's and one for each handler.  Where
symmetry is used (`MCPairing`, `MCPairingOne`, `MCDeckSessionClient`,
`MCIdentity`, `MCSettings`) only invariants are checked.

*What the invariants exclude, and why.*  Some hold only while nobody else is at
the same files, because the code does not promise more:

* In Identity, `overlapped` becomes true when a process starts while another is
  at the files, or a second daemon while one is up.  Two that generate at once
  mix their generations; a second daemon has read the registry before it finds
  the port taken, and a daemon that is up rewrites `devices.json` after a reset.
  Nothing in the code locks the files; the documentation does not say that two
  may run.
* In Identity, `cut` is true from the removal of the key by a reset until a
  certificate is written or removed: a reset that dies there, followed by a
  generation that dies too, leaves the old certificate beside new secrets.
* In Settings, `overlapped` becomes true when a request starts while another, or
  the startup, is under way: then one undoes the other (`MCSettingsAbsent`).
  `NoOrphanAdvert` needs no such exclusion for what is on the network, only for
  its name.
* In AutoStart a promise is void when another call began before it ended
  (`mixed`) or since (`word`).

*Assumptions on the platforms.*  A failing `schtasks /Query` means that there is
no such task, and `launchctl load` and `systemctl enable` tell the truth by their
exit status: the code relies on both.  A rename is atomic.

*Fairness.*  `Sessions`: a handler that has started awaits nothing, so it runs
to its end (WF); the authentication deadline bites on a read that finds no frame
(`timeout_at` polls the socket first), so a socket that keeps coming back to such
a read is closed (SF).  `EventBus`: `select!` polls its branches in random order,
so that an event that stays readable is read (WF); nobody is obliged to publish.
`LiveLayout`: handlers finish, the socket is served, the deck reconnects and
pings (WF); nobody has to edit.  `DeckSession`: microtasks run, a running ping
timer fires, requests and dials end or time out (WF); the user does nothing in
particular and the network may be silent for ever.  `InputInjection`: the runtime
drives every task that can run, and calls to the OS return (WF).

## 5. Proofs

Each proof module holds for every value of the constants that satisfies the
named assumptions of the module it extends (identifiers are distinct from the
null values, limits are naturals, a ring has a slot, the default profile exists).

* **SessionsProofs** - `TypeCorrect`, `ConnectedCorrect`, `FreshCorrect`,
  `UsedOnceCorrect`, `PairingOnly`.  `ConnectedIsLive` is not inductive: a
  handler at "mark" is about to add a device, and one at "unmark" is to take one
  away.  `LiveInv` adds that those handlers act for the session of their own
  socket.  `AuthInv` adds that challenges are distinct and older than the next
  one, and that the challenge a socket waits on was issued on this connection;
  freshness follows for the step that makes it ready, and uniqueness from
  distinctness.
* **PairingProofs** - `TypeCorrect`, `SpentCorrect`, `StoredCorrect`,
  `OneDeviceCorrect`.  `WindowInv` carries the argument that windows are numbered
  upwards, so that a handler that has found its own window closed will not see it
  open again.  `Unspoilt` says of a single requester whose writes succeed that a
  window that has made a device is closed, or its handler at the step that closes
  it; so a device is only ever made in a window that has made none.
* **ProfileStoreProofs** - `TypeCorrect`, `ActiveCorrect`, `SavedCorrect`,
  `ValidateExact`, `SoundCorrect`.  The choice of the first profile left is well
  defined because the identifiers are well ordered.  `ValidateExact`: the one pass
  of `validate` accepts exactly the layouts that are `Sound`, for layouts of any
  size.  The pass is a fold, whose value exists by an induction over finite sets
  of indices; what it has refused and the identifiers it has seen are then exact
  after every button, row by row and page by page.  `SoundCorrect` takes this to
  the store, from the assumption that a layout has the types of `profile.rs` and
  the hypothesis that the default layout is that of `default_profile()`, which
  the run's configuration gives it.
* **LiveLayoutProofs**, of the bus - `TypeCorrect`, `AudienceCorrect`,
  `RecentCorrect`, and `Refinement`: the bus implements `OrderedFeed`.  `BusInv`
  says that a receiver is ahead of everything it has passed on; so whatever it
  passes on next is later.
* **LiveLayoutProofs**, of the loop - `LiveTypeCorrect`, `ShowsLastCorrect`,
  `ShowsStoredOneHandler`, `ShownValidated`, `PartsKept`, for any number of
  handlers, any profiles and layouts, and a ring of any size.  `DeckShowsLast`
  speaks of states at rest and is not inductive.  `LiveInv` has the store's, the
  bus's and the handlers' invariants and `Attached`: the engine sends a viewer
  changes exactly when it listens or when the answer that makes it listen is on its
  way (`Answered`), and that answer comes before the first change (`Heard`), so
  that no change is read by nobody.  `Rest` says of a viewer whose socket has
  passed on everything that *the last frame with a layout in it* - or the screen,
  if no such frame is under way - holds `Latest` (`Final`): the last change, or, once
  `fetched`, what the store holds of the profile asked for.  An answer to a fetch is
  current when it is sent, the last event is sent last, and what is sent last is
  read last, by whichever load.  The lemmas
  on `Append` and `Tail` carry `Answered`, `Heard` and `Final` from one frame to
  the next.  `ShownValidated`: no layout gets to a screen that the engine has not
  validated; with `ValidateExact` it is `Sound` (the two are about different
  instances of LayoutRules, and the prover cannot compare folds over LAMBDAs, so
  that this last step is not a theorem).  `PartsKept`: the loop's steps are steps
  of the bus and of the store, so that what is proved of the parts holds in the
  whole.
* **DeckSessionProofs** - `RetryWanted`: however many calls overlap, no retry is
  armed once the user has left.  `TypeCorrect`, `NotStuckCorrect`,
  `ClosingCorrect`, for any number of calls and connections.  `NotStuck` is not
  inductive: a `leave` that was overtaken by a new `connect` may still have the
  last word.  `CallInv` says who may be where: one connection at most is being
  closed, and it is the one the field still names (`OneClosing`); while the field
  is about to change it names nothing that would have to be closed (`GoingFirst`);
  and while a call that leaves is under way and a connection is wanted again, the
  call that follows it is under way and not ahead of it (`ExitFollowed`).
  `ClientCorrect`: with one call at a time a ready session has its client.
* **IdentityProofs** - `TypeCorrect`, `CommitCorrect`, `OneIdentityCorrect`,
  `PairedCorrect`, for any number of processes, generations and resets.  `IInv`
  says, for as long as nobody overlaps: one process at most is at the files
  (`Alone`); where it is at them is where they are - what a generation has
  written, a load has read, a reset has removed (`Local`); and whoever has loaded
  since the last reset holds what is in them (`Holding`, `Promising`).  A
  generation starts only where a file is missing, so that nobody holds what it
  replaces (`Nobody`): that is why a second identity breaks no promise.
* **SettingsProofs** - `TypeCorrect`, `TakesEffectCorrect`, `KeptCorrect`,
  `OffCorrect`, `NoOrphanCorrect`, `AbsentCorrect`, for any number of handlers and
  decks, any names and any patches.  `SettingsInv` has three parts that do not depend on each
  other.  `Registering`: a call that nobody gets in the way of is the only one,
  and what it promises is so when it promises it.  `Holding`: whoever takes an
  advertisement out of the slot, or puts one on the network, has it in its hands
  until it is withdrawn or in the slot.  `InOrder`: while requests come one at a
  time, how far the one has come says what is on disk and in memory.
  `AbsentCorrect` needs an invariant of its own (`Sole`): the startup runs beside
  the one handler, and `InOrder` says nothing where anything overlaps.
* **InputInjectionProofs** - `TypeCorrect`, `NothingLatchedCorrect`,
  `ModifiersCorrect`, `InjectedCorrect`, `RefusedCorrect`, `WalkAdvances`, for any
  number of sockets, any keys and requests of any length.  `InputAssumption` says what a
  request may be made of, and that only sequences and key combos hold combos, so
  that a valid request never meets a malformed one.  The calls of a step have few
  shapes (`CallsOf`), and a call to the OS few outcomes (`PostIs`, `Outcome`); the
  invariant is argued on those.  `NothingLatched` speaks of quiet states and is not
  inductive: `Released` adds that whatever is down is stuck or has its release
  ahead of it in a running request (`Owes`), and `Quiet` that nothing is down where
  macOS ignores what it is given.  `OkMeansInjected` is the end of `Seeing`: as
  long as nothing has failed, every event of the steps and calls that lie behind, and
  of the present call as far as it has come, has been seen at its place (`SawEvent`).  `WalkAdvances`
  is the safety half of `Answered`: a request that runs never goes back or stands
  still, and its steps are a bound.  `HoldCorrect`: with one socket, a combo that
  is held is down entirely.

*Where nothing overlaps.*  Five claims that overlapping calls refute are proved
where there is a single actor: `OneDeviceCorrect` (one requester, and no write
fails), `AbsentCorrect` (one handler), `ClientCorrect` (one call), `HoldCorrect`
(one socket), `ShowsStoredOneHandler` (one handler).  So overlapping, and for the pairing a write that fails, is the only
way to what section 6 shows, however long the run and whatever else fails.  These
hypotheses are on the constants, and everything else stays as general as above.

The inductive invariants `IInv`, `SettingsInv`, `InputInv`, `CallInv`, `Attached`,
`Rest`, `Sole`, `Held`, `Served` and `Fresh` were also checked by TLC: the first
three on the instances of `MCIdentity`, `MCSettings` and `MCInputInjection`,
`CallInv` with three calls and three connections, `Attached` and `Rest` on the
instance of `MCLiveLayout`, the last four with one actor.

*Only model-checked:* everything under fairness (`AuthDeadline`, `GoneIsNoticed`,
`Drains`, `DeckCatchesUp`, `DeadIsNoticed`, `Answered`), as the prover does not
reason about ENABLED.  Every invariant and every other property of a run that
passes is also a theorem.  `AnsweredIsSaved` of ProfileStore is proved
(`SavedCorrect`) and has no run of its own.

## 6. What was seen while modelling

The three violated runs are described under `findings` in `PROJECT.json`, with
the lines they contradict.  Of the switch (`MCLiveLayoutSwitch`): nothing updates
`session.ready.activeProfileId` after the handshake, so that a deck follows a switch
only until its next answered ping, five seconds at most; and a switch whose event it
misses, in the gap before it subscribes or to a lag, it never follows.  This is
why `DeckCatchesUp` assumes that the profile of the handshake stays active, and
`DeckShowsLast` speaks of the profile the deck asks for.

Other deviations, seen in behaviours of the models (those with a configuration
are refuted by it) or read off the code:

* `identity.rs:36` says that generation is all-or-nothing in practice.  The
  certificate is written in place by `fs::write`: a crash or a full disk there
  leaves a torn `tls.pem`, which `load` accepts and rustls refuses at every start
  from then on, until the identity is reset (`MCIdentityAll`).
* On Linux and macOS, uninstalling a daemon that the platform started stops it,
  and with it the handler of the `settings.set` that asked for it: nothing is
  answered and nothing saved.  `main.rs:261` prints "The daemon keeps running
  until you stop it."
* The defaults say `autostart` is on, while nothing is registered until somebody
  installs it; and `muxdeckd service` registers without changing the setting, so
  that a later patch to the value that is stored does nothing.
* A service change that succeeds is not undone when the settings cannot be saved
  after it (`engine.rs:107`); the Linux install can fail at the udev rule after
  the unit is enabled (`service.rs`).
* The startup's advertisement and a rename that arrives before it is in place may
  leave the old name on the network: it read the name before the rename.
* An administrator may store a button whose operation a deck's press is refused:
  what a role may store is checked for the author (`store.rs`), what it may send
  for the deck.
* A `pair.request` whose write fails leaves the device in the registry's memory
  and its window open: the next request pairs a second device by the same code
  (`OneDeviceCorrect` needs the hypothesis that writes succeed).
* Two requests that overlap may each write `settings.tmp`; the second rename then
  finds no file and the request is answered with an error.
* `pair.revoke` takes the device out of the registry and the connected set and
  leaves its sockets open: its session stays ready (`MCSessionsRevoke`).
* The failure of one of two overlapping connects
  takes the client of the other (`MCDeckSessionClient`); a combo held for longer
  than another socket's loses a shared modifier (`MCInputHold`).
* `Engine::connected` is a set of devices.  When a device has two sockets and one
  closes, it is shown as disconnected while the other is live (`engine.rs:280`).
* `device.changed` and `pairing.state` are published outside the locks under
  which their contents were read: two handlers can publish in the opposite order,
  and the panel keeps the older (`server.rs:462`, `server.rs:690`).
* `profile.set` publishes an edit of a profile that is not active, and every
  subscribed deck shows it (`server.rs:554`).
* Two handlers that publish in the other order than they stored leave a viewer at
  rest on the older version (`ShowsStored` holds with one handler only).  A deck
  loads again with its next answered ping; the editor does not load again while it
  stays connected, and keeps it until the next change.
* The editor fetches and then subscribes: a change in between is not shown until
  the next one (`editor_controller.dart:44`).
* A deck that is left while it dials shows "failed" instead of "disconnected"
  when the dial fails (`session_controller.dart:129`); a transport closed while
  it dials connects all the same, and nobody closes it (`:264`); an overtaken
  attempt that fails tears the newer one down (`:130`); several failures of one
  outage each advance the backoff (`:149`).
* `revoke` whose write fails has removed the device from memory only
  (`registry.rs:144`).
* Without Accessibility macOS drops what is posted to it without an error, and
  the request is answered "ok" (`macos/backend.rs:197`); a mouse button that was
  pressed by `down` is not released for a deck that goes away.
* `engine.shutdown` is handled by the panel and published by nobody.

## 7. Not modelled, and the plan

Left out for good: the wire encodings and signatures (the repository's fixtures
compare the two implementations byte for byte), the key tables, icons, the pages
of the user interfaces, packaging and workflows: data, or code without a state
of its own.  TLS and the platforms' tools are modelled by the outcomes the code tells apart.
The four unmodelled parts with a state of their own are the panel, the deck's
side of pairing, the editor's saves and the telemetry sampler.

The order of the plan is that of importance: first what decides who may type on
the desktop (Registry, Sessions, Pairing, Identity), then what reaches the clients
(EventBus, ProfileStore, LiveLayout), then what the deck and the desktop
experience (DeckSession, InputInjection) and what the host keeps (Settings,
AutoStart): these are done.  What follows:

1. **The editor's saves** in LiveLayout: whole profiles made from the one on the
   screen, with the echo of a change still under way.
2. **Panel** - `admin_session.dart` over Identity and the event bus: starting the
   daemon, fetching and then listening; what the panel shows of devices and of the
   pairing window once everything has settled.
3. **ClientPairing** - the deck's side of the pairing exchange, composed with
   Pairing: the identity, the record of the host, lost answers.
4. **Actions and telemetry** - the action store beside `action.run`; the sampler,
   which no subscriber should leave running.
5. **Proofs** - for each of these, what the present modules have: the types, the
   invariants of its runs, and that the composition keeps what its parts promise.
