----------------------------- MODULE LiveLayout -----------------------------
(***************************************************************************)
(* "The layout updates live on the tablet while you edit it": the profile  *)
(* store, the profile.* handlers that publish what they did, the event     *)
(* bus, a viewer's socket, and the controller that keeps what the viewer   *)
(* shows: the deck's ProfileController (profile_controller.dart) or the    *)
(* panel's EditorController (editor_controller.dart), which run the same   *)
(* loop.                                                                   *)
(*                                                                         *)
(* A profile.* handler changes the store under its mutex and publishes     *)
(* afterwards, so two handlers may publish in the other order.  The viewer *)
(* fetches the profile its handshake named, then subscribes, then listens; *)
(* every change of its session's state - on a deck, every answered ping -  *)
(* makes it do so again, whether or not it has finished the last time.     *)
(* Answers and events reach it in the order in which its socket sent them. *)
(***************************************************************************)
EXTENDS EventBus

CONSTANTS Handler,        \* Sockets whose handlers edit or switch profiles.
          Viewer,         \* The socket of the client that shows the layout, on the
                          \* bus of module EventBus.
          Role,           \* What it is: "deck" or "admin".
          Profile, Default, Layout, DefaultLayout,
          Extra,          \* Profiles the store holds besides the default one.
          Edited,         \* The profiles that are edited,
          Activated,      \* activated
          Deleted,        \* and deleted.
          MaxLoads,       \* Bound: the loads of the viewer under way at once.
          NoLayout        \* The viewer has nothing to show yet.

ASSUME LiveLayoutAssumption ==
  /\ Profile \subseteq Nat /\ Default \in Profile
  /\ Extra \cup Edited \cup Activated \cup Deleted \subseteq Profile
  /\ DefaultLayout \in Layout
  /\ Viewer \in Socket \ Handler
  /\ Role \in {"deck", "admin"}
  /\ MaxLoads \in Nat

VARIABLES
  profiles, active, disk, ahead,         \* The store.
  bodies,     \* The payloads of the events in the log: <<profile, layout>>.
  pc,         \* pc[h]: the critical section handler h runs next.
  body,       \* body[h]: the payload handler h is about to publish.
  up,         \* The requests the viewer has sent and the engine not answered.
  down,       \* What the viewer's socket has sent and the viewer not read.
  target,     \* Ready::active_profile_id, from the handshake.
  listening,  \* Whether _load has attached its listener.
  shown,      \* The layout on the screen: <<profile, layout>>.
  fetched     \* History: whether the viewer's socket has answered a profile.get
              \* since it last passed a change on.

storeVars == <<profiles, active, disk, ahead>>
busVars == vars
serverVars == <<bodies, pc, body>>
viewerVars == <<up, target, listening, shown>>
liveVars == <<storeVars, busVars, serverVars, down, viewerVars, fetched>>

Store == INSTANCE ProfileStore WITH WriteOutcomes <- {TRUE}

Body == Profile \X Layout
Message == [kind : {"profile", "changed"}, body : Body]
             \cup [kind : {"refused", "subscribed"}]

LiveTypeOK ==
  /\ Store!TypeOK
  /\ TypeOK
  /\ bodies \in Seq(Body) /\ Len(bodies) = Len(log)
  /\ pc \in [Handler -> {"idle", "read", "publish"}]
  /\ body \in [Handler -> Body \cup {NoLayout}]
  /\ up \in Seq({"get", "subscribe"})
  /\ down \in Seq(Message)
  /\ target \in Profile
  /\ listening \in BOOLEAN
  /\ shown \in Body \cup {NoLayout}
  /\ fetched \in BOOLEAN

LiveInit ==
  /\ profiles = [p \in {Default} \cup Extra |-> DefaultLayout]
  /\ active = Default
  /\ disk = [profiles |-> profiles, active |-> active]
  /\ ahead = FALSE
  /\ Init
  /\ bodies = <<>>
  /\ pc = [h \in Handler |-> "idle"]
  /\ body = [h \in Handler |-> NoLayout]
  /\ up = <<>>
  /\ down = <<>>
  /\ target = Default
  /\ listening = FALSE
  /\ shown = NoLayout
  /\ fetched = FALSE

-----------------------------------------------------------------------------
(* The profile.* handlers.                                                 *)

\* The model starts no handler whose event would not fit in its log.
MayStart(h) ==
  /\ pc[h] = "idle"
  /\ \A g \in Handler : pc[g] = "idle" \/ Len(log) + 1 < MaxEvents
  /\ Len(log) < MaxEvents

\* profile.set: what is published is the payload of the request.
SetProfile(h, p, l) ==
  /\ MayStart(h)
  /\ Store!Set(p, l, TRUE)
  /\ body' = [body EXCEPT ![h] = <<p, l>>]
  /\ pc' = [pc EXCEPT ![h] = "publish"]
  /\ UNCHANGED <<busVars, bodies, down, viewerVars, fetched>>

\* Mutant of SwitchProfile: nothing is read back before it is published.
SwitchProfile_NoRead(h, p) ==
  /\ MayStart(h)
  /\ \/ p \in Activated /\ Store!Activate(p, TRUE)
     \/ p \in Deleted /\ Store!Delete(p, TRUE)
  /\ pc' = [pc EXCEPT ![h] = "publish"]
  /\ UNCHANGED <<busVars, bodies, body, down, viewerVars, fetched>>

\* profile.activate and profile.delete: the store first ...
SwitchProfile(h, p) ==
  /\ MayStart(h)
  /\ \/ p \in Activated /\ Store!Activate(p, TRUE)
     \/ p \in Deleted /\ Store!Delete(p, TRUE)
  /\ pc' = [pc EXCEPT ![h] = "read"]
  /\ UNCHANGED <<busVars, bodies, body, down, viewerVars, fetched>>

\* ... then, under the lock again, the profile that is active by now.
ReadActive(h) ==
  /\ pc[h] = "read"
  /\ body' = [body EXCEPT ![h] = <<Store!Active, profiles[Store!Active]>>]
  /\ pc' = [pc EXCEPT ![h] = "publish"]
  /\ UNCHANGED <<storeVars, busVars, bodies, down, viewerVars, fetched>>

\* events.publish(profile.changed), and the answer.
PublishChange(h) ==
  /\ pc[h] = "publish"
  /\ Publish("profile")
  /\ bodies' = Append(bodies, body[h])
  /\ body' = [body EXCEPT ![h] = NoLayout]
  /\ pc' = [pc EXCEPT ![h] = "idle"]
  /\ UNCHANGED <<storeVars, down, viewerVars, fetched>>

-----------------------------------------------------------------------------
(* The viewer's socket on the engine's side.                               *)

\* The viewer connects and authenticates (module Sessions); Ready names the
\* profile that is active at this moment.
Connect ==
  /\ Open(Viewer)
  /\ UNCHANGED <<storeVars, serverVars, down, viewerVars, fetched>>

Authenticate ==
  /\ Ready(Viewer, Role)
  /\ target' = Store!Active
  /\ UNCHANGED <<storeVars, serverVars, down, up, listening, shown, fetched>>

\* The socket answers the viewer's requests in the order it sent them: profile.get,
AnswerGet ==
  /\ up # <<>> /\ Head(up) = "get"
  /\ up' = Tail(up)
  /\ down' = Append(down,
       IF target \in DOMAIN profiles
       THEN [kind |-> "profile", body |-> <<target, profiles[target]>>]
       ELSE [kind |-> "refused"])
  /\ fetched' = (fetched \/ target \in DOMAIN profiles)
  /\ UNCHANGED <<storeVars, busVars, serverVars, target, listening, shown>>

\* and profile.subscribe.
AnswerSubscribe ==
  /\ up # <<>> /\ Head(up) = "subscribe"
  /\ up' = Tail(up)
  /\ Subscribe(Viewer, "profile")
  /\ down' = Append(down, [kind |-> "subscribed"])
  /\ UNCHANGED <<storeVars, serverVars, target, listening, shown, fetched>>

\* The events branch of the socket loop.
PushEvent ==
  /\ Receive(Viewer)
  /\ IF got' = got
     THEN UNCHANGED <<down, fetched>>
     ELSE /\ down' = Append(down, [kind |-> "changed", body |-> bodies[next[Viewer]]])
          /\ fetched' = FALSE
  /\ UNCHANGED <<storeVars, serverVars, viewerVars>>

FallBehind ==
  /\ Lag(Viewer)
  /\ UNCHANGED <<storeVars, serverVars, down, viewerVars, fetched>>

-----------------------------------------------------------------------------
(* The viewer's controller.                                                *)

\* The calls of _load under way: each waits for the answer to one request.
Loads == Len(up) + Len(SelectSeq(down, LAMBDA m : m.kind # "changed"))

\* Mutant of StartLoad: a session that is already live is not loaded again.
StartLoad_Once ==
  /\ IsReady(Viewer)
  /\ Loads < MaxLoads
  /\ ~listening
  /\ up' = Append(up, "get")
  /\ UNCHANGED <<storeVars, busVars, serverVars, down, target, listening, shown, fetched>>

\* build(): sessionProvider says SessionReady - when the session becomes ready,
\* and again whenever its state is set, as an answered ping does for a deck - and
\* _load is called, beside those that have not finished.
StartLoad ==
  /\ IsReady(Viewer)
  /\ Loads < MaxLoads
  /\ up' = Append(up, "get")
  /\ UNCHANGED <<storeVars, busVars, serverVars, down, target, listening, shown, fetched>>

\* The next frame on the viewer's side: an answer resumes the _load that waits for
\* it, an event reaches the listener if there is one.
Read ==
  /\ down # <<>>
  /\ down' = Tail(down)
  /\ LET m == Head(down) IN
     /\ shown' = IF m.kind = "profile" \/ (m.kind = "changed" /\ listening)
                 THEN m.body ELSE shown
     /\ listening' = (listening \/ m.kind = "subscribed")
     /\ up' = IF m.kind = "profile" THEN Append(up, "subscribe") ELSE up
  /\ UNCHANGED <<storeVars, busVars, serverVars, target, fetched>>

\* The connection is lost: every _load fails, the listener is cancelled, and what
\* was shown stays on the screen.
Drop ==
  /\ Close(Viewer)
  /\ up' = <<>>
  /\ down' = <<>>
  /\ listening' = FALSE
  /\ fetched' = FALSE
  /\ UNCHANGED <<storeVars, serverVars, target, shown>>

LiveNext ==
  \/ \E h \in Handler :
       \/ \E p \in Edited, l \in Layout : SetProfile(h, p, l)
       \/ \E p \in Activated \cup Deleted : SwitchProfile(h, p)
       \/ ReadActive(h)
       \/ PublishChange(h)
  \/ Connect
  \/ Authenticate
  \/ AnswerGet
  \/ AnswerSubscribe
  \/ PushEvent
  \/ FallBehind
  \/ StartLoad
  \/ Read
  \/ Drop

\* Handlers finish, the socket loop serves requests and events, the viewer
\* reads its socket, reconnects with backoff and, a deck, pings every five seconds.
LiveFairness ==
  /\ \A h \in Handler : WF_liveVars(ReadActive(h) \/ PublishChange(h))
  /\ WF_liveVars(Connect) /\ WF_liveVars(Authenticate)
  /\ WF_liveVars(AnswerGet) /\ WF_liveVars(AnswerSubscribe)
  /\ WF_liveVars(PushEvent) /\ WF_liveVars(FallBehind)
  /\ WF_liveVars(StartLoad) /\ WF_liveVars(Read)

LiveSpec == LiveInit /\ [][LiveNext]_liveVars /\ LiveFairness

-----------------------------------------------------------------------------
Current(p) == <<p, profiles[p]>>

\* The viewer has caught up with everything: no handler runs, nothing is on its
\* way to it or from it, and its subscription is in place.
Quiet ==
  /\ \A h \in Handler : pc[h] = "idle"
  /\ level[Viewer] = Role
  /\ next[Viewer] > Len(log)
  /\ up = <<>>
  /\ down = <<>>
  /\ listening

\* docs/SERVER.md, "the layout updates live on the tablet": once edits and
\* switches have stopped, a deck that stays connected, since a handshake that
\* named the active profile, comes to show the layout the store holds - whatever
\* was published out of order, published between its fetch and its subscription,
\* or lost to a full bus.
DeckCatchesUp ==
  <>[](level[Viewer] = Role /\ target = active) => <>[](shown = Current(active))

\* At rest and without fairness: a deck that was subscribed when the last change was
\* published shows exactly that change, however edits, answers, events and its own
\* overlapping loads crossed, lagging or not - until a profile.get is answered after
\* the change was passed on to it.  Then it shows what the store holds of the
\* profile it asks for, which is the one its handshake named: DeckShowsActive says
\* what becomes of a switch.
DeckShowsLast ==
  Quiet /\ Len(log) > subAt[Viewer] =>
    shown = IF fetched THEN Current(target) ELSE bodies[Len(log)]

\* server.rs:566: "Switching profiles changes what every deck should be showing": a
\* deck that was subscribed when the switch was published shows, at rest, the
\* profile that is active.  It does until its next answered ping, which loads the
\* profile of the handshake again.
DeckShowsActive ==
  Quiet /\ Len(log) > subAt[Viewer] => shown[1] = Store!Active

=============================================================================
