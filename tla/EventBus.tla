------------------------------ MODULE EventBus ------------------------------
(***************************************************************************)
(* The engine's event bus (server.rs EventBus) and the half of the socket  *)
(* loop that drains it.                                                    *)
(*                                                                         *)
(* The bus is a tokio broadcast channel: a ring that keeps the last        *)
(* Capacity events.  A socket gets its receiver when it is opened, reads   *)
(* from it only once its session is ready, and decides for each event      *)
(* whether it wants it (Session::wants) at the moment it reads the event.  *)
(* A receiver that has fallen more than Capacity events behind is told so  *)
(* and jumps to the oldest event still in the ring.  The log keeps every   *)
(* event for the properties; the ring is its last Capacity entries.        *)
(***************************************************************************)
EXTENDS Naturals, Sequences, FiniteSets

CONSTANTS Socket,      \* Connection slots.
          Capacity,    \* Slots of the ring: 64 in the code.
          MaxEvents    \* Bound: the number of events the model publishes.

ASSUME EventBusAssumption ==
  /\ Capacity \in Nat \ {0}
  /\ MaxEvents \in Nat

VARIABLES
  log,     \* The audiences of the events published, in order.
  level,   \* level[s]: how far the session of s has come.
  subs,    \* subs[s]: the feeds s subscribed to.
  next,    \* next[s]: the position s reads next.
  got,     \* got[s]: the positions sent to s on this connection, in order.
  subAt    \* History: subAt[s] is Len(log) when s subscribed to the layout.

vars == <<log, level, subs, next, got, subAt>>

\* EventAudience.
Audience == {"profile", "telemetry", "admin", "all"}
Feed == {"profile", "telemetry"}
Level == {"closed", "handshake", "deck", "admin"}

TypeOK ==
  /\ log \in Seq(Audience)
  /\ level \in [Socket -> Level]
  /\ subs \in [Socket -> SUBSET Feed]
  /\ next \in [Socket -> Nat \ {0}]
  /\ got \in [Socket -> Seq(Nat \ {0})]
  /\ subAt \in [Socket -> Nat]

Init ==
  /\ log = <<>>
  /\ level = [s \in Socket |-> "closed"]
  /\ subs = [s \in Socket |-> {}]
  /\ next = [s \in Socket |-> 1]
  /\ got = [s \in Socket |-> <<>>]
  /\ subAt = [s \in Socket |-> 0]

-----------------------------------------------------------------------------
IsReady(s) == level[s] \in {"deck", "admin"}

\* The position of the oldest event still in the ring.
Oldest == IF Len(log) > Capacity THEN Len(log) - Capacity + 1 ELSE 1

\* Mutant of Wants: device and pairing state is everybody's business.
Wants_NoRole(s, a) ==
  IsReady(s) /\ (a \in subs[s] \/ a \in {"admin", "all"})

\* Session::wants.
Wants(s, a) ==
  /\ IsReady(s)
  /\ CASE a \in Feed -> a \in subs[s]
       [] a = "admin" -> level[s] = "admin"
       [] OTHER -> TRUE

\* EventBus::publish.
Publish(a) ==
  /\ Len(log) < MaxEvents
  /\ log' = Append(log, a)
  /\ UNCHANGED <<level, subs, next, got, subAt>>

\* connection(): subscribe to the bus, then read the first frame.
Open(s) ==
  /\ level[s] = "closed"
  /\ level' = [level EXCEPT ![s] = "handshake"]
  /\ next' = [next EXCEPT ![s] = Len(log) + 1]
  /\ UNCHANGED <<log, subs, got, subAt>>

\* The handshake of module Sessions completes, with one role or the other.
Ready(s, role) ==
  /\ level[s] = "handshake"
  /\ level' = [level EXCEPT ![s] = role]
  /\ UNCHANGED <<log, subs, next, got, subAt>>

\* profile.subscribe and telemetry.subscribe.
Subscribe(s, f) ==
  /\ IsReady(s)
  /\ subs' = [subs EXCEPT ![s] = @ \cup {f}]
  /\ subAt' = [subAt EXCEPT ![s] =
                 IF f = "profile" /\ f \notin subs[s] THEN Len(log) ELSE @]
  /\ UNCHANGED <<log, level, next, got>>

\* Mutant of Receive: the select! branch is left to administrators.
Receive_AdminOnly(s) ==
  /\ level[s] = "admin"
  /\ next[s] \in Oldest..Len(log)
  /\ got' = [got EXCEPT ![s] =
               IF Wants(s, log[next[s]]) THEN Append(@, next[s]) ELSE @]
  /\ next' = [next EXCEPT ![s] = @ + 1]
  /\ UNCHANGED <<log, level, subs, subAt>>

\* Mutant of Receive: the receiver is cloned for each read and does not advance.
Receive_NoAdvance(s) ==
  /\ IsReady(s)
  /\ Len(got[s]) < MaxEvents
  /\ next[s] \in Oldest..Len(log)
  /\ got' = [got EXCEPT ![s] =
               IF Wants(s, log[next[s]]) THEN Append(@, next[s]) ELSE @]
  /\ UNCHANGED <<log, level, subs, next, subAt>>

\* Mutant of Receive: positions are counted from zero.
Receive_ZeroBased(s) ==
  /\ IsReady(s)
  /\ next[s] \in Oldest..Len(log)
  /\ got' = [got EXCEPT ![s] =
               IF Wants(s, log[next[s]]) THEN Append(@, next[s] - 1) ELSE @]
  /\ next' = [next EXCEPT ![s] = @ + 1]
  /\ UNCHANGED <<log, level, subs, subAt>>

\* The events branch of select!: Ok(event), sent if the session wants it.
Receive(s) ==
  /\ IsReady(s)
  /\ next[s] \in Oldest..Len(log)
  /\ got' = [got EXCEPT ![s] =
               IF Wants(s, log[next[s]]) THEN Append(@, next[s]) ELSE @]
  /\ next' = [next EXCEPT ![s] = @ + 1]
  /\ UNCHANGED <<log, level, subs, subAt>>

\* Mutant of Lag: a lagging socket starts over with what comes next.
Lag_Resubscribe(s) ==
  /\ IsReady(s)
  /\ next[s] < Oldest
  /\ next' = [next EXCEPT ![s] = Len(log) + 1]
  /\ UNCHANGED <<log, level, subs, got, subAt>>

\* The events branch of select!: Err(Lagged).
Lag(s) ==
  /\ IsReady(s)
  /\ next[s] < Oldest
  /\ next' = [next EXCEPT ![s] = Oldest]
  /\ UNCHANGED <<log, level, subs, got, subAt>>

\* The socket is gone, and its receiver with it.
Close(s) ==
  /\ level[s] # "closed"
  /\ level' = [level EXCEPT ![s] = "closed"]
  /\ subs' = [subs EXCEPT ![s] = {}]
  /\ got' = [got EXCEPT ![s] = <<>>]
  /\ UNCHANGED <<log, next, subAt>>

Next ==
  \/ \E a \in Audience : Publish(a)
  \/ \E s \in Socket :
       \/ Open(s)
       \/ \E role \in {"deck", "admin"} : Ready(s, role)
       \/ \E f \in Feed : Subscribe(s, f)
       \/ Receive(s)
       \/ Lag(s)
       \/ Close(s)

\* tokio's select! polls its branches in random order: a socket that keeps
\* having an event to read reads it in the end.
Fairness == \A s \in Socket : WF_vars(Receive(s)) /\ WF_vars(Lag(s))

Spec == Init /\ [][Next]_vars /\ Fairness

-----------------------------------------------------------------------------
\* A socket is sent events in the order of their publication and none twice,
\* lagging or not, however it connects and reconnects.
Abstract == INSTANCE OrderedFeed WITH Event <- Audience
FeedIsOrdered == Abstract!Spec

\* docs/PROTOCOL.md 4.9, the column "Delivered to": whatever a socket has been
\* sent on this connection - events published before it was ready included - its
\* role and its subscriptions entitle it to.
AudienceRespected ==
  \A s \in Socket : \A i \in 1..Len(got[s]) :
    /\ IsReady(s)
    /\ log[got[s][i]] \in Feed => log[got[s][i]] \in subs[s]
    /\ log[got[s][i]] = "admin" => level[s] = "admin"

\* Falling behind loses the oldest events only: of the layout changes published
\* since it subscribed, a socket misses none that is still in the ring.
RecentNotLost ==
  \A s \in Socket : IsReady(s) /\ "profile" \in subs[s] =>
    \A n \in subAt[s] + 1 .. next[s] - 1 :
      n >= Oldest /\ log[n] = "profile" => \E i \in 1..Len(got[s]) : got[s][i] = n

\* A ready socket catches up with the bus, or goes away.
Drains ==
  \A s \in Socket : IsReady(s) ~> next[s] > Len(log) \/ level[s] = "closed"

=============================================================================
