----------------------------- MODULE DeckSession -----------------------------
(***************************************************************************)
(* The deck's SessionController (session_controller.dart): connecting,     *)
(* the handshake as the deck sees it, pings, reconnection with backoff,    *)
(* and the user's exits and returns.                                       *)
(*                                                                         *)
(* The controller is single-threaded, but every await gives way: several   *)
(* of its asynchronous calls (connect, reconnectNow, a retry, disconnect,  *)
(* the teardown a ping starts) are under way at once and share its fields. *)
(* A flow is one such call.  A connection is a transport and the protocol  *)
(* client over it.  What needs nothing but the event loop (a microtask)    *)
(* goes before any event from outside: a frame, a timer, the user.  The    *)
(* order of two microtasks is left open.                                   *)
(***************************************************************************)
EXTENDS Naturals, FiniteSetsExt

CONSTANTS Flow,        \* Slots for asynchronous calls.
          Conn,        \* Connections; one that is over is used again.
          None,        \* The null of _transport and _client.
          MaxPings,    \* Pings in flight: a 10-s timeout over 5-s ticks.
          MissLimit,   \* missedPingsBeforeReconnect.
          Backoff      \* The length of reconnectBackoffMs.

ASSUME DeckSessionAssumption ==
  /\ None \notin Conn
  /\ MaxPings \in Nat
  /\ MissLimit \in Nat \ {0}
  /\ Backoff \in Nat

VARIABLES
  state,      \* The SessionState the user interface sees.
  want,       \* _wantConnected; _host is set and cleared with it.
  retry,      \* _reconnectTimer is armed.
  attempt,    \* _attempt, as reconnectDelay clamps it.
  missed,     \* _missedPings, up to MissLimit.
  pinging,    \* _pingTimer is running.
  transport,  \* _transport.
  client,     \* _client.
  identity,   \* The identity store has the identity in memory.
  flow,       \* The asynchronous calls.
  drops,      \* Transports closed by a teardown nobody awaits.
  sock,       \* sock[k]: the socket of connection k.
  deaf,       \* deaf[k]: k's frames stream is closed or no longer listened to.
  pings,      \* pings[k]: unanswered pings on connection k.
  misses      \* Pings that have failed and whose handler has yet to run.

retryVars == <<want, retry, attempt>>
pingVars  == <<missed, pinging, pings, misses>>
connVars  == <<sock, deaf>>
vars == <<state, retryVars, pingVars, transport, client, identity, flow, drops, connVars>>

State == {"disconnected", "connecting", "authenticating", "ready", "failed", "retrying"}
Request == {"hello", "auth"}
\* What a flow does once _teardown returns.
Goal == {"none", "open", "retry", "giveUp", "exit"}
Idle == [pc |-> "idle", goal |-> "none", conn |-> None, shuts |-> None]

TypeOK ==
  /\ state \in State
  /\ want \in BOOLEAN /\ retry \in BOOLEAN /\ attempt \in 0..Backoff
  /\ missed \in 0..MissLimit /\ pinging \in BOOLEAN
  /\ pings \in [Conn -> 0..MaxPings] /\ misses \in Nat
  /\ transport \in Conn \cup {None} /\ client \in Conn \cup {None}
  /\ identity \in BOOLEAN
  /\ flow \in [Flow -> [pc : {"idle", "close", "load", "dial", "broken"} \cup Request,
                        goal : Goal, conn : Conn \cup {None}, shuts : Conn \cup {None}]]
  /\ drops \subseteq Conn
  /\ sock \in [Conn -> {"none", "open", "gone", "closing", "shut"}]
  /\ deaf \in [Conn -> BOOLEAN]

Init ==
  /\ state = "disconnected"
  /\ want = FALSE /\ retry = FALSE /\ attempt = 0
  /\ missed = 0 /\ pinging = FALSE
  /\ pings = [k \in Conn |-> 0] /\ misses = 0
  /\ transport = None /\ client = None
  /\ identity = FALSE
  /\ flow = [f \in Flow |-> Idle]
  /\ drops = {}
  /\ sock = [k \in Conn |-> "none"]
  /\ deaf = [k \in Conn |-> FALSE]

-----------------------------------------------------------------------------
Clamp(n, limit) == IF n < limit THEN n ELSE limit

\* Connections nothing refers to any more.
Free == {k \in Conn : /\ sock[k] \in {"none", "shut"}
                      /\ k \notin {transport, client} \cup drops
                      /\ pings[k] = 0
                      /\ \A f \in Flow : k \notin {flow[f].conn, flow[f].shuts}}

\* _failAllPending on the connections of lost: their requests and pings fail;
\* handled of the earlier failures are dealt with in the same step.
FailAllPending(lost, calls, handled) ==
  /\ flow' = [f \in Flow |-> IF calls[f].pc \in Request /\ calls[f].conn \in lost
                             THEN [calls[f] EXCEPT !.pc = "broken"] ELSE calls[f]]
  /\ misses' = misses - handled + MapThenSumSet(LAMBDA k : pings[k], lost)
  /\ pings' = [k \in Conn |-> IF k \in lost THEN 0 ELSE pings[k]]

\* _teardown up to its one slow await, the closing of a connected transport.
Teardown(calls, handled) ==
  LET lost == {client, transport} \ {None} IN
  /\ pinging' = FALSE
  /\ client' = None
  /\ deaf' = [k \in Conn |-> deaf[k] \/ k \in lost]
  /\ sock' = [k \in Conn |-> IF k = transport /\ sock[k] \in {"open", "gone"}
                             THEN "closing" ELSE sock[k]]
  /\ FailAllPending(lost, calls, handled)

\* A call that begins with a teardown.
Begin(f, goal, conn) ==
  Teardown([flow EXCEPT ![f] = [pc |-> "close", goal |-> goal, conn |-> conn,
                                shuts |-> transport]], 0)

\* _open begins.
Open(f) ==
  /\ flow[f] = Idle
  /\ \E k \in Free : Begin(f, "open", k)
  /\ UNCHANGED <<missed, transport, identity, drops, state>>

\* connect: the user picks the host.
Connect(f) ==
  /\ want' = TRUE
  /\ retry' = FALSE
  /\ attempt' = 0
  /\ Open(f)

\* reconnectNow: the app returns from the background.
Resume(f) ==
  /\ want
  /\ state # "ready"
  /\ retry' = FALSE
  /\ attempt' = 0
  /\ Open(f)
  /\ UNCHANGED want

\* The reconnect timer fires.
Retry(f) ==
  /\ retry
  /\ retry' = FALSE
  /\ Open(f)
  /\ UNCHANGED <<want, attempt>>

\* Mutant of Exit: the pending retry is left armed.
Exit_TimerKept(f) ==
  /\ identity
  /\ flow[f] = Idle
  /\ want' = FALSE
  /\ Begin(f, "exit", None)
  /\ UNCHANGED <<state, retry, attempt, missed, transport, identity, drops>>

\* disconnect: the user leaves, from a page that is reached through a session.
Exit(f) ==
  /\ identity
  /\ flow[f] = Idle
  /\ want' = FALSE
  /\ retry' = FALSE
  /\ Begin(f, "exit", None)
  /\ UNCHANGED <<state, attempt, missed, transport, identity, drops>>

\* Mutant of Fail: the next retry is not scheduled.
Fail_NoTimer(worthRetrying) ==
  /\ state' = IF want /\ worthRetrying THEN "retrying" ELSE "failed"
  /\ attempt' = Clamp(attempt + 1, Backoff)
  /\ UNCHANGED retry

\* _fail.
Fail(worthRetrying) ==
  IF want /\ worthRetrying
  THEN /\ state' = "retrying"
       /\ retry' = TRUE
       /\ attempt' = Clamp(attempt + 1, Backoff)
  ELSE /\ state' = "failed"
       /\ UNCHANGED <<retry, attempt>>

-----------------------------------------------------------------------------
(* _teardown has returned: whichever transport the field names is forgotten. *)

Awake(f) == /\ flow[f].pc = "close"
            /\ flow[f].shuts \notin {k \in Conn : sock[k] = "closing"}

TornDown(f, goal) ==
  /\ Awake(f)
  /\ flow[f].goal = goal
  /\ transport' = None
  /\ UNCHANGED <<want, pingVars, client, identity, drops, connVars>>

\* _open goes on: the identity is loaded next.
Connecting(f) ==
  /\ TornDown(f, "open")
  /\ state' = "connecting"
  /\ flow' = [flow EXCEPT ![f].pc = "load", ![f].shuts = None]
  /\ UNCHANGED <<retry, attempt>>

\* _open's catch goes on.
Failed(f) ==
  /\ \E goal \in {"retry", "giveUp"} : TornDown(f, goal) /\ Fail(goal = "retry")
  /\ flow' = [flow EXCEPT ![f] = Idle]

\* disconnect goes on.
Left(f) ==
  /\ TornDown(f, "exit")
  /\ state' = "disconnected"
  /\ flow' = [flow EXCEPT ![f] = Idle]
  /\ UNCHANGED <<retry, attempt>>

\* The teardown a ping began goes on.
Dropped(k) ==
  /\ k \in drops
  /\ sock[k] # "closing"
  /\ transport' = None
  /\ drops' = drops \ {k}
  /\ UNCHANGED <<state, retryVars, pingVars, client, identity, flow, connVars>>

-----------------------------------------------------------------------------
(* _open: identity, transport, handshake.                                  *)

\* The identity is loaded: a new transport dials.
Dial(f) ==
  /\ flow[f].pc = "load"
  /\ identity' = TRUE
  /\ transport' = flow[f].conn
  /\ sock' = [sock EXCEPT ![flow[f].conn] = "none"]
  /\ deaf' = [deaf EXCEPT ![flow[f].conn] = FALSE]
  /\ flow' = [flow EXCEPT ![f].pc = "dial"]
  /\ UNCHANGED <<state, retryVars, pingVars, client, drops>>

\* The transport is connected: session.hello, heard or not.
Hello(f) ==
  /\ flow[f].pc = "dial"
  /\ sock' = [sock EXCEPT ![flow[f].conn] = "open"]
  /\ client' = flow[f].conn
  /\ flow' = [flow EXCEPT ![f].pc = IF deaf[flow[f].conn] THEN "broken" ELSE "hello"]
  /\ UNCHANGED <<state, retryVars, pingVars, transport, identity, drops, deaf>>

Answered(f, request) == flow[f].pc = request /\ sock[flow[f].conn] = "open"

\* The challenge is here: the deck signs it and sends session.auth.
Authenticate(f) ==
  /\ Answered(f, "hello")
  /\ state' = "authenticating"
  /\ flow' = [flow EXCEPT ![f].pc = "auth"]
  /\ UNCHANGED <<retryVars, pingVars, transport, client, identity, drops, connVars>>

\* A ping on whatever client there is.
Ping == pings' = [k \in Conn |-> IF k = client THEN Clamp(pings[k] + 1, MaxPings) ELSE pings[k]]

\* Mutant of Ready: the ping timer is not started.
Ready_NoPings(f) ==
  /\ Answered(f, "auth")
  /\ state' = "ready"
  /\ attempt' = 0
  /\ missed' = 0
  /\ flow' = [flow EXCEPT ![f] = Idle]
  /\ UNCHANGED <<want, retry, misses, transport, client, identity, drops, connVars, pings, pinging>>

\* Ready is here: _startPinging sends the first ping at once.
Ready(f) ==
  /\ Answered(f, "auth")
  /\ state' = "ready"
  /\ attempt' = 0
  /\ missed' = 0
  /\ pinging' = TRUE
  /\ Ping
  /\ flow' = [flow EXCEPT ![f] = Idle]
  /\ UNCHANGED <<want, retry, misses, transport, client, identity, drops, connVars>>

\* What _open awaits throws; _open's catch begins.
Throw(f, goal) ==
  /\ Begin(f, goal, None)
  /\ UNCHANGED <<state, retryVars, missed, transport, identity, drops>>

\* The key store, the dial or a request fails or times out.
Abort(f) == flow[f].pc \in {"load", "dial"} \cup Request /\ Throw(f, "retry")
\* The host does not know this device.
Refuse(f) == \E request \in Request : Answered(f, request) /\ Throw(f, "giveUp")
\* The request's connection has been closed.
Break(f) == flow[f].pc = "broken" /\ Throw(f, "retry")

-----------------------------------------------------------------------------
(* Pings, and the network.                                                 *)

\* The ping timer.
Tick ==
  /\ pinging
  /\ state = "ready"
  /\ client # None
  /\ pings[client] < MaxPings
  /\ Ping
  /\ UNCHANGED <<state, retryVars, missed, pinging, misses, transport, client, identity,
                 flow, drops, connVars>>

\* Mutant of Pong: an answer makes up for one missed ping.
Pong_OneBack(k) ==
  /\ pings[k] > 0
  /\ sock[k] = "open"
  /\ ~deaf[k]
  /\ pings' = [pings EXCEPT ![k] = @ - 1]
  /\ missed' = missed - 1
  /\ UNCHANGED <<state, retryVars, pinging, misses, transport, client, identity, flow,
                 drops, connVars>>

\* A ping is answered: the misses before it are forgotten.
Pong(k) ==
  /\ pings[k] > 0
  /\ sock[k] = "open"
  /\ ~deaf[k]
  /\ pings' = [pings EXCEPT ![k] = @ - 1]
  /\ missed' = 0
  /\ UNCHANGED <<state, retryVars, pinging, misses, transport, client, identity, flow,
                 drops, connVars>>

PingTimeout(k) ==
  /\ pings[k] > 0
  /\ pings' = [pings EXCEPT ![k] = @ - 1]
  /\ misses' = misses + 1
  /\ UNCHANGED <<state, retryVars, missed, pinging, transport, client, identity, flow,
                 drops, connVars>>

\* _ping's catch: one more missed.
Miss ==
  /\ misses > 0
  /\ missed + 1 < MissLimit
  /\ missed' = missed + 1
  /\ misses' = misses - 1
  /\ UNCHANGED <<state, retryVars, pinging, pings, transport, client, identity, flow,
                 drops, connVars>>

\* ... and one too many: tear down, without waiting for it, and fail.
LastMiss ==
  /\ misses > 0
  /\ missed + 1 >= MissLimit
  /\ missed' = MissLimit
  /\ Teardown(flow, 1)
  /\ drops' = drops \cup ({transport} \ {None})
  /\ Fail(TRUE)
  /\ UNCHANGED <<want, transport, identity>>

\* The engine closes the socket: the transport's frames end.
Lose(k) ==
  /\ sock[k] = "open"
  /\ sock' = [sock EXCEPT ![k] = "shut"]
  /\ deaf' = [deaf EXCEPT ![k] = TRUE]
  /\ FailAllPending({k}, flow, 0)
  /\ UNCHANGED <<state, retryVars, missed, pinging, transport, client, identity, drops>>

\* The network goes, or iOS kills the socket: nothing is heard of it.
Vanish(k) ==
  /\ sock[k] = "open"
  /\ sock' = [sock EXCEPT ![k] = "gone"]
  /\ UNCHANGED <<state, retryVars, pingVars, transport, client, identity, flow, drops, deaf>>

\* The closing handshake ends, or is given up.
CloseEnds(k) ==
  /\ sock[k] = "closing"
  /\ sock' = [sock EXCEPT ![k] = "shut"]
  /\ UNCHANGED <<state, retryVars, pingVars, transport, client, identity, flow, drops, deaf>>

-----------------------------------------------------------------------------
\* The event loop has nothing left to run.
Quiet ==
  /\ misses = 0
  /\ \A k \in drops : sock[k] = "closing"
  /\ \A f \in Flow : /\ ~Awake(f)
                     /\ flow[f].pc # "broken"
                     /\ ~(flow[f].pc = "load" /\ identity)

Microtask ==
  \/ \E f \in Flow :
       \/ Connecting(f) \/ Failed(f) \/ Left(f) \/ Break(f)
       \/ identity /\ Dial(f)
  \/ \E k \in drops : Dropped(k)
  \/ Miss \/ LastMiss

Timer ==
  \/ \E f \in Flow : Retry(f)
  \/ Tick
  \/ \E k \in Conn : PingTimeout(k)

\* What the outside answers to a flow.
Answer(f) ==
  \/ ~identity /\ Dial(f)
  \/ Hello(f) \/ Authenticate(f) \/ Ready(f) \/ Refuse(f) \/ Abort(f)

Outside ==
  \/ \E f \in Flow : Connect(f) \/ Resume(f) \/ Exit(f) \/ Answer(f)
  \/ \E k \in Conn : Pong(k) \/ Lose(k) \/ Vanish(k) \/ CloseEnds(k)

Next == Microtask \/ (Quiet /\ (Timer \/ Outside))

\* Microtasks run, timers fire, what is awaited ends or times out.
Fairness ==
  /\ WF_vars(Microtask)
  /\ WF_vars(Quiet /\ Tick)
  /\ \A k \in Conn : WF_vars(Quiet /\ PingTimeout(k)) /\ WF_vars(Quiet /\ CloseEnds(k))
  /\ \A f \in Flow : WF_vars(Quiet /\ Answer(f))

Spec == Init /\ [][Next]_vars /\ Fairness

-----------------------------------------------------------------------------
AllIdle == Quiet /\ drops = {} /\ \A f \in Flow : flow[f] = Idle

\* A retry is armed only while the user wants a connection, whichever calls fail
\* after the user has left (disconnect and _fail).
RetryOnlyWhenWanted == retry => want

\* A wanted connection is never given up silently, whatever calls overlap: with
\* nothing under way the session is ready, a retry is armed, or the failure that
\* is shown says there will be none (_open, _fail).
NotStuck == want /\ AllIdle => state \in {"ready", "failed"} \/ retry

\* docs/CLIENT.md 7: missed pings force a reconnect. A session whose socket is
\* gone does not stay ready (_ping).
DeadIsNoticed ==
  \A k \in Conn : (state = "ready" /\ client = k /\ sock[k] \in {"gone", "shut"})
                    ~> (state # "ready" \/ client # k)

-----------------------------------------------------------------------------
(* What the comments say, and the code does not do.                        *)

\* session_controller.dart:77: client is "The live protocol client, or null when
\* not ready": with nothing under way, a ready session has one.
ReadyHasClient == state = "ready" /\ AllIdle => client # None

=============================================================================
