------------------------------ MODULE Sessions ------------------------------
(***************************************************************************)
(* The engine's WebSocket sessions: the handshake state machine            *)
(* (session.rs), the socket loop and the handlers it runs (server.rs), the *)
(* set of connected devices (engine.rs) and the registry they consult.     *)
(*                                                                         *)
(* A socket's handler is a sequence of short critical sections, each under *)
(* a different mutex: the registry, the connected set, the event bus.  The *)
(* runtime is multi-threaded, so the handlers of two sockets interleave    *)
(* between them.  pc[s] names the critical section socket s runs next; a   *)
(* socket at "read" is in its select! loop, waiting for the next frame.    *)
(* A socket identifier names a slot: closing it and opening it again is a  *)
(* new connection.                                                         *)
(***************************************************************************)
EXTENDS Registry

CONSTANTS Socket,      \* Connection slots.
          Loopback,    \* The slots whose peer address is loopback.
          NoDevice,    \* No device: an administrator's socket, or none yet.
          MaxNonce     \* Bound: the number of challenges the model issues.

ASSUME SessionsAssumption ==
  /\ NoDevice \notin Device
  /\ Loopback \subseteq Socket
  /\ MaxNonce \in Nat

VARIABLES
  state,       \* state[s]: the session's State, "closed" before and after.
  dev,         \* dev[s]: State's device_id (NoDevice stands for None).
  nonce,       \* nonce[s]: the nonce State::AwaitingAuth holds, 0 for none.
  pc,          \* pc[s]: the critical section of the running handler.
  arg,         \* arg[s]: the device the running handler is about.
  snap,        \* snap[s]: list_devices' clone of the connected set.
  frame,       \* frame[s]: the device.changed payload about to be published.
  connected,   \* Engine::connected.
  panel,       \* The last device.changed published: what a panel shows.
  nextNonce,   \* The next challenge; randomness makes every nonce fresh.
  issued,      \* History: the challenges issued, and the socket each went to.
  answered,    \* History: the nonce whose signature made this socket ready.
  openedAt     \* History: nextNonce when this connection was opened.

sessionVars == <<state, dev, nonce, answered, openedAt>>
handlerVars == <<pc, arg, snap, frame>>
nonceVars   == <<nextNonce, issued>>
vars == <<registryVars, sessionVars, handlerVars, nonceVars, connected, panel>>

SessionState == {"closed", "unauthenticated", "awaiting", "ready", "dead"}
Step == {"read", "mark", "touch", "unmark", "clone", "list", "publish"}
Challenge == [socket : Socket, device : Device, nonce : 1..MaxNonce]
DeviceList == [paired : SUBSET Device, live : SUBSET Device]

TypeOK ==
  /\ RegistryTypeOK
  /\ state \in [Socket -> SessionState]
  /\ dev \in [Socket -> Device \cup {NoDevice}]
  /\ nonce \in [Socket -> 0..MaxNonce]
  /\ pc \in [Socket -> Step]
  /\ arg \in [Socket -> Device \cup {NoDevice}]
  /\ snap \in [Socket -> SUBSET Device]
  /\ frame \in [Socket -> DeviceList]
  /\ connected \in SUBSET Device
  /\ panel \in DeviceList
  /\ nextNonce \in 1..MaxNonce + 1
  /\ issued \in SUBSET Challenge
  /\ answered \in [Socket -> 0..MaxNonce]
  /\ openedAt \in [Socket -> 1..MaxNonce + 1]

-----------------------------------------------------------------------------
\* Registry::list: the registered devices, with live connection state layered on.
ListOf(live) == [paired |-> devices, live |-> devices \cap live]

Idle(s) == pc[s] = "read"
IsReady(s) == state[s] = "ready"
IsDeck(s) == IsReady(s) /\ dev[s] # NoDevice
IsAdmin(s) == IsReady(s) /\ dev[s] = NoDevice
\* dispatch::authorize for Access::PreAuth: an open socket, not ready yet.
PreAuth(s) == Idle(s) /\ state[s] \in {"unauthenticated", "awaiting"}

Init ==
  /\ RegistryInit
  /\ state = [s \in Socket |-> "closed"]
  /\ dev = [s \in Socket |-> NoDevice]
  /\ nonce = [s \in Socket |-> 0]
  /\ pc = [s \in Socket |-> "read"]
  /\ arg = [s \in Socket |-> NoDevice]
  /\ snap = [s \in Socket |-> {}]
  /\ frame = [s \in Socket |-> [paired |-> {}, live |-> {}]]
  /\ connected = {}
  /\ panel = ListOf({})
  /\ nextNonce = 1
  /\ issued = {}
  /\ answered = [s \in Socket |-> 0]
  /\ openedAt = [s \in Socket |-> 1]

-----------------------------------------------------------------------------
(* The handshake.  A frame that is refused - a wrong version, an op the     *)
(* session may not call, an unknown device, a signature that does not       *)
(* verify - is answered and leaves everything unchanged: a stuttering step. *)

\* connection(): a new socket and its Session.
Open(s) ==
  /\ state[s] = "closed"
  /\ state' = [state EXCEPT ![s] = "unauthenticated"]
  /\ answered' = [answered EXCEPT ![s] = 0]
  /\ openedAt' = [openedAt EXCEPT ![s] = nextNonce]
  /\ UNCHANGED <<registryVars, dev, nonce, handlerVars, nonceVars, connected, panel>>

\* Session::hello_admin: loopback and a matching token, in one round trip.
HelloAdmin(s, tokenMatches) ==
  /\ PreAuth(s)
  /\ s \in Loopback
  /\ tokenMatches
  /\ state' = [state EXCEPT ![s] = "ready"]
  /\ dev' = [dev EXCEPT ![s] = NoDevice]
  /\ nonce' = [nonce EXCEPT ![s] = 0]
  /\ UNCHANGED <<registryVars, answered, openedAt, handlerVars, nonceVars,
                 connected, panel>>

\* Mutant of HelloDeck: the nonce is not drawn afresh.
HelloDeck_SameNonce(s, d) ==
  /\ PreAuth(s)
  /\ d \in devices
  /\ state' = [state EXCEPT ![s] = "awaiting"]
  /\ dev' = [dev EXCEPT ![s] = d]
  /\ nonce' = [nonce EXCEPT ![s] = nextNonce]
  /\ issued' = issued \cup {[socket |-> s, device |-> d, nonce |-> nextNonce]}
  /\ UNCHANGED <<registryVars, nextNonce, answered, openedAt, handlerVars,
                 connected, panel>>

\* Session::hello_deck: a registered device gets a fresh challenge, which
\* replaces one still pending on this socket.
HelloDeck(s, d) ==
  /\ PreAuth(s)
  /\ d \in devices
  /\ nextNonce <= MaxNonce
  /\ state' = [state EXCEPT ![s] = "awaiting"]
  /\ dev' = [dev EXCEPT ![s] = d]
  /\ nonce' = [nonce EXCEPT ![s] = nextNonce]
  /\ issued' = issued \cup {[socket |-> s, device |-> d, nonce |-> nextNonce]}
  /\ nextNonce' = nextNonce + 1
  /\ UNCHANGED <<registryVars, answered, openedAt, handlerVars, connected, panel>>

\* Mutant of Verifies: the nonce is left out of the signed message.
Verifies_NoNonce(s, c) == c.device = dev[s]

\* verify_strict over nonce, device and host: the signature c answers the
\* challenge this session holds.
Verifies(s, c) == c.nonce = nonce[s] /\ c.device = dev[s]

\* Mutant of Auth: the device is read before the session is made ready.
Auth_NoDevice(s, c) ==
  /\ PreAuth(s)
  /\ state[s] = "awaiting"
  /\ dev[s] \in devices
  /\ Verifies(s, c)
  /\ state' = [state EXCEPT ![s] = "ready"]
  /\ nonce' = [nonce EXCEPT ![s] = 0]
  /\ answered' = [answered EXCEPT ![s] = c.nonce]
  /\ pc' = [pc EXCEPT ![s] = "mark"]
  /\ UNCHANGED <<registryVars, dev, openedAt, arg, snap, frame, nonceVars,
                 connected, panel>>

\* Session::handle_auth, under the registry lock.  The signature is an answer
\* to some challenge issued so far, this one or an earlier one.
Auth(s, c) ==
  /\ PreAuth(s)
  /\ state[s] = "awaiting"
  /\ dev[s] \in devices
  /\ Verifies(s, c)
  /\ state' = [state EXCEPT ![s] = "ready"]
  /\ nonce' = [nonce EXCEPT ![s] = 0]
  /\ answered' = [answered EXCEPT ![s] = c.nonce]
  /\ pc' = [pc EXCEPT ![s] = "mark"]
  /\ arg' = [arg EXCEPT ![s] = dev[s]]
  /\ UNCHANGED <<registryVars, dev, openedAt, snap, frame, nonceVars, connected, panel>>

-----------------------------------------------------------------------------
(* The critical sections that follow.                                      *)

\* session.auth: engine.mark_connected.
MarkConnected(s) ==
  /\ pc[s] = "mark"
  /\ connected' = connected \cup {arg[s]}
  /\ pc' = [pc EXCEPT ![s] = "touch"]
  /\ UNCHANGED <<registryVars, sessionVars, arg, snap, frame, nonceVars, panel>>

\* session.auth: registry.touch, whose error is dropped.
TouchDevice(s, ok) ==
  /\ pc[s] = "touch"
  /\ Touch(arg[s], ok)
  /\ pc' = [pc EXCEPT ![s] = "clone"]
  /\ UNCHANGED <<sessionVars, arg, snap, frame, nonceVars, connected, panel>>

\* Mutant of MarkDisconnected: the end of a socket forgets the set.
MarkDisconnected_NoRemove(s) ==
  /\ pc[s] = "unmark"
  /\ pc' = [pc EXCEPT ![s] = "clone"]
  /\ UNCHANGED <<registryVars, sessionVars, arg, snap, frame, nonceVars,
                 connected, panel>>

\* engine.mark_disconnected, from the socket's own end or from pair.revoke.
MarkDisconnected(s) ==
  /\ pc[s] = "unmark"
  /\ connected' = connected \ {arg[s]}
  /\ pc' = [pc EXCEPT ![s] = "clone"]
  /\ UNCHANGED <<registryVars, sessionVars, arg, snap, frame, nonceVars, panel>>

\* list_devices, first lock: clone the connected set.
CloneConnected(s) ==
  /\ pc[s] = "clone"
  /\ snap' = [snap EXCEPT ![s] = connected]
  /\ pc' = [pc EXCEPT ![s] = "list"]
  /\ UNCHANGED <<registryVars, sessionVars, arg, frame, nonceVars, connected, panel>>

\* list_devices, second lock: read the registry through that clone.
ListDevices(s) ==
  /\ pc[s] = "list"
  /\ frame' = [frame EXCEPT ![s] = ListOf(snap[s])]
  /\ snap' = [snap EXCEPT ![s] = {}]
  /\ pc' = [pc EXCEPT ![s] = "publish"]
  /\ UNCHANGED <<registryVars, sessionVars, arg, nonceVars, connected, panel>>

\* events.publish(device.changed); the socket then reads again, or is gone.
Publish(s) ==
  /\ pc[s] = "publish"
  /\ panel' = frame[s]
  /\ frame' = [frame EXCEPT ![s] = [paired |-> {}, live |-> {}]]
  /\ pc' = [pc EXCEPT ![s] = "read"]
  /\ arg' = [arg EXCEPT ![s] = NoDevice]
  /\ IF state[s] = "dead"
     THEN /\ state' = [state EXCEPT ![s] = "closed"]
          /\ dev' = [dev EXCEPT ![s] = NoDevice]
          /\ answered' = [answered EXCEPT ![s] = 0]
     ELSE UNCHANGED <<state, dev, answered>>
  /\ UNCHANGED <<registryVars, nonce, openedAt, snap, nonceVars, connected>>

-----------------------------------------------------------------------------
\* pair.revoke on an administrator's socket: the registry part.  A write that
\* fails, and a device that was not registered, end the handler here.
RevokeDevice(s, d, ok) ==
  /\ Idle(s)
  /\ IsAdmin(s)
  /\ Revoke(d, ok)
  /\ IF ok /\ d \in devices
     THEN /\ pc' = [pc EXCEPT ![s] = "unmark"]
          /\ arg' = [arg EXCEPT ![s] = d]
     ELSE UNCHANGED <<pc, arg>>
  /\ UNCHANGED <<sessionVars, snap, frame, nonceVars, connected, panel>>

\* pair.request on a socket that has not authenticated: the registry part, for
\* the handler that module Pairing models in full.
PairDevice(s, d, ok) ==
  /\ PreAuth(s)
  /\ Insert(d, ok)
  /\ IF ok THEN pc' = [pc EXCEPT ![s] = "clone"] ELSE UNCHANGED pc
  /\ UNCHANGED <<sessionVars, arg, snap, frame, nonceVars, connected, panel>>

\* Mutant of Leave: the loop returns early, past the clean-up.
Leave_NoCleanUp(s) ==
  /\ Idle(s)
  /\ nonce' = [nonce EXCEPT ![s] = 0]
  /\ state' = [state EXCEPT ![s] = "closed"]
  /\ dev' = [dev EXCEPT ![s] = NoDevice]
  /\ UNCHANGED <<registryVars, answered, openedAt, handlerVars, nonceVars,
                 connected, panel>>

\* The end of connection(): whatever device the session names is marked
\* disconnected, whether or not it ever authenticated.
Leave(s) ==
  /\ Idle(s)
  /\ nonce' = [nonce EXCEPT ![s] = 0]
  /\ IF dev[s] = NoDevice
     THEN /\ state' = [state EXCEPT ![s] = "closed"]
          /\ UNCHANGED <<pc, arg>>
     ELSE /\ state' = [state EXCEPT ![s] = "dead"]
          /\ pc' = [pc EXCEPT ![s] = "unmark"]
          /\ arg' = [arg EXCEPT ![s] = dev[s]]
  /\ UNCHANGED <<registryVars, dev, answered, openedAt, snap, frame, nonceVars,
                 connected, panel>>

\* The peer closed the socket, or a send failed.
Disconnect(s) ==
  /\ state[s] \in {"unauthenticated", "awaiting", "ready"}
  /\ Leave(s)

\* Mutant of TimeOut: the deadline is lifted once a challenge is out.
TimeOut_OnlyBeforeHello(s) ==
  /\ state[s] = "unauthenticated"
  /\ Leave(s)

\* read_with_deadline: AUTH_TIMEOUT passed before the session was ready.
TimeOut(s) ==
  /\ state[s] \in {"unauthenticated", "awaiting"}
  /\ Leave(s)

\* The daemon stops or crashes, at any point, and starts again.
Restart ==
  /\ Reload
  /\ state' = [s \in Socket |-> "closed"]
  /\ dev' = [s \in Socket |-> NoDevice]
  /\ nonce' = [s \in Socket |-> 0]
  /\ pc' = [s \in Socket |-> "read"]
  /\ arg' = [s \in Socket |-> NoDevice]
  /\ snap' = [s \in Socket |-> {}]
  /\ frame' = [s \in Socket |-> [paired |-> {}, live |-> {}]]
  /\ connected' = {}
  /\ panel' = [paired |-> disk, live |-> {}]
  /\ answered' = [s \in Socket |-> 0]
  /\ UNCHANGED <<nonceVars, openedAt>>

-----------------------------------------------------------------------------
Handler(s) ==
  \/ MarkConnected(s)
  \/ \E ok \in WriteOutcomes : TouchDevice(s, ok)
  \/ MarkDisconnected(s)
  \/ CloneConnected(s)
  \/ ListDevices(s)
  \/ Publish(s)

Next ==
  \/ \E s \in Socket :
       \/ Open(s)
       \/ \E t \in BOOLEAN : HelloAdmin(s, t)
       \/ \E d \in Device : HelloDeck(s, d)
       \/ \E c \in issued : Auth(s, c)
       \/ \E d \in Device, ok \in WriteOutcomes : RevokeDevice(s, d, ok)
       \/ \E d \in Device, ok \in WriteOutcomes : PairDevice(s, d, ok)
       \/ Disconnect(s)
       \/ TimeOut(s)
       \/ Handler(s)
  \/ Restart

\* A handler that has started runs to its end: it awaits nothing on the way.
\* timeout_at polls the socket before the clock, so the deadline bites on a
\* read that finds no frame waiting: a socket that keeps coming back to such a
\* read without being ready is closed in the end (strong fairness).
Fairness ==
  \A s \in Socket : WF_vars(Handler(s)) /\ SF_vars(TimeOut(s))

Spec == Init /\ [][Next]_vars /\ Fairness

-----------------------------------------------------------------------------
(* Safety.                                                                 *)

\* A device is shown as connected only while a socket that authenticated as it
\* is open, or has died and not yet run the end of connection(): no path leaves
\* a device connected for ever, whichever handlers interleave.
ConnectedIsLive ==
  \A d \in connected : \E s \in Socket :
    /\ dev[s] = d
    /\ \/ state[s] = "ready"
       \/ state[s] = "dead" /\ pc[s] = "unmark"

\* A deck's session rests on an answer to a challenge that was issued on this
\* very connection, to this very device - never on an answer left over from an
\* earlier connection, another socket or another device.
FreshChallenge ==
  \A s \in Socket : IsDeck(s) =>
    \E c \in issued :
      /\ c.nonce = answered[s]
      /\ c.socket = s
      /\ c.device = dev[s]
      /\ c.nonce >= openedAt[s]

\* No challenge is ever answered on two sockets at once.
ChallengeUsedOnce ==
  \A s, t \in Socket : IsDeck(s) /\ IsDeck(t) /\ s # t => answered[s] # answered[t]

\* A revoked device stays revoked: whatever is still running for it (a touch
\* after session.auth, a restart), only pairing puts a device that is neither
\* in memory nor on disk back into the registry.
OnlyPairingAdds ==
  [][\A d \in (devices' \cup disk') \ (devices \cup disk) :
       \E s \in Socket, ok \in WriteOutcomes : PairDevice(s, d, ok)]_vars

-----------------------------------------------------------------------------
(* Liveness.                                                               *)

\* docs/PROTOCOL.md 3: a socket that does not authenticate is closed.
AuthDeadline ==
  \A s \in Socket : state[s] \in {"unauthenticated", "awaiting"}
                      ~> state[s] \in {"ready", "dead", "closed"}

\* A device whose last socket has gone stops being shown as connected.
GoneIsNoticed ==
  \A d \in Device :
    d \in connected ~> \/ d \notin connected
                       \/ \E s \in Socket : dev[s] = d /\ state[s] = "ready"

-----------------------------------------------------------------------------
(* What the documentation says, and the code does not do.                  *)

NoHandlerRuns == \A s \in Socket : Idle(s)

\* docs/PROTOCOL.md 4.2: "Revoking closes any live socket for that device
\* immediately."  Once the handler of pair.revoke has finished, no deck's
\* session is left whose device is not registered.
RevokeClosesSockets ==
  NoHandlerRuns => \A s \in Socket : IsDeck(s) => dev[s] \in devices

=============================================================================
