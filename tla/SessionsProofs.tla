--------------------------- MODULE SessionsProofs ---------------------------
(***************************************************************************)
(* Proofs about module Sessions, for every set of devices, every number of *)
(* sockets and every bound on the number of challenges.                    *)
(***************************************************************************)
EXTENDS Sessions, TLAPS

-----------------------------------------------------------------------------
(* The inductive invariant.                                                *)

\* A handler that is about to change the set of connected devices is about a
\* device, never about "no device".
ArgIsDevice ==
  \A s \in Socket : pc[s] \in {"mark", "touch", "unmark"} => arg[s] \in Device

\* A socket about to be marked as connected is ready, as that device; a socket
\* that is dying is about to unmark the device it was ready as.
HandlerIsForSession ==
  \A s \in Socket :
    /\ pc[s] = "mark" => state[s] = "ready" /\ arg[s] = dev[s]
    /\ pc[s] = "unmark" /\ state[s] = "dead" => arg[s] = dev[s]

\* Every challenge was issued once, before now.
ChallengesDiffer ==
  /\ \A c \in issued : c.nonce < nextNonce
  /\ \A c, e \in issued : c.nonce = e.nonce => c = e

\* The challenge c was issued on this connection to the device it names.
IssuedHere(s, n) ==
  \E c \in issued : /\ c.nonce = n
                    /\ c.socket = s
                    /\ c.device = dev[s]
                    /\ c.nonce >= openedAt[s]

\* A socket that awaits an answer holds a challenge issued on its connection.
PendingIsIssued ==
  \A s \in Socket : state[s] = "awaiting" => IssuedHere(s, nonce[s])

OpenedBefore == \A s \in Socket : openedAt[s] <= nextNonce

TypeInv == TypeOK /\ ArgIsDevice
LiveInv == TypeInv /\ HandlerIsForSession /\ ConnectedIsLive
AuthInv == TypeInv /\ ChallengesDiffer /\ OpenedBefore /\ PendingIsIssued /\ FreshChallenge

-----------------------------------------------------------------------------
(* Types.                                                                  *)

\* The initial states are well typed.
LEMMA InitTypeInv == Init => TypeInv
  BY SessionsAssumption
     DEF Init, TypeInv, TypeOK, ArgIsDevice, RegistryTypeOK, RegistryInit, ListOf,
         SessionState, Step, DeviceList, Challenge

\* Every step keeps the variables well typed.
LEMMA NextTypeInv == TypeInv /\ [Next]_vars => TypeInv'
<1> SUFFICES ASSUME TypeInv, [Next]_vars PROVE TypeInv'
  OBVIOUS
<1> USE SessionsAssumption
    DEF TypeInv, TypeOK, ArgIsDevice, RegistryTypeOK, SessionState, Step, DeviceList,
        registryVars, sessionVars, handlerVars, nonceVars
<1>1. ASSUME NEW s \in Socket, Open(s) PROVE TypeInv'
  BY <1>1 DEF Open
<1>2. ASSUME NEW s \in Socket, NEW t \in BOOLEAN, HelloAdmin(s, t) PROVE TypeInv'
  BY <1>2 DEF HelloAdmin, PreAuth, Idle
<1>3. ASSUME NEW s \in Socket, NEW d \in Device, HelloDeck(s, d) PROVE TypeInv'
  <2>1. [socket |-> s, device |-> d, nonce |-> nextNonce] \in Challenge
    BY <1>3 DEF HelloDeck, Challenge
  <2> QED
    BY <1>3, <2>1 DEF HelloDeck, PreAuth, Idle
<1>4. ASSUME NEW s \in Socket, NEW c \in issued, Auth(s, c) PROVE TypeInv'
  <2>1. c.nonce \in 0..MaxNonce
    BY DEF Challenge
  <2>2. dev[s] \in Device
    BY <1>4 DEF Auth
  <2> QED
    BY <1>4, <2>1, <2>2 DEF Auth
<1>5. ASSUME NEW s \in Socket, MarkConnected(s) PROVE TypeInv'
  BY <1>5 DEF MarkConnected
<1>6. ASSUME NEW s \in Socket, NEW ok \in WriteOutcomes, TouchDevice(s, ok) PROVE TypeInv'
  BY <1>6 DEF TouchDevice, Touch, Persist
<1>7. ASSUME NEW s \in Socket, MarkDisconnected(s) PROVE TypeInv'
  BY <1>7 DEF MarkDisconnected
<1>8. ASSUME NEW s \in Socket, CloneConnected(s) PROVE TypeInv'
  BY <1>8 DEF CloneConnected
<1>9. ASSUME NEW s \in Socket, ListDevices(s) PROVE TypeInv'
  BY <1>9 DEF ListDevices, ListOf
<1>10. ASSUME NEW s \in Socket, Publish(s) PROVE TypeInv'
  <2>1. state' \in [Socket -> SessionState]
    <3>1. CASE state[s] = "dead"
      BY <1>10, <3>1 DEF Publish
    <3>2. CASE state[s] # "dead"
      BY <1>10, <3>2 DEF Publish
    <3> QED
      BY <3>1, <3>2
  <2>2. dev' \in [Socket -> Device \cup {NoDevice}]
    BY <1>10 DEF Publish
  <2>3. answered' \in [Socket -> 0..MaxNonce]
    <3>1. CASE state[s] = "dead"
      BY <1>10, <3>1 DEF Publish
    <3>2. CASE state[s] # "dead"
      BY <1>10, <3>2 DEF Publish
    <3> QED
      BY <3>1, <3>2
  <2>4. frame' \in [Socket -> DeviceList] /\ panel' \in DeviceList
    BY <1>10 DEF Publish
  <2>5. /\ pc' \in [Socket -> Step]
        /\ arg' \in [Socket -> Device \cup {NoDevice}]
        /\ ArgIsDevice'
    BY <1>10 DEF Publish
  <2>6. UNCHANGED <<devices, disk, nonce, openedAt, snap, nextNonce, issued, connected>>
    BY <1>10 DEF Publish
  <2> QED
    BY <2>1, <2>2, <2>3, <2>4, <2>5, <2>6
<1>11. ASSUME NEW s \in Socket, NEW d \in Device, NEW ok \in WriteOutcomes,
              RevokeDevice(s, d, ok)
       PROVE TypeInv'
  <2>1. devices' \in SUBSET Device /\ disk' \in SUBSET Device
    BY <1>11 DEF RevokeDevice, Revoke, Persist
  <2>2. /\ pc' \in [Socket -> Step]
        /\ arg' \in [Socket -> Device \cup {NoDevice}]
        /\ ArgIsDevice'
    <3> ok \in BOOLEAN
      BY WriteOutcomesAssumption
    <3>1. CASE ok /\ d \in devices
      <4>1. pc' = [pc EXCEPT ![s] = "unmark"] /\ arg' = [arg EXCEPT ![s] = d]
        BY <1>11, <3>1 DEF RevokeDevice
      <4>2. ArgIsDevice'
        BY <4>1
      <4> QED
        BY <4>1, <4>2
    <3>2. CASE ~(ok /\ d \in devices)
      BY <1>11, <3>2 DEF RevokeDevice
    <3> QED
      BY <3>1, <3>2
  <2> QED
    BY <1>11, <2>1, <2>2 DEF RevokeDevice
<1>12. ASSUME NEW s \in Socket, NEW d \in Device, NEW ok \in WriteOutcomes,
              PairDevice(s, d, ok)
       PROVE TypeInv'
  BY <1>12 DEF PairDevice, Insert, Persist
<1>13. ASSUME NEW s \in Socket, Leave(s) PROVE TypeInv'
  <2>1. CASE dev[s] = NoDevice
    BY <1>13, <2>1 DEF Leave
  <2>2. CASE dev[s] # NoDevice
    <3>1. /\ pc' = [pc EXCEPT ![s] = "unmark"]
          /\ arg' = [arg EXCEPT ![s] = dev[s]]
          /\ dev[s] \in Device
      BY <1>13, <2>2 DEF Leave
    <3>2. ArgIsDevice'
      BY <3>1
    <3> QED
      BY <1>13, <2>2, <3>1, <3>2 DEF Leave
  <2> QED
    BY <2>1, <2>2
<1>14. CASE Restart
  BY <1>14 DEF Restart, Reload
<1>15. CASE UNCHANGED vars
  BY <1>15 DEF vars
<1> QED
  BY <1>1, <1>2, <1>3, <1>4, <1>5, <1>6, <1>7, <1>8, <1>9, <1>10, <1>11, <1>12,
     <1>13, <1>14, <1>15
     DEF Next, Handler, Disconnect, TimeOut

\* Type correctness: every variable of the engine's sessions stays in its type.
THEOREM TypeCorrect == Spec => []TypeOK
<1>1. TypeInv => TypeOK
  BY DEF TypeInv
<1> QED
  BY InitTypeInv, NextTypeInv, <1>1, PTL DEF Spec

-----------------------------------------------------------------------------
(* Connected devices.                                                      *)

\* The socket s keeps device d connected.
Keeps(s, d) ==
  dev[s] = d /\ (state[s] = "ready" \/ (state[s] = "dead" /\ pc[s] = "unmark"))

\* A step of one socket disturbs neither the fields nor the claims of the others.
LEMMA OthersKeep ==
  ASSUME NEW s \in Socket,
         \A t \in Socket \ {s} : /\ dev'[t] = dev[t]
                                 /\ state'[t] = state[t]
                                 /\ pc'[t] = pc[t],
         ConnectedIsLive,
         connected' \subseteq connected,
         \A d \in connected' : Keeps(s, d) => Keeps(s, d)'
  PROVE  ConnectedIsLive'
  <1> SUFFICES ASSUME NEW d \in connected' PROVE \E t \in Socket : Keeps(t, d)'
    BY DEF ConnectedIsLive, Keeps
  <1>1. PICK t \in Socket : Keeps(t, d)
    BY DEF ConnectedIsLive, Keeps
  <1>2. CASE t = s
    BY <1>1, <1>2
  <1>3. CASE t # s
    BY <1>1, <1>3 DEF Keeps
  <1> QED
    BY <1>2, <1>3

\* The initial states satisfy the inductive invariant.
LEMMA InitLiveInv == Init => LiveInv
  BY InitTypeInv DEF Init, LiveInv, HandlerIsForSession, ConnectedIsLive

\* Every step keeps the handlers in line with their sessions.
LEMMA NextHandlerIsForSession ==
  TypeInv /\ HandlerIsForSession /\ [Next]_vars => HandlerIsForSession'
<1> SUFFICES ASSUME TypeInv, HandlerIsForSession, [Next]_vars
             PROVE HandlerIsForSession'
  OBVIOUS
<1>0. /\ state \in [Socket -> SessionState] /\ pc \in [Socket -> Step]
      /\ dev \in [Socket -> Device \cup {NoDevice}]
      /\ arg \in [Socket -> Device \cup {NoDevice}]
  BY DEF TypeInv, TypeOK
<1> USE <1>0 DEF HandlerIsForSession, registryVars, sessionVars, handlerVars, nonceVars
<1>1. ASSUME NEW s \in Socket, Open(s) PROVE HandlerIsForSession'
  BY <1>1 DEF Open
<1>2. ASSUME NEW s \in Socket, NEW t \in BOOLEAN, HelloAdmin(s, t)
      PROVE HandlerIsForSession'
  BY <1>2 DEF HelloAdmin, PreAuth, Idle
<1>3. ASSUME NEW s \in Socket, NEW d \in Device, HelloDeck(s, d)
      PROVE HandlerIsForSession'
  BY <1>3 DEF HelloDeck, PreAuth, Idle
<1>4. ASSUME NEW s \in Socket, NEW c \in issued, Auth(s, c) PROVE HandlerIsForSession'
  BY <1>4 DEF Auth
<1>5. ASSUME NEW s \in Socket, MarkConnected(s) PROVE HandlerIsForSession'
  BY <1>5 DEF MarkConnected
<1>6. ASSUME NEW s \in Socket, NEW ok \in WriteOutcomes, TouchDevice(s, ok)
      PROVE HandlerIsForSession'
  BY <1>6 DEF TouchDevice
<1>7. ASSUME NEW s \in Socket, MarkDisconnected(s) PROVE HandlerIsForSession'
  BY <1>7 DEF MarkDisconnected
<1>8. ASSUME NEW s \in Socket, CloneConnected(s) PROVE HandlerIsForSession'
  BY <1>8 DEF CloneConnected
<1>9. ASSUME NEW s \in Socket, ListDevices(s) PROVE HandlerIsForSession'
  BY <1>9 DEF ListDevices
<1>10. ASSUME NEW s \in Socket, Publish(s) PROVE HandlerIsForSession'
  <2>1. CASE state[s] = "dead"
    BY <1>10, <2>1 DEF Publish
  <2>2. CASE state[s] # "dead"
    BY <1>10, <2>2 DEF Publish
  <2> QED
    BY <2>1, <2>2
<1>11. ASSUME NEW s \in Socket, NEW d \in Device, NEW ok \in WriteOutcomes,
              RevokeDevice(s, d, ok)
       PROVE HandlerIsForSession'
  BY <1>11 DEF RevokeDevice, IsAdmin, IsReady, Idle
<1>12. ASSUME NEW s \in Socket, NEW d \in Device, NEW ok \in WriteOutcomes,
              PairDevice(s, d, ok)
       PROVE HandlerIsForSession'
  BY <1>12 DEF PairDevice, PreAuth, Idle
<1>13. ASSUME NEW s \in Socket, Leave(s) PROVE HandlerIsForSession'
  <2>1. CASE dev[s] = NoDevice
    BY <1>13, <2>1 DEF Leave, Idle
  <2>2. CASE dev[s] # NoDevice
    BY <1>13, <2>2 DEF Leave, Idle
  <2> QED
    BY <2>1, <2>2
<1>14. CASE Restart
  BY <1>14 DEF Restart
<1>15. CASE UNCHANGED vars
  BY <1>15 DEF vars
<1> QED
  BY <1>1, <1>2, <1>3, <1>4, <1>5, <1>6, <1>7, <1>8, <1>9, <1>10, <1>11, <1>12,
     <1>13, <1>14, <1>15
     DEF Next, Handler, Disconnect, TimeOut

\* Every step keeps each connected device connected by a live socket.
LEMMA NextConnectedIsLive == LiveInv /\ [Next]_vars => ConnectedIsLive'
<1> SUFFICES ASSUME LiveInv, [Next]_vars PROVE ConnectedIsLive'
  OBVIOUS
<1>0. /\ state \in [Socket -> SessionState] /\ pc \in [Socket -> Step]
      /\ dev \in [Socket -> Device \cup {NoDevice}]
      /\ connected \subseteq Device
      /\ HandlerIsForSession /\ ConnectedIsLive
  BY DEF LiveInv, TypeInv, TypeOK
<1>a. NoDevice \notin connected
  BY <1>0, SessionsAssumption
<1> USE <1>0, <1>a, OthersKeep
    DEF Keeps, registryVars, sessionVars, handlerVars, nonceVars
<1>1. ASSUME NEW s \in Socket, Open(s) PROVE ConnectedIsLive'
  BY <1>1 DEF Open
<1>2. ASSUME NEW s \in Socket, NEW t \in BOOLEAN, HelloAdmin(s, t) PROVE ConnectedIsLive'
  BY <1>2 DEF HelloAdmin, PreAuth, Idle
<1>3. ASSUME NEW s \in Socket, NEW d \in Device, HelloDeck(s, d) PROVE ConnectedIsLive'
  BY <1>3 DEF HelloDeck, PreAuth, Idle
<1>4. ASSUME NEW s \in Socket, NEW c \in issued, Auth(s, c) PROVE ConnectedIsLive'
  BY <1>4 DEF Auth
<1>5. ASSUME NEW s \in Socket, MarkConnected(s) PROVE ConnectedIsLive'
  <2>1. state[s] = "ready" /\ arg[s] = dev[s] /\ UNCHANGED <<state, dev>>
    BY <1>5 DEF MarkConnected, HandlerIsForSession
  <2>2. pc' = [pc EXCEPT ![s] = "touch"] /\ pc[s] = "mark"
    BY <1>5 DEF MarkConnected
  <2> SUFFICES ASSUME NEW d \in connected' PROVE \E t \in Socket : Keeps(t, d)'
    BY DEF ConnectedIsLive
  <2>3. CASE d = arg[s]
    BY <2>1, <2>3
  <2>4. CASE d # arg[s]
    <3>1. d \in connected
      BY <1>5, <2>4 DEF MarkConnected
    <3>2. PICK t \in Socket : Keeps(t, d)
      BY <3>1 DEF ConnectedIsLive
    <3> QED
      BY <2>1, <2>2, <3>2
  <2> QED
    BY <2>3, <2>4
<1>6. ASSUME NEW s \in Socket, NEW ok \in WriteOutcomes, TouchDevice(s, ok)
      PROVE ConnectedIsLive'
  BY <1>6 DEF TouchDevice
<1>7. ASSUME NEW s \in Socket, MarkDisconnected(s) PROVE ConnectedIsLive'
  <2>1. state[s] = "dead" => arg[s] = dev[s]
    BY <1>7 DEF MarkDisconnected, HandlerIsForSession
  <2> QED
    BY <1>7, <2>1 DEF MarkDisconnected
<1>8. ASSUME NEW s \in Socket, CloneConnected(s) PROVE ConnectedIsLive'
  BY <1>8 DEF CloneConnected
<1>9. ASSUME NEW s \in Socket, ListDevices(s) PROVE ConnectedIsLive'
  BY <1>9 DEF ListDevices
<1>10. ASSUME NEW s \in Socket, Publish(s) PROVE ConnectedIsLive'
  <2>1. CASE state[s] = "dead"
    BY <1>10, <2>1 DEF Publish
  <2>2. CASE state[s] # "dead"
    BY <1>10, <2>2 DEF Publish
  <2> QED
    BY <2>1, <2>2
<1>11. ASSUME NEW s \in Socket, NEW d \in Device, NEW ok \in WriteOutcomes,
              RevokeDevice(s, d, ok)
       PROVE ConnectedIsLive'
  BY <1>11 DEF RevokeDevice, IsAdmin, IsReady, Idle
<1>12. ASSUME NEW s \in Socket, NEW d \in Device, NEW ok \in WriteOutcomes,
              PairDevice(s, d, ok)
       PROVE ConnectedIsLive'
  BY <1>12 DEF PairDevice, PreAuth, Idle
<1>13. ASSUME NEW s \in Socket, Leave(s) PROVE ConnectedIsLive'
  <2>1. CASE dev[s] = NoDevice
    BY <1>13, <2>1 DEF Leave, Idle
  <2>2. CASE dev[s] # NoDevice
    BY <1>13, <2>2 DEF Leave, Idle
  <2> QED
    BY <2>1, <2>2
<1>14. CASE Restart
  BY <1>14 DEF Restart, ConnectedIsLive
<1>15. CASE UNCHANGED vars
  BY <1>15 DEF vars, ConnectedIsLive
<1> QED
  BY <1>1, <1>2, <1>3, <1>4, <1>5, <1>6, <1>7, <1>8, <1>9, <1>10, <1>11, <1>12,
     <1>13, <1>14, <1>15
     DEF Next, Handler, Disconnect, TimeOut

\* A device is shown as connected only while a socket of its own is open, or has
\* died and not yet run its clean-up (engine.rs mark_connected and
\* mark_disconnected, called from server.rs).
THEOREM ConnectedCorrect == Spec => []ConnectedIsLive
<1>1. LiveInv /\ [Next]_vars => LiveInv'
  BY NextTypeInv, NextHandlerIsForSession, NextConnectedIsLive DEF LiveInv
<1>2. LiveInv => ConnectedIsLive
  BY DEF LiveInv
<1> QED
  BY InitLiveInv, <1>1, <1>2, PTL DEF Spec

-----------------------------------------------------------------------------
(* Challenges.                                                             *)

\* What the authentication invariant says of one socket.
SocketAuth(s) ==
  /\ openedAt[s] <= nextNonce
  /\ state[s] = "awaiting" => IssuedHere(s, nonce[s])
  /\ IsDeck(s) => IssuedHere(s, answered[s])

\* The authentication invariant is what it says of each socket.
LEMMA AuthBySocket ==
  AuthInv <=> TypeInv /\ ChallengesDiffer /\ \A s \in Socket : SocketAuth(s)
  BY DEF AuthInv, SocketAuth, OpenedBefore, PendingIsIssued, FreshChallenge, IssuedHere

\* A step that leaves a socket's session alone, or closes it, and takes no
\* challenge back leaves what the invariant says of it true.
LEMMA SocketAuthKept ==
  ASSUME NEW s \in Socket, SocketAuth(s),
         nextNonce \in Nat, nextNonce' \in Nat, openedAt[s] \in Nat,
         nextNonce <= nextNonce', issued \subseteq issued',
         dev'[s] = dev[s], nonce'[s] = nonce[s], answered'[s] = answered[s],
         openedAt'[s] = openedAt[s],
         state'[s] = state[s] \/ state'[s] \in {"closed", "unauthenticated", "dead"}
  PROVE  SocketAuth(s)'
  <1>1. openedAt'[s] <= nextNonce'
    BY DEF SocketAuth
  <1>2. ASSUME NEW n, IssuedHere(s, n) PROVE IssuedHere(s, n)'
    BY <1>2 DEF IssuedHere
  <1>3. ASSUME state'[s] = "awaiting" PROVE IssuedHere(s, nonce[s])'
    BY <1>2, <1>3 DEF SocketAuth, IssuedHere
  <1>4. ASSUME IsDeck(s)' PROVE IssuedHere(s, answered[s])'
    BY <1>2, <1>4 DEF SocketAuth, IssuedHere, IsDeck, IsReady
  <1> QED
    BY <1>1, <1>3, <1>4 DEF SocketAuth

\* The initial states satisfy the authentication invariant.
LEMMA InitAuthInv == Init => AuthInv
<1> SUFFICES ASSUME Init PROVE AuthInv
  OBVIOUS
<1>1. TypeInv
  BY InitTypeInv
<1>2. ChallengesDiffer
  BY DEF Init, ChallengesDiffer
<1>3. ASSUME NEW s \in Socket PROVE SocketAuth(s)
  BY DEF Init, SocketAuth, IsDeck, IsReady
<1> QED
  BY <1>1, <1>2, <1>3, AuthBySocket

\* Every step keeps the authentication invariant.
LEMMA NextAuthInv == AuthInv /\ [Next]_vars => AuthInv'
<1> SUFFICES ASSUME AuthInv, [Next]_vars PROVE AuthInv'
  OBVIOUS
<1> DEFINE Good == ChallengesDiffer' /\ \A t \in Socket : SocketAuth(t)'
<1>0. /\ TypeInv /\ ChallengesDiffer /\ \A s \in Socket : SocketAuth(s)
      /\ nextNonce \in Nat /\ openedAt \in [Socket -> 1..MaxNonce + 1]
      /\ state \in [Socket -> SessionState] /\ dev \in [Socket -> Device \cup {NoDevice}]
      /\ nonce \in [Socket -> 0..MaxNonce] /\ answered \in [Socket -> 0..MaxNonce]
      /\ issued \subseteq Challenge
      /\ \A s \in Socket : openedAt[s] \in Nat
  BY AuthBySocket, SessionsAssumption DEF TypeInv, TypeOK
<1>a. ASSUME UNCHANGED nonceVars PROVE ChallengesDiffer'
  BY <1>a, <1>0 DEF ChallengesDiffer, nonceVars
<1>b. ASSUME UNCHANGED <<state, dev, nonce, answered, openedAt, nextNonce, issued>>
      PROVE Good
  BY <1>0, <1>a, <1>b, SocketAuthKept DEF nonceVars
<1>1. ASSUME NEW s \in Socket, Open(s) PROVE Good
  <2>1. ChallengesDiffer'
    BY <1>1, <1>a DEF Open
  <2>2. SocketAuth(s)'
    BY <1>1, <1>0 DEF Open, SocketAuth, IsDeck, IsReady, nonceVars
  <2>3. ASSUME NEW t \in Socket \ {s} PROVE SocketAuth(t)'
    BY <1>1, <1>0, SocketAuthKept DEF Open, nonceVars
  <2> QED
    BY <2>1, <2>2, <2>3
<1>2. ASSUME NEW s \in Socket, NEW b \in BOOLEAN, HelloAdmin(s, b) PROVE Good
  <2>1. ChallengesDiffer'
    BY <1>2, <1>a DEF HelloAdmin
  <2>2. SocketAuth(s)'
    BY <1>2, <1>0 DEF HelloAdmin, SocketAuth, IsDeck, IsReady, nonceVars
  <2>3. ASSUME NEW t \in Socket \ {s} PROVE SocketAuth(t)'
    BY <1>2, <1>0, SocketAuthKept DEF HelloAdmin, nonceVars
  <2> QED
    BY <2>1, <2>2, <2>3
<1>3. ASSUME NEW s \in Socket, NEW d \in Device, HelloDeck(s, d) PROVE Good
  <2> DEFINE new == [socket |-> s, device |-> d, nonce |-> nextNonce]
  <2>1. /\ issued' = issued \cup {new} /\ nextNonce' = nextNonce + 1
        /\ state' = [state EXCEPT ![s] = "awaiting"]
        /\ dev' = [dev EXCEPT ![s] = d] /\ nonce' = [nonce EXCEPT ![s] = nextNonce]
        /\ UNCHANGED <<answered, openedAt>>
    BY <1>3 DEF HelloDeck
  <2>2. \A c \in issued : c.nonce \in Nat
    BY <1>0, SessionsAssumption DEF Challenge
  <2>3. ChallengesDiffer'
    BY <1>0, <2>1, <2>2 DEF ChallengesDiffer
  <2>4. IssuedHere(s, nonce[s])'
    <3>1. new \in issued' /\ new.nonce = nonce'[s] /\ new.socket = s /\ new.device = dev'[s]
      BY <1>0, <2>1
    <3>2. new.nonce >= openedAt'[s]
      BY <1>0, <2>1 DEF SocketAuth
    <3> QED
      BY <3>1, <3>2 DEF IssuedHere
  <2>5. SocketAuth(s)'
    BY <1>0, <2>1, <2>4 DEF SocketAuth, IsDeck, IsReady
  <2>6. ASSUME NEW t \in Socket \ {s} PROVE SocketAuth(t)'
    BY <1>0, <2>1, SocketAuthKept
  <2> QED
    BY <2>3, <2>5, <2>6
<1>4. ASSUME NEW s \in Socket, NEW c \in issued, Auth(s, c) PROVE Good
  <2>1. ChallengesDiffer'
    BY <1>4, <1>a DEF Auth
  <2>2. IssuedHere(s, answered[s])'
    BY <1>4, <1>0 DEF Auth, SocketAuth, IssuedHere, Verifies, nonceVars
  <2>3. SocketAuth(s)'
    BY <1>4, <1>0, <2>2 DEF Auth, SocketAuth, nonceVars
  <2>4. ASSUME NEW t \in Socket \ {s} PROVE SocketAuth(t)'
    BY <1>4, <1>0, SocketAuthKept DEF Auth, nonceVars
  <2> QED
    BY <2>1, <2>3, <2>4
<1>5. ASSUME NEW s \in Socket,
             MarkConnected(s) \/ (\E ok \in WriteOutcomes : TouchDevice(s, ok))
               \/ MarkDisconnected(s) \/ CloneConnected(s) \/ ListDevices(s)
      PROVE Good
  BY <1>5, <1>b DEF MarkConnected, TouchDevice, MarkDisconnected, CloneConnected,
     ListDevices, sessionVars, nonceVars
<1>6. ASSUME NEW s \in Socket, Publish(s) PROVE Good
  <2>1. CASE state[s] = "dead"
    <3>1. SocketAuth(s)'
      BY <1>6, <2>1, <1>0 DEF Publish, SocketAuth, IsDeck, IsReady, nonceVars
    <3>2. ASSUME NEW t \in Socket \ {s} PROVE SocketAuth(t)'
      BY <1>6, <2>1, <1>0, SocketAuthKept DEF Publish, nonceVars
    <3> QED
      BY <1>6, <3>1, <3>2, <1>a DEF Publish
  <2>2. CASE state[s] # "dead"
    BY <1>6, <2>2, <1>b DEF Publish, nonceVars
  <2> QED
    BY <2>1, <2>2
<1>7. ASSUME NEW s \in Socket, NEW d \in Device, NEW ok \in WriteOutcomes,
             RevokeDevice(s, d, ok) \/ PairDevice(s, d, ok)
      PROVE Good
  BY <1>7, <1>b DEF RevokeDevice, PairDevice, sessionVars, nonceVars
<1>8. ASSUME NEW s \in Socket, Leave(s) PROVE Good
  <2>1. ChallengesDiffer'
    BY <1>8, <1>a DEF Leave
  <2>2. SocketAuth(s)'
    BY <1>8, <1>0 DEF Leave, SocketAuth, IsDeck, IsReady, nonceVars
  <2>3. ASSUME NEW t \in Socket \ {s} PROVE SocketAuth(t)'
    <3>1. state'[t] = state[t] /\ nonce'[t] = nonce[t]
      BY <1>8, <1>0 DEF Leave
    <3> QED
      BY <1>8, <1>0, <3>1, SocketAuthKept DEF Leave, nonceVars
  <2> QED
    BY <2>1, <2>2, <2>3
<1>9. ASSUME Restart PROVE Good
  BY <1>9, <1>0, <1>a DEF Restart, SocketAuth, IsDeck, IsReady, nonceVars
<1>10. ASSUME UNCHANGED vars PROVE Good
  BY <1>10, <1>b DEF vars, sessionVars, nonceVars
<1>11. Good
  BY <1>1, <1>2, <1>3, <1>4, <1>5, <1>6, <1>7, <1>8, <1>9, <1>10
     DEF Next, Handler, Disconnect, TimeOut
<1>12. TypeInv'
  BY <1>0, NextTypeInv
<1> QED
  BY <1>11, <1>12
     DEF AuthInv, SocketAuth, OpenedBefore, PendingIsIssued, FreshChallenge, IssuedHere

\* A deck's session rests on an answer to a challenge issued on this connection,
\* to this device (session.rs handle_hello and handle_auth).
THEOREM FreshCorrect == Spec => []FreshChallenge
<1>1. AuthInv => FreshChallenge
  BY DEF AuthInv
<1> QED
  BY InitAuthInv, NextAuthInv, <1>1, PTL DEF Spec

\* No challenge is ever answered on two sockets at once: the authentication
\* invariant ties the answer to the socket its challenge was issued on.
THEOREM UsedOnceCorrect == Spec => []ChallengeUsedOnce
<1>1. AuthInv => ChallengeUsedOnce
  <2> SUFFICES ASSUME AuthInv, NEW s \in Socket, NEW t \in Socket,
                      IsDeck(s), IsDeck(t), answered[s] = answered[t]
               PROVE  s = t
    BY DEF ChallengeUsedOnce
  <2>1. PICK c \in issued : c.nonce = answered[s] /\ c.socket = s
    BY DEF AuthInv, FreshChallenge
  <2>2. PICK e \in issued : e.nonce = answered[t] /\ e.socket = t
    BY DEF AuthInv, FreshChallenge
  <2> QED
    BY <2>1, <2>2 DEF AuthInv, ChallengesDiffer
<1> QED
  BY InitAuthInv, NextAuthInv, <1>1, PTL DEF Spec

-----------------------------------------------------------------------------
(* The registry.                                                           *)

\* Nothing but pairing puts a device that is neither in memory nor on disk back
\* into the registry: not the touch after session.auth, not a restart
\* (registry.rs insert, revoke, touch and load).
THEOREM PairingOnly == Spec => OnlyPairingAdds
<1> DEFINE Paired(d) == \E s \in Socket, ok \in WriteOutcomes : PairDevice(s, d, ok)
           Only == \A d \in (devices' \cup disk') \ (devices \cup disk) : Paired(d)
<1>0. ASSUME devices' \subseteq devices \cup disk, disk' \subseteq devices \cup disk
      PROVE  Only
  BY <1>0
<1>1. ASSUME Next PROVE Only
  <2>1. ASSUME NEW s \in Socket, NEW d \in Device, NEW ok \in WriteOutcomes,
               PairDevice(s, d, ok)
        PROVE  Only
    BY <2>1 DEF PairDevice, Insert, Persist
  <2>2. ASSUME NEW s \in Socket, NEW d \in Device, NEW ok \in WriteOutcomes,
               RevokeDevice(s, d, ok)
        PROVE  Only
    <3>1. devices' \subseteq devices /\ disk' \in {devices', disk}
      BY <2>2 DEF RevokeDevice, Revoke, Persist
    <3> QED
      BY <3>1, <1>0
  <2>3. ASSUME NEW s \in Socket, NEW ok \in WriteOutcomes, TouchDevice(s, ok) PROVE Only
    <3>1. devices' = devices /\ disk' \in {devices, disk}
      BY <2>3 DEF TouchDevice, Touch, Persist
    <3> QED
      BY <3>1, <1>0
  <2>4. CASE Restart
    <3>1. devices' = disk /\ disk' = disk
      BY <2>4 DEF Restart, Reload
    <3> QED
      BY <3>1, <1>0
  <2>5. CASE UNCHANGED registryVars
    BY <2>5, <1>0 DEF registryVars
  <2> QED
    BY <1>1, <2>1, <2>2, <2>3, <2>4, <2>5
       DEF Next, Handler, Open, HelloAdmin, HelloDeck, Auth, Disconnect, TimeOut, Leave,
           MarkConnected, MarkDisconnected, CloneConnected, ListDevices, Publish
<1>2. ASSUME UNCHANGED vars PROVE Only
  BY <1>2, <1>0 DEF vars, registryVars
<1>3. [Next]_vars => [Only]_vars
  BY <1>1, <1>2
<1> QED
  BY <1>3, PTL DEF Spec, OnlyPairingAdds

=============================================================================
