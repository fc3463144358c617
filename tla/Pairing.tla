------------------------------- MODULE Pairing -------------------------------
(***************************************************************************)
(* The pairing window and the handlers that use it: pair.begin and         *)
(* pair.cancel on a panel's socket, pair.request on a device's socket      *)
(* (server.rs, pairing.rs, engine.rs).                                     *)
(*                                                                         *)
(* pair.request takes a copy of the window, checks the code and the proof  *)
(* against the copy, inserts the device into the registry, closes the      *)
(* window that is open by then, announces that, and answers.  Each is a    *)
(* critical section of its own, and the handlers of other sockets run in   *)
(* between.  A window is identified by its code, drawn afresh by           *)
(* PairingWindow::open.                                                    *)
(***************************************************************************)
EXTENDS Registry

CONSTANTS Requester,   \* Sockets on which devices ask to be paired.
          Panel,       \* Sockets of administrators.
          MaxWindow    \* Bound: the number of windows the model opens.

ASSUME PairingAssumption ==
  /\ Requester \cap Panel = {}
  /\ MaxWindow \in Nat

VARIABLES
  window,      \* Engine::pairing: the window that is open, 0 for none.
  lastWindow,  \* The last window opened.
  pc,          \* pc[s]: the critical section socket s runs next.
  copy,        \* copy[s]: the window the handler of s works with.
  applicant,   \* applicant[s]: the device whose proof the handler of s checked.
  announced,   \* The last pairing.state published: the active window, or 0.
  stored,      \* History: devices whose pairing was saved, not revoked since.
  spent,       \* History: the windows in which a pairing has been answered.
  admitted,    \* History: admitted[w] is the set of devices paired in window w.
  expired      \* History: the windows that ran out.

handlerVars == <<pc, copy, applicant>>
historyVars == <<stored, spent, admitted, expired>>
vars == <<registryVars, window, lastWindow, handlerVars, announced, historyVars>>

Socket == Requester \cup Panel
Window == 1..MaxWindow
Step == {"read", "insert", "close", "announceClosed", "reply", "announceOpen"}

TypeOK ==
  /\ RegistryTypeOK
  /\ window \in 0..MaxWindow
  /\ lastWindow \in 0..MaxWindow
  /\ pc \in [Socket -> Step]
  /\ copy \in [Socket -> 0..MaxWindow]
  /\ applicant \in [Socket -> SUBSET Device]
  /\ announced \in 0..MaxWindow
  /\ stored \in SUBSET Device
  /\ spent \in SUBSET Window
  /\ admitted \in [Window -> SUBSET Device]
  /\ expired \in SUBSET Window

Init ==
  /\ RegistryInit
  /\ window = 0
  /\ lastWindow = 0
  /\ pc = [s \in Socket |-> "read"]
  /\ copy = [s \in Socket |-> 0]
  /\ applicant = [s \in Socket |-> {}]
  /\ announced = 0
  /\ stored = devices
  /\ spent = {}
  /\ admitted = [w \in Window |-> {}]
  /\ expired = {}

-----------------------------------------------------------------------------
(* pair.request.  A refusal - no open window, another code, a proof that    *)
(* does not verify - changes nothing.                                       *)

\* PairBeginResponse::code: a code is known once the panel that asked for it has its answer.
Displayed(code) == code <= lastWindow /\ \A p \in Panel : copy[p] # code

\* pairing_window() and verify_pair_request: the request's code is that of the
\* window in the copy, and the proof shows the device holds its key.
Request(s, d, code) ==
  /\ pc[s] = "read"
  /\ Displayed(code)
  /\ window # 0
  /\ code = window
  /\ copy' = [copy EXCEPT ![s] = window]
  /\ applicant' = [applicant EXCEPT ![s] = {d}]
  /\ pc' = [pc EXCEPT ![s] = "insert"]
  /\ UNCHANGED <<registryVars, window, lastWindow, announced, historyVars>>

\* registry.insert; an error from the write is the handler's answer.
Enrol(s, d, ok) ==
  /\ pc[s] = "insert"
  /\ applicant[s] = {d}
  /\ Insert(d, ok)
  /\ admitted' = [admitted EXCEPT ![copy[s]] = @ \cup {d}]
  /\ IF ok
     THEN /\ pc' = [pc EXCEPT ![s] = "close"]
          /\ stored' = stored \cup {d}
          /\ UNCHANGED <<copy, applicant>>
     ELSE /\ pc' = [pc EXCEPT ![s] = "read"]
          /\ copy' = [copy EXCEPT ![s] = 0]
          /\ applicant' = [applicant EXCEPT ![s] = {}]
          /\ UNCHANGED stored
  /\ UNCHANGED <<window, lastWindow, announced, spent, expired>>

\* Mutant of ClosePairing: the window is left to expire.
ClosePairing_LeftOpen(s) ==
  /\ pc[s] = "close"
  /\ pc' = [pc EXCEPT ![s] = "announceClosed"]
  /\ UNCHANGED <<registryVars, window, lastWindow, copy, applicant, announced,
                 historyVars>>

\* engine.close_pairing: whichever window is open is closed.
ClosePairing(s) ==
  /\ pc[s] = "close"
  /\ window' = 0
  /\ pc' = [pc EXCEPT ![s] = "announceClosed"]
  /\ UNCHANGED <<registryVars, lastWindow, copy, applicant, announced, historyVars>>

\* events.publish(pairing.state), inactive; pair.cancel then answers.
AnnounceClosed(s) ==
  /\ pc[s] = "announceClosed"
  /\ announced' = 0
  /\ pc' = [pc EXCEPT ![s] = IF s \in Requester THEN "reply" ELSE "read"]
  /\ UNCHANGED <<registryVars, window, lastWindow, copy, applicant, historyVars>>

\* Mutant of Reply: the answer goes by the window that is open by then.
Reply_LateRead(s) ==
  /\ pc[s] = "reply"
  /\ spent' = spent \cup {window}
  /\ pc' = [pc EXCEPT ![s] = "read"]
  /\ copy' = [copy EXCEPT ![s] = 0]
  /\ applicant' = [applicant EXCEPT ![s] = {}]
  /\ UNCHANGED <<registryVars, window, lastWindow, announced, stored, admitted, expired>>

\* The answer to pair.request (module Sessions has the device.changed before it).
Reply(s) ==
  /\ pc[s] = "reply"
  /\ spent' = spent \cup {copy[s]}
  /\ pc' = [pc EXCEPT ![s] = "read"]
  /\ copy' = [copy EXCEPT ![s] = 0]
  /\ applicant' = [applicant EXCEPT ![s] = {}]
  /\ UNCHANGED <<registryVars, window, lastWindow, announced, stored, admitted, expired>>

-----------------------------------------------------------------------------
(* The panel's side, and time.                                              *)

\* pair.begin: engine.open_pairing replaces the window, if one is open.
Begin(p) ==
  /\ pc[p] = "read"
  /\ lastWindow < MaxWindow
  /\ lastWindow' = lastWindow + 1
  /\ window' = lastWindow'
  /\ copy' = [copy EXCEPT ![p] = lastWindow']
  /\ pc' = [pc EXCEPT ![p] = "announceOpen"]
  /\ UNCHANGED <<registryVars, applicant, announced, historyVars>>

\* pair.begin: events.publish(pairing.state), active, and the answer.
AnnounceOpen(p) ==
  /\ pc[p] = "announceOpen"
  /\ announced' = copy[p]
  /\ copy' = [copy EXCEPT ![p] = 0]
  /\ pc' = [pc EXCEPT ![p] = "read"]
  /\ UNCHANGED <<registryVars, window, lastWindow, applicant, historyVars>>

\* pair.cancel: engine.close_pairing.
Cancel(p) ==
  /\ pc[p] = "read"
  /\ window' = 0
  /\ pc' = [pc EXCEPT ![p] = "announceClosed"]
  /\ UNCHANGED <<registryVars, lastWindow, copy, applicant, announced, historyVars>>

\* PairingWindow::is_open turns false: every reader treats the window as None.
Expire ==
  /\ window # 0
  /\ window' = 0
  /\ expired' = expired \cup {window}
  /\ UNCHANGED <<registryVars, lastWindow, handlerVars, announced, stored, spent, admitted>>

\* pair.revoke and the touch of session.auth, which module Sessions has in full.
RevokeDevice(d, ok) ==
  /\ Revoke(d, ok)
  /\ stored' = stored \ {d}
  /\ UNCHANGED <<window, lastWindow, handlerVars, announced, spent, admitted, expired>>

TouchDevice(d, ok) ==
  /\ Touch(d, ok)
  /\ UNCHANGED <<window, lastWindow, handlerVars, announced, historyVars>>

\* The daemon stops or crashes, and starts again: no window, no socket.
Restart ==
  /\ Reload
  /\ window' = 0
  /\ pc' = [s \in Socket |-> "read"]
  /\ copy' = [s \in Socket |-> 0]
  /\ applicant' = [s \in Socket |-> {}]
  /\ announced' = 0
  /\ UNCHANGED <<lastWindow, historyVars>>

Next ==
  \/ \E s \in Requester :
       \/ \E d \in Device, code \in Window : Request(s, d, code)
       \/ \E d \in Device, ok \in WriteOutcomes : Enrol(s, d, ok)
       \/ ClosePairing(s)
       \/ Reply(s)
  \/ \E s \in Socket : AnnounceClosed(s)
  \/ \E p \in Panel : Begin(p) \/ AnnounceOpen(p) \/ Cancel(p)
  \/ \E d \in Device, ok \in WriteOutcomes : RevokeDevice(d, ok) \/ TouchDevice(d, ok)
  \/ Expire
  \/ Restart

Spec == Init /\ [][Next]_vars

-----------------------------------------------------------------------------
\* A pairing that was saved survives anything but its own revocation: failed
\* writes on behalf of other devices or of the same one, touches, restarts.
StoredSurvives == stored \subseteq devices \cap disk

\* A window in which a pairing has been answered admits nobody who asks later.
SpentStaysClosed == window \notin spent

\* server.rs:439: "One device per window. Leaving it open would let anyone who
\* saw the QR pair a second device afterwards."
OneDevicePerWindow ==
  \A w \in Window : \A d, e \in admitted[w] : d = e

=============================================================================
