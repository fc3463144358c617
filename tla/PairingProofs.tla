---------------------------- MODULE PairingProofs ----------------------------
(***************************************************************************)
(* Proofs about module Pairing, for every set of devices and of sockets    *)
(* and every bound on the number of windows.                               *)
(***************************************************************************)
EXTENDS Pairing, TLAPS

-----------------------------------------------------------------------------
(* The inductive invariant.                                                *)

\* Codes are drawn in order: no window, copy of one or answer for one is newer
\* than the last window opened.
NoneNewer ==
  /\ window <= lastWindow
  /\ \A s \in Socket : copy[s] <= lastWindow
  /\ \A w \in spent : w <= lastWindow

\* A handler at work for a device has a window's copy.
CopyInUse ==
  \A s \in Requester : pc[s] # "read" => copy[s] # 0

\* The handlers of panels and of devices keep to their own sections.
OwnSections ==
  /\ \A s \in Requester : pc[s] # "announceOpen"
  /\ \A p \in Panel : pc[p] \in {"read", "announceOpen", "announceClosed"}

\* A handler that has closed its window finds it closed for good.
ClosedStaysClosed ==
  \A s \in Requester : pc[s] \in {"announceClosed", "reply"} => window # copy[s]

WindowInv ==
  /\ TypeOK
  /\ NoneNewer
  /\ CopyInUse
  /\ OwnSections
  /\ ClosedStaysClosed
  /\ SpentStaysClosed

\* The initial states satisfy the inductive invariant.
LEMMA InitWindowInv == Init => WindowInv
  BY PairingAssumption
     DEF Init, WindowInv, TypeOK, RegistryTypeOK, RegistryInit, Step, Window, Socket,
         NoneNewer, CopyInUse, OwnSections, ClosedStaysClosed, SpentStaysClosed

\* Every step keeps the inductive invariant.
LEMMA NextWindowInv == WindowInv /\ [Next]_vars => WindowInv'
<1> SUFFICES ASSUME WindowInv, [Next]_vars PROVE WindowInv'
  OBVIOUS
<1> USE PairingAssumption
    DEF WindowInv, TypeOK, RegistryTypeOK, Step, Window, Socket, NoneNewer, CopyInUse,
        OwnSections, ClosedStaysClosed, SpentStaysClosed, registryVars, handlerVars,
        historyVars
<1>1. ASSUME NEW s \in Requester, NEW d \in Device, NEW code \in Window,
             Request(s, d, code)
      PROVE WindowInv'
  BY <1>1 DEF Request
<1>2. ASSUME NEW s \in Requester, NEW d \in Device, NEW ok \in WriteOutcomes,
             Enrol(s, d, ok)
      PROVE WindowInv'
  <2>1. devices' \in SUBSET Device /\ disk' \in SUBSET Device
    BY <1>2 DEF Enrol, Insert, Persist
  <2>a. admitted' \in [Window -> SUBSET Device]
    BY <1>2 DEF Enrol
  <2>2. CASE ok
    BY <1>2, <2>1, <2>a, <2>2 DEF Enrol
  <2>3. CASE ~ok
    <3>1. /\ pc' = [pc EXCEPT ![s] = "read"]
          /\ copy' = [copy EXCEPT ![s] = 0]
          /\ applicant' = [applicant EXCEPT ![s] = {}]
          /\ UNCHANGED <<window, lastWindow, announced, stored, spent, expired>>
      BY <1>2, <2>3 DEF Enrol
    <3>2. TypeOK'
      BY <2>1, <2>a, <3>1
    <3>3. NoneNewer'
      BY <3>1
    <3>4. CopyInUse' /\ OwnSections' /\ ClosedStaysClosed' /\ SpentStaysClosed'
      BY <3>1
    <3> QED
      BY <3>2, <3>3, <3>4
  <2> QED
    BY <2>2, <2>3
<1>3. ASSUME NEW s \in Requester, ClosePairing(s) PROVE WindowInv'
  BY <1>3 DEF ClosePairing
<1>4. ASSUME NEW s \in Requester, Reply(s) PROVE WindowInv'
  <2>1. /\ pc[s] = "reply" /\ copy[s] \in Window /\ copy[s] <= lastWindow
        /\ window # copy[s]
    BY <1>4 DEF Reply
  <2>2. spent' \in SUBSET Window /\ window' \notin spent' /\ \A w \in spent' : w <= lastWindow'
    BY <1>4, <2>1 DEF Reply
  <2> QED
    BY <1>4, <2>1, <2>2 DEF Reply
<1>5. ASSUME NEW s \in Socket, AnnounceClosed(s) PROVE WindowInv'
  <2>1. CASE s \in Requester
    BY <1>5, <2>1 DEF AnnounceClosed
  <2>2. CASE s \in Panel
    BY <1>5, <2>2 DEF AnnounceClosed
  <2> QED
    BY <2>1, <2>2
<1>6. ASSUME NEW p \in Panel, Begin(p) PROVE WindowInv'
  BY <1>6 DEF Begin
<1>7. ASSUME NEW p \in Panel, AnnounceOpen(p) PROVE WindowInv'
  BY <1>7 DEF AnnounceOpen
<1>8. ASSUME NEW p \in Panel, Cancel(p) PROVE WindowInv'
  BY <1>8 DEF Cancel
<1>9. ASSUME NEW d \in Device, NEW ok \in WriteOutcomes, RevokeDevice(d, ok)
      PROVE WindowInv'
  <2>1. devices' \in SUBSET Device /\ disk' \in SUBSET Device
    BY <1>9 DEF RevokeDevice, Revoke, Persist
  <2> QED
    BY <1>9, <2>1 DEF RevokeDevice
<1>10. ASSUME NEW d \in Device, NEW ok \in WriteOutcomes, TouchDevice(d, ok)
       PROVE WindowInv'
  BY <1>10 DEF TouchDevice, Touch, Persist
<1>11. CASE Expire
  BY <1>11 DEF Expire
<1>12. CASE Restart
  BY <1>12 DEF Restart, Reload
<1>13. CASE UNCHANGED vars
  BY <1>13 DEF vars
<1> QED
  BY <1>1, <1>2, <1>3, <1>4, <1>5, <1>6, <1>7, <1>8, <1>9, <1>10, <1>11, <1>12, <1>13
     DEF Next

\* Type correctness of the pairing window and the handlers that use it.
THEOREM TypeCorrect == Spec => []TypeOK
<1>1. WindowInv => TypeOK
  BY DEF WindowInv
<1> QED
  BY InitWindowInv, NextWindowInv, <1>1, PTL DEF Spec

\* A window in which a pairing has been answered is never open again (server.rs
\* pair.request, which closes the window before it answers).
THEOREM SpentCorrect == Spec => []SpentStaysClosed
<1>1. WindowInv => SpentStaysClosed
  BY DEF WindowInv
<1> QED
  BY InitWindowInv, NextWindowInv, <1>1, PTL DEF Spec

-----------------------------------------------------------------------------
\* A pairing that was saved survives, in memory and on disk, anything but its own
\* revocation (registry.rs, config.rs write_atomic).  The property is inductive.
THEOREM StoredCorrect == Spec => []StoredSurvives
<1>1. Init => StoredSurvives
  BY DEF Init, RegistryInit, StoredSurvives
<1>2. StoredSurvives /\ [Next]_vars => StoredSurvives'
  <2> SUFFICES ASSUME StoredSurvives, [Next]_vars PROVE StoredSurvives'
    OBVIOUS
  <2> USE DEF StoredSurvives, registryVars, historyVars
  <2>1. ASSUME NEW s \in Requester, NEW d \in Device, NEW ok \in WriteOutcomes,
               Enrol(s, d, ok)
        PROVE StoredSurvives'
    <3>1. devices' = devices \cup {d} /\ disk' = IF ok THEN devices' ELSE disk
      BY <2>1 DEF Enrol, Insert, Persist
    <3>2. stored' = IF ok THEN stored \cup {d} ELSE stored
      BY <2>1 DEF Enrol
    <3> QED
      BY <3>1, <3>2
  <2>2. ASSUME NEW d \in Device, NEW ok \in WriteOutcomes, RevokeDevice(d, ok)
        PROVE StoredSurvives'
    <3>1. devices' = devices \ {d} /\ disk' \in {devices', disk}
      BY <2>2 DEF RevokeDevice, Revoke, Persist
    <3> QED
      BY <2>2, <3>1 DEF RevokeDevice
  <2>3. ASSUME NEW d \in Device, NEW ok \in WriteOutcomes, TouchDevice(d, ok)
        PROVE StoredSurvives'
    <3>1. devices' = devices /\ disk' \in {devices, disk}
      BY <2>3 DEF TouchDevice, Touch, Persist
    <3> QED
      BY <2>3, <3>1 DEF TouchDevice
  <2>4. CASE Restart
    BY <2>4 DEF Restart, Reload
  <2>5. CASE UNCHANGED <<devices, disk, stored>>
    BY <2>5
  <2> QED
    BY <2>1, <2>2, <2>3, <2>4, <2>5
       DEF Next, Request, ClosePairing, Reply, AnnounceClosed, Begin, AnnounceOpen,
           Cancel, Expire, vars
<1> QED
  BY <1>1, <1>2, PTL DEF Spec

-----------------------------------------------------------------------------
(* One device per window, where requests do not overlap.                   *)

\* A window nobody has been paired in yet: those to come, the one a handler is
\* about to pair in, and the open one unless its handler is about to close it.
Unspoilt ==
  /\ \A w \in Window : w > lastWindow => admitted[w] = {}
  /\ \A s \in Requester : pc[s] = "insert" => admitted[copy[s]] = {}
  /\ window # 0 /\ admitted[window] # {} => \E s \in Requester : pc[s] = "close"

\* MCPairingOne refutes server.rs:439 with two requests at once, and a write that
\* fails would as well.  Those are the only ways: where requests come on one
\* socket and writes succeed, a window admits one device.
THEOREM OneDeviceCorrect ==
  ASSUME \A r, s \in Requester : r = s,
         WriteOutcomes \subseteq {TRUE}
  PROVE  Spec => []OneDevicePerWindow
<1> DEFINE Inv == WindowInv /\ Unspoilt /\ OneDevicePerWindow
<1>1. Init => Inv
  <2>1. Init => Unspoilt /\ OneDevicePerWindow
    BY PairingAssumption DEF Init, Unspoilt, OneDevicePerWindow, Socket, Window
  <2> QED
    BY <2>1, InitWindowInv
<1>2. Inv /\ [Next]_vars => Inv'
  <2> SUFFICES ASSUME WindowInv, Unspoilt, OneDevicePerWindow, [Next]_vars
               PROVE  Unspoilt' /\ OneDevicePerWindow'
    BY NextWindowInv
  <2> USE PairingAssumption
      DEF Unspoilt, OneDevicePerWindow, Window, Socket, registryVars, handlerVars, historyVars
  <2>0. /\ window \in 0 .. MaxWindow /\ lastWindow \in 0 .. MaxWindow
        /\ pc \in [Socket -> Step] /\ copy \in [Socket -> 0 .. MaxWindow]
        /\ admitted \in [Window -> SUBSET Device]
        /\ window <= lastWindow /\ \A s \in Socket : copy[s] <= lastWindow
        /\ \A s \in Requester : pc[s] # "read" => copy[s] # 0
    BY DEF WindowInv, TypeOK, NoneNewer, CopyInUse
  <2>1. ASSUME NEW s \in Requester, NEW d \in Device, NEW code \in Window,
               Request(s, d, code)
        PROVE Unspoilt' /\ OneDevicePerWindow'
    <3>1. ~ \E r \in Requester : pc[r] = "close"
      BY <2>1 DEF Request
    <3>2. admitted[window] = {}
      BY <2>1, <3>1 DEF Request
    <3>3. /\ pc' = [pc EXCEPT ![s] = "insert"] /\ copy' = [copy EXCEPT ![s] = window]
          /\ UNCHANGED <<window, lastWindow, admitted>>
      BY <2>1 DEF Request
    <3> QED
      BY <2>0, <3>1, <3>2, <3>3
  <2>2. ASSUME NEW s \in Requester, NEW d \in Device, NEW ok \in WriteOutcomes,
               Enrol(s, d, ok)
        PROVE Unspoilt' /\ OneDevicePerWindow'
    <3>1. /\ pc[s] = "insert" /\ pc' = [pc EXCEPT ![s] = "close"]
          /\ admitted' = [admitted EXCEPT ![copy[s]] = @ \cup {d}]
          /\ UNCHANGED <<copy, window, lastWindow>>
      BY <2>2 DEF Enrol
    <3>2. copy[s] \in Window /\ copy[s] <= lastWindow /\ admitted[copy[s]] = {}
      BY <2>0, <3>1
    <3>3. admitted' = [admitted EXCEPT ![copy[s]] = {d}]
      BY <2>0, <3>1, <3>2
    <3>4. pc'[s] = "close"
      BY <2>0, <3>1
    <3>5. \A r \in Requester : pc'[r] # "insert"
      BY <3>4
    <3> QED
      BY <2>0, <3>1, <3>2, <3>3, <3>4, <3>5
  <2>3. ASSUME NEW s \in Requester, ClosePairing(s) PROVE Unspoilt' /\ OneDevicePerWindow'
    BY <2>0, <2>3 DEF ClosePairing
  <2>4. ASSUME NEW s \in Requester, Reply(s) PROVE Unspoilt' /\ OneDevicePerWindow'
    <3>1. \A r \in Requester : pc[r] # "close"
      BY <2>4 DEF Reply
    <3> QED
      BY <2>0, <2>4, <3>1 DEF Reply
  <2>5. ASSUME NEW s \in Socket, AnnounceClosed(s) PROVE Unspoilt' /\ OneDevicePerWindow'
    BY <2>0, <2>5 DEF AnnounceClosed
  <2>6. ASSUME NEW p \in Panel, Begin(p) PROVE Unspoilt' /\ OneDevicePerWindow'
    <3>1. /\ lastWindow' = lastWindow + 1 /\ window' = lastWindow + 1
          /\ lastWindow + 1 \in Window /\ UNCHANGED admitted
      BY <2>0, <2>6 DEF Begin
    <3>2. \A s \in Requester : pc'[s] = pc[s] /\ copy'[s] = copy[s]
      BY <2>0, <2>6 DEF Begin
    <3> QED
      BY <2>0, <3>1, <3>2
  <2>7. ASSUME NEW p \in Panel, AnnounceOpen(p) PROVE Unspoilt' /\ OneDevicePerWindow'
    <3>1. /\ UNCHANGED <<window, lastWindow, admitted>>
          /\ \A s \in Requester : pc'[s] = pc[s] /\ copy'[s] = copy[s]
      BY <2>0, <2>7 DEF AnnounceOpen
    <3> QED
      BY <2>0, <3>1
  <2>8. ASSUME NEW p \in Panel, Cancel(p) PROVE Unspoilt' /\ OneDevicePerWindow'
    BY <2>0, <2>8 DEF Cancel
  <2>9. CASE Expire
    BY <2>0, <2>9 DEF Expire
  <2>10. CASE Restart
    BY <2>0, <2>10 DEF Restart, Reload
  <2>11. CASE UNCHANGED <<window, lastWindow, handlerVars, admitted>>
    BY <2>0, <2>11
  <2> QED
    BY <2>1, <2>2, <2>3, <2>4, <2>5, <2>6, <2>7, <2>8, <2>9, <2>10, <2>11
       DEF Next, RevokeDevice, TouchDevice, vars
<1>3. Inv => OneDevicePerWindow
  OBVIOUS
<1> QED
  BY <1>1, <1>2, <1>3, PTL DEF Spec

=============================================================================
