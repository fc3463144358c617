----------------------------- MODULE OrderedFeed -----------------------------
(***************************************************************************)
(* What a client may rely on about pushed events: within one connection,   *)
(* each event it is sent was published, none is sent twice, and they are   *)
(* sent in the order in which they were published.  Events may be left     *)
(* out.  got[s] lists the positions in the log of the events sent to s.    *)
(***************************************************************************)
EXTENDS Naturals, Sequences

CONSTANTS Socket, Event

VARIABLES log, got

Init ==
  /\ log = <<>>
  /\ got = [s \in Socket |-> <<>>]

Publish(e) ==
  /\ log' = Append(log, e)
  /\ UNCHANGED got

Deliver(s, n) ==
  /\ \A i \in 1..Len(got[s]) : got[s][i] < n
  /\ got' = [got EXCEPT ![s] = Append(@, n)]
  /\ UNCHANGED log

\* A new connection starts with nothing.
Reset(s) ==
  /\ got' = [got EXCEPT ![s] = <<>>]
  /\ UNCHANGED log

Next ==
  \/ \E e \in Event : Publish(e)
  \/ \E s \in Socket :
       \/ \E n \in 1..Len(log) : Deliver(s, n)
       \/ Reset(s)

Spec == Init /\ [][Next]_<<log, got>>

=============================================================================
