--------------------------- MODULE LiveLayoutProofs --------------------------
(***************************************************************************)
(* Proofs about module EventBus, for every number of sockets, every        *)
(* capacity of the ring and every number of events; and about the loop     *)
(* that module LiveLayout builds on it, for every number of handlers, any  *)
(* profiles and any layouts.                                               *)
(***************************************************************************)
EXTENDS LiveLayout, WellFoundedInduction, TLAPS

-----------------------------------------------------------------------------
(* The inductive invariant.                                                *)

\* The receiver's position is ahead of everything it has passed on, and not
\* beyond the end of the log.
CursorAhead ==
  \A s \in Socket :
    /\ next[s] <= Len(log) + 1
    /\ \A i \in 1..Len(got[s]) : got[s][i] < next[s]

\* A connection that is not ready has been sent nothing.
NothingEarly ==
  \A s \in Socket : ~IsReady(s) => got[s] = <<>>

BusInv == TypeOK /\ CursorAhead /\ NothingEarly /\ AudienceRespected

\* The oldest event in the ring has a position.
LEMMA OldestType ==
  ASSUME log \in Seq(Audience)
  PROVE  Oldest \in Nat \ {0} /\ Oldest <= Len(log) + 1
  BY EventBusAssumption DEF Oldest

\* The initial states satisfy the inductive invariant.
LEMMA InitBusInv == Init => BusInv
<1> SUFFICES ASSUME Init PROVE BusInv
  OBVIOUS
<1>1. log = <<>> /\ \A s \in Socket : got[s] = <<>> /\ next[s] = 1
  BY DEF Init
<1>2. TypeOK
  BY DEF Init, TypeOK, Level
<1> QED
  BY <1>1, <1>2 DEF BusInv, CursorAhead, NothingEarly, AudienceRespected

\* The socket's role and subscriptions entitle it to the event at position n.
Entitled(s, n) ==
  /\ log[n] \in Feed => log[n] \in subs[s]
  /\ log[n] = "admin" => level[s] = "admin"

\* What the invariant says of one socket.
SocketBus(s) ==
  /\ next[s] <= Len(log) + 1
  /\ \A i \in 1..Len(got[s]) : got[s][i] < next[s]
  /\ ~IsReady(s) => got[s] = <<>>
  /\ \A i \in 1..Len(got[s]) : Entitled(s, got[s][i])

\* Every step keeps the variables well typed.
LEMMA NextTypeOK == TypeOK /\ [Next]_vars => TypeOK'
<1> SUFFICES ASSUME TypeOK, [Next]_vars PROVE TypeOK'
  OBVIOUS
<1> USE DEF TypeOK
<1>1. ASSUME NEW a \in Audience, Publish(a) PROVE TypeOK'
  BY <1>1 DEF Publish
<1>2. ASSUME NEW s \in Socket, Open(s) PROVE TypeOK'
  BY <1>2 DEF Open, Level
<1>3. ASSUME NEW s \in Socket, NEW role \in {"deck", "admin"}, Ready(s, role) PROVE TypeOK'
  BY <1>3 DEF Ready, Level
<1>4. ASSUME NEW s \in Socket, NEW f \in Feed, Subscribe(s, f) PROVE TypeOK'
  <2>1. subs' \in [Socket -> SUBSET Feed]
    BY <1>4 DEF Subscribe
  <2>2. subAt' \in [Socket -> Nat]
    BY <1>4 DEF Subscribe
  <2> QED
    BY <1>4, <2>1, <2>2 DEF Subscribe
<1>5. ASSUME NEW s \in Socket, Receive(s) PROVE TypeOK'
  <2>1. got' \in [Socket -> Seq(Nat \ {0})]
    BY <1>5 DEF Receive
  <2> QED
    BY <1>5, <2>1 DEF Receive
<1>6. ASSUME NEW s \in Socket, Lag(s) PROVE TypeOK'
  BY <1>6, OldestType DEF Lag
<1>7. ASSUME NEW s \in Socket, Close(s) PROVE TypeOK'
  BY <1>7 DEF Close, Level
<1>8. CASE UNCHANGED vars
  BY <1>8 DEF vars
<1> QED
  BY <1>1, <1>2, <1>3, <1>4, <1>5, <1>6, <1>7, <1>8 DEF Next

\* A step that leaves a socket alone, and the log too or at its end, leaves what
\* the invariant says of it true.
LEMMA SocketBusKept ==
  ASSUME TypeOK, NEW s \in Socket, SocketBus(s), log' \in Seq(Audience),
         Len(log) <= Len(log'), \A n \in 1..Len(log) : log'[n] = log[n],
         level'[s] = level[s], got'[s] = got[s], next'[s] = next[s],
         subs[s] \subseteq subs'[s]
  PROVE  SocketBus(s)'
<1>1. \A i \in 1..Len(got[s]) : got[s][i] \in 1..Len(log)
  BY DEF TypeOK, SocketBus
<1>2. \A i \in 1..Len(got[s]) : log'[got[s][i]] = log[got[s][i]]
  BY <1>1
<1>3. next'[s] <= Len(log') + 1
  BY DEF TypeOK, SocketBus
<1> QED
  BY <1>2, <1>3 DEF SocketBus, IsReady, Entitled

\* Every step keeps what the invariant says of each socket.
LEMMA NextSocketBus ==
  ASSUME TypeOK, \A s \in Socket : SocketBus(s), [Next]_vars
  PROVE  \A s \in Socket : SocketBus(s)'
<1> DEFINE Good == \A t \in Socket : SocketBus(t)'
<1>0. TypeOK'
  BY NextTypeOK
<1>1. ASSUME NEW a \in Audience, Publish(a) PROVE Good
  <2>1. /\ log' = Append(log, a) /\ log \in Seq(Audience) /\ log' \in Seq(Audience)
        /\ UNCHANGED <<level, subs, next, got>>
    BY <1>1, <1>0 DEF Publish, TypeOK
  <2>2. Len(log) <= Len(log') /\ \A n \in 1..Len(log) : log'[n] = log[n]
    BY <2>1
  <2> QED
    BY <2>1, <2>2, SocketBusKept
<1>2. ASSUME NEW s \in Socket, Open(s) PROVE Good
  <2>1. ASSUME NEW t \in Socket, t # s PROVE SocketBus(t)'
    BY <1>2, <1>0, <2>1, SocketBusKept DEF Open, TypeOK
  <2>2. got[s] = <<>> /\ got' = got /\ next'[s] = Len(log) + 1 /\ log' = log
    BY <1>2 DEF Open, SocketBus, IsReady, TypeOK
  <2>3. SocketBus(s)'
    BY <2>2 DEF SocketBus, TypeOK
  <2> QED
    BY <2>1, <2>3
<1>3. ASSUME NEW s \in Socket, NEW role \in {"deck", "admin"}, Ready(s, role) PROVE Good
  <2>1. ASSUME NEW t \in Socket, t # s PROVE SocketBus(t)'
    BY <1>3, <1>0, <2>1, SocketBusKept DEF Ready, TypeOK
  <2>2. got[s] = <<>> /\ UNCHANGED <<got, next, log>>
    BY <1>3 DEF Ready, SocketBus, IsReady
  <2>3. SocketBus(s)'
    BY <2>2 DEF SocketBus, TypeOK
  <2> QED
    BY <2>1, <2>3
<1>4. ASSUME NEW s \in Socket, NEW f \in Feed, Subscribe(s, f) PROVE Good
  BY <1>4, <1>0, SocketBusKept DEF Subscribe, TypeOK
<1>5. ASSUME NEW s \in Socket, Receive(s) PROVE Good
  <2>1. ASSUME NEW t \in Socket, t # s PROVE SocketBus(t)'
    BY <1>5, <1>0, <2>1, SocketBusKept DEF Receive, TypeOK
  <2>2. /\ next[s] \in 1..Len(log) /\ next'[s] = next[s] + 1
        /\ IsReady(s) /\ IsReady(s)' /\ log' = log /\ level' = level /\ subs' = subs
        /\ log \in Seq(Audience) /\ got[s] \in Seq(Nat \ {0}) /\ next[s] \in Nat
    BY <1>5, OldestType DEF Receive, TypeOK, IsReady
  <2>a. next'[s] <= Len(log') + 1
    BY <2>2
  <2>b. \A n : Entitled(s, n) => Entitled(s, n)'
    BY <2>2 DEF Entitled
  <2>3. ASSUME Wants(s, log[next[s]]) PROVE SocketBus(s)'
    <3>1. got'[s] = Append(got[s], next[s])
      BY <1>5, <2>3 DEF Receive, TypeOK
    <3>2. Entitled(s, next[s])
      BY <2>3 DEF Wants, Feed, Entitled
    <3>3. ASSUME NEW i \in 1..Len(got'[s])
          PROVE  got'[s][i] < next'[s] /\ Entitled(s, got'[s][i])
      <4>1. CASE i \in 1..Len(got[s])
        <5>1. got'[s][i] = got[s][i] /\ got[s][i] \in Nat
          BY <2>2, <3>1, <4>1
        <5> QED
          BY <2>2, <4>1, <5>1 DEF SocketBus
      <4>2. CASE i \notin 1..Len(got[s])
        <5>1. got'[s][i] = next[s]
          BY <2>2, <3>1, <4>2
        <5> QED
          BY <2>2, <3>2, <5>1
      <4> QED
        BY <4>1, <4>2
    <3>4. \A i \in 1..Len(got'[s]) : Entitled(s, got[s][i])'
      BY <2>b, <3>3
    <3> QED
      BY <2>2, <2>a, <3>3, <3>4 DEF SocketBus
  <2>4. ASSUME ~Wants(s, log[next[s]]) PROVE SocketBus(s)'
    <3>1. got'[s] = got[s]
      BY <1>5, <2>4 DEF Receive, TypeOK
    <3>2. \A i \in 1..Len(got'[s]) : got'[s][i] < next'[s]
      BY <2>2, <3>1 DEF SocketBus, TypeOK
    <3>3. \A i \in 1..Len(got'[s]) : Entitled(s, got[s][i])'
      BY <2>b, <3>1 DEF SocketBus
    <3> QED
      BY <2>2, <2>a, <3>2, <3>3 DEF SocketBus
  <2>5. SocketBus(s)'
    BY <2>3, <2>4
  <2> QED
    BY <2>1, <2>5
<1>6. ASSUME NEW s \in Socket, Lag(s) PROVE Good
  <2>1. ASSUME NEW t \in Socket, t # s PROVE SocketBus(t)'
    BY <1>6, <1>0, <2>1, SocketBusKept DEF Lag, TypeOK
  <2>2. /\ next'[s] = Oldest /\ next[s] < Oldest /\ Oldest <= Len(log) + 1
        /\ next[s] \in Nat /\ Oldest \in Nat
        /\ UNCHANGED <<log, level, subs, got>>
    BY <1>6, OldestType DEF Lag, TypeOK
  <2>3. \A i \in 1..Len(got[s]) : got[s][i] < next'[s]
    BY <2>2 DEF SocketBus, TypeOK
  <2>4. SocketBus(s)'
    BY <2>2, <2>3 DEF SocketBus, IsReady, Entitled
  <2> QED
    BY <2>1, <2>4
<1>7. ASSUME NEW s \in Socket, Close(s) PROVE Good
  <2>1. ASSUME NEW t \in Socket, t # s PROVE SocketBus(t)'
    BY <1>7, <1>0, <2>1, SocketBusKept DEF Close, TypeOK
  <2>2. got'[s] = <<>> /\ UNCHANGED <<log, next>>
    BY <1>7 DEF Close, TypeOK
  <2>3. SocketBus(s)'
    BY <2>2 DEF SocketBus
  <2> QED
    BY <2>1, <2>3
<1>8. ASSUME UNCHANGED vars PROVE Good
  BY <1>8, <1>0, SocketBusKept DEF vars, TypeOK
<1> QED
  BY <1>1, <1>2, <1>3, <1>4, <1>5, <1>6, <1>7, <1>8 DEF Next

\* The inductive invariant is the types and what it says of each socket.
LEMMA NextBusInv == BusInv /\ [Next]_vars => BusInv'
<1> SUFFICES ASSUME BusInv, [Next]_vars PROVE BusInv'
  OBVIOUS
<1>1. TypeOK /\ \A s \in Socket : SocketBus(s)
  BY DEF BusInv, CursorAhead, NothingEarly, AudienceRespected, SocketBus, Entitled
<1>2. TypeOK' /\ \A s \in Socket : SocketBus(s)'
  BY <1>1, NextTypeOK, NextSocketBus
<1> QED
  BY <1>2 DEF BusInv, CursorAhead, NothingEarly, AudienceRespected, SocketBus, Entitled

-----------------------------------------------------------------------------
\* A socket is never sent an event its role and subscriptions do not entitle it to
\* (session.rs wants, server.rs connection).
THEOREM AudienceCorrect == Spec => []AudienceRespected
<1>1. BusInv => AudienceRespected
  BY DEF BusInv
<1> QED
  BY InitBusInv, NextBusInv, <1>1, PTL DEF Spec

\* Every reachable state of the bus and its receivers is well typed.
THEOREM TypeCorrect == Spec => []TypeOK
<1>1. BusInv => TypeOK
  BY DEF BusInv
<1> QED
  BY InitBusInv, NextBusInv, <1>1, PTL DEF Spec

\* What RecentNotLost says of one socket; one that is not ready has no feeds.
Recent(s) ==
  /\ subs[s] # {} => IsReady(s)
  /\ "profile" \in subs[s] =>
       \A n \in subAt[s] + 1 .. next[s] - 1 :
         n >= Oldest /\ log[n] = "profile" => \E i \in 1..Len(got[s]) : got[s][i] = n

\* A step that leaves a socket alone, and lets the log grow, keeps it.
LEMMA RecentKept ==
  ASSUME BusInv, NEW s \in Socket, Recent(s), log' \in Seq(Audience),
         Len(log) <= Len(log'), \A n \in 1..Len(log) : log'[n] = log[n],
         IsReady(s) => IsReady(s)', got'[s] = got[s], next'[s] = next[s],
         subs'[s] = subs[s], subAt'[s] = subAt[s]
  PROVE  Recent(s)'
<1>1. next[s] \in Nat /\ next[s] <= Len(log) + 1 /\ subAt[s] \in Nat /\ log \in Seq(Audience)
  BY DEF BusInv, CursorAhead, TypeOK
<1>2. Oldest <= Oldest' /\ Oldest \in Nat /\ Oldest' \in Nat
  BY <1>1, EventBusAssumption DEF Oldest
<1>3. ASSUME "profile" \in subs[s], NEW n \in subAt[s] + 1 .. next[s] - 1,
             n >= Oldest', log'[n] = "profile"
      PROVE  \E i \in 1..Len(got[s]) : got[s][i] = n
  <2>1. n \in 1..Len(log) /\ n >= Oldest
    BY <1>1, <1>2, <1>3
  <2> QED
    BY <1>3, <2>1 DEF Recent
<1> QED
  BY <1>3 DEF Recent

LEMMA NextRecent ==
  ASSUME BusInv, \A s \in Socket : Recent(s), [Next]_vars
  PROVE  \A s \in Socket : Recent(s)'
<1> DEFINE Good == \A t \in Socket : Recent(t)'
<1>0. TypeOK /\ TypeOK' /\ log \in Seq(Audience) /\ log' \in Seq(Audience)
  BY NextTypeOK DEF BusInv, TypeOK
<1>1. ASSUME NEW a \in Audience, Publish(a) PROVE Good
  <2>1. log' = Append(log, a) /\ UNCHANGED <<level, subs, next, got, subAt>>
    BY <1>1 DEF Publish
  <2>2. Len(log) <= Len(log') /\ \A n \in 1..Len(log) : log'[n] = log[n]
    BY <1>0, <2>1
  <2> QED
    BY <1>0, <2>1, <2>2, RecentKept DEF IsReady
<1>2. ASSUME NEW s \in Socket, Open(s) PROVE Good
  <2>1. ASSUME NEW t \in Socket, t # s PROVE Recent(t)'
    BY <1>2, <1>0, <2>1, RecentKept DEF Open, TypeOK, IsReady
  <2>2. subs'[s] = {}
    BY <1>2 DEF Open, Recent, IsReady
  <2> QED
    BY <2>1, <2>2 DEF Recent
<1>3. ASSUME NEW s \in Socket, NEW role \in {"deck", "admin"}, Ready(s, role) PROVE Good
  <2>1. ASSUME NEW t \in Socket, t # s PROVE Recent(t)'
    BY <1>3, <1>0, <2>1, RecentKept DEF Ready, TypeOK, IsReady
  <2>2. subs'[s] = {}
    BY <1>3 DEF Ready, Recent, IsReady
  <2> QED
    BY <2>1, <2>2 DEF Recent
<1>4. ASSUME NEW s \in Socket, NEW f \in Feed, Subscribe(s, f) PROVE Good
  <2>1. ASSUME NEW t \in Socket, t # s PROVE Recent(t)'
    BY <1>4, <1>0, <2>1, RecentKept DEF Subscribe, TypeOK, IsReady
  <2>2. /\ UNCHANGED <<log, level, next, got>> /\ IsReady(s)
        /\ subs'[s] = subs[s] \cup {f}
        /\ subAt'[s] = IF f = "profile" /\ f \notin subs[s] THEN Len(log) ELSE subAt[s]
    BY <1>4, <1>0 DEF Subscribe, TypeOK
  <2>3. CASE f = "profile" /\ f \notin subs[s]
    <3>1. next'[s] - 1 <= Len(log) /\ subAt'[s] = Len(log) /\ next'[s] \in Nat
      BY <1>0, <2>2, <2>3 DEF BusInv, CursorAhead, TypeOK
    <3>2. subAt'[s] + 1 .. next'[s] - 1 = {}
      BY <1>0, <3>1
    <3> QED
      BY <2>1, <2>2, <3>2 DEF Recent, IsReady
  <2>4. CASE ~(f = "profile" /\ f \notin subs[s])
    <3>1. subAt'[s] = subAt[s] /\ ("profile" \in subs'[s] => "profile" \in subs[s])
      BY <2>2, <2>4
    <3>2. Recent(s)'
      BY <2>2, <3>1 DEF Recent, IsReady, Oldest
    <3> QED
      BY <2>1, <3>2
  <2> QED
    BY <2>3, <2>4
<1>5. ASSUME NEW s \in Socket, Receive(s) PROVE Good
  <2>1. ASSUME NEW t \in Socket, t # s PROVE Recent(t)'
    BY <1>5, <1>0, <2>1, RecentKept DEF Receive, TypeOK, IsReady
  <2>2. /\ UNCHANGED <<log, level, subs, subAt>> /\ IsReady(s)
        /\ next'[s] = next[s] + 1 /\ next[s] \in Nat /\ got[s] \in Seq(Nat \ {0})
        /\ subAt[s] \in Nat
        /\ got'[s] = IF Wants(s, log[next[s]]) THEN Append(got[s], next[s]) ELSE got[s]
    BY <1>5, <1>0 DEF Receive, TypeOK
  <2>3. \A n : (\E i \in 1..Len(got[s]) : got[s][i] = n)
                 => (\E i \in 1..Len(got'[s]) : got'[s][i] = n)
    BY <2>2
  <2>4. ASSUME "profile" \in subs[s], NEW n \in subAt[s] + 1 .. next'[s] - 1,
               n >= Oldest, log[n] = "profile"
        PROVE  \E i \in 1..Len(got'[s]) : got'[s][i] = n
    <3>1. CASE n = next[s]
      <4>1. Wants(s, log[next[s]])
        BY <2>2, <2>4, <3>1 DEF Wants, Feed
      <4>2. got'[s] = Append(got[s], n)
        BY <2>2, <3>1, <4>1
      <4>3. got[s] \in Seq(Nat) /\ n \in Nat
        BY <2>2, <3>1
      <4>4. Len(got'[s]) = Len(got[s]) + 1 /\ got'[s][Len(got[s]) + 1] = n
        BY <4>2, <4>3
      <4>5. Len(got[s]) + 1 \in 1..Len(got'[s])
        BY <4>3, <4>4
      <4> QED
        BY <4>4, <4>5
    <3>2. CASE n # next[s]
      <4>1. n \in subAt[s] + 1 .. next[s] - 1
        BY <2>2, <3>2
      <4> QED
        BY <2>3, <2>4, <4>1 DEF Recent
    <3> QED
      BY <3>1, <3>2
  <2>5. Recent(s)'
    BY <2>2, <2>4 DEF Recent, IsReady, Oldest
  <2> QED
    BY <2>1, <2>5
<1>6. ASSUME NEW s \in Socket, Lag(s) PROVE Good
  <2>1. ASSUME NEW t \in Socket, t # s PROVE Recent(t)'
    BY <1>6, <1>0, <2>1, RecentKept DEF Lag, TypeOK, IsReady
  <2>2. /\ UNCHANGED <<log, level, subs, got, subAt>> /\ IsReady(s)
        /\ next'[s] = Oldest /\ Oldest' = Oldest /\ Oldest \in Nat
    BY <1>6, <1>0, OldestType DEF Lag, TypeOK, Oldest
  <2>3. \A n \in subAt'[s] + 1 .. next'[s] - 1 : ~(n >= Oldest')
    BY <1>0, <2>2 DEF TypeOK
  <2>4. Recent(s)'
    BY <2>2, <2>3 DEF Recent, IsReady
  <2> QED
    BY <2>1, <2>4
<1>7. ASSUME NEW s \in Socket, Close(s) PROVE Good
  <2>1. ASSUME NEW t \in Socket, t # s PROVE Recent(t)'
    BY <1>7, <1>0, <2>1, RecentKept DEF Close, TypeOK, IsReady
  <2>2. subs'[s] = {}
    BY <1>7, <1>0 DEF Close, TypeOK
  <2> QED
    BY <2>1, <2>2 DEF Recent
<1>8. ASSUME UNCHANGED vars PROVE Good
  BY <1>8, <1>0, RecentKept DEF vars, IsReady
<1> QED
  BY <1>1, <1>2, <1>3, <1>4, <1>5, <1>6, <1>7, <1>8 DEF Next

\* For a ring of any size: of the layout changes published since a socket
\* subscribed, it misses none that is still in the ring (server.rs connection).
THEOREM RecentCorrect == Spec => []RecentNotLost
<1> DEFINE RecentInv == BusInv /\ \A s \in Socket : Recent(s)
<1>1. Init => RecentInv
  BY InitBusInv DEF Init, Recent
<1>2. RecentInv /\ [Next]_vars => RecentInv'
  BY NextBusInv, NextRecent
<1>3. RecentInv => RecentNotLost
  BY DEF Recent, RecentNotLost
<1> QED
  BY <1>1, <1>2, <1>3, PTL DEF Spec

\* Every step of the bus is a step of the abstract feed, or changes neither the
\* log nor what has been sent.
LEMMA StepRefines == BusInv /\ [Next]_vars => [Abstract!Next]_<<log, got>>
<1> SUFFICES ASSUME BusInv, [Next]_vars PROVE [Abstract!Next]_<<log, got>>
  OBVIOUS
<1>1. ASSUME NEW a \in Audience, Publish(a) PROVE Abstract!Next
  BY <1>1 DEF Publish, Abstract!Next, Abstract!Publish
<1>2. ASSUME NEW s \in Socket, Receive(s) PROVE [Abstract!Next]_<<log, got>>
  <2>1. CASE Wants(s, log[next[s]])
    <3>1. next[s] \in 1..Len(log)
      BY <1>2, OldestType DEF Receive, BusInv, TypeOK
    <3>2. Abstract!Deliver(s, next[s])
      BY <1>2, <2>1 DEF Receive, Abstract!Deliver, BusInv, CursorAhead
    <3> QED
      BY <3>1, <3>2 DEF Abstract!Next
  <2>2. CASE ~Wants(s, log[next[s]])
    BY <1>2, <2>2 DEF Receive, BusInv, TypeOK
  <2> QED
    BY <2>1, <2>2
<1>3. ASSUME NEW s \in Socket, Close(s) PROVE Abstract!Next
  <2>1. Abstract!Reset(s)
    BY <1>3 DEF Close, Abstract!Reset
  <2> QED
    BY <2>1 DEF Abstract!Next
<1>4. CASE UNCHANGED <<log, got>>
  BY <1>4
<1> QED
  BY <1>1, <1>2, <1>3, <1>4 DEF Next, Open, Ready, Subscribe, Lag, vars

\* The bus implements the ordered feed: within a connection, events arrive in the
\* order of their publication and none arrives twice, lagging or not.
THEOREM Refinement == Spec => FeedIsOrdered
<1>1. Init => Abstract!Init
  BY DEF Init, Abstract!Init
<1> QED
  BY <1>1, StepRefines, InitBusInv, NextBusInv, PTL
     DEF Spec, FeedIsOrdered, Abstract!Spec
-----------------------------------------------------------------------------
(* The profile store as the loop uses it: its writes succeed.              *)

\* The first key of a map that is not empty (BTreeMap's keys().next()).
First(S) == CHOOSE q \in S : \A r \in S : q <= r

\* A set of numbers that is not empty has a least one, and a set of profiles has
\* a first one.
LEMMA FirstExists ==
  ASSUME NEW S, S \subseteq Profile, S # {}
  PROVE  First(S) \in S
<1>0. S \subseteq Nat
  BY LiveLayoutAssumption
<1>1. PICK q \in S : \A r \in S : ~ (<<r, q>> \in OpToRel(<, Nat))
  BY <1>0, NatLessThanWellFounded, WFMin, Zenon
<1>2. \A r \in S : ~(r < q)
  BY <1>0, <1>1 DEF OpToRel
<1>3. \A r \in S : q <= r
  BY <1>0, <1>2
<1> QED
  BY <1>3 DEF First

\* The store holds a file of the right form whose active profile is there.
StoreInv == Store!TypeOK /\ Store!ActiveIsReal

\* A map on some of the profiles is on the shelf ...
LEMMA OnShelf ==
  ASSUME NEW S, S \subseteq Profile, NEW f, f \in [S -> Layout]
  PROVE  f \in Store!Shelf
<1>1. [S -> Layout] \in {[T -> Layout] : T \in SUBSET Profile}
  OBVIOUS
<1> QED
  BY <1>1 DEF Store!Shelf

\* ... and what is on the shelf is such a map.
LEMMA ShelfIs ==
  ASSUME NEW f \in Store!Shelf
  PROVE  DOMAIN f \subseteq Profile /\ f \in [DOMAIN f -> Layout]
  BY DEF Store!Shelf

\* What is known of the store in memory.
LEMMA StoreIs ==
  ASSUME StoreInv
  PROVE  /\ DOMAIN profiles \subseteq Profile
         /\ \A p \in DOMAIN profiles : profiles[p] \in Layout
         /\ active \in DOMAIN profiles
         /\ Store!Active = active
<1>1. profiles \in Store!Shelf /\ active \in DOMAIN profiles
  BY DEF StoreInv, Store!TypeOK, Store!ActiveIsReal
<1> QED
  BY <1>1, ShelfIs DEF Store!Active

\* Writing a store of the right form leaves one.
LEMMA PersistKeeps ==
  ASSUME Store!Persist(TRUE), profiles' \in Store!Shelf, active' \in Profile,
         active' \in DOMAIN profiles'
  PROVE  StoreInv'
  BY DEF StoreInv, Store!TypeOK, Store!ActiveIsReal, Store!Persist, Store!StoreFile

\* Store::set keeps the store's invariant, and changes one profile.
LEMMA SetKeeps ==
  ASSUME StoreInv, NEW p \in Profile, NEW l \in Layout, Store!Set(p, l, TRUE)
  PROVE  /\ StoreInv'
         /\ p \in DOMAIN profiles' /\ profiles'[p] = l
         /\ \A q \in DOMAIN profiles' : profiles'[q] = l \/ (q \in DOMAIN profiles /\ profiles'[q] = profiles[q])
<1> DEFINE D == DOMAIN profiles \cup {p}
<1>1. profiles' = [q \in D |-> IF q = p THEN l ELSE profiles[q]]
  BY DEF Store!Set
<1>2. D \subseteq Profile /\ active \in D /\ \A q \in D : q = p \/ (q \in DOMAIN profiles /\ profiles[q] \in Layout)
  BY StoreIs
<1>3. profiles' \in [D -> Layout] /\ DOMAIN profiles' = D
  BY <1>1, <1>2
<1>4. StoreInv'
  BY <1>2, <1>3, OnShelf, PersistKeeps DEF Store!Set
<1> QED
  BY <1>1, <1>2, <1>3, <1>4

\* Store::delete keeps the invariant, and leaves the other profiles as they are.
LEMMA DeleteKeeps ==
  ASSUME StoreInv, NEW p, Store!Delete(p, TRUE)
  PROVE  /\ StoreInv'
         /\ \A q \in DOMAIN profiles' : q \in DOMAIN profiles /\ profiles'[q] = profiles[q]
<1> DEFINE D == DOMAIN profiles \ {p}
<1>1. profiles' = [q \in D |-> profiles[q]] /\ D # {} /\ DOMAIN profiles' = D
  BY DEF Store!Delete
<1>2. D \subseteq Profile /\ profiles' \in [D -> Layout]
  BY <1>1, StoreIs
<1>3. active' \in D
  <2>1. CASE active = p
    BY <1>1, <1>2, <2>1, FirstExists DEF Store!Delete, First
  <2>2. CASE active # p
    BY <2>2, StoreIs DEF Store!Delete
  <2> QED
    BY <2>1, <2>2
<1>4. StoreInv'
  BY <1>1, <1>2, <1>3, OnShelf, PersistKeeps DEF Store!Delete
<1> QED
  BY <1>1, <1>4

\* Store::activate keeps the invariant and the profiles.
LEMMA ActivateKeeps ==
  ASSUME StoreInv, NEW p, Store!Activate(p, TRUE)
  PROVE  StoreInv' /\ UNCHANGED profiles
<1>1. profiles \in Store!Shelf /\ DOMAIN profiles \subseteq Profile
  BY StoreIs DEF StoreInv, Store!TypeOK
<1> QED
  BY <1>1, PersistKeeps DEF Store!Activate

\* A step that leaves the store alone keeps its invariant.
LEMMA StoreStays ==
  ASSUME StoreInv, UNCHANGED storeVars
  PROVE  StoreInv'
  BY DEF StoreInv, storeVars, Store!TypeOK, Store!ActiveIsReal, Store!Shelf, Store!StoreFile

-----------------------------------------------------------------------------
(* What is on its way to the viewer.                                       *)

\* A frame with a layout in it.
Shows(m) == m.kind \in {"profile", "changed"}

\* The answer to the subscription is among the frames of d.
Answered(d) == \E i \in DOMAIN d : d[i].kind = "subscribed"

\* Every event of d finds a listener: it is attached, or the answer that attaches
\* it comes first.
Heard(d, on) ==
  \A i \in DOMAIN d : d[i].kind = "changed" =>
    on \/ \E j \in 1..i-1 : d[j].kind = "subscribed"

\* A viewer that shows s and reads d to its end shows something of L.
Final(d, s, L) ==
  \/ s \in L /\ \A i \in DOMAIN d : ~Shows(d[i])
  \/ \E i \in DOMAIN d :
       Shows(d[i]) /\ d[i].body \in L /\ \A j \in i+1..Len(d) : ~Shows(d[j])

\* The messages of each kind.
LEMMA MessageIs ==
  /\ \A b \in Body : [kind |-> "profile", body |-> b] \in Message
  /\ \A b \in Body : [kind |-> "changed", body |-> b] \in Message
  /\ [kind |-> "refused"] \in Message
  /\ [kind |-> "subscribed"] \in Message
  BY DEF Message

LEMMA MessageBody ==
  ASSUME NEW m \in Message
  PROVE  /\ m.kind \in {"profile", "changed", "refused", "subscribed"}
         /\ Shows(m) => m.body \in Body
  BY DEF Message, Shows

\* A frame more at the end of d ...
LEMMA AppendIs ==
  ASSUME NEW d \in Seq(Message), NEW m \in Message
  PROVE  /\ Append(d, m) \in Seq(Message)
         /\ DOMAIN d = 1..Len(d)
         /\ DOMAIN Append(d, m) = 1..Len(d)+1
         /\ Len(Append(d, m)) = Len(d) + 1
         /\ Append(d, m)[Len(d)+1] = m
         /\ \A i \in 1..Len(d) : Append(d, m)[i] = d[i]
         /\ Len(d) \in Nat
  OBVIOUS

\* ... or one less at its head.
LEMMA TailIs ==
  ASSUME NEW d \in Seq(Message), d # <<>>
  PROVE  /\ Tail(d) \in Seq(Message)
         /\ Head(d) \in Message /\ Head(d) = d[1]
         /\ Len(d) \in Nat \ {0} /\ Len(Tail(d)) = Len(d) - 1
         /\ DOMAIN d = 1..Len(d) /\ DOMAIN Tail(d) = 1..Len(d)-1
         /\ \A i \in 1..Len(d)-1 : Tail(d)[i] = d[i+1]
  OBVIOUS

LEMMA AnsweredAppend ==
  ASSUME NEW d \in Seq(Message), NEW m \in Message
  PROVE  Answered(Append(d, m)) <=> Answered(d) \/ m.kind = "subscribed"
<1> DEFINE e == Append(d, m)
<1>1. /\ DOMAIN d = 1..Len(d) /\ DOMAIN e = 1..Len(d)+1 /\ Len(d) \in Nat
      /\ e[Len(d)+1] = m /\ \A i \in 1..Len(d) : e[i] = d[i]
  BY AppendIs
<1> HIDE DEF e
<1>2. Answered(e) <=> Answered(d) \/ m.kind = "subscribed"
  BY <1>1 DEF Answered
<1> QED
  BY <1>2 DEF e

LEMMA AnsweredTail ==
  ASSUME NEW d \in Seq(Message), d # <<>>
  PROVE  Answered(d) <=> Answered(Tail(d)) \/ Head(d).kind = "subscribed"
<1> DEFINE e == Tail(d)
           n == Len(d)
<1>1. /\ DOMAIN d = 1..n /\ DOMAIN e = 1..n-1 /\ n \in Nat \ {0}
      /\ Head(d) = d[1] /\ \A i \in 1..n-1 : e[i] = d[i+1]
  BY TailIs
<1> HIDE DEF e, n
<1>2. ASSUME NEW i \in DOMAIN d, d[i].kind = "subscribed", i # 1
      PROVE  Answered(e)
  <2>1. i-1 \in DOMAIN e /\ e[i-1] = d[i]
    BY <1>1, <1>2
  <2> QED
    BY <1>2, <2>1 DEF Answered
<1>3. Answered(d) => Answered(e) \/ d[1].kind = "subscribed"
  BY <1>2 DEF Answered
<1>4. ASSUME NEW i \in DOMAIN e, e[i].kind = "subscribed" PROVE Answered(d)
  <2>1. i+1 \in DOMAIN d /\ e[i] = d[i+1]
    BY <1>1
  <2> QED
    BY <1>4, <2>1 DEF Answered
<1>5. Answered(e) \/ d[1].kind = "subscribed" => Answered(d)
  BY <1>1, <1>4 DEF Answered
<1> QED
  BY <1>1, <1>3, <1>5 DEF e

\* An event is sent to a viewer that listens or has been answered.
LEMMA HeardAppend ==
  ASSUME NEW d \in Seq(Message), NEW m \in Message, NEW on \in BOOLEAN, Heard(d, on),
         m.kind = "changed" => on \/ Answered(d)
  PROVE  Heard(Append(d, m), on)
<1> DEFINE e == Append(d, m)
           n == Len(d)
<1>1. /\ DOMAIN d = 1..n /\ DOMAIN e = 1..n+1 /\ n \in Nat
      /\ e[n+1] = m /\ \A i \in 1..n : e[i] = d[i]
  BY AppendIs
<1> HIDE DEF e, n
<1>2. ASSUME NEW i \in 1..n, e[i].kind = "changed", ~on
      PROVE  \E j \in 1..i-1 : e[j].kind = "subscribed"
  <2>1. PICK j \in 1..i-1 : d[j].kind = "subscribed"
    BY <1>1, <1>2 DEF Heard
  <2> QED
    BY <1>1, <2>1
<1>3. ASSUME m.kind = "changed", ~on
      PROVE  \E j \in 1..n : e[j].kind = "subscribed"
  BY <1>1, <1>3 DEF Answered
<1>4. ASSUME NEW i \in DOMAIN e, e[i].kind = "changed"
      PROVE  on \/ \E j \in 1..i-1 : e[j].kind = "subscribed"
  <2>1. CASE i \in 1..n
    BY <1>2, <1>4, <2>1
  <2>2. CASE i = n+1
    <3>1. i-1 = n
      BY <1>1, <2>2
    <3> QED
      BY <1>1, <1>3, <1>4, <2>2, <3>1
  <2> QED
    BY <1>1, <2>1, <2>2
<1>5. Heard(e, on)
  BY <1>4 DEF Heard
<1> QED
  BY <1>5 DEF e

\* A viewer that listens from the answer on hears the rest.
LEMMA HeardTail ==
  ASSUME NEW d \in Seq(Message), d # <<>>, NEW on \in BOOLEAN, Heard(d, on)
  PROVE  /\ Heard(Tail(d), on \/ Head(d).kind = "subscribed")
         /\ Head(d).kind = "changed" => on
<1> DEFINE e == Tail(d)
           n == Len(d)
<1>1. /\ DOMAIN d = 1..n /\ DOMAIN e = 1..n-1 /\ n \in Nat \ {0}
      /\ Head(d) = d[1] /\ \A i \in 1..n-1 : e[i] = d[i+1]
  BY TailIs
<1> HIDE DEF e, n
<1>2. d[1].kind = "changed" => on
  BY <1>1 DEF Heard
<1>3. ASSUME NEW i \in DOMAIN e, e[i].kind = "changed", ~on, d[1].kind # "subscribed"
      PROVE  \E j \in 1..i-1 : e[j].kind = "subscribed"
  <2>1. i+1 \in DOMAIN d /\ e[i] = d[i+1] /\ i \in Nat /\ i <= n-1
    BY <1>1
  <2>2. PICK j \in 1..(i+1)-1 : d[j].kind = "subscribed"
    BY <1>3, <2>1 DEF Heard
  <2>3. j # 1 /\ j \in 1..i
    BY <1>3, <2>1, <2>2
  <2>4. j-1 \in 1..i-1 /\ j-1 \in 1..n-1 /\ (j-1)+1 = j
    BY <1>1, <2>1, <2>3
  <2>5. e[j-1] = d[j]
    BY <1>1, <2>4
  <2> QED
    BY <2>2, <2>4, <2>5
<1>4. Heard(e, on \/ d[1].kind = "subscribed")
  BY <1>3 DEF Heard
<1> QED
  BY <1>1, <1>2, <1>4 DEF e

LEMMA FinalAppendOther ==
  ASSUME NEW d \in Seq(Message), NEW m \in Message, NEW s, NEW L, Final(d, s, L), ~Shows(m)
  PROVE  Final(Append(d, m), s, L)
<1> DEFINE e == Append(d, m)
           n == Len(d)
<1>1. /\ DOMAIN d = 1..n /\ DOMAIN e = 1..n+1 /\ n \in Nat /\ Len(e) = n+1
      /\ e[n+1] = m /\ \A i \in 1..n : e[i] = d[i]
  BY AppendIs
<1>0. Len(d) = n
  OBVIOUS
<1> HIDE DEF e, n
<1>2. ASSUME s \in L /\ \A i \in DOMAIN d : ~Shows(d[i]) PROVE Final(e, s, L)
  BY <1>1, <1>2 DEF Final
<1>3. ASSUME NEW i \in DOMAIN d, Shows(d[i]), d[i].body \in L, \A j \in i+1..n : ~Shows(d[j])
      PROVE  Final(e, s, L)
  <2>1. i \in DOMAIN e /\ e[i] = d[i]
    BY <1>1
  <2>2. \A j \in i+1..n+1 : ~Shows(e[j])
    BY <1>1, <1>3
  <2> QED
    BY <1>1, <1>3, <2>1, <2>2 DEF Final
<1>4. ASSUME ~(s \in L /\ \A i \in DOMAIN d : ~Shows(d[i])) PROVE Final(e, s, L)
  <2>1. PICK i \in DOMAIN d :
          Shows(d[i]) /\ d[i].body \in L /\ \A j \in i+1..n : ~Shows(d[j])
    BY <1>0, <1>4, Zenon DEF Final
  <2> QED
    BY <1>3, <2>1, Zenon
<1> QED
  BY <1>2, <1>4 DEF e

LEMMA FinalAppendShow ==
  ASSUME NEW d \in Seq(Message), NEW m \in Message, NEW s, NEW L, Shows(m), m.body \in L
  PROVE  Final(Append(d, m), s, L)
<1> DEFINE e == Append(d, m)
           n == Len(d)
<1>1. DOMAIN e = 1..n+1 /\ n \in Nat /\ Len(e) = n+1 /\ e[n+1] = m
  BY AppendIs
<1> HIDE DEF e, n
<1>2. n+1 \in DOMAIN e /\ \A j \in (n+1)+1..n+1 : FALSE
  BY <1>1
<1>3. Final(e, s, L)
  BY <1>1, <1>2 DEF Final
<1> QED
  BY <1>3 DEF e

LEMMA FinalTail ==
  ASSUME NEW d \in Seq(Message), d # <<>>, NEW s, NEW L, Final(d, s, L)
  PROVE  Final(Tail(d), IF Shows(Head(d)) THEN Head(d).body ELSE s, L)
<1> DEFINE e == Tail(d)
           n == Len(d)
           t == IF Shows(d[1]) THEN d[1].body ELSE s
<1>1. /\ DOMAIN d = 1..n /\ DOMAIN e = 1..n-1 /\ n \in Nat \ {0} /\ Len(e) = n-1
      /\ Head(d) = d[1] /\ \A i \in 1..n-1 : e[i] = d[i+1]
  BY TailIs
<1>0. Len(d) = n /\ t = IF Shows(d[1]) THEN d[1].body ELSE s
  OBVIOUS
<1> HIDE DEF e, n, t
<1>2. ASSUME s \in L /\ \A i \in DOMAIN d : ~Shows(d[i]) PROVE Final(e, t, L)
  <2>1. ~Shows(d[1]) /\ \A i \in DOMAIN e : ~Shows(e[i])
    BY <1>1, <1>2
  <2> QED
    BY <1>0, <1>2, <2>1 DEF Final
<1>3. ASSUME NEW i \in DOMAIN d, Shows(d[i]), d[i].body \in L, \A j \in i+1..n : ~Shows(d[j])
      PROVE  Final(e, t, L)
  <2>1. CASE i = 1
    <3>1. \A j \in DOMAIN e : j+1 \in i+1..n /\ e[j] = d[j+1]
      BY <1>1, <2>1
    <3>2. \A j \in DOMAIN e : ~Shows(e[j])
      BY <1>3, <3>1
    <3> QED
      BY <1>0, <1>3, <2>1, <3>2 DEF Final
  <2>2. CASE i # 1
    <3>1. i-1 \in DOMAIN e /\ e[i-1] = d[i]
      BY <1>1, <2>2
    <3>2. \A j \in (i-1)+1..n-1 : j+1 \in i+1..n /\ e[j] = d[j+1]
      BY <1>1, <2>2
    <3>3. \A j \in (i-1)+1..Len(e) : ~Shows(e[j])
      BY <1>1, <1>3, <3>2
    <3> QED
      BY <1>3, <3>1, <3>3 DEF Final
  <2> QED
    BY <2>1, <2>2
<1>4. ASSUME ~(s \in L /\ \A i \in DOMAIN d : ~Shows(d[i])) PROVE Final(e, t, L)
  <2>1. PICK i \in DOMAIN d :
          Shows(d[i]) /\ d[i].body \in L /\ \A j \in i+1..n : ~Shows(d[j])
    BY <1>0, <1>4, Zenon DEF Final
  <2> QED
    BY <1>3, <2>1, Zenon
<1> QED
  BY <1>0, <1>1, <1>2, <1>4 DEF e

-----------------------------------------------------------------------------
(* The loop: its inductive invariant.                                      *)

\* Handlers publish layout changes only, each with the payload it has read.
ServerInv ==
  /\ bodies \in Seq(Body) /\ Len(bodies) = Len(log)
  /\ pc \in [Handler -> {"idle", "read", "publish"}]
  /\ body \in [Handler -> Body \cup {NoLayout}]
  /\ \A h \in Handler : pc[h] = "publish" => body[h] \in Body
  /\ \A n \in 1..Len(log) : log[n] = "profile"

ViewerTypeOK ==
  /\ up \in Seq({"get", "subscribe"})
  /\ down \in Seq(Message)
  /\ target \in Profile
  /\ listening \in BOOLEAN
  /\ shown \in Body \cup {NoLayout}
  /\ fetched \in BOOLEAN

\* Nothing is under way on a connection that is not ready; and the engine sends
\* the viewer changes exactly when the viewer listens, or will have a listener
\* before it reads the first of them.
Attached ==
  /\ ~IsReady(Viewer) => subs[Viewer] = {} /\ up = <<>> /\ down = <<>>
  /\ "profile" \in subs[Viewer] <=> listening \/ Answered(down)
  /\ Heard(down, listening)

LiveInv == StoreInv /\ BusInv /\ ServerInv /\ ViewerTypeOK /\ Attached

LEMMA LiveInvType == LiveInv => LiveTypeOK
  BY DEF LiveInv, StoreInv, BusInv, ServerInv, ViewerTypeOK, LiveTypeOK

\* The initial states satisfy it.
LEMMA InitLiveInv == LiveInit => LiveInv
<1> SUFFICES ASSUME LiveInit PROVE LiveInv
  OBVIOUS
<1>1. StoreInv
  <2> DEFINE D == {Default} \cup Extra
  <2>1. D \subseteq Profile /\ Default \in D /\ Default \in Profile /\ DefaultLayout \in Layout
    BY LiveLayoutAssumption
  <2>2. profiles \in [D -> Layout] /\ DOMAIN profiles = D
    BY <2>1 DEF LiveInit
  <2>3. profiles \in Store!Shelf
    BY <2>1, <2>2, OnShelf
  <2> HIDE DEF D
  <2>4. /\ active = Default /\ ahead = FALSE
        /\ disk = [profiles |-> profiles, active |-> active]
    BY DEF LiveInit
  <2> QED
    BY <2>1, <2>2, <2>3, <2>4 DEF StoreInv, Store!TypeOK, Store!ActiveIsReal, Store!StoreFile
<1>2. BusInv
  BY InitBusInv DEF LiveInit
<1>3. ServerInv
  BY DEF LiveInit, Init, ServerInv
<1>4. ViewerTypeOK
  <2>1. Default \in Profile /\ target = Default
    BY LiveLayoutAssumption DEF LiveInit
  <2>2. /\ up = <<>> /\ down = <<>>
        /\ listening = FALSE /\ shown = NoLayout /\ fetched = FALSE
    BY DEF LiveInit
  <2>3. down \in Seq(Message) /\ up \in Seq({"get", "subscribe"})
    BY <2>2
  <2> QED
    BY <2>1, <2>2, <2>3 DEF ViewerTypeOK
<1>5. Attached
  BY LiveLayoutAssumption DEF LiveInit, Init, Attached, Answered, Heard
<1> QED
  BY <1>1, <1>2, <1>3, <1>4, <1>5 DEF LiveInv

\* A step of the loop is a step of its store, which is one of the store's own
\* actions with a write that succeeds, or none.
LEMMA StoreStep ==
  ASSUME LiveNext
  PROVE  [Store!Next]_storeVars
<1>1. ASSUME NEW h \in Handler, NEW p \in Edited, NEW l \in Layout, SetProfile(h, p, l)
      PROVE  Store!Next
  <2>1. p \in Profile /\ Store!Set(p, l, TRUE)
    BY <1>1, LiveLayoutAssumption DEF SetProfile
  <2> QED
    BY <2>1 DEF Store!Next
<1>2. ASSUME NEW h \in Handler, NEW p \in Activated \cup Deleted, SwitchProfile(h, p)
      PROVE  Store!Next
  <2>1. p \in Profile /\ (Store!Activate(p, TRUE) \/ Store!Delete(p, TRUE))
    BY <1>2, LiveLayoutAssumption DEF SwitchProfile
  <2> QED
    BY <2>1 DEF Store!Next
<1>3. ASSUME NEW h \in Handler, ReadActive(h) \/ PublishChange(h)
      PROVE  UNCHANGED storeVars
  BY <1>3 DEF ReadActive, PublishChange
<1>4. CASE Connect \/ Authenticate \/ AnswerGet \/ AnswerSubscribe \/ PushEvent
             \/ FallBehind \/ StartLoad \/ Read \/ Drop
  BY <1>4 DEF Connect, Authenticate, AnswerGet, AnswerSubscribe, PushEvent, FallBehind,
              StartLoad, Read, Drop
<1> QED
  BY <1>1, <1>2, <1>3, <1>4 DEF LiveNext

\* ... and a step of the bus, or none.
LEMMA BusStep ==
  ASSUME LiveNext
  PROVE  [Next]_vars
<1>0. Viewer \in Socket /\ Role \in {"deck", "admin"} /\ "profile" \in Audience \cap Feed
  BY LiveLayoutAssumption DEF Audience, Feed
<1>1. ASSUME NEW h \in Handler, PublishChange(h) PROVE Next
  BY <1>0, <1>1 DEF PublishChange, Next
<1>2. ASSUME NEW h \in Handler, NEW p, NEW l,
             SetProfile(h, p, l) \/ SwitchProfile(h, p) \/ ReadActive(h)
      PROVE  UNCHANGED vars
  BY <1>2 DEF SetProfile, SwitchProfile, ReadActive, busVars
<1>3. Connect => Next
  BY <1>0 DEF Connect, Next
<1>4. Authenticate => Next
  BY <1>0 DEF Authenticate, Next
<1>5. AnswerSubscribe => Next
  BY <1>0 DEF AnswerSubscribe, Next
<1>6. PushEvent => Next
  BY <1>0 DEF PushEvent, Next
<1>7. FallBehind => Next
  BY <1>0 DEF FallBehind, Next
<1>8. Drop => Next
  BY <1>0 DEF Drop, Next
<1>9. AnswerGet \/ StartLoad \/ Read => UNCHANGED vars
  BY DEF AnswerGet, StartLoad, Read, busVars
<1> QED
  BY <1>1, <1>2, <1>3, <1>4, <1>5, <1>6, <1>7, <1>8, <1>9 DEF LiveNext

LEMMA NextStoreInv ==
  ASSUME StoreInv, LiveNext
  PROVE  StoreInv'
<1>1. ASSUME NEW h \in Handler, NEW p \in Edited, NEW l \in Layout, SetProfile(h, p, l)
      PROVE  StoreInv'
  <2>1. p \in Profile /\ Store!Set(p, l, TRUE)
    BY <1>1, LiveLayoutAssumption DEF SetProfile
  <2> QED
    BY <2>1, SetKeeps
<1>2. ASSUME NEW h \in Handler, NEW p \in Activated \cup Deleted, SwitchProfile(h, p)
      PROVE  StoreInv'
  BY <1>2, DeleteKeeps, ActivateKeeps DEF SwitchProfile
<1>3. ASSUME NEW h \in Handler, ReadActive(h) \/ PublishChange(h)
      PROVE  UNCHANGED storeVars
  BY <1>3 DEF ReadActive, PublishChange
<1>4. CASE Connect \/ Authenticate \/ AnswerGet \/ AnswerSubscribe \/ PushEvent
             \/ FallBehind \/ StartLoad \/ Read \/ Drop
  <2>1. UNCHANGED storeVars
    BY <1>4 DEF Connect, Authenticate, AnswerGet, AnswerSubscribe, PushEvent, FallBehind,
                StartLoad, Read, Drop
  <2> QED
    BY <2>1, StoreStays
<1> QED
  BY <1>1, <1>2, <1>3, <1>4, StoreStays DEF LiveNext

\* The profile of a payload that is read from the store, and its layout.
LEMMA CurrentIs ==
  ASSUME StoreInv, NEW p \in DOMAIN profiles
  PROVE  Current(p) \in Body
  BY StoreIs DEF Current, Body

LEMMA NextServerInv ==
  ASSUME LiveInv, LiveNext
  PROVE  ServerInv'
<1> USE DEF LiveInv, ServerInv
<1>1. ASSUME NEW h \in Handler, NEW p \in Edited, NEW l \in Layout, SetProfile(h, p, l)
      PROVE  ServerInv'
  <2>1. <<p, l>> \in Body
    BY LiveLayoutAssumption DEF Body
  <2>2. body' = [body EXCEPT ![h] = <<p, l>>] /\ pc' = [pc EXCEPT ![h] = "publish"]
        /\ UNCHANGED <<bodies, log>>
    BY <1>1 DEF SetProfile, busVars, vars
  <2> QED
    BY <2>1, <2>2
<1>2. ASSUME NEW h \in Handler, NEW p, SwitchProfile(h, p)
      PROVE  ServerInv'
  <2>1. pc' = [pc EXCEPT ![h] = "read"] /\ UNCHANGED <<body, bodies, log>>
    BY <1>2 DEF SwitchProfile, busVars, vars
  <2> QED
    BY <2>1
<1>3. ASSUME NEW h \in Handler, ReadActive(h)
      PROVE  ServerInv'
  <2>1. <<Store!Active, profiles[Store!Active]>> \in Body
    BY StoreIs, CurrentIs DEF Current
  <2>2. body' = [body EXCEPT ![h] = <<Store!Active, profiles[Store!Active]>>]
        /\ pc' = [pc EXCEPT ![h] = "publish"] /\ UNCHANGED <<bodies, log>>
    BY <1>3 DEF ReadActive, busVars, vars
  <2> QED
    BY <2>1, <2>2
<1>4. ASSUME NEW h \in Handler, PublishChange(h)
      PROVE  ServerInv'
  <2>1. body[h] \in Body
    BY <1>4 DEF PublishChange
  <2>2. /\ log' = Append(log, "profile") /\ bodies' = Append(bodies, body[h])
        /\ body' = [body EXCEPT ![h] = NoLayout] /\ pc' = [pc EXCEPT ![h] = "idle"]
    BY <1>4 DEF PublishChange, Publish
  <2>3. log \in Seq(Audience) /\ "profile" \in Audience
    BY DEF BusInv, TypeOK, Audience
  <2>4. bodies' \in Seq(Body) /\ Len(bodies') = Len(log')
    BY <2>1, <2>2, <2>3
  <2>5. \A n \in 1..Len(log') : log'[n] = "profile"
    BY <2>2, <2>3
  <2> QED
    BY <2>2, <2>4, <2>5
<1>5. CASE Connect \/ Authenticate \/ AnswerGet \/ AnswerSubscribe \/ PushEvent
             \/ FallBehind \/ StartLoad \/ Read \/ Drop
  <2>1. UNCHANGED <<log, bodies, pc, body>>
    BY <1>5 DEF Connect, Authenticate, AnswerGet, AnswerSubscribe, PushEvent, FallBehind,
                StartLoad, Read, Drop, serverVars, busVars, vars,
                Open, Ready, Subscribe, Receive, Lag, Close
  <2> QED
    BY <2>1
<1> QED
  BY <1>1, <1>2, <1>3, <1>4, <1>5 DEF LiveNext

\* What a frame read by the viewer does to what it shows.
ReadShows ==
  shown' = IF Shows(Head(down)) THEN Head(down).body ELSE shown

LEMMA ReadIs ==
  ASSUME LiveInv, Read
  PROVE  /\ down # <<>> /\ down' = Tail(down)
         /\ ReadShows
         /\ listening' = (listening \/ Head(down).kind = "subscribed")
         /\ UNCHANGED <<target, profiles, bodies, pc>> /\ UNCHANGED vars
<1>1. down # <<>> /\ down \in Seq(Message) /\ listening \in BOOLEAN /\ Heard(down, listening)
  BY DEF LiveInv, ViewerTypeOK, Attached, Read
<1>2. Head(down).kind = "changed" => listening
  BY <1>1, HeardTail
<1>3. shown' = IF Head(down).kind = "profile" \/ (Head(down).kind = "changed" /\ listening)
               THEN Head(down).body ELSE shown
  BY DEF Read
<1>4. ReadShows
  BY <1>2, <1>3 DEF ReadShows, Shows
<1>5. listening' = (listening \/ Head(down).kind = "subscribed")
  BY DEF Read
<1>6. UNCHANGED <<target, profiles, bodies, pc>> /\ UNCHANGED vars /\ down' = Tail(down)
  BY DEF Read, storeVars, serverVars, busVars
<1> QED
  BY <1>1, <1>4, <1>5, <1>6

\* What the socket does with an event: it passes it on if the viewer has
\* subscribed.
LEMMA PushIs ==
  ASSUME LiveInv, PushEvent
  PROVE  /\ IsReady(Viewer) /\ next[Viewer] \in 1..Len(log)
         /\ bodies[next[Viewer]] \in Body
         /\ next' = [next EXCEPT ![Viewer] = @ + 1]
         /\ IF "profile" \in subs[Viewer]
            THEN /\ down' = Append(down, [kind |-> "changed", body |-> bodies[next[Viewer]]])
                 /\ fetched' = FALSE
            ELSE UNCHANGED <<down, fetched>>
<1>0. Viewer \in Socket
  BY LiveLayoutAssumption
<1>1. /\ IsReady(Viewer) /\ next[Viewer] \in Oldest..Len(log)
      /\ got' = [got EXCEPT ![Viewer] =
                   IF Wants(Viewer, log[next[Viewer]]) THEN Append(@, next[Viewer]) ELSE @]
      /\ next' = [next EXCEPT ![Viewer] = @ + 1]
      /\ IF got' = got THEN UNCHANGED <<down, fetched>>
         ELSE /\ down' = Append(down, [kind |-> "changed", body |-> bodies[next[Viewer]]])
              /\ fetched' = FALSE
  BY DEF PushEvent, Receive
<1>2. log \in Seq(Audience) /\ got \in [Socket -> Seq(Nat \ {0})]
  BY DEF LiveInv, BusInv, TypeOK
<1>3. next[Viewer] \in 1..Len(log)
  BY <1>1, <1>2, OldestType
<1>4. log[next[Viewer]] = "profile" /\ bodies[next[Viewer]] \in Body
  BY <1>3 DEF LiveInv, ServerInv
<1>5. Wants(Viewer, log[next[Viewer]]) <=> "profile" \in subs[Viewer]
  BY <1>1, <1>4 DEF Wants, Feed
<1>6. CASE "profile" \in subs[Viewer]
  <2>1. got'[Viewer] = Append(got[Viewer], next[Viewer])
    BY <1>0, <1>1, <1>2, <1>5, <1>6
  <2>2. got[Viewer] \in Seq(Nat \ {0})
    BY <1>0, <1>2
  <2>3. Len(Append(got[Viewer], next[Viewer])) # Len(got[Viewer])
    BY <2>2
  <2>4. got' # got
    BY <2>1, <2>3
  <2> QED
    BY <1>1, <1>3, <1>4, <1>6, <2>4
<1>7. CASE "profile" \notin subs[Viewer]
  <2>1. got' = got
    BY <1>0, <1>1, <1>2, <1>5, <1>7
  <2> QED
    BY <1>1, <1>3, <1>4, <1>7, <2>1
<1> QED
  BY <1>6, <1>7

LEMMA NextViewerType ==
  ASSUME LiveInv, LiveNext
  PROVE  ViewerTypeOK'
<1> USE DEF ViewerTypeOK
<1>0. ViewerTypeOK
  BY DEF LiveInv
<1>1. ASSUME NEW h \in Handler, NEW p, NEW l,
             SetProfile(h, p, l) \/ SwitchProfile(h, p) \/ ReadActive(h) \/ PublishChange(h)
      PROVE  ViewerTypeOK'
  <2>1. UNCHANGED <<down, up, target, listening, shown, fetched>>
    BY <1>1 DEF SetProfile, SwitchProfile, ReadActive, PublishChange, viewerVars
  <2> QED
    BY <1>0, <2>1
<1>2. CASE Connect \/ FallBehind
  <2>1. UNCHANGED <<down, up, target, listening, shown, fetched>>
    BY <1>2 DEF Connect, FallBehind, viewerVars
  <2> QED
    BY <1>0, <2>1
<1>3. CASE Authenticate
  <2>1. target' = Store!Active /\ UNCHANGED <<down, up, listening, shown, fetched>>
    BY <1>3 DEF Authenticate
  <2>2. Store!Active \in Profile
    BY StoreIs DEF LiveInv
  <2> QED
    BY <1>0, <2>1, <2>2
<1>4. CASE AnswerGet
  <2> DEFINE m == IF target \in DOMAIN profiles
                  THEN [kind |-> "profile", body |-> <<target, profiles[target]>>]
                  ELSE [kind |-> "refused"]
  <2>1. /\ up # <<>> /\ up' = Tail(up) /\ down' = Append(down, m)
        /\ fetched' = (fetched \/ target \in DOMAIN profiles)
        /\ UNCHANGED <<target, listening, shown>>
    BY <1>4 DEF AnswerGet
  <2>2. target \in DOMAIN profiles => <<target, profiles[target]>> \in Body
    BY CurrentIs DEF LiveInv, Current
  <2>3. m \in Message
    BY <2>2, MessageIs
  <2> HIDE DEF m
  <2>4. down' \in Seq(Message)
    BY <1>0, <2>1, <2>3
  <2>5. up' \in Seq({"get", "subscribe"})
    BY <1>0, <2>1
  <2> QED
    BY <1>0, <2>1, <2>4, <2>5
<1>5. CASE AnswerSubscribe
  <2> DEFINE m == [kind |-> "subscribed"]
  <2>1. /\ up # <<>> /\ up' = Tail(up) /\ down' = Append(down, m)
        /\ UNCHANGED <<target, listening, shown, fetched>>
    BY <1>5 DEF AnswerSubscribe
  <2>2. m \in Message
    BY MessageIs
  <2> HIDE DEF m
  <2>3. down' \in Seq(Message)
    BY <1>0, <2>1, <2>2
  <2>4. up' \in Seq({"get", "subscribe"})
    BY <1>0, <2>1
  <2> QED
    BY <1>0, <2>1, <2>3, <2>4
<1>6. CASE PushEvent
  <2> DEFINE m == [kind |-> "changed", body |-> bodies[next[Viewer]]]
  <2>1. UNCHANGED <<up, target, listening, shown>> /\ fetched' \in BOOLEAN
    BY <1>0, <1>6 DEF PushEvent, viewerVars
  <2>2. m \in Message /\ (down' = Append(down, m) \/ down' = down)
    BY <1>6, PushIs, MessageIs
  <2> HIDE DEF m
  <2>3. down' \in Seq(Message)
    BY <1>0, <2>2
  <2> QED
    BY <1>0, <2>1, <2>3
<1>7. CASE StartLoad
  <2>1. up' = Append(up, "get") /\ UNCHANGED <<down, target, listening, shown, fetched>>
    BY <1>7 DEF StartLoad
  <2>2. up' \in Seq({"get", "subscribe"})
    BY <1>0, <2>1
  <2> QED
    BY <1>0, <2>1, <2>2
<1>8. CASE Read
  <2> DEFINE m == Head(down)
  <2>1. /\ UNCHANGED <<target, fetched>>
        /\ up' = IF m.kind = "profile" THEN Append(up, "subscribe") ELSE up
    BY <1>8 DEF Read
  <2>2. /\ m \in Message /\ down' \in Seq(Message)
        /\ shown' = IF Shows(m) THEN m.body ELSE shown
        /\ listening' = (listening \/ m.kind = "subscribed")
    BY <1>0, <1>8, ReadIs, TailIs DEF ReadShows
  <2>3. Shows(m) => m.body \in Body
    BY <2>2, MessageBody
  <2> HIDE DEF m
  <2>4. up' \in Seq({"get", "subscribe"})
    BY <1>0, <2>1
  <2>5. shown' \in Body \cup {NoLayout}
    BY <1>0, <2>2, <2>3
  <2> QED
    BY <1>0, <2>1, <2>2, <2>4, <2>5
<1>9. CASE Drop
  <2>1. /\ up' = <<>> /\ down' = <<>> /\ listening' = FALSE /\ fetched' = FALSE
        /\ UNCHANGED <<target, shown>>
    BY <1>9 DEF Drop
  <2>2. down' \in Seq(Message) /\ up' \in Seq({"get", "subscribe"})
    BY <2>1
  <2> QED
    BY <1>0, <2>1, <2>2
<1> QED
  BY <1>1, <1>2, <1>3, <1>4, <1>5, <1>6, <1>7, <1>8, <1>9 DEF LiveNext

\* Nothing of the viewer's connection changes: what Attached says stays true.
LEMMA AttachedStays ==
  ASSUME Attached, UNCHANGED <<level, subs, up, down, listening>>
  PROVE  Attached'
  BY DEF Attached, IsReady, Answered, Heard

LEMMA NextAttached ==
  ASSUME LiveInv, LiveNext
  PROVE  Attached'
<1>0. /\ Attached /\ ViewerTypeOK /\ Viewer \in Socket
      /\ level \in [Socket -> Level] /\ subs \in [Socket -> SUBSET Feed]
  BY LiveLayoutAssumption DEF LiveInv, BusInv, TypeOK
<1>1. ASSUME NEW h \in Handler, NEW p, NEW l,
             SetProfile(h, p, l) \/ SwitchProfile(h, p) \/ ReadActive(h) \/ PublishChange(h)
      PROVE  Attached'
  <2>1. UNCHANGED <<level, subs, up, down, listening>>
    BY <1>1 DEF SetProfile, SwitchProfile, ReadActive, PublishChange, Publish,
                viewerVars, busVars, vars
  <2> QED
    BY <1>0, <2>1, AttachedStays
<1>2. CASE Connect
  <2>1. /\ level[Viewer] = "closed" /\ level' = [level EXCEPT ![Viewer] = "handshake"]
        /\ UNCHANGED <<subs, up, down, listening>>
    BY <1>2 DEF Connect, Open, viewerVars
  <2> QED
    BY <1>0, <2>1 DEF Attached, IsReady, Answered, Heard
<1>3. CASE Authenticate
  <2>1. /\ level[Viewer] = "handshake" /\ level' = [level EXCEPT ![Viewer] = Role]
        /\ UNCHANGED <<subs, up, down, listening>>
    BY <1>3 DEF Authenticate, Ready
  <2>2. ~IsReady(Viewer)
    BY <2>1 DEF IsReady
  <2> QED
    BY <1>0, <2>1, <2>2 DEF Attached, Answered, Heard
<1>4. CASE AnswerGet
  <2> DEFINE m == IF target \in DOMAIN profiles
                  THEN [kind |-> "profile", body |-> <<target, profiles[target]>>]
                  ELSE [kind |-> "refused"]
  <2>1. /\ up # <<>> /\ down' = Append(down, m) /\ UNCHANGED <<level, subs, listening>>
    BY <1>4 DEF AnswerGet, busVars, vars
  <2>2. target \in DOMAIN profiles => <<target, profiles[target]>> \in Body
    BY CurrentIs DEF LiveInv, Current
  <2>3. m \in Message /\ m.kind \in {"profile", "refused"}
    BY <2>2, MessageIs
  <2> HIDE DEF m
  <2>4. IsReady(Viewer)' /\ (Answered(down') <=> Answered(down)) /\ Heard(down', listening)
    BY <1>0, <2>1, <2>3, AnsweredAppend, HeardAppend DEF Attached, ViewerTypeOK, IsReady
  <2> QED
    BY <1>0, <2>1, <2>4 DEF Attached
<1>5. CASE AnswerSubscribe
  <2> DEFINE m == [kind |-> "subscribed"]
  <2>1. /\ down' = Append(down, m) /\ IsReady(Viewer)
        /\ subs' = [subs EXCEPT ![Viewer] = @ \cup {"profile"}]
        /\ UNCHANGED <<level, listening>>
    BY <1>5 DEF AnswerSubscribe, Subscribe
  <2>2. m \in Message /\ m.kind = "subscribed"
    BY MessageIs
  <2> HIDE DEF m
  <2>3. Answered(down') /\ Heard(down', listening)
    BY <1>0, <2>1, <2>2, AnsweredAppend, HeardAppend DEF Attached, ViewerTypeOK
  <2>4. IsReady(Viewer)' /\ "profile" \in subs'[Viewer]
    BY <1>0, <2>1 DEF IsReady
  <2> QED
    BY <2>1, <2>3, <2>4 DEF Attached
<1>6. CASE PushEvent
  <2> DEFINE m == [kind |-> "changed", body |-> bodies[next[Viewer]]]
  <2>1. UNCHANGED <<level, subs, up, listening>> /\ IsReady(Viewer)
    BY <1>6 DEF PushEvent, viewerVars, Receive
  <2>2. /\ m \in Message /\ m.kind = "changed"
        /\ IF "profile" \in subs[Viewer] THEN down' = Append(down, m) ELSE down' = down
    BY <1>6, PushIs, MessageIs
  <2> HIDE DEF m
  <2>3. IsReady(Viewer)'
    BY <2>1 DEF IsReady
  <2>4. CASE "profile" \in subs[Viewer]
    <3>1. down' = Append(down, m) /\ (listening \/ Answered(down))
      BY <1>0, <2>2, <2>4 DEF Attached
    <3>2. (Answered(down') <=> Answered(down)) /\ Heard(down', listening)
      BY <1>0, <2>2, <3>1, AnsweredAppend, HeardAppend DEF Attached, ViewerTypeOK
    <3> QED
      BY <1>0, <2>1, <2>3, <3>2 DEF Attached
  <2>5. CASE "profile" \notin subs[Viewer]
    BY <1>0, <2>1, <2>2, <2>5, AttachedStays
  <2> QED
    BY <2>4, <2>5
<1>7. CASE FallBehind
  <2>1. UNCHANGED <<level, subs, up, down, listening>>
    BY <1>7 DEF FallBehind, Lag, viewerVars
  <2> QED
    BY <1>0, <2>1, AttachedStays
<1>8. CASE StartLoad
  <2>1. IsReady(Viewer) /\ UNCHANGED <<level, subs, down, listening>>
    BY <1>8 DEF StartLoad, busVars, vars
  <2> QED
    BY <1>0, <2>1 DEF Attached, IsReady, Answered, Heard
<1>9. CASE Read
  <2>1. /\ down # <<>> /\ down' = Tail(down) /\ UNCHANGED <<level, subs>>
        /\ listening' = (listening \/ Head(down).kind = "subscribed")
    BY <1>9, ReadIs DEF vars
  <2>2. IsReady(Viewer) /\ IsReady(Viewer)'
    BY <1>0, <2>1 DEF Attached, IsReady
  <2>3. Answered(down) <=> Answered(down') \/ Head(down).kind = "subscribed"
    BY <1>0, <2>1, AnsweredTail DEF ViewerTypeOK
  <2>4. Heard(down', listening')
    BY <1>0, <2>1, HeardTail DEF ViewerTypeOK, Attached
  <2> QED
    BY <1>0, <2>1, <2>2, <2>3, <2>4 DEF Attached
<1>10. CASE Drop
  <2>1. /\ up' = <<>> /\ down' = <<>> /\ listening' = FALSE
        /\ subs' = [subs EXCEPT ![Viewer] = {}]
    BY <1>10 DEF Drop, Close
  <2> QED
    BY <1>0, <2>1 DEF Attached, Answered, Heard
<1> QED
  BY <1>1, <1>2, <1>3, <1>4, <1>5, <1>6, <1>7, <1>8, <1>9, <1>10 DEF LiveNext

\* Steps preserve the inductive invariant.
LEMMA NextLiveInv == LiveInv /\ [LiveNext]_liveVars => LiveInv'
<1> SUFFICES ASSUME LiveInv, [LiveNext]_liveVars PROVE LiveInv'
  OBVIOUS
<1>1. CASE LiveNext
  BY <1>1, BusStep, NextBusInv, NextStoreInv, NextServerInv, NextViewerType, NextAttached
     DEF LiveInv
<1>2. CASE UNCHANGED liveVars
  <2>1. UNCHANGED storeVars /\ UNCHANGED vars /\ UNCHANGED <<bodies, pc, body>>
        /\ UNCHANGED <<up, down, target, listening, shown, fetched>>
    BY <1>2 DEF liveVars, busVars, serverVars, viewerVars
  <2>2. StoreInv'
    BY <2>1, StoreStays DEF LiveInv
  <2>3. BusInv'
    BY <2>1, NextBusInv DEF LiveInv
  <2>4. ServerInv' /\ ViewerTypeOK'
    BY <2>1 DEF LiveInv, ServerInv, ViewerTypeOK, vars
  <2>5. Attached'
    BY <2>1, AttachedStays DEF LiveInv, vars
  <2> QED
    BY <2>2, <2>3, <2>4, <2>5 DEF LiveInv
<1> QED
  BY <1>1, <1>2

\* The loop keeps its state well formed: every event has its payload, each version
\* of the store is a file that could be loaded, and what travels to the viewer or
\* is on its screen is a layout of a profile.
THEOREM LiveTypeCorrect == LiveSpec => []LiveTypeOK
  BY InitLiveInv, NextLiveInv, LiveInvType, PTL DEF LiveSpec

-----------------------------------------------------------------------------
(* At rest the viewer shows the last change, or what it has fetched since.  *)

\* What a viewer that has missed nothing shows in the end.
Latest == IF fetched THEN Current(target) ELSE bodies[Len(log)]

\* No handler runs, and the viewer's socket has passed on everything published
\* since it subscribed, of which there is something.
CaughtUp ==
  /\ \A h \in Handler : pc[h] = "idle"
  /\ "profile" \in subs[Viewer]
  /\ next[Viewer] > Len(log)
  /\ Len(log) > subAt[Viewer]

\* Then reading what is on its way makes the viewer show the latest: the last frame
\* with a layout in it has it, however the answers to its fetches and the events
\* crossed.
Rest == CaughtUp => Final(down, shown, {Latest}) /\ (fetched => target \in DOMAIN profiles)

LEMMA InitRest == LiveInit => Rest
<1> SUFFICES ASSUME LiveInit PROVE ~CaughtUp
  BY DEF Rest
<1> QED
  BY LiveLayoutAssumption DEF LiveInit, Init, CaughtUp

\* What the invariant needs stays the same in a step that touches none of it.
LEMMA RestStays ==
  ASSUME Rest, UNCHANGED <<profiles, bodies, log, pc, subs, next, subAt, target, down, shown, fetched>>
  PROVE  Rest'
  BY DEF Rest, CaughtUp, Final, Latest, Current

LEMMA NextRest ==
  ASSUME LiveInv, Rest, LiveNext
  PROVE  Rest'
<1>0. /\ Viewer \in Socket /\ down \in Seq(Message) /\ log \in Seq(Audience)
      /\ pc \in [Handler -> {"idle", "read", "publish"}]
      /\ next \in [Socket -> Nat \ {0}] /\ subs \in [Socket -> SUBSET Feed]
      /\ subAt \in [Socket -> Nat]
      /\ next[Viewer] <= Len(log) + 1
  BY LiveLayoutAssumption
     DEF LiveInv, ViewerTypeOK, ServerInv, BusInv, TypeOK, CursorAhead
<1>1. ASSUME NEW h \in Handler, NEW p, NEW l,
             SetProfile(h, p, l) \/ SwitchProfile(h, p) \/ ReadActive(h)
      PROVE  Rest'
  <2>1. pc' = [pc EXCEPT ![h] = "publish"] \/ pc' = [pc EXCEPT ![h] = "read"]
    BY <1>1 DEF SetProfile, SwitchProfile, ReadActive
  <2>2. pc'[h] # "idle"
    BY <1>0, <2>1
  <2> QED
    BY <2>2 DEF Rest, CaughtUp
<1>2. ASSUME NEW h \in Handler, PublishChange(h)
      PROVE  Rest'
  <2>1. log' = Append(log, "profile") /\ next' = next /\ "profile" \in Audience
    BY <1>2 DEF PublishChange, Publish, Audience
  <2>2. ~(next'[Viewer] > Len(log'))
    BY <1>0, <2>1
  <2> QED
    BY <2>2 DEF Rest, CaughtUp
<1>3. ASSUME Connect \/ Authenticate
      PROVE  Rest'
  <2>1. ~IsReady(Viewer) /\ subs' = subs
    BY <1>3 DEF Connect, Authenticate, Open, Ready, IsReady
  <2>2. "profile" \notin subs'[Viewer]
    BY <2>1 DEF LiveInv, Attached
  <2> QED
    BY <2>2 DEF Rest, CaughtUp
<1>4. ASSUME AnswerGet
      PROVE  Rest'
  <2> DEFINE m == IF target \in DOMAIN profiles
                  THEN [kind |-> "profile", body |-> <<target, profiles[target]>>]
                  ELSE [kind |-> "refused"]
  <2>1. /\ down' = Append(down, m)
        /\ UNCHANGED <<profiles, bodies, log, pc, subs, next, subAt, target, shown>>
    BY <1>4 DEF AnswerGet, storeVars, busVars, vars, serverVars
  <2>2. fetched' = (fetched \/ target \in DOMAIN profiles) /\ m \in Message
    BY <1>4, CurrentIs, MessageIs DEF AnswerGet, LiveInv, Current
  <2>3. CASE target \in DOMAIN profiles
    <3>1. Shows(m) /\ m.body = Current(target) /\ Latest' = Current(target)
      BY <2>1, <2>2, <2>3 DEF Shows, Latest, Current
    <3> HIDE DEF m
    <3>2. Final(down', shown, {Current(target)})
      BY <1>0, <2>1, <2>2, <3>1, FinalAppendShow
    <3> QED
      BY <2>1, <2>3, <3>1, <3>2 DEF Rest
  <2>4. CASE target \notin DOMAIN profiles
    <3>1. ~Shows(m)
      BY <2>4 DEF Shows
    <3> HIDE DEF m
    <3>2. (CaughtUp' => CaughtUp) /\ Latest' = Latest
      BY <1>0, <2>1, <2>2, <2>4 DEF CaughtUp, Latest, Current
    <3>3. CaughtUp => Final(down', shown, {Latest}) /\ ~fetched
      BY <1>0, <2>1, <2>2, <2>4, <3>1, FinalAppendOther DEF Rest
    <3> QED
      BY <2>1, <2>2, <2>4, <3>2, <3>3 DEF Rest
  <2> QED
    BY <2>3, <2>4
<1>5. ASSUME AnswerSubscribe
      PROVE  Rest'
  <2> DEFINE m == [kind |-> "subscribed"]
  <2>1. /\ down' = Append(down, m)
        /\ subAt' = [subAt EXCEPT ![Viewer] =
                       IF "profile" \notin subs[Viewer] THEN Len(log) ELSE @]
        /\ UNCHANGED <<profiles, bodies, log, pc, next, target, shown, fetched>>
    BY <1>5 DEF AnswerSubscribe, Subscribe, storeVars, serverVars
  <2>2. m \in Message /\ ~Shows(m)
    BY MessageIs DEF Shows
  <2> HIDE DEF m
  <2>3. CASE "profile" \notin subs[Viewer]
    <3>1. subAt'[Viewer] = Len(log')
      BY <1>0, <2>1, <2>3
    <3>2. ~(Len(log') > subAt'[Viewer])
      BY <1>0, <2>1, <3>1
    <3> QED
      BY <3>2 DEF Rest, CaughtUp
  <2>4. CASE "profile" \in subs[Viewer]
    <3>1. subAt' = subAt
      BY <1>0, <2>1, <2>4
    <3>2. CaughtUp' => CaughtUp /\ Latest' = Latest
      BY <2>1, <2>4, <3>1 DEF CaughtUp, Latest, Current
    <3>3. CaughtUp => Final(down', shown, {Latest})
      BY <1>0, <2>1, <2>2, FinalAppendOther DEF Rest
    <3> QED
      BY <2>1, <2>2, <2>4, <3>2, <3>3 DEF Rest
  <2> QED
    BY <2>3, <2>4
<1>6. ASSUME PushEvent
      PROVE  Rest'
  <2> DEFINE m == [kind |-> "changed", body |-> bodies[next[Viewer]]]
  <2>1. UNCHANGED <<profiles, bodies, log, pc, subs, subAt, target, shown>>
    BY <1>6 DEF PushEvent, Receive, storeVars, serverVars, viewerVars
  <2>2. next'[Viewer] = next[Viewer] + 1 /\ next[Viewer] \in 1..Len(log)
    BY <1>0, <1>6, PushIs
  <2>3. /\ m \in Message /\ Shows(m) /\ m.body = bodies[next[Viewer]]
        /\ "profile" \in subs[Viewer] => down' = Append(down, m) /\ fetched' = FALSE
    BY <1>6, PushIs, MessageIs DEF Shows
  <2> HIDE DEF m
  <2>4. ASSUME CaughtUp'
        PROVE  Final(down', shown', {Latest'}) /\ ~fetched'
    <3>1. next[Viewer] = Len(log)
      BY <1>0, <2>1, <2>2, <2>4 DEF CaughtUp
    <3>2. down' = Append(down, m) /\ fetched' = FALSE
      BY <2>1, <2>3, <2>4 DEF CaughtUp
    <3>3. m.body = Latest'
      BY <2>1, <2>3, <3>1, <3>2 DEF Latest
    <3>4. Final(down', shown, {Latest'})
      BY <1>0, <2>3, <3>2, <3>3, FinalAppendShow
    <3> QED
      BY <2>1, <3>2, <3>4
  <2> QED
    BY <2>4 DEF Rest
<1>7. ASSUME FallBehind
      PROVE  Rest'
  <2>1. next[Viewer] < Oldest /\ next' = [next EXCEPT ![Viewer] = Oldest] /\ log' = log
    BY <1>7 DEF FallBehind, Lag
  <2> DEFINE n == Len(log)
  <2>2. n \in Nat /\ next[Viewer] \in Nat \ {0} /\ next'[Viewer] = Oldest /\ Len(log') = n
    BY <1>0, <2>1
  <2>3. Oldest = IF n > Capacity THEN n - Capacity + 1 ELSE 1
    BY DEF Oldest
  <2> HIDE DEF n
  <2>4. ~(next'[Viewer] > Len(log'))
    BY <2>1, <2>2, <2>3, EventBusAssumption
  <2> QED
    BY <2>4 DEF Rest, CaughtUp
<1>8. ASSUME StartLoad
      PROVE  Rest'
  <2>1. UNCHANGED <<profiles, bodies, log, pc, subs, next, subAt, target, down, shown,
                    fetched>>
    BY <1>8 DEF StartLoad, storeVars, busVars, vars, serverVars
  <2> QED
    BY <2>1, RestStays
<1>9. ASSUME Read
      PROVE  Rest'
  <2>1. /\ down # <<>> /\ down' = Tail(down) /\ ReadShows
        /\ UNCHANGED <<profiles, bodies, log, pc, subs, next, subAt, target, fetched>>
    BY <1>9, ReadIs DEF vars, Read
  <2>2. CaughtUp' => CaughtUp /\ Latest' = Latest
    BY <2>1 DEF CaughtUp, Latest, Current
  <2>3. CaughtUp => Final(down', shown', {Latest})
    BY <1>0, <2>1, FinalTail DEF Rest, ReadShows
  <2> QED
    BY <2>1, <2>2, <2>3 DEF Rest
<1>10. ASSUME Drop
       PROVE  Rest'
  <2>1. subs' = [subs EXCEPT ![Viewer] = {}]
    BY <1>10 DEF Drop, Close
  <2>2. "profile" \notin subs'[Viewer]
    BY <1>0, <2>1
  <2> QED
    BY <2>2 DEF Rest, CaughtUp
<1> QED
  BY <1>1, <1>2, <1>3, <1>4, <1>5, <1>6, <1>7, <1>8, <1>9, <1>10 DEF LiveNext

LEMMA StepRest == LiveInv /\ Rest /\ [LiveNext]_liveVars => Rest'
<1> SUFFICES ASSUME LiveInv, Rest, UNCHANGED liveVars PROVE Rest'
  BY NextRest
<1>1. UNCHANGED <<profiles, bodies, log, pc, subs, next, subAt, target, down, shown, fetched>>
  BY DEF liveVars, storeVars, busVars, vars, serverVars, viewerVars
<1> QED
  BY <1>1, RestStays

\* A viewer at rest has a subscription and nothing left to read, so that it shows
\* the latest.
LEMMA QuietShows ==
  ASSUME LiveInv, Rest, Quiet, Len(log) > subAt[Viewer]
  PROVE  shown = Latest /\ (fetched => target \in DOMAIN profiles)
<1>1. listening /\ down = <<>> /\ next[Viewer] > Len(log) /\ \A h \in Handler : pc[h] = "idle"
  BY DEF Quiet
<1>2. CaughtUp
  BY <1>1 DEF LiveInv, Attached, CaughtUp
<1>3. Final(<<>>, shown, {Latest}) /\ (fetched => target \in DOMAIN profiles)
  BY <1>1, <1>2 DEF Rest
<1> QED
  BY <1>3 DEF Final

LEMMA LatestIs ==
  ASSUME LiveInv, Rest
  PROVE  DeckShowsLast
  BY QuietShows DEF DeckShowsLast, Latest

\* However many handlers run, however many loads of the viewer overlap, and whatever
\* the ring of the bus loses: once they and the viewer have come to rest, the viewer
\* shows exactly the last change that was published, or, if a fetch was answered
\* after that change was passed on, what the store holds of the profile it asks for.
THEOREM ShowsLastCorrect == LiveSpec => []DeckShowsLast
<1>1. LiveInit => LiveInv /\ Rest
  BY InitLiveInv, InitRest
<1>2. LiveInv /\ Rest /\ [LiveNext]_liveVars => (LiveInv /\ Rest)'
  BY NextLiveInv, StepRest
<1>3. LiveInv /\ Rest => DeckShowsLast
  BY LatestIs
<1> QED
  BY <1>1, <1>2, <1>3, PTL DEF LiveSpec

-----------------------------------------------------------------------------
(* One handler at a time.                                                  *)

\* A viewer at rest that was subscribed when the last change was published shows
\* a profile as the store holds it.  Of KnownOp::ProfileSet and its neighbours
\* (server.rs:547-585), which publish after they have let go of the store: two
\* handlers may publish in the other order than they stored, and a viewer at rest
\* then shows a version that is no longer stored.
ShowsStored ==
  Quiet /\ Len(log) > subAt[Viewer] =>
    shown[1] \in DOMAIN profiles /\ shown = Current(shown[1])

\* The payload b is what the store holds of its profile.
IsStored(b) == b[1] \in DOMAIN profiles /\ b = Current(b[1])

\* What a handler is about to publish is stored, and so is, when none runs, what
\* was published last.
Fresh ==
  /\ \A h \in Handler : pc[h] = "publish" => IsStored(body[h])
  /\ (\A h \in Handler : pc[h] = "idle") /\ Len(log) > 0 => IsStored(bodies[Len(log)])

LEMMA InitFresh == LiveInit => Fresh
  BY DEF LiveInit, Init, Fresh

LEMMA FreshStays ==
  ASSUME Fresh, UNCHANGED <<pc, body, bodies, log, profiles>>
  PROVE  Fresh'
  BY DEF Fresh, IsStored, Current

LEMMA NextFresh ==
  ASSUME \A g, h \in Handler : g = h, LiveInv, Fresh, [LiveNext]_liveVars
  PROVE  Fresh'
<1>0. /\ pc \in [Handler -> {"idle", "read", "publish"}]
      /\ body \in [Handler -> Body \cup {NoLayout}]
      /\ bodies \in Seq(Body) /\ Len(bodies) = Len(log) /\ log \in Seq(Audience)
  BY DEF LiveInv, ServerInv, BusInv, TypeOK
<1>1. ASSUME NEW h \in Handler, NEW p \in Edited, NEW l \in Layout, SetProfile(h, p, l)
      PROVE  Fresh'
  <2>1. /\ body' = [body EXCEPT ![h] = <<p, l>>] /\ pc' = [pc EXCEPT ![h] = "publish"]
        /\ p \in Profile /\ Store!Set(p, l, TRUE)
    BY <1>1, LiveLayoutAssumption DEF SetProfile
  <2>2. p \in DOMAIN profiles' /\ profiles'[p] = l
    BY <2>1, SetKeeps DEF LiveInv
  <2>3. pc'[h] = "publish" /\ body'[h] = <<p, l>>
    BY <1>0, <2>1
  <2>4. IsStored(body[h])'
    BY <2>2, <2>3 DEF IsStored, Current
  <2> QED
    BY <2>3, <2>4 DEF Fresh
<1>2. ASSUME NEW h \in Handler, NEW p, SwitchProfile(h, p)
      PROVE  Fresh'
  <2>1. pc'[h] = "read"
    BY <1>0, <1>2 DEF SwitchProfile
  <2> QED
    BY <2>1 DEF Fresh
<1>3. ASSUME NEW h \in Handler, ReadActive(h)
      PROVE  Fresh'
  <2>1. /\ Store!Active = active /\ active \in DOMAIN profiles
    BY StoreIs DEF LiveInv
  <2>2. body'[h] = <<active, profiles[active]>> /\ pc'[h] = "publish" /\ profiles' = profiles
    BY <1>0, <1>3, <2>1 DEF ReadActive, storeVars
  <2>3. IsStored(body[h])'
    BY <2>1, <2>2 DEF IsStored, Current
  <2> QED
    BY <2>2, <2>3 DEF Fresh
<1>4. ASSUME NEW h \in Handler, PublishChange(h)
      PROVE  Fresh'
  <2>1. /\ pc[h] = "publish" /\ bodies' = Append(bodies, body[h]) /\ profiles' = profiles
        /\ log' = Append(log, "profile") /\ pc' = [pc EXCEPT ![h] = "idle"]
    BY <1>4 DEF PublishChange, Publish, storeVars
  <2>2. IsStored(body[h]) /\ body[h] \in Body
    BY <2>1 DEF Fresh, LiveInv, ServerInv
  <2>3. bodies'[Len(log')] = body[h] /\ pc'[h] = "idle"
    <3>1. "profile" \in Audience
      BY DEF Audience
    <3> QED
      BY <1>0, <2>1, <2>2, <3>1
  <2>4. IsStored(bodies[Len(log)])'
    BY <2>1, <2>2, <2>3 DEF IsStored, Current
  <2> QED
    BY <2>3, <2>4 DEF Fresh
<1>5. CASE Connect \/ Authenticate \/ AnswerGet \/ AnswerSubscribe \/ PushEvent
             \/ FallBehind \/ StartLoad \/ Read \/ Drop
  <2>1. UNCHANGED <<pc, body, bodies, log, profiles>>
    BY <1>5 DEF Connect, Authenticate, AnswerGet, AnswerSubscribe, PushEvent, FallBehind,
                StartLoad, Read, Drop, serverVars, storeVars, busVars, vars,
                Open, Ready, Subscribe, Receive, Lag, Close
  <2> QED
    BY <2>1, FreshStays
<1>6. CASE UNCHANGED liveVars
  <2>1. UNCHANGED <<pc, body, bodies, log, profiles>>
    BY <1>6 DEF liveVars, serverVars, storeVars, busVars, vars
  <2> QED
    BY <2>1, FreshStays
<1> QED
  BY <1>1, <1>2, <1>3, <1>4, <1>5, <1>6 DEF LiveNext

LEMMA StoredIs ==
  ASSUME LiveInv, Rest, Fresh
  PROVE  ShowsStored
<1> SUFFICES ASSUME Quiet, Len(log) > subAt[Viewer]
             PROVE  IsStored(shown)
  BY DEF ShowsStored, IsStored
<1>0. Viewer \in Socket /\ subAt \in [Socket -> Nat] /\ Len(log) \in Nat
  BY LiveLayoutAssumption DEF LiveInv, BusInv, TypeOK
<1>1. Len(log) > 0
  BY <1>0
<1>2. IsStored(bodies[Len(log)])
  BY <1>1 DEF Fresh, Quiet
<1>3. ASSUME target \in DOMAIN profiles PROVE IsStored(Current(target))
  BY <1>3 DEF IsStored, Current
<1> QED
  BY <1>2, <1>3, QuietShows DEF Latest

\* With one handler the changes are published in the order in which they were
\* stored, and the viewer comes to rest on what is stored.
THEOREM ShowsStoredOneHandler ==
  ASSUME \A g, h \in Handler : g = h
  PROVE  LiveSpec => []ShowsStored
<1>1. LiveInit => LiveInv /\ Rest /\ Fresh
  BY InitLiveInv, InitRest, InitFresh
<1>2. LiveInv /\ Rest /\ Fresh /\ [LiveNext]_liveVars => (LiveInv /\ Rest /\ Fresh)'
  BY NextLiveInv, StepRest, NextFresh
<1>3. LiveInv /\ Rest /\ Fresh => ShowsStored
  BY StoredIs
<1> QED
  BY <1>1, <1>2, <1>3, PTL DEF LiveSpec

-----------------------------------------------------------------------------
(* What reaches the screen has been validated.                             *)

\* A layout that Store::set accepts, or the one the store begins with.
Validated(l) == l = DefaultLayout \/ Store!Accepts(l, "admin")

\* The layout on the viewer's screen, fetched or pushed, is one that the engine
\* has validated: no path - the echo of a request, the read-back after a switch,
\* the answer to a fetch - carries one that was not.
ShownIsValidated == shown # NoLayout => Validated(shown[2])

\* Wherever the loop holds a layout, it has been validated.
AllValidated ==
  /\ \A p \in DOMAIN profiles : Validated(profiles[p])
  /\ \A h \in Handler : pc[h] = "publish" => Validated(body[h][2])
  /\ \A n \in 1..Len(bodies) : Validated(bodies[n][2])
  /\ \A i \in 1..Len(down) : Shows(down[i]) => Validated(down[i].body[2])
  /\ ShownIsValidated

LEMMA InitAllValidated == LiveInit => AllValidated
<1> SUFFICES ASSUME LiveInit PROVE AllValidated
  OBVIOUS
<1>1. /\ \A p \in DOMAIN profiles : profiles[p] = DefaultLayout
      /\ \A h \in Handler : pc[h] # "publish"
      /\ bodies = <<>> /\ down = <<>> /\ shown = NoLayout
  BY DEF LiveInit
<1> QED
  BY <1>1 DEF AllValidated, ShownIsValidated, Validated

LEMMA AllValidatedStays ==
  ASSUME AllValidated, UNCHANGED <<profiles, pc, body, bodies, down, shown>>
  PROVE  AllValidated'
  BY DEF AllValidated, ShownIsValidated

\* A frame more for the viewer: the rest stays.
LEMMA AppendValidated ==
  ASSUME AllValidated, down \in Seq(Message), NEW m \in Message,
         Shows(m) => Validated(m.body[2]), down' = Append(down, m),
         UNCHANGED <<profiles, pc, body, bodies, shown>>
  PROVE  AllValidated'
<1> DEFINE e == Append(down, m)
           n == Len(down)
<1>1. /\ n \in Nat /\ Len(e) = n+1 /\ e[n+1] = m /\ \A i \in 1..n : e[i] = down[i]
  BY AppendIs
<1>2. \A i \in 1..n : Shows(down[i]) => Validated(down[i].body[2])
  BY DEF AllValidated
<1>3. down' = e
  OBVIOUS
<1> HIDE DEF e, n
<1>4. \A i \in 1..n+1 : Shows(e[i]) => Validated(e[i].body[2])
  BY <1>1, <1>2
<1>5. \A i \in 1..Len(down') : Shows(down'[i]) => Validated(down'[i].body[2])
  BY <1>1, <1>3, <1>4
<1> QED
  BY <1>5 DEF AllValidated, ShownIsValidated

LEMMA NextAllValidated ==
  ASSUME LiveInv, AllValidated, LiveNext
  PROVE  AllValidated'
<1>0. /\ down \in Seq(Message) /\ pc \in [Handler -> {"idle", "read", "publish"}]
      /\ body \in [Handler -> Body \cup {NoLayout}] /\ bodies \in Seq(Body)
  BY DEF LiveInv, ViewerTypeOK, ServerInv
<1>1. ASSUME NEW h \in Handler, NEW p \in Edited, NEW l \in Layout, SetProfile(h, p, l)
      PROVE  AllValidated'
  <2>1. /\ body' = [body EXCEPT ![h] = <<p, l>>] /\ pc' = [pc EXCEPT ![h] = "publish"]
        /\ p \in Profile /\ Store!Set(p, l, TRUE) /\ UNCHANGED <<bodies, down, shown>>
    BY <1>1, LiveLayoutAssumption DEF SetProfile, viewerVars
  <2>2. Validated(l)
    BY <2>1 DEF Store!Set, Validated
  <2>3. \A q \in DOMAIN profiles' :
          profiles'[q] = l \/ (q \in DOMAIN profiles /\ profiles'[q] = profiles[q])
    BY <2>1, SetKeeps DEF LiveInv
  <2>4. \A q \in DOMAIN profiles' : Validated(profiles'[q])
    BY <2>2, <2>3 DEF AllValidated
  <2>5. ASSUME NEW g \in Handler, pc'[g] = "publish" PROVE Validated(body'[g][2])
    <3>1. CASE g = h
      BY <1>0, <2>1, <2>2, <3>1
    <3>2. CASE g # h
      BY <1>0, <2>1, <2>5, <3>2 DEF AllValidated
    <3> QED
      BY <3>1, <3>2
  <2> QED
    BY <2>1, <2>4, <2>5 DEF AllValidated, ShownIsValidated
<1>2. ASSUME NEW h \in Handler, NEW p, SwitchProfile(h, p)
      PROVE  AllValidated'
  <2>1. /\ pc' = [pc EXCEPT ![h] = "read"] /\ UNCHANGED <<body, bodies, down, shown>>
        /\ Store!Activate(p, TRUE) \/ Store!Delete(p, TRUE)
    BY <1>2 DEF SwitchProfile, viewerVars
  <2>2. \A q \in DOMAIN profiles' : q \in DOMAIN profiles /\ profiles'[q] = profiles[q]
    BY <2>1, DeleteKeeps, ActivateKeeps DEF LiveInv
  <2>3. \A q \in DOMAIN profiles' : Validated(profiles'[q])
    BY <2>2 DEF AllValidated
  <2>4. \A g \in Handler : pc'[g] = "publish" => pc[g] = "publish" /\ body'[g] = body[g]
    BY <1>0, <2>1
  <2>5. \A g \in Handler : pc'[g] = "publish" => Validated(body'[g][2])
    BY <2>4 DEF AllValidated
  <2> QED
    BY <2>1, <2>3, <2>5 DEF AllValidated, ShownIsValidated
<1>3. ASSUME NEW h \in Handler, ReadActive(h)
      PROVE  AllValidated'
  <2>1. /\ pc' = [pc EXCEPT ![h] = "publish"]
        /\ body' = [body EXCEPT ![h] = <<Store!Active, profiles[Store!Active]>>]
        /\ UNCHANGED <<profiles, bodies, down, shown>>
    BY <1>3 DEF ReadActive, storeVars, viewerVars
  <2>2. Validated(profiles[Store!Active])
    BY StoreIs DEF LiveInv, AllValidated
  <2>3. ASSUME NEW g \in Handler, pc'[g] = "publish" PROVE Validated(body'[g][2])
    <3>1. CASE g = h
      BY <1>0, <2>1, <2>2, <3>1
    <3>2. CASE g # h
      BY <1>0, <2>1, <2>3, <3>2 DEF AllValidated
    <3> QED
      BY <3>1, <3>2
  <2> QED
    BY <2>1, <2>3 DEF AllValidated, ShownIsValidated
<1>4. ASSUME NEW h \in Handler, PublishChange(h)
      PROVE  AllValidated'
  <2>1. /\ pc[h] = "publish" /\ bodies' = Append(bodies, body[h])
        /\ pc' = [pc EXCEPT ![h] = "idle"] /\ body' = [body EXCEPT ![h] = NoLayout]
        /\ UNCHANGED <<profiles, down, shown>>
    BY <1>4 DEF PublishChange, storeVars, viewerVars
  <2>2. Validated(body[h][2]) /\ body[h] \in Body
    BY <2>1 DEF AllValidated, LiveInv, ServerInv
  <2>3. \A n \in 1..Len(bodies') : bodies'[n] = body[h] \/ (n \in 1..Len(bodies) /\ bodies'[n] = bodies[n])
    BY <1>0, <2>1, <2>2
  <2>4. \A n \in 1..Len(bodies') : Validated(bodies'[n][2])
    BY <2>2, <2>3 DEF AllValidated
  <2>5. \A g \in Handler : pc'[g] = "publish" => pc[g] = "publish" /\ body'[g] = body[g]
    BY <1>0, <2>1
  <2>6. \A g \in Handler : pc'[g] = "publish" => Validated(body'[g][2])
    BY <2>5 DEF AllValidated
  <2> QED
    BY <2>1, <2>4, <2>6 DEF AllValidated, ShownIsValidated
<1>5. CASE Connect \/ Authenticate \/ FallBehind \/ StartLoad
  <2>1. UNCHANGED <<profiles, pc, body, bodies, down, shown>>
    BY <1>5 DEF Connect, Authenticate, FallBehind, StartLoad, storeVars, serverVars, viewerVars
  <2> QED
    BY <2>1, AllValidatedStays
<1>6. CASE AnswerGet
  <2> DEFINE m == IF target \in DOMAIN profiles
                  THEN [kind |-> "profile", body |-> <<target, profiles[target]>>]
                  ELSE [kind |-> "refused"]
  <2>1. down' = Append(down, m) /\ UNCHANGED <<profiles, pc, body, bodies, shown>>
    BY <1>6 DEF AnswerGet, storeVars, serverVars
  <2>2. target \in DOMAIN profiles =>
          <<target, profiles[target]>> \in Body /\ Validated(profiles[target])
    BY CurrentIs DEF LiveInv, Current, AllValidated
  <2>3. m \in Message /\ (Shows(m) => Validated(m.body[2]))
    BY <2>2, MessageIs DEF Shows
  <2> HIDE DEF m
  <2> QED
    BY <1>0, <2>1, <2>3, AppendValidated
<1>7. CASE AnswerSubscribe
  <2> DEFINE m == [kind |-> "subscribed"]
  <2>1. down' = Append(down, m) /\ UNCHANGED <<profiles, pc, body, bodies, shown>>
    BY <1>7 DEF AnswerSubscribe, storeVars, serverVars
  <2>2. m \in Message /\ ~Shows(m)
    BY MessageIs DEF Shows
  <2> HIDE DEF m
  <2> QED
    BY <1>0, <2>1, <2>2, AppendValidated
<1>8. CASE PushEvent
  <2> DEFINE m == [kind |-> "changed", body |-> bodies[next[Viewer]]]
  <2>1. UNCHANGED <<profiles, pc, body, bodies, shown>>
    BY <1>8 DEF PushEvent, storeVars, serverVars, viewerVars
  <2>2. /\ next[Viewer] \in 1..Len(log) /\ m \in Message
        /\ down' = Append(down, m) \/ down' = down
    BY <1>8, PushIs, MessageIs
  <2>3. m.body = bodies[next[Viewer]] /\ Validated(bodies[next[Viewer]][2])
    BY <2>2 DEF AllValidated, LiveInv, ServerInv
  <2> HIDE DEF m
  <2> QED
    BY <1>0, <2>1, <2>2, <2>3, AppendValidated, AllValidatedStays
<1>9. CASE Read
  <2>1. /\ down # <<>> /\ down' = Tail(down) /\ UNCHANGED <<profiles, pc, body, bodies>>
        /\ shown' = IF Shows(Head(down)) THEN Head(down).body ELSE shown
    BY <1>9, ReadIs DEF ReadShows, Read, serverVars
  <2>2. /\ Head(down) = down[1] /\ Len(down) \in Nat \ {0} /\ Len(down') = Len(down) - 1
        /\ \A i \in 1..Len(down)-1 : down'[i] = down[i+1]
    BY <1>0, <2>1, TailIs
  <2>3. \A i \in 1..Len(down) : Shows(down[i]) => Validated(down[i].body[2])
    BY DEF AllValidated
  <2>4. \A i \in 1..Len(down') : Shows(down'[i]) => Validated(down'[i].body[2])
    BY <2>2, <2>3
  <2>5. shown' # NoLayout => Validated(shown'[2])
    BY <2>1, <2>2, <2>3 DEF AllValidated, ShownIsValidated
  <2> QED
    BY <2>1, <2>4, <2>5 DEF AllValidated, ShownIsValidated
<1>10. CASE Drop
  <2>1. down' = <<>> /\ UNCHANGED <<profiles, pc, body, bodies, shown>>
    BY <1>10 DEF Drop, storeVars, serverVars
  <2> QED
    BY <2>1 DEF AllValidated, ShownIsValidated
<1> QED
  BY <1>1, <1>2, <1>3, <1>4, <1>5, <1>6, <1>7, <1>8, <1>9, <1>10 DEF LiveNext

\* No client shows a layout that the engine has not validated, however requests,
\* switches, answers and events cross.
THEOREM ShownValidated == LiveSpec => []ShownIsValidated
<1>1. LiveInit => LiveInv /\ AllValidated
  BY InitLiveInv, InitAllValidated
<1>2. LiveInv /\ AllValidated /\ [LiveNext]_liveVars => (LiveInv /\ AllValidated)'
  <2>1. UNCHANGED liveVars => UNCHANGED <<profiles, pc, body, bodies, down, shown>>
    BY DEF liveVars, storeVars, serverVars, viewerVars
  <2> QED
    BY <2>1, NextLiveInv, NextAllValidated, AllValidatedStays
<1>3. AllValidated => ShownIsValidated
  BY DEF AllValidated
<1> QED
  BY <1>1, <1>2, <1>3, PTL DEF LiveSpec

-----------------------------------------------------------------------------
(* The parts of the loop.                                                  *)

\* Every step of the loop is a step of the bus and of the store, or none of them,
\* so that what is proved of the parts holds in the whole: the viewer's feed is
\* ordered, holds what it may see and has lost only what is old; and the active
\* profile is there.
THEOREM PartsKept ==
  LiveSpec => /\ FeedIsOrdered /\ []AudienceRespected /\ []RecentNotLost
              /\ [][Store!Next]_storeVars /\ []Store!ActiveIsReal
<1> DEFINE RecentInv == LiveInv /\ \A s \in Socket : Recent(s)
<1>1. LiveInit => Init /\ RecentInv
  BY InitLiveInv DEF LiveInit, Init, Recent
<1>2. [LiveNext]_liveVars => [Next]_vars /\ [Store!Next]_storeVars
  BY BusStep, StoreStep DEF liveVars, busVars
<1>3. RecentInv /\ [LiveNext]_liveVars => RecentInv'
  BY <1>2, NextLiveInv, NextRecent DEF LiveInv
<1>4. Init => Abstract!Init
  BY DEF Init, Abstract!Init
<1>5. RecentInv => BusInv /\ AudienceRespected /\ RecentNotLost /\ Store!ActiveIsReal
  BY DEF LiveInv, BusInv, StoreInv, Recent, RecentNotLost
<1> QED
  BY <1>1, <1>2, <1>3, <1>4, <1>5, StepRefines, PTL
     DEF LiveSpec, FeedIsOrdered, Abstract!Spec

=============================================================================
