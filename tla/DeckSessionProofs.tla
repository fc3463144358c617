-------------------------- MODULE DeckSessionProofs --------------------------
(***************************************************************************)
(* What is proved of DeckSession for every number of overlapping calls and *)
(* connections, and every limit.                                           *)
(***************************************************************************)
EXTENDS DeckSession, TLAPS

\* An action that leaves the retry timer and the wish alone keeps what relates
\* the two.
LEMMA Untouched ==
  ASSUME RetryOnlyWhenWanted, UNCHANGED <<want, retry>>
  PROVE  RetryOnlyWhenWanted'
BY DEF RetryOnlyWhenWanted

\* _fail arms the timer only after it has read _wantConnected.
LEMMA FailReads ==
  ASSUME NEW worth, RetryOnlyWhenWanted, Fail(worth), UNCHANGED want
  PROVE  RetryOnlyWhenWanted'
BY DEF RetryOnlyWhenWanted, Fail

\* A retry is armed only while the user wants a connection: disconnect cancels
\* the timer, and none of the calls that are still under way when the user leaves
\* arms it again (_fail, disconnect).
THEOREM RetryWanted == Spec => []RetryOnlyWhenWanted
<1>1. Init => RetryOnlyWhenWanted
  BY DEF Init, RetryOnlyWhenWanted
<1>2. ASSUME RetryOnlyWhenWanted, [Next]_vars PROVE RetryOnlyWhenWanted'
  <2>1. ASSUME NEW f \in Flow, Connect(f) \/ Resume(f) \/ Retry(f) \/ Exit(f)
        PROVE  RetryOnlyWhenWanted'
    BY <1>2, <2>1 DEF RetryOnlyWhenWanted, Connect, Resume, Retry, Exit
  <2>2. ASSUME NEW f \in Flow, Failed(f) PROVE RetryOnlyWhenWanted'
    BY <1>2, <2>2, FailReads DEF Failed, TornDown
  <2>3. ASSUME LastMiss PROVE RetryOnlyWhenWanted'
    BY <1>2, <2>3, FailReads DEF LastMiss
  <2>4. ASSUME NEW f \in Flow, Connecting(f) \/ Left(f) \/ Dial(f)
        PROVE  RetryOnlyWhenWanted'
    BY <1>2, <2>4, Untouched DEF Connecting, Left, Dial, TornDown, retryVars
  <2>5. ASSUME NEW f \in Flow, Break(f) \/ Refuse(f) \/ Abort(f)
        PROVE  RetryOnlyWhenWanted'
    BY <1>2, <2>5, Untouched DEF Break, Refuse, Abort, Throw, retryVars
  <2>6. ASSUME NEW f \in Flow, Hello(f) \/ Authenticate(f) \/ Ready(f)
        PROVE  RetryOnlyWhenWanted'
    BY <1>2, <2>6, Untouched DEF Hello, Authenticate, Ready, retryVars
  <2>7. ASSUME NEW k \in Conn, Pong(k) \/ Lose(k) \/ Vanish(k) \/ CloseEnds(k)
        PROVE  RetryOnlyWhenWanted'
    BY <1>2, <2>7, Untouched DEF Pong, Lose, Vanish, CloseEnds, retryVars
  <2>8. ASSUME NEW k, Dropped(k) \/ PingTimeout(k) PROVE RetryOnlyWhenWanted'
    BY <1>2, <2>8, Untouched DEF Dropped, PingTimeout, retryVars
  <2>9. ASSUME Tick \/ Miss \/ UNCHANGED vars PROVE RetryOnlyWhenWanted'
    BY <1>2, <2>9, Untouched DEF Tick, Miss, vars, retryVars
  <2>. QED
    BY <1>2, <2>1, <2>2, <2>3, <2>4, <2>5, <2>6, <2>7, <2>8, <2>9
       DEF Next, Microtask, Timer, Outside, Answer
<1>. QED
  BY <1>1, <1>2, PTL DEF Spec

-----------------------------------------------------------------------------
(* The pings that fail when a connection is closed are added up over the   *)
(* transport and the client, which are two at most.                        *)

\* MapThenSumSet of p over S, with its parameters in place: pick is its choice, and
\* SumStep the equation its iteration satisfies.
pick(s) == CHOOSE x \in s : TRUE
SumStep(p, sum, s) == IF s = {} THEN 0 ELSE p[pick(s)] + sum[s \ {pick(s)}]
SumOver(p, S) == (CHOOSE sum : sum = [s \in SUBSET S |-> SumStep(p, sum, s)])[S]

\* The sum over a set of no more than two numbers is a number.
LEMMA SumOfTwo ==
  ASSUME NEW C, NEW p \in [C -> Nat], NEW S \in SUBSET C, NEW a, NEW b, S \subseteq {a, b}
  PROVE  SumOver(p, S) \in Nat
<1> DEFINE Step(it, s) == IF s = {} THEN 0 ELSE p[pick(s)] + it[s \ {pick(s)}]
<1> DEFINE IsSum(it) == it = [s \in SUBSET S |-> Step(it, s)]
<1> DEFINE one(s) == IF s = {} THEN 0 ELSE p[pick(s)]
<1> DEFINE two(s) == IF s = {} THEN 0 ELSE p[pick(s)] + one(s \ {pick(s)})
<1>1. \A s \in SUBSET S : s # {} => pick(s) \in s
  BY DEF pick
<1>2. \A s \in SUBSET S : s # {} => LET t == s \ {pick(s)} IN t = {} \/ t \ {pick(t)} = {}
  BY <1>1
<1>3. \E it : IsSum(it)
  <2> DEFINE it == [s \in SUBSET S |-> two(s)]
  <2>1. ASSUME NEW s \in SUBSET S PROVE it[s] = Step(it, s)
    <3>1. CASE s = {}
      BY <3>1
    <3>2. CASE s # {}
      <4>1. it[s] = p[pick(s)] + one(s \ {pick(s)})
        BY <3>2
      <4>2. one(s \ {pick(s)}) = it[s \ {pick(s)}]
        BY <1>1, <1>2, <3>2
      <4> QED
        BY <4>1, <4>2, <3>2
    <3> QED
      BY <3>1, <3>2
  <2>2. it = [s \in SUBSET S |-> Step(it, s)]
    BY <2>1
  <2> QED
    BY <2>2
<1> DEFINE sum == CHOOSE it : IsSum(it)
<1>4. IsSum(sum)
  BY <1>3
<1> HIDE DEF sum
<1>5. \A s \in SUBSET S : sum[s] = Step(sum, s)
  BY <1>4
<1>6. sum[{}] = 0
  BY <1>5
<1>7. ASSUME NEW s \in SUBSET S, s \ {pick(s)} = {} PROVE sum[s] \in Nat
  <2>1. CASE s = {}
    BY <1>6, <2>1
  <2>2. CASE s # {}
    <3>1. pick(s) \in C
      BY <1>1, <2>2
    <3>2. sum[s] = p[pick(s)] + sum[{}]
      BY <1>5, <1>7, <2>2
    <3> QED
      BY <1>6, <3>1, <3>2
  <2> QED
    BY <2>1, <2>2
<1>8. sum[S] \in Nat
  <2>1. CASE S = {}
    BY <1>6, <2>1
  <2>2. CASE S # {}
    <3>1. pick(S) \in C /\ p[pick(S)] \in Nat
      BY <1>1, <2>2
    <3>2. sum[S] = p[pick(S)] + sum[S \ {pick(S)}]
      BY <1>5, <2>2
    <3>3. sum[S \ {pick(S)}] \in Nat
      BY <1>2, <1>6, <1>7, <2>2
    <3> QED
      BY <3>1, <3>2, <3>3
  <2> QED
    BY <2>1, <2>2
<1>9. SumOver(p, S) = sum[S]
  BY DEF SumOver, SumStep, sum
<1> QED
  BY <1>8, <1>9

-----------------------------------------------------------------------------
(* The inductive invariant.                                                *)

\* Connection k is open, as far as the transport can tell.
Live(k) == sock[k] \in {"open", "gone", "closing"}

\* A connect that has not dialled through yet.
Fresh(f) == flow[f].goal = "open" /\ flow[f].pc \in {"close", "load", "dial"}

\* A call that will end with a word on the connection: ready, failed or a retry.
Trying(f) == flow[f].pc # "idle" /\ flow[f].goal # "exit"

\* Microtasks are due that make the transport field change.
Going == \/ \E f \in Flow : Awake(f) \/ flow[f].pc = "load"
         \/ \E k \in drops : sock[k] # "closing"

\* A slot that is not in use is empty; only a connect gets past its teardown, and
\* it has a connection.
Formed ==
  \A f \in Flow :
    /\ flow[f].pc = "idle" => flow[f] = Idle
    /\ flow[f].pc = "close" => flow[f].goal # "none"
    /\ flow[f].pc \notin {"idle", "close"} => flow[f].goal = "open"
    /\ flow[f].goal = "open" => flow[f].conn \in Conn

\* No two calls are about the same connection.
Apart == \A f, g \in Flow : f # g /\ flow[f].conn \in Conn => flow[g].conn # flow[f].conn

\* Nobody opens a connection before the call it was made for dials.
Unused == \A f \in Flow : Fresh(f) => sock[flow[f].conn] \in {"none", "shut"}

\* Before the identity is loaded nothing has been dialled, and nobody has left.
Known ==
  ~identity => /\ \A k \in Conn : sock[k] = "none"
               /\ \A f \in Flow : /\ flow[f].pc \in {"idle", "close", "load"}
                                  /\ flow[f].goal # "exit"

\* What is being closed is what the field _transport names.
OneClosing == \A k \in Conn : sock[k] = "closing" => transport = k

\* While the field is about to change, it names nothing that would have to be
\* closed: nobody can begin to wait for one connection and wake up for another.
GoingFirst == Going /\ transport # None => ~Live(transport)

\* While an exit is under way and the user wants a connection again, the connect
\* that has followed it is under way, and not ahead of it.
ExitFollowed ==
  \A f \in Flow :
    want /\ flow[f].pc = "close" /\ flow[f].goal = "exit" =>
      \E g \in Flow : /\ Fresh(g)
                      /\ ~Awake(f) => flow[g].pc = "close" /\ flow[g].shuts = flow[f].shuts

\* A wanted connection that is neither ready nor given up is being tried.
Tried == want /\ state \notin {"ready", "failed"} /\ ~retry => \E f \in Flow : Trying(f)

CallInv == TypeOK /\ Formed /\ Apart /\ Unused /\ Known /\ OneClosing /\ GoingFirst
             /\ ExitFollowed /\ Tried

-----------------------------------------------------------------------------
(* What a teardown does.                                                   *)

\* What a slot holds.
Call == [pc : {"idle", "close", "load", "dial", "broken"} \cup Request,
         goal : Goal, conn : Conn \cup {None}, shuts : Conn \cup {None}]

\* What a call is after a step in which c's connection may have been lost.
Follows(f, c) ==
  \/ flow'[f] = c
  \/ c.pc \in Request /\ flow'[f] = [c EXCEPT !.pc = "broken"]

\* What a step that closes the transport does to the sockets.
Closes ==
  \A k \in Conn :
    sock'[k] = IF k = transport /\ sock[k] \in {"open", "gone"} THEN "closing" ELSE sock[k]

\* _failAllPending: the requests on the lost connections fail, the other calls stay.
LEMMA FailAllIs ==
  ASSUME TypeOK, NEW calls \in [Flow -> Call], NEW lost \in SUBSET Conn,
         NEW a, NEW b, lost \subseteq {a, b},
         NEW handled \in {0, 1}, handled <= misses, FailAllPending(lost, calls, handled)
  PROVE  /\ flow' \in [Flow -> Call]
         /\ \A f \in Flow : Follows(f, calls[f])
         /\ misses' \in Nat
         /\ pings' \in [Conn -> 0 .. MaxPings]
<1>0. MaxPings \in Nat /\ misses \in Nat /\ pings \in [Conn -> 0 .. MaxPings]
  BY DeckSessionAssumption DEF TypeOK
<1>1. \A c \in Call : c.pc \in Request => [c EXCEPT !.pc = "broken"] \in Call
  BY DEF Call
<1>2. flow' = [f \in Flow |-> IF calls[f].pc \in Request /\ calls[f].conn \in lost
                             THEN [calls[f] EXCEPT !.pc = "broken"] ELSE calls[f]]
  BY DEF FailAllPending
<1>3. flow' \in [Flow -> Call] /\ \A f \in Flow : Follows(f, calls[f])
  BY <1>1, <1>2 DEF Follows
<1>4. pings' \in [Conn -> 0 .. MaxPings]
  BY <1>0 DEF FailAllPending
<1>5. pings \in [Conn -> Nat]
  BY <1>0
<1>6. SumOver(pings, lost) \in Nat
  BY <1>5, SumOfTwo
<1>7. misses' = misses - handled + SumOver(pings, lost)
  BY DEF FailAllPending, MapThenSumSet, MapThenFoldSet, SumOver, SumStep, pick
<1>8. misses' \in Nat
  BY <1>0, <1>6, <1>7
<1> QED
  BY <1>3, <1>4, <1>8

\* _teardown: nobody but the holders of a request notices at once.
LEMMA TeardownIs ==
  ASSUME TypeOK, NEW calls \in [Flow -> Call],
         NEW handled \in {0, 1}, handled <= misses, Teardown(calls, handled)
  PROVE  /\ flow' \in [Flow -> Call]
         /\ \A f \in Flow : Follows(f, calls[f])
         /\ misses' \in Nat
         /\ pings' \in [Conn -> 0 .. MaxPings]
         /\ pinging' = FALSE /\ client' = None
         /\ sock' \in [Conn -> {"none", "open", "gone", "closing", "shut"}]
         /\ deaf' \in [Conn -> BOOLEAN]
         /\ Closes
<1> DEFINE lost == {client, transport} \ {None}
<1>1. lost \in SUBSET Conn /\ lost \subseteq {client, transport}
  BY DEF TypeOK
<1>2. FailAllPending(lost, calls, handled)
  BY DEF Teardown
<1>3. /\ sock' = [k \in Conn |-> IF k = transport /\ sock[k] \in {"open", "gone"}
                                 THEN "closing" ELSE sock[k]]
      /\ deaf' = [k \in Conn |-> deaf[k] \/ k \in lost]
      /\ pinging' = FALSE /\ client' = None
  BY DEF Teardown
<1>4. sock' \in [Conn -> {"none", "open", "gone", "closing", "shut"}] /\ Closes
  BY <1>3 DEF TypeOK, Closes
<1>5. deaf' \in [Conn -> BOOLEAN]
  BY <1>3 DEF TypeOK
<1> HIDE DEF lost
<1>6. /\ flow' \in [Flow -> Call] /\ \A f \in Flow : Follows(f, calls[f])
      /\ misses' \in Nat /\ pings' \in [Conn -> 0 .. MaxPings]
  BY <1>1, <1>2, FailAllIs
<1> QED
  BY <1>3, <1>4, <1>5, <1>6

-----------------------------------------------------------------------------
(* The steps by which calls begin, go on and end, as the invariant sees    *)
(* them.                                                                   *)

\* How calls are formed, and whose their connections are.
CallsFormed == TypeOK /\ Formed /\ Apart /\ Unused /\ Known

\* Which connection is being closed, and who waits for it.
ClosingFirst == OneClosing /\ GoingFirst

\* A call whose connection may have been lost keeps everything but its place.
LEMMA FollowsIs ==
  ASSUME NEW f, NEW c \in Call, Follows(f, c)
  PROVE  /\ flow'[f].goal = c.goal /\ flow'[f].conn = c.conn /\ flow'[f].shuts = c.shuts
         /\ flow'[f].pc = c.pc \/ (c.pc \in Request /\ flow'[f].pc = "broken")
         /\ c.pc \notin Request => flow'[f] = c
BY DEF Follows, Call

\* A call begins with a teardown, for goal, with the connection conn.
BeginIs(f, goal, conn) ==
  /\ flow' \in [Flow -> Call]
  /\ flow'[f] = [pc |-> "close", goal |-> goal, conn |-> conn, shuts |-> transport]
  /\ \A g \in Flow \ {f} : Follows(g, flow[g])
  /\ Closes
  /\ transport' = transport /\ identity' = identity /\ drops' = drops

\* A call that begins takes a connection that is nobody's, or none.
LEMMA BeginFormed ==
  ASSUME CallsFormed, NEW f \in Flow, NEW goal \in Goal, NEW conn, BeginIs(f, goal, conn),
         goal # "none",
         IF goal = "open" THEN conn \in Free ELSE conn = None,
         goal = "exit" => identity
  PROVE  Formed' /\ Apart' /\ Unused' /\ Known'
<1>1. /\ None \notin Conn
      /\ flow \in [Flow -> Call]
      /\ flow' \in [Flow -> Call]
      /\ flow'[f].pc = "close" /\ flow'[f].goal = goal /\ flow'[f].conn = conn
  BY DeckSessionAssumption DEF BeginIs, CallsFormed, TypeOK, Call
<1>2. \A g \in Flow \ {f} :
        /\ flow'[g].goal = flow[g].goal /\ flow'[g].conn = flow[g].conn
        /\ flow'[g].pc = flow[g].pc \/ (flow[g].pc \in Request /\ flow'[g].pc = "broken")
        /\ flow[g].pc \notin Request => flow'[g] = flow[g]
  BY <1>1, FollowsIs DEF BeginIs
<1>3. goal = "open" => /\ conn \in Conn /\ sock[conn] \in {"none", "shut"} /\ conn # transport
                       /\ \A g \in Flow : flow[g].conn # conn
  BY DEF Free
<1>4. Formed'
  BY <1>1, <1>2, <1>3 DEF Formed, CallsFormed, Request
<1>5. Apart'
  BY <1>1, <1>2, <1>3 DEF Apart, CallsFormed
<1>6. Unused'
  <2> SUFFICES ASSUME NEW g \in Flow, Fresh(g)' PROVE sock'[flow'[g].conn] \in {"none", "shut"}
    BY DEF Unused
  <2>1. CASE g = f
    BY <1>1, <1>3, <2>1 DEF BeginIs, Closes, Fresh
  <2>2. CASE g # f
    <3>1. Fresh(g) /\ flow'[g].conn = flow[g].conn /\ flow[g].conn \in Conn
      BY <1>2, <2>2 DEF Fresh, Request, Formed, CallsFormed
    <3>2. sock[flow[g].conn] \in {"none", "shut"}
      BY <3>1 DEF Unused, CallsFormed
    <3> QED
      BY <3>1, <3>2 DEF BeginIs, Closes
  <2> QED
    BY <2>1, <2>2
<1>7. Known'
  <2> SUFFICES ASSUME ~identity' PROVE /\ \A k \in Conn : sock'[k] = "none"
                                       /\ \A g \in Flow : /\ flow'[g].pc \in {"idle", "close", "load"}
                                                          /\ flow'[g].goal # "exit"
    BY DEF Known
  <2>1. ~identity /\ (\A k \in Conn : sock[k] = "none")
        /\ \A g \in Flow : flow[g].pc \in {"idle", "close", "load"} /\ flow[g].goal # "exit"
    BY DEF Known, CallsFormed, BeginIs
  <2> QED
    BY <1>1, <1>2, <2>1 DEF BeginIs, Closes, Request
<1> QED
  BY <1>4, <1>5, <1>6, <1>7

\* Closing the transport makes it the one connection that is closing, and
\* wakes nobody who is not awake: of the calls and the drops that stay.
LEMMA ClosesKeeps ==
  ASSUME CallsFormed, ClosingFirst, Closes
  PROVE  /\ \A k \in Conn : sock'[k] = "closing" => transport = k
         /\ \A k \in Conn : sock[k] = "closing" => sock'[k] = "closing"
         /\ Going /\ transport # None => sock'[transport] = sock[transport] /\ ~Live(transport)
         /\ Going => \A k \in Conn : sock'[k] = sock[k]
<1>1. transport \in Conn \cup {None}
  BY DEF CallsFormed, TypeOK
<1>2. ASSUME NEW k \in Conn, sock'[k] = "closing" PROVE transport = k
  BY <1>2 DEF ClosingFirst, OneClosing, Closes
<1>3. ASSUME NEW k \in Conn, sock[k] = "closing" PROVE sock'[k] = "closing"
  BY <1>3 DEF Closes
<1>4. ASSUME Going, NEW k \in Conn PROVE sock'[k] = sock[k] /\ (k = transport => ~Live(k))
  BY <1>4, DeckSessionAssumption DEF ClosingFirst, GoingFirst, Closes, Live
<1> QED
  BY <1>1, <1>2, <1>3, <1>4

\* A call that begins either waits for the connection it closes, or finds nothing
\* to close.
LEMMA BeginClosing ==
  ASSUME CallsFormed, ClosingFirst, NEW f \in Flow, NEW goal, NEW conn, BeginIs(f, goal, conn)
  PROVE  ClosingFirst'
<1>1. flow \in [Flow -> Call] /\ flow' \in [Flow -> Call] /\ drops \subseteq Conn
      /\ transport \in Conn \cup {None} /\ transport' = transport /\ drops' = drops
      /\ flow'[f].pc = "close" /\ flow'[f].shuts = transport
  BY DEF BeginIs, CallsFormed, TypeOK, Call
<1>2. \A g \in Flow \ {f} :
        /\ flow'[g].shuts = flow[g].shuts
        /\ flow'[g].pc \in {"close", "load"} => flow'[g].pc = flow[g].pc
  BY <1>1, FollowsIs DEF BeginIs
<1>3. OneClosing'
  BY <1>1, ClosesKeeps DEF OneClosing, BeginIs
<1>4. ASSUME Going', transport' # None PROVE ~Live(transport)'
  <2>1. CASE Going
    BY <1>1, <1>4, <2>1, ClosesKeeps DEF BeginIs, Live
  <2>2. CASE ~Going
    <3>1. \A k \in drops' : sock'[k] = "closing"
      BY <1>1, <2>2, ClosesKeeps DEF Going, BeginIs
    <3>2. \A g \in Flow \ {f} : ~Awake(g)' /\ flow'[g].pc # "load"
      BY <1>1, <1>2, <2>2, ClosesKeeps DEF Going, Awake, BeginIs
    <3>3. Awake(f)'
      BY <1>1, <1>4, <3>1, <3>2 DEF Going
    <3>4. sock'[transport] # "closing" /\ transport \in Conn
      BY <1>1, <1>4, <3>3 DEF Awake
    <3> QED
      BY <1>1, <1>4, <3>4, ClosesKeeps DEF BeginIs, Live, Closes
  <2> QED
    BY <2>1, <2>2
<1> QED
  BY <1>3, <1>4 DEF ClosingFirst, GoingFirst

\* A connect that begins follows every exit that is still under way; whatever
\* else begins does not get in the way of the one that does.
LEMMA BeginFollowed ==
  ASSUME CallsFormed, ClosingFirst, ExitFollowed,
         NEW f \in Flow, NEW goal \in Goal, NEW conn, BeginIs(f, goal, conn),
         \/ ~want'
         \/ goal # "exit" /\ Quiet /\ flow[f].pc # "close" /\ (want' => want \/ goal = "open")
         \/ goal # "exit" /\ flow[f].pc = "broken" /\ want' = want
  PROVE  ExitFollowed'
<1> SUFFICES ASSUME NEW e \in Flow, want', flow'[e].pc = "close", flow'[e].goal = "exit"
             PROVE  \E g \in Flow : /\ Fresh(g)'
                                    /\ ~Awake(e)' => /\ flow'[g].pc = "close"
                                                     /\ flow'[g].shuts = flow'[e].shuts
  BY DEF ExitFollowed
<1>1. /\ flow \in [Flow -> Call] /\ flow' \in [Flow -> Call]
      /\ flow'[f].pc = "close" /\ flow'[f].goal = goal /\ flow'[f].shuts = transport
  BY DEF BeginIs, CallsFormed, TypeOK, Call
<1>2. \A g \in Flow \ {f} :
        /\ flow'[g].goal = flow[g].goal /\ flow'[g].shuts = flow[g].shuts
        /\ flow'[g].pc = flow[g].pc \/ (flow[g].pc \in Request /\ flow'[g].pc = "broken")
  BY <1>1, FollowsIs DEF BeginIs
<1>3. e # f /\ flow[e].pc = "close" /\ flow[e].goal = "exit" /\ flow'[e].shuts = flow[e].shuts
  BY <1>1, <1>2 DEF Request
<1>4. ASSUME NEW g \in Flow, g # f, Fresh(g)
      PROVE  Fresh(g)' /\ flow'[g].pc = flow[g].pc /\ flow'[g].shuts = flow[g].shuts
  BY <1>2, <1>4 DEF Fresh, Request
<1>5. Awake(e) => Awake(e)'
  BY <1>3, ClosesKeeps DEF Awake, Going, BeginIs
<1>6. CASE ~Awake(e) /\ flow[f].pc # "close" /\ want
  <2>1. PICK g \in Flow : Fresh(g) /\ flow[g].pc = "close" /\ flow[g].shuts = flow[e].shuts
    BY <1>3, <1>6 DEF ExitFollowed
  <2> QED
    BY <1>3, <1>4, <1>6, <2>1
<1>7. CASE ~Awake(e) /\ flow[f].pc # "close" /\ goal = "open"
  <2>1. flow[e].shuts = transport
    BY <1>3, <1>7 DEF Awake, ClosingFirst, OneClosing
  <2> QED
    BY <1>1, <1>3, <1>7, <2>1 DEF Fresh
<1>8. CASE Awake(e)
  <2>1. flow[f].pc = "broken" /\ want
    BY <1>8 DEF Quiet
  <2>2. PICK g \in Flow : Fresh(g)
    BY <1>3, <2>1 DEF ExitFollowed
  <2>3. g # f
    BY <2>1, <2>2 DEF Fresh
  <2> QED
    BY <1>4, <1>5, <1>8, <2>2, <2>3
<1> QED
  BY <1>6, <1>7, <1>8

\* No call begins or goes on: at most, its connection is lost; a connection that
\* has not been dialled or is over stays so.
Silent ==
  /\ flow' \in [Flow -> Call]
  /\ \A f \in Flow : Follows(f, flow[f])
  /\ \A k \in Conn : sock[k] \in {"none", "shut"} => sock'[k] = sock[k]
  /\ transport' = transport /\ identity' = identity

\* In such a step every call keeps what it is for.
LEMMA SilentIs ==
  ASSUME CallsFormed, Silent, NEW f \in Flow
  PROVE  /\ flow'[f].goal = flow[f].goal /\ flow'[f].conn = flow[f].conn
         /\ flow'[f].shuts = flow[f].shuts
         /\ flow'[f].pc = flow[f].pc \/ (flow[f].pc \in Request /\ flow'[f].pc = "broken")
         /\ flow[f].pc \notin Request => flow'[f] = flow[f]
BY FollowsIs DEF Silent, CallsFormed, TypeOK, Call

\* ... and so the calls are as they should be.
LEMMA SilentFormed ==
  ASSUME CallsFormed, Silent
  PROVE  Formed' /\ Apart' /\ Unused' /\ Known'
<1>1. Formed'
  BY SilentIs DEF Formed, CallsFormed, Request
<1>2. Apart'
  BY SilentIs DEF Apart, CallsFormed
<1>3. Unused'
  <2> SUFFICES ASSUME NEW g \in Flow, Fresh(g)' PROVE sock'[flow'[g].conn] \in {"none", "shut"}
    BY DEF Unused
  <2>1. Fresh(g) /\ flow'[g].conn = flow[g].conn /\ flow[g].conn \in Conn
    BY SilentIs DEF Fresh, Request, Formed, CallsFormed
  <2> QED
    BY <2>1 DEF Unused, CallsFormed, Silent
<1>4. Known'
  BY SilentIs DEF Known, CallsFormed, Silent, Request
<1> QED
  BY <1>1, <1>2, <1>3, <1>4

\* ... and no connection starts to close: one that ends is not live after it.
LEMMA SilentClosing ==
  ASSUME CallsFormed, ClosingFirst, Silent, drops' = drops,
         \A k \in Conn : /\ Live(k)' => Live(k)
                         /\ sock'[k] = "closing" => sock[k] = "closing"
                         /\ sock[k] = "closing" => sock'[k] = "closing" \/ ~Live(k)'
  PROVE  ClosingFirst'
<1>0. transport \in Conn \cup {None} /\ transport' = transport /\ drops \subseteq Conn
      /\ flow \in [Flow -> Call]
  BY DEF CallsFormed, TypeOK, Call, Silent
<1>1. OneClosing'
  BY <1>0 DEF ClosingFirst, OneClosing
<1>2. ASSUME Going', transport # None PROVE ~Live(transport)'
  <2>1. CASE Going
    BY <1>0, <1>2, <2>1 DEF ClosingFirst, GoingFirst
  <2>2. CASE ~Going
    <3>1. PICK k \in Conn : sock[k] = "closing" /\ sock'[k] # "closing"
      <4>1. CASE \E k \in drops' : sock'[k] # "closing"
        BY <1>0, <2>2, <4>1 DEF Going
      <4>2. CASE \E f \in Flow : Awake(f)' \/ flow'[f].pc = "load"
        BY <1>0, <2>2, <4>2, SilentIs DEF Going, Awake, Request
      <4> QED
        BY <1>2, <4>1, <4>2 DEF Going
    <3>2. k = transport /\ ~Live(k)'
      BY <3>1 DEF ClosingFirst, OneClosing
    <3> QED
      BY <1>0, <3>2
  <2> QED
    BY <2>1, <2>2
<1> QED
  BY <1>0, <1>1, <1>2 DEF ClosingFirst, GoingFirst

\* ... and whoever has followed an exit still does.
LEMMA SilentFollowed ==
  ASSUME CallsFormed, ExitFollowed, Silent, want' = want,
         \A f \in Flow : Awake(f) => Awake(f)'
  PROVE  ExitFollowed'
<1> SUFFICES ASSUME NEW e \in Flow, want', flow'[e].pc = "close", flow'[e].goal = "exit"
             PROVE  \E g \in Flow : /\ Fresh(g)'
                                    /\ ~Awake(e)' => /\ flow'[g].pc = "close"
                                                     /\ flow'[g].shuts = flow'[e].shuts
  BY DEF ExitFollowed
<1>1. flow[e].pc = "close" /\ flow[e].goal = "exit" /\ flow'[e].shuts = flow[e].shuts
  BY SilentIs DEF Request
<1>2. PICK g \in Flow : /\ Fresh(g)
                        /\ ~Awake(e) => flow[g].pc = "close" /\ flow[g].shuts = flow[e].shuts
  BY <1>1 DEF ExitFollowed
<1>3. Fresh(g)' /\ flow'[g].pc = flow[g].pc /\ flow'[g].shuts = flow[g].shuts
  BY <1>2, SilentIs DEF Fresh, Request
<1> QED
  BY <1>1, <1>2, <1>3

\* ... and what was being tried is being tried.
LEMMA SilentTried ==
  ASSUME CallsFormed, Tried, Silent, want' = want, retry' = retry, state' = state
  PROVE  Tried'
BY SilentIs DEF Tried, Trying, Request

-----------------------------------------------------------------------------
(* A call goes on, or ends.                                                *)

\* The step of call f: it holds on to its connection, or to nothing.
Moves(f, c) ==
  /\ flow' \in [Flow -> Call]
  /\ flow'[f] = c
  /\ \A g \in Flow \ {f} : flow'[g] = flow[g]

\* A call that moves on or ends leaves the others their connections.
LEMMA MovesFormed ==
  ASSUME CallsFormed, NEW f \in Flow, NEW c \in Call, Moves(f, c),
         \/ c = Idle
         \/ /\ c.pc \notin {"idle", "close"} /\ c.goal = "open" /\ flow[f].goal = "open"
            /\ c.conn = flow[f].conn
  PROVE  Formed' /\ Apart'
<1>1. Formed'
  BY DEF Formed, CallsFormed, Moves, Idle
<1>2. Apart'
  BY DeckSessionAssumption DEF Apart, CallsFormed, Moves, Idle
<1> QED
  BY <1>1, <1>2

\* The connections of the calls that have yet to connect, after a step of f's
\* that touches at most f's own.
LEMMA MovesUnused ==
  ASSUME CallsFormed, NEW f \in Flow, NEW c \in Call, Moves(f, c),
         \A k \in Conn : k # flow[f].conn => sock'[k] = sock[k],
         \/ sock' = sock /\ (Fresh(f)' => Fresh(f) /\ c.conn = flow[f].conn)
         \/ flow[f].conn \in Conn /\ ~Fresh(f)'
         \/ flow[f].conn \in Conn /\ c.conn = flow[f].conn /\ sock'[c.conn] = "none"
  PROVE  Unused'
<1> SUFFICES ASSUME NEW g \in Flow, Fresh(g)' PROVE sock'[flow'[g].conn] \in {"none", "shut"}
  BY DEF Unused
<1>1. CASE g = f
  BY <1>1 DEF Moves, Unused, CallsFormed
<1>2. CASE g # f
  <2>1. flow'[g] = flow[g] /\ Fresh(g) /\ flow[g].conn \in Conn
    BY <1>2 DEF Moves, Fresh, Formed, CallsFormed
  <2>2. sock[flow[g].conn] \in {"none", "shut"}
    BY <2>1 DEF Unused, CallsFormed
  <2>3. sock' = sock \/ flow[g].conn # flow[f].conn
    BY <1>2 DEF Apart, CallsFormed
  <2> QED
    BY <2>1, <2>2, <2>3
<1> QED
  BY <1>1, <1>2

\* Whoever follows an exit still does when a call that is neither moves on ...
LEMMA MovesFollowed ==
  ASSUME CallsFormed, ExitFollowed, NEW f \in Flow, NEW c \in Call, Moves(f, c),
         ~Fresh(f), c.pc # "close", want' = want,
         \A k \in Conn : sock'[k] = "closing" => sock[k] = "closing"
  PROVE  ExitFollowed'
<1> SUFFICES ASSUME NEW e \in Flow, want', flow'[e].pc = "close", flow'[e].goal = "exit"
             PROVE  \E g \in Flow : /\ Fresh(g)'
                                    /\ ~Awake(e)' => /\ flow'[g].pc = "close"
                                                     /\ flow'[g].shuts = flow'[e].shuts
  BY DEF ExitFollowed
<1>1. e # f /\ flow'[e] = flow[e]
  BY DEF Moves
<1>2. PICK g \in Flow : /\ Fresh(g)
                        /\ ~Awake(e) => flow[g].pc = "close" /\ flow[g].shuts = flow[e].shuts
  BY <1>1 DEF ExitFollowed
<1>3. g # f /\ flow'[g] = flow[g]
  BY <1>2 DEF Moves
<1> QED
  BY <1>1, <1>2, <1>3 DEF Fresh, Awake

\* ... and also when it is the one that follows, which happens only when the
\* exit is awake.
LEMMA FreshFollowed ==
  ASSUME CallsFormed, ExitFollowed, NEW f \in Flow, NEW c \in Call, Moves(f, c),
         Fresh(f), Fresh(f)', want' = want,
         flow[f].pc = "close" => Awake(f),
         \A k \in Conn : sock'[k] = "closing" => sock[k] = "closing"
  PROVE  ExitFollowed'
<1> SUFFICES ASSUME NEW e \in Flow, want', flow'[e].pc = "close", flow'[e].goal = "exit"
             PROVE  \E g \in Flow : /\ Fresh(g)'
                                    /\ ~Awake(e)' => /\ flow'[g].pc = "close"
                                                     /\ flow'[g].shuts = flow'[e].shuts
  BY DEF ExitFollowed
<1>1. e # f /\ flow'[e] = flow[e]
  BY DEF Moves, Fresh
<1>2. PICK g \in Flow : /\ Fresh(g)
                        /\ ~Awake(e) => flow[g].pc = "close" /\ flow[g].shuts = flow[e].shuts
  BY <1>1 DEF ExitFollowed
<1>3. CASE g = f
  <2>1. Awake(e)
    BY <1>1, <1>2, <1>3 DEF Awake
  <2>2. Awake(e)'
    BY <1>1, <2>1 DEF Awake
  <2> QED
    BY <2>2
<1>4. CASE g # f
  <2>1. flow'[g] = flow[g]
    BY <1>4 DEF Moves
  <2> QED
    BY <1>1, <1>2, <2>1 DEF Fresh, Awake
<1> QED
  BY <1>3, <1>4

\* The transport field is cleared: something that was due has been done.
LEMMA ClearedClosing ==
  ASSUME CallsFormed, ClosingFirst, Going, transport' = None, sock' = sock
  PROVE  ClosingFirst'
<1>1. transport \in Conn \cup {None} /\ None \notin Conn
  BY DeckSessionAssumption DEF CallsFormed, TypeOK
<1>2. \A k \in Conn : sock[k] # "closing"
  BY <1>1 DEF ClosingFirst, OneClosing, GoingFirst, Live
<1> QED
  BY <1>2 DEF ClosingFirst, OneClosing, GoingFirst

-----------------------------------------------------------------------------
(* The types.                                                              *)

\* The calls that begin with a teardown, in terms of BeginIs.
LEMMA BeginStep ==
  ASSUME TypeOK, NEW f \in Flow, NEW goal \in Goal, NEW conn \in Conn \cup {None},
         Begin(f, goal, conn), UNCHANGED <<transport, identity, drops>>
  PROVE  /\ BeginIs(f, goal, conn)
         /\ misses' \in Nat /\ pings' \in [Conn -> 0 .. MaxPings]
         /\ pinging' = FALSE /\ client' = None
         /\ sock' \in [Conn -> {"none", "open", "gone", "closing", "shut"}]
         /\ deaf' \in [Conn -> BOOLEAN]
<1> DEFINE c == [pc |-> "close", goal |-> goal, conn |-> conn, shuts |-> transport]
           calls == [flow EXCEPT ![f] = c]
<1>1. flow \in [Flow -> Call] /\ misses \in Nat /\ transport \in Conn \cup {None}
  BY DEF TypeOK, Call
<1>2. c \in Call
  BY <1>1 DEF Call
<1>3. calls \in [Flow -> Call] /\ calls[f] = c /\ \A g \in Flow \ {f} : calls[g] = flow[g]
  BY <1>1, <1>2
<1>4. Teardown(calls, 0)
  BY DEF Begin
<1> HIDE DEF calls
<1>5. /\ flow' \in [Flow -> Call] /\ \A g \in Flow : Follows(g, calls[g])
      /\ misses' \in Nat /\ pings' \in [Conn -> 0 .. MaxPings]
      /\ pinging' = FALSE /\ client' = None
      /\ sock' \in [Conn -> {"none", "open", "gone", "closing", "shut"}]
      /\ deaf' \in [Conn -> BOOLEAN] /\ Closes
  <2>1. 0 \in {0, 1} /\ 0 <= misses
    BY <1>1
  <2> QED
    BY <1>3, <1>4, <2>1, TeardownIs, Zenon
<1>6. flow'[f] = c
  BY <1>3, <1>5, FollowsIs DEF Request
<1> QED
  BY <1>3, <1>5, <1>6 DEF BeginIs

\* _fail: the backoff stays within its table.
LEMMA FailType ==
  ASSUME TypeOK, NEW worth \in BOOLEAN, Fail(worth)
  PROVE  state' \in State /\ retry' \in BOOLEAN /\ attempt' \in 0 .. Backoff
<1>1. state' \in State /\ retry' \in BOOLEAN
  BY DEF TypeOK, Fail, State
<1>2. attempt \in 0 .. Backoff /\ Backoff \in Nat
  BY DeckSessionAssumption DEF TypeOK
<1>3. attempt' = attempt \/ attempt' = Clamp(attempt + 1, Backoff)
  BY DEF Fail
<1>4. attempt' \in 0 .. Backoff
  BY <1>2, <1>3 DEF Clamp
<1> QED
  BY <1>1, <1>4

\* Every step keeps the types.
LEMMA NextType == TypeOK /\ [Next]_vars => TypeOK'
<1> SUFFICES ASSUME TypeOK, [Next]_vars PROVE TypeOK'
  OBVIOUS
<1>0. /\ MissLimit \in Nat \ {0} /\ Backoff \in Nat /\ MaxPings \in Nat
      /\ flow \in [Flow -> Call] /\ Idle \in Call /\ Free \subseteq Conn
  BY DeckSessionAssumption DEF TypeOK, Call, Idle, Free, Goal
<1>1. ASSUME NEW f \in Flow, Connect(f) \/ Resume(f) \/ Retry(f) PROVE TypeOK'
  <2>1. PICK k \in Free : Begin(f, "open", k)
    BY <1>1 DEF Connect, Resume, Retry, Open
  <2>2. UNCHANGED <<missed, transport, identity, drops, state>>
    BY <1>1 DEF Connect, Resume, Retry, Open
  <2>3. k \in Conn \cup {None} /\ "open" \in Goal
    BY <1>0 DEF Goal
  <2>4. want' \in BOOLEAN /\ retry' \in BOOLEAN /\ attempt' \in 0 .. Backoff
    <3>1. attempt \in 0 .. Backoff /\ want \in BOOLEAN
      BY DEF TypeOK
    <3>2. attempt' = 0 \/ attempt' = attempt
      BY <1>1 DEF Connect, Resume, Retry
    <3>3. want' \in BOOLEAN /\ retry' \in BOOLEAN
      BY <1>1, <3>1, Zenon DEF Connect, Resume, Retry
    <3> QED
      BY <1>0, <3>1, <3>2, <3>3
  <2> QED
    BY <2>1, <2>2, <2>3, <2>4, BeginStep DEF TypeOK, Call, BeginIs
<1>2. ASSUME NEW f \in Flow, Exit(f) PROVE TypeOK'
  <2>1. Begin(f, "exit", None) /\ "exit" \in Goal
    BY <1>2 DEF Exit, Goal
  <2> QED
    BY <1>2, <2>1, BeginStep DEF TypeOK, Call, BeginIs, Exit
<1>3. ASSUME NEW f \in Flow, Break(f) \/ Refuse(f) \/ Abort(f) PROVE TypeOK'
  <2>1. PICK goal \in {"retry", "giveUp"} : Throw(f, goal)
    BY <1>3 DEF Break, Refuse, Abort
  <2>2. Begin(f, goal, None) /\ goal \in Goal
    BY <2>1 DEF Throw, Goal
  <2> QED
    BY <2>1, <2>2, BeginStep DEF TypeOK, Call, BeginIs, Throw, retryVars
<1>4. CASE LastMiss
  <2>1. Teardown(flow, 1) /\ 1 <= misses
    <3>1. Teardown(flow, 1) /\ misses \in Nat /\ misses > 0
      BY <1>4 DEF LastMiss, TypeOK
    <3> QED
      BY <3>1
  <2>2. UNCHANGED <<want, transport, identity>> /\ missed' = MissLimit /\ drops' \subseteq Conn
    BY <1>4 DEF LastMiss, TypeOK
  <2>3. state' \in State /\ retry' \in BOOLEAN /\ attempt' \in 0 .. Backoff
    BY <1>4, FailType DEF LastMiss
  <2> QED
    <3>1. 1 \in {0, 1}
      OBVIOUS
    <3>2. /\ flow' \in [Flow -> Call] /\ misses' \in Nat
          /\ pings' \in [Conn -> 0 .. MaxPings] /\ pinging' = FALSE /\ client' = None
          /\ sock' \in [Conn -> {"none", "open", "gone", "closing", "shut"}]
          /\ deaf' \in [Conn -> BOOLEAN]
      BY <1>0, <2>1, <3>1, TeardownIs, Zenon
    <3>3. MissLimit \in 0 .. MissLimit
      BY <1>0
    <3> QED
      BY <2>2, <2>3, <3>2, <3>3 DEF TypeOK, Call
<1>5. ASSUME NEW f \in Flow, Connecting(f) \/ Left(f) PROVE TypeOK'
  BY <1>0, <1>5 DEF TypeOK, Connecting, Left, TornDown, pingVars, connVars, State, Call
<1>6. ASSUME NEW f \in Flow, Failed(f) PROVE TypeOK'
  <2>1. PICK goal \in {"retry", "giveUp"} : TornDown(f, goal) /\ Fail(goal = "retry")
    BY <1>6 DEF Failed
  <2>2. state' \in State /\ retry' \in BOOLEAN /\ attempt' \in 0 .. Backoff
    BY <2>1, FailType
  <2>3. flow' \in [Flow -> Call]
    BY <1>0, <1>6 DEF Failed
  <2>4. /\ client' \in Conn \cup {None} /\ transport' \in Conn \cup {None}
        /\ want' \in BOOLEAN /\ identity' \in BOOLEAN
    BY <2>1 DEF TypeOK, TornDown, pingVars, connVars
  <2>5. UNCHANGED <<missed, pinging, pings, misses, drops, sock, deaf>>
    BY <2>1 DEF TornDown, pingVars, connVars
  <2>6. /\ missed' \in 0 .. MissLimit /\ pinging' \in BOOLEAN
        /\ pings' \in [Conn -> 0 .. MaxPings] /\ misses' \in Nat /\ drops' \subseteq Conn
        /\ sock' \in [Conn -> {"none", "open", "gone", "closing", "shut"}]
        /\ deaf' \in [Conn -> BOOLEAN]
    BY <2>5 DEF TypeOK
  <2> QED
    BY <2>2, <2>3, <2>4, <2>6 DEF TypeOK, Call
<1>7. ASSUME NEW k, Dropped(k) PROVE TypeOK'
  BY <1>7 DEF TypeOK, Dropped, retryVars, pingVars, connVars
<1>8. ASSUME NEW f \in Flow, Dial(f) PROVE TypeOK'
  BY <1>0, <1>8 DEF TypeOK, Dial, retryVars, pingVars, Call
<1>9. ASSUME NEW f \in Flow, Hello(f) PROVE TypeOK'
  <2>1. flow' \in [Flow -> Call]
    BY <1>0, <1>9 DEF Hello, Call, Request
  <2>2. /\ sock' \in [Conn -> {"none", "open", "gone", "closing", "shut"}]
        /\ client' \in Conn \cup {None}
    BY <1>0, <1>9 DEF TypeOK, Hello, Call
  <2> QED
    BY <1>9, <2>1, <2>2 DEF TypeOK, Hello, retryVars, pingVars, Call
<1>10. ASSUME NEW f \in Flow, Authenticate(f) PROVE TypeOK'
  BY <1>0, <1>10 DEF TypeOK, Authenticate, retryVars, pingVars, connVars, Call, Request, State
<1>11. ASSUME Ping PROVE pings' \in [Conn -> 0 .. MaxPings]
  BY <1>0, <1>11 DEF TypeOK, Ping, Clamp
<1>12. ASSUME NEW f \in Flow, Ready(f) PROVE TypeOK'
  BY <1>0, <1>11, <1>12 DEF TypeOK, Ready, connVars, Call, State
<1>13. CASE Tick
  BY <1>11, <1>13 DEF TypeOK, Tick, retryVars, connVars
<1>14. ASSUME NEW k \in Conn, Pong(k) \/ PingTimeout(k) PROVE TypeOK'
  <2>1. pings' \in [Conn -> 0 .. MaxPings] /\ misses' \in Nat /\ missed' \in 0 .. MissLimit
    BY <1>0, <1>14 DEF TypeOK, Pong, PingTimeout
  <2> QED
    BY <1>14, <2>1 DEF TypeOK, Pong, PingTimeout, retryVars, connVars
<1>15. CASE Miss
  BY <1>0, <1>15 DEF TypeOK, Miss, retryVars, connVars
<1>16. ASSUME NEW k \in Conn, Lose(k) PROVE TypeOK'
  <2>1. FailAllPending({k}, flow, 0) /\ misses \in Nat
    BY <1>16 DEF Lose, TypeOK
  <2>2. flow' \in [Flow -> Call] /\ misses' \in Nat /\ pings' \in [Conn -> 0 .. MaxPings]
    <3>1. {k} \in SUBSET Conn /\ {k} \subseteq {k, k} /\ 0 \in {0, 1} /\ 0 <= misses
      BY <2>1
    <3> QED
      BY <1>0, <2>1, <3>1, FailAllIs, Zenon
  <2> QED
    BY <1>16, <2>2 DEF TypeOK, Lose, retryVars, Call
<1>17. ASSUME NEW k \in Conn, Vanish(k) \/ CloseEnds(k) PROVE TypeOK'
  BY <1>17 DEF TypeOK, Vanish, CloseEnds, retryVars, pingVars
<1>18. CASE UNCHANGED vars
  BY <1>18 DEF TypeOK, vars, retryVars, pingVars, connVars
<1>19. ASSUME NEW f \in Flow, Answer(f) PROVE TypeOK'
  BY <1>3, <1>8, <1>9, <1>10, <1>12, <1>19 DEF Answer
<1> QED
  BY <1>1, <1>2, <1>3, <1>4, <1>5, <1>6, <1>7, <1>8, <1>13, <1>14, <1>15, <1>16, <1>17,
     <1>18, <1>19 DEF Next, Microtask, Timer, Outside

-----------------------------------------------------------------------------
(* The invariant, action by action.                                        *)

\* A controller that has just been built.
LEMMA InitCallInv == Init => CallInv
<1> SUFFICES ASSUME Init PROVE CallInv
  OBVIOUS
<1>1. TypeOK
  <2>1. MissLimit \in Nat /\ Backoff \in Nat /\ MaxPings \in Nat
    BY DeckSessionAssumption
  <2>2. flow \in [Flow -> Call] /\ sock \in [Conn -> {"none"}]
    BY DEF Init, Idle, Goal, Call
  <2>3. /\ attempt \in 0 .. Backoff /\ missed \in 0 .. MissLimit /\ misses \in Nat
        /\ pings \in [Conn -> 0 .. MaxPings]
    BY <2>1 DEF Init
  <2>4. /\ want \in BOOLEAN /\ retry \in BOOLEAN /\ pinging \in BOOLEAN
        /\ identity \in BOOLEAN /\ deaf \in [Conn -> BOOLEAN]
    BY Zenon DEF Init
  <2> QED
    BY <2>2, <2>3, <2>4 DEF Init, TypeOK, State, Call
<1>2. \A f \in Flow : flow[f] = Idle
  BY DEF Init
<1>3. Formed /\ Apart /\ Unused /\ Known
  BY <1>2, DeckSessionAssumption DEF Init, Formed, Apart, Unused, Known, Fresh, Idle
<1>4. OneClosing /\ GoingFirst /\ ExitFollowed /\ Tried
  BY <1>2 DEF Init, OneClosing, GoingFirst, ExitFollowed, Tried, Idle
<1> QED
  BY <1>1, <1>3, <1>4 DEF CallInv

\* connect, reconnectNow and the retry timer.
LEMMA OpenKeeps ==
  ASSUME CallInv, TypeOK', Quiet, NEW f \in Flow, Connect(f) \/ Resume(f) \/ Retry(f)
  PROVE  CallInv'
<1>0. CallsFormed /\ ClosingFirst
  BY DEF CallInv, CallsFormed, ClosingFirst
<1>1. PICK k \in Free : Begin(f, "open", k)
  BY DEF Connect, Resume, Retry, Open
<1>2. UNCHANGED <<transport, identity, drops>> /\ flow[f] = Idle
  BY DEF Connect, Resume, Retry, Open
<1>3. k \in Conn \cup {None} /\ "open" \in Goal
  BY DEF Goal, Free
<1>4. BeginIs(f, "open", k)
  BY <1>1, <1>2, <1>3, BeginStep DEF CallInv
<1>5. Formed' /\ Apart' /\ Unused' /\ Known'
  BY <1>0, <1>3, <1>4, BeginFormed
<1>6. ClosingFirst'
  BY <1>0, <1>4, BeginClosing
<1>7. ExitFollowed'
  BY <1>0, <1>2, <1>3, <1>4, BeginFollowed DEF CallInv, Idle
<1>8. Tried'
  BY <1>4 DEF Tried, Trying, BeginIs
<1> QED
  BY <1>5, <1>6, <1>7, <1>8 DEF CallInv, ClosingFirst

\* disconnect.
LEMMA ExitKeeps ==
  ASSUME CallInv, TypeOK', NEW f \in Flow, Exit(f)
  PROVE  CallInv'
<1>0. CallsFormed /\ ClosingFirst
  BY DEF CallInv, CallsFormed, ClosingFirst
<1>1. Begin(f, "exit", None) /\ UNCHANGED <<transport, identity, drops>> /\ identity /\ ~want'
  BY DEF Exit
<1>2. None \in Conn \cup {None} /\ "exit" \in Goal
  BY DEF Goal
<1>3. BeginIs(f, "exit", None)
  BY <1>1, <1>2, BeginStep DEF CallInv
<1>4. Formed' /\ Apart' /\ Unused' /\ Known'
  BY <1>0, <1>1, <1>2, <1>3, BeginFormed
<1>5. ClosingFirst'
  BY <1>0, <1>3, BeginClosing
<1>6. ExitFollowed' /\ Tried'
  BY <1>1 DEF ExitFollowed, Tried
<1> QED
  BY <1>4, <1>5, <1>6 DEF CallInv, ClosingFirst

\* _open's catch: of what fails in the event loop (Break), or outside it.
LEMMA ThrowKeeps ==
  ASSUME CallInv, TypeOK', NEW f \in Flow, Break(f) \/ (Quiet /\ (Refuse(f) \/ Abort(f)))
  PROVE  CallInv'
<1>0. CallsFormed /\ ClosingFirst
  BY DEF CallInv, CallsFormed, ClosingFirst
<1>1. PICK goal \in {"retry", "giveUp"} : Throw(f, goal)
  BY DEF Break, Refuse, Abort
<1>2. /\ Begin(f, goal, None) /\ UNCHANGED <<transport, identity, drops>>
      /\ want' = want /\ goal \in Goal /\ goal # "open" /\ goal # "exit" /\ goal # "none"
  BY <1>1 DEF Throw, Goal, retryVars
<1>3. BeginIs(f, goal, None)
  BY <1>2, BeginStep DEF CallInv
<1>4. Formed' /\ Apart' /\ Unused' /\ Known'
  BY <1>0, <1>2, <1>3, BeginFormed
<1>5. ClosingFirst'
  BY <1>0, <1>3, BeginClosing
<1>6. ExitFollowed'
  <2>1. flow[f].pc = "broken" \/ (Quiet /\ flow[f].pc # "close")
    BY DEF Break, Refuse, Abort, Answered, Request
  <2> QED
    BY <1>0, <1>2, <1>3, <2>1, BeginFollowed DEF CallInv
<1>7. Tried'
  BY <1>2, <1>3 DEF Tried, Trying, BeginIs
<1> QED
  BY <1>4, <1>5, <1>6, <1>7 DEF CallInv, ClosingFirst

\* A ping too many.
LEMMA LastMissKeeps ==
  ASSUME CallInv, TypeOK', LastMiss
  PROVE  CallInv'
<1>0. CallsFormed /\ ClosingFirst /\ flow \in [Flow -> Call]
  BY DEF CallInv, CallsFormed, ClosingFirst, TypeOK, Call
<1>1. /\ Teardown(flow, 1) /\ 1 \in {0, 1} /\ 1 <= misses
      /\ transport' = transport /\ identity' = identity /\ want' = want
      /\ drops' = drops \cup ({transport} \ {None})
  <2>1. misses \in Nat /\ misses > 0
    BY DEF LastMiss, CallInv, TypeOK
  <2> QED
    BY <2>1 DEF LastMiss
<1>2. flow' \in [Flow -> Call] /\ (\A f \in Flow : Follows(f, flow[f])) /\ Closes
  BY <1>0, <1>1, TeardownIs, Zenon DEF CallInv
<1>3. Silent
  BY <1>1, <1>2 DEF Silent, Closes
<1>4. Formed' /\ Apart' /\ Unused' /\ Known'
  BY <1>0, <1>3, SilentFormed
<1>5. OneClosing'
  BY <1>0, <1>1, <1>2, ClosesKeeps DEF OneClosing
<1>6. GoingFirst'
  <2> SUFFICES ASSUME Going', transport # None PROVE ~Live(transport)'
    BY <1>1 DEF GoingFirst
  <2>1. transport \in Conn /\ drops \subseteq Conn
    BY DEF CallInv, TypeOK
  <2>2. CASE Going
    BY <1>0, <1>1, <1>2, <2>1, <2>2, ClosesKeeps DEF Live
  <2>3. CASE ~Going
    <3>1. \A k \in drops : sock'[k] = "closing"
      BY <1>0, <1>2, <2>1, <2>3, ClosesKeeps DEF Going
    <3>2. \A g \in Flow : ~Awake(g)' /\ flow'[g].pc # "load"
      BY <1>0, <1>2, <1>3, <2>3, ClosesKeeps, SilentIs DEF Going, Awake, Request
    <3>3. sock'[transport] # "closing"
      BY <1>1, <3>1, <3>2 DEF Going
    <3> QED
      BY <1>1, <1>2, <2>1, <3>3 DEF Closes, Live
  <2> QED
    BY <2>2, <2>3
<1>7. ExitFollowed'
  <2>1. \A g \in Flow : Awake(g) => Awake(g)'
    BY <1>0, <1>2, <1>3, ClosesKeeps, SilentIs DEF Going, Awake, Request
  <2> QED
    BY <1>0, <1>1, <1>3, <2>1, SilentFollowed DEF CallInv
<1>8. Tried'
  BY <1>1 DEF LastMiss, Fail, Tried
<1> QED
  BY <1>4, <1>5, <1>6, <1>7, <1>8 DEF CallInv

\* What is heard of pings and from the network.
LEMMA OutsideKeeps ==
  ASSUME CallInv, TypeOK', NEW k,
         \/ k \in Conn /\ (Lose(k) \/ Vanish(k) \/ CloseEnds(k) \/ Pong(k) \/ PingTimeout(k))
         \/ Tick \/ Miss \/ UNCHANGED vars
  PROVE  CallInv'
<1>0. CallsFormed /\ ClosingFirst /\ flow \in [Flow -> Call]
      /\ sock \in [Conn -> {"none", "open", "gone", "closing", "shut"}]
  BY DEF CallInv, CallsFormed, ClosingFirst, TypeOK, Call
<1>1. UNCHANGED <<state, want, retry, transport, identity, drops>>
  BY DEF Lose, Vanish, CloseEnds, Pong, PingTimeout, Tick, Miss, vars, retryVars
<1>2. \/ sock' = sock
      \/ k \in Conn /\ sock[k] = "open" /\ sock' = [sock EXCEPT ![k] = "shut"]
      \/ k \in Conn /\ sock[k] = "open" /\ sock' = [sock EXCEPT ![k] = "gone"]
      \/ k \in Conn /\ sock[k] = "closing" /\ sock' = [sock EXCEPT ![k] = "shut"]
  BY DEF Lose, Vanish, CloseEnds, Pong, PingTimeout, Tick, Miss, vars, connVars
<1>3. flow' \in [Flow -> Call] /\ \A f \in Flow : Follows(f, flow[f])
  <2>1. CASE flow' = flow
    BY <1>0, <2>1 DEF Follows
  <2>2. CASE k \in Conn /\ Lose(k)
    <3>1. misses \in Nat
      BY DEF CallInv, TypeOK
    <3>2. {k} \in SUBSET Conn /\ {k} \subseteq {k, k} /\ 0 \in {0, 1} /\ 0 <= misses
      BY <2>2, <3>1
    <3>3. FailAllPending({k}, flow, 0)
      BY <2>2 DEF Lose
    <3> QED
      BY <1>0, <3>2, <3>3, FailAllIs, Zenon DEF CallInv
  <2> QED
    BY <2>1, <2>2 DEF Vanish, CloseEnds, Pong, PingTimeout, Tick, Miss, vars
<1>4. /\ \A j \in Conn : /\ Live(j)' => Live(j)
                         /\ sock'[j] = "closing" => sock[j] = "closing"
                         /\ sock[j] = "closing" => sock'[j] = "closing" \/ ~Live(j)'
      /\ \A j \in Conn : sock[j] \in {"none", "shut"} => sock'[j] = sock[j]
  BY <1>0, <1>2 DEF Live
<1>5. Silent
  BY <1>1, <1>3, <1>4 DEF Silent
<1>6. \A f \in Flow : Awake(f) => Awake(f)'
  BY <1>0, <1>4, <1>5, SilentIs DEF Awake, Request
<1>7. Formed' /\ Apart' /\ Unused' /\ Known'
  BY <1>0, <1>5, SilentFormed
<1>8. ClosingFirst'
  BY <1>0, <1>1, <1>4, <1>5, SilentClosing
<1>9. ExitFollowed' /\ Tried'
  BY <1>0, <1>1, <1>5, <1>6, SilentFollowed, SilentTried DEF CallInv
<1> QED
  BY <1>7, <1>8, <1>9 DEF CallInv, ClosingFirst

\* _open and disconnect go on after their teardown, or the teardown a ping began.
LEMMA ConnectingKeeps ==
  ASSUME CallInv, TypeOK', NEW f \in Flow, Connecting(f)
  PROVE  CallInv'
<1> DEFINE c == [flow[f] EXCEPT !.pc = "load", !.shuts = None]
<1>0. CallsFormed /\ ClosingFirst /\ flow \in [Flow -> Call]
  BY DEF CallInv, CallsFormed, ClosingFirst, TypeOK, Call
<1>1. /\ transport' = None /\ sock' = sock /\ drops' = drops /\ want' = want
      /\ identity' = identity /\ Awake(f) /\ flow[f].pc = "close" /\ flow[f].goal = "open"
  BY DEF Connecting, TornDown, connVars, Awake
<1>2. /\ c \in Call /\ c.pc = "load" /\ c.goal = "open" /\ c.conn = flow[f].conn
  BY <1>0, <1>1 DEF Call
<1>3. flow' = [flow EXCEPT ![f] = c]
  BY <1>0 DEF Connecting
<1> HIDE DEF c
<1>4. Moves(f, c)
  BY <1>0, <1>2, <1>3 DEF Moves
<1>5. Fresh(f) /\ Fresh(f)'
  BY <1>1, <1>2, <1>4 DEF Fresh, Moves
<1>6. Formed' /\ Apart'
  BY <1>0, <1>1, <1>2, <1>4, MovesFormed
<1>7. Unused'
  BY <1>0, <1>1, <1>2, <1>4, <1>5, MovesUnused
<1>8. Known'
  BY <1>1, <1>2, <1>4 DEF Known, CallInv, Moves
<1>9. ClosingFirst'
  BY <1>0, <1>1, ClearedClosing DEF Going
<1>10. ExitFollowed'
  BY <1>0, <1>1, <1>2, <1>4, <1>5, FreshFollowed DEF CallInv
<1>11. Tried'
  BY <1>2, <1>4 DEF Tried, Trying, Moves
<1> QED
  BY <1>6, <1>7, <1>8, <1>9, <1>10, <1>11 DEF CallInv, ClosingFirst

\* A call that ends has left nothing to be followed.
LEMMA EndKeeps ==
  ASSUME CallsFormed, ExitFollowed, NEW f \in Flow, flow' = [flow EXCEPT ![f] = Idle],
         ~Fresh(f), sock' = sock, identity' = identity, want' = want
  PROVE  Formed' /\ Apart' /\ Unused' /\ Known' /\ ExitFollowed'
<1>1. flow \in [Flow -> Call] /\ Idle \in Call
  BY DEF CallsFormed, TypeOK, Call, Idle, Goal
<1>2. Moves(f, Idle)
  BY <1>1 DEF Moves
<1>3. ~Fresh(f)'
  BY <1>2 DEF Moves, Fresh, Idle
<1>4. Formed' /\ Apart'
  BY <1>1, <1>2, MovesFormed
<1>5. Unused'
  BY <1>1, <1>2, <1>3, MovesUnused
<1>6. Known'
  BY <1>2 DEF Known, CallsFormed, Moves, Idle
<1>7. ExitFollowed'
  BY <1>1, <1>2, MovesFollowed DEF Idle
<1> QED
  BY <1>4, <1>5, <1>6, <1>7

\* _open has failed.
LEMMA FailedKeeps ==
  ASSUME CallInv, TypeOK', NEW f \in Flow, Failed(f)
  PROVE  CallInv'
<1>0. CallsFormed /\ ClosingFirst
  BY DEF CallInv, CallsFormed, ClosingFirst
<1>1. PICK goal \in {"retry", "giveUp"} : TornDown(f, goal) /\ Fail(goal = "retry")
  BY DEF Failed
<1>2. /\ transport' = None /\ sock' = sock /\ want' = want /\ identity' = identity
      /\ Awake(f) /\ flow[f].goal # "open" /\ flow' = [flow EXCEPT ![f] = Idle]
  BY <1>1 DEF Failed, TornDown, connVars
<1>3. Formed' /\ Apart' /\ Unused' /\ Known' /\ ExitFollowed'
  BY <1>0, <1>2, EndKeeps DEF CallInv, Fresh
<1>4. ClosingFirst'
  BY <1>0, <1>2, ClearedClosing DEF Going
<1>5. Tried'
  BY <1>1 DEF Tried, Fail
<1> QED
  BY <1>3, <1>4, <1>5 DEF CallInv, ClosingFirst

\* disconnect ends: if the user wants a connection again, the call that is to make
\* it is still under way.
LEMMA LeftKeeps ==
  ASSUME CallInv, TypeOK', NEW f \in Flow, Left(f)
  PROVE  CallInv'
<1>0. CallsFormed /\ ClosingFirst /\ flow \in [Flow -> Call]
  BY DEF CallInv, CallsFormed, ClosingFirst, TypeOK, Call
<1>1. /\ transport' = None /\ sock' = sock /\ want' = want /\ identity' = identity
      /\ Awake(f) /\ flow[f].pc = "close" /\ flow[f].goal = "exit"
      /\ flow' = [flow EXCEPT ![f] = Idle]
  BY DEF Left, TornDown, connVars, Awake
<1>2. Formed' /\ Apart' /\ Unused' /\ Known' /\ ExitFollowed'
  BY <1>0, <1>1, EndKeeps DEF CallInv, Fresh
<1>3. ClosingFirst'
  BY <1>0, <1>1, ClearedClosing DEF Going
<1>4. Tried'
  <2> SUFFICES ASSUME want PROVE \E g \in Flow : Trying(g)'
    BY <1>1 DEF Tried
  <2>1. PICK g \in Flow : Fresh(g)
    BY <1>1 DEF CallInv, ExitFollowed
  <2>2. flow'[g] = flow[g]
    BY <1>0, <1>1, <2>1 DEF Fresh
  <2> QED
    BY <2>1, <2>2 DEF Fresh, Trying
<1> QED
  BY <1>2, <1>3, <1>4 DEF CallInv, ClosingFirst

\* The teardown a ping began ends.
LEMMA DroppedKeeps ==
  ASSUME CallInv, TypeOK', NEW k \in drops, Dropped(k)
  PROVE  CallInv'
<1>0. CallsFormed /\ ClosingFirst
  BY DEF CallInv, CallsFormed, ClosingFirst
<1>1. /\ transport' = None
      /\ UNCHANGED <<state, want, retry, identity, flow, sock>>
  BY DEF Dropped, retryVars, connVars
<1>2. ClosingFirst'
  BY <1>0, <1>1, ClearedClosing DEF Going, Dropped
<1>3. Formed' /\ Apart' /\ Unused' /\ Known'
  BY <1>1 DEF CallInv, Formed, Apart, Unused, Known, Fresh
<1>4. ExitFollowed' /\ Tried'
  BY <1>1 DEF CallInv, ExitFollowed, Fresh, Awake, Tried, Trying
<1> QED
  BY <1>2, <1>3, <1>4 DEF CallInv, ClosingFirst

\* The transport dials: nothing is closing, as the call that dials was due.
LEMMA DialKeeps ==
  ASSUME CallInv, TypeOK', NEW f \in Flow, Dial(f)
  PROVE  CallInv'
<1> DEFINE c == [flow[f] EXCEPT !.pc = "dial"]
<1>0. /\ CallsFormed /\ ClosingFirst /\ flow \in [Flow -> Call]
      /\ sock \in [Conn -> {"none", "open", "gone", "closing", "shut"}]
      /\ transport \in Conn \cup {None} /\ None \notin Conn
  BY DeckSessionAssumption DEF CallInv, CallsFormed, ClosingFirst, TypeOK, Call
<1>1. /\ flow[f].pc = "load" /\ identity' = TRUE /\ transport' = flow[f].conn
      /\ sock' = [sock EXCEPT ![flow[f].conn] = "none"] /\ drops' = drops
      /\ flow' = [flow EXCEPT ![f].pc = "dial"]
      /\ UNCHANGED <<state, want, retry>>
  BY DEF Dial, retryVars
<1>2. flow[f].goal = "open" /\ flow[f].conn \in Conn
  BY <1>1 DEF CallInv, Formed
<1>3. c \in Call /\ c.pc = "dial" /\ c.goal = "open" /\ c.conn = flow[f].conn
  BY <1>0, <1>2 DEF Call
<1>4. flow' = [flow EXCEPT ![f] = c]
  BY <1>0, <1>1
<1> HIDE DEF c
<1>5. Moves(f, c)
  BY <1>0, <1>3, <1>4 DEF Moves
<1>6. Fresh(f) /\ Fresh(f)'
  BY <1>1, <1>2, <1>3, <1>5 DEF Fresh, Moves
<1>7. /\ \A k \in Conn : k # flow[f].conn => sock'[k] = sock[k]
      /\ sock'[flow[f].conn] = "none"
  BY <1>0, <1>1, <1>2
<1>8. Formed' /\ Apart'
  BY <1>0, <1>2, <1>3, <1>5, MovesFormed
<1>9. Unused'
  BY <1>0, <1>2, <1>3, <1>5, <1>7, MovesUnused
<1>10. Known'
  BY <1>1 DEF Known
<1>11. \A k \in Conn : sock[k] # "closing"
  BY <1>0, <1>1 DEF ClosingFirst, OneClosing, GoingFirst, Going, Live
<1>12. OneClosing'
  BY <1>2, <1>7, <1>11 DEF OneClosing
<1>13. GoingFirst'
  BY <1>1, <1>7 DEF GoingFirst, Live
<1>14. ExitFollowed'
  BY <1>0, <1>1, <1>2, <1>3, <1>5, <1>6, <1>7, FreshFollowed DEF CallInv
<1>15. Tried'
  BY <1>3, <1>5 DEF Tried, Trying, Moves
<1> QED
  BY <1>8, <1>9, <1>10, <1>12, <1>13, <1>14, <1>15 DEF CallInv

\* The transport is connected, while nobody is on the way to clear its field and,
\* if an exit is under way, not by the call that follows it.
LEMMA HelloKeeps ==
  ASSUME CallInv, TypeOK', Quiet, NEW f \in Flow, Hello(f)
  PROVE  CallInv'
<1> DEFINE c == [flow[f] EXCEPT !.pc = IF deaf[flow[f].conn] THEN "broken" ELSE "hello"]
<1>0. /\ CallsFormed /\ ClosingFirst /\ flow \in [Flow -> Call] /\ drops \subseteq Conn
      /\ sock \in [Conn -> {"none", "open", "gone", "closing", "shut"}]
  BY DEF CallInv, CallsFormed, ClosingFirst, TypeOK, Call
<1>1. /\ flow[f].pc = "dial" /\ UNCHANGED <<state, want, retry, transport, identity, drops>>
      /\ sock' = [sock EXCEPT ![flow[f].conn] = "open"]
  BY DEF Hello, retryVars
<1>2. flow[f].goal = "open" /\ flow[f].conn \in Conn /\ identity
  BY <1>1 DEF CallInv, Formed, Known
<1>3. c \in Call /\ c.pc \in {"broken", "hello"} /\ c.goal = "open" /\ c.conn = flow[f].conn
  BY <1>0, <1>2 DEF Call, Request
<1>4. flow' = [flow EXCEPT ![f] = c]
  BY <1>0 DEF Hello
<1> HIDE DEF c
<1>5. Moves(f, c)
  BY <1>0, <1>3, <1>4 DEF Moves
<1>6. Fresh(f) /\ ~Fresh(f)'
  BY <1>1, <1>2, <1>3, <1>5 DEF Fresh, Moves
<1>7. /\ \A k \in Conn : k # flow[f].conn => sock'[k] = sock[k]
      /\ \A k \in Conn : sock'[k] = "closing" => sock[k] = "closing"
      /\ \A k \in Conn : sock[k] = "closing" => sock'[k] = "closing"
  BY <1>0, <1>1, <1>2, <1>6 DEF CallInv, Unused
<1>8. Formed' /\ Apart'
  BY <1>0, <1>2, <1>3, <1>5, MovesFormed
<1>9. Unused'
  BY <1>0, <1>2, <1>3, <1>5, <1>6, <1>7, MovesUnused
<1>10. Known'
  BY <1>1, <1>2 DEF Known
<1>11. OneClosing'
  BY <1>1, <1>7 DEF CallInv, OneClosing
<1>12. ~Going'
  <2>1. \A k \in drops' : sock'[k] = "closing"
    BY <1>0, <1>1, <1>7 DEF Quiet
  <2>2. ASSUME NEW g \in Flow PROVE ~Awake(g)' /\ flow'[g].pc # "load"
    <3>1. CASE g = f
      BY <1>3, <1>5, <3>1 DEF Awake, Moves
    <3>2. CASE g # f
      BY <1>2, <1>5, <1>7, <3>2 DEF Awake, Moves, Quiet
    <3> QED
      BY <3>1, <3>2
  <2> QED
    BY <2>1, <2>2 DEF Going
<1>13. ExitFollowed'
  <2> SUFFICES ASSUME NEW e \in Flow, want', flow'[e].pc = "close", flow'[e].goal = "exit"
               PROVE  \E g \in Flow : /\ Fresh(g)'
                                      /\ flow'[g].pc = "close"
                                      /\ flow'[g].shuts = flow'[e].shuts
    BY DEF ExitFollowed
  <2>1. flow'[e] = flow[e] /\ ~Awake(e)
    BY <1>3, <1>5 DEF Moves, Quiet
  <2>2. PICK g \in Flow : Fresh(g) /\ flow[g].pc = "close" /\ flow[g].shuts = flow[e].shuts
    BY <1>1, <2>1 DEF CallInv, ExitFollowed
  <2>3. flow'[g] = flow[g]
    BY <1>1, <1>5, <2>2 DEF Moves
  <2> QED
    BY <2>1, <2>2, <2>3 DEF Fresh
<1>14. Tried'
  BY <1>3, <1>5 DEF Tried, Trying, Moves
<1> QED
  BY <1>8, <1>9, <1>10, <1>11, <1>12, <1>13, <1>14 DEF CallInv, GoingFirst

\* The challenge is answered.
LEMMA AuthenticateKeeps ==
  ASSUME CallInv, TypeOK', NEW f \in Flow, Authenticate(f)
  PROVE  CallInv'
<1> DEFINE c == [flow[f] EXCEPT !.pc = "auth"]
<1>0. CallsFormed /\ ClosingFirst /\ flow \in [Flow -> Call]
  BY DEF CallInv, CallsFormed, ClosingFirst, TypeOK, Call
<1>1. /\ flow[f].pc = "hello" /\ flow' = [flow EXCEPT ![f].pc = "auth"]
      /\ UNCHANGED <<want, retry, transport, identity, drops, sock>>
  BY DEF Authenticate, Answered, retryVars, connVars
<1>2. flow[f].goal = "open" /\ identity
  BY <1>1 DEF CallInv, Formed, Known
<1>3. c \in Call /\ c.pc = "auth" /\ c.goal = "open" /\ c.conn = flow[f].conn
  BY <1>0, <1>2 DEF Call, Request
<1>4. flow' = [flow EXCEPT ![f] = c]
  BY <1>0, <1>1
<1> HIDE DEF c
<1>5. Moves(f, c) /\ ~Fresh(f) /\ ~Fresh(f)'
  BY <1>0, <1>1, <1>3, <1>4 DEF Moves, Fresh
<1>6. Formed' /\ Apart'
  BY <1>0, <1>2, <1>3, <1>5, MovesFormed
<1>7. Unused'
  BY <1>0, <1>1, <1>3, <1>5, MovesUnused
<1>8. Known'
  BY <1>1, <1>2 DEF Known
<1>9. ClosingFirst'
  <2>1. Going' => Going
    BY <1>1, <1>3, <1>5 DEF Going, Awake, Moves
  <2> QED
    BY <1>0, <1>1, <2>1 DEF ClosingFirst, OneClosing, GoingFirst, Live
<1>10. ExitFollowed'
  BY <1>0, <1>1, <1>3, <1>5, MovesFollowed DEF CallInv
<1>11. Tried'
  BY <1>3, <1>5 DEF Tried, Trying, Moves
<1> QED
  BY <1>6, <1>7, <1>8, <1>9, <1>10, <1>11 DEF CallInv, ClosingFirst

\* The session is ready, and the call has ended.
LEMMA ReadyKeeps ==
  ASSUME CallInv, TypeOK', NEW f \in Flow, Ready(f)
  PROVE  CallInv'
<1>0. CallsFormed /\ ClosingFirst /\ flow \in [Flow -> Call]
  BY DEF CallInv, CallsFormed, ClosingFirst, TypeOK, Call
<1>1. /\ flow[f].pc = "auth" /\ flow' = [flow EXCEPT ![f] = Idle] /\ state' = "ready"
      /\ UNCHANGED <<want, retry, transport, identity, drops, sock>>
  BY DEF Ready, Answered, connVars
<1>2. Formed' /\ Apart' /\ Unused' /\ Known' /\ ExitFollowed'
  BY <1>0, <1>1, EndKeeps DEF CallInv, Fresh
<1>3. ClosingFirst'
  <2>1. \A g \in Flow : flow'[g] = IF g = f THEN Idle ELSE flow[g]
    BY <1>0, <1>1
  <2>2. Going' => Going
    BY <1>1, <2>1 DEF Going, Awake, Idle
  <2> QED
    BY <1>0, <1>1, <2>2 DEF ClosingFirst, OneClosing, GoingFirst, Live
<1>4. Tried'
  BY <1>1 DEF Tried
<1> QED
  BY <1>2, <1>3, <1>4 DEF CallInv, ClosingFirst

\* Every step keeps the invariant.
LEMMA NextCallInv == CallInv /\ [Next]_vars => CallInv'
<1> SUFFICES ASSUME CallInv, [Next]_vars PROVE CallInv'
  OBVIOUS
<1>0. TypeOK'
  BY NextType DEF CallInv
<1>1. ASSUME NEW f \in Flow, Connecting(f) \/ Failed(f) \/ Left(f) \/ Break(f) \/ Dial(f)
      PROVE  CallInv'
  BY <1>0, <1>1, ConnectingKeeps, FailedKeeps, LeftKeeps, ThrowKeeps, DialKeeps
<1>2. ASSUME NEW k \in drops, Dropped(k) PROVE CallInv'
  BY <1>0, <1>2, DroppedKeeps
<1>3. CASE LastMiss
  BY <1>0, <1>3, LastMissKeeps
<1>4. ASSUME Quiet, NEW f \in Flow, Connect(f) \/ Resume(f) \/ Retry(f) \/ Exit(f) \/ Answer(f)
      PROVE  CallInv'
  <2>1. CASE Connect(f) \/ Resume(f) \/ Retry(f)
    BY <1>0, <1>4, <2>1, OpenKeeps
  <2>2. CASE Exit(f)
    BY <1>0, <2>2, ExitKeeps
  <2>3. CASE Answer(f)
    BY <1>0, <1>4, <2>3, DialKeeps, HelloKeeps, AuthenticateKeeps, ReadyKeeps, ThrowKeeps
       DEF Answer
  <2> QED
    BY <1>4, <2>1, <2>2, <2>3
<1>5. ASSUME NEW k \in Conn,
             Pong(k) \/ Lose(k) \/ Vanish(k) \/ CloseEnds(k) \/ PingTimeout(k)
      PROVE  CallInv'
  BY <1>0, <1>5, OutsideKeeps
<1>6. CASE Miss \/ Tick \/ UNCHANGED vars
  BY <1>0, <1>6, OutsideKeeps
<1> QED
  BY <1>1, <1>2, <1>3, <1>4, <1>5, <1>6 DEF Next, Microtask, Timer, Outside

-----------------------------------------------------------------------------
(* What follows from it.                                                   *)

\* Every reachable state of the controller, its calls and its connections is well
\* typed: no count of missed or failed pings goes wrong.
THEOREM TypeCorrect == Spec => []TypeOK
<1>1. CallInv => TypeOK
  BY DEF CallInv
<1> QED
  BY InitCallInv, NextCallInv, <1>1, PTL DEF Spec

\* Whatever calls overlap, one connection at most is being closed, and it is the
\* one the field _transport still names (_teardown, _open).
THEOREM ClosingCorrect == Spec => []OneClosing
<1>1. CallInv => OneClosing
  BY DEF CallInv
<1> QED
  BY InitCallInv, NextCallInv, <1>1, PTL DEF Spec

\* A wanted connection is never given up silently, however many calls overlap:
\* when none is left, the session is ready, failed or about to be retried. In
\* particular, a disconnect that is overtaken by a connect does not have the last
\* word (disconnect, _open, _fail).
THEOREM NotStuckCorrect == Spec => []NotStuck
<1>1. CallInv => NotStuck
  BY DEF CallInv, NotStuck, AllIdle, Tried, Trying, Idle
<1> QED
  BY InitCallInv, NextCallInv, <1>1, PTL DEF Spec

-----------------------------------------------------------------------------
(* Calls that do not overlap.                                              *)

\* A request is on the connection that _client names, and a ready session has a
\* client unless the call that has taken it has yet to say what becomes of the
\* session.
Served ==
  /\ \A f \in Flow : flow[f].pc \in Request => client = flow[f].conn
  /\ state = "ready" => client # None \/ \E f \in Flow : flow[f].pc = "close"

\* What _failAllPending does to the calls.
Fails(lost, calls) ==
  \A f \in Flow : flow'[f] = IF calls[f].pc \in Request /\ calls[f].conn \in lost
                             THEN [calls[f] EXCEPT !.pc = "broken"] ELSE calls[f]

\* A call that is the only one begins: there is no request it could fail.
LEMMA BeginServed ==
  ASSUME CallInv, \A f, g \in Flow : f = g, NEW f \in Flow, NEW goal, NEW conn,
         Begin(f, goal, conn)
  PROVE  Served'
<1> DEFINE c == [pc |-> "close", goal |-> goal, conn |-> conn, shuts |-> transport]
           calls == [flow EXCEPT ![f] = c]
<1>1. flow \in [Flow -> Call]
  BY DEF CallInv, TypeOK, Call
<1>2. calls[f] = c /\ c.pc = "close" /\ "close" \notin Request
  BY <1>1 DEF Request
<1>3. Fails({client, transport} \ {None}, calls)
  BY DEF Begin, Teardown, FailAllPending, Fails
<1> HIDE DEF calls, c
<1>4. flow'[f] = c
  BY <1>2, <1>3 DEF Fails
<1>5. \A g \in Flow : flow'[g].pc = "close"
  BY <1>2, <1>4
<1> QED
  BY <1>2, <1>5 DEF Served

\* A step that begins no call: the requests that stay are on their connection.
LEMMA NextServed ==
  ASSUME CallInv, \A f, g \in Flow : f = g, Served, [Next]_vars
  PROVE  Served'
<1>0. /\ flow \in [Flow -> Call] /\ None \notin Conn
      /\ client \in Conn \cup {None}
  BY DeckSessionAssumption DEF CallInv, TypeOK, Call
<1>1. ASSUME NEW f \in Flow, \/ Connect(f) \/ Resume(f) \/ Retry(f) \/ Exit(f)
                             \/ Break(f) \/ Refuse(f) \/ Abort(f)
      PROVE  Served'
  BY <1>1, BeginServed DEF Connect, Resume, Retry, Exit, Open, Break, Refuse, Abort, Throw
<1>2. ASSUME NEW f \in Flow, Connecting(f) \/ Failed(f) \/ Left(f)
      PROVE  Served'
  <2>1. flow'[f].pc \in {"load", "idle"} /\ state' # "ready"
    BY <1>0, <1>2 DEF Connecting, Failed, Left, Fail, Idle, Call
  <2>2. \A g \in Flow : flow'[g].pc \notin Request
    BY <2>1 DEF Request
  <2> QED
    BY <2>1, <2>2 DEF Served
<1>3. ASSUME NEW f \in Flow, Dial(f) PROVE Served'
  <2>1. /\ flow'[f].pc = "dial" /\ flow[f].pc = "load"
        /\ state' = state /\ client' = client
    BY <1>0, <1>3 DEF Dial, Call
  <2>2. \A g \in Flow : flow'[g].pc \notin Request /\ flow[g].pc # "close"
    BY <2>1 DEF Request
  <2> QED
    BY <2>1, <2>2 DEF Served
<1>4. ASSUME NEW f \in Flow, Hello(f) PROVE Served'
  <2>1. client' = flow[f].conn /\ flow'[f].conn = flow[f].conn /\ flow[f].pc = "dial"
    BY <1>0, <1>4 DEF Hello, Call
  <2>2. flow[f].conn \in Conn
    BY <2>1 DEF CallInv, Formed
  <2> QED
    BY <1>0, <2>1, <2>2 DEF Served
<1>5. ASSUME NEW f \in Flow, Authenticate(f) PROVE Served'
  <2>1. /\ flow[f].pc = "hello" /\ flow'[f].conn = flow[f].conn
        /\ state' = "authenticating" /\ client' = client
    BY <1>0, <1>5 DEF Authenticate, Answered, Call
  <2> QED
    BY <2>1 DEF Served, Request
<1>6. ASSUME NEW f \in Flow, Ready(f) PROVE Served'
  <2>1. /\ flow[f].pc = "auth" /\ flow'[f] = Idle /\ client' = client
    BY <1>0, <1>6 DEF Ready, Answered
  <2>2. client = flow[f].conn /\ flow[f].conn \in Conn
    BY <2>1 DEF Served, Request, CallInv, Formed
  <2>3. \A g \in Flow : flow'[g].pc \notin Request
    BY <2>1 DEF Request, Idle
  <2> QED
    BY <1>0, <2>1, <2>2, <2>3 DEF Served
<1>7. CASE LastMiss
  <2>1. Fails({client, transport} \ {None}, flow) /\ state' # "ready"
    BY <1>7 DEF LastMiss, Teardown, FailAllPending, Fails, Fail
  <2>2. ASSUME NEW f \in Flow, flow'[f].pc \in Request PROVE FALSE
    <3>1. flow'[f].pc # "broken"
      BY <2>2 DEF Request
    <3>2. flow[f].pc \in Request /\ flow[f].conn \notin {client, transport} \ {None}
      BY <1>0, <2>1, <2>2, <3>1 DEF Fails, Call
    <3>3. flow[f].conn \in Conn
      BY <3>2 DEF CallInv, Formed, Request
    <3> QED
      BY <1>0, <3>2, <3>3 DEF Served
  <2> QED
    BY <2>1, <2>2 DEF Served
<1>8. ASSUME NEW k \in Conn, Lose(k) PROVE Served'
  <2>1. Fails({k}, flow) /\ state' = state /\ client' = client
    BY <1>8 DEF Lose, FailAllPending, Fails
  <2>2. ASSUME NEW f \in Flow
        PROVE  /\ flow'[f].conn = flow[f].conn
               /\ flow'[f].pc = flow[f].pc \/ (flow'[f].pc = "broken" /\ flow[f].pc \in Request)
    BY <1>0, <2>1 DEF Fails, Call
  <2> QED
    BY <2>1, <2>2 DEF Served, Request
<1>9. ASSUME UNCHANGED <<state, client, flow>> PROVE Served'
  BY <1>9 DEF Served
<1>10. ASSUME NEW k, Pong(k) \/ Vanish(k) \/ CloseEnds(k) \/ PingTimeout(k) \/ Dropped(k)
       PROVE  Served'
  BY <1>9, <1>10 DEF Pong, Vanish, CloseEnds, PingTimeout, Dropped
<1>11. CASE Tick \/ Miss \/ UNCHANGED vars
  BY <1>9, <1>11 DEF Tick, Miss, vars
<1> QED
  BY <1>1, <1>2, <1>3, <1>4, <1>5, <1>6, <1>7, <1>8, <1>10, <1>11
     DEF Next, Microtask, Timer, Outside, Answer

\* Where no two calls overlap the comment is right: a session that is ready, with
\* nothing under way, has its client, also while teardowns that pings began are
\* still closing a transport (_teardown, _open). Overlapping calls are therefore
\* the only way to a ready session without one.
THEOREM ClientCorrect ==
  ASSUME \A f, g \in Flow : f = g
  PROVE  Spec => []ReadyHasClient
<1>1. Init => Served
  BY DEF Init, Served, Idle, Request
<1>2. CallInv /\ Served /\ [Next]_vars => Served'
  BY NextServed
<1>3. Served => ReadyHasClient
  BY DEF Served, ReadyHasClient, AllIdle, Idle
<1> QED
  BY InitCallInv, NextCallInv, <1>1, <1>2, <1>3, PTL DEF Spec

=============================================================================
