----------------------- MODULE InputInjectionProofs -----------------------
(***************************************************************************)
(* Proofs about module InputInjection, for any number of sockets, any keys *)
(* and any requests.                                                       *)
(***************************************************************************)
EXTENDS InputInjection, SequenceTheorems, TLAPS

-----------------------------------------------------------------------------
(* The inductive invariant.                                                *)

\* A step that injects something, and the calls it takes.
Works(j) == StepOf(j).kind # "delay"
Calls(j) == Batches(StepOf(j))

\* How far a running request may have come: nothing is injected for a step
\* that is not usable, and only a combo or a click goes on after a failure.
Walking(j) ==
    /\ j.req \in Request
    /\ Valid(j.req)
    /\ j.step \in DOMAIN j.req.steps
    /\ Works(j) => j.batch \in DOMAIN Calls(j)
    /\ Works(j) /\ Usable(StepOf(j)) => j.at < Len(Calls(j)[j.batch])
    /\ platform # "macos" => j.at = 0
    /\ j.batch = 1 => j.ok
    /\ j.batch = 2 \/ j.at > 0 => Works(j) /\ Usable(StepOf(j))

Walks == \A s \in Socket : Running(s) => Walking(job[s])

\* The item is down for a request that has its release ahead of it.
Ahead(j, x) ==
    /\ Works(j)
    /\ \/ j.batch = 2 /\ \E k \in DOMAIN Calls(j)[2] : k > j.at /\ Calls(j)[2][k] = Event(x, "up")
       \/ /\ j.batch = 1 /\ j.at > 0 /\ Len(Calls(j)) = 2
          /\ \E k \in DOMAIN Calls(j)[2] : Calls(j)[2][k] = Event(x, "up")

Owes(s, x) == Running(s) /\ Ahead(job[s], x)

\* Whatever is down is a mouse button, stuck, or will be released.
Released == \A x \in down \ Button : x \in stuck \/ \E s \in Socket : Owes(s, x)

\* macOS without Accessibility: the OS takes every event and does nothing.
Deaf == platform = "macos" /\ ~permitted
Quiet == Deaf => down = {}

\* The event at place k of call b for step i has been seen.
SawEvent(view, i, b, k, event) ==
    \E e \in view : /\ e.step = i /\ e.batch = b /\ e.at = k
                    /\ e.item = event.item /\ e.act = event.act

\* Every event of every call of step i.
SawStep(q, view, i) ==
    q.req.steps[i].kind # "delay" =>
        \A b \in DOMAIN Batches(q.req.steps[i]) :
            \A k \in DOMAIN Batches(q.req.steps[i])[b] :
                SawEvent(view, i, b, k, Batches(q.req.steps[i])[b][k])

\* What has been seen of a request on which nothing has failed yet, and of one
\* that has succeeded.
SawSoFar(q, view) ==
    /\ q.answer = "running" =>
         /\ \A i \in DOMAIN q.req.steps : i < q.step => SawStep(q, view, i)
         /\ q.ok /\ Works(q) =>
              /\ \A k \in DOMAIN Calls(q)[q.batch] :
                   k <= q.at => SawEvent(view, q.step, q.batch, k, Calls(q)[q.batch][k])
              /\ q.batch = 2 =>
                   \A k \in DOMAIN Calls(q)[1] :
                      SawEvent(view, q.step, 1, k, Calls(q)[1][k])
    /\ q.answer = "ok" => \A i \in DOMAIN q.req.steps : SawStep(q, view, i)

Seeing == ~Deaf => \A s \in Socket : SawSoFar(job[s], seen[s])

InputInv ==
    TypeOK /\ Walks /\ Quiet /\ Released /\ ModifiersNotLost /\ RefusedLeavesNothing /\ Seeing

-----------------------------------------------------------------------------
(* What a step is and what its backend is given.                           *)

Ev == [item : Item, act : {"down", "up", "move"}]

\* The steps of whatever a socket has asked are steps.
LEMMA StepsTyped ==
    ASSUME NEW r \in Request \cup {NoRequest}
    PROVE  r.steps \in Seq(Step)
<1>1. CASE r \in Request
  BY <1>1, InputAssumption
<1>2. CASE r = NoRequest
  <2>1. r.steps = <<>>
    BY <1>2 DEF NoRequest
  <2> QED BY <2>1, EmptySeq
<1> QED BY <1>1, <1>2

\* A combo of a valid request is valid, also when its turn comes.
LEMMA ValidSteps ==
    ASSUME NEW r \in Request, Valid(r), NEW i \in DOMAIN r.steps
    PROVE  IsCombo(r.steps[i]) => ValidCombo(r.steps[i])
<1>1. SUFFICES ASSUME IsCombo(r.steps[i]) PROVE ValidCombo(r.steps[i])
  OBVIOUS
<1>2. r.op = "key_sequence" \/ (r.op = "key_combo" /\ i = 1)
  BY <1>1, InputAssumption
<1> QED BY <1>1, <1>2 DEF Valid

\* What the fields of a step are, by its kind.
LEMMA StepKinds ==
    ASSUME NEW step \in Step
    PROVE  \/ step.kind = "combo" /\ step.keys \in Seq(Key)
           \/ step.kind = "delay"
           \/ step.kind = "text"
           \/ step.kind = "media" /\ step.command \in Item
           \/ /\ step.kind = "mouse" /\ step.button \in Button
              /\ step.action \in {"move", "click", "down", "up"}
BY DEF Step, Item

\* The codes of a combo are keys of it, the modifiers only if it lists them.
LEMMA CodesTyped ==
    ASSUME NEW step \in Step, IsCombo(step), ValidCombo(step)
    PROVE  /\ Codes(step) \in Seq(Key)
           /\ Len(Codes(step)) > 0
           /\ platform # "macos" => Codes(step) = step.keys
<1>1. step.keys \in Seq(Key) /\ step.keys # <<>>
  BY StepKinds DEF IsCombo, ValidCombo
<1>2. ToSet(step.keys) \subseteq Key
  BY <1>1 DEF ToSet
<1> DEFINE others == ToSet(step.keys) \ Modifier
           one == <<CHOOSE k \in others : TRUE>>
<1>3. CASE platform = "macos" /\ others # {}
  <2>1. (CHOOSE k \in others : TRUE) \in Key
    BY <1>2, <1>3
  <2>2. one \in Seq(Key) /\ Len(one) = 1
    BY <2>1
  <2>3. Codes(step) = one
    BY <1>3 DEF Codes
  <2> QED BY <2>2, <2>3, <1>3
<1>4. CASE ~(platform = "macos" /\ others # {})
  <2>1. Codes(step) = step.keys
    BY <1>4 DEF Codes
  <2> QED BY <2>1, <1>1
<1> QED BY <1>3, <1>4

\* One event for each of the items.
LEMMA EachTyped ==
    ASSUME NEW items \in Seq(Item), NEW act \in {"down", "up", "move"}
    PROVE  /\ Each(items, act) \in Seq(Ev)
           /\ Len(Each(items, act)) = Len(items)
           /\ DOMAIN Each(items, act) = 1..Len(items)
           /\ \A n \in 1..Len(items) : Each(items, act)[n] = Event(items[n], act)
<1>1. DOMAIN items = 1..Len(items) /\ Len(items) \in Nat
  OBVIOUS
<1>2. Each(items, act) = [n \in 1..Len(items) |-> Event(items[n], act)]
  BY <1>1 DEF Each
<1>3. \A n \in 1..Len(items) : Event(items[n], act) \in Ev
  BY DEF Event, Ev
<1> QED BY <1>1, <1>2, <1>3, IsASeq

\* What is reversed has the same items, the first of them last.
LEMMA ReverseTyped ==
    ASSUME NEW items \in Seq(Item)
    PROVE  /\ Reverse(items) \in Seq(Item)
           /\ Len(Reverse(items)) = Len(items)
           /\ \A n \in 1..Len(items) : Reverse(items)[Len(items) - n + 1] = items[n]
<1>1. Len(items) \in Nat /\ \A n \in 1..Len(items) : items[n] \in Item
  OBVIOUS
<1>2. \A n \in 1..Len(items) : (Len(items) - n) + 1 \in 1..Len(items)
  BY <1>1
<1>3. Reverse(items) = [n \in 1..Len(items) |-> items[(Len(items) - n) + 1]]
  BY DEF Reverse
<1>4. Reverse(items) \in Seq(Item) /\ Len(Reverse(items)) = Len(items)
  BY <1>1, <1>2, <1>3, IsASeq
<1>5. ASSUME NEW n \in 1..Len(items)
      PROVE  Reverse(items)[Len(items) - n + 1] = items[n]
  <2>1. (Len(items) - (Len(items) - n + 1)) + 1 = n
    BY <1>1
  <2> QED BY <1>2, <1>3, <2>1
<1> QED BY <1>4, <1>5

\* A step that a backend may be asked for.
Callable(step) ==
    /\ step \in Step
    /\ step.kind # "delay"
    /\ IsCombo(step) => ValidCombo(step)

\* A combo is pressed in one call and released in another.
LEMMA ComboCalls ==
    ASSUME NEW step, Callable(step), IsCombo(step)
    PROVE  /\ Batches(step) \in Seq(Seq(Ev))
           /\ Len(Batches(step)) = 2
           /\ Len(Batches(step)[1]) > 0 /\ Len(Batches(step)[2]) > 0
           /\ \A k \in DOMAIN Batches(step)[1] :
                /\ Batches(step)[1][k] = Event(Codes(step)[k], "down")
                /\ \E l \in DOMAIN Batches(step)[2] :
                     Batches(step)[2][l] = Event(Codes(step)[k], "up")
           /\ \A l \in DOMAIN Batches(step)[2] : Batches(step)[2][l].act = "up"
           /\ DOMAIN Batches(step)[1] = DOMAIN Codes(step)
<1> DEFINE codes == Codes(step)
           press == Each(codes, "down")
           release == Each(Reverse(codes), "up")
<1>1. Batches(step) = <<press, release>>
  BY DEF Batches
<1>2. codes \in Seq(Item) /\ Len(codes) > 0
  <2>1. codes \in Seq(Key) /\ Len(codes) > 0
    BY CodesTyped DEF Callable
  <2>2. Key \subseteq Item
    BY DEF Item
  <2> QED BY <2>1, <2>2, SeqMonotonic
<1> HIDE DEF codes
<1>3. /\ Reverse(codes) \in Seq(Item) /\ Len(Reverse(codes)) = Len(codes)
      /\ \A n \in 1..Len(codes) : Reverse(codes)[Len(codes) - n + 1] = codes[n]
  BY <1>2, ReverseTyped
<1>4. /\ press \in Seq(Ev) /\ Len(press) = Len(codes) /\ DOMAIN press = 1..Len(codes)
      /\ \A n \in 1..Len(codes) : press[n] = Event(codes[n], "down")
  BY <1>2, EachTyped
<1>5. /\ release \in Seq(Ev) /\ Len(release) = Len(codes) /\ DOMAIN release = 1..Len(codes)
      /\ \A n \in 1..Len(codes) : release[n] = Event(Reverse(codes)[n], "up")
  BY <1>2, <1>3, EachTyped
<1> HIDE DEF press, release
<1>6. ASSUME NEW k \in 1..Len(codes)
      PROVE  \E l \in 1..Len(codes) : release[l] = Event(codes[k], "up")
  <2>1. Len(codes) - k + 1 \in 1..Len(codes)
    BY <1>2
  <2> QED BY <2>1, <1>3, <1>5
<1>7. \A l \in 1..Len(codes) : release[l].act = "up"
  BY <1>5 DEF Event
<1>8. DOMAIN codes = 1..Len(codes)
  BY <1>2
<1>9. /\ Batches(step) \in Seq(Seq(Ev)) /\ Len(Batches(step)) = 2
      /\ Batches(step)[1] = press /\ Batches(step)[2] = release
  BY <1>1, <1>4, <1>5
<1> QED BY <1>2, <1>4, <1>5, <1>6, <1>7, <1>8, <1>9 DEF codes

\* One event, one tap in a call, or a press and its release in two calls.
LEMMA OtherCalls ==
    ASSUME NEW step, Callable(step), ~IsCombo(step)
    PROVE  \/ \E x \in Item : /\ platform = "macos"
                              /\ Batches(step) = << <<Event(x, "down")>>, <<Event(x, "up")>> >>
           \/ \E x \in Item : /\ platform # "macos"
                              /\ Batches(step) = << <<Event(x, "down"), Event(x, "up")>> >>
           \/ \E x \in Item, act \in {"down", "up", "move"} :
                /\ Batches(step) = << <<Event(x, act)>> >>
                /\ act = "down" => x \in Button
<1>1. /\ step.kind # "delay" /\ step.kind # "combo" /\ step \in Step
      /\ "text" \in Item /\ "pointer" \in Item /\ Button \subseteq Item
  BY DEF Callable, IsCombo, Item
<1>2. \A x \in Item : Batches(step) = TapOf(x) =>
         \/ platform = "macos" /\ Batches(step) = << <<Event(x, "down")>>, <<Event(x, "up")>> >>
         \/ platform # "macos" /\ Batches(step) = << <<Event(x, "down"), Event(x, "up")>> >>
  BY DEF TapOf
<1>3. CASE step.kind = "text"
  <2>1. Batches(step) = TapOf("text")
    BY <1>3 DEF Batches, IsCombo
  <2> QED BY <1>1, <1>2, <2>1
<1>4. CASE step.kind = "media" /\ step.command \in Item
  <2>1. Batches(step) = TapOf(step.command)
    BY <1>4 DEF Batches, IsCombo
  <2> QED BY <1>4, <1>2, <2>1
<1>5. CASE /\ step.kind = "mouse" /\ step.button \in Button
           /\ step.action \in {"move", "click", "down", "up"}
  <2>1. CASE step.action = "click"
    <3>1. Batches(step) = TapOf(step.button)
      BY <1>5, <2>1 DEF Batches, IsCombo
    <3> QED BY <1>1, <1>5, <1>2, <3>1
  <2>2. CASE step.action = "move"
    <3>1. Batches(step) = << <<Event("pointer", "move")>> >>
      BY <1>5, <2>2 DEF Batches, IsCombo
    <3> QED BY <1>1, <3>1
  <2>3. CASE step.action \in {"down", "up"}
    <3>1. Batches(step) = << <<Event(step.button, step.action)>> >>
      BY <1>5, <2>3 DEF Batches, IsCombo
    <3> QED BY <1>1, <1>5, <2>3, <3>1
  <2> QED BY <1>5, <2>1, <2>2, <2>3
<1> QED BY <1>1, <1>3, <1>4, <1>5, StepKinds

\* What the proofs use of the calls of a step.
LEMMA CallsOf ==
    ASSUME NEW step, Callable(step)
    PROVE  /\ Batches(step) \in Seq(Seq(Ev))
           /\ Len(Batches(step)) \in {1, 2}
           /\ \A b \in DOMAIN Batches(step) : Len(Batches(step)[b]) > 0
           /\ Len(Batches(step)) = 2 =>
                /\ \A k \in DOMAIN Batches(step)[1] :
                     /\ Batches(step)[1][k].act = "down"
                     /\ \E l \in DOMAIN Batches(step)[2] :
                          Batches(step)[2][l] = Event(Batches(step)[1][k].item, "up")
                /\ \A l \in DOMAIN Batches(step)[2] : Batches(step)[2][l].act = "up"
                /\ IsCombo(step) \/ (platform = "macos" /\ Len(Batches(step)[1]) = 1)
           /\ Len(Batches(step)) = 1 =>
                /\ platform = "macos" => Len(Batches(step)[1]) = 1
                /\ \A k \in DOMAIN Batches(step)[1] :
                     Batches(step)[1][k].act = "down" /\ Batches(step)[1][k].item \notin Button
                       => /\ k = 1 /\ Len(Batches(step)[1]) = 2
                          /\ Batches(step)[1][2] = Event(Batches(step)[1][1].item, "up")
<1> DEFINE calls == Batches(step)
<1>1. CASE IsCombo(step)
  <2>1. /\ calls \in Seq(Seq(Ev)) /\ Len(calls) = 2
        /\ Len(calls[1]) > 0 /\ Len(calls[2]) > 0
        /\ \A k \in DOMAIN calls[1] :
             /\ calls[1][k] = Event(Codes(step)[k], "down")
             /\ \E l \in DOMAIN calls[2] : calls[2][l] = Event(Codes(step)[k], "up")
        /\ \A l \in DOMAIN calls[2] : calls[2][l].act = "up"
    BY <1>1, ComboCalls
  <2>2. \A k \in DOMAIN calls[1] :
             calls[1][k].act = "down" /\ calls[1][k].item = Codes(step)[k]
    <3>1. \A x : Event(x, "down").act = "down" /\ Event(x, "down").item = x
      BY DEF Event
    <3> HIDE DEF calls
    <3> QED BY <2>1, <3>1
  <2>3. DOMAIN calls = {1, 2}
    BY <2>1
  <2> HIDE DEF calls
  <2> QED BY <2>1, <2>2, <2>3, <1>1 DEF calls
<1>2. CASE ~IsCombo(step)
  <2>1. ASSUME NEW x \in Item, platform = "macos",
               calls = << <<Event(x, "down")>>, <<Event(x, "up")>> >>
        PROVE  /\ calls \in Seq(Seq(Ev)) /\ Len(calls) = 2 /\ DOMAIN calls = {1, 2}
               /\ Len(calls[1]) = 1 /\ Len(calls[2]) = 1
               /\ DOMAIN calls[1] = {1} /\ DOMAIN calls[2] = {1}
               /\ calls[1][1] = Event(x, "down") /\ calls[2][1] = Event(x, "up")
    <3>1. Event(x, "down") \in Ev /\ Event(x, "up") \in Ev
      BY DEF Event, Ev
    <3> QED BY <3>1, <2>1
  <2>2. ASSUME NEW x \in Item, platform # "macos",
               calls = << <<Event(x, "down"), Event(x, "up")>> >>
        PROVE  /\ calls \in Seq(Seq(Ev)) /\ Len(calls) = 1 /\ DOMAIN calls = {1}
               /\ Len(calls[1]) = 2 /\ DOMAIN calls[1] = {1, 2}
               /\ calls[1][1] = Event(x, "down") /\ calls[1][2] = Event(x, "up")
    <3>1. Event(x, "down") \in Ev /\ Event(x, "up") \in Ev
      BY DEF Event, Ev
    <3> QED BY <3>1, <2>2
  <2>3. ASSUME NEW x \in Item, NEW act \in {"down", "up", "move"},
               calls = << <<Event(x, act)>> >>
        PROVE  /\ calls \in Seq(Seq(Ev)) /\ Len(calls) = 1 /\ DOMAIN calls = {1}
               /\ Len(calls[1]) = 1 /\ DOMAIN calls[1] = {1} /\ calls[1][1] = Event(x, act)
    <3>1. Event(x, act) \in Ev
      BY DEF Event, Ev
    <3> QED BY <3>1, <2>3
  <2>4. \A x \in Item, act \in {"down", "up", "move"} :
           Event(x, act).item = x /\ Event(x, act).act = act
    BY DEF Event
  <2>5. CASE \E x \in Item : /\ platform = "macos"
                             /\ calls = << <<Event(x, "down")>>, <<Event(x, "up")>> >>
    <3> PICK x \in Item : /\ platform = "macos"
                          /\ calls = << <<Event(x, "down")>>, <<Event(x, "up")>> >>
      BY <2>5
    <3> HIDE DEF calls
    <3> QED BY <2>1, <2>4 DEF calls
  <2>6. CASE \E x \in Item : /\ platform # "macos"
                             /\ calls = << <<Event(x, "down"), Event(x, "up")>> >>
    <3> PICK x \in Item : /\ platform # "macos"
                          /\ calls = << <<Event(x, "down"), Event(x, "up")>> >>
      BY <2>6
    <3> HIDE DEF calls
    <3> QED BY <2>2, <2>4 DEF calls
  <2>7. CASE \E x \in Item, act \in {"down", "up", "move"} :
                /\ calls = << <<Event(x, act)>> >>
                /\ act = "down" => x \in Button
    <3> PICK x \in Item, act \in {"down", "up", "move"} :
                /\ calls = << <<Event(x, act)>> >>
                /\ act = "down" => x \in Button
      BY <2>7
    <3> HIDE DEF calls
    <3> QED BY <2>3, <2>4 DEF calls
  <2> QED BY <1>2, <2>5, <2>6, <2>7, OtherCalls
<1> QED BY <1>1, <1>2

-----------------------------------------------------------------------------
(* How a job moves on.                                                     *)

\* A running job is at a step of its request, which its backend may be asked for.
LEMMA WalkingStep ==
    ASSUME NEW j \in Job, Walking(j)
    PROVE  /\ j.req.steps \in Seq(Step)
           /\ j.step \in Nat /\ 1 <= j.step /\ j.step <= Len(j.req.steps)
           /\ Len(j.req.steps) \in Nat
           /\ Works(j) => Callable(StepOf(j))
<1>1. j.req \in Request /\ j.step \in DOMAIN j.req.steps /\ Valid(j.req)
  BY DEF Walking
<1>2. j.req.steps \in Seq(Step)
  BY <1>1, StepsTyped
<1>3. j.req.steps[j.step] \in Step
  BY <1>1, <1>2
<1>4. IsCombo(j.req.steps[j.step]) => ValidCombo(j.req.steps[j.step])
  BY <1>1, ValidSteps
<1>5. Works(j) => Callable(StepOf(j))
  BY <1>3, <1>4 DEF Works, StepOf, Callable
<1>6. j.step \in Nat /\ 1 <= j.step /\ j.step <= Len(j.req.steps) /\ Len(j.req.steps) \in Nat
  BY <1>1, <1>2
<1> QED BY <1>2, <1>5, <1>6

\* A job that has just come to a step.
LEMMA FreshWalks ==
    ASSUME NEW j \in Job, j.req \in Request, Valid(j.req), j.step \in DOMAIN j.req.steps,
           j.batch = 1, j.at = 0, j.ok
    PROVE  Walking(j)
<1>1. j.req.steps \in Seq(Step)
  BY StepsTyped
<1>2. ASSUME Works(j) PROVE 1 \in DOMAIN Calls(j) /\ Len(Calls(j)[1]) > 0
  <2>1. Callable(StepOf(j))
    BY <1>1, <1>2, ValidSteps DEF Callable, Works, StepOf
  <2>2. /\ Calls(j) \in Seq(Seq(Ev)) /\ Len(Calls(j)) \in {1, 2}
        /\ \A b \in DOMAIN Calls(j) : Len(Calls(j)[b]) > 0
    BY <2>1, CallsOf DEF Calls
  <2>3. 1 \in DOMAIN Calls(j)
    BY <2>2
  <2> QED BY <2>2, <2>3
<1> QED BY <1>2 DEF Walking

MoveTo(j, st, b) == [j EXCEPT !.step = st, !.batch = b, !.at = 0]
AnswerTo(j, a) == [j EXCEPT !.answer = a]

\* A job at another step, or at the second call of its own.
LEMMA Moved ==
    ASSUME NEW j \in Job, NEW st \in Nat, NEW b, b = 1 \/ b = 2, NEW r,
           r = MoveTo(j, st, b)
    PROVE  /\ r \in Job /\ r.req = j.req /\ r.step = st /\ r.batch = b /\ r.at = 0
           /\ r.ok = j.ok /\ r.answer = j.answer
<1>1. r = [req |-> j.req, step |-> st, batch |-> b, at |-> 0, ok |-> j.ok, answer |-> j.answer]
  BY DEF Job, MoveTo
<1>2. j.req \in Request \cup {NoRequest} /\ j.ok \in BOOLEAN /\ j.answer \in Answer
  BY DEF Job
<1>3. r \in Job
  BY <1>1, <1>2 DEF Job
<1> QED BY <1>1, <1>3

\* A job that is answered.
LEMMA AnsweredWith ==
    ASSUME NEW j \in Job, NEW a \in Answer, NEW r, r = AnswerTo(j, a)
    PROVE  /\ r \in Job /\ r.req = j.req /\ r.step = j.step /\ r.batch = j.batch
           /\ r.at = j.at /\ r.ok = j.ok /\ r.answer = a
<1>1. r = [req |-> j.req, step |-> j.step, batch |-> j.batch, at |-> j.at, ok |-> j.ok,
           answer |-> a]
  BY DEF Job, AnswerTo
<1>2. /\ j.req \in Request \cup {NoRequest} /\ j.step \in Nat /\ j.batch \in {1, 2}
      /\ j.at \in Nat /\ j.ok \in BOOLEAN
  BY DEF Job
<1>3. r \in Job
  BY <1>1, <1>2 DEF Job
<1> QED BY <1>1, <1>3

\* The next step, or the answer.
Advances(j, r) ==
    /\ r \in Job /\ r.req = j.req
    /\ \/ /\ j.ok /\ j.step < Len(j.req.steps) /\ r.answer = j.answer
          /\ r.step = j.step + 1 /\ r.batch = 1 /\ r.at = 0 /\ r.ok = j.ok
       \/ j.ok /\ j.step = Len(j.req.steps) /\ r.answer = "ok" /\ r.step = j.step
       \/ ~j.ok /\ r.answer = "injection_failed" /\ r.step = j.step

\* What Advance makes of a job.
LEMMA AdvanceIs ==
    ASSUME NEW j \in Job, j.step <= Len(j.req.steps), Len(j.req.steps) \in Nat
    PROVE  Advances(j, Advance(j))
<1> DEFINE r == Advance(j)
<1>1. j.step \in Nat /\ {"ok", "injection_failed"} \subseteq Answer
  BY DEF Job, Answer
<1>2. CASE ~j.ok
  <2>1. r = AnswerTo(j, "injection_failed")
    BY <1>2 DEF Advance, AnswerTo
  <2>2. r \in Job /\ r.req = j.req /\ r.answer = "injection_failed" /\ r.step = j.step
    BY <1>1, <2>1, AnsweredWith
  <2> QED BY <1>2, <2>2 DEF Advances
<1>3. CASE j.ok /\ j.step < Len(j.req.steps)
  <2>1. r = MoveTo(j, j.step + 1, 1)
    BY <1>3 DEF Advance, MoveTo, Job
  <2>2. /\ r \in Job /\ r.req = j.req /\ r.answer = j.answer /\ r.step = j.step + 1
        /\ r.batch = 1 /\ r.at = 0 /\ r.ok = j.ok
    BY <1>1, <2>1, Moved
  <2> QED BY <1>3, <2>2 DEF Advances
<1>4. CASE j.ok /\ ~(j.step < Len(j.req.steps))
  <2>1. r = AnswerTo(j, "ok")
    BY <1>4 DEF Advance, AnswerTo
  <2>2. r \in Job /\ r.req = j.req /\ r.answer = "ok" /\ r.step = j.step
    BY <1>1, <2>1, AnsweredWith
  <2>3. j.step = Len(j.req.steps)
    BY <1>1, <1>4
  <2> QED BY <1>4, <2>2, <2>3 DEF Advances
<1> QED BY <1>2, <1>3, <1>4

\* After a call: the release, the next step, or the answer.
Ends(j, r) ==
    /\ r \in Job /\ r.req = j.req
    /\ \/ /\ j.batch = 1 /\ Len(Calls(j)) = 2 /\ r.answer = j.answer
          /\ r.step = j.step /\ r.batch = 2 /\ r.at = 0 /\ r.ok = j.ok
       \/ /\ j.ok /\ j.batch = Len(Calls(j))
          /\ j.step < Len(j.req.steps) /\ r.answer = j.answer
          /\ r.step = j.step + 1 /\ r.batch = 1 /\ r.at = 0 /\ r.ok = TRUE
       \/ /\ j.ok /\ j.batch = Len(Calls(j))
          /\ j.step = Len(j.req.steps) /\ r.answer = "ok" /\ r.step = j.step
       \/ /\ ~j.ok /\ ~(j.batch < Len(Calls(j)) /\ ReleasesAnyway(StepOf(j)))
          /\ r.answer = "injection_failed" /\ r.step = j.step

\* What EndBatch makes of a job that differs from a walking one in how far its
\* call has come.
LEMMA EndBatchIs ==
    ASSUME NEW j \in Job, Walking(j), Works(j), NEW q \in Job,
           q.req = j.req, q.step = j.step, q.batch = j.batch, q.answer = j.answer
    PROVE  Ends(q, EndBatch(q))
<1> DEFINE r == EndBatch(q)
<1>1. Calls(q) = Calls(j) /\ StepOf(q) = StepOf(j) /\ Works(q)
  BY DEF Calls, StepOf, Works
<1>2. /\ Len(Calls(q)) \in {1, 2} /\ q.batch \in 1..Len(Calls(q))
  <2>1. Callable(StepOf(j))
    BY WalkingStep
  <2>2. Calls(j) \in Seq(Seq(Ev)) /\ Len(Calls(j)) \in {1, 2}
    BY <2>1, CallsOf DEF Calls
  <2>3. j.batch \in DOMAIN Calls(j)
    BY DEF Walking
  <2> QED BY <1>1, <2>2, <2>3
<1>3. /\ q.step \in Nat /\ 1 <= q.step /\ q.step <= Len(q.req.steps)
      /\ Len(q.req.steps) \in Nat
  BY WalkingStep
<1>4. CASE q.batch < Len(Calls(q)) /\ (q.ok \/ ReleasesAnyway(StepOf(q)))
  <2>1. r = MoveTo(q, q.step, 2)
    BY <1>4 DEF EndBatch, Calls, MoveTo, Job
  <2>2. /\ r \in Job /\ r.req = q.req /\ r.answer = q.answer /\ r.step = q.step
        /\ r.batch = 2 /\ r.at = 0 /\ r.ok = q.ok
    BY <1>3, <2>1, Moved
  <2>3. q.batch < Len(Calls(q))
    BY <1>4
  <2>4. q.batch = 1 /\ Len(Calls(q)) = 2
    <3> DEFINE l == Len(Calls(q))
    <3>1. l = 1 \/ l = 2
      BY <1>2
    <3>2. q.batch \in 1..l /\ q.batch < l
      BY <1>2, <2>3
    <3> HIDE DEF l
    <3>3. q.batch = 1 /\ l = 2
      BY <3>1, <3>2
    <3> QED BY <3>3 DEF l
  <2> QED BY <2>2, <2>4 DEF Ends
<1>5. CASE ~(q.batch < Len(Calls(q)) /\ (q.ok \/ ReleasesAnyway(StepOf(q))))
  <2>1. r = Advance(q)
    BY <1>5 DEF EndBatch, Calls
  <2>2. Advances(q, r)
    BY <1>3, <2>1, AdvanceIs
  <2>3. ASSUME q.ok PROVE q.batch = Len(Calls(q)) /\ q.ok = TRUE
    <3>1. ~(q.batch < Len(Calls(q)))
      BY <1>5, <2>3
    <3>2. q.batch = Len(Calls(q))
      BY <1>2, <3>1
    <3> QED BY <2>3, <3>2 DEF Job
  <2> QED BY <1>5, <2>2, <2>3 DEF Advances, Ends
<1> QED BY <1>4, <1>5

-----------------------------------------------------------------------------
(* A call to the OS.                                                       *)

Call(j) == Calls(j)[j.batch]

\* A call that a backend has before it.
LEMMA CallTyped ==
    ASSUME NEW j \in Job, Walking(j), Works(j), Usable(StepOf(j))
    PROVE  /\ Call(j) \in Seq(Ev) /\ Len(Call(j)) \in Nat
           /\ DOMAIN Call(j) = 1..Len(Call(j)) /\ j.at < Len(Call(j))
           /\ j.batch \in DOMAIN Calls(j) /\ Len(Calls(j)) \in {1, 2} /\ j.at \in Nat
           /\ DOMAIN Calls(j) = 1..Len(Calls(j))
<1>1. Callable(StepOf(j))
  BY WalkingStep
<1>2. Calls(j) \in Seq(Seq(Ev)) /\ Len(Calls(j)) \in {1, 2}
  BY <1>1, CallsOf DEF Calls
<1>3. j.batch \in DOMAIN Calls(j)
  BY DEF Walking
<1>4. Call(j) \in Seq(Ev)
  BY <1>2, <1>3 DEF Call
<1>5. Len(Call(j)) \in Nat /\ DOMAIN Call(j) = 1..Len(Call(j))
  BY <1>4
<1>6. j.at < Len(Call(j)) /\ j.at \in Nat
  BY DEF Walking, Call, Job
<1>7. DOMAIN Calls(j) = 1..Len(Calls(j))
  BY <1>2
<1> QED BY <1>2, <1>3, <1>4, <1>5, <1>6, <1>7

\* The rest of the call and the events of the next one to the OS.
LEMMA RestIs ==
    ASSUME NEW j \in Job, Walking(j), Works(j), Usable(StepOf(j))
    PROVE  /\ Rest(j) \in Seq(Ev) /\ Len(Rest(j)) = Len(Call(j)) - j.at
           /\ Len(Rest(j)) \in Nat /\ Len(Rest(j)) > 0
           /\ \A k \in 1..Len(Rest(j)) : Rest(j)[k] = Call(j)[j.at + k]
           /\ NextEvents(j) \in Seq(Ev)
           /\ Len(NextEvents(j)) = IF platform = "macos" THEN 1 ELSE Len(Rest(j))
           /\ \A k \in 1..Len(NextEvents(j)) : NextEvents(j)[k] = Call(j)[j.at + k]
<1> DEFINE call == Call(j)
           rest == Rest(j)
<1>1. call \in Seq(Ev) /\ Len(call) \in Nat /\ j.at < Len(call) /\ j.at \in Nat
  BY CallTyped
<1>2. rest = SubSeq(call, j.at + 1, Len(call))
  BY DEF Rest, Call, Calls
<1>3. \A i \in (j.at + 1)..Len(call) : call[i] \in Ev
  BY <1>1
<1> HIDE DEF call
<1>4. j.at + 1 \in 1..(Len(call) + 1) /\ Len(call) \in (j.at)..Len(call)
  BY <1>1
<1>5. /\ rest \in Seq(Ev) /\ Len(rest) = Len(call) - j.at
      /\ \A k \in 1..Len(rest) : rest[k] = call[j.at + k]
  <2>1. /\ rest \in Seq(Ev)
        /\ Len(rest) = IF j.at + 1 <= Len(call) THEN Len(call) - (j.at + 1) + 1 ELSE 0
        /\ \A i \in 1 .. Len(call) - (j.at + 1) + 1 : rest[i] = call[(j.at + 1) + i - 1]
    BY <1>1, <1>2, <1>4, SubSeqProperties
  <2>2. Len(call) - (j.at + 1) + 1 = Len(call) - j.at /\ j.at + 1 <= Len(call)
    BY <1>1
  <2>3. Len(rest) = Len(call) - j.at
    BY <2>1, <2>2
  <2>4. \A k \in 1..Len(rest) : rest[k] = call[(j.at + 1) + k - 1] /\ (j.at + 1) + k - 1 = j.at + k
    BY <1>1, <2>1, <2>2, <2>3
  <2> QED BY <2>1, <2>3, <2>4
<1>6. Len(rest) \in Nat /\ Len(rest) > 0
  BY <1>1, <1>5
<1> HIDE DEF rest
<1>7. /\ NextEvents(j) \in Seq(Ev)
      /\ Len(NextEvents(j)) = IF platform = "macos" THEN 1 ELSE Len(rest)
      /\ \A k \in 1..Len(NextEvents(j)) : NextEvents(j)[k] = rest[k] /\ k \in 1..Len(rest)
  <2>1. CASE platform = "macos"
    <3>1. NextEvents(j) = <<rest[1]>>
      <4>1. Head(rest) = rest[1]
        BY <1>5, <1>6, HeadTailProperties
      <4> QED BY <2>1, <4>1 DEF NextEvents, rest
    <3>2. rest[1] \in Ev
      BY <1>5, <1>6
    <3>3. NextEvents(j) \in Seq(Ev) /\ Len(NextEvents(j)) = 1 /\ NextEvents(j)[1] = rest[1]
      BY <3>1, <3>2
    <3>4. 1 \in 1..Len(rest) /\ 1..1 = {1}
      BY <1>6
    <3> QED BY <2>1, <3>3, <3>4
  <2>2. CASE platform # "macos"
    <3>1. NextEvents(j) = rest
      BY <2>2 DEF NextEvents, rest
    <3> QED BY <2>2, <3>1, <1>5
  <2> QED BY <2>1, <2>2
<1>8. \A k \in 1..Len(NextEvents(j)) : NextEvents(j)[k] = call[j.at + k]
  BY <1>5, <1>7
<1> QED BY <1>5, <1>6, <1>7, <1>8 DEF call, rest

\* Where a job stands when the OS has taken n events of its call: further on in
\* the call, at its release, at the next step, or answered.
Outcome(j, r, n) ==
    /\ r \in Job /\ r.req = j.req
    /\ \/ /\ platform = "macos" /\ n = 1 /\ j.at + n < Len(Call(j)) /\ r.answer = j.answer
          /\ r.step = j.step /\ r.batch = j.batch /\ r.at = j.at + 1 /\ r.ok = j.ok
       \/ /\ n = Len(NextEvents(j)) => j.at + n = Len(Call(j))
          /\ \/ /\ j.batch = 1 /\ Len(Calls(j)) = 2 /\ r.answer = j.answer
                /\ r.step = j.step /\ r.batch = 2 /\ r.at = 0
                /\ r.ok => j.ok /\ n = Len(NextEvents(j))
             \/ /\ j.ok /\ n = Len(NextEvents(j)) /\ j.batch = Len(Calls(j))
                /\ j.step < Len(j.req.steps) /\ r.answer = j.answer
                /\ r.step = j.step + 1 /\ r.batch = 1 /\ r.at = 0 /\ r.ok
             \/ /\ j.ok /\ n = Len(NextEvents(j)) /\ j.batch = Len(Calls(j))
                /\ j.step = Len(j.req.steps) /\ r.answer = "ok" /\ r.step = j.step
             \/ /\ ~(j.ok /\ n = Len(NextEvents(j)))
                /\ ~(j.batch < Len(Calls(j)) /\ ReleasesAnyway(StepOf(j)))
                /\ r.answer = "injection_failed" /\ r.step = j.step

\* What Post does to a socket that is walking, event by event.
Posted(s, n, taken) ==
    /\ n \in Nat /\ n <= Len(NextEvents(job[s])) /\ job[s].at + n <= Len(Call(job[s]))
    /\ taken \in Seq(Ev) /\ Len(taken) \in Nat /\ Len(taken) <= n
    /\ \A k \in 1..Len(taken) : taken[k] = Call(job[s])[job[s].at + k]
    /\ IF Deaf THEN Len(taken) = 0 ELSE Len(taken) = n
    /\ down' = Applied(taken, down)
    /\ stuck' \subseteq down'
    /\ \A x \in down' :
         \/ /\ x \in stuck
            /\ \A k \in 1..Len(taken) : taken[k].item = x => taken[k].act # "down"
         \/ /\ n < Len(NextEvents(job[s]))
            /\ \E k \in DOMAIN Call(job[s]) :
                 k > job[s].at + n /\ Call(job[s])[k] = Event(x, "up")
         => x \in stuck'
    /\ seen' = [seen EXCEPT ![s] = @ \cup Sightings(job[s], taken)]
    /\ job' = [job EXCEPT ![s] = job'[s]]
    /\ Outcome(job[s], job'[s], n)

\* A job on which a call has failed.
LEMMA OkSet ==
    ASSUME NEW j \in Job, NEW o
    PROVE  [j EXCEPT !.ok = o] = [req |-> j.req, step |-> j.step, batch |-> j.batch,
                                  at |-> j.at, ok |-> o, answer |-> j.answer]
BY DEF Job

\* Where Taken leaves a job.
LEMMA TakenOutcome ==
    ASSUME NEW j \in Job, Walking(j), Works(j), Usable(StepOf(j)),
           NEW n \in 0..Len(NextEvents(j)), NEW more, more = [j EXCEPT !.at = @ + n],
           NEW r, r = IF n # Len(NextEvents(j)) THEN EndBatch(Failed(j))
                      ELSE IF more.at = Len(Call(j)) THEN EndBatch(more) ELSE more
    PROVE  Outcome(j, r, n)
<1> DEFINE failed == Failed(j)
<1>1. /\ Call(j) \in Seq(Ev) /\ Len(Call(j)) \in Nat /\ j.at \in Nat /\ j.at < Len(Call(j))
  BY CallTyped
<1>2. /\ Len(NextEvents(j)) \in Nat /\ Len(NextEvents(j)) > 0
      /\ Len(NextEvents(j)) = IF platform = "macos" THEN 1 ELSE Len(Call(j)) - j.at
  <2>1. /\ Len(NextEvents(j)) = IF platform = "macos" THEN 1 ELSE Len(Rest(j))
        /\ Len(Rest(j)) = Len(Call(j)) - j.at /\ Len(Rest(j)) \in Nat /\ Len(Rest(j)) > 0
    BY RestIs
  <2>2. CASE platform = "macos"
    BY <2>1, <2>2
  <2>3. CASE platform # "macos"
    BY <2>1, <2>3
  <2> QED BY <2>2, <2>3
<1>3. n \in Nat /\ n <= Len(NextEvents(j))
  BY <1>2
<1>4. CASE n # Len(NextEvents(j))
  <2>1. failed = [req |-> j.req, step |-> j.step, batch |-> j.batch, at |-> j.at,
                  ok |-> FALSE, answer |-> j.answer]
    BY OkSet DEF Failed
  <2>2. /\ j.req \in Request \cup {NoRequest} /\ j.step \in Nat /\ j.batch \in {1, 2}
        /\ j.at \in Nat /\ j.answer \in Answer
    BY DEF Job
  <2>3. failed \in Job
    BY <2>1, <2>2 DEF Job
  <2>4. /\ failed.req = j.req /\ failed.step = j.step /\ failed.batch = j.batch
        /\ failed.answer = j.answer /\ failed.ok = FALSE
    BY <2>1
  <2> HIDE DEF failed
  <2>5. Ends(failed, EndBatch(failed))
    BY <2>3, <2>4, EndBatchIs
  <2>6. r = EndBatch(failed)
    BY <1>4 DEF failed
  <2>7. Calls(failed) = Calls(j) /\ StepOf(failed) = StepOf(j)
    BY <2>4 DEF Calls, StepOf
  <2>8. Ends(failed, r)
    BY <2>5, <2>6
  <2>9. /\ r \in Job /\ r.req = j.req
        /\ \/ /\ j.batch = 1 /\ Len(Calls(j)) = 2 /\ r.answer = j.answer
              /\ r.step = j.step /\ r.batch = 2 /\ r.at = 0 /\ r.ok = FALSE
           \/ /\ ~(j.batch < Len(Calls(j)) /\ ReleasesAnyway(StepOf(j)))
              /\ r.answer = "injection_failed" /\ r.step = j.step
    BY <2>4, <2>7, <2>8 DEF Ends
  <2> QED BY <1>4, <2>9 DEF Outcome
<1>5. CASE n = Len(NextEvents(j))
  <2>1. more = [req |-> j.req, step |-> j.step, batch |-> j.batch, at |-> j.at + n,
                ok |-> j.ok, answer |-> j.answer]
    BY DEF Job
  <2>2. /\ j.req \in Request \cup {NoRequest} /\ j.step \in Nat /\ j.batch \in {1, 2}
        /\ j.ok \in BOOLEAN /\ j.answer \in Answer
    BY DEF Job
  <2>3. j.at + n \in Nat
    BY <1>1, <1>3
  <2>4. more \in Job
    BY <2>1, <2>2, <2>3 DEF Job
  <2>5. /\ more.req = j.req /\ more.step = j.step /\ more.batch = j.batch
        /\ more.at = j.at + n /\ more.answer = j.answer /\ more.ok = j.ok
    BY <2>1
  <2>6. CASE more.at = Len(Call(j))
    <3>1. Ends(more, EndBatch(more))
      BY <2>4, <2>5, EndBatchIs
    <3>2. r = EndBatch(more)
      BY <1>5, <2>6
    <3>3. Calls(more) = Calls(j) /\ StepOf(more) = StepOf(j)
      BY <2>5 DEF Calls, StepOf
    <3>4. Ends(more, r)
      BY <3>1, <3>2
    <3>5. Ends(j, r)
      BY <2>5, <3>3, <3>4 DEF Ends
    <3>6. j.at + n = Len(Call(j))
      BY <2>5, <2>6
    <3> QED BY <1>5, <3>5, <3>6 DEF Ends, Outcome
  <2>7. CASE more.at # Len(Call(j))
    <3>1. r = more
      BY <1>5, <2>7
    <3>2. platform = "macos" /\ n = 1 /\ j.at + n < Len(Call(j))
      BY <1>1, <1>2, <1>5, <2>5, <2>7
    <3> QED BY <3>1, <3>2, <2>4, <2>5 DEF Outcome
  <2> QED BY <2>6, <2>7
<1> QED BY <1>4, <1>5

\* The fields of an event.
LEMMA EventIs == \A x, act : Event(x, act).item = x /\ Event(x, act).act = act
BY DEF Event

\* Event k of a call of c events is event k - a of those that follow the first a.
LEMMA Further ==
    ASSUME NEW a \in Nat, NEW n \in Nat, NEW k \in Nat, NEW c \in Nat, k > a + n, k <= c
    PROVE  /\ n + 1 <= c - a /\ c - a \in Nat
           /\ k - a \in (n + 1)..(c - a) /\ k - a \in 1..(c - a) /\ a + (k - a) = k
           /\ k - a - n \in 1..((c - a) - (n + 1) + 1)
           /\ (n + 1) + (k - a - n) - 1 = k - a
OBVIOUS

\* The items of a sequence of events.
LEMMA ItemsOfSeq ==
    ASSUME NEW events \in Seq(Ev), NEW act, NEW x
    PROVE  x \in ItemsOf(events, act) <=>
             \E k \in 1..Len(events) : events[k].item = x /\ events[k].act = act
<1>1. DOMAIN events = 1..Len(events)
  OBVIOUS
<1> QED BY <1>1 DEF ItemsOf, ToSet

\* Every Post is one of these.
LEMMA PostIs ==
    ASSUME TypeOK, NEW s \in Socket, Walking(job[s]), Post(s)
    PROVE  \E n, taken : Posted(s, n, taken)
<1> DEFINE j == job[s]
           events == NextEvents(j)
<1>1. /\ Running(s) /\ StepOf(j).kind # "delay" /\ Usable(StepOf(j))
      /\ \E n \in 0..Len(events) : Taken(s, n)
  BY DEF Post
<1>2. PICK n \in 0..Len(events) : Taken(s, n)
  BY <1>1
<1>3. j \in Job /\ Works(j)
  BY <1>1 DEF TypeOK, Works
<1>4. /\ Call(j) \in Seq(Ev) /\ Len(Call(j)) \in Nat /\ DOMAIN Call(j) = 1..Len(Call(j))
      /\ j.at \in Nat /\ j.at < Len(Call(j))
  BY <1>1, <1>3, CallTyped
<1>5. /\ Rest(j) \in Seq(Ev) /\ Len(Rest(j)) = Len(Call(j)) - j.at /\ Len(Rest(j)) \in Nat
      /\ Len(Rest(j)) > 0
      /\ \A k \in 1..Len(Rest(j)) : Rest(j)[k] = Call(j)[j.at + k]
      /\ events \in Seq(Ev)
      /\ Len(events) = IF platform = "macos" THEN 1 ELSE Len(Rest(j))
      /\ \A k \in 1..Len(events) : events[k] = Call(j)[j.at + k]
  BY <1>1, <1>3, RestIs
<1>6. Len(events) \in Nat /\ Len(events) <= Len(Rest(j))
  <2>1. CASE platform = "macos"
    BY <2>1, <1>5
  <2>2. CASE platform # "macos"
    BY <2>2, <1>5
  <2> QED BY <2>1, <2>2
<1>7. n \in Nat /\ n <= Len(events) /\ j.at + n <= Len(Call(j))
  <2>1. n \in Nat /\ n <= Len(events)
    BY <1>6
  <2>2. j.at + n <= Len(Call(j))
    BY <2>1, <1>6, <1>4, <1>5
  <2> QED BY <2>1, <2>2
<1> DEFINE taken == IF Deaf THEN <<>> ELSE SubSeq(events, 1, n)
           whole == n = Len(events)
           more == [j EXCEPT !.at = @ + n]
           lost == SubSeq(Rest(j), n + 1, Len(Rest(j)))
           r == IF ~whole THEN EndBatch(Failed(j))
                ELSE IF more.at = Len(Call(j)) THEN EndBatch(more) ELSE more
<1>8. /\ down' = Applied(taken, down)
      /\ stuck' = down' \cap ((stuck \ ItemsOf(taken, "down"))
                              \cup (IF whole THEN {} ELSE ItemsOf(lost, "up")))
      /\ seen' = [seen EXCEPT ![s] = @ \cup Sightings(j, taken)]
      /\ job' = [job EXCEPT ![s] = r]
  BY <1>2 DEF Taken, Deaf, Call, Calls
<1>9. /\ taken \in Seq(Ev) /\ Len(taken) \in Nat /\ Len(taken) <= n
      /\ \A k \in 1..Len(taken) : taken[k] = Call(j)[j.at + k]
      /\ IF Deaf THEN Len(taken) = 0 ELSE Len(taken) = n
  <2>1. CASE Deaf
    <3>1. taken = <<>>
      BY <2>1
    <3> HIDE DEF taken
    <3>2. taken \in Seq(Ev) /\ Len(taken) = 0
      BY <3>1
    <3>3. 1..0 = {}
      OBVIOUS
    <3> QED BY <3>2, <3>3, <2>1, <1>7
  <2>2. CASE ~Deaf
    <3>1. taken = SubSeq(events, 1, n)
      BY <2>2
    <3> HIDE DEF taken
    <3>2. \A i \in 1..n : events[i] \in Ev
      BY <1>5, <1>6, <1>7
    <3> HIDE DEF events
    <3>3. /\ taken \in Seq(Ev)
          /\ Len(taken) = IF 1 <= n THEN n - 1 + 1 ELSE 0
          /\ \A i \in 1 .. n - 1 + 1 : taken[i] = events[1 + i - 1]
      BY <3>1, <3>2, <1>7, SubSeqProperties
    <3>4. Len(taken) = n
      BY <3>3, <1>7
    <3>5. \A k \in 1..Len(taken) : taken[k] = events[k] /\ k \in 1..Len(events)
      BY <3>3, <3>4, <1>6, <1>7
    <3> USE DEF events
    <3> QED BY <3>3, <3>4, <3>5, <2>2, <1>5, <1>7
  <2> QED BY <2>1, <2>2
<1> HIDE DEF taken, events
<1>10. ASSUME NEW x, NEW k \in DOMAIN Call(j), k > j.at + n, Call(j)[k] = Event(x, "up")
       PROVE  x \in ItemsOf(lost, "up")
  <2> DEFINE l == Len(Rest(j))
  <2>1. k \in Nat /\ k <= Len(Call(j)) /\ l = Len(Call(j)) - j.at
    BY <1>4, <1>5
  <2>2. /\ n + 1 <= l /\ l \in Nat
        /\ k - j.at \in (n + 1)..l /\ k - j.at \in 1..l /\ j.at + (k - j.at) = k
        /\ k - j.at - n \in 1..(l - (n + 1) + 1)
        /\ (n + 1) + (k - j.at - n) - 1 = k - j.at
    <3> DEFINE a == j.at
               c == Len(Call(j))
    <3>1. a \in Nat /\ n \in Nat /\ k \in Nat /\ c \in Nat /\ k > a + n /\ k <= c
      BY <2>1, <1>4, <1>7, <1>10
    <3>2. l = c - a
      BY <2>1
    <3> HIDE DEF a, c, l
    <3>3. /\ n + 1 <= l /\ l \in Nat
          /\ k - a \in (n + 1)..l /\ k - a \in 1..l /\ a + (k - a) = k
          /\ k - a - n \in 1..(l - (n + 1) + 1)
          /\ (n + 1) + (k - a - n) - 1 = k - a
      BY <3>1, <3>2, Further
    <3> QED BY <3>3 DEF a
  <2>3. \A i \in (n + 1)..l : Rest(j)[i] \in Ev
    BY <1>5, <1>7
  <2>4. /\ lost \in Seq(Ev)
        /\ Len(lost) = IF n + 1 <= l THEN l - (n + 1) + 1 ELSE 0
        /\ \A i \in 1 .. l - (n + 1) + 1 : lost[i] = Rest(j)[(n + 1) + i - 1]
    <3>1. n + 1 \in Int /\ l \in Int
      BY <1>7, <2>2
    <3> HIDE DEF l
    <3>2. lost = SubSeq(Rest(j), n + 1, l)
      BY DEF l
    <3> HIDE DEF lost
    <3> QED BY <3>1, <3>2, <2>3, SubSeqProperties
  <2> DEFINE i == k - j.at - n
  <2>5. Len(lost) = l - (n + 1) + 1
    BY <2>2, <2>4
  <2>6. lost[i] = Rest(j)[k - j.at] /\ i \in 1..Len(lost)
    BY <2>2, <2>4, <2>5
  <2>7. Rest(j)[k - j.at] = Call(j)[k]
    BY <2>2, <1>5
  <2> HIDE DEF i, lost
  <2>8. lost[i].item = x /\ lost[i].act = "up"
    <3>1. lost[i] = Event(x, "up")
      BY <2>6, <2>7, <1>10, Zenon
    <3>2. Event(x, "up").item = x /\ Event(x, "up").act = "up"
      BY EventIs, Zenon
    <3> QED BY <3>1, <3>2
  <2> QED BY <2>4, <2>6, <2>8, ItemsOfSeq
<1>11. \A x \in down' :
         \/ /\ x \in stuck
            /\ \A k \in 1..Len(taken) : taken[k].item = x => taken[k].act # "down"
         \/ /\ n < Len(events)
            /\ \E k \in DOMAIN Call(j) : k > j.at + n /\ Call(j)[k] = Event(x, "up")
         => x \in stuck'
  <2>1. ASSUME NEW x \in down', x \in stuck,
               \A k \in 1..Len(taken) : taken[k].item = x => taken[k].act # "down"
        PROVE  x \in stuck'
    <3>1. x \notin ItemsOf(taken, "down")
      BY <2>1, <1>9, ItemsOfSeq
    <3> QED BY <2>1, <3>1, <1>8
  <2>2. ASSUME NEW x \in down', n < Len(events),
               \E k \in DOMAIN Call(j) : k > j.at + n /\ Call(j)[k] = Event(x, "up")
        PROVE  x \in stuck'
    <3>1. x \in ItemsOf(lost, "up")
      BY <2>2, <1>10
    <3>2. ~whole
      BY <2>2, <1>6, <1>7
    <3> HIDE DEF lost, whole
    <3> QED BY <2>2, <3>1, <3>2, <1>8
  <2> QED BY <2>1, <2>2
<1>12. job \in [Socket -> Job]
  BY DEF TypeOK
<1>13. job'[s] = r
  BY <1>8, <1>12
<1>14. Outcome(j, r, n)
  <2>1. n \in 0..Len(NextEvents(j))
    BY <1>6, <1>7 DEF events
  <2> QED BY <1>1, <1>3, <2>1, TakenOutcome DEF events
<1>15. stuck' \subseteq down'
  BY <1>8
<1> HIDE DEF r
<1>16. Posted(s, n, taken)
  BY <1>7, <1>8, <1>9, <1>11, <1>13, <1>14, <1>15 DEF Posted, events
<1> QED BY <1>16

-----------------------------------------------------------------------------
(* What a call leaves on the desktop.                                      *)

\* What is down after some events: what was and is not released, and what has
\* been pressed and is not released after.
LEMMA AppliedIs ==
    ASSUME NEW events \in Seq(Ev), NEW pressed, NEW x
    PROVE  x \in Applied(events, pressed) <=>
             \/ /\ x \in pressed
                /\ \A k \in 1..Len(events) : events[k].item = x => events[k].act # "up"
             \/ \E m \in 1..Len(events) :
                  /\ events[m].item = x /\ events[m].act = "down"
                  /\ \A l \in 1..Len(events) : l > m /\ events[l].item = x => events[l].act # "up"
<1>1. DOMAIN events = 1..Len(events)
  OBVIOUS
<1>2. x \in ItemsOf(events, "up") <=>
        \E k \in 1..Len(events) : events[k].item = x /\ events[k].act = "up"
  BY ItemsOfSeq
<1>3. x \in {events[m].item : m \in LastDown(events)} <=>
        \E m \in 1..Len(events) :
          /\ events[m].item = x /\ events[m].act = "down"
          /\ \A l \in 1..Len(events) : l > m /\ events[l].item = x => events[l].act # "up"
  BY <1>1 DEF LastDown
<1> QED BY <1>2, <1>3 DEF Applied

\* What is seen has been taken, at its place, with what is down by then.
LEMMA SightingsAre ==
    ASSUME NEW j, NEW events \in Seq(Ev), NEW e \in Sightings(j, events)
    PROVE  \E n \in 1..Len(events) :
             /\ e.step = j.step /\ e.item = events[n].item /\ e.act = events[n].act
             /\ e.mods = ModsSeen(StepOf(j), Applied(SubSeq(events, 1, n), down))
<1>1. DOMAIN events = 1..Len(events)
  OBVIOUS
<1>2. PICK n \in 1..Len(events) :
        e = [step |-> j.step, batch |-> j.batch, at |-> j.at + n,
             item |-> events[n].item, act |-> events[n].act,
             mods |-> ModsSeen(StepOf(j), Applied(SubSeq(events, 1, n), down))]
  BY <1>1 DEF Sightings
<1> QED BY <1>2

\* What is taken is seen, at its place.
LEMMA SightedAll ==
    ASSUME NEW j, NEW events \in Seq(Ev), NEW n \in 1..Len(events)
    PROVE  SawEvent(Sightings(j, events), j.step, j.batch, j.at + n, events[n])
<1>1. DOMAIN events = 1..Len(events)
  OBVIOUS
<1> DEFINE e == [step |-> j.step, batch |-> j.batch, at |-> j.at + n,
                 item |-> events[n].item, act |-> events[n].act,
                 mods |-> ModsSeen(StepOf(j), Applied(SubSeq(events, 1, n), down))]
<1>2. e \in Sightings(j, events)
  BY <1>1 DEF Sightings
<1>3. /\ e.step = j.step /\ e.batch = j.batch /\ e.at = j.at + n
      /\ e.item = events[n].item /\ e.act = events[n].act
  OBVIOUS
<1> HIDE DEF e
<1> QED BY <1>2, <1>3 DEF SawEvent

\* Only modifiers are seen as modifiers.
LEMMA ModsSeenAre == \A step, pressed : ModsSeen(step, pressed) \subseteq Modifier
BY DEF ModsSeen

-----------------------------------------------------------------------------
(* Types, and how far a request may have come.                             *)

\* Before the first request.
LEMMA NoJobTyped == NoJob \in Job /\ NoJob.answer = "not asked"
BY DEF NoJob, Job, Answer, NoRequest

\* The initial states.
LEMMA InitTyped == Init => TypeOK /\ Walks
<1> SUFFICES ASSUME Init PROVE TypeOK /\ Walks
  OBVIOUS
<1>1. \A s \in Socket : ~Running(s)
  BY NoJobTyped DEF Init, Running
<1>2. permitted \in BOOLEAN
  BY DEF Init, Preflight
<1>3. job \in [Socket -> Job]
  BY NoJobTyped DEF Init
<1>4. TypeOK
  BY <1>1, <1>2, <1>3 DEF Init, TypeOK, Running
<1> QED BY <1>1, <1>4 DEF Walks

AskTo(j, r, a) == [j EXCEPT !.req = r, !.answer = a]
FailTo(j, a) == [j EXCEPT !.ok = FALSE, !.answer = a]

\* A job for a request that has arrived.
LEMMA RequestSet ==
    ASSUME NEW j \in Job, NEW r \in Request, NEW a \in Answer, NEW q,
           q = AskTo(j, r, a)
    PROVE  /\ q \in Job /\ q.req = r /\ q.answer = a /\ q.step = j.step /\ q.batch = j.batch
           /\ q.at = j.at /\ q.ok = j.ok
<1>1. q \in Job
  BY Zenon DEF Job, AskTo
<1>2. /\ q.req = r /\ q.answer = a /\ q.step = j.step /\ q.batch = j.batch
      /\ q.at = j.at /\ q.ok = j.ok
  BY DEF Job, AskTo
<1> QED BY <1>1, <1>2

\* A job that has been given up.
LEMMA FailureSet ==
    ASSUME NEW j \in Job, NEW a \in Answer, NEW q, q = FailTo(j, a)
    PROVE  q \in Job /\ q.req = j.req /\ q.answer = a
<1>1. q \in Job
  BY Zenon DEF Job, FailTo
<1>2. q.req = j.req /\ q.answer = a
  BY DEF Job, FailTo
<1> QED BY <1>1, <1>2

\* What a request becomes when it arrives.
LEMMA AskIs ==
    ASSUME TypeOK, NEW s \in Socket, NEW r \in Request, Ask(s, r)
    PROVE  /\ ~Running(s) /\ job' = [job EXCEPT ![s] = job'[s]]
           /\ job'[s] \in Job /\ job'[s].req = r
           /\ job'[s].step = 1 /\ job'[s].batch = 1 /\ job'[s].at = 0 /\ job'[s].ok = TRUE
           /\ \/ job'[s].answer = "bad_request"
              \/ job'[s].answer = "ok" /\ r.steps = <<>>
              \/ job'[s].answer = "running" /\ Valid(r) /\ r.steps # <<>>
           /\ seen' = [seen EXCEPT ![s] = {}]
           /\ UNCHANGED <<platform, permitted, down, stuck>>
<1> DEFINE a == IF ~Valid(r) THEN "bad_request" ELSE IF r.steps = <<>> THEN "ok" ELSE "running"
           q == AskTo(NoJob, r, a)
<1>1. /\ ~Running(s) /\ job' = [job EXCEPT ![s] = q]
      /\ seen' = [seen EXCEPT ![s] = {}]
      /\ UNCHANGED <<platform, permitted, down, stuck>>
  BY DEF Ask, AskTo
<1>2. job'[s] = q
  BY <1>1 DEF TypeOK
<1>3. a \in Answer
  BY DEF Answer
<1>4. \/ a = "bad_request"
      \/ a = "ok" /\ r.steps = <<>>
      \/ a = "running" /\ Valid(r) /\ r.steps # <<>>
  OBVIOUS
<1> HIDE DEF a
<1>5. NoJob.step = 1 /\ NoJob.batch = 1 /\ NoJob.at = 0 /\ NoJob.ok = TRUE
  BY DEF NoJob
<1>6. /\ q \in Job /\ q.req = r /\ q.answer = a
      /\ q.step = 1 /\ q.batch = 1 /\ q.at = 0 /\ q.ok = TRUE
  <2>1. /\ q \in Job /\ q.req = r /\ q.answer = a
        /\ q.step = NoJob.step /\ q.batch = NoJob.batch /\ q.at = NoJob.at /\ q.ok = NoJob.ok
    <3>1. NoJob \in Job
      BY NoJobTyped
    <3> QED BY <3>1, <1>3, RequestSet
  <2>2. NoJob.ok = TRUE
    BY <1>5
  <2>3. q.ok = TRUE
    BY <2>1, <2>2
  <2> QED BY <1>5, <2>1, <2>3
<1> HIDE DEF q
<1> QED BY <1>1, <1>2, <1>4, <1>6

\* A valid request never meets a malformed step.
LEMMA GiveUpIs ==
    ASSUME TypeOK, Walks, NEW s \in Socket, GiveUp(s)
    PROVE  /\ Running(s) /\ job' = [job EXCEPT ![s] = job'[s]]
           /\ job'[s] \in Job /\ job'[s].req = job[s].req
           /\ job'[s].answer = "injection_failed"
           /\ Works(job[s])
           /\ Usable(StepOf(job[s])) =>
                platform = "macos" /\ StepOf(job[s]).kind = "mouse" /\ job[s].batch = 1
           /\ UNCHANGED <<platform, permitted, seen, down, stuck>>
<1> DEFINE j == job[s]
           step == StepOf(j)
           a == IF IsCombo(step) /\ ~ValidCombo(step) THEN "bad_request" ELSE "injection_failed"
<1>1. /\ Running(s) /\ step.kind # "delay"
      /\ Usable(step) => platform = "macos" /\ step.kind = "mouse" /\ j.batch = 1
      /\ job' = [job EXCEPT ![s].ok = FALSE, ![s].answer = a]
      /\ UNCHANGED <<platform, permitted, seen, down, stuck>>
  BY DEF GiveUp
<1>2. j \in Job /\ Walking(j) /\ Works(j)
  BY <1>1 DEF TypeOK, Walks, Works
<1>3. a = "injection_failed"
  <2>1. Callable(step)
    BY <1>2, WalkingStep
  <2> QED BY <2>1 DEF Callable
<1> HIDE DEF a
<1> DEFINE r == FailTo(j, a)
<1>4. job' = [job EXCEPT ![s] = r]
  <2>1. [job EXCEPT ![s].ok = FALSE, ![s].answer = a] = [job EXCEPT ![s] = r]
    BY DEF TypeOK, FailTo
  <2> QED BY <1>1, <2>1
<1>5. job'[s] = r
  BY <1>4 DEF TypeOK
<1>6. r \in Job /\ r.req = j.req /\ r.answer = a
  <2>1. a \in Answer
    BY <1>3 DEF Answer
  <2> QED BY <1>2, <2>1, FailureSet
<1> HIDE DEF r
<1> QED BY <1>1, <1>2, <1>3, <1>4, <1>5, <1>6

\* A pause injects nothing.
LEMMA SleepIs ==
    ASSUME TypeOK, Walks, NEW s \in Socket, Sleep(s)
    PROVE  /\ Running(s) /\ ~Works(job[s]) /\ job' = [job EXCEPT ![s] = job'[s]]
           /\ Advances(job[s], job'[s])
           /\ UNCHANGED <<platform, permitted, seen, down, stuck>>
<1>1. /\ Running(s) /\ ~Works(job[s]) /\ job' = [job EXCEPT ![s] = Advance(job[s])]
      /\ UNCHANGED <<platform, permitted, seen, down, stuck>>
  BY DEF Sleep, Works
<1>2. job[s] \in Job /\ Walking(job[s])
  BY <1>1 DEF TypeOK, Walks
<1>3. job[s].step <= Len(job[s].req.steps) /\ Len(job[s].req.steps) \in Nat
  BY <1>2, WalkingStep
<1>4. Advances(job[s], Advance(job[s]))
  BY <1>2, <1>3, AdvanceIs
<1>5. job'[s] = Advance(job[s])
  BY <1>1 DEF TypeOK
<1> QED BY <1>1, <1>4, <1>5

\* What a backend makes of a step depends on the platform alone.
LEMMA SamePlatform ==
    ASSUME platform' = platform
    PROVE  /\ \A step : Batches(step)' = Batches(step)
           /\ \A step : Usable(step)' <=> Usable(step)
           /\ \A j : Walking(j)' <=> Walking(j)
<1>1. \A step : Batches(step)' = Batches(step)
  BY DEF Batches, Codes, TapOf
<1>2. \A step : Usable(step)' <=> Usable(step)
  BY DEF Usable, Expressible
<1>3. \A j : Walking(j)' <=> Walking(j)
  BY <1>1, <1>2 DEF Walking, Calls, StepOf, Works
<1> QED BY <1>1, <1>2, <1>3

\* A step of one socket leaves the jobs of the others.
LEMMA JobStep ==
    ASSUME TypeOK, Walks, NEW s \in Socket, job' = [job EXCEPT ![s] = job'[s]],
           job'[s] \in Job, platform' = platform,
           job'[s].answer = "running" => Walking(job'[s])
    PROVE  /\ job' \in [Socket -> Job]
           /\ Walks'
           /\ \A t \in Socket : job'[t].answer = "running" =>
                                  job'[t].step \in DOMAIN job'[t].req.steps
           /\ \A t \in Socket : t # s => job'[t] = job[t]
<1>1. job \in [Socket -> Job]
  BY DEF TypeOK
<1>2. job' \in [Socket -> Job] /\ \A t \in Socket : t # s => job'[t] = job[t]
  BY <1>1
<1>3. ASSUME NEW t \in Socket, job'[t].answer = "running" PROVE Walking(job'[t])
  <2>1. CASE t = s
    BY <2>1, <1>3
  <2>2. CASE t # s
    BY <2>2, <1>2, <1>3 DEF Walks, Running
  <2> QED BY <2>1, <2>2
<1>4. Walks'
  BY <1>3, SamePlatform DEF Walks, Running
<1> QED BY <1>2, <1>3, <1>4 DEF Walking

\* A job walks on after a pause.
LEMMA AdvancesWalks ==
    ASSUME NEW j \in Job, Walking(j), ~Works(j), NEW r, Advances(j, r),
           j.answer = "running", r.answer = "running"
    PROVE  Walking(r)
<1>1. /\ j.req \in Request /\ Valid(j.req) /\ j.req.steps \in Seq(Step)
      /\ j.step \in Nat /\ 1 <= j.step /\ Len(j.req.steps) \in Nat
  BY WalkingStep DEF Walking
<1>2. j.batch = 1
  BY DEF Walking, Job
<1>3. j.ok
  BY <1>2 DEF Walking
<1>4. /\ r \in Job /\ r.req = j.req /\ j.step < Len(j.req.steps)
      /\ r.step = j.step + 1 /\ r.batch = 1 /\ r.at = 0 /\ r.ok = j.ok
  BY <1>3 DEF Advances
<1>5. r.step \in DOMAIN r.req.steps
  <2>1. DOMAIN j.req.steps = 1..Len(j.req.steps)
    BY <1>1
  <2>2. j.step + 1 \in 1..Len(j.req.steps)
    BY <1>1, <1>4
  <2> QED BY <2>1, <2>2, <1>4
<1>6. r.ok
  BY <1>3, <1>4
<1> QED BY <1>1, <1>4, <1>5, <1>6, FreshWalks

\* A job walks on after a call.
LEMMA OutcomeWalks ==
    ASSUME NEW j \in Job, Walking(j), Works(j), Usable(StepOf(j)), NEW n \in Nat, NEW r,
           Outcome(j, r, n), j.answer = "running", r.answer = "running"
    PROVE  Walking(r)
<1>1. /\ j.req \in Request /\ Valid(j.req) /\ j.req.steps \in Seq(Step)
      /\ j.step \in DOMAIN j.req.steps
      /\ j.step \in Nat /\ 1 <= j.step /\ Len(j.req.steps) \in Nat /\ Callable(StepOf(j))
  BY WalkingStep DEF Walking
<1>2. r \in Job /\ r.req = j.req
  BY DEF Outcome
<1>3. /\ j.at \in Nat /\ j.at < Len(Call(j)) /\ Len(Call(j)) \in Nat
      /\ j.batch \in DOMAIN Calls(j) /\ DOMAIN Calls(j) = 1..Len(Calls(j))
  BY CallTyped
<1>4. CASE /\ platform = "macos" /\ n = 1 /\ j.at + n < Len(Call(j)) /\ r.answer = j.answer
           /\ r.step = j.step /\ r.batch = j.batch /\ r.at = j.at + 1 /\ r.ok = j.ok
  <2>1. StepOf(r) = StepOf(j) /\ Calls(r) = Calls(j) /\ Works(r) /\ Usable(StepOf(r))
    BY <1>2, <1>4 DEF StepOf, Calls, Works
  <2>2. r.at < Len(Calls(r)[r.batch])
    BY <1>4, <2>1 DEF Call
  <2>3. r.batch = 1 => r.ok
    BY <1>4 DEF Walking
  <2> QED BY <1>1, <1>2, <1>3, <1>4, <2>1, <2>2, <2>3 DEF Walking
<1>5. CASE /\ j.batch = 1 /\ Len(Calls(j)) = 2 /\ r.answer = j.answer
           /\ r.step = j.step /\ r.batch = 2 /\ r.at = 0
  <2>1. StepOf(r) = StepOf(j) /\ Calls(r) = Calls(j) /\ Works(r) /\ Usable(StepOf(r))
    BY <1>2, <1>5 DEF StepOf, Calls, Works
  <2>2. 2 \in DOMAIN Calls(j)
    BY <1>3, <1>5
  <2>3. Len(Calls(j)[2]) > 0
    BY <1>1, <2>2, CallsOf DEF Calls
  <2> QED BY <1>1, <1>2, <1>5, <2>1, <2>2, <2>3 DEF Walking
<1>6. CASE /\ j.step < Len(j.req.steps) /\ r.step = j.step + 1
           /\ r.batch = 1 /\ r.at = 0 /\ r.ok
  <2>1. DOMAIN j.req.steps = 1..Len(j.req.steps)
    BY <1>1
  <2>2. j.step + 1 \in 1..Len(j.req.steps)
    <3> DEFINE i == j.step
               c == Len(j.req.steps)
    <3>1. i \in Nat /\ 1 <= i /\ c \in Nat /\ i < c
      BY <1>1, <1>6
    <3> HIDE DEF i, c
    <3>2. i + 1 \in 1..c
      BY <3>1
    <3> QED BY <3>2 DEF i, c
  <2> QED BY <1>1, <1>2, <1>6, <2>1, <2>2, FreshWalks
<1> QED BY <1>4, <1>5, <1>6 DEF Outcome

\* Every step keeps the types and the walks.
LEMMA NextTyped ==
    ASSUME TypeOK, Walks, [Next]_vars
    PROVE  TypeOK' /\ Walks'
<1> DEFINE SeenOK(t, q, view) == view \subseteq Sighting /\ \A e \in view : e.step \in DOMAIN q.req.steps
<1>1. /\ platform \in Platform /\ permitted \in BOOLEAN /\ job \in [Socket -> Job]
      /\ seen \in [Socket -> SUBSET Sighting] /\ down \subseteq Item /\ stuck \subseteq down
      /\ \A t \in Socket : SeenOK(t, job[t], seen[t])
  BY DEF TypeOK, Sighting
\* The jobs are typed and walk: what is left is what the desktop has seen.
<1>2. ASSUME NEW s \in Socket, job' = [job EXCEPT ![s] = job'[s]], job'[s] \in Job,
             UNCHANGED <<platform, permitted>>,
             job'[s].answer = "running" => Walking(job'[s]),
             seen' = [seen EXCEPT ![s] = seen'[s]], SeenOK(s, job'[s], seen'[s]),
             down' \subseteq Item, stuck' \subseteq down'
      PROVE  TypeOK' /\ Walks'
  <2>1. /\ job' \in [Socket -> Job] /\ Walks'
        /\ \A t \in Socket : job'[t].answer = "running" =>
                               job'[t].step \in DOMAIN job'[t].req.steps
        /\ \A t \in Socket : t # s => job'[t] = job[t]
    BY <1>2, JobStep
  <2>2. \A t \in Socket : t # s => seen'[t] = seen[t]
    BY <1>1, <1>2
  <2>3. ASSUME NEW t \in Socket PROVE SeenOK(t, job'[t], seen'[t])
    <3>1. CASE t = s
      BY <3>1, <1>2
    <3>2. CASE t # s
      BY <3>2, <1>1, <2>1, <2>2
    <3> QED BY <3>1, <3>2
  <2>4. seen' \in [Socket -> SUBSET Sighting]
    BY <1>1, <1>2, <2>3
  <2> QED BY <1>1, <1>2, <2>1, <2>3, <2>4 DEF TypeOK, Sighting
<1>3. ASSUME NEW s \in Socket, NEW r \in Request, Ask(s, r) PROVE TypeOK' /\ Walks'
  <2>1. /\ ~Running(s) /\ job' = [job EXCEPT ![s] = job'[s]]
        /\ job'[s] \in Job /\ job'[s].req = r
        /\ job'[s].step = 1 /\ job'[s].batch = 1 /\ job'[s].at = 0 /\ job'[s].ok = TRUE
        /\ \/ job'[s].answer = "bad_request"
           \/ job'[s].answer = "ok" /\ r.steps = <<>>
           \/ job'[s].answer = "running" /\ Valid(r) /\ r.steps # <<>>
        /\ seen' = [seen EXCEPT ![s] = {}]
        /\ UNCHANGED <<platform, permitted, down, stuck>>
    BY <1>3, AskIs
  <2>2. ASSUME job'[s].answer = "running" PROVE Walking(job'[s])
    <3>1. Valid(r) /\ r.steps # <<>> /\ r.steps \in Seq(Step)
      BY <2>1, <2>2, StepsTyped
    <3>2. 1 \in DOMAIN r.steps
      BY <3>1
    <3> QED BY <2>1, <3>1, <3>2, FreshWalks
  <2>3. seen'[s] = {}
    BY <1>1, <2>1
  <2>4. SeenOK(s, job'[s], seen'[s])
    BY <2>3
  <2> QED BY <1>1, <1>2, <2>1, <2>2, <2>3, <2>4
<1>4. ASSUME NEW s \in Socket, GiveUp(s) PROVE TypeOK' /\ Walks'
  <2>1. /\ job' = [job EXCEPT ![s] = job'[s]]
        /\ job'[s] \in Job /\ job'[s].req = job[s].req /\ job'[s].answer = "injection_failed"
        /\ UNCHANGED <<platform, permitted, seen, down, stuck>>
    BY <1>4, GiveUpIs
  <2>2. SeenOK(s, job'[s], seen'[s])
    BY <1>1, <2>1
  <2>3. seen' = [seen EXCEPT ![s] = seen'[s]]
    BY <1>1, <2>1
  <2> QED BY <1>1, <1>2, <2>1, <2>2, <2>3
<1>5. ASSUME NEW s \in Socket, Sleep(s) PROVE TypeOK' /\ Walks'
  <2>1. /\ Running(s) /\ ~Works(job[s]) /\ job' = [job EXCEPT ![s] = job'[s]]
        /\ Advances(job[s], job'[s])
        /\ UNCHANGED <<platform, permitted, seen, down, stuck>>
    BY <1>5, SleepIs
  <2>2. job[s] \in Job /\ Walking(job[s]) /\ job[s].answer = "running"
    BY <1>1, <2>1 DEF Walks, Running
  <2>3. job'[s].answer = "running" => Walking(job'[s])
    BY <2>1, <2>2, AdvancesWalks
  <2>4. job'[s] \in Job /\ job'[s].req = job[s].req
    BY <2>1 DEF Advances
  <2>5. SeenOK(s, job'[s], seen'[s])
    BY <1>1, <2>1, <2>4
  <2>6. seen' = [seen EXCEPT ![s] = seen'[s]]
    BY <1>1, <2>1
  <2> QED BY <1>1, <1>2, <2>1, <2>3, <2>4, <2>5, <2>6
<1>6. ASSUME NEW s \in Socket, Post(s) PROVE TypeOK' /\ Walks'
  <2>1. /\ job[s] \in Job /\ Walking(job[s]) /\ job[s].answer = "running"
        /\ Works(job[s]) /\ Usable(StepOf(job[s]))
    BY <1>1, <1>6 DEF Post, Walks, Running, Works
  <2>2. PICK n, taken : Posted(s, n, taken)
    BY <1>6, <2>1, PostIs
  <2>3. /\ n \in Nat /\ taken \in Seq(Ev) /\ Len(taken) \in Nat
        /\ down' = Applied(taken, down) /\ stuck' \subseteq down'
        /\ seen' = [seen EXCEPT ![s] = @ \cup Sightings(job[s], taken)]
        /\ job' = [job EXCEPT ![s] = job'[s]]
        /\ Outcome(job[s], job'[s], n)
    BY <2>2 DEF Posted
  <2>4. UNCHANGED <<platform, permitted>>
    BY <1>6 DEF Post
  <2>5. job'[s] \in Job /\ job'[s].req = job[s].req
    BY <2>3 DEF Outcome
  <2>6. job'[s].answer = "running" => Walking(job'[s])
    BY <2>1, <2>3, OutcomeWalks
  <2>7. \A k \in 1..Len(taken) : taken[k] \in Ev
    BY <2>3
  <2>8. down' \subseteq Item
    <3>1. ASSUME NEW x \in down' PROVE x \in Item
      <4>1. x \in down \/ \E m \in 1..Len(taken) : taken[m].item = x
        BY <2>3, AppliedIs
      <4> QED BY <4>1, <1>1, <2>7 DEF Ev
    <3> QED BY <3>1
  <2>9. seen'[s] = seen[s] \cup Sightings(job[s], taken)
    BY <1>1, <2>3
  <2>10. SeenOK(s, job'[s], seen'[s])
    <3>1. ASSUME NEW e \in Sightings(job[s], taken)
          PROVE  e \in Sighting /\ e.step \in DOMAIN job[s].req.steps
      <4>1. PICK m \in 1..Len(taken) :
              e = [step |-> job[s].step, batch |-> job[s].batch, at |-> job[s].at + m,
                   item |-> taken[m].item, act |-> taken[m].act,
                   mods |-> ModsSeen(StepOf(job[s]), Applied(SubSeq(taken, 1, m), down))]
        <5>1. DOMAIN taken = 1..Len(taken)
          BY <2>3
        <5> QED BY <5>1 DEF Sightings
      <4>2. /\ job[s].step \in Nat /\ job[s].step \in DOMAIN job[s].req.steps
            /\ job[s].batch \in {1, 2} /\ job[s].at \in Nat
        BY <2>1 DEF Walking, Job
      <4>3. taken[m].item \in Item /\ taken[m].act \in {"down", "up", "move"}
        BY <2>7 DEF Ev
      <4>4. job[s].at + m \in Nat
        BY <4>2, <2>3
      <4>5. ModsSeen(StepOf(job[s]), Applied(SubSeq(taken, 1, m), down)) \subseteq Modifier
        BY ModsSeenAre
      <4> QED BY <4>1, <4>2, <4>3, <4>4, <4>5 DEF Sighting
    <3> QED BY <3>1, <1>1, <2>5, <2>9
  <2>11. seen' = [seen EXCEPT ![s] = seen'[s]]
    BY <2>3, <2>9
  <2> QED BY <1>2, <2>3, <2>4, <2>5, <2>6, <2>8, <2>10, <2>11
<1>7. ASSUME Kill PROVE TypeOK' /\ Walks'
  <2>1. /\ job' = [t \in Socket |-> NoJob] /\ seen' = [t \in Socket |-> {}]
        /\ down' = IF platform = "linux" THEN {} ELSE down
        /\ stuck' = down' /\ UNCHANGED <<platform, permitted>>
    BY <1>7 DEF Kill
  <2>2. down' \subseteq Item
    BY <1>1, <2>1
  <2>3. job' \in [Socket -> Job] /\ \A t \in Socket : job'[t] = NoJob
    BY <2>1, NoJobTyped
  <2>4. \A t \in Socket : job'[t].answer # "running"
    BY <2>3, NoJobTyped
  <2>5. seen' \in [Socket -> SUBSET Sighting] /\ \A t \in Socket : seen'[t] = {}
    BY <2>1
  <2>6. Walks'
    BY <2>4 DEF Walks, Running
  <2>7. TypeOK'
    BY <1>1, <2>1, <2>2, <2>3, <2>4, <2>5 DEF TypeOK, Sighting
  <2> QED BY <2>6, <2>7
<1>8. ASSUME UNCHANGED vars PROVE TypeOK' /\ Walks'
  <2>1. UNCHANGED <<platform, permitted, job, seen, down, stuck>>
    BY <1>8 DEF vars
  <2>2. TypeOK'
    BY <2>1 DEF TypeOK
  <2>3. Walks'
    BY <2>1, SamePlatform DEF Walks, Running
  <2> QED BY <2>2, <2>3
<1> QED BY <1>3, <1>4, <1>5, <1>6, <1>7, <1>8 DEF Next, Work

-----------------------------------------------------------------------------
(* What is refused has not been seen; without Accessibility nothing is down. *)

\* Every step keeps what was refused unseen.
LEMMA NextRefused ==
    ASSUME TypeOK, Walks, RefusedLeavesNothing, [Next]_vars
    PROVE  RefusedLeavesNothing'
<1>1. /\ job \in [Socket -> Job] /\ seen \in [Socket -> SUBSET Sighting]
      /\ \A s \in Socket : job[s].answer = "bad_request" => seen[s] = {}
  BY DEF TypeOK, Sighting, RefusedLeavesNothing
\* Only a request that arrives is refused.
<1>2. ASSUME NEW s \in Socket, job' = [job EXCEPT ![s] = job'[s]],
             seen' = [seen EXCEPT ![s] = seen'[s]],
             job'[s].answer = "bad_request" => seen'[s] = {}
      PROVE  RefusedLeavesNothing'
  <2>1. \A t \in Socket : t # s => job'[t] = job[t] /\ seen'[t] = seen[t]
    BY <1>1, <1>2
  <2> QED BY <1>1, <1>2, <2>1 DEF RefusedLeavesNothing
<1>3. ASSUME NEW s \in Socket, NEW r \in Request, Ask(s, r) PROVE RefusedLeavesNothing'
  <2>1. job' = [job EXCEPT ![s] = job'[s]] /\ seen' = [seen EXCEPT ![s] = {}]
    BY <1>3, AskIs
  <2>2. seen'[s] = {}
    BY <1>1, <2>1
  <2> QED BY <1>2, <2>1, <2>2
<1>4. ASSUME NEW s \in Socket, GiveUp(s) PROVE RefusedLeavesNothing'
  <2>1. /\ job' = [job EXCEPT ![s] = job'[s]] /\ seen' = seen
        /\ job'[s].answer = "injection_failed"
    BY <1>4, GiveUpIs
  <2>2. seen' = [seen EXCEPT ![s] = seen'[s]]
    BY <1>1, <2>1
  <2> QED BY <1>2, <2>1, <2>2
<1>5. ASSUME NEW s \in Socket, Sleep(s) PROVE RefusedLeavesNothing'
  <2>1. /\ Running(s) /\ job' = [job EXCEPT ![s] = job'[s]] /\ seen' = seen
        /\ Advances(job[s], job'[s])
    BY <1>5, SleepIs
  <2>2. job'[s].answer # "bad_request"
    BY <2>1 DEF Advances, Running
  <2>3. seen' = [seen EXCEPT ![s] = seen'[s]]
    BY <1>1, <2>1
  <2> QED BY <1>2, <2>1, <2>2, <2>3
<1>6. ASSUME NEW s \in Socket, Post(s) PROVE RefusedLeavesNothing'
  <2>1. Running(s) /\ Walking(job[s])
    BY <1>6 DEF Post, Walks
  <2>2. PICK n, taken : Posted(s, n, taken)
    BY <1>6, <2>1, PostIs
  <2>3. /\ seen' = [seen EXCEPT ![s] = @ \cup Sightings(job[s], taken)]
        /\ job' = [job EXCEPT ![s] = job'[s]] /\ Outcome(job[s], job'[s], n)
    BY <2>2 DEF Posted
  <2>4. job'[s].answer # "bad_request"
    BY <2>1, <2>3 DEF Outcome, Running
  <2>5. seen' = [seen EXCEPT ![s] = seen'[s]]
    BY <1>1, <2>3
  <2> QED BY <1>2, <2>3, <2>4, <2>5
<1>7. CASE Kill
  BY <1>7 DEF Kill, RefusedLeavesNothing
<1>8. CASE UNCHANGED vars
  BY <1>8 DEF vars, RefusedLeavesNothing
<1> QED BY <1>3, <1>4, <1>5, <1>6, <1>7, <1>8 DEF Next, Work

\* Every step keeps a desktop without Accessibility untouched.
LEMMA NextQuiet ==
    ASSUME TypeOK, Walks, Quiet, [Next]_vars
    PROVE  Quiet'
<1> SUFFICES ASSUME Deaf' PROVE down' = {}
  BY DEF Quiet
<1>1. ASSUME UNCHANGED <<platform, permitted, down>> PROVE down' = {}
  BY <1>1 DEF Quiet, Deaf
<1>2. ASSUME NEW s \in Socket, Post(s) PROVE down' = {}
  <2>1. Running(s) /\ Walking(job[s]) /\ UNCHANGED <<platform, permitted>>
    BY <1>2 DEF Post, Walks
  <2>2. Deaf /\ down = {}
    BY <2>1 DEF Deaf, Quiet
  <2>3. PICK n, taken : Posted(s, n, taken)
    BY <1>2, <2>1, PostIs
  <2>4. taken \in Seq(Ev) /\ Len(taken) = 0 /\ down' = Applied(taken, down)
    BY <2>2, <2>3 DEF Posted
  <2>5. 1..0 = {}
    OBVIOUS
  <2>6. \A x : x \notin down'
    BY <2>2, <2>4, <2>5, AppliedIs
  <2> QED BY <2>6
<1>3. CASE Kill
  <2>1. UNCHANGED <<platform, permitted>> /\ down' = IF platform = "linux" THEN {} ELSE down
    BY <1>3 DEF Kill
  <2> QED BY <2>1 DEF Quiet, Deaf
<1>4. ASSUME NEW s \in Socket, (\E r \in Request : Ask(s, r)) \/ GiveUp(s) \/ Sleep(s)
      PROVE  UNCHANGED <<platform, permitted, down>>
  BY <1>4 DEF Ask, GiveUp, Sleep
<1>5. CASE UNCHANGED vars
  BY <1>1, <1>5 DEF vars
<1> QED BY <1>1, <1>2, <1>3, <1>4, <1>5 DEF Next, Work

-----------------------------------------------------------------------------
(* No key without its modifiers.                                           *)

\* e, if a press, has every modifier that the combo lists before its item.
ModsOf(step, e) ==
    IsCombo(step) /\ e.act = "down" =>
        \A n \in DOMAIN step.keys :
            step.keys[n] = e.item /\ e.item \notin ToSet(SubSeq(step.keys, 1, n - 1))
              => ToSet(SubSeq(step.keys, 1, n)) \cap Modifier \subseteq e.mods

\* The press of a combo, as far as the OS has taken it, puts down what precedes.
LEMMA PressesInOrder ==
    ASSUME NEW j \in Job, Walking(j), Works(j), Usable(StepOf(j)), IsCombo(StepOf(j)),
           platform \in Platform, platform # "macos", NEW taken \in Seq(Ev),
           Len(taken) <= Len(Call(j)), \A k \in 1..Len(taken) : taken[k] = Call(j)[j.at + k],
           NEW m \in 1..Len(taken), taken[m].act = "down", NEW pressed
    PROVE  /\ taken[m].item = StepOf(j).keys[m] /\ m \in 1..Len(StepOf(j).keys)
           /\ \A i \in 1..m : StepOf(j).keys[i] \in Applied(SubSeq(taken, 1, m), pressed)
<1> DEFINE step == StepOf(j)
           keys == step.keys
<1>1. Callable(step) /\ keys \in Seq(Key)
  <2>1. Callable(step)
    BY WalkingStep
  <2> QED BY <2>1, StepKinds DEF Callable, IsCombo
<1>2. Codes(step) = keys
  BY <1>1, CodesTyped DEF Callable
<1>3. /\ Len(Calls(j)) = 2 /\ Calls(j) \in Seq(Seq(Ev))
      /\ \A k \in DOMAIN Calls(j)[1] : Calls(j)[1][k] = Event(keys[k], "down")
      /\ \A l \in DOMAIN Calls(j)[2] : Calls(j)[2][l].act = "up"
      /\ DOMAIN Calls(j)[1] = DOMAIN keys
  BY <1>1, <1>2, ComboCalls DEF Calls
<1>4. /\ Call(j) \in Seq(Ev) /\ DOMAIN Call(j) = 1..Len(Call(j)) /\ Len(Call(j)) \in Nat
      /\ j.batch \in DOMAIN Calls(j) /\ DOMAIN Calls(j) = 1..Len(Calls(j))
  BY CallTyped
<1>5. j.at = 0
  BY DEF Walking
<1>6. Len(taken) \in Nat
  OBVIOUS
<1>7. \A k \in 1..Len(taken) : k \in DOMAIN Call(j) /\ taken[k] = Call(j)[k]
  BY <1>4, <1>5, <1>6
<1>8. j.batch = 1
  <2>1. j.batch \in {1, 2}
    BY DEF Job
  <2>2. j.batch = 2 => taken[m].act = "up"
    BY <1>3, <1>7 DEF Call
  <2> QED BY <2>1, <2>2
<1>9. \A k \in 1..Len(taken) : taken[k] = Event(keys[k], "down") /\ k \in DOMAIN keys
  BY <1>3, <1>7, <1>8 DEF Call
<1>10. DOMAIN keys = 1..Len(keys)
  BY <1>1
<1> DEFINE press == SubSeq(taken, 1, m)
<1>11. m \in Nat /\ m >= 1 /\ m <= Len(taken)
  BY <1>6
<1>12. press \in Seq(Ev) /\ Len(press) = m /\ \A k \in 1..m : press[k] = taken[k]
  <2>1. \A k \in 1..m : taken[k] \in Ev
    BY <1>6, <1>11
  <2>2. /\ press \in Seq(Ev) /\ Len(press) = IF 1 <= m THEN m - 1 + 1 ELSE 0
        /\ \A k \in 1..(m - 1 + 1) : press[k] = taken[1 + k - 1]
    BY <1>11, <2>1, SubSeqProperties
  <2>3. m - 1 + 1 = m /\ \A k \in 1..m : 1 + k - 1 = k
    BY <1>11
  <2> HIDE DEF press
  <2> QED BY <2>2, <2>3, <1>11
<1> HIDE DEF press
<1>13. ASSUME NEW i \in 1..m PROVE keys[i] \in Applied(press, pressed)
  <2>1. \A k \in 1..m : press[k].act = "down"
    BY <1>9, <1>11, <1>12, EventIs
  <2>2. press[i].item = keys[i] /\ press[i].act = "down"
    <3>1. press[i] = taken[i] /\ i \in 1..Len(taken)
      BY <1>11, <1>12
    <3>2. press[i] = Event(keys[i], "down")
      BY <1>9, <3>1
    <3>3. Event(keys[i], "down").item = keys[i] /\ Event(keys[i], "down").act = "down"
      BY EventIs, Zenon
    <3> QED BY <3>2, <3>3
  <2>3. i \in 1..Len(press) /\ \A l \in 1..Len(press) : press[l].act # "up"
    BY <1>12, <2>1
  <2> QED BY <2>2, <2>3, <1>12, AppliedIs
<1>14. taken[m].item = keys[m] /\ m \in 1..Len(keys)
  BY <1>9, <1>10, EventIs
<1> QED BY <1>13, <1>14 DEF press

\* The first n elements of a sequence.
LEMMA PrefixSet ==
    ASSUME NEW S, NEW q \in Seq(S), NEW n \in 0..Len(q)
    PROVE  ToSet(SubSeq(q, 1, n)) = {q[i] : i \in 1..n}
<1> DEFINE p == SubSeq(q, 1, n)
<1>1. n \in Nat /\ n <= Len(q)
  OBVIOUS
<1>2. \A i \in 1..n : q[i] \in S
  BY <1>1
<1>3. /\ p \in Seq(S) /\ Len(p) = IF 1 <= n THEN n - 1 + 1 ELSE 0
      /\ \A i \in 1..(n - 1 + 1) : p[i] = q[1 + i - 1]
  BY <1>1, <1>2, SubSeqProperties
<1>4. Len(p) = n /\ n - 1 + 1 = n /\ \A i \in 1..n : 1 + i - 1 = i
  BY <1>1, <1>3
<1> HIDE DEF p
<1>5. DOMAIN p = 1..n /\ \A i \in 1..n : p[i] = q[i]
  BY <1>3, <1>4
<1> QED BY <1>5 DEF ToSet, p

\* What a call presses is seen with the modifiers before it.
LEMMA SightedWithMods ==
    ASSUME NEW j \in Job, Walking(j), Works(j), Usable(StepOf(j)),
           platform \in Platform, NEW taken \in Seq(Ev), Len(taken) <= Len(Call(j)),
           \A k \in 1..Len(taken) : taken[k] = Call(j)[j.at + k],
           NEW e \in Sightings(j, taken)
    PROVE  ModsOf(StepOf(j), e)
<1> DEFINE step == StepOf(j)
           keys == step.keys
<1>1. SUFFICES ASSUME IsCombo(step), e.act = "down", NEW n \in DOMAIN keys, keys[n] = e.item,
                      e.item \notin ToSet(SubSeq(keys, 1, n - 1))
               PROVE  ToSet(SubSeq(keys, 1, n)) \cap Modifier \subseteq e.mods
  BY DEF ModsOf
<1>2. PICK m \in 1..Len(taken) :
        /\ e.item = taken[m].item /\ e.act = taken[m].act
        /\ e.mods = ModsSeen(step, Applied(SubSeq(taken, 1, m), down))
  BY SightingsAre
<1>3. keys \in Seq(Key)
  <2>1. Callable(step)
    BY WalkingStep
  <2> QED BY <1>1, <2>1, StepKinds DEF Callable, IsCombo
<1>4. n \in 1..Len(keys) /\ n - 1 \in 0..Len(keys) /\ n \in 0..Len(keys)
  BY <1>3
<1>5. /\ ToSet(SubSeq(keys, 1, n)) = {keys[i] : i \in 1..n}
      /\ ToSet(SubSeq(keys, 1, n - 1)) = {keys[i] : i \in 1..(n - 1)}
  BY <1>3, <1>4, PrefixSet
<1>6. CASE platform = "macos"
  <2>1. e.mods = Modifier \cap ToSet(keys)
    BY <1>1, <1>2, <1>6 DEF ModsSeen
  <2>2. \A i \in 1..n : i \in DOMAIN keys
    BY <1>3, <1>4
  <2>3. \A i \in 1..n : keys[i] \in ToSet(keys)
    BY <2>2 DEF ToSet
  <2> QED BY <1>5, <2>1, <2>3
<1>7. CASE platform # "macos"
  <2>1. e.mods = Modifier \cap Applied(SubSeq(taken, 1, m), down)
    BY <1>2, <1>7 DEF ModsSeen
  <2>2. /\ e.item = keys[m] /\ m \in 1..Len(keys)
        /\ \A i \in 1..m : keys[i] \in Applied(SubSeq(taken, 1, m), down)
    <3>1. taken[m].act = "down"
      BY <1>1, <1>2
    <3> QED BY <1>1, <1>2, <1>7, <3>1, PressesInOrder
  <2>3. n <= m
    <3>1. SUFFICES ASSUME m < n PROVE FALSE
      BY <1>4, <2>2
    <3>2. m \in 1..(n - 1)
      BY <1>4, <2>2, <3>1
    <3> QED BY <1>1, <1>5, <2>2, <3>2
  <2>4. \A i \in 1..n : i \in 1..m
    BY <1>4, <2>2, <2>3
  <2> QED BY <1>5, <2>1, <2>2, <2>4
<1> QED BY <1>6, <1>7

\* Every step keeps the modifiers.
LEMMA NextMods ==
    ASSUME TypeOK, Walks, ModifiersNotLost, [Next]_vars
    PROVE  ModifiersNotLost'
<1>1. /\ job \in [Socket -> Job] /\ seen \in [Socket -> SUBSET Sighting]
      /\ platform \in Platform
      /\ \A s \in Socket : \A e \in seen[s] : ModsOf(job[s].req.steps[e.step], e)
  BY DEF TypeOK, Sighting, ModifiersNotLost, ModsOf
<1>2. ASSUME NEW s \in Socket, job' = [job EXCEPT ![s] = job'[s]],
             seen' = [seen EXCEPT ![s] = seen'[s]],
             \A e \in seen'[s] : ModsOf(job'[s].req.steps[e.step], e)
      PROVE  ModifiersNotLost'
  <2>1. \A t \in Socket : t # s => job'[t] = job[t] /\ seen'[t] = seen[t]
    BY <1>1, <1>2
  <2>2. \A t \in Socket : \A e \in seen'[t] : ModsOf(job'[t].req.steps[e.step], e)
    BY <1>1, <1>2, <2>1
  <2> QED BY <2>2 DEF ModifiersNotLost, ModsOf
<1>3. ASSUME NEW s \in Socket, NEW r \in Request, Ask(s, r) PROVE ModifiersNotLost'
  <2>1. job' = [job EXCEPT ![s] = job'[s]] /\ seen' = [seen EXCEPT ![s] = {}]
    BY <1>3, AskIs
  <2>2. seen'[s] = {}
    BY <1>1, <2>1
  <2> QED BY <1>2, <2>1, <2>2
<1>4. ASSUME NEW s \in Socket, job' = [job EXCEPT ![s] = job'[s]], seen' = seen,
             job'[s].req = job[s].req
      PROVE  ModifiersNotLost'
  <2>1. seen' = [seen EXCEPT ![s] = seen'[s]]
    BY <1>1, <1>4
  <2>2. \A e \in seen'[s] : ModsOf(job'[s].req.steps[e.step], e)
    BY <1>1, <1>4
  <2> QED BY <1>2, <1>4, <2>1, <2>2
<1>5. ASSUME NEW s \in Socket, GiveUp(s) PROVE ModifiersNotLost'
  BY <1>4, <1>5, GiveUpIs
<1>6. ASSUME NEW s \in Socket, Sleep(s) PROVE ModifiersNotLost'
  <2>1. job' = [job EXCEPT ![s] = job'[s]] /\ seen' = seen /\ Advances(job[s], job'[s])
    BY <1>6, SleepIs
  <2> QED BY <1>4, <2>1 DEF Advances
<1>7. ASSUME NEW s \in Socket, Post(s) PROVE ModifiersNotLost'
  <2>1. /\ job[s] \in Job /\ Walking(job[s]) /\ Works(job[s]) /\ Usable(StepOf(job[s]))
    BY <1>1, <1>7 DEF Post, Walks, Works
  <2>2. PICK n, taken : Posted(s, n, taken)
    BY <1>7, <2>1, PostIs
  <2>3. /\ n \in Nat /\ job[s].at + n <= Len(Call(job[s]))
        /\ taken \in Seq(Ev) /\ Len(taken) \in Nat /\ Len(taken) <= n
        /\ \A k \in 1..Len(taken) : taken[k] = Call(job[s])[job[s].at + k]
        /\ seen' = [seen EXCEPT ![s] = @ \cup Sightings(job[s], taken)]
        /\ job' = [job EXCEPT ![s] = job'[s]] /\ Outcome(job[s], job'[s], n)
    BY <2>2 DEF Posted
  <2>4. Len(taken) <= Len(Call(job[s]))
    BY <2>1, <2>3, CallTyped
  <2>5. \A e \in Sightings(job[s], taken) : ModsOf(StepOf(job[s]), e) /\ e.step = job[s].step
    BY <1>1, <2>1, <2>3, <2>4, SightedWithMods, SightingsAre
  <2>6. seen'[s] = seen[s] \cup Sightings(job[s], taken)
    BY <1>1, <2>3
  <2>7. job'[s].req = job[s].req
    BY <2>3 DEF Outcome
  <2>8. \A e \in seen'[s] : ModsOf(job'[s].req.steps[e.step], e)
    BY <1>1, <2>5, <2>6, <2>7 DEF StepOf
  <2>9. seen' = [seen EXCEPT ![s] = seen'[s]]
    BY <2>3, <2>6
  <2> QED BY <1>2, <2>3, <2>8, <2>9
<1>8. CASE Kill
  BY <1>8 DEF Kill, ModifiersNotLost
<1>9. CASE UNCHANGED vars
  BY <1>9 DEF vars, ModifiersNotLost
<1> QED BY <1>3, <1>5, <1>6, <1>7, <1>8, <1>9 DEF Next, Work

-----------------------------------------------------------------------------
(* Whatever goes down comes up.                                            *)

\* What is ahead of a job depends on the platform alone.
LEMMA SameAhead ==
    ASSUME platform' = platform
    PROVE  \A j, x : Ahead(j, x)' <=> Ahead(j, x)
BY SamePlatform DEF Ahead, Calls, StepOf, Works

\* Two calls of which the first fails: the second is made, or nothing was pressed.
LEMMA FirstOfTwo ==
    ASSUME NEW j \in Job, Walking(j), Works(j), Usable(StepOf(j)), j.batch = 1,
           Len(Calls(j)) = 2, ~ReleasesAnyway(StepOf(j)), NEW n \in Nat,
           n <= Len(NextEvents(j)), ~(j.ok /\ n = Len(NextEvents(j)))
    PROVE  n = 0 /\ j.at = 0
<1>1. Callable(StepOf(j)) /\ ~IsCombo(StepOf(j))
  BY WalkingStep DEF ReleasesAnyway
<1>2. platform = "macos" /\ Len(Calls(j)[1]) = 1
  BY <1>1, CallsOf DEF Calls
<1>3. Len(NextEvents(j)) = 1 /\ j.at < 1 /\ j.at \in Nat
  BY <1>2, RestIs, CallTyped DEF Call
<1>4. j.ok
  BY DEF Walking
<1> QED BY <1>3, <1>4

\* What a call puts down is released by what is left of it, or of the job; the
\* OS may refuse that.
LEMMA PressedIsOwed ==
    ASSUME TypeOK, Walks, NEW s \in Socket, Post(s), NEW n, NEW taken, Posted(s, n, taken),
           NEW x \in down', x \notin Button, NEW m \in 1..Len(taken),
           taken[m].item = x, taken[m].act = "down",
           \A l \in 1..Len(taken) : l > m /\ taken[l].item = x => taken[l].act # "up"
    PROVE  x \in stuck' \/ (job'[s].answer = "running" /\ Ahead(job'[s], x))
<1> DEFINE j == job[s]
           r == job'[s]
<1>1. /\ j \in Job /\ Walking(j) /\ Works(j) /\ Usable(StepOf(j)) /\ j.answer = "running"
  BY DEF Post, Walks, Works, TypeOK, Running
<1>2. /\ Callable(StepOf(j)) /\ j.at \in Nat /\ j.at < Len(Call(j)) /\ Len(Call(j)) \in Nat
      /\ DOMAIN Call(j) = 1..Len(Call(j)) /\ Len(Calls(j)) \in {1, 2}
      /\ j.batch \in 1..Len(Calls(j))
  BY <1>1, WalkingStep, CallTyped
<1>3. /\ n \in Nat /\ n <= Len(NextEvents(j)) /\ j.at + n <= Len(Call(j))
      /\ Len(taken) \in Nat /\ Len(taken) <= n
      /\ \A k \in 1..Len(taken) : taken[k] = Call(j)[j.at + k]
      /\ Len(taken) = 0 \/ Len(taken) = n
      /\ Outcome(j, r, n)
      /\ n < Len(NextEvents(j)) /\ (\E k \in DOMAIN Call(j) : k > j.at + n /\ Call(j)[k] = Event(x, "up"))
           => x \in stuck'
  BY DEF Posted
<1>4. m \in Nat /\ m >= 1 /\ m <= n /\ n = Len(taken) /\ n >= 1
  BY <1>3
<1>5. j.at + m \in DOMAIN Call(j) /\ Call(j)[j.at + m] = taken[m]
  BY <1>2, <1>3, <1>4
<1>6. CASE Len(Calls(j)) = 2
  <2>1. /\ \A k \in DOMAIN Calls(j)[1] : \E l \in DOMAIN Calls(j)[2] :
                 Calls(j)[2][l] = Event(Calls(j)[1][k].item, "up")
        /\ \A l \in DOMAIN Calls(j)[2] : Calls(j)[2][l].act = "up"
    BY <1>2, <1>6, CallsOf DEF Calls
  <2>2. j.batch = 1
    <3>1. j.batch # 2
      BY <1>5, <2>1 DEF Call
    <3> QED BY <1>2, <1>6, <3>1
  <2>3. \E l \in DOMAIN Calls(j)[2] : Calls(j)[2][l] = Event(x, "up")
    BY <1>5, <2>1, <2>2 DEF Call
  <2>4. r.req = j.req
    BY <1>3 DEF Outcome
  <2>5. ASSUME r.step = j.step
        PROVE  Calls(r) = Calls(j) /\ Works(r)
    BY <1>1, <2>4, <2>5 DEF Calls, Works, StepOf
  <2>6. CASE r.answer = j.answer /\ r.step = j.step /\ r.batch = j.batch /\ r.at = j.at + 1
    <3>1. r.at > 0
      BY <1>2, <2>6
    <3> QED BY <1>1, <1>6, <2>2, <2>3, <2>5, <2>6, <3>1 DEF Ahead
  <2>7. CASE r.answer = j.answer /\ r.step = j.step /\ r.batch = 2 /\ r.at = 0
    <3>1. PICK l \in DOMAIN Calls(j)[2] : Calls(j)[2][l] = Event(x, "up")
      BY <2>3
    <3>2. l > 0
      <4>1. Calls(j)[2] \in Seq(Ev)
        <5>1. Calls(j) \in Seq(Seq(Ev))
          BY <1>2, CallsOf DEF Calls
        <5> QED BY <5>1, <1>6
      <4> QED BY <4>1
    <3> QED BY <1>1, <2>5, <2>7, <3>1, <3>2 DEF Ahead
  <2>8. ASSUME ~(j.ok /\ n = Len(NextEvents(j))),
               ~(j.batch < Len(Calls(j)) /\ ReleasesAnyway(StepOf(j)))
        PROVE  FALSE
    <3>1. ~ReleasesAnyway(StepOf(j))
      BY <1>6, <2>2, <2>8
    <3>2. n = 0
      BY <1>1, <1>3, <1>6, <2>2, <2>8, <3>1, FirstOfTwo
    <3> QED BY <1>4, <3>2
  <2> QED BY <1>3, <1>6, <2>2, <2>6, <2>7, <2>8 DEF Outcome
<1>7. CASE Len(Calls(j)) = 1
  <2>1. j.batch = 1 /\ Call(j) = Calls(j)[1]
    BY <1>2, <1>7 DEF Call
  <2>2. /\ platform = "macos" => Len(Call(j)) = 1
        /\ \A k \in DOMAIN Call(j) :
             Call(j)[k].act = "down" /\ Call(j)[k].item \notin Button
               => /\ k = 1 /\ Len(Call(j)) = 2
                  /\ Call(j)[2] = Event(Call(j)[1].item, "up")
    BY <1>2, <1>7, <2>1, CallsOf DEF Calls
  <2>3. j.at + m = 1 /\ Len(Call(j)) = 2 /\ Call(j)[2] = Event(x, "up")
    BY <1>5, <2>2
  <2>4. j.at = 0 /\ m = 1
    BY <1>2, <1>4, <2>3
  <2>5. Len(NextEvents(j)) = 2
    <3>1. platform # "macos"
      BY <2>2, <2>3
    <3> QED BY <1>1, <2>3, <2>4, <3>1, RestIs
  <2>6. n = 1
    <3>1. n # 2
      <4>1. SUFFICES ASSUME n = 2 PROVE FALSE
        OBVIOUS
      <4>2. 2 \in 1..Len(taken)
        BY <1>4, <4>1
      <4>3. taken[2] = Call(j)[0 + 2]
        BY <1>3, <2>4, <4>2
      <4>4. taken[2] = Event(x, "up")
        BY <2>3, <4>3
      <4>5. taken[2].item = x /\ taken[2].act = "up" /\ 2 > m
        BY <4>4, <2>4, EventIs
      <4> QED BY <4>2, <4>5
    <3> QED BY <1>3, <1>4, <2>5, <3>1
  <2>7. 2 \in DOMAIN Call(j) /\ 2 > j.at + n
    BY <1>2, <2>3, <2>4, <2>6
  <2> QED BY <1>3, <2>3, <2>5, <2>6, <2>7
<1> QED BY <1>2, <1>6, <1>7

\* What a job has still to release stays ahead of it until it is released; the
\* OS may refuse that.
LEMMA StillOwed ==
    ASSUME TypeOK, Walks, Quiet, NEW s \in Socket, Post(s), NEW n, NEW taken,
           Posted(s, n, taken), NEW x \in down', x \in down, Ahead(job[s], x),
           \A k \in 1..Len(taken) : taken[k].item = x => taken[k].act # "up"
    PROVE  x \in stuck' \/ (job'[s].answer = "running" /\ Ahead(job'[s], x))
<1> DEFINE j == job[s]
           r == job'[s]
<1>1. /\ j \in Job /\ Walking(j) /\ Works(j) /\ Usable(StepOf(j)) /\ j.answer = "running"
  BY DEF Post, Walks, Works, TypeOK, Running
<1>2. /\ j.at \in Nat /\ j.at < Len(Call(j)) /\ Len(Call(j)) \in Nat
      /\ DOMAIN Call(j) = 1..Len(Call(j))
  BY <1>1, CallTyped
<1>3. /\ n \in Nat /\ n <= Len(NextEvents(j)) /\ j.at + n <= Len(Call(j))
      /\ \A k \in 1..Len(taken) : taken[k] = Call(j)[j.at + k]
      /\ Outcome(j, r, n)
      /\ n < Len(NextEvents(j)) /\ (\E k \in DOMAIN Call(j) : k > j.at + n /\ Call(j)[k] = Event(x, "up"))
           => x \in stuck'
  BY DEF Posted
<1>4. Len(taken) = n
  BY DEF Posted, Quiet
<1>5. Len(NextEvents(j)) \in Nat
  BY <1>1, RestIs
<1>6. r.req = j.req
  BY <1>3 DEF Outcome
<1>7. ASSUME r.step = j.step
      PROVE  Calls(r) = Calls(j) /\ Works(r)
  BY <1>1, <1>6, <1>7 DEF Calls, Works, StepOf
<1>8. CASE j.batch = 2
  <2>1. PICK k \in DOMAIN Call(j) : k > j.at /\ Call(j)[k] = Event(x, "up")
    BY <1>8 DEF Ahead, Call
  <2>2. k \in Nat /\ k <= Len(Call(j))
    BY <1>2
  <2>3. k > j.at + n
    <3>1. SUFFICES ASSUME k <= j.at + n PROVE FALSE
      BY <1>2, <1>3, <2>2
    <3>2. k - j.at \in 1..Len(taken) /\ j.at + (k - j.at) = k
      BY <1>2, <1>3, <1>4, <2>1, <2>2, <3>1
    <3>3. taken[k - j.at] = Event(x, "up")
      BY <1>3, <2>1, <3>2
    <3>4. taken[k - j.at].item = x /\ taken[k - j.at].act = "up"
      BY <3>3, EventIs
    <3> QED BY <3>2, <3>4
  <2>4. CASE n < Len(NextEvents(j))
    BY <1>3, <2>1, <2>3, <2>4
  <2>5. CASE n = Len(NextEvents(j))
    <3>1. j.at + n # Len(Call(j))
      BY <1>2, <1>3, <2>2, <2>3
    <3>2. /\ n = 1 /\ r.answer = j.answer
          /\ r.step = j.step /\ r.batch = j.batch /\ r.at = j.at + 1
      BY <1>3, <2>5, <3>1 DEF Outcome
    <3>3. k > r.at /\ k \in DOMAIN Calls(j)[2] /\ Calls(j)[2][k] = Event(x, "up")
      BY <1>8, <2>1, <2>3, <3>2 DEF Call
    <3> QED BY <1>1, <1>7, <1>8, <3>2, <3>3 DEF Ahead
  <2> QED BY <1>3, <1>5, <2>4, <2>5
<1>9. CASE j.batch = 1
  <2>1. /\ j.at > 0 /\ Len(Calls(j)) = 2
        /\ \E k \in DOMAIN Calls(j)[2] : Calls(j)[2][k] = Event(x, "up")
    BY <1>9 DEF Ahead
  <2>2. CASE r.answer = j.answer /\ r.step = j.step /\ r.batch = j.batch /\ r.at = j.at + 1
    <3>1. r.at > 0
      BY <1>2, <2>2
    <3> QED BY <1>1, <1>7, <1>9, <2>1, <2>2, <3>1 DEF Ahead
  <2>3. CASE r.answer = j.answer /\ r.step = j.step /\ r.batch = 2 /\ r.at = 0
    <3>1. PICK k \in DOMAIN Calls(j)[2] : Calls(j)[2][k] = Event(x, "up")
      BY <2>1
    <3>2. k > 0
      <4>1. Calls(j) \in Seq(Seq(Ev))
        BY <1>1, WalkingStep, CallsOf DEF Calls
      <4>2. Calls(j)[2] \in Seq(Ev)
        BY <4>1, <2>1
      <4> QED BY <4>2
    <3> QED BY <1>1, <1>7, <2>3, <3>1, <3>2 DEF Ahead
  <2>4. ASSUME ~(j.ok /\ n = Len(NextEvents(j))),
               ~(j.batch < Len(Calls(j)) /\ ReleasesAnyway(StepOf(j)))
        PROVE  FALSE
    <3>1. ~ReleasesAnyway(StepOf(j))
      BY <1>9, <2>1, <2>4
    <3>2. j.at = 0
      BY <1>1, <1>3, <1>9, <2>1, <2>4, <3>1, FirstOfTwo
    <3> QED BY <2>1, <3>2
  <2> QED BY <1>3, <1>9, <2>1, <2>2, <2>3, <2>4 DEF Outcome
<1> QED BY <1>8, <1>9 DEF Ahead

\* Every step keeps a release ahead of whatever is down.
LEMMA NextReleased ==
    ASSUME TypeOK, Walks, Quiet, Released, [Next]_vars
    PROVE  Released'
<1>1. job \in [Socket -> Job] /\ stuck \subseteq down
  BY DEF TypeOK
\* A step of one socket that leaves what is down to the others alone.
<1>2. ASSUME NEW s \in Socket, job' = [job EXCEPT ![s] = job'[s]], platform' = platform,
             \A x \in down' \ Button :
                \/ x \in stuck'
                \/ job'[s].answer = "running" /\ Ahead(job'[s], x)
                \/ \E t \in Socket : t # s /\ Owes(t, x)
      PROVE  Released'
  <2>1. \A t \in Socket : t # s => job'[t] = job[t]
    BY <1>1, <1>2
  <2>2. \A x : \A t \in Socket : t # s /\ Owes(t, x) => Owes(t, x)'
    BY <1>2, <2>1, SameAhead DEF Owes, Running
  <2>3. \A x : job'[s].answer = "running" /\ Ahead(job'[s], x) => Owes(s, x)'
    BY <1>2, SameAhead DEF Owes, Running
  <2> QED BY <1>2, <2>2, <2>3 DEF Released
<1>3. ASSUME NEW s \in Socket, job' = [job EXCEPT ![s] = job'[s]], platform' = platform,
             UNCHANGED <<down, stuck>>, \A x : ~Owes(s, x)
      PROVE  Released'
  BY <1>2, <1>3 DEF Released
<1>4. ASSUME NEW s \in Socket, NEW r \in Request, Ask(s, r) PROVE Released'
  BY <1>3, <1>4, AskIs DEF Owes
<1>5. ASSUME NEW s \in Socket, GiveUp(s) PROVE Released'
  <2> DEFINE j == job[s]
  <2>1. /\ Running(s) /\ job' = [job EXCEPT ![s] = job'[s]] /\ Works(j)
        /\ Usable(StepOf(j)) => platform = "macos" /\ StepOf(j).kind = "mouse" /\ j.batch = 1
        /\ UNCHANGED <<platform, down, stuck>>
    BY <1>5, GiveUpIs
  <2>2. j \in Job /\ Walking(j)
    BY <1>1, <2>1 DEF Walks
  <2>3. ASSUME NEW x, Ahead(j, x) PROVE FALSE
    <3>1. j.batch = 2 \/ j.at > 0
      BY <2>3 DEF Ahead
    <3>2. Usable(StepOf(j))
      BY <2>2, <3>1 DEF Walking
    <3>3. platform = "macos" /\ StepOf(j).kind = "mouse" /\ j.batch = 1
      BY <2>1, <3>2
    <3>4. Callable(StepOf(j)) /\ ~IsCombo(StepOf(j))
      BY <2>1, <2>2, <3>3, WalkingStep DEF IsCombo
    <3>5. Len(Calls(j)[1]) = 1
      BY <3>3, <3>4, CallsOf DEF Calls
    <3>6. j.at < Len(Calls(j)[1]) /\ j.at \in Nat
      BY <2>1, <2>2, <3>2, <3>3, CallTyped DEF Call
    <3> QED BY <3>1, <3>3, <3>5, <3>6
  <2> QED BY <1>3, <2>1, <2>3 DEF Owes
<1>6. ASSUME NEW s \in Socket, Sleep(s) PROVE Released'
  BY <1>3, <1>6, SleepIs DEF Owes, Ahead
<1>7. ASSUME NEW s \in Socket, Post(s) PROVE Released'
  <2>1. Running(s) /\ Walking(job[s]) /\ platform' = platform
    BY <1>7 DEF Post, Walks
  <2>2. PICK n, taken : Posted(s, n, taken)
    BY <1>7, <2>1, PostIs
  <2>3. /\ taken \in Seq(Ev) /\ down' = Applied(taken, down)
        /\ job' = [job EXCEPT ![s] = job'[s]]
        /\ \A x \in down' :
             x \in stuck /\ (\A k \in 1..Len(taken) : taken[k].item = x => taken[k].act # "down")
               => x \in stuck'
    BY <2>2 DEF Posted
  <2>4. ASSUME NEW x \in down', x \notin Button
        PROVE  \/ x \in stuck'
               \/ job'[s].answer = "running" /\ Ahead(job'[s], x)
               \/ \E t \in Socket : t # s /\ Owes(t, x)
    <3>1. \/ /\ x \in down
             /\ \A k \in 1..Len(taken) : taken[k].item = x => taken[k].act # "up"
          \/ \E m \in 1..Len(taken) :
               /\ taken[m].item = x /\ taken[m].act = "down"
               /\ \A l \in 1..Len(taken) : l > m /\ taken[l].item = x => taken[l].act # "up"
      BY <2>3, <2>4, AppliedIs
    <3>2. CASE \E m \in 1..Len(taken) :
               /\ taken[m].item = x /\ taken[m].act = "down"
               /\ \A l \in 1..Len(taken) : l > m /\ taken[l].item = x => taken[l].act # "up"
      BY <1>7, <2>2, <2>4, <3>2, PressedIsOwed
    <3>3. CASE /\ x \in down
               /\ \A k \in 1..Len(taken) : taken[k].item = x =>
                      taken[k].act # "up" /\ taken[k].act # "down"
      <4>1. x \in stuck \/ \E t \in Socket : Owes(t, x)
        BY <2>4, <3>3 DEF Released
      <4>2. CASE x \in stuck
        BY <2>3, <2>4, <3>3, <4>2
      <4>3. CASE \E t \in Socket : t # s /\ Owes(t, x)
        BY <4>3
      <4>4. CASE Owes(s, x)
        BY <1>7, <2>2, <2>4, <3>3, <4>4, StillOwed DEF Owes
      <4> QED BY <4>1, <4>2, <4>3, <4>4
    <3> QED BY <3>1, <3>2, <3>3
  <2> QED BY <1>2, <2>1, <2>3, <2>4
<1>8. CASE Kill
  <2>1. stuck' = down'
    BY <1>8 DEF Kill
  <2> QED BY <2>1 DEF Released
<1>9. CASE UNCHANGED vars
  <2>1. UNCHANGED <<platform, job, down, stuck>>
    BY <1>9 DEF vars
  <2>2. \A x : \A t \in Socket : Owes(t, x) => Owes(t, x)'
    BY <2>1, SameAhead DEF Owes, Running
  <2> QED BY <2>1, <2>2 DEF Released
<1> QED BY <1>4, <1>5, <1>6, <1>7, <1>8, <1>9 DEF Next, Work

-----------------------------------------------------------------------------
(* What is answered "ok" has been seen.                                    *)

\* What is to be seen depends on the platform alone.
LEMMA SameSeeing ==
    ASSUME platform' = platform
    PROVE  \A q, view : SawSoFar(q, view)' <=> SawSoFar(q, view)
<1>1. \A q, view, i : SawStep(q, view, i)' <=> SawStep(q, view, i)
  BY SamePlatform DEF SawStep
<1> QED BY <1>1, SamePlatform DEF SawSoFar, Calls, StepOf, Works

\* What has been seen stays seen.
LEMMA SeenMore ==
    ASSUME NEW view, NEW more, view \subseteq more
    PROVE  /\ \A i, b, k, event :
                SawEvent(view, i, b, k, event) => SawEvent(more, i, b, k, event)
           /\ \A q, i : SawStep(q, view, i) => SawStep(q, more, i)
<1>1. \A i, b, k, event :
        SawEvent(view, i, b, k, event) => SawEvent(more, i, b, k, event)
  BY DEF SawEvent
<1> QED BY <1>1 DEF SawStep

\* A job that has just come to a step owes no sighting for it.
LEMMA FreshSaw ==
    ASSUME NEW q \in Job, Walking(q), q.batch = 1, q.at = 0, q.answer = "running", NEW view,
           \A i \in DOMAIN q.req.steps : i < q.step => SawStep(q, view, i)
    PROVE  SawSoFar(q, view)
<1>1. ASSUME Works(q), NEW k \in DOMAIN Calls(q)[1], k <= 0 PROVE FALSE
  <2>1. Callable(StepOf(q)) /\ 1 \in DOMAIN Calls(q)
    BY <1>1, WalkingStep DEF Walking
  <2>2. Calls(q)[1] \in Seq(Ev)
    BY <2>1, CallsOf DEF Calls
  <2> QED BY <1>1, <2>2
<1> QED BY <1>1 DEF SawSoFar

\* A call adds the events that the OS has taken to what is seen.
LEMMA PostSees ==
    ASSUME TypeOK, Walks, ~Deaf, NEW s \in Socket, Post(s), NEW n, NEW taken,
           Posted(s, n, taken), SawSoFar(job[s], seen[s]), NEW view,
           view = seen[s] \cup Sightings(job[s], taken)
    PROVE  SawSoFar(job'[s], view)
<1> DEFINE j == job[s]
           r == job'[s]
<1>1. /\ j \in Job /\ Walking(j) /\ Works(j) /\ Usable(StepOf(j)) /\ j.answer = "running"
  BY DEF Post, Walks, Works, TypeOK, Running
<1>2. /\ j.at \in Nat /\ j.at < Len(Call(j)) /\ Len(Call(j)) \in Nat
      /\ DOMAIN Call(j) = 1..Len(Call(j)) /\ Len(Calls(j)) \in {1, 2}
      /\ DOMAIN Calls(j) = 1..Len(Calls(j)) /\ j.batch \in DOMAIN Calls(j)
  BY <1>1, CallTyped
<1>3. /\ n \in Nat /\ n <= Len(NextEvents(j)) /\ j.at + n <= Len(Call(j))
      /\ taken \in Seq(Ev) /\ Len(taken) = n
      /\ \A k \in 1..n : taken[k] = Call(j)[j.at + k]
      /\ Outcome(j, r, n)
  BY DEF Posted
<1>4. /\ j.req.steps \in Seq(Step) /\ DOMAIN j.req.steps = 1..Len(j.req.steps)
      /\ j.step \in Nat /\ 1 <= j.step /\ j.step <= Len(j.req.steps)
      /\ Len(j.req.steps) \in Nat
  BY <1>1, WalkingStep
<1>5. /\ \A i, b, k, event :
           SawEvent(seen[s], i, b, k, event) => SawEvent(view, i, b, k, event)
      /\ \A q, i : SawStep(q, seen[s], i) => SawStep(q, view, i)
  BY SeenMore
<1>6. \A i \in DOMAIN j.req.steps : i < j.step => SawStep(j, view, i)
  BY <1>1, <1>5 DEF SawSoFar
<1>7. ASSUME j.ok, NEW k \in DOMAIN Call(j), k <= j.at + n
      PROVE  SawEvent(view, j.step, j.batch, k, Call(j)[k])
  <2>1. CASE k <= j.at
    <3>1. SawEvent(seen[s], j.step, j.batch, k, Call(j)[k])
      BY <1>1, <1>7, <2>1 DEF SawSoFar, Call
    <3> QED BY <3>1, <1>5
  <2>2. CASE k > j.at
    <3>1. k - j.at \in 1..n /\ j.at + (k - j.at) = k
      BY <1>2, <1>3, <1>7, <2>2
    <3>2. taken[k - j.at] = Call(j)[k]
      BY <1>3, <3>1
    <3>3. PICK l \in 1..Len(taken) : l = k - j.at
      BY <1>3, <3>1
    <3>4. SawEvent(Sightings(j, taken), j.step, j.batch, j.at + l, taken[l])
      BY <1>3, <3>3, SightedAll, Zenon
    <3>5. SawEvent(Sightings(j, taken), j.step, j.batch, k, Call(j)[k])
      BY <3>1, <3>2, <3>3, <3>4
    <3>6. Sightings(j, taken) \subseteq view
      OBVIOUS
    <3> QED BY <3>5, <3>6, SeenMore
  <2> QED BY <1>2, <1>7, <2>1, <2>2
<1>8. ASSUME j.ok, j.batch = 2, NEW k \in DOMAIN Calls(j)[1]
      PROVE  SawEvent(view, j.step, 1, k, Calls(j)[1][k])
  BY <1>1, <1>5, <1>8 DEF SawSoFar
<1>9. r \in Job /\ r.req = j.req
  BY <1>3 DEF Outcome
<1>10. \A i : SawStep(j, view, i) => SawStep(r, view, i)
  BY <1>9 DEF SawStep
<1>11. CASE /\ j.at + n < Len(Call(j)) /\ n = 1 /\ r.answer = j.answer
            /\ r.step = j.step /\ r.batch = j.batch /\ r.at = j.at + 1 /\ r.ok = j.ok
  <2>1. Calls(r) = Calls(j) /\ Works(r)
    BY <1>1, <1>9, <1>11 DEF Calls, Works, StepOf
  <2>2. r.at = j.at + n
    BY <1>11
  <2>3. \A i \in DOMAIN r.req.steps : i < r.step => SawStep(r, view, i)
    BY <1>6, <1>9, <1>10, <1>11
  <2>4. ASSUME r.ok
        PROVE  /\ \A k \in DOMAIN Calls(r)[r.batch] :
                    k <= r.at => SawEvent(view, r.step, r.batch, k, Calls(r)[r.batch][k])
               /\ r.batch = 2 =>
                    \A k \in DOMAIN Calls(r)[1] : SawEvent(view, r.step, 1, k, Calls(r)[1][k])
    <3>1. j.ok
      BY <1>11, <2>4
    <3>2. \A k \in DOMAIN Calls(r)[r.batch] :
                    k <= r.at => SawEvent(view, r.step, r.batch, k, Calls(r)[r.batch][k])
      BY <1>7, <1>11, <2>1, <2>2, <3>1 DEF Call
    <3>3. r.batch = 2 =>
            \A k \in DOMAIN Calls(r)[1] : SawEvent(view, r.step, 1, k, Calls(r)[1][k])
      BY <1>8, <1>11, <2>1, <3>1
    <3> QED BY <3>2, <3>3
  <2>5. r.answer # "ok"
    BY <1>1, <1>11
  <2> QED BY <2>3, <2>4, <2>5 DEF SawSoFar
<1>12. CASE /\ j.batch = 1 /\ Len(Calls(j)) = 2 /\ r.answer = j.answer
            /\ r.step = j.step /\ r.batch = 2 /\ r.at = 0
            /\ r.ok => j.ok /\ n = Len(NextEvents(j))
            /\ n = Len(NextEvents(j)) => j.at + n = Len(Call(j))
  <2>1. Calls(r) = Calls(j) /\ Works(r)
    BY <1>1, <1>9, <1>12 DEF Calls, Works, StepOf
  <2>2. \A i \in DOMAIN r.req.steps : i < r.step => SawStep(r, view, i)
    BY <1>6, <1>9, <1>10, <1>12
  <2>3. ASSUME r.ok, NEW k \in DOMAIN Calls(r)[1]
        PROVE  SawEvent(view, r.step, 1, k, Calls(r)[1][k])
    <3>1. j.ok /\ j.at + n = Len(Call(j)) /\ Call(j) = Calls(j)[1]
      BY <1>12, <2>3 DEF Call
    <3>2. k \in DOMAIN Call(j) /\ k <= j.at + n
      BY <1>2, <2>1, <2>3, <3>1
    <3> QED BY <1>7, <1>12, <2>1, <3>1, <3>2
  <2>4. ASSUME NEW k \in DOMAIN Calls(r)[2], k <= 0 PROVE FALSE
    <3>1. Callable(StepOf(j)) /\ 2 \in DOMAIN Calls(j)
      BY <1>1, <1>2, <1>12, WalkingStep
    <3>2. Calls(j)[2] \in Seq(Ev)
      BY <3>1, CallsOf DEF Calls
    <3> QED BY <2>1, <2>4, <3>2
  <2>5. r.answer # "ok"
    BY <1>1, <1>12
  <2> QED BY <1>12, <2>2, <2>3, <2>4, <2>5 DEF SawSoFar
\* The step is over: every call of it has been seen.
<1>13. ASSUME j.ok, j.batch = Len(Calls(j)), j.at + n = Len(Call(j))
       PROVE  SawStep(j, view, j.step)
  <2>1. ASSUME NEW k \in DOMAIN Call(j)
        PROVE  SawEvent(view, j.step, j.batch, k, Call(j)[k])
    <3>1. k <= j.at + n
      BY <1>2, <1>13, <2>1
    <3> QED BY <1>7, <1>13, <3>1
  <2>2. \A b \in DOMAIN Calls(j) : b = j.batch \/ (b = 1 /\ j.batch = 2)
    <3> DEFINE l == Len(Calls(j))
    <3>1. (l = 1 \/ l = 2) /\ DOMAIN Calls(j) = 1..l /\ j.batch = l
      BY <1>2, <1>13
    <3> HIDE DEF l
    <3> QED BY <3>1
  <2>3. ASSUME NEW b \in DOMAIN Calls(j), NEW k \in DOMAIN Calls(j)[b]
        PROVE  SawEvent(view, j.step, b, k, Calls(j)[b][k])
    <3>1. CASE b = j.batch
      BY <2>1, <2>3, <3>1 DEF Call
    <3>2. CASE b = 1 /\ j.batch = 2
      BY <1>8, <1>13, <2>3, <3>2
    <3> QED BY <2>2, <3>1, <3>2
  <2> QED BY <2>3 DEF SawStep, Calls, StepOf
<1>14. CASE /\ j.ok /\ n = Len(NextEvents(j)) /\ j.batch = Len(Calls(j))
            /\ j.step < Len(j.req.steps) /\ r.answer = j.answer
            /\ r.step = j.step + 1 /\ r.batch = 1 /\ r.at = 0 /\ r.ok
            /\ n = Len(NextEvents(j)) => j.at + n = Len(Call(j))
  <2>1. SawStep(j, view, j.step)
    BY <1>13, <1>14
  <2>2. ASSUME NEW i \in DOMAIN r.req.steps, i < r.step PROVE SawStep(r, view, i)
    <3>1. i < j.step \/ i = j.step
      <4>1. i \in Nat /\ j.step \in Nat /\ i < j.step + 1
        BY <1>4, <1>9, <1>14, <2>2
      <4> HIDE DEF j
      <4> QED BY <4>1
    <3> QED BY <1>6, <1>9, <1>10, <2>1, <2>2, <3>1
  <2>3. Walking(r)
    BY <1>1, <1>3, <1>14, OutcomeWalks
  <2> QED BY <1>1, <1>9, <1>14, <2>2, <2>3, FreshSaw
<1>15. CASE /\ j.ok /\ n = Len(NextEvents(j)) /\ j.batch = Len(Calls(j))
            /\ j.step = Len(j.req.steps) /\ r.answer = "ok" /\ r.step = j.step
            /\ n = Len(NextEvents(j)) => j.at + n = Len(Call(j))
  <2>1. SawStep(j, view, j.step)
    BY <1>13, <1>15
  <2>2. ASSUME NEW i \in DOMAIN r.req.steps PROVE SawStep(r, view, i)
    <3>1. i < j.step \/ i = j.step
      BY <1>4, <1>9, <1>15, <2>2
    <3> QED BY <1>6, <1>9, <1>10, <2>1, <2>2, <3>1
  <2> QED BY <1>15, <2>2 DEF SawSoFar
<1>16. CASE r.answer = "injection_failed"
  BY <1>16 DEF SawSoFar
<1> QED BY <1>3, <1>11, <1>12, <1>14, <1>15, <1>16 DEF Outcome

\* Every step keeps what has been seen.
LEMMA NextSeeing ==
    ASSUME TypeOK, Walks, Seeing, [Next]_vars
    PROVE  Seeing'
<1>1. job \in [Socket -> Job] /\ seen \in [Socket -> SUBSET Sighting]
  BY DEF TypeOK, Sighting
<1>2. ASSUME NEW s \in Socket, job' = [job EXCEPT ![s] = job'[s]],
             UNCHANGED <<platform, permitted>>,
             seen' = [seen EXCEPT ![s] = seen'[s]],
             ~Deaf => SawSoFar(job'[s], seen'[s])
      PROVE  Seeing'
  <2>1. \A t \in Socket : t # s => job'[t] = job[t] /\ seen'[t] = seen[t]
    BY <1>1, <1>2
  <2>2. ~Deaf => \A t \in Socket : SawSoFar(job'[t], seen'[t])
    BY <1>2, <2>1 DEF Seeing
  <2>3. Deaf' <=> Deaf
    BY <1>2 DEF Deaf
  <2> QED BY <1>2, <2>2, <2>3, SameSeeing DEF Seeing
<1>3. ASSUME NEW s \in Socket, NEW r \in Request, Ask(s, r) PROVE Seeing'
  <2>1. /\ job' = [job EXCEPT ![s] = job'[s]]
        /\ job'[s] \in Job /\ job'[s].req = r
        /\ job'[s].step = 1 /\ job'[s].batch = 1 /\ job'[s].at = 0 /\ job'[s].ok = TRUE
        /\ \/ job'[s].answer = "bad_request"
           \/ job'[s].answer = "ok" /\ r.steps = <<>>
           \/ job'[s].answer = "running" /\ Valid(r) /\ r.steps # <<>>
        /\ seen' = [seen EXCEPT ![s] = {}]
        /\ UNCHANGED <<platform, permitted>>
    BY <1>3, AskIs
  <2>2. r.steps \in Seq(Step) /\ DOMAIN r.steps = 1..Len(r.steps)
    BY StepsTyped
  <2>3. CASE job'[s].answer = "running" /\ Valid(r) /\ r.steps # <<>>
    <3>1. 1 \in DOMAIN r.steps
      BY <2>2, <2>3
    <3>2. Walking(job'[s])
      BY <2>1, <2>3, <3>1, FreshWalks
    <3>3. \A i \in DOMAIN r.steps : ~(i < 1)
      BY <2>2
    <3>4. SawSoFar(job'[s], seen'[s])
      BY <2>1, <2>3, <3>2, <3>3, FreshSaw
    <3>5. seen' = [seen EXCEPT ![s] = seen'[s]]
      BY <1>1, <2>1
    <3> QED BY <1>2, <2>1, <3>4, <3>5
  <2>4. CASE job'[s].answer = "bad_request" \/ (job'[s].answer = "ok" /\ r.steps = <<>>)
    <3>1. job'[s].answer = "ok" => DOMAIN r.steps = {}
      BY <2>4
    <3>2. SawSoFar(job'[s], seen'[s])
      BY <2>1, <2>4, <3>1 DEF SawSoFar
    <3>3. seen' = [seen EXCEPT ![s] = seen'[s]]
      BY <1>1, <2>1
    <3> QED BY <1>2, <2>1, <3>2, <3>3
  <2> QED BY <2>1, <2>3, <2>4
<1>4. ASSUME NEW s \in Socket, GiveUp(s) PROVE Seeing'
  <2>1. /\ job' = [job EXCEPT ![s] = job'[s]] /\ job'[s].answer = "injection_failed"
        /\ UNCHANGED <<platform, permitted, seen>>
    BY <1>4, GiveUpIs
  <2>2. SawSoFar(job'[s], seen'[s])
    BY <2>1 DEF SawSoFar
  <2>3. seen' = [seen EXCEPT ![s] = seen'[s]]
    BY <1>1, <2>1
  <2> QED BY <1>2, <2>1, <2>2, <2>3
<1>5. ASSUME NEW s \in Socket, Sleep(s) PROVE Seeing'
  <2> DEFINE j == job[s]
             r == job'[s]
  <2>1. /\ Running(s) /\ ~Works(j) /\ job' = [job EXCEPT ![s] = r] /\ Advances(j, r)
        /\ UNCHANGED <<platform, permitted, seen>>
    BY <1>5, SleepIs
  <2>2. j \in Job /\ Walking(j) /\ j.answer = "running"
    BY <1>1, <2>1 DEF Walks, Running
  <2>3. /\ DOMAIN j.req.steps = 1..Len(j.req.steps) /\ Len(j.req.steps) \in Nat
        /\ j.step \in Nat
    BY <2>2, WalkingStep
  <2>4. ASSUME ~Deaf PROVE SawSoFar(r, seen[s])
    <3>1. \A i \in DOMAIN j.req.steps : i < j.step => SawStep(j, seen[s], i)
      BY <2>2, <2>4 DEF Seeing, SawSoFar
    <3>2. SawStep(j, seen[s], j.step)
      BY <2>1 DEF SawStep, Works, StepOf
    <3>3. r \in Job /\ r.req = j.req
      BY <2>1 DEF Advances
    <3>4. \A i : SawStep(j, seen[s], i) => SawStep(r, seen[s], i)
      BY <3>3 DEF SawStep
    <3>5. \A i \in DOMAIN r.req.steps : i < j.step + 1 => SawStep(r, seen[s], i)
      <4>1. ASSUME NEW i \in DOMAIN r.req.steps, i < j.step + 1 PROVE i < j.step \/ i = j.step
        BY <2>3, <3>3, <4>1
      <4> QED BY <3>1, <3>2, <3>3, <3>4, <4>1
    <3>6. CASE r.answer = j.answer /\ r.step = j.step + 1 /\ r.batch = 1 /\ r.at = 0
      <4>1. Walking(r)
        BY <2>1, <2>2, <3>6, AdvancesWalks
      <4> QED BY <2>2, <3>3, <3>5, <3>6, <4>1, FreshSaw
    <3>7. CASE j.step = Len(j.req.steps) /\ r.answer = "ok"
      <4>1. \A i \in DOMAIN r.req.steps : i < j.step + 1
        BY <2>3, <3>3, <3>7
      <4> QED BY <3>5, <3>7, <4>1 DEF SawSoFar
    <3>8. CASE r.answer = "injection_failed"
      BY <3>8 DEF SawSoFar
    <3> QED BY <2>1, <3>6, <3>7, <3>8 DEF Advances
  <2>5. seen'[s] = seen[s] /\ seen' = [seen EXCEPT ![s] = seen'[s]]
    BY <1>1, <2>1
  <2> QED BY <1>2, <2>1, <2>4, <2>5
<1>6. ASSUME NEW s \in Socket, Post(s) PROVE Seeing'
  <2>1. Running(s) /\ Walking(job[s]) /\ UNCHANGED <<platform, permitted>>
    BY <1>6 DEF Post, Walks
  <2>2. PICK n, taken : Posted(s, n, taken)
    BY <1>6, <2>1, PostIs
  <2>3. /\ seen' = [seen EXCEPT ![s] = @ \cup Sightings(job[s], taken)]
        /\ job' = [job EXCEPT ![s] = job'[s]]
    BY <2>2 DEF Posted
  <2>4. /\ seen'[s] = seen[s] \cup Sightings(job[s], taken)
        /\ seen' = [seen EXCEPT ![s] = seen'[s]]
    BY <1>1, <2>3
  <2>5. ASSUME ~Deaf PROVE SawSoFar(job'[s], seen'[s])
    <3>1. SawSoFar(job[s], seen[s])
      BY <2>5 DEF Seeing
    <3> QED BY <1>6, <2>2, <2>4, <2>5, <3>1, PostSees
  <2> QED BY <1>2, <2>1, <2>3, <2>4, <2>5
<1>7. CASE Kill
  <2>1. \A t \in Socket : job'[t] = NoJob
    BY <1>7 DEF Kill
  <2>2. \A t \in Socket : job'[t].answer # "running" /\ job'[t].answer # "ok"
    BY <2>1, NoJobTyped
  <2>3. platform' = platform
    BY <1>7 DEF Kill
  <2>4. \A t \in Socket : SawSoFar(job'[t], seen'[t])
    BY <2>2 DEF SawSoFar
  <2> QED BY <2>3, <2>4, SameSeeing DEF Seeing
<1>8. CASE UNCHANGED vars
  <2>1. UNCHANGED <<platform, permitted, job, seen>>
    BY <1>8 DEF vars
  <2>2. ~Deaf => \A t \in Socket : SawSoFar(job'[t], seen'[t])
    BY <2>1 DEF Seeing
  <2> QED BY <2>1, <2>2, SameSeeing DEF Seeing, Deaf
<1> QED BY <1>3, <1>4, <1>5, <1>6, <1>7, <1>8 DEF Next, Work

-----------------------------------------------------------------------------
(* The invariant, and what follows from it.                                *)

\* The invariant holds at first.
LEMMA InitInputInv == Init => InputInv
<1> SUFFICES ASSUME Init PROVE InputInv
  OBVIOUS
<1>1. TypeOK /\ Walks
  BY InitTyped
<1>2. down = {} /\ \A s \in Socket : job[s] = NoJob /\ seen[s] = {}
  BY DEF Init
<1>3. \A s \in Socket : job[s].answer = "not asked"
  BY <1>2, NoJobTyped
<1>4. Quiet /\ Released
  BY <1>2 DEF Quiet, Released
<1>5. ModifiersNotLost /\ RefusedLeavesNothing
  BY <1>2 DEF ModifiersNotLost, RefusedLeavesNothing
<1>6. Seeing
  BY <1>3 DEF Seeing, SawSoFar
<1> QED BY <1>1, <1>4, <1>5, <1>6 DEF InputInv

\* The invariant is inductive.
LEMMA NextInputInv == InputInv /\ [Next]_vars => InputInv'
<1> SUFFICES ASSUME InputInv, [Next]_vars PROVE InputInv'
  OBVIOUS
<1>1. TypeOK /\ Walks /\ Quiet /\ Released /\ ModifiersNotLost /\ RefusedLeavesNothing /\ Seeing
  BY DEF InputInv
<1>2. TypeOK' /\ Walks'
  BY <1>1, NextTyped
<1>3. Quiet' /\ Released'
  BY <1>1, NextQuiet, NextReleased
<1>4. ModifiersNotLost' /\ RefusedLeavesNothing'
  BY <1>1, NextMods, NextRefused
<1>5. Seeing'
  BY <1>1, NextSeeing
<1> QED BY <1>2, <1>3, <1>4, <1>5 DEF InputInv

\* The invariant holds throughout.
LEMMA InputInvariant == Spec => []InputInv
BY InitInputInv, NextInputInv, PTL DEF Spec

\* Every variable keeps its type and no walk leaves its request: a running
\* request is at one of its steps (the loop of inject_sequence).
THEOREM TypeCorrect == Spec => []TypeOK
<1>1. InputInv => TypeOK
  BY DEF InputInv
<1> QED BY <1>1, InputInvariant, PTL

\* Once nothing is under way, no key and no command is down but those whose
\* release the OS refused or the daemon was killed before: the release that
\* every backend sends whatever became of the press.
THEOREM NothingLatchedCorrect == Spec => []NothingLatched
<1>1. InputInv => NothingLatched
  BY DEF InputInv, Released, Owes, NothingLatched
<1> QED BY <1>1, InputInvariant, PTL

\* No key is seen without a modifier that its combo lists before it, however
\* many sockets inject at once: the press batch of Windows and Linux, and the
\* flags of macOS.
THEOREM ModifiersCorrect == Spec => []ModifiersNotLost
<1>1. InputInv => ModifiersNotLost
  BY DEF InputInv
<1> QED BY <1>1, InputInvariant, PTL

\* A request that is answered "ok" has had every press, every release and every
\* movement of every step taken by the OS, each at its place in its call: a release
\* that failed after a good press is not answered "ok".
THEOREM InjectedCorrect == Spec => []OkMeansInjected
<1>1. InputInv => OkMeansInjected
  <2> SUFFICES ASSUME InputInv, NEW s \in Socket, job[s].answer = "ok", ~Deaf,
                      NEW i \in DOMAIN job[s].req.steps,
                      job[s].req.steps[i].kind # "delay",
                      NEW b \in DOMAIN Batches(job[s].req.steps[i]),
                      NEW k \in DOMAIN Batches(job[s].req.steps[i])[b]
               PROVE  SawEvent(seen[s], i, b, k, Batches(job[s].req.steps[i])[b][k])
    BY DEF OkMeansInjected, Deaf, SawEvent
  <2>1. SawStep(job[s], seen[s], i)
    BY DEF InputInv, Seeing, SawSoFar
  <2> QED BY <2>1 DEF SawStep
<1> QED BY <1>1, InputInvariant, PTL

\* A request that is refused as malformed has put nothing on the desktop: a
\* sequence is validated to its last step before its first is injected.
THEOREM RefusedCorrect == Spec => []RefusedLeavesNothing
<1>1. InputInv => RefusedLeavesNothing
  BY DEF InputInv
<1> QED BY <1>1, InputInvariant, PTL

-----------------------------------------------------------------------------
(* What the prover can say of the end of a request.                        *)

\* Job r is further on than job j: at a later step, at the second call of the
\* step, or further on in the call.
FurtherOn(j, r) ==
    /\ r.req = j.req
    /\ \/ r.step > j.step
       \/ r.step = j.step /\ r.batch > j.batch
       \/ r.step = j.step /\ r.batch = j.batch /\ r.at > j.at

\* Whatever becomes of a running request, it goes on or ends.
GoesOn == \A s \in Socket :
    Running(s) /\ job'[s] # job[s] => job'[s].answer # "running" \/ FurtherOn(job[s], job'[s])

\* The safety half of Answered, for requests of any length: no step of the program
\* makes a request begin again or stay where it is, neither a pause nor a failure
\* nor a call that the OS takes in parts; and there is an end to how far a request
\* can come, its last step, two calls and the events of a call (inject_sequence).
THEOREM WalkAdvances == Spec => []Walks /\ [][GoesOn]_vars
<1>1. ASSUME InputInv, [Next]_vars PROVE [GoesOn]_vars
  <2>1. TypeOK /\ Walks /\ job \in [Socket -> Job]
    BY <1>1 DEF InputInv, TypeOK
  <2>2. \A s \in Socket : job[s].step \in Nat /\ job[s].batch \in {1, 2} /\ job[s].at \in Nat
    BY <2>1 DEF Job
\* A step of one socket: the others' jobs stay.
  <2>3. ASSUME NEW s \in Socket, job' = [job EXCEPT ![s] = job'[s]],
               Running(s) => job'[s].answer # "running" \/ FurtherOn(job[s], job'[s])
        PROVE  GoesOn
    <3>1. \A t \in Socket : t # s => job'[t] = job[t]
      BY <2>1, <2>3
    <3> QED BY <2>3, <3>1 DEF GoesOn
  <2>4. ASSUME NEW s \in Socket, NEW r \in Request, Ask(s, r) PROVE GoesOn
    BY <2>1, <2>3, <2>4, AskIs
  <2>5. ASSUME NEW s \in Socket, GiveUp(s) PROVE GoesOn
    <3>1. job' = [job EXCEPT ![s] = job'[s]] /\ job'[s].answer = "injection_failed"
      BY <2>1, <2>5, GiveUpIs
    <3> QED BY <2>3, <3>1
  <2>6. ASSUME NEW s \in Socket, Sleep(s) PROVE GoesOn
    <3>1. job' = [job EXCEPT ![s] = job'[s]] /\ Advances(job[s], job'[s])
      BY <2>1, <2>6, SleepIs
    <3>2. job'[s].answer # "running" \/ FurtherOn(job[s], job'[s])
      BY <2>2, <3>1 DEF Advances, FurtherOn
    <3> QED BY <2>3, <3>1, <3>2
  <2>7. ASSUME NEW s \in Socket, Post(s) PROVE GoesOn
    <3>1. Running(s) /\ Walking(job[s])
      BY <2>1, <2>7 DEF Post, Walks
    <3>2. PICK n, taken : Posted(s, n, taken)
      BY <2>1, <2>7, <3>1, PostIs
    <3>3. job' = [job EXCEPT ![s] = job'[s]] /\ Outcome(job[s], job'[s], n)
      BY <3>2 DEF Posted
    <3>4. job'[s].answer # "running" \/ FurtherOn(job[s], job'[s])
      BY <2>2, <3>3 DEF Outcome, FurtherOn
    <3> QED BY <2>3, <3>3, <3>4
  <2>8. CASE Kill
    <3>1. \A t \in Socket : job'[t] = NoJob
      BY <2>8 DEF Kill
    <3>2. \A t \in Socket : job'[t].answer # "running"
      BY <3>1, NoJobTyped
    <3> QED BY <3>2 DEF GoesOn
  <2> QED BY <1>1, <2>4, <2>5, <2>6, <2>7, <2>8 DEF Next, Work
<1>2. InputInv => Walks
  BY DEF InputInv
<1> QED BY <1>1, <1>2, InitInputInv, NextInputInv, PTL DEF Spec

-----------------------------------------------------------------------------
(* One socket alone.                                                       *)

\* Nothing has been seen of the steps to come, and what has been seen of a combo
\* that is pressed or held is down.
Holding(q, view, pressed) ==
    q.answer = "running" =>
        /\ \A e \in view : e.step <= q.step
        /\ q.ok /\ (q.batch = 1 \/ q.at = 0) /\ IsCombo(StepOf(q)) =>
             \A e \in view : e.step = q.step => e.item \in pressed

Held == \A s \in Socket : Holding(job[s], seen[s], down)

\* A job that has just come to a step has seen nothing of it.
LEMMA NextStepHolds ==
    ASSUME NEW j \in Job, NEW q \in Job, q.step = j.step + 1, NEW view,
           \A e \in view : e.step \in Nat /\ e.step <= j.step, NEW pressed
    PROVE  Holding(q, view, pressed)
<1>1. j.step \in Nat
  BY DEF Job
<1>2. \A e \in view : e.step <= q.step /\ e.step # q.step
  BY <1>1
<1> QED BY <1>2 DEF Holding

\* The press of a combo takes nothing from what is down, and what is seen of it is
\* down.
LEMMA PressHolds ==
    ASSUME TypeOK, NEW s \in Socket, Walking(job[s]), Works(job[s]), Usable(StepOf(job[s])),
           IsCombo(StepOf(job[s])), job[s].batch = 1, NEW n, NEW taken, Posted(s, n, taken)
    PROVE  /\ down \subseteq down'
           /\ \A e \in Sightings(job[s], taken) : e.item \in down'
<1> DEFINE j == job[s]
<1>1. j \in Job /\ Callable(StepOf(j))
  BY WalkingStep DEF TypeOK
<1>2. \A k \in DOMAIN Calls(j)[1] : Calls(j)[1][k].act = "down"
  <2>1. \A k \in DOMAIN Calls(j)[1] : Calls(j)[1][k] = Event(Codes(StepOf(j))[k], "down")
    BY <1>1, ComboCalls DEF Calls
  <2> QED BY <2>1, EventIs
<1>3. /\ j.at \in Nat /\ DOMAIN Call(j) = 1..Len(Call(j)) /\ Len(Call(j)) \in Nat
      /\ Call(j) = Calls(j)[1]
  BY <1>1, CallTyped DEF Call
<1>4. /\ taken \in Seq(Ev) /\ Len(taken) \in Nat /\ Len(taken) <= n /\ n \in Nat
      /\ j.at + n <= Len(Call(j)) /\ down' = Applied(taken, down)
      /\ \A k \in 1..Len(taken) : taken[k] = Call(j)[j.at + k]
  BY DEF Posted
<1>5. ASSUME NEW k \in 1..Len(taken) PROVE taken[k].act = "down"
  <2>1. j.at + k \in DOMAIN Call(j)
    <3> DEFINE at == j.at
               c == Len(Call(j))
               t == Len(taken)
    <3>1. at \in Nat /\ c \in Nat /\ t \in Nat /\ n \in Nat /\ t <= n /\ at + n <= c
      BY <1>3, <1>4
    <3>2. k \in 1..t
      OBVIOUS
    <3> HIDE DEF at, c, t
    <3>3. at + k \in 1..c
      BY <3>1, <3>2
    <3> QED BY <1>3, <3>3 DEF at, c
  <2> QED BY <1>2, <1>3, <1>4, <2>1
<1>6. \A k \in 1..Len(taken) : taken[k].act # "up"
  BY <1>5
<1>7. down \subseteq down'
  BY <1>4, <1>6, AppliedIs
<1>8. ASSUME NEW e \in Sightings(j, taken) PROVE e.item \in down'
  <2>1. PICK k \in 1..Len(taken) : e.item = taken[k].item
    BY <1>4, SightingsAre
  <2>2. taken[k].act = "down"
    BY <1>5
  <2> QED BY <1>4, <1>6, <2>1, <2>2, AppliedIs
<1> QED BY <1>7, <1>8

\* What Post makes of a job that holds.
LEMMA PostHolds ==
    ASSUME TypeOK, Walks, NEW s \in Socket, Post(s), NEW n, NEW taken,
           Posted(s, n, taken), Holding(job[s], seen[s], down), NEW view,
           view = seen[s] \cup Sightings(job[s], taken)
    PROVE  Holding(job'[s], view, down')
<1> DEFINE j == job[s]
           r == job'[s]
<1>1. /\ j \in Job /\ Walking(j) /\ Works(j) /\ Usable(StepOf(j)) /\ j.answer = "running"
  BY DEF Post, Walks, Works, TypeOK, Running
<1>2. taken \in Seq(Ev) /\ Outcome(j, r, n)
  BY DEF Posted
<1>3. r \in Job /\ r.req = j.req
  BY <1>2 DEF Outcome
<1>4. \A e \in Sightings(j, taken) : e.step = j.step
  BY <1>2, SightingsAre
<1>5. ASSUME NEW e \in view PROVE e.step \in Nat /\ e.step <= j.step
  <2>1. j.step \in Nat
    BY <1>1 DEF Job
  <2>2. CASE e \in seen[s]
    <3>1. e \in Sighting
      BY <2>2 DEF TypeOK
    <3>2. e.step \in Nat
      BY <3>1 DEF Sighting
    <3> QED BY <1>1, <2>2, <3>2 DEF Holding
  <2>3. CASE e \in Sightings(j, taken)
    BY <1>4, <2>1, <2>3
  <2> QED BY <2>2, <2>3
\* The combo is pressed by this call: what was down of it stays down.
<1>6. ASSUME IsCombo(StepOf(j)), j.batch = 1, j.ok
      PROVE  \A e \in view : e.step = j.step => e.item \in down'
  <2>1. \A e \in seen[s] : e.step = j.step => e.item \in down
    BY <1>1, <1>6 DEF Holding
  <2>2. down \subseteq down' /\ \A e \in Sightings(j, taken) : e.item \in down'
    BY <1>1, <1>6, PressHolds
  <2> QED BY <2>1, <2>2
<1>7. CASE r.step = j.step + 1
  BY <1>1, <1>3, <1>5, <1>7, NextStepHolds
<1>8. CASE r.answer # "running"
  BY <1>8 DEF Holding
<1>9. CASE /\ r.step = j.step /\ r.batch = j.batch /\ r.at = j.at + 1 /\ r.ok = j.ok
  <2>1. StepOf(r) = StepOf(j)
    BY <1>3, <1>9 DEF StepOf
  <2>2. r.at # 0
    BY <1>1, <1>9 DEF Job
  <2> QED BY <1>5, <1>6, <1>9, <2>1, <2>2 DEF Holding
<1>10. CASE j.batch = 1 /\ r.step = j.step /\ (r.ok => j.ok)
  <2>1. StepOf(r) = StepOf(j)
    BY <1>3, <1>10 DEF StepOf
  <2> QED BY <1>5, <1>6, <1>10, <2>1 DEF Holding
<1> QED BY <1>2, <1>7, <1>8, <1>9, <1>10 DEF Outcome

\* Every step of a socket that is alone leaves what is held in place.
LEMMA NextHeld ==
    ASSUME TypeOK, Walks, Held, \A s, t \in Socket : s = t, [Next]_vars
    PROVE  Held'
<1>1. job \in [Socket -> Job] /\ seen \in [Socket -> SUBSET Sighting]
  BY DEF TypeOK, Sighting
<1>2. ASSUME NEW s \in Socket, Holding(job'[s], seen'[s], down')
      PROVE  Held'
  BY <1>2 DEF Held
<1>3. ASSUME NEW s \in Socket, NEW r \in Request, Ask(s, r) PROVE Held'
  <2>1. seen' = [seen EXCEPT ![s] = {}]
    BY <1>3, AskIs
  <2>2. seen'[s] = {}
    BY <1>1, <2>1
  <2> QED BY <1>2, <2>2 DEF Holding
<1>4. ASSUME NEW s \in Socket, GiveUp(s) PROVE Held'
  <2>1. job'[s].answer = "injection_failed"
    BY <1>4, GiveUpIs
  <2> QED BY <1>2, <2>1 DEF Holding
<1>5. ASSUME NEW s \in Socket, Sleep(s) PROVE Held'
  <2>1. /\ Running(s) /\ Advances(job[s], job'[s]) /\ seen'[s] = seen[s]
    BY <1>5, SleepIs
  <2>2. job[s] \in Job /\ job'[s] \in Job
    BY <1>1, <2>1 DEF Advances
  <2>3. \A e \in seen[s] : e.step \in Nat /\ e.step <= job[s].step
    BY <1>1, <2>1 DEF Held, Holding, Running, Sighting
  <2>4. CASE job'[s].step = job[s].step + 1
    BY <1>2, <2>1, <2>2, <2>3, <2>4, NextStepHolds
  <2>5. CASE job'[s].answer # "running"
    BY <1>2, <2>5 DEF Holding
  <2> QED BY <2>1, <2>4, <2>5 DEF Advances
<1>6. ASSUME NEW s \in Socket, Post(s) PROVE Held'
  <2>1. Running(s) /\ Walking(job[s])
    BY <1>6 DEF Post, Walks
  <2>2. PICK n, taken : Posted(s, n, taken)
    BY <1>6, <2>1, PostIs
  <2>3. seen'[s] = seen[s] \cup Sightings(job[s], taken)
    BY <1>1, <2>2 DEF Posted
  <2>4. Holding(job[s], seen[s], down)
    BY DEF Held
  <2> QED BY <1>2, <1>6, <2>2, <2>3, <2>4, PostHolds
<1>7. CASE Kill
  <2>1. \A t \in Socket : job'[t] = NoJob
    BY <1>7 DEF Kill
  <2>2. \A t \in Socket : job'[t].answer # "running"
    BY <2>1, NoJobTyped
  <2> QED BY <2>2 DEF Held, Holding
<1>8. CASE UNCHANGED vars
  BY <1>8 DEF vars, Held, Holding
<1> QED BY <1>3, <1>4, <1>5, <1>6, <1>7, <1>8 DEF Next, Work

\* With one socket KeyCombo::hold_ms is right on all four platforms: whatever was
\* pressed for a combo is down while it is held, of a press that the OS was given
\* event by event too.  Only another socket can take a key from under it.
THEOREM HoldCorrect ==
    ASSUME \A s, t \in Socket : s = t
    PROVE  Spec => []HoldsEntireCombo
<1>1. Init => Held
  <2> SUFFICES ASSUME Init PROVE Held
    OBVIOUS
  <2>1. \A s \in Socket : seen[s] = {}
    BY DEF Init
  <2> QED BY <2>1 DEF Held, Holding
<1>2. InputInv /\ Held /\ [Next]_vars => Held'
  BY NextHeld DEF InputInv
<1>3. Held => HoldsEntireCombo
  BY DEF Held, Holding, HoldsEntireCombo, Running
<1> QED BY <1>1, <1>2, <1>3, InitInputInv, NextInputInv, PTL DEF Spec

=============================================================================
