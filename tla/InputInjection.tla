--------------------------- MODULE InputInjection ---------------------------
(***************************************************************************)
(* From an input.* request to the desktop: the dispatch layer              *)
(* (input_dispatch.rs) and the backends of the four platforms              *)
(* (muxdeck-input).                                                        *)
(*                                                                         *)
(* Each socket awaits its own request, so that it has at most one, but     *)
(* every backend call runs on a blocking thread of its own: the calls of   *)
(* two sockets interleave wherever a backend lets go of the OS.  Windows   *)
(* and Linux hand a batch of events to the OS in one call, macOS one event *)
(* at a time.  The OS may take only the first events of a batch.           *)
(*                                                                         *)
(* A request is a record [op, steps]; the steps of a key_sequence are its  *)
(* own, every other operation is one step, or one per character for a text *)
(* that is typed with pauses.  Payloads that do not parse, pointer         *)
(* coordinates and key code tables are left out, except for which keys and *)
(* commands a platform has.                                                *)
(***************************************************************************)
EXTENDS Naturals, Sequences, FiniteSets, SequencesExt

CONSTANTS Socket,         \* The connections that send input.
          Modifier,       \* CONTROL, SHIFT, ALT, META.
          Plain,          \* Keys every keyboard has.
          PcKey,          \* Keys Apple keyboards never had.
          Button,         \* Mouse buttons.
          Command,        \* Media commands every platform has.
          Stop,           \* The media command macOS lacks.
          Request,        \* The requests that sockets may send.
          MaxSequenceMs,  \* 30 000 in the code.
          MaxTextLen,     \* 4096 in the code.
          MaxRequests,    \* Bound: the requests sent in a behaviour.
          MaxKills        \* Bound: the times the daemon is killed.

Key == Modifier \cup Plain \cup PcKey
Item == Key \cup Button \cup Command \cup {Stop, "text", "pointer"}
Platform == {"windows", "macos", "linux", "none"}

\* What a request may have its backend do; the payloads that parse.
Step == [kind : {"combo"}, keys : Seq(Key), hold : Nat]
          \cup [kind : {"delay"}, ms : Nat]
          \cup [kind : {"text"}, chars : Nat]
          \cup [kind : {"media"}, command : Command \cup {Stop}]
          \cup [kind : {"mouse"}, action : {"move", "click", "down", "up"}, button : Button]

IsCombo(step) == step.kind = "combo"

ASSUME InputAssumption ==
  /\ MaxRequests \in Nat /\ MaxKills \in Nat
  /\ \A r \in Request :
       /\ r.op \in {"key_combo", "key_sequence", "text", "media", "mouse"}
       /\ r.steps \in Seq(Step)
       /\ \A i \in DOMAIN r.steps : IsCombo(r.steps[i]) =>
            r.op = "key_sequence" \/ (r.op = "key_combo" /\ i = 1)

Answer == {"not asked", "running", "ok", "bad_request", "injection_failed"}

VARIABLES
  platform,   \* The platform the daemon was built for.
  permitted,  \* uinput could be opened, Accessibility was granted.
  job,        \* job[s]: the last request of s and how far it has come.
  seen,       \* seen[s]: the events the desktop was given for that request.
  down,       \* The keys, buttons and commands that are down.
  stuck,      \* Those whose release the OS refused, or nobody will send.
  asked,      \* The number of requests so far.
  kills       \* The number of kills so far.

vars == <<platform, permitted, job, seen, down, stuck, asked, kills>>

NoRequest == [op |-> "none", steps |-> <<>>]
NoJob == [req |-> NoRequest, step |-> 1, batch |-> 1, at |-> 0, ok |-> TRUE,
          answer |-> "not asked"]

\* An event, its place in the request (the step, the call and the event of the
\* call), and the modifiers the desktop saw with it.
Sighting == [step : Nat, batch : {1, 2}, at : Nat, item : Item, act : {"down", "up", "move"},
             mods : SUBSET Modifier]

Job == [req : Request \cup {NoRequest}, step : Nat, batch : {1, 2}, at : Nat,
        ok : BOOLEAN, answer : Answer]

TypeOK ==
  /\ platform \in Platform
  /\ permitted \in BOOLEAN
  /\ job \in [Socket -> Job]
  /\ \A s \in Socket : job[s].answer = "running" =>
                         job[s].step \in DOMAIN job[s].req.steps
  /\ seen \in [Socket -> SUBSET Sighting]
  /\ \A s \in Socket : \A e \in seen[s] : e.step \in DOMAIN job[s].req.steps
  /\ down \subseteq Item
  /\ stuck \subseteq down

\* What preflight may find: Windows asks for no permission, and no backend
\* is never permitted.
Preflight ==
  {p \in BOOLEAN : (platform = "windows" => p) /\ (platform = "none" => ~p)}

Init ==
  /\ platform \in Platform
  /\ permitted \in Preflight
  /\ job = [s \in Socket |-> NoJob]
  /\ seen = [s \in Socket |-> {}]
  /\ down = {}
  /\ stuck = {}
  /\ asked = 0
  /\ kills = 0

-----------------------------------------------------------------------------
(* Requests and their validation, before anything is injected.             *)

Chars(n) == [kind |-> "text", chars |-> n]
Pause(t) == [kind |-> "delay", ms |-> t]

\* A text typed with a pause after every character.
Paced(n, t) ==
  [op |-> "text",
   steps |-> [i \in 1..(2 * n) |-> IF i % 2 = 1 THEN Chars(1) ELSE Pause(t)]]

\* KeyCombo::validate.
ValidCombo(step) ==
  /\ step.keys # <<>>
  /\ Cardinality({i \in DOMAIN step.keys : step.keys[i] \notin Modifier}) <= 1

\* A delay lasts its time, a combo is held for its own.
Duration(step) ==
  IF step.kind = "delay" THEN step.ms ELSE IF IsCombo(step) THEN step.hold ELSE 0

\* The time a sequence takes, and the length of a text.
TotalMs(steps) == FoldSeq(LAMBDA step, sum : Duration(step) + sum, 0, steps)

TextLen(steps) ==
  FoldSeq(LAMBDA step, sum : (IF step.kind = "text" THEN step.chars ELSE 0) + sum,
          0, steps)

\* As Valid, but a sequence leaves its combos to their turn.
Valid_TotalOnly(r) ==
  /\ r.op = "key_sequence" => TotalMs(r.steps) <= MaxSequenceMs
  /\ r.op = "key_combo" => ValidCombo(r.steps[1])
  /\ r.op = "text" => TextLen(r.steps) <= MaxTextLen

Valid(r) ==
  /\ r.op = "key_sequence" =>
       /\ \A i \in DOMAIN r.steps : IsCombo(r.steps[i]) => ValidCombo(r.steps[i])
       /\ TotalMs(r.steps) <= MaxSequenceMs
  /\ r.op = "key_combo" => ValidCombo(r.steps[1])
  /\ r.op = "text" => TextLen(r.steps) <= MaxTextLen

-----------------------------------------------------------------------------
(* What a backend makes of a step.                                         *)

Event(item, act) == [item |-> item, act |-> act]
Each(items, act) == [n \in DOMAIN items |-> Event(items[n], act)]

\* Windows has every key and command, Linux has no text and no pointer,
\* macOS lacks some keys and a command.
WindowsHas(step) == TRUE
LinuxHas(step) == step.kind \in {"combo", "media"}
MacosHas(step) ==
  /\ IsCombo(step) => \A i \in DOMAIN step.keys : step.keys[i] \notin PcKey
  /\ step.kind = "media" => step.command # Stop

\* What the backend of this platform can express at all.
Expressible(step) ==
  /\ platform = "windows" => WindowsHas(step)
  /\ platform = "linux" => LinuxHas(step)
  /\ platform = "macos" => MacosHas(step)
  /\ platform # "none"

\* As Codes, but the modifiers go last.
Codes_KeyFirst(step) ==
  LET others == ToSet(step.keys) \ Modifier
  IN  IF platform = "macos" /\ others # {} THEN <<CHOOSE k \in others : TRUE>>
      ELSE Reverse(step.keys)

\* On macOS modifiers are flags of the event of the one key that is none, and
\* keys only in a combo that has no other.
Codes(step) ==
  LET others == ToSet(step.keys) \ Modifier
  IN  IF platform = "macos" /\ others # {} THEN <<CHOOSE k \in others : TRUE>>
      ELSE step.keys

\* One call with both events, or two calls.
TapOf(item) ==
  IF platform = "macos"
  THEN << <<Event(item, "down")>>, <<Event(item, "up")>> >>
  ELSE << <<Event(item, "down"), Event(item, "up")>> >>

Batches(step) ==
  IF IsCombo(step) THEN << Each(Codes(step), "down"), Each(Reverse(Codes(step)), "up") >>
  ELSE IF step.kind = "text" THEN TapOf("text")
  ELSE IF step.kind = "media" THEN TapOf(step.command)
  ELSE IF step.action = "click" THEN TapOf(step.button)
  ELSE IF step.action = "move" THEN << <<Event("pointer", "move")>> >>
  ELSE << <<Event(step.button, step.action)>> >>

\* As ReleasesAnyway, but a failed press is returned at once.
ReleasesAnyway_Never(step) == FALSE

\* Whether the second call is made when the first has failed.
ReleasesAnyway(step) ==
  IsCombo(step) \/ (step.kind = "mouse" /\ step.action = "click")

\* The modifiers the desktop sees with an event when pressed is what is down.
ModsSeen(step, pressed) ==
  Modifier \cap (IF platform # "macos" THEN pressed
                 ELSE IF IsCombo(step) THEN ToSet(step.keys) ELSE {})

-----------------------------------------------------------------------------
(* The walk through the steps.                                             *)

Running(s) == job[s].answer = "running"
StepOf(j) == j.req.steps[j.step]

\* As Advance, but the last step is not told from the others.
Advance_PastEnd(j) ==
  IF ~j.ok THEN [j EXCEPT !.answer = "injection_failed"]
  ELSE [j EXCEPT !.step = @ + 1, !.batch = 1, !.at = 0]

\* As Advance, but a pause or a step never moves the walk on.
Advance_Repeats(j) ==
  IF ~j.ok THEN [j EXCEPT !.answer = "injection_failed"]
  ELSE IF j.step < Len(j.req.steps)
       THEN [j EXCEPT !.batch = 1, !.at = 0]
       ELSE [j EXCEPT !.answer = "ok"]

\* The first failing step ends the request; so does the last step.
Advance(j) ==
  IF ~j.ok THEN [j EXCEPT !.answer = "injection_failed"]
  ELSE IF j.step < Len(j.req.steps)
       THEN [j EXCEPT !.step = @ + 1, !.batch = 1, !.at = 0]
       ELSE [j EXCEPT !.answer = "ok"]

\* As Failed, but a failed release is not looked at.
Failed_PressOnly(j) == IF j.batch = 2 THEN j ELSE [j EXCEPT !.ok = FALSE]

\* The OS has refused an event: the request will not be answered "ok".
Failed(j) == [j EXCEPT !.ok = FALSE]

\* After a call: the second one of the step, unless the backend gives up.
EndBatch(j) ==
  IF j.batch < Len(Batches(StepOf(j))) /\ (j.ok \/ ReleasesAnyway(StepOf(j)))
  THEN [j EXCEPT !.batch = 2, !.at = 0]
  ELSE Advance(j)

\* The events of the call under way that the OS has not been given.
Rest(j) == SubSeq(Batches(StepOf(j))[j.batch], j.at + 1,
                  Len(Batches(StepOf(j))[j.batch]))

\* Those the next call to the OS carries.
NextEvents(j) == IF platform = "macos" THEN <<Head(Rest(j))>> ELSE Rest(j)

ItemsOf(events, act) == {e.item : e \in {f \in ToSet(events) : f.act = act}}

\* The events that put an item down and are not followed by its release.
LastDown(events) ==
  {m \in DOMAIN events :
     /\ events[m].act = "down"
     /\ \A l \in DOMAIN events :
          l > m /\ events[l].item = events[m].item => events[l].act # "up"}

\* What is down once the OS has taken the events.
Applied(events, pressed) ==
  (pressed \ ItemsOf(events, "up")) \cup {events[m].item : m \in LastDown(events)}

\* The events as the desktop sees them.
Sightings(j, events) ==
  {[step |-> j.step, batch |-> j.batch, at |-> j.at + n,
    item |-> events[n].item, act |-> events[n].act,
    mods |-> ModsSeen(StepOf(j), Applied(SubSeq(events, 1, n), down))] :
       n \in DOMAIN events}

-----------------------------------------------------------------------------
(* Actions.                                                                *)

\* A request arrives; an invalid one is answered at once, an empty sequence too.
Ask(s, r) ==
  /\ ~Running(s)
  /\ asked < MaxRequests
  /\ asked' = asked + 1
  /\ seen' = [seen EXCEPT ![s] = {}]
  /\ job' = [job EXCEPT ![s] =
       [NoJob EXCEPT !.req = r,
                     !.answer = IF ~Valid(r) THEN "bad_request"
                                ELSE IF r.steps = <<>> THEN "ok" ELSE "running"]]
  /\ UNCHANGED <<platform, permitted, down, stuck, kills>>

\* A combo is validated once more when its turn comes.
Usable(step) == (IsCombo(step) => ValidCombo(step)) /\ Expressible(step)

\* A step ends before the OS is given anything: it is malformed, the backend
\* cannot express it, or on macOS cannot read where the pointer is.
GiveUp(s) ==
  /\ Running(s)
  /\ LET step == StepOf(job[s])
     IN  /\ step.kind # "delay"
         /\ Usable(step) =>
              platform = "macos" /\ step.kind = "mouse" /\ job[s].batch = 1
         /\ job' = [job EXCEPT ![s].ok = FALSE,
                              ![s].answer = IF IsCombo(step) /\ ~ValidCombo(step)
                                            THEN "bad_request" ELSE "injection_failed"]
  /\ UNCHANGED <<platform, permitted, seen, down, stuck, asked, kills>>

\* The pause of a sequence or between two characters.
Sleep(s) ==
  /\ Running(s)
  /\ StepOf(job[s]).kind = "delay"
  /\ job' = [job EXCEPT ![s] = Advance(job[s])]
  /\ UNCHANGED <<platform, permitted, seen, down, stuck, asked, kills>>

\* The OS takes the first n of the events it is given.  Without Accessibility
\* macOS takes them all and does nothing; without uinput there is no device.
Taken(s, n) ==
  LET j == job[s]
      events == NextEvents(j)
      taken == IF platform = "macos" /\ ~permitted THEN <<>> ELSE SubSeq(events, 1, n)
      whole == n = Len(events)
      more == [j EXCEPT !.at = @ + n]
      last == more.at = Len(Batches(StepOf(j))[j.batch])
  IN  /\ platform = "linux" /\ ~permitted => n = 0
      /\ down' = Applied(taken, down)
      /\ stuck' = down' \cap ((stuck \ ItemsOf(taken, "down"))
                    \cup (IF whole THEN {} ELSE ItemsOf(SubSeq(Rest(j), n + 1, Len(Rest(j))), "up")))
      /\ seen' = [seen EXCEPT ![s] = @ \cup Sightings(j, taken)]
      /\ job' = [job EXCEPT ![s] = IF ~whole THEN EndBatch(Failed(j))
                                   ELSE IF last THEN EndBatch(more) ELSE more]

Post(s) ==
  /\ Running(s)
  /\ StepOf(job[s]).kind # "delay"
  /\ Usable(StepOf(job[s]))
  /\ \E n \in 0..Len(NextEvents(job[s])) : Taken(s, n)
  /\ UNCHANGED <<platform, permitted, asked, kills>>

\* The daemon is killed, and started again: the kernel drops the virtual
\* keyboard with everything it holds, the other desktops keep it.
Kill ==
  /\ kills < MaxKills
  /\ kills' = kills + 1
  /\ job' = [s \in Socket |-> NoJob]
  /\ seen' = [s \in Socket |-> {}]
  /\ down' = IF platform = "linux" THEN {} ELSE down
  /\ stuck' = down'
  /\ UNCHANGED <<platform, permitted, asked>>

Work(s) == GiveUp(s) \/ Sleep(s) \/ Post(s)

Next ==
  \/ \E s \in Socket : \/ \E r \in Request : Ask(s, r)
                       \/ Work(s)
  \/ Kill

\* The runtime drives every task that can run, and blocking calls return.
Fairness == \A s \in Socket : WF_vars(Work(s))

Spec == Init /\ [][Next]_vars /\ Fairness

-----------------------------------------------------------------------------
(* Properties.                                                             *)

\* No key stays down behind a request: once nothing is under way, a key or a
\* command is down only if the OS refused its release or the daemon was
\* killed before it.  Release is unconditional in every backend: "a latched
\* modifier is a desktop nobody can use".
NothingLatched ==
  (\A s \in Socket : ~Running(s)) => down \ Button \subseteq stuck

\* A key reaches the desktop with every modifier that the combo lists before
\* it, on every platform and whatever the other sockets do: the press batch
\* is one call, or its modifiers are flags of the event.
ModifiersNotLost ==
  \A s \in Socket : \A e \in seen[s] :
    LET step == job[s].req.steps[e.step]
    IN  IsCombo(step) /\ e.act = "down" =>
          \A n \in DOMAIN step.keys :
            step.keys[n] = e.item /\ e.item \notin ToSet(SubSeq(step.keys, 1, n - 1))
              => ToSet(SubSeq(step.keys, 1, n)) \cap Modifier \subseteq e.mods

\* A request that is answered "ok" has been injected to its last event: every
\* press, release and movement of every step reached the desktop, so that no failure
\* of any of them is lost on the way to the answer, a release's after a good press
\* included.  Where preflight fails on macOS the OS itself does not tell.
OkMeansInjected ==
  \A s \in Socket :
    job[s].answer = "ok" /\ ~(platform = "macos" /\ ~permitted) =>
      \A i \in DOMAIN job[s].req.steps :
        LET batches == Batches(job[s].req.steps[i])
        IN  job[s].req.steps[i].kind # "delay" =>
              \A b \in DOMAIN batches : \A n \in DOMAIN batches[b] :
                \E e \in seen[s] : /\ e.step = i /\ e.batch = b /\ e.at = n
                                   /\ e.item = batches[b][n].item
                                   /\ e.act = batches[b][n].act

\* A request that is refused as malformed has put nothing on the desktop,
\* whichever of its steps was malformed: a sequence is not run half way.
RefusedLeavesNothing ==
  \A s \in Socket : job[s].answer = "bad_request" => seen[s] = {}

\* KeyCombo::hold_ms "holds the entire combo, every key down, before
\* releasing": while a combo is held, whatever was pressed for it is down.
HoldsEntireCombo ==
  \A s \in Socket :
    LET j == job[s]
    IN  (Running(s) /\ j.batch = 2 /\ j.at = 0 /\ j.ok /\ IsCombo(StepOf(j)))
          => {e.item : e \in {f \in seen[s] : f.step = j.step}} \subseteq down

\* Every request is answered in the end.
Answered == \A s \in Socket : Running(s) ~> ~Running(s)

=============================================================================
